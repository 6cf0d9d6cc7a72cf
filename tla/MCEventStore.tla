---------------------------- MODULE MCEventStore ----------------------------
(***************************************************************************)
(* A small world of events for TLC: two authors, a replaceable slot, two   *)
(* addressable slots, one with a created_at tie, an ephemeral event, and   *)
(* deletion requests that name by id, by coordinate, and another author's  *)
(* events.                                                                 *)
(***************************************************************************)
EXTENDS EventStore

Event(i, author, t, k, ts) ==
    [id |-> i, pubkey |-> author, created_at |-> t, kind |-> k, tags |-> ts]

Profile1 == Event(1, "bob", 1, 0, << <<"t", "x">>, <<"t", "y">> >>)
Profile2 == Event(2, "bob", 2, 0, << <<"t", "x">> >>)
Site3    == Event(3, "ann", 1, 35128, << <<"d", "site">> >>)
Site4    == Event(4, "ann", 1, 35128, << <<"d", "site">>, <<"server", "s">> >>)
Blog     == Event(5, "ann", 1, 35128, << <<"d", "blog">>, <<"d", "site">> >>)
Site6    == Event(6, "ann", 2, 35128, << <<"d", "site">>, <<"t", "x">> >>)
Typing   == Event(8, "bob", 1, 20001, <<>>)
DelSite  == Event(9, "ann", 3, 5, << <<"a", <<35128, "ann", "site">>>> >>)
DelOther == Event(10, "bob", 3, 5,
                  << <<"e", 4>>, <<"a", <<0, "bob", "">>>>, <<"a", <<35128, "ann", "blog">>>> >>)
DelDels  == Event(11, "ann", 4, 5, << <<"a", <<5, "ann", "">>>> >>)

(* A coordinate whose kind is not a number, beside two good ones. *)
DelPart  == Event(12, "ann", 3, 5,
                  << <<"e", 5>>, <<"a", <<35128, "ann", "site">>>>,
                     <<"a", <<-1, "ann", "">>>> >>)

MCLetters == {"t", "d", "e", "a"}

(* Replacement, a tie, deletions by id and by coordinate, another author's *)
(* deletion request; the insert of Site6 fails, and so does the            *)
(* processing of DelPart.                                                  *)
World    == {Site3, Site4, Site6, Blog, Profile1, Profile2, DelOther, DelPart, Typing}
Broken   == {Site6}
PartDone == {DelPart}

DeletionWorld == {Site3, Site4, DelSite, DelDels}

None == {}
=============================================================================
