------------------------- MODULE MCEventStoreProcs -------------------------
(* Versions of a replaceable slot (with a tie), one of which SQLite        *)
(* refuses, requests to delete them, one of which raises, a version of     *)
(* another slot whose SELECT raises, and a note.                           *)
EXTENDS EventStoreProcs

CONSTANTS daemon, sync

Event(i, t, k) ==
    [id |-> i, pubkey |-> "ann", created_at |-> t, kind |-> k, tags |-> <<>>]

DelVersions == [Event(6, 2, 5) EXCEPT !.tags = << <<"a", <<15128, "ann", "">>>> >>]

Refused == [Event(2, 2, 15128) EXCEPT !.tags = << <<"t", "x">> >>]

Unnamed == Event(7, 1, 35128)

(* Raises at the coordinate, which has no number in it. *)
DelRaises == [Event(8, 2, 5) EXCEPT
                !.tags = << <<"e", 1>>, <<"a", <<-1, "ann", "">>>> >>]

World == {Event(1, 1, 15128), Event(3, 2, 15128), Refused, Unnamed, DelVersions, DelRaises}
NotBound == {Refused, Unnamed}
NotDone  == {DelRaises}

None == {}

Few == {Event(1, 1, 15128), Event(2, 2, 15128), Event(5, 1, 1)}

MCLetters == {"t"}
=============================================================================
