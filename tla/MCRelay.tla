------------------------------ MODULE MCRelay ------------------------------
(* A note, a replaceable event, an ephemeral one, a forged one and one     *)
(* with a tag SQLite refuses; filters that name kinds, one with a limit    *)
(* over the relay's, one with a `since` that is no number.                 *)
EXTENDS Relay

Event(i, t, k) ==
    [id |-> i, pubkey |-> "ann", created_at |-> t, kind |-> k, tags |-> <<>>]

Note     == Event(1, 1, 1)
Profile1 == Event(2, 1, 0)
Typing   == Event(4, 1, 20001)
Forged   == Event(5, 1, 1)
Profile2 == [Event(3, 2, 0) EXCEPT !.tags = <<<<"t", "list">>>>]

MCLetters == {"t"}

AllKinds == [kinds |-> {0, 1, 20001}]
Latest3  == [kinds |-> {0, 1}, limit |-> 3]
SinceAbc == [kinds |-> {1, 20001}, since |-> 99]

SomeEvents == {Note, Profile1, Profile2, Typing, Forged}
Refused    == {Profile2}
FewEvents  == {Note, Typing}
Bad        == {Forged}
AskBadly   == {{Latest3, SinceAbc}}
AskAll     == {{AllKinds}}
=============================================================================
