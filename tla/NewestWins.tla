----------------------------- MODULE NewestWins -----------------------------
(***************************************************************************)
(* What the event store promises: for every slot a register, empty or      *)
(* holding one event, that only moves to a newer version and that only a   *)
(* deletion request of the event's author empties.  What was accepted is   *)
(* durable.  An event the store cannot write may leave its register empty  *)
(* or with the event in it, for readers, and a deletion request it cannot  *)
(* carry out may leave some of the registers it names empty, until another *)
(* event is accepted or the store is opened again; nothing else of them is *)
(* ever seen.                                                              *)
(***************************************************************************)
CONSTANTS
    Events,             \* the events that may be accepted
    Unwritable,         \* those that cannot be written
    Unfinishable,       \* deletion requests that cannot be carried out
    Slot(_),            \* the register an event is written to
    Newer(_, _),        \* the version order
    Empties(_, _)       \* a deletion request names an event of its author

VARIABLES
    latest,     \* what is read
    durable     \* what is read after the store is opened again

Slots == {Slot(e) : e \in Events}

Init ==
    /\ latest = [s \in Slots |-> {}]
    /\ durable = latest

Wins(e) == \A f \in latest[Slot(e)] : Newer(e, f)

(* The register of the event's slot takes it; if it is a deletion request, *)
(* the registers it names are emptied, its own included.                   *)
Accept(e) ==
    /\ Wins(e)
    /\ latest' =
         [s \in Slots |->
            {f \in (IF s = Slot(e) THEN {e} ELSE latest[s]) : ~Empties(e, f)}]
    /\ durable' = latest'

Break(e) ==
    /\ e \in Unwritable
    /\ Wins(e)
    /\ \E S \in {{}, {e}} : latest' = [latest EXCEPT ![Slot(e)] = S]
    /\ UNCHANGED durable

Abandon(e) ==
    /\ e \in Unfinishable
    /\ Wins(e)
    /\ \E S \in SUBSET {f \in Events : Empties(e, f)} :
          latest' = [s \in Slots |-> (IF s = Slot(e) THEN {e} ELSE latest[s]) \ S]
    /\ UNCHANGED durable

Reopen == latest' = durable /\ UNCHANGED durable

Next == Reopen \/ \E e \in Events : Accept(e) \/ Break(e) \/ Abandon(e)

Spec == Init /\ [][Next]_<<latest, durable>>
=============================================================================
