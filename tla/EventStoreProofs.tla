-------------------------- MODULE EventStoreProofs --------------------------
(***************************************************************************)
(* Machine-checked proofs about the event store and its relay.             *)
(*  1. EventStore, one connection: type correctness, one version per slot, *)
(*     convergence, an exact tag index, no loss without a reason, and the  *)
(*     refinement of NewestWins, for any set of events.                    *)
(*  2. EventStoreProcs: two processes that meet between any two statements *)
(*     of store(), deletion requests included.                             *)
(*  3. Relay: the guardrails, the hub, and that no live subscriber is      *)
(*     missed, for any sockets, subscription ids, filters and limits.      *)
(***************************************************************************)
EXTENDS EventStore, EventStoreProcs, Relay, FiniteSetTheorems, TLAPS

-----------------------------------------------------------------------------
(* Newest-first is a strict total order on events. *)
LEMMA BeatsAsymmetric ==
    ASSUME NEW e \in Events, NEW f \in Events, Beats(e, f)
    PROVE  ~Beats(f, e) /\ e # f
BY EventsAssumption DEF Beats

LEMMA BeatsTransitive ==
    ASSUME NEW e \in Events, NEW f \in Events, NEW g \in Events,
           Beats(e, f), Beats(f, g)
    PROVE  Beats(e, g)
BY EventsAssumption DEF Beats

LEMMA BeatsTotal ==
    ASSUME NEW e \in Events, NEW f \in Events, e # f
    PROVE  Beats(e, f) \/ Beats(f, e)
BY EventsAssumption DEF Beats

(* A slot belongs to one author; a regular event has it to itself. *)
LEMMA SlotOwner ==
    ASSUME NEW e \in Events, NEW f \in Events, Slot(e) = Slot(f)
    PROVE  e.pubkey = f.pubkey
<1>1. CASE classify(e.kind) \notin {"replaceable", "addressable"}
  <2>1. Slot(e) = <<e.id>>
    BY <1>1 DEF Slot
  <2>2. Slot(f) = <<f.id>>
    BY <2>1 DEF Slot
  <2>3. e.id = f.id
    BY <2>1, <2>2, <<e.id>>[1] = e.id, <<f.id>>[1] = f.id
  <2> QED BY <2>3, EventsAssumption
<1>2. CASE classify(e.kind) = "replaceable"
  BY <1>2 DEF Slot
<1>3. CASE classify(e.kind) = "addressable"
  BY <1>3 DEF Slot
<1> QED BY <1>1, <1>2, <1>3

LEMMA SlotRegular ==
    ASSUME NEW e \in Events, NEW f \in Events, Slot(e) = Slot(f),
           classify(e.kind) = "regular"
    PROVE  e = f
<1>1. Slot(e) = <<e.id>>
  BY DEF Slot
<1>2. Slot(f) = <<f.id>>
  BY <1>1 DEF Slot
<1>3. e.id = f.id
  BY <1>1, <1>2, <<e.id>>[1] = e.id, <<f.id>>[1] = f.id
<1> QED BY <1>3, EventsAssumption

LEMMA DeletionIsRegular == classify(5) = "regular"
BY DEF classify

(* An ephemeral event shares its slot with no event that may be stored. *)
LEMMA SlotPersistent ==
    ASSUME NEW e \in Events, NEW f \in Events, Slot(e) = Slot(f),
           classify(f.kind) # "ephemeral"
    PROVE  classify(e.kind) # "ephemeral"
<1> SUFFICES ASSUME classify(e.kind) = "ephemeral" PROVE FALSE
  OBVIOUS
<1>1. Slot(e) = <<e.id>>
  BY DEF Slot
<1>2. Slot(f) = <<f.id>>
  BY <1>1 DEF Slot
<1>3. e.id = f.id
  BY <1>1, <1>2, <<e.id>>[1] = e.id, <<f.id>>[1] = f.id
<1> QED BY <1>3, EventsAssumption

-----------------------------------------------------------------------------
(* What the statements of store() do to the table of events. *)
LEMMA DeleteTable ==
    ASSUME NEW table, NEW S
    PROVE  /\ Delete(table, S).events = table.events \ S
           /\ Delete(table, S).tags \subseteq table.tags
           /\ DOMAIN Delete(table, S) = {"events", "tags"}
BY DEF Delete

LEMMA WriteTable ==
    ASSUME NEW table, NEW e
    PROVE  /\ Write(table, e).events
                = {f \in (table.events \ Rivals(table, e)) \cup {e} : ~Retracts(e, f)}
           /\ Write(table, e).tags \subseteq table.tags \cup TagRows(e, Len(e.tags))
           /\ DOMAIN Write(table, e) = {"events", "tags"}
<1> DEFINE kept == Delete(table, Rivals(table, e))
           more == Insert(kept, e)
<1>1. /\ kept.events = table.events \ Rivals(table, e)
      /\ kept.tags \subseteq table.tags
  BY DeleteTable
<1>2. /\ more.events = kept.events \cup {e}
      /\ more.tags = kept.tags \cup TagRows(e, Len(e.tags))
  BY DEF Insert
<1>3. /\ Write(table, e).events = more.events \ {f \in more.events : Retracts(e, f)}
      /\ Write(table, e).tags \subseteq more.tags
      /\ DOMAIN Write(table, e) = {"events", "tags"}
  BY DeleteTable DEF Write, ProcessDeletion
<1> QED BY <1>1, <1>2, <1>3

(* An incoming event that wins beats every version it replaces, and no     *)
(* version of its slot is left beside it.                                  *)
LEMMA AnswerStored ==
    ASSUME NEW table, NEW e \in Events, table.events \subseteq Events,
           Answer(table, e) = "stored"
    PROVE  /\ e \notin table.events
           /\ classify(e.kind) # "ephemeral"
           /\ Rivals(table, e) = {f \in table.events : Slot(f) = Slot(e)}
           /\ \A f \in table.events : Slot(f) = Slot(e) => Beats(e, f)
<1>1. /\ classify(e.kind) # "ephemeral"
      /\ ~Duplicate(table, e)
      /\ ~Superseded(table, e)
  BY DEF Answer
<1>2. e \notin table.events
  BY <1>1 DEF Duplicate
<1>3. Rivals(table, e) = {f \in table.events : Slot(f) = Slot(e)}
  BY <1>2, SlotRegular DEF Rivals
<1>4. ASSUME NEW f \in table.events, Slot(f) = Slot(e)
      PROVE  Beats(e, f)
  BY <1>1, <1>2, <1>3, <1>4, BeatsTotal DEF Superseded
<1> QED BY <1>1, <1>2, <1>3, <1>4

(* Inserting a row and some index rows, or dropping rivals, keeps the      *)
(* tables within the events that exist.                                    *)
LEMMA RowsExist ==
    ASSUME NEW e \in Events, NEW n \in Nat, n =< Len(e.tags)
    PROVE  TagRows(e, n) \subseteq AllRows
<1>1. TagRows(e, n) \subseteq TagRows(e, Len(e.tags))
  BY EventsAssumption DEF TagRows
<1>2. TagRows(e, Len(e.tags)) \subseteq AllRows
  BY DEF AllRows
<1> QED BY <1>1, <1>2

LEMMA Partial ==
    ASSUME NEW table, NEW e \in Events, NEW n \in Nat, n =< Len(e.tags)
    PROVE  /\ InsertPart(table, e, n).events = table.events \cup {e}
           /\ InsertPart(table, e, n).tags \subseteq table.tags \cup AllRows
           /\ DOMAIN InsertPart(table, e, n) = {"events", "tags"}
BY RowsExist DEF InsertPart

(* A deletion request whose processing raises has deleted only what it     *)
(* names.                                                                  *)
LEMMA PartIsDelete ==
    ASSUME NEW table, NEW del, NEW left \in PartDeleted(table, del)
    PROVE  \E S : /\ S \subseteq {f \in table.events : Retracts(del, f)}
                 /\ left = Delete(table, S)
<1>1. PICK done \in SUBSET tag_values(del, "a") :
        left = Delete(table,
                 {f \in table.events :
                    /\ Retracts(del, f)
                    /\ \/ f.id \in tag_values(del, "e")
                       \/ <<f.kind, f.pubkey, d_tag(f)>> \in done})
  BY DEF PartDeleted
<1> QED BY <1>1

-----------------------------------------------------------------------------
(* store() and Restart keep the tables within the events that exist. *)
THEOREM TypeCorrect == Spec => []TypeOK
<1>1. Init => TypeOK
  BY DEF Init, TypeOK, Empty
<1>2. TypeOK /\ [Next]_vars => TypeOK'
  <2> SUFFICES ASSUME TypeOK, [Next]_vars PROVE TypeOK'
    OBVIOUS
  <2>1. ASSUME NEW e \in Events, StoreNothing(e) PROVE TypeOK'
    BY <2>1 DEF StoreNothing, TypeOK
  <2>2. ASSUME NEW e \in Events, StoreWins(e) PROVE TypeOK'
    <3>1. Len(e.tags) \in Nat
      BY EventsAssumption
    <3>2. TagRows(e, Len(e.tags)) \subseteq AllRows
      BY <3>1, RowsExist
    <3> QED BY <2>2, <3>2, WriteTable DEF StoreWins, TypeOK
  <2>3. ASSUME NEW e \in Events, StoreRaises(e) PROVE TypeOK'
    <3> DEFINE dropped == Delete(view, Rivals(view, e))
    <3>1. /\ dropped.events \subseteq Events
          /\ dropped.tags \subseteq AllRows
          /\ DOMAIN dropped = {"events", "tags"}
      BY DeleteTable DEF TypeOK
    <3>2. CASE view' = dropped \/ view' = view
      BY <2>3, <3>1, <3>2 DEF StoreRaises, TypeOK
    <3>4. CASE DeletionRaises(e)
      <4>1. /\ Insert(view, e).events \subseteq Events
            /\ Insert(view, e).tags \subseteq AllRows
        BY RowsExist, EventsAssumption DEF Insert, TypeOK
      <4>2. PICK S : S \subseteq Events /\ view' = Delete(Insert(view, e), S)
        BY <3>4, <4>1, PartIsDelete DEF DeletionRaises
      <4>3. /\ view'.events \subseteq Events
            /\ view'.tags \subseteq AllRows
            /\ DOMAIN view' = {"events", "tags"}
        BY <4>1, <4>2, DeleteTable
      <4> QED BY <2>3, <4>3 DEF StoreRaises, TypeOK
    <3>3. ASSUME NEW n \in 1..Len(e.tags), view' = InsertPart(dropped, e, n - 1)
          PROVE  TypeOK'
      <4>1. n - 1 \in Nat /\ n - 1 =< Len(e.tags)
        BY EventsAssumption
      <4> HIDE DEF dropped
      <4>2. /\ view'.events \subseteq Events
            /\ view'.tags \subseteq AllRows
            /\ DOMAIN view' = {"events", "tags"}
        BY <3>1, <3>3, <4>1, Partial
      <4> QED BY <2>3, <4>2 DEF StoreRaises, TypeOK
    <3> QED BY <2>3, <3>2, <3>3, <3>4 DEF StoreRaises, InsertRaises
  <2>4. CASE Restart
    BY <2>4 DEF Restart, TypeOK
  <2>5. CASE UNCHANGED vars
    BY <2>5 DEF vars, TypeOK
  <2> QED BY <2>1, <2>2, <2>3, <2>4, <2>5 DEF Next, store
<1> QED BY <1>1, <1>2, PTL DEF Spec

-----------------------------------------------------------------------------
(* The events a writing call leaves, whether it succeeds or raises. *)
LEMMA WinsTable ==
    ASSUME NEW e \in Events, StoreWins(e)
    PROVE  view'.events
             = {f \in (view.events \ Rivals(view, e)) \cup {e} : ~Retracts(e, f)}
<1>1. view' = Write(view, e)
  BY DEF StoreWins
<1> QED BY <1>1, WriteTable

LEMMA InsertTable ==
    ASSUME NEW e \in Events, InsertRaises(e)
    PROVE  \/ view' = view
           \/ view'.events = view.events \ Rivals(view, e)
           \/ view'.events = (view.events \ Rivals(view, e)) \cup {e}
<1> DEFINE dropped == Delete(view, Rivals(view, e))
<1>1. dropped.events = view.events \ Rivals(view, e)
  BY DeleteTable
<1>2. \/ view' = view \/ view' = dropped
      \/ \E n \in 1..Len(e.tags) : view' = InsertPart(dropped, e, n - 1)
  BY DEF InsertRaises
<1> HIDE DEF dropped
<1>3. ASSUME NEW n \in 1..Len(e.tags), view' = InsertPart(dropped, e, n - 1)
      PROVE  view'.events = dropped.events \cup {e}
  BY <1>3 DEF InsertPart
<1> QED BY <1>1, <1>2, <1>3

LEMMA DeletionTable ==
    ASSUME NEW e \in Events, DeletionRaises(e)
    PROVE  \E S : /\ S \subseteq {f \in view.events \cup {e} : Retracts(e, f)}
                 /\ view' = Delete(Insert(view, e), S)
                 /\ view'.events = (view.events \cup {e}) \ S
<1>1. Insert(view, e).events = view.events \cup {e}
  BY DEF Insert
<1>2. PICK S : /\ S \subseteq {f \in Insert(view, e).events : Retracts(e, f)}
               /\ view' = Delete(Insert(view, e), S)
  BY PartIsDelete DEF DeletionRaises
<1>3. view'.events = (view.events \cup {e}) \ S
  BY <1>1, <1>2, DeleteTable
<1> QED BY <1>1, <1>2, <1>3

(* What a call that raises takes from readers. *)
LEMMA RaisesTable ==
    ASSUME NEW e \in Events, StoreRaises(e)
    PROVE  /\ view'.events \subseteq view.events \cup {e}
           /\ \A f \in view.events \ view'.events : f \in Rivals(view, e) \/ Retracts(e, f)
<1>1. CASE InsertRaises(e)
  BY <1>1, InsertTable
<1>2. CASE DeletionRaises(e)
  BY <1>2, DeletionTable
<1> QED BY <1>1, <1>2 DEF StoreRaises

LEMMA StepTable ==
    ASSUME TypeOK, NEW e \in Events, StoreWins(e) \/ StoreRaises(e)
    PROVE  /\ \/ view' = view
              \/ view'.events \subseteq (view.events \ Rivals(view, e)) \cup {e}
           /\ Rivals(view, e) = {f \in view.events : Slot(f) = Slot(e)}
           /\ \A f \in Rivals(view, e) : Beats(e, f)
           /\ e \notin view.events
<1>1. view.events \subseteq Events /\ Answer(view, e) = "stored"
  BY DEF TypeOK, StoreWins, StoreRaises
<1>2. /\ Rivals(view, e) = {f \in view.events : Slot(f) = Slot(e)}
      /\ \A f \in Rivals(view, e) : Beats(e, f)
      /\ e \notin view.events
  BY <1>1, AnswerStored
<1>3. CASE StoreWins(e)
  BY <1>2, <1>3, WinsTable
<1>4. CASE InsertRaises(e)
  BY <1>2, <1>4, InsertTable
<1>5. CASE DeletionRaises(e)
  <2>1. classify(e.kind) = "regular"
    BY <1>5, FaultyAssumption, DeletionIsRegular DEF DeletionRaises
  <2>2. Rivals(view, e) = {}
    BY <2>1 DEF Rivals
  <2> QED BY <1>2, <1>5, <2>2, DeletionTable
<1> QED BY <1>3, <1>4, <1>5 DEF StoreRaises

(* Only one version of a replaceable or addressable event is kept, in what *)
(* is read and in what a restart finds, failed inserts included.           *)
THEOREM OneVersion == Spec => []OneVersionPerSlot
<1>1. Init => OneVersionPerSlot
  BY DEF Init, OneVersionPerSlot, Empty
<1>2. TypeOK /\ OneVersionPerSlot /\ [Next]_vars => OneVersionPerSlot'
  <2> SUFFICES ASSUME TypeOK, OneVersionPerSlot, [Next]_vars
               PROVE  OneVersionPerSlot'
    OBVIOUS
  <2>1. ASSUME NEW e \in Events, StoreNothing(e) PROVE OneVersionPerSlot'
    BY <2>1 DEF StoreNothing, OneVersionPerSlot
  <2>2. ASSUME NEW e \in Events, StoreWins(e) \/ StoreRaises(e)
        PROVE  OneVersionPerSlot'
    <3>1. \A f, g \in view'.events : Slot(f) = Slot(g) => f = g
      BY <2>2, StepTable DEF OneVersionPerSlot
    <3>2. disk' = view' \/ disk' = disk
      BY <2>2 DEF StoreWins, StoreRaises
    <3> QED BY <3>1, <3>2 DEF OneVersionPerSlot
  <2>3. CASE Restart
    BY <2>3 DEF Restart, OneVersionPerSlot
  <2>4. CASE UNCHANGED vars
    BY <2>4 DEF vars, OneVersionPerSlot
  <2> QED BY <2>1, <2>2, <2>3, <2>4 DEF Next, store
<1> QED BY <1>1, <1>2, TypeCorrect, PTL DEF Spec

-----------------------------------------------------------------------------
(* Convergence.  "The winners of what was offered" is not inductive by     *)
(* itself: a version may be the winner only because another one that beat  *)
(* its rivals is no longer stored.  The invariant says instead that what   *)
(* is stored was offered, and that whatever was offered is covered by a    *)
(* stored version that is it or beats it; with one version per slot that   *)
(* is the set of winners.                                                  *)
Covered(a, table) ==
    /\ Of(a, table.events) \subseteq offered
    /\ \A g \in Of(a, offered) : \E h \in Of(a, table.events) : AtLeast(h, g)

Coverage ==
    \A a \in Authors : Undisturbed(a) => Covered(a, view) /\ Covered(a, disk)

(* The order of arrival does not matter once coverage holds. *)
LEMMA CoveredIsWinners ==
    ASSUME TypeOK, NEW a \in Authors, NEW table, table.events \subseteq Events,
           \A f, g \in table.events : Slot(f) = Slot(g) => f = g,
           Covered(a, table)
    PROVE  Of(a, table.events) = Winners(Of(a, offered))
<1> offered \subseteq Events
  BY DEF TypeOK
<1>1. ASSUME NEW h \in Of(a, table.events)
      PROVE  h \in Winners(Of(a, offered))
  <2>1. h \in Of(a, offered)
    BY DEF Covered, Of
  <2>2. ASSUME NEW g \in Of(a, offered), Slot(g) = Slot(h), Beats(g, h)
        PROVE  FALSE
    <3>1. PICK k \in Of(a, table.events) : AtLeast(k, g)
      BY DEF Covered
    <3>2. k = h
      BY <2>2, <3>1 DEF Of, AtLeast
    <3> QED BY <2>2, <3>1, <3>2, BeatsAsymmetric DEF AtLeast, Of
  <2> QED BY <2>1, <2>2 DEF Winners
<1>2. ASSUME NEW w \in Winners(Of(a, offered))
      PROVE  w \in Of(a, table.events)
  <2>1. w \in Of(a, offered)
    BY DEF Winners
  <2>2. PICK h \in Of(a, table.events) : AtLeast(h, w)
    BY <2>1 DEF Covered
  <2>3. h \in Of(a, offered)
    BY DEF Covered, Of
  <2> QED BY <2>2, <2>3 DEF Winners, AtLeast
<1> QED BY <1>1, <1>2

(* What a writing call leaves of authors other than the event's own. *)
LEMMA OthersUntouched ==
    ASSUME TypeOK, NEW e \in Events, StoreWins(e) \/ StoreRaises(e),
           NEW a \in Authors, a # e.pubkey
    PROVE  Of(a, view'.events) = Of(a, view.events)
<1> view.events \subseteq Events
  BY DEF TypeOK
<1>1. \A f \in Rivals(view, e) : f.pubkey = e.pubkey
  BY StepTable, SlotOwner
<1>2. CASE StoreWins(e)
  BY <1>1, <1>2, WinsTable DEF Of, Retracts
<1>3. CASE StoreRaises(e)
  <2>1. \A f \in view.events \ view'.events : f.pubkey = e.pubkey
    BY <1>1, <1>3, RaisesTable DEF Retracts
  <2> QED BY <1>3, <2>1, RaisesTable DEF Of
<1> QED BY <1>2, <1>3

(* Coverage of the author of a version that wins. *)
LEMMA WinsCovered ==
    ASSUME TypeOK, Coverage, NEW e \in Events, StoreWins(e),
           NEW a \in Authors, a = e.pubkey, Undisturbed(a)'
    PROVE  Covered(a, view)'
<1> view.events \subseteq Events /\ offered \subseteq Events
  BY DEF TypeOK
<1>1. offered' = offered \cup {e} /\ raised' = raised
  BY DEF StoreWins
<1>2. Undisturbed(a) /\ e.kind # 5
  BY <1>1 DEF Undisturbed
<1>3. Covered(a, view)
  BY <1>2 DEF Coverage
<1>4. view'.events = (view.events \ Rivals(view, e)) \cup {e}
  BY <1>2, WinsTable DEF Retracts
<1>5. /\ Rivals(view, e) = {f \in view.events : Slot(f) = Slot(e)}
      /\ \A f \in Rivals(view, e) : Beats(e, f)
  BY StepTable
<1>6. Of(a, view'.events) \subseteq offered'
  BY <1>1, <1>3, <1>4 DEF Covered, Of
<1>7. ASSUME NEW g \in Of(a, offered')
      PROVE  \E h \in Of(a, view'.events) : AtLeast(h, g)
  <2>1. e \in Of(a, view'.events)
    BY <1>4 DEF Of
  <2>2. CASE g = e
    BY <2>1, <2>2 DEF AtLeast
  <2>3. CASE g # e
    <3>1. PICK h \in Of(a, view.events) : AtLeast(h, g)
      BY <1>1, <1>3, <2>3 DEF Covered, Of
    <3>2. CASE h \in Rivals(view, e)
      <4>1. Beats(e, h) /\ Slot(e) = Slot(h)
        BY <1>5, <3>2
      <4>2. AtLeast(e, g)
        <5>1. h \in Events /\ g \in Events
          BY <1>1, <2>3 DEF Of
        <5> QED BY <3>1, <4>1, <5>1, BeatsTransitive DEF AtLeast
      <4> QED BY <2>1, <4>2
    <3>3. CASE h \notin Rivals(view, e)
      BY <1>4, <3>1, <3>3 DEF Of
    <3> QED BY <3>2, <3>3
  <2> QED BY <2>2, <2>3
<1> QED BY <1>6, <1>7 DEF Covered

(* Coverage when the incoming event is already there or is superseded. *)
LEMMA NothingCovered ==
    ASSUME TypeOK, OneVersionPerSlot, NEW e \in Events, StoreNothing(e),
           NEW a \in Authors, Covered(a, view), Covered(a, disk)
    PROVE  Covered(a, view)' /\ Covered(a, disk)'
<1> view.events \subseteq Events /\ disk.events \subseteq Events
  BY DEF TypeOK
<1>1. view' = view /\ disk' = disk
  BY DEF StoreNothing
<1>2. Of(a, view.events) = Of(a, disk.events)
  <2>1. \A f, g \in view.events : Slot(f) = Slot(g) => f = g
    BY DEF OneVersionPerSlot
  <2>2. \A f, g \in disk.events : Slot(f) = Slot(g) => f = g
    BY DEF OneVersionPerSlot
  <2>3. Of(a, view.events) = Winners(Of(a, offered))
    BY <2>1, CoveredIsWinners
  <2>4. Of(a, disk.events) = Winners(Of(a, offered))
    BY <2>2, CoveredIsWinners
  <2> QED BY <2>3, <2>4
<1>3. offered \subseteq offered' /\ offered' \subseteq offered \cup {e}
  BY DEF StoreNothing
<1>4. ASSUME e.pubkey = a, e \in offered'
      PROVE  \E h \in Of(a, view.events) : AtLeast(h, e)
  <2>1. CASE e \in offered
    BY <1>4, <2>1 DEF Covered, Of
  <2>2. CASE Duplicate(view, e)
    <3>1. e \in view.events
      BY <2>2, EventsAssumption DEF Duplicate
    <3> QED BY <1>4, <3>1 DEF Of, AtLeast
  <2>3. CASE Superseded(view, e)
    <3>1. PICK f \in view.events : Slot(f) = Slot(e) /\ Beats(f, e)
      BY <2>3 DEF Superseded, Rivals
    <3>2. f.pubkey = a
      BY <1>4, <3>1, SlotOwner
    <3> QED BY <3>1, <3>2 DEF Of, AtLeast
  <2>4. CASE classify(e.kind) = "ephemeral" /\ e \notin offered
    <3>1. Answer(view, e) = "ephemeral"
      BY <2>4 DEF Answer
    <3> QED BY <1>4, <2>4, <3>1 DEF StoreNothing
  <2>5. \/ classify(e.kind) = "ephemeral"
        \/ Duplicate(view, e)
        \/ Superseded(view, e)
    <3> SUFFICES ASSUME classify(e.kind) # "ephemeral",
                        ~Duplicate(view, e), ~Superseded(view, e)
                 PROVE  Answer(view, e) = "stored"
      BY DEF StoreNothing
    <3> QED BY DEF Answer
  <2> QED BY <2>1, <2>2, <2>3, <2>4, <2>5
<1>5. Covered(a, view)'
  BY <1>1, <1>3, <1>4 DEF Covered, Of
<1> QED BY <1>1, <1>2, <1>5 DEF Covered, Of

LEMMA CoverageStep ==
    TypeOK /\ OneVersionPerSlot /\ Coverage /\ [Next]_vars => Coverage'
<1> SUFFICES ASSUME TypeOK, OneVersionPerSlot, Coverage, [Next]_vars,
                    NEW a \in Authors, Undisturbed(a)'
             PROVE  Covered(a, view)' /\ Covered(a, disk)'
  BY DEF Coverage
<1>1. ASSUME offered \subseteq offered', raised \subseteq raised'
      PROVE  Covered(a, view) /\ Covered(a, disk)
  <2>1. Undisturbed(a)
    BY <1>1 DEF Undisturbed
  <2> QED BY <2>1 DEF Coverage
<1>2. ASSUME NEW e \in Events, StoreNothing(e)
      PROVE  Covered(a, view)' /\ Covered(a, disk)'
  <2>1. offered \subseteq offered' /\ raised \subseteq raised'
    BY <1>2 DEF StoreNothing
  <2> QED BY <1>1, <1>2, <2>1, NothingCovered
<1>3. ASSUME NEW e \in Events, StoreWins(e)
      PROVE  Covered(a, view)' /\ Covered(a, disk)'
  <2>1. /\ offered' = offered \cup {e}
        /\ raised' = raised
        /\ disk' = view'
    BY <1>3 DEF StoreWins
  <2>2. Covered(a, view)'
    <3>1. CASE a = e.pubkey
      BY <1>3, <3>1, WinsCovered
    <3>2. CASE a # e.pubkey
      <4>1. Of(a, view'.events) = Of(a, view.events)
        BY <1>3, <3>2, OthersUntouched
      <4>2. Of(a, offered') = Of(a, offered)
        BY <2>1, <3>2 DEF Of
      <4> QED BY <1>1, <2>1, <4>1, <4>2 DEF Covered
    <3> QED BY <3>1, <3>2
  <2> QED BY <2>1, <2>2 DEF Covered
<1>4. ASSUME NEW e \in Events, StoreRaises(e)
      PROVE  Covered(a, view)' /\ Covered(a, disk)'
  <2>1. offered' = offered /\ disk' = disk /\ raised' = raised \cup {e}
    BY <1>4 DEF StoreRaises
  <2>2. a # e.pubkey
    BY <2>1 DEF Undisturbed
  <2>3. Of(a, view'.events) = Of(a, view.events)
    BY <1>4, <2>2, OthersUntouched
  <2> QED BY <1>1, <2>1, <2>3 DEF Covered
<1>5. CASE Restart
  BY <1>1, <1>5 DEF Restart, Covered
<1>6. CASE UNCHANGED vars
  BY <1>1, <1>6 DEF vars, Covered
<1> QED BY <1>2, <1>3, <1>4, <1>5, <1>6 DEF Next, store

(* What is stored of an author depends on the set of that author's events  *)
(* that were accepted and not on their order, before and after restarts.   *)
THEOREM Convergence == Spec => []Converges
<1>1. Init => Coverage
  BY DEF Init, Coverage, Covered, Of, Empty
<1>2. TypeOK /\ OneVersionPerSlot /\ Coverage => Converges
  <2> SUFFICES ASSUME TypeOK, OneVersionPerSlot, Coverage,
                      NEW a \in Authors, Undisturbed(a)
               PROVE  /\ Of(a, view.events) = Winners(Of(a, offered))
                      /\ Of(a, disk.events) = Winners(Of(a, offered))
    BY DEF Converges
  <2>1. Covered(a, view) /\ Covered(a, disk)
    BY DEF Coverage
  <2>2. /\ \A f, g \in view.events : Slot(f) = Slot(g) => f = g
        /\ \A f, g \in disk.events : Slot(f) = Slot(g) => f = g
    BY DEF OneVersionPerSlot
  <2>3. view.events \subseteq Events /\ disk.events \subseteq Events
    BY DEF TypeOK
  <2> QED BY <2>1, <2>2, <2>3, CoveredIsWinners
<1> QED BY <1>1, <1>2, CoverageStep, TypeCorrect, OneVersion, PTL DEF Spec

-----------------------------------------------------------------------------
(* A store() that succeeds is an Accept of the event's register. *)
LEMMA AcceptStep ==
    ASSUME TypeOK, NEW e \in Events, StoreWins(e)
    PROVE  e \in Persistent /\ Register!Accept(e)
<1> DEFINE latest == Registers(view)
<1>0. view.events \subseteq Events /\ Answer(view, e) = "stored" /\ disk' = view'
  BY DEF TypeOK, StoreWins
<1>1. /\ classify(e.kind) # "ephemeral"
      /\ Rivals(view, e) = {f \in view.events : Slot(f) = Slot(e)}
      /\ \A f \in view.events : Slot(f) = Slot(e) => Beats(e, f)
  BY <1>0, AnswerStored
<1>2. e \in Persistent
  BY <1>1 DEF Persistent
<1>3. Register!Wins(e)
  BY <1>1, <1>2 DEF Register!Wins, Registers
<1>4. view'.events
        = {f \in (view.events \ Rivals(view, e)) \cup {e} : ~Retracts(e, f)}
  BY WinsTable
<1>5. ASSUME NEW s \in {Slot(g) : g \in Persistent}
      PROVE  {f \in view'.events : Slot(f) = s}
               = {f \in (IF s = Slot(e) THEN {e} ELSE latest[s]) : ~Retracts(e, f)}
  BY <1>1, <1>4 DEF Registers
<1>6. Registers(view)'
        = [s \in {Slot(g) : g \in Persistent} |->
             {f \in (IF s = Slot(e) THEN {e} ELSE latest[s]) : ~Retracts(e, f)}]
  BY <1>5 DEF Registers
<1>7. Registers(disk)' = Registers(view)'
  BY <1>0 DEF Registers
<1> QED BY <1>2, <1>3, <1>6, <1>7 DEF Register!Accept, Register!Slots

(* A SELECT that raises changes no register; an INSERT that does empties   *)
(* the event's register for readers, or leaves the event in it.            *)
LEMMA BreakStep ==
    ASSUME TypeOK, NEW e \in Events, StoreRaises(e), InsertRaises(e)
    PROVE  \/ view' = view
           \/ e \in Persistent /\ Register!Break(e)
<1> SUFFICES ASSUME view' # view PROVE e \in Persistent /\ Register!Break(e)
  OBVIOUS
<1> DEFINE latest == Registers(view)
<1>0. /\ view.events \subseteq Events /\ Answer(view, e) = "stored"
      /\ disk' = disk /\ e \in Faulty
  BY DEF TypeOK, StoreRaises, InsertRaises
<1>1. /\ classify(e.kind) # "ephemeral"
      /\ Rivals(view, e) = {f \in view.events : Slot(f) = Slot(e)}
      /\ \A f \in view.events : Slot(f) = Slot(e) => Beats(e, f)
  BY <1>0, AnswerStored
<1>2. e \in Persistent
  BY <1>1 DEF Persistent
<1>3. Register!Wins(e)
  BY <1>1, <1>2 DEF Register!Wins, Registers
<1>4. ASSUME NEW S \in {{}, {e}},
             view'.events = (view.events \ Rivals(view, e)) \cup S
      PROVE  Registers(view)' = [latest EXCEPT ![Slot(e)] = S]
  <2>1. ASSUME NEW s \in {Slot(g) : g \in Persistent}
        PROVE  {f \in view'.events : Slot(f) = s}
                 = IF s = Slot(e) THEN S ELSE latest[s]
    BY <1>1, <1>4 DEF Registers
  <2>2. Registers(view)'
          = [s \in {Slot(g) : g \in Persistent} |-> IF s = Slot(e) THEN S ELSE latest[s]]
    BY <2>1 DEF Registers
  <2> QED BY <2>2 DEF Registers
<1>5. \E S \in {{}, {e}} : view'.events = (view.events \ Rivals(view, e)) \cup S
  BY InsertTable
<1>6. \E S \in {{}, {e}} : Registers(view)' = [latest EXCEPT ![Slot(e)] = S]
  BY <1>4, <1>5
<1>7. Registers(disk)' = Registers(disk)
  BY <1>0 DEF Registers
<1> QED BY <1>0, <1>2, <1>3, <1>6, <1>7 DEF Register!Break

(* A deletion request whose processing raises is written, and empties some *)
(* of the registers it names.                                              *)
LEMMA AbandonStep ==
    ASSUME TypeOK, NEW e \in Events, StoreRaises(e), DeletionRaises(e)
    PROVE  e \in Persistent /\ Register!Abandon(e)
<1> DEFINE latest == Registers(view)
<1>0. /\ view.events \subseteq Events /\ Answer(view, e) = "stored"
      /\ disk' = disk /\ e \in Botched
  BY DEF TypeOK, StoreRaises, DeletionRaises
<1>1. /\ classify(e.kind) # "ephemeral"
      /\ Rivals(view, e) = {f \in view.events : Slot(f) = Slot(e)}
      /\ \A f \in view.events : Slot(f) = Slot(e) => Beats(e, f)
  BY <1>0, AnswerStored
<1>2. e \in Persistent
  BY <1>1 DEF Persistent
<1>3. Register!Wins(e)
  BY <1>1, <1>2 DEF Register!Wins, Registers
<1>4. \A f \in view.events : Slot(f) # Slot(e)
  <2>1. classify(e.kind) = "regular"
    BY <1>0, FaultyAssumption, DeletionIsRegular
  <2> QED BY <1>1, <2>1 DEF Rivals
<1>5. PICK T : /\ T \subseteq {f \in view.events \cup {e} : Retracts(e, f)}
               /\ view'.events = (view.events \cup {e}) \ T
  BY DeletionTable
<1> DEFINE S == T \cap Persistent
<1>6. S \in SUBSET {f \in Persistent : Retracts(e, f)}
  BY <1>5
<1>7. ASSUME NEW s \in {Slot(g) : g \in Persistent}
      PROVE  {f \in view'.events : Slot(f) = s}
               = (IF s = Slot(e) THEN {e} ELSE latest[s]) \ S
  <2>1. latest[s] = {f \in view.events : Slot(f) = s}
    BY DEF Registers
  <2>2. ASSUME NEW f \in view.events \cup {e}, Slot(f) = s
        PROVE  f \in Persistent
    <3>1. PICK g \in Persistent : Slot(g) = Slot(f)
      BY <2>2
    <3> QED BY <1>0, <2>2, <3>1, SlotPersistent DEF Persistent
  <2>3. {f \in view'.events : Slot(f) = s} = {f \in view.events \cup {e} : Slot(f) = s} \ S
    BY <1>5, <2>2
  <2>4. {f \in view.events \cup {e} : Slot(f) = s} = IF s = Slot(e) THEN {e} ELSE latest[s]
    BY <1>4, <2>1
  <2> QED BY <2>3, <2>4
<1> HIDE DEF S
<1>8. Registers(view)'
        = [s \in {Slot(g) : g \in Persistent} |->
             (IF s = Slot(e) THEN {e} ELSE latest[s]) \ S]
  BY <1>7 DEF Registers
<1>9. Registers(disk)' = Registers(disk)
  BY <1>0 DEF Registers
<1> QED BY <1>0, <1>2, <1>3, <1>6, <1>8, <1>9 DEF Register!Abandon, Register!Slots

(* The tables implement NewestWins, a register per slot that only moves to *)
(* a winning version or is emptied by its author, inserts and deletions    *)
(* that fail half way and restarts included.                               *)
THEOREM Implements == Spec => ImplementsRegister
<1>1. Init => Register!Init
  BY DEF Init, Register!Init, Registers, Empty, Register!Slots
<1>2. TypeOK /\ [Next]_vars => [Register!Next]_<<Registers(view), Registers(disk)>>
  <2> SUFFICES ASSUME TypeOK, [Next]_vars
               PROVE  \/ Register!Next
                      \/ /\ Registers(view)' = Registers(view)
                         /\ Registers(disk)' = Registers(disk)
    OBVIOUS
  <2>1. ASSUME NEW e \in Events, StoreWins(e) PROVE Register!Next
    BY <2>1, AcceptStep DEF Register!Next
  <2>2. ASSUME NEW e \in Events, StoreRaises(e)
        PROVE  Register!Next \/ (view' = view /\ disk' = disk)
    BY <2>2, BreakStep, AbandonStep DEF Register!Next, StoreRaises
  <2>3. ASSUME view' = view, disk' = disk
        PROVE  /\ Registers(view)' = Registers(view)
               /\ Registers(disk)' = Registers(disk)
    BY <2>3 DEF Registers
  <2>4. ASSUME NEW e \in Events, StoreNothing(e) PROVE view' = view /\ disk' = disk
    BY <2>4 DEF StoreNothing
  <2>5. CASE Restart
    <3>1. Registers(view)' = Registers(disk) /\ Registers(disk)' = Registers(disk)
      BY <2>5 DEF Restart, Registers
    <3> QED BY <3>1 DEF Register!Next, Register!Reopen
  <2>6. CASE UNCHANGED vars
    BY <2>3, <2>6 DEF vars
  <2> QED BY <2>1, <2>2, <2>3, <2>4, <2>5, <2>6 DEF Next, store
<1> QED BY <1>1, <1>2, TypeCorrect, PTL DEF Spec, ImplementsRegister, Register!Spec

-----------------------------------------------------------------------------
(* What a restart would find and readers do not see was displaced by an    *)
(* event whose store() raised: this is what makes a loss that a later      *)
(* commit makes durable attributable.                                      *)
UncommittedLoss ==
    \A f \in disk.events \ view.events : \E e \in raised : Displaces(e, f)

LEMMA UncommittedLossStep ==
    TypeOK /\ UncommittedLoss /\ [Next]_vars => UncommittedLoss'
<1> SUFFICES ASSUME TypeOK, UncommittedLoss, [Next]_vars
             PROVE  UncommittedLoss'
  OBVIOUS
<1>1. ASSUME disk' = view' PROVE UncommittedLoss'
  BY <1>1 DEF UncommittedLoss
<1>2. ASSUME view' = view, disk' = disk, raised' = raised PROVE UncommittedLoss'
  BY <1>2 DEF UncommittedLoss
<1>3. ASSUME NEW e \in Events, StoreRaises(e) PROVE UncommittedLoss'
  <2>1. disk' = disk /\ raised' = raised \cup {e}
    BY <1>3 DEF StoreRaises
  <2>2. \A f \in Rivals(view, e) : Replaces(e, f)
    BY <1>3, StepTable DEF Replaces
  <2>3. \A f \in view.events \ view'.events : Displaces(e, f)
    BY <1>3, <2>2, RaisesTable DEF Displaces
  <2>4. ASSUME NEW f \in disk.events, f \notin view'.events
        PROVE  \E g \in raised' : Displaces(g, f)
    <3>1. CASE f \in view.events
      BY <2>1, <2>3, <2>4, <3>1
    <3>2. CASE f \notin view.events
      BY <2>1, <3>2 DEF UncommittedLoss
    <3> QED BY <3>1, <3>2
  <2> QED BY <2>1, <2>4 DEF UncommittedLoss
<1>4. ASSUME NEW e \in Events, store(e) PROVE UncommittedLoss'
  BY <1>1, <1>2, <1>3, <1>4 DEF store, StoreNothing, StoreWins
<1>5. CASE Restart
  BY <1>1, <1>5 DEF Restart
<1>6. CASE UNCHANGED vars
  BY <1>2, <1>6 DEF vars
<1> QED BY <1>4, <1>5, <1>6 DEF Next

(* An event a restart would find is lost only to a newer version of it, or *)
(* to its own author's deletion request, stored or raised; never to        *)
(* another author, to an older version or to a restart.                    *)
THEOREM Losses == Spec => LossJustified
<1> DEFINE Justified ==
      \A f \in disk.events \ disk'.events :
          \E e \in Events :
             /\ Displaces(e, f)
             /\ Stored(e)' \/ (e \in raised /\ f \notin view.events)
<1>1. Init => UncommittedLoss
  BY DEF Init, UncommittedLoss
<1>2. TypeOK /\ UncommittedLoss /\ [Next]_vars => [Justified]_vars
  <2> SUFFICES ASSUME TypeOK, UncommittedLoss, Next PROVE Justified
    OBVIOUS
  <2>1. ASSUME NEW e \in Events, StoreWins(e),
               NEW f \in disk.events, f \notin disk'.events
        PROVE  \E g \in Events :
                 /\ Displaces(g, f)
                 /\ Stored(g)' \/ (g \in raised /\ f \notin view.events)
    <3>1. disk' = view' /\ Stored(e)'
      BY <2>1 DEF StoreWins, Stored
    <3>2. CASE f \notin view.events
      BY <2>1, <3>2 DEF UncommittedLoss, TypeOK
    <3>3. CASE f \in view.events
      <4>1. f \in Rivals(view, e) \/ Retracts(e, f)
        BY <2>1, <3>1, <3>3, WinsTable
      <4>2. \A h \in Rivals(view, e) : Slot(h) = Slot(e) /\ Beats(e, h)
        BY <2>1, StepTable
      <4>3. Displaces(e, f)
        BY <4>1, <4>2 DEF Displaces, Replaces
      <4> QED BY <3>1, <4>3
    <3> QED BY <3>2, <3>3
  <2>2. ASSUME disk' = disk PROVE Justified
    BY <2>2
  <2>3. ASSUME NEW e \in Events, StoreNothing(e) \/ StoreRaises(e) PROVE disk' = disk
    BY <2>3 DEF StoreNothing, StoreRaises
  <2>4. CASE Restart
    BY <2>2, <2>4 DEF Restart
  <2> QED BY <2>1, <2>2, <2>3, <2>4 DEF Next, store
<1>3. TypeOK /\ UncommittedLoss /\ [Next]_vars
        => [\A f \in disk.events \ disk'.events :
               \E e \in Events :
                  /\ Displaces(e, f)
                  /\ Stored(e)' \/ (e \in raised /\ f \notin view.events)]_vars
  BY <1>2
<1> QED BY <1>1, <1>3, TypeCorrect, UncommittedLossStep, PTL DEF Spec, LossJustified

-----------------------------------------------------------------------------
(* The tag index has every row of the events whose store() did not raise,  *)
(* in what is read and in what a restart finds.                            *)
Complete(table) == \A e \in table.events \ raised : TagRows(e, Len(e.tags)) \subseteq table.tags

Indexed == Complete(view) /\ Complete(disk)

LEMMA RowsOfOne ==
    ASSUME NEW e \in Events, NEW f \in Events, NEW row \in TagRows(e, Len(e.tags)), row[1] = f.id
    PROVE  e = f
<1>1. PICK i \in 1..Len(e.tags) : row = TagRow(e, i)
  BY DEF TagRows
<1>2. row[1] = e.id
  BY <1>1 DEF TagRow
<1> QED BY <1>2, EventsAssumption

(* What is dropped takes its own rows with it, and no other's. *)
LEMMA DeleteKeeps ==
    ASSUME NEW table, table.events \subseteq Events, NEW S \in SUBSET Events,
           NEW e \in table.events \ S, TagRows(e, Len(e.tags)) \subseteq table.tags
    PROVE  TagRows(e, Len(e.tags)) \subseteq Delete(table, S).tags
<1> SUFFICES ASSUME NEW row \in TagRows(e, Len(e.tags)), NEW f \in S
             PROVE  row[1] # f.id
  BY DEF Delete
<1> QED BY RowsOfOne

LEMMA WinsIndexed ==
    ASSUME TypeOK, Complete(view), NEW e \in Events, StoreWins(e)
    PROVE  Complete(view)'
<1> DEFINE kept == Delete(view, Rivals(view, e))
           more == Insert(kept, e)
<1>1. /\ view.events \subseteq Events
      /\ kept.events = view.events \ Rivals(view, e) /\ Rivals(view, e) \subseteq view.events
  BY DeleteTable DEF TypeOK, Rivals
<1>2. \A f \in kept.events \ raised : TagRows(f, Len(f.tags)) \subseteq kept.tags
  BY <1>1, DeleteKeeps DEF Complete
<1> HIDE DEF kept
<1>3. /\ more.events = kept.events \cup {e}
      /\ more.tags = kept.tags \cup TagRows(e, Len(e.tags))
  BY DEF Insert
<1> HIDE DEF more
<1>4. /\ more.events \subseteq Events
      /\ \A f \in more.events \ raised : TagRows(f, Len(f.tags)) \subseteq more.tags
  BY <1>1, <1>2, <1>3
<1> DEFINE gone == {f \in more.events : Retracts(e, f)}
<1>5. view' = Delete(more, gone) /\ raised' = raised
  BY DEF StoreWins, Write, ProcessDeletion, more, kept
<1>6. view'.events = more.events \ gone
  BY <1>5, DeleteTable
<1>7. gone \in SUBSET Events
  BY <1>4
<1> HIDE DEF gone
<1>8. \A f \in view'.events \ raised : TagRows(f, Len(f.tags)) \subseteq view'.tags
  BY <1>4, <1>5, <1>6, <1>7, DeleteKeeps
<1> QED BY <1>5, <1>8 DEF Complete

LEMMA RaisesIndexed ==
    ASSUME TypeOK, Complete(view), NEW e \in Events, StoreRaises(e)
    PROVE  Complete(view)'
<1>0. raised' = raised \cup {e}
  BY DEF StoreRaises
<1>a. CASE view' = view
  BY <1>0, <1>a DEF Complete
<1>b. CASE DeletionRaises(e)
  <2> DEFINE more == Insert(view, e)
  <2>1. /\ more.events = view.events \cup {e}
        /\ view.tags \subseteq more.tags
    BY DEF Insert
  <2>2. PICK S : /\ S \subseteq {f \in view.events \cup {e} : Retracts(e, f)}
                 /\ view' = Delete(more, S)
                 /\ view'.events = (view.events \cup {e}) \ S
    BY <1>b, DeletionTable
  <2> HIDE DEF more
  <2>3. more.events \subseteq Events /\ S \in SUBSET Events
    BY <2>1, <2>2 DEF TypeOK
  <2>4. \A f \in view'.events \ raised' : TagRows(f, Len(f.tags)) \subseteq more.tags
    BY <1>0, <2>1, <2>2 DEF Complete
  <2>5. ASSUME NEW f \in view'.events \ raised'
        PROVE  TagRows(f, Len(f.tags)) \subseteq view'.tags
    <3>1. f \in more.events \ S
      BY <2>1, <2>2
    <3> QED BY <2>2, <2>3, <2>4, <3>1, DeleteKeeps
  <2> QED BY <2>5 DEF Complete
<1> SUFFICES ASSUME InsertRaises(e), view' # view PROVE Complete(view)'
  BY <1>a, <1>b DEF StoreRaises
<1> DEFINE dropped == Delete(view, Rivals(view, e))
<1>1. /\ view.events \subseteq Events
      /\ dropped.events = view.events \ Rivals(view, e) /\ Rivals(view, e) \subseteq view.events
  BY DeleteTable DEF TypeOK, Rivals
<1>2. \A f \in dropped.events \ raised : TagRows(f, Len(f.tags)) \subseteq dropped.tags
  BY <1>1, DeleteKeeps DEF Complete
<1>3. view' = dropped \/ \E n \in 1..Len(e.tags) : view' = InsertPart(dropped, e, n - 1)
  BY DEF InsertRaises
<1> HIDE DEF dropped
<1>4. view'.events \subseteq dropped.events \cup {e} /\ dropped.tags \subseteq view'.tags
  BY <1>3 DEF InsertPart
<1> QED BY <1>0, <1>2, <1>4 DEF Complete

LEMMA IndexedAlways == Spec => []Indexed
<1>1. Init => Indexed
  BY DEF Init, Indexed, Complete, Empty
<1>2. TypeOK /\ Indexed /\ [Next]_vars => Indexed'
  <2> SUFFICES ASSUME TypeOK, Indexed, [Next]_vars PROVE Indexed'
    OBVIOUS
  <2>1. ASSUME NEW e \in Events, StoreNothing(e) PROVE Indexed'
    BY <2>1 DEF StoreNothing, Indexed, Complete
  <2>2. ASSUME NEW e \in Events, StoreWins(e) PROVE Indexed'
    <3>1. Complete(view)' /\ disk' = view'
      BY <2>2, WinsIndexed DEF Indexed, StoreWins
    <3> QED BY <3>1 DEF Indexed, Complete
  <2>3. ASSUME NEW e \in Events, StoreRaises(e) PROVE Indexed'
    <3>1. Complete(view)'
      BY <2>3, RaisesIndexed DEF Indexed
    <3>2. disk' = disk /\ raised \subseteq raised'
      BY <2>3 DEF StoreRaises
    <3> QED BY <3>1, <3>2 DEF Indexed, Complete
  <2>4. CASE Restart
    BY <2>4 DEF Restart, Indexed, Complete
  <2>5. CASE UNCHANGED vars
    BY <2>5 DEF vars, Indexed, Complete
  <2> QED BY <2>1, <2>2, <2>3, <2>4, <2>5 DEF Next, store
<1> QED BY <1>1, <1>2, TypeCorrect, PTL DEF Spec

(* The index knows of a stored event what its tags say, no less and no     *)
(* more: a row with its id is a row of its own.                            *)
LEMMA IndexSays ==
    ASSUME TypeOK, Indexed, NEW e \in view.events \ raised, NEW x \in Letters, NEW v
    PROVE  <<e.id, x, v>> \in view.tags <=> v \in tag_values(e, x)
<1>1. e \in Events /\ DOMAIN e.tags = 1..Len(e.tags) /\ view.tags \subseteq AllRows
  BY EventsAssumption DEF TypeOK
<1>2. ASSUME <<e.id, x, v>> \in view.tags PROVE v \in tag_values(e, x)
  <2>1. PICK f \in Events : <<e.id, x, v>> \in TagRows(f, Len(f.tags))
    BY <1>1, <1>2 DEF AllRows
  <2>2. <<e.id, x, v>>[1] = e.id
    OBVIOUS
  <2>3. f = e
    BY <1>1, <2>1, <2>2, RowsOfOne
  <2>4. PICK i \in 1..Len(e.tags) : <<e.id, x, v>> = TagRow(e, i)
    BY <2>1, <2>3 DEF TagRows
  <2>5. x = e.tags[i][1] /\ v = e.tags[i][2]
    BY <2>4 DEF TagRow
  <2>6. i \in DOMAIN e.tags
    BY <1>1, <2>4
  <2> QED BY <2>5, <2>6 DEF tag_values, Named
<1>3. ASSUME v \in tag_values(e, x) PROVE <<e.id, x, v>> \in view.tags
  <2>1. PICK i \in DOMAIN e.tags : e.tags[i][1] = x /\ e.tags[i][2] = v
    BY <1>3 DEF tag_values, Named
  <2>2. i \in 1..Len(e.tags)
    BY <1>1
  <2>3. TagRow(e, i) = <<e.id, x, v>> /\ TagRow(e, i) \in TagRows(e, Len(e.tags))
    BY <2>1, <2>2 DEF TagRow, TagRows
  <2> QED BY <2>3 DEF Indexed, Complete
<1> QED BY <1>2, <1>3

(* A filter on indexed letters selects in SQL what it matches live. *)
LEMMA SelectsWhatMatches ==
    ASSUME TypeOK, Indexed, NEW flt, TagFilters(flt) \subseteq Letters, NEW e \in view.events \ raised
    PROVE  SqlMatches(view, e, flt) <=> matches(e, flt)
<1>1. ASSUME NEW x \in TagFilters(flt)
      PROVE  (\E v \in flt.tags[x] : <<e.id, x, v>> \in view.tags)
                <=> tag_values(e, x) \cap flt.tags[x] # {}
  BY IndexSays
<1> QED BY <1>1 DEF SqlMatches, matches

(* An event is found under each of its indexed tags: the query over the    *)
(* tag index selects what matches selects (db.py:104-107, 149-155).        *)
THEOREM QueriesExact == Spec => []QueryExact
<1>1. TypeOK /\ Indexed => QueryExact
  <2> SUFFICES ASSUME TypeOK, Indexed, NEW e \in view.events \ raised, NEW name \in Letters,
                      NEW v \in tag_values(e, name)
               PROVE  SqlMatches(view, e, [tags |-> [x \in {name} |-> {v}]])
    BY DEF QueryExact
  <2> DEFINE flt == [tags |-> [x \in {name} |-> {v}]]
  <2>1. DOMAIN flt = {"tags"} /\ DOMAIN flt.tags = {name} /\ flt.tags[name] = {v}
    OBVIOUS
  <2>2. <<e.id, name, v>> \in view.tags
    BY IndexSays
  <2> HIDE DEF flt
  <2>3. MatchesColumns(e, flt)
    BY <2>1 DEF MatchesColumns
  <2>4. TagFilters(flt) = {name}
    BY <2>1 DEF TagFilters
  <2>5. SqlMatches(view, e, flt)
    BY <2>1, <2>2, <2>3, <2>4 DEF SqlMatches
  <2> QED BY <2>5 DEF flt
<1> QED BY <1>1, TypeCorrect, IndexedAlways, PTL

(* The same for every filter on indexed letters, in both directions: a     *)
(* subscription sees the same events stored as live.                       *)
THEOREM StoredAsLive ==
    ASSUME NEW CONSTANT flt, TagFilters(flt) \subseteq Letters
    PROVE  Spec => [](\A e \in view.events \ raised : SqlMatches(view, e, flt) <=> matches(e, flt))
<1>1. TypeOK /\ Indexed => \A e \in view.events \ raised : SqlMatches(view, e, flt) <=> matches(e, flt)
  BY SelectsWhatMatches
<1> QED BY <1>1, TypeCorrect, IndexedAlways, PTL

-----------------------------------------------------------------------------
(***************************************************************************)
(* Two processes.                                                          *)
(***************************************************************************)

(* Of its slot, and not newer than what is to be written. *)
Yields(f, e) == Slot(f) = Slot(e) /\ ~Beats(f, e)

Functions ==
    /\ mode \in [Procs -> {"none", "begun", "snapshot", "write"}]
    /\ stage \in [Procs -> {"idle", "duplicate?", "rivals?", "write", "insert"}]
    /\ job \in [Procs -> Signed]
    /\ stale \in [Procs -> BOOLEAN]
    /\ DOMAIN tables = Procs /\ DOMAIN rivals = Procs

(* What a connection reads was accepted, by either process, or is what a   *)
(* call of the daemon's that raised had inserted.                          *)
Accepted(table) == table.events \subseteq Known

(* One writer at a time; a SELECT of this call has taken a snapshot before *)
(* the first write of a transaction that BEGIN had opened.                 *)
Ordered(p) ==
    /\ stage[p] \in {"rivals?", "write"} => mode[p] # "begun"
    /\ stage[p] = "insert" => mode[p] = "write"
    /\ mode[p] = "write" => mode[Other(p)] # "write"
    /\ stale[p] => mode[p] = "snapshot"

(* A snapshot that no commit has overtaken is what is committed. *)
Fresh(p) == mode[p] = "snapshot" /\ ~stale[p] => tables[p] = committed

(* The rows to be deleted are of the slot, and none is newer. *)
Beaten(p) == stage[p] \in {"write", "insert"} => \A f \in rivals[p] : f \in Signed /\ Yields(f, job[p])

(* What a writer would drop of the committed events is covered by what it  *)
(* has, or is about to insert: also where InsertRefused left deletions in  *)
(* an open transaction, except for what the event that raised displaces.   *)
Excused(p, g) == p = Daemon /\ \E h \in Known : AtLeast(h, g) /\ Spoilt(h)

Covers(p) ==
    mode[p] = "write" =>
        \A g \in committed.events :
            \/ \E h \in tables[p].events : AtLeast(h, g)
            \/ stage[p] = "insert" /\ AtLeast(job[p], g)
            \/ Excused(p, g)

Process(p) == Accepted(tables[p]) /\ Ordered(p) /\ Fresh(p) /\ Beaten(p) /\ Covers(p)

ProcsInv ==
    /\ Functions /\ answered \subseteq Signed /\ failed \subseteq Unbindable \cup Abortive
    /\ Accepted(committed)
    /\ \A p \in Procs : Process(p)
    /\ AnsweredIsCovered

-----------------------------------------------------------------------------
(* Newest-first is a strict total order of the events; being at least as   *)
(* new is a partial one of the versions of a slot.                         *)
LEMMA AtLeastItself == ASSUME NEW e PROVE AtLeast(e, e)
BY DEF AtLeast

LEMMA AtLeastTransitive ==
    ASSUME NEW e \in Signed, NEW f \in Signed, NEW g \in Signed, AtLeast(e, f), AtLeast(f, g)
    PROVE  AtLeast(e, g)
BY SignedAssumption DEF AtLeast, Beats

LEMMA YieldsToNewer ==
    ASSUME NEW e \in Signed, NEW f \in Signed, Yields(f, e)
    PROVE  AtLeast(e, f)
BY SignedAssumption DEF Yields, AtLeast, Beats

(* What the statements do to the table of events. *)
LEMMA CommitTable ==
    ASSUME NEW table, NEW e
    PROVE  ProcessDeletion(Insert(table, e), e).events
             = {f \in table.events \cup {e} : ~Retracts(e, f)}
<1> DEFINE more == Insert(table, e)
<1>1. more.events = table.events \cup {e}
  BY DEF Insert
<1>2. ProcessDeletion(more, e).events = more.events \ {f \in more.events : Retracts(e, f)}
  BY DeleteTable DEF ProcessDeletion
<1> QED BY <1>1, <1>2

LEMMA TheOther ==
    ASSUME NEW p \in Procs
    PROVE  /\ Other(p) \in Procs /\ Other(p) # p /\ Other(Other(p)) = p
           /\ \A q \in Procs : q # p => q = Other(p)
BY ProcsAssumption DEF Other, Procs

-----------------------------------------------------------------------------
(* A step of one process, at one other's arm's length. *)
OnlyBy(p) ==
    \A q \in Procs \ {p} :
        /\ mode'[q] = mode[q] /\ tables'[q] = tables[q] /\ stale'[q] = stale[q]
        /\ stage'[q] = stage[q] /\ job'[q] = job[q] /\ rivals'[q] = rivals[q]

LEMMA KnownExist == ASSUME ProcsInv PROVE Known \subseteq Signed
BY SignedAssumption DEF ProcsInv, Known

LEMMA OthersKeep ==
    ASSUME ProcsInv, NEW p \in Procs, OnlyBy(p), committed' = committed,
           answered \subseteq answered', failed \subseteq failed',
           mode'[p] = "write" => mode[Other(p)] # "write",
           Process(p)'
    PROVE  \A q \in Procs : Process(q)'
<1> SUFFICES ASSUME NEW q \in Procs, q # p PROVE Process(q)'
  OBVIOUS
<1>1. /\ mode'[q] = mode[q] /\ tables'[q] = tables[q] /\ stale'[q] = stale[q]
      /\ stage'[q] = stage[q] /\ job'[q] = job[q] /\ rivals'[q] = rivals[q]
  BY DEF OnlyBy
<1>2. Process(q) /\ q = Other(p) /\ Other(q) = p
  BY TheOther DEF ProcsInv
<1>3. Accepted(tables[q])'
  BY <1>1, <1>2 DEF Process, Accepted, Known
<1>4. Ordered(q)'
  BY <1>1, <1>2 DEF Process, Ordered
<1>5. Fresh(q)'
  BY <1>1, <1>2 DEF Process, Fresh
<1>6. Beaten(q)'
  BY <1>1, <1>2 DEF Process, Beaten
<1>7. Covers(q)'
  <2> SUFFICES ASSUME mode'[q] = "write", NEW g \in committed.events
               PROVE  \/ \E h \in tables'[q].events : AtLeast(h, g)
                      \/ stage'[q] = "insert" /\ AtLeast(job'[q], g)
                      \/ Excused(q, g)'
    BY DEF Covers
  <2>1. Excused(q, g) => Excused(q, g)'
    BY DEF Excused, Known, Spoilt
  <2> QED BY <1>1, <1>2, <2>1 DEF Process, Covers
<1> QED BY <1>3, <1>4, <1>5, <1>6, <1>7 DEF Process

(* Another event is answered: one that is covered. *)
LEMMA AnswersCovered ==
    ASSUME ProcsInv, committed' = committed, NEW e \in Signed,
           answered' = answered \/ answered' = answered \cup {e}, failed' = failed,
           \E f \in Known : AtLeast(f, e)
    PROVE  /\ answered \subseteq answered' /\ answered' \subseteq Signed
           /\ failed' \subseteq Unbindable \cup Abortive
           /\ Accepted(committed)' /\ AnsweredIsCovered'
<1> DEFINE Safe(h) == h \in committed'.events \cup failed' \/ Withdrawn(h)'
<1>1. /\ answered \subseteq answered' /\ answered' \subseteq Signed
      /\ failed' \subseteq Unbindable \cup Abortive
      /\ Known \subseteq Known' /\ Known' \subseteq Signed
  BY SignedAssumption DEF ProcsInv, Known
<1>2. Accepted(committed)'
  BY <1>1 DEF ProcsInv, Accepted
<1>3. ASSUME NEW g \in answered
      PROVE  \E h \in Known' : AtLeast(h, g) /\ Safe(h)
  BY <1>1 DEF ProcsInv, AnsweredIsCovered, Withdrawn
<1>4. \E h \in Known' : AtLeast(h, e) /\ Safe(h)
  <2>1. PICK f \in Known : AtLeast(f, e)
    OBVIOUS
  <2>2. CASE f \in failed
    BY <1>1, <2>1, <2>2
  <2>3. CASE f \in answered
    <3>1. PICK h \in Known' : AtLeast(h, f) /\ Safe(h)
      BY <1>3, <2>3
    <3>2. AtLeast(h, e)
      BY <1>1, <2>1, <3>1, AtLeastTransitive
    <3> QED BY <3>1, <3>2
  <2> QED BY <2>2, <2>3 DEF Known
<1> QED BY <1>1, <1>2, <1>3, <1>4 DEF AnsweredIsCovered

(* ... or none is. *)
LEMMA AnswersAsBefore ==
    ASSUME ProcsInv, committed' = committed, answered' = answered, failed' = failed
    PROVE  /\ answered' \subseteq Signed /\ failed' \subseteq Unbindable \cup Abortive
           /\ Accepted(committed)' /\ AnsweredIsCovered'
BY DEF ProcsInv, Accepted, AnsweredIsCovered, Withdrawn, Known

(* What a SELECT reads, and what it does to the connection. *)
LEMMA SelectReads ==
    ASSUME ProcsInv, NEW p \in Procs, Select(p)
    PROVE  /\ Sees(p).events \subseteq Known /\ Sees(p).events \subseteq Signed
           /\ mode' \in [Procs -> {"none", "begun", "snapshot", "write"}] /\ DOMAIN tables' = Procs
           /\ mode'[p] # "begun"
           /\ mode'[p] = "write" => mode[Other(p)] # "write"
           /\ \A q \in Procs \ {p} : mode'[q] = mode[q] /\ tables'[q] = tables[q]
           /\ UNCHANGED <<committed, stale>>
           /\ tables'[p].events \subseteq Known
           /\ Fresh(p)'
           /\ stale'[p] => mode'[p] = "snapshot"
           /\ mode'[p] = "write" <=> mode[p] = "write"
           /\ mode[p] = "write" => tables'[p] = tables[p]
<1>1. Process(p) /\ Functions /\ Accepted(committed) /\ Known \subseteq Signed
  BY KnownExist DEF ProcsInv
<1>2. mode'[p] = (IF mode[p] = "begun" THEN "snapshot" ELSE mode[p])
  BY <1>1 DEF Select, Functions
<1>3. tables'[p] = (IF mode[p] = "begun" THEN committed ELSE tables[p])
  BY <1>1 DEF Select, Functions
<1>4. Sees(p).events \subseteq Known /\ tables'[p].events \subseteq Known
  BY <1>1, <1>3 DEF Sees, Process, Accepted
<1>5. /\ mode' \in [Procs -> {"none", "begun", "snapshot", "write"}] /\ DOMAIN tables' = Procs
      /\ \A q \in Procs \ {p} : mode'[q] = mode[q] /\ tables'[q] = tables[q]
      /\ UNCHANGED <<committed, stale>>
  BY <1>1 DEF Select, Functions
<1>6. mode[p] \in {"none", "begun", "snapshot", "write"}
  BY <1>1 DEF Functions
<1>7. Fresh(p)' /\ (stale'[p] => mode'[p] = "snapshot")
  BY <1>1, <1>2, <1>3, <1>5 DEF Process, Ordered, Fresh
<1>8. mode'[p] = "write" => mode[Other(p)] # "write"
  BY <1>1, <1>2 DEF Process, Ordered
<1> QED BY <1>1, <1>2, <1>3, <1>4, <1>5, <1>6, <1>7, <1>8 DEF Accepted

-----------------------------------------------------------------------------
LEMMA CallStep ==
    ASSUME ProcsInv, NEW p \in Procs, NEW e \in Signed, Call(p, e)
    PROVE  ProcsInv'
<1>1. Process(p) /\ Functions
  BY DEF ProcsInv
<1>2. /\ stage[p] = "idle" /\ stage' = [stage EXCEPT ![p] = "duplicate?"] /\ job' = [job EXCEPT ![p] = e]
      /\ UNCHANGED <<committed, mode, tables, stale, rivals, answered, failed>>
  BY DEF Call, conn
<1>3. Functions' /\ OnlyBy(p) /\ stage'[p] = "duplicate?"
  BY <1>1, <1>2 DEF Functions, OnlyBy
<1>4. Accepted(tables[p])' /\ Ordered(p)' /\ Fresh(p)' /\ Beaten(p)'
  BY <1>1, <1>2, <1>3 DEF Process, Accepted, Ordered, Fresh, Beaten, Known
<1>5. Covers(p)'
  BY <1>1, <1>2, <1>3 DEF Process, Covers, Excused, Known, Spoilt
<1>6. mode'[p] = "write" => mode[Other(p)] # "write"
  BY <1>1, <1>2 DEF Process, Ordered
<1>7. \A q \in Procs : Process(q)'
  BY <1>2, <1>3, <1>4, <1>5, <1>6, OthersKeep DEF Process
<1> QED BY <1>2, <1>3, <1>7, AnswersAsBefore DEF ProcsInv

(* A SELECT after which the call returns, or goes on, or a query between   *)
(* two calls.                                                              *)
LEMMA SelectStep ==
    ASSUME ProcsInv, NEW p \in Procs, Select(p), UNCHANGED job, Functions',
           \A q \in Procs \ {p} : stage'[q] = stage[q] /\ rivals'[q] = rivals[q],
           stage[p] # "insert", stage'[p] # "insert",
           answered \subseteq answered', failed' = failed, Beaten(p)'
    PROVE  \A q \in Procs : Process(q)'
<1>1. Process(p) /\ Functions
  BY DEF ProcsInv
<1>2. OnlyBy(p) /\ committed' = committed
  BY SelectReads DEF OnlyBy
<1>3. Accepted(tables[p])' /\ Fresh(p)'
  BY SelectReads DEF Accepted, Known
<1>4. Ordered(p)'
  BY SelectReads, TheOther DEF Ordered
<1>5. Covers(p)'
  <2> SUFFICES ASSUME mode'[p] = "write", NEW g \in committed'.events
               PROVE  (\E h \in tables'[p].events : AtLeast(h, g)) \/ Excused(p, g)'
    BY DEF Covers
  <2>1. mode[p] = "write" /\ tables'[p] = tables[p] /\ g \in committed.events
    BY <1>2, SelectReads
  <2>2. Excused(p, g) => Excused(p, g)'
    BY DEF Excused, Known, Spoilt
  <2> QED BY <1>1, <2>1, <2>2 DEF Process, Covers
<1>6. mode'[p] = "write" => mode[Other(p)] # "write"
  BY SelectReads
<1> QED BY <1>2, <1>3, <1>4, <1>5, <1>6, OthersKeep DEF Process

LEMMA SelectDuplicateStep ==
    ASSUME ProcsInv, NEW p \in Procs, SelectDuplicate(p)
    PROVE  ProcsInv'
<1>1. Process(p) /\ Functions /\ job[p] \in Signed
  BY DEF ProcsInv, Functions
<1>2. stage[p] = "duplicate?" /\ Select(p) /\ UNCHANGED <<job, failed>>
  BY DEF SelectDuplicate
<1>3. UNCHANGED <<committed, stale>> /\ Sees(p).events \subseteq Known /\ Sees(p).events \subseteq Signed
  BY <1>2, SelectReads
<1>4. CASE Duplicate(Sees(p), job[p])
  <2>1. job[p] \in Sees(p).events
    BY <1>1, <1>3, <1>4, SignedAssumption DEF Duplicate
  <2>2. /\ answered' = answered \cup {job[p]}
        /\ stage' = [stage EXCEPT ![p] = "idle"] /\ rivals' = [rivals EXCEPT ![p] = {}]
    BY <1>4 DEF SelectDuplicate, Return
  <2>3. answered' = answered \cup {job[p]} /\ AtLeast(job[p], job[p]) /\ job[p] \in Known
    BY <1>3, <2>1, <2>2, AtLeastItself
  <2>4. Functions'
    BY <1>1, <1>2, <1>3, <2>2, SelectReads DEF Functions
  <2>5. stage'[p] = "idle" /\ \A q \in Procs \ {p} : stage'[q] = stage[q] /\ rivals'[q] = rivals[q]
    BY <1>1, <2>2 DEF Functions
  <2>6. Beaten(p)'
    BY <2>5 DEF Beaten
  <2>7. \A q \in Procs : Process(q)'
    BY <1>2, <2>3, <2>4, <2>5, <2>6, SelectStep
  <2>8. /\ answered' \subseteq Signed /\ failed' \subseteq Unbindable \cup Abortive
        /\ Accepted(committed)' /\ AnsweredIsCovered'
    BY <1>1, <1>2, <1>3, <2>3, AnswersCovered
  <2> QED BY <2>4, <2>7, <2>8 DEF ProcsInv
<1>5. CASE ~Duplicate(Sees(p), job[p])
  <2>1. /\ answered' = answered
        /\ stage' = [stage EXCEPT ![p] = "rivals?"] /\ rivals' = rivals
    BY <1>5 DEF SelectDuplicate
  <2>2. Functions'
    BY <1>1, <1>2, <1>3, <2>1, SelectReads DEF Functions
  <2>3. stage'[p] = "rivals?" /\ \A q \in Procs \ {p} : stage'[q] = stage[q] /\ rivals'[q] = rivals[q]
    BY <1>1, <2>1 DEF Functions
  <2>4. Beaten(p)'
    BY <2>3 DEF Beaten
  <2>5. \A q \in Procs : Process(q)'
    BY <1>2, <2>1, <2>2, <2>3, <2>4, SelectStep
  <2> QED BY <1>2, <1>3, <2>1, <2>2, <2>5, AnswersAsBefore DEF ProcsInv
<1> QED BY <1>4, <1>5

LEMMA SelectRivalsStep ==
    ASSUME ProcsInv, NEW p \in Procs, SelectRivals(p)
    PROVE  ProcsInv'
<1>1. Process(p) /\ Functions /\ job[p] \in Signed /\ answered \subseteq Signed
  BY DEF ProcsInv, Functions
<1>2. stage[p] = "rivals?" /\ Select(p) /\ UNCHANGED <<job, failed>>
  BY DEF SelectRivals
<1>3. UNCHANGED <<committed, stale>> /\ Sees(p).events \subseteq Known /\ Sees(p).events \subseteq Signed
  BY <1>2, SelectReads
<1>4. CASE Superseded(Sees(p), job[p])
  <2>1. PICK f \in Sees(p).events : Slot(f) = Slot(job[p]) /\ Beats(f, job[p])
    BY <1>4 DEF Superseded, Rivals
  <2>2. f \in Known /\ AtLeast(f, job[p])
    BY <1>3, <2>1 DEF AtLeast
  <2>3. /\ answered' = answered \cup {job[p]}
        /\ stage' = [stage EXCEPT ![p] = "idle"] /\ rivals' = [rivals EXCEPT ![p] = {}]
    BY <1>4 DEF SelectRivals, Return
  <2>4. Functions'
    BY <1>1, <1>2, <1>3, <2>3, SelectReads DEF Functions
  <2>5. stage'[p] = "idle" /\ \A q \in Procs \ {p} : stage'[q] = stage[q] /\ rivals'[q] = rivals[q]
    BY <1>1, <2>3 DEF Functions
  <2>6. Beaten(p)'
    BY <2>5 DEF Beaten
  <2>7. \A q \in Procs : Process(q)'
    BY <1>2, <2>3, <2>4, <2>5, <2>6, SelectStep
  <2>8. /\ answered' \subseteq Signed /\ failed' \subseteq Unbindable \cup Abortive
        /\ Accepted(committed)' /\ AnsweredIsCovered'
    BY <1>1, <1>2, <1>3, <2>2, <2>3, AnswersCovered
  <2> QED BY <2>4, <2>7, <2>8 DEF ProcsInv
<1>5. CASE ~Superseded(Sees(p), job[p])
  <2>1. /\ answered' = answered /\ stage' = [stage EXCEPT ![p] = "write"]
        /\ rivals' = [rivals EXCEPT ![p] = Rivals(Sees(p), job[p])]
    BY <1>5 DEF SelectRivals
  <2>2. Functions'
    BY <1>1, <1>2, <1>3, <2>1, SelectReads DEF Functions
  <2>3. /\ stage'[p] = "write" /\ rivals'[p] = Rivals(Sees(p), job[p])
        /\ \A q \in Procs \ {p} : stage'[q] = stage[q] /\ rivals'[q] = rivals[q]
    BY <1>1, <2>1 DEF Functions
  <2>4. \A f \in Rivals(Sees(p), job[p]) : f \in Signed /\ Yields(f, job[p])
    BY <1>3, <1>5 DEF Superseded, Rivals, Yields
  <2>5. Beaten(p)'
    BY <1>2, <2>3, <2>4 DEF Beaten
  <2>6. \A q \in Procs : Process(q)'
    BY <1>2, <2>1, <2>2, <2>3, <2>5, SelectStep
  <2> QED BY <1>2, <1>3, <2>1, <2>2, <2>6, AnswersAsBefore DEF ProcsInv
<1> QED BY <1>4, <1>5

LEMMA QueryStep ==
    ASSUME ProcsInv, NEW p \in Procs, Query(p)
    PROVE  ProcsInv'
<1>1. Functions
  BY DEF ProcsInv
<1>2. stage[p] = "idle" /\ Select(p) /\ UNCHANGED <<stage, job, rivals, answered, failed>>
  BY DEF Query
<1>3. UNCHANGED <<committed, stale>>
  BY <1>2, SelectReads
<1>4. Functions'
  BY <1>1, <1>2, <1>3, SelectReads DEF Functions
<1>5. Beaten(p)'
  BY <1>2 DEF Beaten
<1>6. \A q \in Procs : Process(q)'
  BY <1>2, <1>4, <1>5, SelectStep
<1> QED BY <1>2, <1>3, <1>4, <1>6, AnswersAsBefore DEF ProcsInv

-----------------------------------------------------------------------------
LEMMA DeleteRivalsStep ==
    ASSUME ProcsInv, NEW p \in Procs, DeleteRivals(p)
    PROVE  ProcsInv'
<1>1. Process(p) /\ Functions /\ job[p] \in Signed /\ Accepted(committed) /\ Known \subseteq Signed
  BY KnownExist DEF ProcsInv, Functions
<1>2. /\ stage[p] = "write" /\ mode[Other(p)] # "write" /\ ~stale[p]
      /\ mode' = [mode EXCEPT ![p] = "write"]
      /\ tables' = [tables EXCEPT ![p] = Delete(Sees(p), rivals[p])]
      /\ stage' = [stage EXCEPT ![p] = "insert"]
      /\ UNCHANGED <<committed, stale, job, rivals, answered, failed>>
  BY DEF DeleteRivals, MayWrite
<1>3. Functions' /\ OnlyBy(p)
  BY <1>1, <1>2 DEF Functions, OnlyBy
<1>4. /\ stage'[p] = "insert" /\ mode'[p] = "write"
      /\ tables'[p].events = Sees(p).events \ rivals[p]
  BY <1>1, <1>2, DeleteTable DEF Functions
<1>5. Accepted(tables[p])'
  BY <1>1, <1>2, <1>4 DEF Process, Accepted, Sees, Known
<1>6. Ordered(p)' /\ Fresh(p)'
  BY <1>2, <1>4, TheOther, <1>3 DEF Ordered, Fresh, OnlyBy
<1>7. Beaten(p)'
  BY <1>1, <1>2, <1>4 DEF Process, Beaten
<1>8. ASSUME NEW g \in committed.events
      PROVE  (\E h \in Sees(p).events : AtLeast(h, g)) \/ Excused(p, g)
  <2>1. CASE mode[p] = "write"
    BY <1>1, <1>2, <2>1 DEF Process, Covers, Sees
  <2>2. CASE mode[p] # "write"
    <3>1. Sees(p) = committed
      BY <1>1, <1>2, <2>2 DEF Process, Fresh, Sees
    <3> QED BY <3>1, AtLeastItself
  <2> QED BY <2>1, <2>2
<1>9. Covers(p)'
  <2> SUFFICES ASSUME NEW g \in committed.events
               PROVE  \/ \E h \in tables'[p].events : AtLeast(h, g)
                      \/ AtLeast(job[p], g)
                      \/ Excused(p, g)
    BY <1>2, <1>4 DEF Covers, Excused, Known, Spoilt
  <2> SUFFICES ASSUME ~Excused(p, g)
               PROVE  (\E h \in tables'[p].events : AtLeast(h, g)) \/ AtLeast(job[p], g)
    OBVIOUS
  <2>1. PICK h \in Sees(p).events : AtLeast(h, g)
    BY <1>8
  <2>2. CASE h \in rivals[p]
    <3>1. h \in Signed /\ Yields(h, job[p])
      BY <1>1, <1>2, <2>2 DEF Process, Beaten
    <3>2. g \in Signed
      BY <1>1 DEF Accepted
    <3> QED BY <1>1, <2>1, <3>1, <3>2, YieldsToNewer, AtLeastTransitive
  <2>3. CASE h \notin rivals[p]
    BY <1>4, <2>1, <2>3
  <2> QED BY <2>2, <2>3
<1>10. \A q \in Procs : Process(q)'
  BY <1>2, <1>3, <1>5, <1>6, <1>7, <1>9, OthersKeep DEF Process
<1> QED BY <1>2, <1>3, <1>10, AnswersAsBefore DEF ProcsInv

SameTables == DOMAIN tables' = DOMAIN tables /\ \A q \in Procs : tables'[q] = tables[q]

(* The connection is closed, or what it did stays open; the call is over. *)
LEMMA ReturnStep ==
    ASSUME ProcsInv, NEW p \in Procs, Return(p), UNCHANGED <<committed, job, answered, failed>>,
           \/ Closed(p)
           \/ /\ UNCHANGED stale /\ SameTables
              /\ (mode' = mode \/ (mode[p] = "none" /\ mode' = [mode EXCEPT ![p] = "begun"]))
              /\ stage[p] = "insert" => job[p] \in tables[p].events
    PROVE  ProcsInv'
<1>1. Process(p) /\ Functions /\ job[p] \in Signed
  BY DEF ProcsInv, Functions
<1>2. stage' = [stage EXCEPT ![p] = "idle"] /\ rivals' = [rivals EXCEPT ![p] = {}]
  BY DEF Return
<1>3. CASE Closed(p)
  <2>1. /\ mode' = [mode EXCEPT ![p] = "none"] /\ tables' = [tables EXCEPT ![p] = Empty]
        /\ stale' = [stale EXCEPT ![p] = FALSE]
    BY <1>3 DEF Closed
  <2>2. Functions' /\ OnlyBy(p)
    BY <1>1, <1>2, <2>1 DEF Functions, OnlyBy
  <2>3. mode'[p] = "none" /\ tables'[p] = Empty /\ stale'[p] = FALSE /\ stage'[p] = "idle"
    BY <1>1, <1>2, <2>1 DEF Functions
  <2>4. Accepted(tables[p])'
    BY <2>3 DEF Accepted, Empty
  <2>5. Ordered(p)' /\ Fresh(p)' /\ Beaten(p)' /\ Covers(p)'
    BY <2>3 DEF Ordered, Fresh, Beaten, Covers
  <2>6. \A q \in Procs : Process(q)'
    BY <2>2, <2>3, <2>4, <2>5, OthersKeep DEF Process
  <2> QED BY <2>2, <2>6, AnswersAsBefore DEF ProcsInv
<1>4. CASE ~Closed(p)
  <2>1. /\ UNCHANGED stale /\ DOMAIN tables' = Procs /\ \A q \in Procs : tables'[q] = tables[q]
        /\ (mode' = mode \/ (mode[p] = "none" /\ mode' = [mode EXCEPT ![p] = "begun"]))
        /\ stage[p] = "insert" => job[p] \in tables[p].events
    BY <1>1, <1>4 DEF SameTables, Functions
  <2>2. Functions' /\ OnlyBy(p)
    BY <1>1, <1>2, <2>1 DEF Functions, OnlyBy
  <2>3. stage'[p] = "idle" /\ (mode'[p] = mode[p] \/ (mode[p] = "none" /\ mode'[p] = "begun"))
    BY <1>1, <1>2, <2>1 DEF Functions
  <2>4. Accepted(tables[p])'
    BY <1>1, <2>1 DEF Process, Accepted, Known
  <2>5. Ordered(p)'
    BY <1>1, <2>1, <2>2, <2>3, TheOther DEF Process, Ordered, OnlyBy
  <2>6. Fresh(p)' /\ Beaten(p)'
    BY <1>1, <2>1, <2>3 DEF Process, Fresh, Beaten
  <2>7. Covers(p)'
    BY <1>1, <2>1, <2>3 DEF Process, Covers, Excused, Known, Spoilt
  <2>8. mode'[p] = "write" => mode[Other(p)] # "write"
    BY <1>1, <2>3 DEF Process, Ordered
  <2>9. \A q \in Procs : Process(q)'
    BY <2>2, <2>4, <2>5, <2>6, <2>7, <2>8, OthersKeep DEF Process
  <2> QED BY <2>2, <2>9, AnswersAsBefore DEF ProcsInv
<1> QED BY <1>3, <1>4

LEMMA RefusedStep ==
    ASSUME ProcsInv, NEW p \in Procs, WriteRefused(p) \/ SelectRefused(p) \/ Restarts(p)
    PROVE  ProcsInv'
<1>1. Return(p) /\ UNCHANGED <<committed, job, answered, failed>>
  BY DEF WriteRefused, SelectRefused, Restarts
<1>2. Functions
  BY DEF ProcsInv
<1>3. CASE WriteRefused(p)
  <2>1. stage[p] = "write"
    BY <1>3 DEF WriteRefused
  <2>2. \/ Closed(p)
        \/ /\ UNCHANGED <<tables, stale>>
           /\ mode' = [mode EXCEPT ![p] = IF @ = "none" THEN "begun" ELSE @]
    BY <1>3 DEF WriteRefused
  <2>3. (mode' = [mode EXCEPT ![p] = IF @ = "none" THEN "begun" ELSE @])
          => (mode' = mode \/ (mode[p] = "none" /\ mode' = [mode EXCEPT ![p] = "begun"]))
    BY <1>2 DEF Functions
  <2> QED BY <1>1, <2>1, <2>2, <2>3, ReturnStep DEF SameTables
<1>4. CASE SelectRefused(p)
  <2>1. stage[p] = "rivals?" /\ (Closed(p) \/ UNCHANGED conn)
    BY <1>4 DEF SelectRefused
  <2> QED BY <1>1, <2>1, ReturnStep DEF conn, SameTables
<1>5. CASE Restarts(p)
  BY <1>1, <1>5, ReturnStep DEF Restarts
<1> QED BY <1>3, <1>4, <1>5

(* What an exception leaves of the rows: the event, and all but what it    *)
(* names as a deletion request.                                            *)
LEMMA LeftTable ==
    ASSUME NEW table, NEW e, NEW left \in Left(table, e), ~Duplicate(table, e)
    PROVE  /\ e \in Unbindable \cup Abortive
           /\ left.events \subseteq table.events \cup {e}
           /\ \A f \in table.events \ left.events : Retracts(e, f)
<1>1. CASE e \in Unbindable
  <2>1. left = table \/ \E n \in 1..Len(e.tags) : left = InsertPart(table, e, n - 1)
    BY <1>1 DEF Left
  <2> QED BY <1>1, <2>1 DEF InsertPart
<1>2. CASE e \in Abortive \ Unbindable
  <2>1. left \in PartDeleted(Insert(table, e), e)
    BY <1>2 DEF Left
  <2>2. PICK S : /\ S \subseteq {f \in Insert(table, e).events : Retracts(e, f)}
                 /\ left = Delete(Insert(table, e), S)
    BY <2>1, PartIsDelete
  <2>3. Insert(table, e).events = table.events \cup {e}
    BY DEF Insert
  <2>4. left.events = (table.events \cup {e}) \ S
    BY <2>2, <2>3, DeleteTable
  <2> QED BY <1>2, <2>2, <2>3, <2>4
<1> QED BY <1>1, <1>2 DEF Left

(* The daemon keeps the transaction with what an exception left of it.     *)
LEMMA DaemonRaises ==
    ASSUME ProcsInv, stage[Daemon] = "insert", Return(Daemon),
           UNCHANGED <<committed, job, answered, mode, stale>>,
           ~Duplicate(tables[Daemon], job[Daemon]),
           NEW left \in Left(tables[Daemon], job[Daemon]),
           tables' = [tables EXCEPT ![Daemon] = left],
           failed' = failed \cup {job[Daemon]}
    PROVE  ProcsInv'
<1> DEFINE p == Daemon
           e == job[Daemon]
<1>1. /\ p \in Procs /\ Process(p) /\ Functions /\ e \in Signed
      /\ answered \subseteq Signed /\ failed \subseteq Unbindable \cup Abortive
      /\ Accepted(committed) /\ AnsweredIsCovered
  BY DEF ProcsInv, Functions, Procs
<1>2. stage' = [stage EXCEPT ![p] = "idle"] /\ rivals' = [rivals EXCEPT ![p] = {}]
  BY DEF Return
<1>3. /\ e \in Unbindable \cup Abortive
      /\ left.events \subseteq tables[p].events \cup {e}
      /\ \A f \in tables[p].events \ left.events : Retracts(e, f)
  BY LeftTable
<1>4. /\ mode'[p] = "write" /\ tables'[p] = left /\ stage'[p] = "idle" /\ ~stale'[p]
      /\ mode[Other(p)] # "write"
  BY <1>1, <1>2 DEF Functions, Process, Ordered
<1>5. Functions' /\ OnlyBy(p)
  BY <1>1, <1>2 DEF Functions, OnlyBy
<1>6. Known' = Known \cup {e} /\ failed' \subseteq Unbindable \cup Abortive
  BY <1>1, <1>3 DEF Known
<1>7. Accepted(tables[p])' /\ Accepted(committed)'
  BY <1>1, <1>3, <1>4, <1>6 DEF Process, Accepted
<1>8. Ordered(p)' /\ Fresh(p)' /\ Beaten(p)'
  BY <1>1, <1>4, <1>5, TheOther DEF Ordered, Fresh, Beaten, OnlyBy
<1>9. Covers(p)'
  <2> SUFFICES ASSUME NEW g \in committed.events, ~\E h \in left.events : AtLeast(h, g)
               PROVE  Excused(p, g)'
    BY <1>4 DEF Covers
  <2>1. CASE \E h \in tables[p].events : AtLeast(h, g)
    <3>1. PICK h \in tables[p].events : AtLeast(h, g)
      BY <2>1
    <3>2. Retracts(e, h) /\ h \in Known'
      BY <1>1, <1>3, <1>6, <3>1 DEF Process, Accepted
    <3> QED BY <3>1, <3>2 DEF Excused, Spoilt
  <2>2. CASE AtLeast(e, g)
    BY <1>6, <2>2 DEF Excused, Spoilt
  <2>3. CASE Excused(p, g)
    BY <2>3 DEF Excused, Known, Spoilt
  <2> QED BY <1>1, <1>4, <2>1, <2>2, <2>3 DEF Process, Covers, Ordered
<1>10. \A q \in Procs : Process(q)'
  BY <1>1, <1>4, <1>5, <1>7, <1>8, <1>9, OthersKeep DEF Process
<1>11. AnsweredIsCovered'
  BY <1>1, <1>6 DEF AnsweredIsCovered, Withdrawn
<1> QED BY <1>1, <1>5, <1>6, <1>7, <1>10, <1>11 DEF ProcsInv

LEMMA InsertRefusedStep ==
    ASSUME ProcsInv, NEW p \in Procs, InsertRefused(p)
    PROVE  ProcsInv'
<1>1. Return(p) /\ stage[p] = "insert" /\ UNCHANGED <<committed, job, answered>>
  BY DEF InsertRefused
<1>2. Functions /\ job[p] \in Signed /\ Accepted(tables[p]) /\ Known \subseteq Signed
  BY KnownExist DEF ProcsInv, Process, Functions
<1>3. CASE Closed(p) /\ UNCHANGED failed
  BY <1>1, <1>3, ReturnStep
<1>4. ASSUME p = Daemon, NEW left \in Left(tables[p], job[p]),
             tables' = [tables EXCEPT ![p] = left],
             failed' = (IF Duplicate(tables[p], job[p]) THEN failed ELSE failed \cup {job[p]}),
             UNCHANGED <<mode, stale>>
      PROVE  ProcsInv'
  <2>1. CASE Duplicate(tables[p], job[p])
    <3>1. left = tables[p] /\ failed' = failed
      BY <1>4, <2>1 DEF Left
    <3>2. SameTables
      BY <1>2, <1>4, <3>1 DEF Functions, SameTables
    <3>3. job[p] \in tables[p].events
      BY <1>2, <2>1, SignedAssumption DEF Duplicate, Accepted
    <3> QED BY <1>1, <1>4, <3>1, <3>2, <3>3, ReturnStep
  <2>2. CASE ~Duplicate(tables[p], job[p])
    BY <1>1, <1>4, <2>2, DaemonRaises
  <2> QED BY <2>1, <2>2
<1> QED BY <1>3, <1>4 DEF InsertRefused

(* COMMIT: what the transaction dropped is covered by what it has. *)
LEMMA InsertAndCommitStep ==
    ASSUME ProcsInv, NEW p \in Procs, InsertAndCommit(p)
    PROVE  ProcsInv'
<1> DEFINE written == tables[p].events \cup {job[p]}
<1>1. /\ Process(p) /\ Functions /\ job[p] \in Signed /\ Known \subseteq Signed
      /\ answered \subseteq Signed /\ failed \subseteq Unbindable \cup Abortive
      /\ Accepted(committed) /\ AnsweredIsCovered
  BY KnownExist DEF ProcsInv, Functions
<1>2. /\ stage[p] = "insert" /\ stage' = [stage EXCEPT ![p] = "idle"]
      /\ rivals' = [rivals EXCEPT ![p] = {}] /\ job' = job
      /\ mode' = [mode EXCEPT ![p] = "none"] /\ tables' = [tables EXCEPT ![p] = Empty]
      /\ stale' = [q \in Procs |-> q # p /\ (stale[q] \/ mode[q] = "snapshot")]
      /\ answered' = answered \cup {job[p]} /\ failed' = failed
      /\ committed'.events = {f \in written : ~Retracts(job[p], f)}
  BY CommitTable DEF InsertAndCommit, Return
<1>3. /\ mode[p] = "write" /\ mode[Other(p)] # "write" /\ written \subseteq Known'
      /\ Known' = Known \cup {job[p]}
  BY <1>1, <1>2 DEF Process, Ordered, Accepted, Known
<1>4. /\ answered' \subseteq Signed /\ Known' \subseteq Signed
      /\ failed' \subseteq Unbindable \cup Abortive /\ Accepted(committed)'
  BY <1>1, <1>2, <1>3 DEF Accepted
<1>5. Functions'
  BY <1>1, <1>2 DEF Functions
<1>6. Process(p)'
  <2>1. mode'[p] = "none" /\ tables'[p] = Empty /\ ~stale'[p] /\ stage'[p] = "idle"
    BY <1>1, <1>2 DEF Functions
  <2>2. Accepted(tables[p])'
    BY <2>1 DEF Accepted, Empty
  <2> QED BY <2>1, <2>2 DEF Process, Ordered, Fresh, Beaten, Covers
<1>7. ASSUME NEW q \in Procs, q # p
      PROVE  Process(q)'
  <2>1. /\ mode'[q] = mode[q] /\ tables'[q] = tables[q] /\ stage'[q] = stage[q]
        /\ job'[q] = job[q] /\ rivals'[q] = rivals[q]
        /\ stale'[q] <=> (stale[q] \/ mode[q] = "snapshot")
    BY <1>1, <1>2, <1>7 DEF Functions
  <2>2. Process(q) /\ q = Other(p) /\ Other(q) = p /\ mode'[p] = "none"
    BY <1>1, <1>2, <1>7, TheOther DEF ProcsInv, Functions
  <2>3. mode'[q] # "write"
    BY <1>3, <2>1, <2>2
  <2>4. Accepted(tables[q])'
    BY <1>2, <1>3, <2>1, <2>2 DEF Process, Accepted
  <2>5. Ordered(q)'
    BY <2>1, <2>2, <2>3 DEF Process, Ordered
  <2>6. Fresh(q)' /\ Covers(q)'
    BY <2>1, <2>3 DEF Fresh, Covers
  <2>7. Beaten(q)'
    BY <2>1, <2>2 DEF Process, Beaten
  <2> QED BY <2>4, <2>5, <2>6, <2>7 DEF Process
<1> DEFINE Safe(h) == h \in committed'.events \cup failed' \/ Withdrawn(h)'
<1>8. \A h \in written : Safe(h)
  BY <1>2, <1>3 DEF Withdrawn
<1>9. AnsweredIsCovered'
  <2> SUFFICES ASSUME NEW g \in answered'
               PROVE  \E h \in Known' : AtLeast(h, g) /\ Safe(h)
    BY DEF AnsweredIsCovered
  <2>1. CASE g = job[p]
    BY <1>3, <1>8, <2>1, AtLeastItself
  <2>2. CASE g \in answered
    <3>1. PICK h \in Known : AtLeast(h, g) /\ (h \in committed.events \cup failed \/ Withdrawn(h))
      BY <1>1, <2>2 DEF AnsweredIsCovered
    <3>2. CASE Withdrawn(h) \/ h \in failed
      BY <1>2, <1>3, <3>1, <3>2 DEF Withdrawn
    <3>3. CASE h \in committed.events
      <4>1. (\E f \in written : AtLeast(f, h)) \/ Excused(p, h)
        BY <1>1, <1>2, <1>3, <3>3 DEF Process, Covers
      <4>2. PICK f \in Known' : AtLeast(f, h) /\ Safe(f)
        BY <1>2, <1>3, <1>8, <4>1 DEF Excused, Spoilt, Withdrawn, Known
      <4>3. AtLeast(f, g)
        BY <1>1, <1>3, <1>4, <2>2, <3>1, <4>2, AtLeastTransitive
      <4> QED BY <4>2, <4>3
    <3> QED BY <3>1, <3>2, <3>3
  <2> QED BY <1>2, <2>1, <2>2
<1> QED BY <1>4, <1>5, <1>6, <1>7, <1>9 DEF ProcsInv

-----------------------------------------------------------------------------
LEMMA ProcsInitially == ASSUME ProcsInit PROVE ProcsInv
<1>1. Functions
  BY DEF ProcsInit, Functions
<1>2. \A p \in Procs : Process(p)
  BY DEF ProcsInit, Process, Accepted, Ordered, Fresh, Beaten, Covers, Empty
<1> QED BY <1>1, <1>2 DEF ProcsInit, ProcsInv, Accepted, Empty, AnsweredIsCovered

LEMMA ProcsInductive == ProcsSpec => []ProcsInv
<1>1. ASSUME ProcsInv, [ProcsNext]_procsVars PROVE ProcsInv'
  <2>1. CASE UNCHANGED procsVars
    BY <1>1, <2>1 DEF procsVars, ProcsInv, Functions, Process, Accepted, Ordered, Fresh, Beaten,
                      Covers, Excused, Known, Spoilt, AnsweredIsCovered, Withdrawn
  <2>2. CASE ProcsNext
    <3>1. PICK p \in Procs :
             \/ \E e \in Signed : Call(p, e)
             \/ Step(p) \/ Query(p) \/ Restarts(p)
      BY <2>2 DEF ProcsNext
    <3>2. CASE \E e \in Signed : Call(p, e)
      BY <1>1, <3>2, CallStep
    <3>3. CASE SelectDuplicate(p)
      BY <1>1, <3>3, SelectDuplicateStep
    <3>4. CASE SelectRivals(p)
      BY <1>1, <3>4, SelectRivalsStep
    <3>5. CASE DeleteRivals(p)
      BY <1>1, <3>5, DeleteRivalsStep
    <3>9. CASE InsertRefused(p)
      BY <1>1, <3>9, InsertRefusedStep
    <3>6. CASE WriteRefused(p) \/ SelectRefused(p) \/ Restarts(p)
      BY <1>1, <3>6, RefusedStep
    <3>7. CASE InsertAndCommit(p)
      BY <1>1, <3>7, InsertAndCommitStep
    <3>8. CASE Query(p)
      BY <1>1, <3>8, QueryStep
    <3> QED BY <3>1, <3>2, <3>3, <3>4, <3>5, <3>6, <3>7, <3>8, <3>9 DEF Step
  <2> QED BY <1>1, <2>1, <2>2
<1> QED BY <1>1, ProcsInitially, PTL DEF ProcsSpec

(* Types, for every set of events. *)
THEOREM ProcsTypeCorrect == ProcsSpec => []ProcsTypeOK
<1>1. ASSUME ProcsInv PROVE ProcsTypeOK
  <2>1. ASSUME NEW p \in Procs
        PROVE  /\ mode[p] \in {"none", "begun", "snapshot", "write"}
               /\ stage[p] \in {"idle", "duplicate?", "rivals?", "write", "insert"}
               /\ tables[p].events \subseteq Signed
               /\ job[p] \in Signed
               /\ stale[p] => mode[p] = "snapshot"
               /\ stage[p] = "insert" => mode[p] = "write"
    BY <1>1, KnownExist DEF ProcsInv, Functions, Process, Accepted, Ordered
  <2> QED BY <1>1, <2>1, KnownExist DEF ProcsInv, Accepted, ProcsTypeOK
<1> QED BY <1>1, ProcsInductive, PTL

(* What either process answered True for is committed, or a version of its *)
(* slot that is at least as new is, unless the author withdrew it or a     *)
(* call of the daemon's raised on it half way: no interleaving of the two  *)
(* processes' statements, no refused write left open and no crash loses    *)
(* the newest version.                                                     *)
THEOREM AnsweredCovered == ProcsSpec => []AnsweredIsCovered
<1>1. ProcsInv => AnsweredIsCovered
  BY DEF ProcsInv
<1> QED BY <1>1, ProcsInductive, PTL

(* What is committed of a slot never goes back to an older version, except *)
(* by its author's request, or when the daemon commits what a call that    *)
(* raised had left open.                                                   *)
THEOREM NeverBack == ProcsSpec => NewestOnlyAdvances
<1> DEFINE Advances ==
      \A g \in committed.events : \E h \in Signed :
          /\ AtLeast(h, g)
          /\ \/ h \in committed'.events
             \/ \E p \in Procs : stage[p] = "insert" /\ Retracts(job[p], h)
             \/ stage[Daemon] = "insert" /\ Spoilt(h)
<1>1. ASSUME ProcsInv, [ProcsNext]_procsVars PROVE [Advances]_procsVars
  <2>1. committed.events \subseteq Signed /\ Known \subseteq Signed
    BY <1>1, KnownExist DEF ProcsInv, Accepted
  <2>2. CASE committed' = committed
    BY <2>1, <2>2, AtLeastItself
  <2>3. ASSUME NEW p \in Procs, InsertAndCommit(p) PROVE Advances
    <3> SUFFICES ASSUME NEW g \in committed.events
                 PROVE  \E h \in Signed :
                           /\ AtLeast(h, g)
                           /\ \/ h \in committed'.events
                              \/ \E q \in Procs : stage[q] = "insert" /\ Retracts(job[q], h)
                              \/ stage[Daemon] = "insert" /\ Spoilt(h)
      OBVIOUS
    <3> DEFINE written == tables[p].events \cup {job[p]}
    <3>1. /\ stage[p] = "insert"
          /\ committed'.events = {f \in written : ~Retracts(job[p], f)}
      BY <2>3, CommitTable DEF InsertAndCommit
    <3>2. Process(p) /\ mode[p] = "write" /\ written \subseteq Signed
      BY <1>1, <2>1, <3>1 DEF ProcsInv, Functions, Process, Ordered, Accepted
    <3>3. (\E h \in written : AtLeast(h, g)) \/ Excused(p, g)
      BY <3>1, <3>2 DEF Process, Covers
    <3>4. CASE Excused(p, g)
      BY <2>1, <3>1, <3>4 DEF Excused
    <3> QED BY <3>1, <3>2, <3>3, <3>4
  <2>4. CASE ProcsNext
    BY <2>2, <2>3, <2>4 DEF ProcsNext, Step, Call, SelectDuplicate, SelectRivals, DeleteRivals,
                            SelectRefused, WriteRefused, InsertRefused, Query, Restarts, Select
  <2>5. CASE UNCHANGED procsVars
    BY <2>2, <2>5 DEF procsVars
  <2> QED BY <1>1, <2>4, <2>5
<1>2. ProcsInv /\ [ProcsNext]_procsVars => [Advances]_procsVars
  BY <1>1
<1> QED BY <1>2, ProcsInductive, PTL DEF ProcsSpec, NewestOnlyAdvances

-----------------------------------------------------------------------------
(***************************************************************************)
(* The relay.                                                              *)
(***************************************************************************)

(* How many of the rows that a filter selects come before one of them. *)
Ahead(found, e) == {f \in found : Beats(f, e)}
Rank(found, e) == Cardinality(Ahead(found, e))

LEMMA BeatsOrders ==
    /\ \A e \in Sent : ~Beats(e, e)
    /\ \A e, f, g \in Sent : Beats(e, f) /\ Beats(f, g) => Beats(e, g)
    /\ \A e, f \in Sent : e = f \/ Beats(e, f) \/ Beats(f, e)
BY RelayEvents DEF Beats

(* No two rows have the same place in the order of a query. *)
LEMMA RankInjective ==
    ASSUME NEW found, found \subseteq Sent, IsFiniteSet(found),
           NEW e \in found, NEW f \in found, Rank(found, e) = Rank(found, f)
    PROVE  e = f
<1>1. ASSUME NEW x \in found, NEW y \in found, Beats(x, y)
      PROVE  Rank(found, x) # Rank(found, y)
  <2>1. Ahead(found, x) \subseteq Ahead(found, y)
    BY <1>1, BeatsOrders DEF Ahead
  <2>2. x \in Ahead(found, y) /\ x \notin Ahead(found, x)
    BY <1>1, BeatsOrders DEF Ahead
  <2>3. Ahead(found, y) \in SUBSET found
    BY DEF Ahead
  <2>4. IsFiniteSet(Ahead(found, y))
    BY <2>3, FS_Subset
  <2> QED BY <2>1, <2>2, <2>4, FS_Subset DEF Rank
<1> QED BY <1>1, BeatsOrders

LEMMA RankType ==
    ASSUME NEW found, IsFiniteSet(found), NEW e
    PROVE  Rank(found, e) \in Nat
<1>1. Ahead(found, e) \in SUBSET found
  BY DEF Ahead
<1> QED BY <1>1, FS_Subset, FS_CardinalityType DEF Rank

(* The rows a filter selects before its limit is applied. *)
Found(table, flt) == {e \in table.events : SqlMatches(table, e, flt)}

LEMMA QueryOneRanks ==
    ASSUME NEW table, NEW flt, "limit" \in DOMAIN flt
    PROVE  QueryOne(table, flt) =
              {e \in Found(table, flt) : Rank(Found(table, flt), e) < flt.limit}
BY DEF QueryOne, Found, Rank, Ahead

(* A query answers with rows of the table. *)
LEMMA QueryRows ==
    ASSUME NEW table, NEW filters
    PROVE  query(table, filters) \subseteq table.events
<1>1. \A flt \in filters : QueryOne(table, flt) \subseteq table.events
  BY DEF QueryOne
<1> QED BY <1>1 DEF query

(* A query of capped filters answers with at most so many rows for each:   *)
(* a row is told by the filter that selects it and its place in the order. *)
LEMMA QueryBounded ==
    ASSUME NEW table, table.events \subseteq Sent, IsFiniteSet(table.events),
           NEW filters, IsFiniteSet(filters), NEW max \in Nat,
           \A flt \in filters : "limit" \in DOMAIN flt /\ flt.limit \in 0..max
    PROVE  /\ IsFiniteSet(query(table, filters))
           /\ Cardinality(query(table, filters)) =< max * Cardinality(filters)
<1> DEFINE answer == query(table, filters)
           by(e) == CHOOSE flt \in filters : e \in QueryOne(table, flt)
           place == [e \in answer |-> <<by(e), Rank(Found(table, by(e)), e)>>]
           places == filters \X (0..(max - 1))
<1>1. ASSUME NEW e \in answer
      PROVE  by(e) \in filters /\ e \in QueryOne(table, by(e))
  <2>1. \E flt \in filters : e \in QueryOne(table, flt)
    BY DEF query
  <2> QED BY <2>1
<1> HIDE DEF by
<1>2. ASSUME NEW flt \in filters
      PROVE  Found(table, flt) \subseteq Sent /\ IsFiniteSet(Found(table, flt))
  <2>1. Found(table, flt) \in SUBSET table.events
    BY DEF Found
  <2> QED BY <2>1, FS_Subset
<1>3. ASSUME NEW e \in answer
      PROVE  place[e] \in places
  <2> DEFINE flt == by(e)
  <2>1. flt \in filters /\ e \in QueryOne(table, flt)
    BY <1>1
  <2> HIDE DEF flt
  <2>2. "limit" \in DOMAIN flt /\ flt.limit \in 0..max
    BY <2>1
  <2>3. Rank(Found(table, flt), e) \in Nat
    BY <2>1, <1>2, RankType
  <2>4. Rank(Found(table, flt), e) < flt.limit
    BY <2>1, <2>2, QueryOneRanks
  <2>5. Rank(Found(table, flt), e) \in 0..(max - 1)
    BY <2>2, <2>3, <2>4
  <2> QED BY <2>1, <2>5 DEF flt
<1>4. ASSUME NEW e \in answer, NEW f \in answer, place[e] = place[f]
      PROVE  e = f
  <2> DEFINE flt == by(e)
             found == Found(table, flt)
  <2>0. <<by(e), Rank(Found(table, by(e)), e)>> = <<by(f), Rank(Found(table, by(f)), f)>>
    BY <1>4
  <2>1. by(f) = flt /\ Rank(Found(table, flt), e) = Rank(Found(table, flt), f)
    BY <2>0
  <2>2. /\ flt \in filters
        /\ e \in QueryOne(table, flt)
        /\ f \in QueryOne(table, flt)
    BY <1>1, <2>1
  <2> HIDE DEF flt
  <2>3. e \in found /\ f \in found
    BY <2>2, QueryOneRanks
  <2>4. found \subseteq Sent /\ IsFiniteSet(found)
    BY <2>2, <1>2
  <2> QED BY <2>1, <2>3, <2>4, RankInjective
<1>5. /\ IsFiniteSet(0..(max - 1))
      /\ Cardinality(0..(max - 1)) = max
  BY FS_Interval
<1>6. /\ IsFiniteSet(places)
      /\ Cardinality(places) = Cardinality(filters) * max
  BY <1>5, FS_Product
<1>7. place \in Injection(answer, places)
  BY <1>3, <1>4 DEF Injection, IsInjective
<1>8. Cardinality(filters) \in Nat
  BY FS_CardinalityType
<1> HIDE DEF place, places, answer
<1>9. IsFiniteSet(answer) /\ Cardinality(answer) =< Cardinality(places)
  BY <1>6, <1>7, FS_Injection
<1>10. Cardinality(filters) * max = max * Cardinality(filters)
  BY <1>8
<1> QED BY <1>6, <1>9, <1>10 DEF answer

(* Every capped filter has a limit within the relay's. *)
LEMMA CappedFilters ==
    ASSUME NEW filters \in FilterSets
    PROVE  /\ IsFiniteSet(Capped(filters))
           /\ \A flt \in Capped(filters) :
                 "limit" \in DOMAIN flt /\ flt.limit \in 0..MaxQueryLimit
<1> DEFINE cap(flt) == [x \in DOMAIN flt \cup {"limit"} |->
                          IF x = "limit" THEN CappedLimit(flt) ELSE flt[x]]
           f == [flt \in filters |-> cap(flt)]
<1>1. Capped(filters) = {cap(flt) : flt \in filters}
  BY DEF Capped
<1>2. f \in Surjection(filters, Capped(filters))
  BY <1>1 DEF Surjection
<1> HIDE DEF f
<1>3. IsFiniteSet(Capped(filters))
  BY <1>2, RelayFilters, FS_Surjection
<1>4. ASSUME NEW flt \in filters
      PROVE  "limit" \in DOMAIN cap(flt) /\ cap(flt).limit \in 0..MaxQueryLimit
  BY RelayFilters, RelayAssumption DEF CappedLimit
<1> QED BY <1>1, <1>3, <1>4

-----------------------------------------------------------------------------
(* The inductive invariant. *)

(* A function for each socket. *)
PerSocket ==
    /\ DOMAIN event = Sockets /\ DOMAIN todo = Sockets /\ DOMAIN sends = Sockets
    /\ DOMAIN req = Sockets /\ DOMAIN replay = Sockets /\ DOMAIN owed = Sockets

(* A socket that has not connected has no coroutine. *)
NewAreDone == \A ws \in Sockets : peer[ws] = "new" => pc[ws] = "done"

(* A coroutine that was let past the limit still has room for the          *)
(* subscription it is opening: only itself adds to its own.                *)
HasRoom(ws) ==
    /\ IsFiniteSet(Subs(ws))
    /\ Cardinality(Subs(ws)) =< MaxSubscriptions
    /\ pc[ws] \in {"replay", "subscribe"} =>
          req[ws].sub \in SubIds /\ ~AtLimit(ws, req[ws].sub)

Room == \A ws \in Sockets : HasRoom(ws)

(* What is still to be replayed was read by one query. *)
ReplayFits(ws) ==
    /\ IsFiniteSet(replay[ws])
    /\ pc[ws] # "replay" => replay[ws] = {}
    /\ IsFiniteSet(req[ws].filters)
    /\ Cardinality(replay[ws]) =< MaxQueryLimit * Cardinality(req[ws].filters)

Replaying == IsFiniteSet(db.events) /\ \A ws \in Sockets : ReplayFits(ws)

(* A subscription is in the hub only after its EOSE, and is sent to only   *)
(* when it was in the hub.                                                 *)
SubsAnswered(ws) ==
    /\ \A s \in Subs(ws) : <<ws, s>> \in eosed
    /\ pc[ws] = "subscribe" => <<ws, req[ws].sub>> \in eosed

MaySend(target) ==
    /\ peer[target[1]] # "new"
    /\ pc[target[1]] = "done" \/ target \in eosed

AfterEose ==
    \A ws \in Sockets : SubsAnswered(ws) /\ \A target \in sends[ws] : MaySend(target)

(* The sockets a coroutine with an accepted event has yet to look at. *)
ToReach(ws) ==
    CASE pc[ws] = "answer"    -> DOMAIN hub
      [] pc[ws] = "broadcast" -> todo[ws]
      [] OTHER                -> {}

(* A subscription that is owed an event is one of the sends under way, or  *)
(* is in the hub, with filters that match, and its socket is to be reached *)
(* - or was, when the broadcast was cut.                                   *)
WillReach(ws, e, target) ==
    \E w \in ToReach(ws) : \E s \in Subs(w) : target = <<w, s>> /\ Selects(e, hub[w][s])

IsDue(ws) ==
    /\ pc[ws] \notin {"broadcast", "cut"} => sends[ws] = {}
    /\ peer[ws] = "new" => owed[ws] = {}
    /\ pc[ws] \in {"cut", "done"} =>
          \A target \in owed[ws] : target \in sends[ws] \/ target[1] \in todo[ws]
    /\ pc[ws] \notin {"cut", "done"} =>
          \A target \in owed[ws] :
             target \in sends[ws] \/ \E e \in event[ws] : WillReach(ws, e, target)

Due == \A ws \in Sockets : IsDue(ws)

RelayInv ==
    /\ RelayTypeOK /\ PerSocket /\ HubHasTheLiving /\ NewAreDone
    /\ Room /\ Replaying /\ AfterEose /\ Due

-----------------------------------------------------------------------------
(* A coroutine comes to an end. *)
Parts(ws) == Ends(ws) \/ HandlerRaises(ws) \/ \E e \in Sent : ReceiveUnstorable(ws, e)

(* The steps, one by one. *)
LEMMA Steps ==
    ASSUME RelayNext
    PROVE  \E ws \in Sockets :
              \/ Connect(ws) \/ Disconnect(ws) \/ Parts(ws)
              \/ ReceiveOther(ws)
              \/ \E e \in Sent : ReceiveRejected(ws, e)
              \/ \E e \in Sent : ReceiveEvent(ws, e)
              \/ \E sub \in SubIds : ReceiveReqRefused(ws, sub)
              \/ \E sub \in SubIds, filters \in FilterSets : ReceiveReq(ws, sub, filters)
              \/ \E sub \in SubIds : ReceiveClose(ws, sub)
              \/ SendAnswer(ws)
              \/ \E w \in Sockets : ReachSocket(ws, w)
              \/ \E w \in Sockets : ReachRaising(ws, w)
              \/ \E target \in sends[ws] : SendLive(ws, target)
              \/ EndBroadcast(ws)
              \/ \E e \in replay[ws] : SendStored(ws, e)
              \/ SendEose(ws)
              \/ Subscribe(ws)
BY DEF RelayNext, Client, Proceeds, Parts

(* What store() leaves when it raises is in the tables or the event. *)
LEMMA LeftoverRows ==
    ASSUME NEW table, NEW e, NEW left \in Leftovers(table, e)
    PROVE  left.events \subseteq table.events \cup {e}
<1> DEFINE dropped == Delete(table, Rivals(table, e))
<1>1. dropped.events \subseteq table.events
  BY DEF Delete
<1>2. Insert(dropped, e).events \subseteq table.events \cup {e}
  BY <1>1 DEF Insert
<1>3. \A n : InsertPart(dropped, e, n).events \subseteq table.events \cup {e}
  BY <1>1 DEF InsertPart
<1>4. \A S : Delete(Insert(dropped, e), S).events \subseteq table.events \cup {e}
  BY <1>2 DEF Delete
<1>5. \A part \in PartDeleted(Insert(dropped, e), e) : part.events \subseteq table.events \cup {e}
  BY <1>4 DEF PartDeleted
<1>6. \/ left \in {table, dropped}
      \/ \E n : left = InsertPart(dropped, e, n)
      \/ left \in PartDeleted(Insert(dropped, e), e)
  BY DEF Leftovers
<1> QED BY <1>1, <1>3, <1>5, <1>6

LEMMA PartsLeave ==
    ASSUME NEW ws \in Sockets, Parts(ws)
    PROVE  /\ Leaves(ws)
           /\ pc[ws] \notin {"broadcast", "done"}
           /\ pc[ws] = "cut" => sends[ws] = {}
           /\ db' = db \/ \E e \in Sent \ Rejected : db'.events \subseteq db.events \cup {e}
<1>1. CASE Ends(ws)
  BY <1>1 DEF Ends
<1>2. CASE HandlerRaises(ws)
  BY <1>2 DEF HandlerRaises, Receives
<1>3. ASSUME NEW e \in Sent, ReceiveUnstorable(ws, e)
      PROVE  /\ Leaves(ws) /\ pc[ws] = "receive"
             /\ e \in Sent \ Rejected /\ db'.events \subseteq db.events \cup {e}
  BY <1>3, LeftoverRows DEF ReceiveUnstorable, Receives, Accepts
<1> QED BY <1>1, <1>2, <1>3 DEF Parts

(* What the steps that change the hub make of its subscriptions. *)
LEMMA HubAfterConnect ==
    ASSUME HubHasTheLiving, NewAreDone, NEW ws \in Sockets, Connect(ws)
    PROVE  /\ DOMAIN hub' = DOMAIN hub \cup {ws}
           /\ \A w \in Sockets : Subs(w)' = Subs(w)
           /\ \A w \in Sockets : \A s \in Subs(w) : hub'[w][s] = hub[w][s]
BY DEF Connect, Subs, HubHasTheLiving, NewAreDone

LEMMA HubAfterLeaves ==
    ASSUME NEW ws \in Sockets, Leaves(ws)
    PROVE  /\ DOMAIN hub' = DOMAIN hub \ {ws}
           /\ Subs(ws)' = {}
           /\ \A w \in Sockets \ {ws} : Subs(w)' = Subs(w)
           /\ \A w \in Sockets \ {ws} : \A s \in Subs(w) : hub'[w][s] = hub[w][s]
BY DEF Leaves, Removed, Subs

LEMMA HubAfterSubscribe ==
    ASSUME HubHasTheLiving, NEW ws \in Sockets, Subscribe(ws)
    PROVE  /\ DOMAIN hub' = DOMAIN hub
           /\ Subs(ws)' = Subs(ws) \cup {req[ws].sub}
           /\ \A w \in Sockets \ {ws} : Subs(w)' = Subs(w)
           /\ \A w \in Sockets : \A s \in Subs(w) :
                 <<w, s>> # <<ws, req[ws].sub>> => hub'[w][s] = hub[w][s]
<1> DEFINE subs == [x \in Subs(ws) \cup {req[ws].sub} |->
                      IF x = req[ws].sub THEN req[ws].filters ELSE hub[ws][x]]
<1>1. hub' = [w \in DOMAIN hub \cup {ws} |-> IF w = ws THEN subs ELSE hub[w]]
  BY DEF Subscribe
<1>2. ws \in DOMAIN hub
  BY DEF HubHasTheLiving, Subscribe
<1>3. DOMAIN subs = Subs(ws) \cup {req[ws].sub}
  OBVIOUS
<1>4. \A s \in Subs(ws) : s # req[ws].sub => subs[s] = hub[ws][s]
  OBVIOUS
<1> HIDE DEF subs
<1> QED BY <1>1, <1>2, <1>3, <1>4 DEF Subs

LEMMA HubAfterClose ==
    ASSUME HubHasTheLiving, NEW ws \in Sockets, NEW sub, ReceiveClose(ws, sub)
    PROVE  /\ DOMAIN hub' = DOMAIN hub
           /\ Subs(ws)' = Subs(ws) \ {sub}
           /\ \A w \in Sockets \ {ws} : Subs(w)' = Subs(w)
           /\ \A w \in Sockets : \A s \in Subs(w)' : hub'[w][s] = hub[w][s]
<1>1. ws \in DOMAIN hub
  BY DEF HubHasTheLiving, ReceiveClose, Receives
<1>2. hub' = [hub EXCEPT ![ws] = WithoutSub(hub[ws], sub)]
  BY DEF ReceiveClose
<1>3. /\ DOMAIN WithoutSub(hub[ws], sub) = DOMAIN hub[ws] \ {sub}
      /\ \A s \in DOMAIN hub[ws] \ {sub} : WithoutSub(hub[ws], sub)[s] = hub[ws][s]
  BY DEF WithoutSub
<1> QED BY <1>1, <1>2, <1>3 DEF Subs

-----------------------------------------------------------------------------
LEMMA LivingStep == RelayInv /\ [RelayNext]_relayVars => HubHasTheLiving' /\ NewAreDone'
<1> SUFFICES ASSUME RelayInv, [RelayNext]_relayVars PROVE HubHasTheLiving' /\ NewAreDone'
  OBVIOUS
<1> USE DEF RelayInv, RelayTypeOK, HubHasTheLiving, NewAreDone
<1>1. ASSUME NEW ws \in Sockets, Connect(ws) PROVE HubHasTheLiving' /\ NewAreDone'
  BY <1>1, HubAfterConnect DEF Connect
<1>2. ASSUME NEW ws \in Sockets, Parts(ws) PROVE HubHasTheLiving' /\ NewAreDone'
  <2>1. Leaves(ws)
    BY <1>2, PartsLeave
  <2>2. DOMAIN hub' = DOMAIN hub \ {ws}
    BY <2>1, HubAfterLeaves
  <2>3. peer' = [peer EXCEPT ![ws] = "gone"] /\ pc' = [pc EXCEPT ![ws] = "done"]
    BY <2>1 DEF Leaves
  <2> QED BY <2>2, <2>3
<1>3. ASSUME NEW ws \in Sockets, Subscribe(ws) PROVE HubHasTheLiving' /\ NewAreDone'
  BY <1>3, HubAfterSubscribe DEF Subscribe
<1>4. ASSUME NEW ws \in Sockets, NEW sub \in SubIds, ReceiveClose(ws, sub)
      PROVE  HubHasTheLiving' /\ NewAreDone'
  BY <1>4, HubAfterClose DEF ReceiveClose
<1>5. ASSUME NEW ws \in Sockets,
             \/ Disconnect(ws)
             \/ ReceiveOther(ws)
             \/ \E e \in Sent : ReceiveRejected(ws, e)
             \/ \E e \in Sent : ReceiveEvent(ws, e)
             \/ \E sub \in SubIds : ReceiveReqRefused(ws, sub)
             \/ \E sub \in SubIds, filters \in FilterSets : ReceiveReq(ws, sub, filters)
      PROVE  HubHasTheLiving' /\ NewAreDone'
  BY <1>5 DEF Disconnect, Receives, ReceiveOther, ReceiveRejected, ReceiveEvent,
              ReceiveReqRefused, ReceiveReq
<1>6. ASSUME NEW ws \in Sockets,
             \/ SendAnswer(ws)
             \/ \E w \in Sockets : ReachSocket(ws, w)
             \/ \E w \in Sockets : ReachRaising(ws, w)
             \/ \E target \in sends[ws] : SendLive(ws, target)
             \/ EndBroadcast(ws)
             \/ \E e \in replay[ws] : SendStored(ws, e)
             \/ SendEose(ws)
      PROVE  HubHasTheLiving' /\ NewAreDone'
  BY <1>6 DEF SendAnswer, ReachSocket, ReachRaising, SendLive, EndBroadcast, SendStored, SendEose
<1>7. CASE UNCHANGED relayVars
  BY <1>7 DEF relayVars
<1> QED BY <1>1, <1>2, <1>3, <1>4, <1>5, <1>6, <1>7, Steps

(* A write adds its event, and drops others. *)
LEMMA WriteRows ==
    ASSUME NEW table, NEW e
    PROVE  Write(table, e).events \subseteq table.events \cup {e}
BY DEF Write, ProcessDeletion, Insert, Delete

LEMMA MatchingTargets ==
    ASSUME NEW e, NEW w
    PROVE  \A target \in Matching(e, w) :
              \E s \in Subs(w) : target = <<w, s>> /\ Selects(e, hub[w][s])
BY DEF Matching

LEMMA TypeStep == RelayInv /\ [RelayNext]_relayVars => RelayTypeOK' /\ PerSocket'
<1> SUFFICES ASSUME RelayInv, [RelayNext]_relayVars PROVE RelayTypeOK' /\ PerSocket'
  OBVIOUS
<1>0. RelayTypeOK /\ PerSocket
  BY DEF RelayInv
<1> USE <1>0 DEF PerSocket
<1>1. ASSUME NEW ws \in Sockets, Connect(ws) PROVE RelayTypeOK' /\ PerSocket'
  BY <1>1 DEF RelayTypeOK, Connect, Awaits
<1>2. ASSUME NEW ws \in Sockets, Parts(ws) PROVE RelayTypeOK' /\ PerSocket'
  <2>1. Leaves(ws) /\ db'.events \subseteq Sent \ Rejected
    BY <1>2, PartsLeave DEF RelayTypeOK
  <2> QED BY <2>1 DEF RelayTypeOK, Leaves, Removed, Awaits
<1>3. ASSUME NEW ws \in Sockets, Subscribe(ws) PROVE RelayTypeOK' /\ PerSocket'
  <2>1. req[ws].sub \in SubIds
    BY <1>3 DEF RelayInv, Room, HasRoom, Subscribe
  <2>2. Subs(ws) \subseteq SubIds
    BY DEF RelayTypeOK, Subs
  <2>3. /\ DOMAIN hub' \subseteq Sockets
        /\ \A w \in DOMAIN hub' : DOMAIN hub'[w] \subseteq SubIds
    BY <1>3, <2>1, <2>2 DEF RelayTypeOK, Subscribe
  <2>4. pc' \in [Sockets -> Awaits]
    BY <1>3 DEF RelayTypeOK, Subscribe, Awaits
  <2> QED BY <1>3, <2>3, <2>4 DEF RelayTypeOK, Subscribe
<1>4. ASSUME NEW ws \in Sockets, NEW sub \in SubIds, ReceiveClose(ws, sub)
      PROVE  RelayTypeOK' /\ PerSocket'
  BY <1>4 DEF RelayTypeOK, ReceiveClose, WithoutSub
<1>5. ASSUME NEW ws \in Sockets, NEW e \in Sent, ReceiveEvent(ws, e)
      PROVE  RelayTypeOK' /\ PerSocket'
  <2>1. db'.events \subseteq db.events \cup {e} /\ e \notin Rejected
    BY <1>5, WriteRows DEF ReceiveEvent, Accepts
  <2>2. pc' \in [Sockets -> Awaits]
    BY <1>5 DEF RelayTypeOK, ReceiveEvent, Awaits
  <2>3. \A w \in Sockets : event'[w] \subseteq Sent
    BY <1>5 DEF RelayTypeOK, ReceiveEvent
  <2>4. DOMAIN event' = Sockets /\ DOMAIN owed' = Sockets
    BY <1>5 DEF ReceiveEvent
  <2>5. UNCHANGED <<hub, peer, todo, sends, req, replay>>
    BY <1>5 DEF ReceiveEvent
  <2> QED BY <2>1, <2>2, <2>3, <2>4, <2>5 DEF RelayTypeOK
<1>6. ASSUME NEW ws \in Sockets, NEW sub \in SubIds, NEW filters \in FilterSets,
             ReceiveReq(ws, sub, filters)
      PROVE  RelayTypeOK' /\ PerSocket'
  <2>1. query(db, Capped(filters)) \subseteq Sent
    BY QueryRows DEF RelayTypeOK
  <2> QED BY <1>6, <2>1 DEF RelayTypeOK, ReceiveReq, Awaits
<1>7. ASSUME NEW ws \in Sockets, NEW w \in Sockets, ReachSocket(ws, w)
      PROVE  RelayTypeOK' /\ PerSocket'
  <2>1. \A e : Matching(e, w) \subseteq Sockets \X SubIds
    BY MatchingTargets DEF RelayTypeOK, Subs
  <2> QED BY <1>7, <2>1 DEF RelayTypeOK, ReachSocket
<1>12. ASSUME NEW ws \in Sockets, NEW w \in Sockets, ReachRaising(ws, w)
      PROVE  RelayTypeOK' /\ PerSocket'
  <2>1. \A e : Matching(e, w) \subseteq Sockets \X SubIds
    BY MatchingTargets DEF RelayTypeOK, Subs
  <2>2. PICK S \in SUBSET (Sockets \X SubIds) : sends' = [sends EXCEPT ![ws] = S]
    BY <1>12, <2>1 DEF ReachRaising
  <2>3. /\ pc' = [pc EXCEPT ![ws] = "cut"]
        /\ UNCHANGED <<db, hub, peer, event, todo, req, replay, owed>>
    BY <1>12 DEF ReachRaising
  <2> QED BY <2>2, <2>3 DEF RelayTypeOK, Awaits
<1>8. ASSUME NEW ws \in Sockets,
             \/ Disconnect(ws)
             \/ ReceiveOther(ws)
             \/ \E e \in Sent : ReceiveRejected(ws, e)
             \/ \E sub \in SubIds : ReceiveReqRefused(ws, sub)
      PROVE  RelayTypeOK' /\ PerSocket'
  BY <1>8 DEF RelayTypeOK, Disconnect, ReceiveOther, ReceiveRejected, ReceiveReqRefused, Awaits
<1>9. ASSUME NEW ws \in Sockets, SendAnswer(ws) PROVE RelayTypeOK' /\ PerSocket'
  BY <1>9 DEF RelayTypeOK, SendAnswer, Awaits
<1>10. ASSUME NEW ws \in Sockets,
             \/ \E target \in sends[ws] : SendLive(ws, target)
             \/ EndBroadcast(ws)
             \/ \E e \in replay[ws] : SendStored(ws, e)
             \/ SendEose(ws)
      PROVE  RelayTypeOK' /\ PerSocket'
  BY <1>10 DEF RelayTypeOK, SendLive, EndBroadcast, SendStored, SendEose, Awaits
<1>11. CASE UNCHANGED relayVars
  BY <1>11 DEF RelayTypeOK, relayVars
<1> QED
  BY <1>1, <1>2, <1>3, <1>4, <1>5, <1>6, <1>7, <1>8, <1>9, <1>10, <1>11, <1>12, Steps

LEMMA RoomKept ==
    ASSUME NEW w \in Sockets, HasRoom(w), Subs(w)' = Subs(w),
           pc'[w] \in {"replay", "subscribe"} =>
              pc[w] \in {"replay", "subscribe"} /\ req'[w] = req[w]
    PROVE  HasRoom(w)'
BY DEF HasRoom, AtLimit

LEMMA RoomStep == RelayInv /\ [RelayNext]_relayVars => Room'
<1> SUFFICES ASSUME RelayInv, [RelayNext]_relayVars PROVE Room'
  OBVIOUS
<1>0. RelayTypeOK /\ PerSocket /\ HubHasTheLiving /\ NewAreDone /\ \A w \in Sockets : HasRoom(w)
  BY DEF RelayInv, Room
<1> USE <1>0 DEF PerSocket
<1>1. ASSUME NEW ws \in Sockets, Connect(ws) PROVE Room'
  BY <1>1, HubAfterConnect, RoomKept DEF RelayTypeOK, Room, Connect
<1>2. ASSUME NEW ws \in Sockets, Parts(ws) PROVE Room'
  <2>0. Leaves(ws)
    BY <1>2, PartsLeave
  <2>1. IsFiniteSet({}) /\ Cardinality({}) =< MaxSubscriptions
    BY FS_EmptySet, RelayAssumption
  <2>2. Subs(ws)' = {} /\ pc'[ws] = "done"
    BY <2>0, HubAfterLeaves DEF RelayTypeOK, Leaves
  <2>3. HasRoom(ws)'
    BY <2>1, <2>2 DEF HasRoom
  <2>4. \A w \in Sockets \ {ws} :
           Subs(w)' = Subs(w) /\ pc'[w] = pc[w] /\ req'[w] = req[w]
    BY <2>0, HubAfterLeaves DEF RelayTypeOK, Leaves
  <2> QED BY <2>3, <2>4, RoomKept DEF Room
<1>3. ASSUME NEW ws \in Sockets, Subscribe(ws) PROVE Room'
  <2> DEFINE sub == req[ws].sub
             n == Cardinality(Subs(ws))
  <2>1. IsFiniteSet(Subs(ws)) /\ n =< MaxSubscriptions /\ ~AtLimit(ws, sub)
    BY <1>3 DEF HasRoom, Subscribe
  <2>2. n \in Nat
    BY <2>1, FS_CardinalityType
  <2>3. sub \in Subs(ws) \/ n + 1 =< MaxSubscriptions
    BY <2>1, <2>2, RelayAssumption DEF AtLimit
  <2>4. /\ IsFiniteSet(Subs(ws) \cup {sub})
        /\ Cardinality(Subs(ws) \cup {sub}) = IF sub \in Subs(ws) THEN n ELSE n + 1
    BY <2>1, FS_AddElement
  <2>5. Subs(ws)' = Subs(ws) \cup {sub} /\ pc'[ws] = "receive"
    BY <1>3, HubAfterSubscribe DEF RelayTypeOK, Subscribe
  <2>6. HasRoom(ws)'
    BY <2>1, <2>3, <2>4, <2>5 DEF HasRoom
  <2>7. \A w \in Sockets \ {ws} :
           Subs(w)' = Subs(w) /\ pc'[w] = pc[w] /\ req'[w] = req[w]
    BY <1>3, HubAfterSubscribe DEF RelayTypeOK, Subscribe
  <2> QED BY <2>6, <2>7, RoomKept DEF Room
<1>4. ASSUME NEW ws \in Sockets, NEW sub \in SubIds, ReceiveClose(ws, sub) PROVE Room'
  <2>1. IsFiniteSet(Subs(ws)) /\ Cardinality(Subs(ws)) =< MaxSubscriptions
    BY DEF HasRoom
  <2>2. /\ IsFiniteSet(Subs(ws) \ {sub})
        /\ Cardinality(Subs(ws) \ {sub}) \in Nat /\ Cardinality(Subs(ws)) \in Nat
        /\ Cardinality(Subs(ws) \ {sub}) =< Cardinality(Subs(ws))
    <3>1. (Subs(ws) \ {sub}) \in SUBSET Subs(ws)
      OBVIOUS
    <3>2. IsFiniteSet(Subs(ws) \ {sub})
      BY <2>1, <3>1, FS_Subset
    <3> QED BY <2>1, <3>1, <3>2, FS_Subset, FS_CardinalityType
  <2>3. Subs(ws)' = Subs(ws) \ {sub} /\ pc'[ws] = "receive"
    BY <1>4, HubAfterClose DEF RelayTypeOK, ReceiveClose, Receives
  <2>4. HasRoom(ws)'
    BY <2>1, <2>2, <2>3, RelayAssumption DEF HasRoom
  <2>5. \A w \in Sockets \ {ws} :
           Subs(w)' = Subs(w) /\ pc'[w] = pc[w] /\ req'[w] = req[w]
    BY <1>4, HubAfterClose DEF RelayTypeOK, ReceiveClose
  <2> QED BY <2>4, <2>5, RoomKept DEF Room
<1>5. ASSUME NEW ws \in Sockets, NEW sub \in SubIds, NEW filters \in FilterSets,
             ReceiveReq(ws, sub, filters)
      PROVE  Room'
  <2>1. UNCHANGED hub /\ ~AtLimit(ws, sub) /\ req'[ws].sub = sub
    BY <1>5 DEF ReceiveReq
  <2>2. \A w \in Sockets : Subs(w)' = Subs(w)
    BY <2>1 DEF Subs
  <2>3. HasRoom(ws)'
    BY <2>1, <2>2 DEF HasRoom, AtLimit
  <2>4. \A w \in Sockets \ {ws} : pc'[w] = pc[w] /\ req'[w] = req[w]
    BY <1>5 DEF RelayTypeOK, ReceiveReq
  <2> QED BY <2>2, <2>3, <2>4, RoomKept DEF Room
<1>6. ASSUME NEW ws \in Sockets,
             \/ Disconnect(ws)
             \/ ReceiveOther(ws)
             \/ \E e \in Sent : ReceiveRejected(ws, e)
             \/ \E e \in Sent : ReceiveEvent(ws, e)
             \/ \E sub \in SubIds : ReceiveReqRefused(ws, sub)
      PROVE  Room'
  <2>1. UNCHANGED <<hub, req>> /\ pc' \in {pc, [pc EXCEPT ![ws] = "answer"]}
    BY <1>6 DEF Disconnect, ReceiveOther, ReceiveRejected, ReceiveEvent, ReceiveReqRefused
  <2>2. \A w \in Sockets : Subs(w)' = Subs(w)
    BY <2>1 DEF Subs
  <2> QED BY <2>1, <2>2, RoomKept DEF RelayTypeOK, Room
<1>7. ASSUME NEW ws \in Sockets,
             \/ SendAnswer(ws)
             \/ \E w \in Sockets : ReachSocket(ws, w)
             \/ \E w \in Sockets : ReachRaising(ws, w)
             \/ \E target \in sends[ws] : SendLive(ws, target)
             \/ EndBroadcast(ws)
             \/ \E e \in replay[ws] : SendStored(ws, e)
             \/ SendEose(ws)
      PROVE  Room'
  <2>1. /\ UNCHANGED <<hub, req>>
        /\ \A w \in Sockets : pc'[w] \in {"replay", "subscribe"} =>
                                  pc[w] \in {"replay", "subscribe"}
    BY <1>7 DEF RelayTypeOK, SendAnswer, ReachSocket, ReachRaising, SendLive, EndBroadcast, SendStored, SendEose
  <2>2. \A w \in Sockets : Subs(w)' = Subs(w)
    BY <2>1 DEF Subs
  <2> QED BY <2>1, <2>2, RoomKept DEF Room
<1>8. CASE UNCHANGED relayVars
  <2>1. \A w \in Sockets : Subs(w)' = Subs(w)
    BY <1>8 DEF Subs, relayVars
  <2> QED BY <1>8, <2>1, RoomKept DEF Room, relayVars
<1> QED BY <1>1, <1>2, <1>3, <1>4, <1>5, <1>6, <1>7, <1>8, Steps

LEMMA ReplayKept ==
    ASSUME NEW w \in Sockets, ReplayFits(w), replay'[w] = replay[w], req'[w] = req[w],
           pc[w] = "replay" => pc'[w] = "replay" \/ replay[w] = {}
    PROVE  ReplayFits(w)'
BY DEF ReplayFits

LEMMA NothingToReplay ==
    ASSUME NEW w \in Sockets, replay'[w] = {}, req'[w] = NoReq
    PROVE  ReplayFits(w)'
<1>1. IsFiniteSet({}) /\ Cardinality({}) = 0 /\ req'[w].filters = {}
  BY FS_EmptySet DEF NoReq
<1>2. MaxQueryLimit * 0 = 0
  BY RelayAssumption
<1> QED BY <1>1, <1>2 DEF ReplayFits

LEMMA ReplayingStep == RelayInv /\ [RelayNext]_relayVars => Replaying'
<1> SUFFICES ASSUME RelayInv, [RelayNext]_relayVars PROVE Replaying'
  OBVIOUS
<1>0. RelayTypeOK /\ PerSocket /\ IsFiniteSet(db.events) /\ \A w \in Sockets : ReplayFits(w)
  BY DEF RelayInv, Replaying
<1> USE <1>0 DEF PerSocket
<1>1. ASSUME NEW ws \in Sockets, Parts(ws) PROVE Replaying'
  <2>0. Leaves(ws) /\ (db' = db \/ \E e \in Sent : db'.events \in SUBSET (db.events \cup {e}))
    BY <1>1, PartsLeave
  <2>1. \A e : IsFiniteSet(db.events \cup {e})
    BY FS_AddElement
  <2>2. IsFiniteSet(db'.events)
    BY <2>0, <2>1, FS_Subset
  <2>3. replay'[ws] = {} /\ req'[ws] = NoReq
    BY <2>0 DEF Leaves
  <2>4. \A w \in Sockets \ {ws} : replay'[w] = replay[w] /\ req'[w] = req[w] /\ pc'[w] = pc[w]
    BY <2>0 DEF RelayTypeOK, Leaves
  <2>5. \A w \in Sockets : ReplayFits(w)'
    BY <2>3, <2>4, ReplayKept, NothingToReplay
  <2> QED BY <2>2, <2>5 DEF Replaying
<1>2. ASSUME NEW ws \in Sockets, Subscribe(ws) PROVE Replaying'
  <2>1. UNCHANGED db /\ replay'[ws] = {} /\ req'[ws] = NoReq
    BY <1>2 DEF Subscribe, ReplayFits
  <2>2. \A w \in Sockets \ {ws} : replay'[w] = replay[w] /\ req'[w] = req[w] /\ pc'[w] = pc[w]
    BY <1>2 DEF RelayTypeOK, Subscribe
  <2> QED BY <2>1, <2>2, ReplayKept, NothingToReplay DEF Replaying
<1>3. ASSUME NEW ws \in Sockets, NEW e \in Sent, ReceiveEvent(ws, e) PROVE Replaying'
  <2>1. db'.events \in SUBSET (db.events \cup {e})
    BY <1>3, WriteRows DEF ReceiveEvent
  <2>2. IsFiniteSet(db.events \cup {e})
    BY FS_AddElement
  <2>3. IsFiniteSet(db'.events)
    BY <2>1, <2>2, FS_Subset
  <2>4. \A w \in Sockets : /\ replay'[w] = replay[w] /\ req'[w] = req[w]
                           /\ pc[w] = "replay" => pc'[w] = "replay"
    BY <1>3 DEF RelayTypeOK, ReceiveEvent, Receives
  <2>5. \A w \in Sockets : ReplayFits(w)'
    BY <2>4, ReplayKept
  <2> QED BY <2>3, <2>5 DEF Replaying
<1>4. ASSUME NEW ws \in Sockets, NEW sub \in SubIds, NEW filters \in FilterSets,
             ReceiveReq(ws, sub, filters)
      PROVE  Replaying'
  <2> DEFINE F == Capped(filters)
  <2>1. IsFiniteSet(F) /\ \A flt \in F : "limit" \in DOMAIN flt /\ flt.limit \in 0..MaxQueryLimit
    BY CappedFilters
  <2>2. db.events \subseteq Sent
    BY DEF RelayTypeOK
  <2> HIDE DEF F
  <2>3. /\ IsFiniteSet(query(db, F))
        /\ Cardinality(query(db, F)) =< MaxQueryLimit * Cardinality(F)
    BY <2>1, <2>2, QueryBounded, RelayAssumption
  <2>4. /\ UNCHANGED db /\ replay'[ws] = query(db, F) /\ req'[ws].filters = F
        /\ pc'[ws] = "replay"
    BY <1>4 DEF RelayTypeOK, ReceiveReq, F
  <2>5. ReplayFits(ws)'
    BY <2>1, <2>3, <2>4 DEF ReplayFits
  <2>6. \A w \in Sockets \ {ws} : replay'[w] = replay[w] /\ req'[w] = req[w] /\ pc'[w] = pc[w]
    BY <1>4 DEF RelayTypeOK, ReceiveReq
  <2> QED BY <2>4, <2>5, <2>6, ReplayKept DEF Replaying
<1>5. ASSUME NEW ws \in Sockets, NEW e \in replay[ws], SendStored(ws, e) PROVE Replaying'
  <2> DEFINE left == replay[ws] \ {e}
  <2>1. left \in SUBSET replay[ws] /\ IsFiniteSet(replay[ws]) /\ IsFiniteSet(req[ws].filters)
    BY DEF ReplayFits
  <2>2. IsFiniteSet(left) /\ Cardinality(left) =< Cardinality(replay[ws])
    BY <2>1, FS_Subset
  <2>3. /\ Cardinality(left) \in Nat /\ Cardinality(replay[ws]) \in Nat
        /\ Cardinality(req[ws].filters) \in Nat
    BY <2>1, <2>2, FS_CardinalityType
  <2>4. MaxQueryLimit * Cardinality(req[ws].filters) \in Nat
    BY <2>3, RelayAssumption
  <2>5. Cardinality(left) =< MaxQueryLimit * Cardinality(req[ws].filters)
    BY <2>2, <2>3, <2>4 DEF ReplayFits
  <2>6. UNCHANGED <<db, req, pc>> /\ replay' = [replay EXCEPT ![ws] = left]
    BY <1>5 DEF SendStored
  <2>7. ReplayFits(ws)'
    BY <1>5, <2>1, <2>2, <2>5, <2>6 DEF ReplayFits, SendStored
  <2>8. \A w \in Sockets \ {ws} : replay'[w] = replay[w] /\ req'[w] = req[w] /\ pc'[w] = pc[w]
    BY <2>6
  <2> QED BY <2>6, <2>7, <2>8, ReplayKept DEF Replaying
<1>6. ASSUME NEW ws \in Sockets,
             \/ Connect(ws)
             \/ Disconnect(ws)
             \/ ReceiveOther(ws)
             \/ \E e \in Sent : ReceiveRejected(ws, e)
             \/ \E sub \in SubIds : ReceiveReqRefused(ws, sub)
             \/ \E sub \in SubIds : ReceiveClose(ws, sub)
      PROVE  Replaying'
  <2>1. /\ UNCHANGED <<db, replay, req>>
        /\ \A w \in Sockets : pc[w] = "replay" => pc'[w] = "replay" \/ replay[w] = {}
    BY <1>6 DEF RelayTypeOK, RelayInv, NewAreDone, Connect, Disconnect, ReceiveOther, ReceiveRejected,
                ReceiveReqRefused, ReceiveClose, Receives
  <2> QED BY <2>1, ReplayKept DEF Replaying
<1>7. ASSUME NEW ws \in Sockets,
             \/ SendAnswer(ws)
             \/ \E w \in Sockets : ReachSocket(ws, w)
             \/ \E w \in Sockets : ReachRaising(ws, w)
             \/ \E target \in sends[ws] : SendLive(ws, target)
             \/ EndBroadcast(ws)
             \/ SendEose(ws)
      PROVE  Replaying'
  <2>1. /\ UNCHANGED <<db, replay, req>>
        /\ \A w \in Sockets : pc[w] = "replay" => pc'[w] = "replay" \/ replay[w] = {}
    BY <1>7 DEF RelayTypeOK, SendAnswer, ReachSocket, ReachRaising, SendLive, EndBroadcast, SendEose
  <2> QED BY <2>1, ReplayKept DEF Replaying
<1>8. CASE UNCHANGED relayVars
  BY <1>8, ReplayKept DEF Replaying, relayVars
<1> QED BY <1>1, <1>2, <1>3, <1>4, <1>5, <1>6, <1>7, <1>8, Steps

LEMMA AnsweredKept ==
    ASSUME NEW w \in Sockets, SubsAnswered(w), Subs(w)' = Subs(w),
           \A s : <<w, s>> \in eosed => <<w, s>> \in eosed',
           pc'[w] = "subscribe" => pc[w] = "subscribe" /\ req'[w] = req[w]
    PROVE  SubsAnswered(w)'
BY DEF SubsAnswered

LEMMA AfterEoseStep == RelayInv /\ [RelayNext]_relayVars => AfterEose'
<1> SUFFICES ASSUME RelayInv, [RelayNext]_relayVars PROVE AfterEose'
  OBVIOUS
<1>0. /\ RelayTypeOK /\ PerSocket /\ HubHasTheLiving /\ NewAreDone
      /\ \A w \in Sockets : SubsAnswered(w)
      /\ \A w \in Sockets : \A target \in sends[w] :
            MaySend(target) /\ \E v \in Sockets, s \in SubIds : target = <<v, s>>
  BY DEF RelayInv, AfterEose, RelayTypeOK
<1> USE <1>0 DEF PerSocket
<1>1. ASSUME NEW ws \in Sockets, Connect(ws) PROVE AfterEose'
  <2>1. \A w \in Sockets : SubsAnswered(w)'
    BY <1>1, HubAfterConnect, AnsweredKept DEF RelayTypeOK, Connect
  <2>2. \A target : MaySend(target) /\ target[1] \in Sockets => MaySend(target)'
    BY <1>1 DEF RelayTypeOK, MaySend, Connect
  <2>3. UNCHANGED sends
    BY <1>1 DEF Connect
  <2> QED BY <2>1, <2>2, <2>3 DEF AfterEose
<1>2. ASSUME NEW ws \in Sockets, Disconnect(ws) PROVE AfterEose'
  <2>1. \A w \in Sockets : SubsAnswered(w)'
    BY <1>2 DEF SubsAnswered, Subs, Disconnect
  <2>2. \A target : MaySend(target) /\ target[1] \in Sockets => MaySend(target)'
    BY <1>2 DEF RelayTypeOK, MaySend, Disconnect
  <2>3. UNCHANGED sends
    BY <1>2 DEF Disconnect
  <2> QED BY <2>1, <2>2, <2>3 DEF AfterEose
<1>3. ASSUME NEW ws \in Sockets, Parts(ws) PROVE AfterEose'
  <2>0. Leaves(ws)
    BY <1>3, PartsLeave
  <2>1. /\ eosed' = {x \in eosed : x[1] # ws} /\ UNCHANGED sends
        /\ pc' = [pc EXCEPT ![ws] = "done"]
        /\ peer' = [peer EXCEPT ![ws] = "gone"]
        /\ req' = [req EXCEPT ![ws] = NoReq]
    BY <2>0 DEF Leaves
  <2>2. Subs(ws)' = {} /\ \A w \in Sockets \ {ws} : Subs(w)' = Subs(w)
    BY <2>0, HubAfterLeaves
  <2>3. SubsAnswered(ws)'
    BY <2>1, <2>2 DEF RelayTypeOK, SubsAnswered
  <2>4. \A w \in Sockets \ {ws} : SubsAnswered(w)'
    BY <2>1, <2>2, AnsweredKept DEF RelayTypeOK
  <2>5. \A target : MaySend(target) /\ target[1] \in Sockets => MaySend(target)'
    BY <2>1 DEF RelayTypeOK, MaySend
  <2> QED BY <2>1, <2>3, <2>4, <2>5 DEF AfterEose
<1>4. ASSUME NEW ws \in Sockets, Subscribe(ws) PROVE AfterEose'
  <2>1. /\ UNCHANGED <<peer, sends, eosed>>
        /\ pc' = [pc EXCEPT ![ws] = "receive"] /\ pc[ws] = "subscribe"
        /\ req' = [req EXCEPT ![ws] = NoReq]
    BY <1>4 DEF Subscribe
  <2>2. /\ Subs(ws)' = Subs(ws) \cup {req[ws].sub}
        /\ \A w \in Sockets \ {ws} : Subs(w)' = Subs(w)
    BY <1>4, HubAfterSubscribe
  <2>3. SubsAnswered(ws)'
    BY <2>1, <2>2 DEF RelayTypeOK, SubsAnswered
  <2>4. \A w \in Sockets \ {ws} : SubsAnswered(w)'
    BY <2>1, <2>2, AnsweredKept DEF RelayTypeOK
  <2>5. \A target : MaySend(target) /\ target[1] \in Sockets => MaySend(target)'
    BY <2>1 DEF RelayTypeOK, MaySend
  <2> QED BY <2>1, <2>3, <2>4, <2>5 DEF AfterEose
<1>5. ASSUME NEW ws \in Sockets, NEW sub \in SubIds, ReceiveClose(ws, sub) PROVE AfterEose'
  <2>1. UNCHANGED <<peer, sends, eosed, pc, req>>
    BY <1>5 DEF ReceiveClose
  <2>2. /\ Subs(ws)' = Subs(ws) \ {sub}
        /\ \A w \in Sockets \ {ws} : Subs(w)' = Subs(w)
    BY <1>5, HubAfterClose
  <2> QED BY <2>1, <2>2 DEF AfterEose, SubsAnswered, MaySend
<1>6. ASSUME NEW ws \in Sockets, SendEose(ws) PROVE AfterEose'
  <2>1. /\ UNCHANGED <<peer, sends, req, hub>>
        /\ eosed' = eosed \cup {<<ws, req[ws].sub>>}
        /\ pc' = [pc EXCEPT ![ws] = "subscribe"] /\ pc[ws] = "replay"
    BY <1>6 DEF SendEose
  <2>2. \A w \in Sockets : SubsAnswered(w)'
    BY <2>1 DEF RelayTypeOK, SubsAnswered, Subs
  <2>3. \A target : MaySend(target) /\ target[1] \in Sockets => MaySend(target)'
    BY <2>1 DEF RelayTypeOK, MaySend
  <2> QED BY <2>1, <2>2, <2>3 DEF AfterEose
<1>7. ASSUME NEW ws \in Sockets, NEW w \in Sockets, ReachSocket(ws, w) PROVE AfterEose'
  <2>1. /\ UNCHANGED <<peer, req, hub, eosed, pc>>
        /\ sends' = [sends EXCEPT ![ws] = UNION {Matching(e, w) : e \in event[ws]}]
    BY <1>7 DEF ReachSocket
  <2>2. \A v \in Sockets : SubsAnswered(v)'
    BY <2>1 DEF SubsAnswered, Subs
  <2>3. ASSUME NEW e, NEW target \in Matching(e, w)
        PROVE  MaySend(target)
    <3>1. PICK s \in Subs(w) : target = <<w, s>>
      BY MatchingTargets
    <3>2. w \in DOMAIN hub
      BY DEF Subs
    <3> QED BY <3>1, <3>2 DEF MaySend, SubsAnswered, HubHasTheLiving, NewAreDone
  <2>4. \A v \in Sockets : \A target \in sends'[v] : MaySend(target)
    BY <2>1, <2>3
  <2>5. \A target : MaySend(target) => MaySend(target)'
    BY <2>1 DEF MaySend
  <2> QED BY <2>2, <2>4, <2>5 DEF AfterEose
<1>11. ASSUME NEW ws \in Sockets, NEW w \in Sockets, ReachRaising(ws, w) PROVE AfterEose'
  <2>1. /\ UNCHANGED <<peer, req, hub, eosed>> /\ pc[ws] = "broadcast"
        /\ pc' = [pc EXCEPT ![ws] = "cut"]
    BY <1>11 DEF ReachRaising
  <2>2. \A v \in Sockets : SubsAnswered(v)'
    BY <2>1 DEF SubsAnswered, Subs, RelayTypeOK
  <2>3. ASSUME NEW e, NEW target \in Matching(e, w)
        PROVE  MaySend(target)
    <3>1. PICK s \in Subs(w) : target = <<w, s>>
      BY MatchingTargets
    <3>2. w \in DOMAIN hub
      BY DEF Subs
    <3> QED BY <3>1, <3>2 DEF MaySend, SubsAnswered, HubHasTheLiving, NewAreDone
  <2>4. \A v \in Sockets : \A target \in sends'[v] : MaySend(target) /\ target[1] \in Sockets
    <3>1. PICK e \in event[ws] : \E S \in SUBSET Matching(e, w) :
                                     sends' = [sends EXCEPT ![ws] = S]
      BY <1>11 DEF ReachRaising
    <3>2. \A target \in Matching(e, w) : target[1] \in Sockets
      BY MatchingTargets
    <3> QED BY <2>3, <3>1, <3>2
  <2>5. \A target : MaySend(target) /\ target[1] \in Sockets => MaySend(target)'
    BY <2>1 DEF MaySend, RelayTypeOK
  <2> QED BY <2>2, <2>4, <2>5 DEF AfterEose
<1>8. ASSUME NEW ws \in Sockets, NEW target \in sends[ws], SendLive(ws, target) PROVE AfterEose'
  <2>1. /\ UNCHANGED <<peer, req, hub, eosed, pc>>
        /\ \A w \in Sockets : sends'[w] \subseteq sends[w]
    BY <1>8 DEF SendLive
  <2> QED BY <2>1 DEF AfterEose, SubsAnswered, MaySend, Subs
<1>9. ASSUME NEW ws \in Sockets,
             \/ ReceiveOther(ws)
             \/ \E e \in Sent : ReceiveRejected(ws, e)
             \/ \E e \in Sent : ReceiveEvent(ws, e)
             \/ \E sub \in SubIds : ReceiveReqRefused(ws, sub)
             \/ \E sub \in SubIds, filters \in FilterSets : ReceiveReq(ws, sub, filters)
             \/ SendAnswer(ws)
             \/ EndBroadcast(ws)
             \/ \E e \in replay[ws] : SendStored(ws, e)
      PROVE  AfterEose'
  <2>1. /\ UNCHANGED <<peer, sends, hub, eosed>>
        /\ \A w \in Sockets : pc'[w] = "done" <=> pc[w] = "done"
    BY <1>9 DEF RelayTypeOK, ReceiveOther, ReceiveRejected, ReceiveEvent, ReceiveReqRefused, ReceiveReq,
                Receives, SendAnswer, EndBroadcast, SendStored
  <2>2. \A w \in Sockets : pc'[w] = "subscribe" => pc[w] = "subscribe" /\ req'[w] = req[w]
    BY <1>9 DEF RelayTypeOK, ReceiveOther, ReceiveRejected, ReceiveEvent, ReceiveReqRefused, ReceiveReq,
                SendAnswer, EndBroadcast, SendStored
  <2>3. \A w \in Sockets : Subs(w)' = Subs(w)
    BY <2>1 DEF Subs
  <2>4. \A w \in Sockets : SubsAnswered(w)'
    BY <2>1, <2>2, <2>3, AnsweredKept
  <2>5. \A target : MaySend(target) /\ target[1] \in Sockets => MaySend(target)'
    BY <2>1 DEF MaySend
  <2> QED BY <2>1, <2>4, <2>5 DEF AfterEose
<1>10. CASE UNCHANGED relayVars
  BY <1>10 DEF AfterEose, SubsAnswered, MaySend, Subs, relayVars
<1> QED
  BY <1>1, <1>2, <1>3, <1>4, <1>5, <1>6, <1>7, <1>8, <1>9, <1>10, <1>11, Steps

(* A target stays due while its socket is to be reached and its            *)
(* subscription is left alone.                                             *)
LEMMA DueKept ==
    ASSUME NEW w \in Sockets, IsDue(w), event'[w] = event[w],
           peer'[w] = "new" => peer[w] = "new",
           pc[w] \notin {"cut", "done"}, pc'[w] \notin {"cut", "done"},
           sends'[w] = sends[w], pc'[w] = "broadcast" \/ sends[w] = {},
           owed'[w] \subseteq owed[w],
           \A v \in ToReach(w) : \A s \in Subs(v) : <<v, s>> \in owed'[w] =>
              v \in ToReach(w)' /\ s \in Subs(v)' /\ hub'[v][s] = hub[v][s]
    PROVE  IsDue(w)'
<1>1. ASSUME NEW target \in owed'[w], target \notin sends'[w]
      PROVE  \E e \in event'[w] : WillReach(w, e, target)'
  <2>1. PICK e \in event[w] : WillReach(w, e, target)
    BY <1>1 DEF IsDue
  <2>2. PICK v \in ToReach(w) : \E s \in Subs(v) : target = <<v, s>> /\ Selects(e, hub[v][s])
    BY <2>1 DEF WillReach
  <2>3. PICK s \in Subs(v) : target = <<v, s>> /\ Selects(e, hub[v][s])
    BY <2>2
  <2>4. v \in ToReach(w)' /\ s \in Subs(v)' /\ Selects(e, hub'[v][s])
    BY <2>3
  <2>5. WillReach(w, e, target)'
    BY <2>3, <2>4 DEF WillReach
  <2> QED BY <2>5
<1>2. pc'[w] \notin {"broadcast", "cut"} => sends'[w] = {}
  OBVIOUS
<1>3. peer'[w] = "new" => owed'[w] = {}
  BY DEF IsDue
<1> QED BY <1>1, <1>2, <1>3 DEF IsDue

(* What a cut broadcast owes is of sockets it had not got past. *)
LEMMA CutKept ==
    ASSUME NEW w \in Sockets, IsDue(w), pc[w] \in {"cut", "done"},
           pc'[w] = pc[w], sends'[w] = sends[w], todo'[w] = todo[w],
           peer'[w] = "new" => peer[w] = "new",
           owed'[w] \subseteq owed[w]
    PROVE  IsDue(w)'
BY DEF IsDue

(* What the steps of others leave as it is. *)
LEMMA OthersDue ==
    ASSUME NEW w \in Sockets, IsDue(w), event'[w] = event[w],
           peer'[w] = "new" => peer[w] = "new",
           pc'[w] = pc[w], sends'[w] = sends[w], todo'[w] = todo[w],
           owed'[w] \subseteq owed[w],
           \A v \in ToReach(w) : \A s \in Subs(v) : <<v, s>> \in owed'[w] =>
              v \in ToReach(w)' /\ s \in Subs(v)' /\ hub'[v][s] = hub[v][s]
    PROVE  IsDue(w)'
<1>1. pc[w] \notin {"cut", "done"} => pc[w] = "broadcast" \/ sends[w] = {}
  BY DEF IsDue
<1> QED BY <1>1, DueKept, CutKept

(* Only a coroutine that handles an event owes anything. *)
LEMMA OwesNothing ==
    ASSUME NEW w \in Sockets, IsDue(w), pc[w] \notin {"answer", "broadcast", "cut", "done"}
    PROVE  owed[w] = {} /\ sends[w] = {} /\ ToReach(w) = {}
<1>1. ToReach(w) = {}
  BY DEF ToReach
<1>2. sends[w] = {}
  BY DEF IsDue
<1> QED BY <1>1, <1>2 DEF IsDue, WillReach

LEMMA DueStep == RelayInv /\ [RelayNext]_relayVars => Due'
<1> SUFFICES ASSUME RelayInv, [RelayNext]_relayVars PROVE Due'
  OBVIOUS
<1>0. /\ RelayTypeOK /\ PerSocket /\ HubHasTheLiving /\ NewAreDone
      /\ \A w \in Sockets : IsDue(w)
  BY DEF RelayInv, Due
<1> USE <1>0 DEF PerSocket
<1>1. ASSUME NEW ws \in Sockets, Connect(ws) PROVE Due'
  <2>1. /\ UNCHANGED <<event, sends, owed, todo>>
        /\ peer[ws] = "new" /\ peer' = [peer EXCEPT ![ws] = "open"]
        /\ pc' = [pc EXCEPT ![ws] = "receive"]
    BY <1>1 DEF Connect
  <2>2. IsDue(ws)'
    BY <2>1 DEF IsDue, RelayTypeOK, NewAreDone
  <2>3. \A w \in Sockets \ {ws} : ToReach(w) \subseteq ToReach(w)'
    BY <1>1, <2>1, HubAfterConnect DEF ToReach, RelayTypeOK
  <2>4. \A v : \A s \in Subs(v) : s \in Subs(v)' /\ hub'[v][s] = hub[v][s]
    BY <1>1, HubAfterConnect DEF Subs, RelayTypeOK
  <2>5. ASSUME NEW w \in Sockets \ {ws} PROVE IsDue(w)'
    <3>1. pc'[w] = pc[w] /\ peer'[w] = peer[w]
      BY <2>1 DEF RelayTypeOK
    <3> QED BY <2>1, <2>3, <2>4, <3>1, OthersDue
  <2> QED BY <2>2, <2>5 DEF Due
<1>2. ASSUME NEW ws \in Sockets, Parts(ws) PROVE Due'
  <2>0. Leaves(ws)
    BY <1>2, PartsLeave
  <2>1. /\ UNCHANGED <<sends, todo>>
        /\ pc[ws] # "broadcast" /\ pc' = [pc EXCEPT ![ws] = "done"]
        /\ pc[ws] = "cut" => sends[ws] = {}
        /\ peer' = [peer EXCEPT ![ws] = "gone"]
        /\ event' = [event EXCEPT ![ws] = {}]
        /\ owed' = [w \in Sockets |->
                       {x \in owed[w] : x[1] # ws /\ (w = ws => pc[ws] = "cut")}]
    BY <1>2, <2>0, PartsLeave DEF Leaves
  <2>2. IsDue(ws)'
    BY <2>1 DEF IsDue, RelayTypeOK
  <2>3. ASSUME NEW w \in Sockets \ {ws} PROVE IsDue(w)'
    <3>1. /\ owed'[w] = {x \in owed[w] : x[1] # ws} /\ pc'[w] = pc[w]
          /\ event'[w] = event[w] /\ peer'[w] = peer[w]
      BY <2>1 DEF RelayTypeOK
    <3>2. \A v \in ToReach(w) \ {ws} : v \in ToReach(w)'
      BY <2>0, <2>1, <3>1, HubAfterLeaves DEF ToReach
    <3>3. \A v : \A s \in Subs(v) : v # ws => s \in Subs(v)' /\ hub'[v][s] = hub[v][s]
      BY <2>0, HubAfterLeaves DEF Subs, RelayTypeOK
    <3>4. \A v, s : <<v, s>> \in owed'[w] => v # ws
      BY <3>1
    <3> QED BY <2>1, <3>1, <3>2, <3>3, <3>4, OthersDue
  <2> QED BY <2>2, <2>3 DEF Due
<1>3. ASSUME NEW ws \in Sockets, Subscribe(ws) PROVE Due'
  <2>1. /\ UNCHANGED <<sends, todo, event, peer>>
        /\ pc[ws] = "subscribe" /\ pc' = [pc EXCEPT ![ws] = "receive"]
        /\ owed' = [w \in Sockets |-> owed[w] \ {<<ws, req[ws].sub>>}]
    BY <1>3 DEF Subscribe
  <2>2. \A w \in Sockets : ToReach(w) \subseteq ToReach(w)'
    BY <1>3, <2>1, HubAfterSubscribe DEF ToReach, RelayTypeOK
  <2>3. \A v : \A s \in Subs(v) : /\ s \in Subs(v)'
                                  /\ <<v, s>> # <<ws, req[ws].sub>> => hub'[v][s] = hub[v][s]
    BY <1>3, HubAfterSubscribe DEF Subs, RelayTypeOK
  <2>4. \A w \in Sockets : /\ owed'[w] \subseteq owed[w]
                           /\ <<ws, req[ws].sub>> \notin owed'[w]
    BY <2>1
  <2>5. IsDue(ws)'
    <3>1. sends[ws] = {} /\ owed[ws] = {}
      BY <2>1, OwesNothing
    <3> QED BY <2>1, <2>4, <3>1 DEF IsDue, RelayTypeOK
  <2>6. ASSUME NEW w \in Sockets \ {ws} PROVE IsDue(w)'
    <3>1. pc'[w] = pc[w]
      BY <2>1 DEF RelayTypeOK
    <3> QED BY <2>1, <2>2, <2>3, <2>4, <3>1, OthersDue
  <2> QED BY <2>5, <2>6 DEF Due
<1>4. ASSUME NEW ws \in Sockets, NEW sub \in SubIds, ReceiveClose(ws, sub) PROVE Due'
  <2>1. /\ UNCHANGED <<sends, todo, event, pc, peer>>
        /\ owed' = [w \in Sockets |-> owed[w] \ {<<ws, sub>>}]
    BY <1>4 DEF ReceiveClose
  <2>2. \A w \in Sockets : ToReach(w) = ToReach(w)'
    BY <1>4, <2>1, HubAfterClose DEF ToReach
  <2>3. \A v : \A s \in Subs(v) : <<v, s>> # <<ws, sub>> =>
                                     s \in Subs(v)' /\ hub'[v][s] = hub[v][s]
    BY <1>4, HubAfterClose DEF Subs, RelayTypeOK
  <2>4. \A w \in Sockets : owed'[w] \subseteq owed[w] /\ <<ws, sub>> \notin owed'[w]
    BY <2>1
  <2> QED BY <2>1, <2>2, <2>3, <2>4, OthersDue DEF Due
<1>5. ASSUME NEW ws \in Sockets, NEW e \in Sent, ReceiveEvent(ws, e) PROVE Due'
  <2>1. /\ UNCHANGED <<hub, sends, todo, peer>> /\ peer[ws] = "open"
        /\ pc[ws] = "receive" /\ pc' = [pc EXCEPT ![ws] = "answer"]
        /\ event' = [event EXCEPT ![ws] = event'[ws]]
        /\ owed' = [owed EXCEPT ![ws] = owed'[ws]]
        /\ \/ owed'[ws] = {}
           \/ event'[ws] = {e} /\ owed'[ws] = UNION {Matching(e, w) : w \in DOMAIN hub}
    BY <1>5 DEF ReceiveEvent, Receives
  <2>2. \A w : Subs(w)' = Subs(w)
    BY <2>1 DEF Subs
  <2>3. sends'[ws] = {} /\ ToReach(ws)' = DOMAIN hub
    BY <2>1, OwesNothing DEF ToReach, RelayTypeOK
  <2>4. ASSUME NEW target \in owed'[ws]
        PROVE  \E x \in event'[ws] : WillReach(ws, x, target)'
    <3>1. event'[ws] = {e} /\ owed'[ws] = UNION {Matching(e, w) : w \in DOMAIN hub}
      BY <2>1
    <3>2. PICK w \in DOMAIN hub : target \in Matching(e, w)
      BY <3>1
    <3>3. \E s \in Subs(w) : target = <<w, s>> /\ Selects(e, hub[w][s])
      BY <3>2, MatchingTargets
    <3>4. WillReach(ws, e, target)'
      BY <2>1, <2>2, <2>3, <3>3 DEF WillReach
    <3> QED BY <3>1, <3>4
  <2>5. IsDue(ws)'
    BY <2>1, <2>3, <2>4 DEF IsDue, RelayTypeOK
  <2>6. ASSUME NEW w \in Sockets \ {ws} PROVE IsDue(w)'
    <3>1. pc'[w] = pc[w] /\ event'[w] = event[w] /\ owed'[w] = owed[w]
      BY <2>1 DEF RelayTypeOK
    <3>2. ToReach(w)' = ToReach(w)
      BY <2>1, <3>1 DEF ToReach
    <3> QED BY <2>1, <2>2, <3>1, <3>2, OthersDue
  <2> QED BY <2>5, <2>6 DEF Due
<1>6. ASSUME NEW ws \in Sockets, SendAnswer(ws) PROVE Due'
  <2>1. /\ UNCHANGED <<hub, sends, event, owed, peer>> /\ pc[ws] = "answer"
        /\ pc' = [pc EXCEPT ![ws] = IF event[ws] = {} THEN "receive" ELSE "broadcast"]
        /\ todo' = [todo EXCEPT ![ws] = IF event[ws] = {} THEN {} ELSE DOMAIN hub]
    BY <1>6 DEF SendAnswer
  <2>2. \A w : Subs(w)' = Subs(w)
    BY <2>1 DEF Subs
  <2>4. event[ws] # {} => ToReach(ws)' = ToReach(ws)
    BY <2>1 DEF ToReach, RelayTypeOK
  <2>5. sends[ws] = {}
    BY <2>1 DEF IsDue
  <2>6. IsDue(ws)'
    <3>1. CASE event[ws] = {}
      <4>1. owed[ws] = {}
        BY <2>1, <3>1, <2>5 DEF IsDue
      <4> QED BY <2>1, <2>5, <4>1 DEF IsDue, RelayTypeOK
    <3>2. CASE event[ws] # {}
      BY <2>1, <2>2, <2>4, <2>5, <3>2, DueKept DEF RelayTypeOK
    <3> QED BY <3>1, <3>2
  <2>7. ASSUME NEW w \in Sockets \ {ws} PROVE IsDue(w)'
    <3>1. pc'[w] = pc[w] /\ todo'[w] = todo[w]
      BY <2>1 DEF RelayTypeOK
    <3>2. ToReach(w)' = ToReach(w)
      BY <2>1, <3>1 DEF ToReach
    <3> QED BY <2>1, <2>2, <3>1, <3>2, OthersDue
  <2> QED BY <2>6, <2>7 DEF Due
<1>7. ASSUME NEW ws \in Sockets, NEW w \in Sockets, ReachSocket(ws, w) PROVE Due'
  <2>1. /\ UNCHANGED <<hub, pc, event, owed, peer>> /\ pc[ws] = "broadcast" /\ sends[ws] = {}
        /\ todo' = [todo EXCEPT ![ws] = todo[ws] \ {w}]
        /\ sends' = [sends EXCEPT ![ws] = UNION {Matching(e, w) : e \in event[ws]}]
    BY <1>7 DEF ReachSocket
  <2>2. \A v : Subs(v)' = Subs(v)
    BY <2>1 DEF Subs
  <2>3. ToReach(ws) = todo[ws] /\ ToReach(ws)' = todo[ws] \ {w}
    BY <2>1 DEF ToReach
  <2>4. ASSUME NEW target \in owed[ws], NEW e \in event[ws], WillReach(ws, e, target)
        PROVE  target \in sends'[ws] \/ WillReach(ws, e, target)'
    <3>1. PICK v \in ToReach(ws) : \E s \in Subs(v) : target = <<v, s>> /\ Selects(e, hub[v][s])
      BY <2>4 DEF WillReach
    <3>2. CASE v = w
      <4>1. target \in Matching(e, w)
        BY <3>1, <3>2 DEF Matching
      <4> QED BY <2>1, <4>1
    <3>3. CASE v # w
      <4>1. v \in ToReach(ws)'
        BY <2>3, <3>3
      <4> QED BY <2>1, <2>2, <3>1, <4>1 DEF WillReach
    <3> QED BY <3>2, <3>3
  <2>5. IsDue(ws)'
    <3>1. ASSUME NEW target \in owed[ws]
          PROVE  target \in sends'[ws] \/ \E e \in event[ws] : WillReach(ws, e, target)'
      <4>1. PICK e \in event[ws] : WillReach(ws, e, target)
        BY <2>1 DEF IsDue
      <4> QED BY <2>4, <4>1
    <3> QED BY <2>1, <3>1 DEF IsDue
  <2>6. ASSUME NEW v \in Sockets \ {ws} PROVE IsDue(v)'
    <3>1. sends'[v] = sends[v] /\ todo'[v] = todo[v]
      BY <2>1
    <3>2. ToReach(v)' = ToReach(v)
      BY <2>1, <3>1 DEF ToReach
    <3> QED BY <2>1, <2>2, <3>1, <3>2, OthersDue
  <2> QED BY <2>5, <2>6 DEF Due
<1>12. ASSUME NEW ws \in Sockets, NEW w \in Sockets, ReachRaising(ws, w) PROVE Due'
  <2>1. /\ UNCHANGED <<hub, event, owed, peer, todo>> /\ pc[ws] = "broadcast" /\ sends[ws] = {}
        /\ pc' = [pc EXCEPT ![ws] = "cut"]
        /\ sends' = [sends EXCEPT ![ws] = sends'[ws]]
    BY <1>12 DEF ReachRaising
  <2>2. \A v : Subs(v)' = Subs(v)
    BY <2>1 DEF Subs
  <2>3. ASSUME NEW target \in owed[ws] PROVE target[1] \in todo[ws]
    <3>1. PICK e \in event[ws] : WillReach(ws, e, target)
      BY <2>1 DEF IsDue
    <3> QED BY <2>1, <3>1 DEF WillReach, ToReach
  <2>4. IsDue(ws)'
    BY <2>1, <2>3 DEF IsDue, RelayTypeOK
  <2>5. ASSUME NEW v \in Sockets \ {ws} PROVE IsDue(v)'
    <3>1. sends'[v] = sends[v] /\ pc'[v] = pc[v]
      BY <2>1 DEF RelayTypeOK
    <3>2. ToReach(v)' = ToReach(v)
      BY <2>1, <3>1 DEF ToReach
    <3> QED BY <2>1, <2>2, <3>1, <3>2, OthersDue
  <2> QED BY <2>4, <2>5 DEF Due
<1>8. ASSUME NEW ws \in Sockets, NEW target \in sends[ws], SendLive(ws, target) PROVE Due'
  <2>1. /\ UNCHANGED <<hub, pc, event, todo, peer>> /\ pc[ws] \in {"broadcast", "cut"}
        /\ sends' = [sends EXCEPT ![ws] = sends[ws] \ {target}]
        /\ owed' = [owed EXCEPT ![ws] = owed[ws] \ {target}]
    BY <1>8 DEF SendLive
  <2>2. \A v : Subs(v)' = Subs(v) /\ ToReach(v)' = ToReach(v)
    BY <2>1 DEF Subs, ToReach
  <2>3. \A v, e, t : WillReach(v, e, t)' = WillReach(v, e, t)
    BY <2>1, <2>2 DEF WillReach
  <2> QED BY <2>1, <2>3 DEF Due, IsDue
<1>9. ASSUME NEW ws \in Sockets, EndBroadcast(ws) PROVE Due'
  <2>1. /\ UNCHANGED <<hub, sends, todo, owed, peer>> /\ pc[ws] = "broadcast"
        /\ todo[ws] = {} /\ sends[ws] = {}
        /\ pc' = [pc EXCEPT ![ws] = "receive"]
        /\ event' = [event EXCEPT ![ws] = {}]
    BY <1>9 DEF EndBroadcast
  <2>2. owed[ws] = {}
    BY <2>1 DEF IsDue, WillReach, ToReach
  <2>3. \A v : Subs(v)' = Subs(v)
    BY <2>1 DEF Subs
  <2>4. ASSUME NEW v \in Sockets \ {ws} PROVE IsDue(v)'
    <3>1. pc'[v] = pc[v] /\ event'[v] = event[v]
      BY <2>1 DEF RelayTypeOK
    <3>2. ToReach(v)' = ToReach(v)
      BY <2>1, <3>1 DEF ToReach
    <3> QED BY <2>1, <2>3, <3>1, <3>2, DueKept DEF IsDue
  <2>5. IsDue(ws)'
    BY <2>1, <2>2 DEF IsDue, RelayTypeOK
  <2> QED BY <2>4, <2>5 DEF Due
<1>10. ASSUME NEW ws \in Sockets,
             \/ Disconnect(ws)
             \/ ReceiveOther(ws)
             \/ \E e \in Sent : ReceiveRejected(ws, e)
             \/ \E sub \in SubIds : ReceiveReqRefused(ws, sub)
             \/ \E sub \in SubIds, filters \in FilterSets : ReceiveReq(ws, sub, filters)
             \/ \E e \in replay[ws] : SendStored(ws, e)
             \/ SendEose(ws)
      PROVE  Due'
  <2>1. UNCHANGED <<hub, sends, event, todo, owed>>
    BY <1>10 DEF Disconnect, ReceiveOther, ReceiveRejected, ReceiveReqRefused, ReceiveReq,
                 SendStored, SendEose
  <2>2. ASSUME NEW w \in Sockets
        PROVE  /\ peer'[w] = "new" => peer[w] = "new"
               /\ \/ pc'[w] = pc[w]
                  \/ pc[w] \in {"receive", "replay"} /\ pc'[w] \notin {"broadcast", "cut", "done"}
    BY <1>10 DEF RelayTypeOK, Disconnect, ReceiveOther, ReceiveRejected, ReceiveReqRefused, ReceiveReq,
                 Receives, SendStored, SendEose
  <2>3. \A v : Subs(v)' = Subs(v)
    BY <2>1 DEF Subs
  <2>4. ASSUME NEW w \in Sockets PROVE IsDue(w)'
    <3>1. CASE pc'[w] = pc[w]
      <4>1. ToReach(w)' = ToReach(w)
        BY <2>1, <3>1 DEF ToReach
      <4> QED BY <2>1, <2>2, <2>3, <3>1, <4>1, OthersDue
    <3>2. CASE pc'[w] # pc[w]
      <4>1. owed[w] = {} /\ sends[w] = {}
        BY <2>2, <3>2, OwesNothing
      <4> QED BY <2>1, <2>2, <3>2, <4>1 DEF IsDue
    <3> QED BY <3>1, <3>2
  <2> QED BY <2>4 DEF Due
<1>11. CASE UNCHANGED relayVars
  <2>1. \A v : Subs(v)' = Subs(v) /\ ToReach(v)' = ToReach(v)
    BY <1>11 DEF Subs, ToReach, relayVars
  <2>2. \A v, e, t : WillReach(v, e, t)' = WillReach(v, e, t)
    BY <1>11, <2>1 DEF WillReach, relayVars
  <2> QED BY <1>11, <2>2 DEF Due, IsDue, relayVars
<1> QED
  BY <1>1, <1>2, <1>3, <1>4, <1>5, <1>6, <1>7, <1>8, <1>9, <1>10, <1>11, <1>12, Steps

-----------------------------------------------------------------------------
LEMMA RelayInitially == RelayInit => RelayInv
<1> SUFFICES ASSUME RelayInit PROVE RelayInv
  OBVIOUS
<1>1. RelayTypeOK /\ PerSocket
  BY DEF RelayInit, RelayTypeOK, PerSocket, Awaits, Empty
<1>2. HubHasTheLiving /\ NewAreDone
  BY DEF RelayInit, HubHasTheLiving, NewAreDone
<1>3. Room
  BY FS_EmptySet, RelayAssumption DEF RelayInit, Room, HasRoom, Subs
<1>4. Replaying
  <2>1. db.events = {} /\ \A w \in Sockets : replay[w] = {} /\ req[w].filters = {}
    BY DEF RelayInit, Empty, NoReq
  <2>2. IsFiniteSet({}) /\ Cardinality({}) = 0
    BY FS_EmptySet
  <2>3. MaxQueryLimit * 0 = 0
    BY RelayAssumption
  <2>4. ASSUME NEW w \in Sockets PROVE ReplayFits(w)
    BY <2>1, <2>2, <2>3 DEF ReplayFits
  <2> QED BY <2>1, <2>2, <2>4 DEF Replaying
<1>5. AfterEose
  BY DEF RelayInit, AfterEose, SubsAnswered, Subs
<1>6. Due
  BY DEF RelayInit, Due, IsDue, NewAreDone
<1> QED BY <1>1, <1>2, <1>3, <1>4, <1>5, <1>6 DEF RelayInv

LEMMA RelayInductive == RelaySpec => []RelayInv
<1>1. RelayInv /\ [RelayNext]_relayVars => RelayInv'
  BY TypeStep, LivingStep, RoomStep, ReplayingStep, AfterEoseStep, DueStep DEF RelayInv
<1> QED BY RelayInitially, <1>1, PTL DEF RelaySpec

(* What a socket's coroutine holds are events, sockets and subscriptions   *)
(* that exist; the store holds no rejected event (relay.py:126-139).       *)
THEOREM RelayTypeCorrect == RelaySpec => []RelayTypeOK
<1>1. RelayInv => RelayTypeOK
  BY DEF RelayInv
<1> QED BY RelayInductive, <1>1, PTL

(* No client has more than MAX_SUBSCRIPTIONS subscriptions, though the     *)
(* count is taken before the awaits of the replay, and no REQ streams more *)
(* than its filters' capped limits (relay.py:146-175).                     *)
THEOREM GuardrailsHold == RelaySpec => []Guardrails
<1>1. RelayInv => Guardrails
  BY DEF RelayInv, Room, HasRoom, Replaying, ReplayFits, Guardrails, SubscriptionsBounded, ReplayBounded
<1> QED BY RelayInductive, <1>1, PTL

(* The hub holds exactly the sockets whose coroutine runs, and sends only  *)
(* to subscriptions whose replay has ended (relay.py:44-70, 87-98).        *)
THEOREM HubRight == RelaySpec => []HubIsRight
<1>1. RelayInv => HubIsRight
  BY DEF RelayInv, AfterEose, MaySend, HubIsRight, LiveAfterEose
<1> QED BY RelayInductive, <1>1, PTL

(* A broadcast that has ended has sent its event to every subscription     *)
(* that was open when it was accepted and still is, and one that a filter  *)
(* has cut short, to those of the sockets it had got past                  *)
(* (relay.py:61-70).                                                       *)
THEOREM NoSubscriberMissed == RelaySpec => []NoneOwed
<1>1. ASSUME RelayInv, NEW ws \in Sockets, pc[ws] = "done"
      PROVE  \A target \in owed[ws] : target[1] \in todo[ws]
  BY <1>1 DEF RelayInv, Due, IsDue
<1>2. ASSUME RelayInv, NEW ws \in Sockets, pc[ws] = "receive"
      PROVE  owed[ws] = {}
  BY <1>2, OwesNothing DEF RelayInv, Due
<1>3. RelayInv => NoneOwed
  BY <1>1, <1>2 DEF NoneOwed
<1> QED BY RelayInductive, <1>3, PTL
=============================================================================
