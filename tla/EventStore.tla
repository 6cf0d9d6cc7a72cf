----------------------------- MODULE EventStore -----------------------------
(***************************************************************************)
(* event_store/db.py: EventStore with one connection.                      *)
(*                                                                         *)
(* Every call holds the store's lock from its first statement to its last, *)
(* so a call is one step.  What is not one step is the transaction: Python *)
(* opens it at the first DELETE or INSERT and store() commits it on its    *)
(* last line, so an exception in between leaves the statements already run *)
(* visible to this connection, and the next successful store() commits     *)
(* them.  Hence two copies of the tables:                                  *)
(*    view   what this connection reads,                                   *)
(*    disk   what a restart would find.                                    *)
(*                                                                         *)
(* offered and raised are history: the events store() has accepted since   *)
(* the database was created, and those whose store() raised.               *)
(***************************************************************************)
EXTENDS EventTable

CONSTANTS
    Events,     \* the signed events that exist
    Faulty,     \* those with a value SQLite refuses to bind
    Botched     \* deletion requests with an `a` value that raises when it is split,
                \* read as a number or bound

ASSUME EventsAssumption ==
    /\ \A e \in Events : /\ e.id \in Int
                         /\ e.created_at \in Int
                         /\ Len(e.tags) \in Nat /\ DOMAIN e.tags = 1..Len(e.tags)
    /\ \A e, f \in Events : e.id = f.id => e = f

ASSUME FaultyAssumption ==
    /\ Faulty \subseteq Events
    /\ Botched \subseteq {e \in Events : e.kind = 5}

VARIABLES view, disk, reply, offered, raised

vars == <<view, disk, reply, offered, raised>>

(* Only a confirmation is remembered with its event. *)
Said(message) == [id |-> 0, message |-> message]

NoReply == Said("none")

Init ==
    /\ view = Empty
    /\ disk = Empty
    /\ reply = NoReply
    /\ offered = {}
    /\ raised = {}

-----------------------------------------------------------------------------
(* Returns before any statement that writes. *)
StoreNothing(e) ==
    /\ Answer(view, e) # "stored"
    /\ reply' = Said(Answer(view, e))
    /\ offered' = IF Answer(view, e) = "ephemeral" THEN offered ELSE offered \cup {e}
    /\ UNCHANGED <<view, disk, raised>>

(* Drops the older versions, inserts, applies a deletion request, commits  *)
(* (with whatever an earlier call left uncommitted).                       *)
StoreWins(e) ==
    /\ Answer(view, e) = "stored"
    /\ e \notin Faulty \cup Botched
    /\ view' = Write(view, e)
    /\ disk' = view'
    /\ reply' = [id |-> e.id, message |-> "stored"]
    /\ offered' = offered \cup {e}
    /\ UNCHANGED raised

(* A value SQLite refuses: in the SELECT of the older versions, or when    *)
(* they are gone, in the INSERT of the row or of a tag after n - 1 others. *)
InsertRaises(e) ==
    /\ e \in Faulty
    /\ LET dropped == Delete(view, Rivals(view, e))
       IN  \/ view' = view
           \/ view' = dropped
           \/ \E n \in 1..Len(e.tags) : view' = InsertPart(dropped, e, n - 1)

(* The request is inserted, and some of what it names is deleted.          *)
DeletionRaises(e) ==
    /\ e \in Botched \ Faulty
    /\ view' \in PartDeleted(Insert(view, e), e)

(* The exception leaves store() without a rollback. *)
StoreRaises(e) ==
    /\ Answer(view, e) = "stored"
    /\ InsertRaises(e) \/ DeletionRaises(e)
    /\ reply' = Said("raised")
    /\ raised' = raised \cup {e}
    /\ UNCHANGED <<disk, offered>>

store(e) == StoreNothing(e) \/ StoreWins(e) \/ StoreRaises(e)

(* The process ends, at any point, and EventStore.__init__ opens the file: *)
(* SQLite has rolled an open transaction back.                             *)
Restart ==
    /\ view' = disk
    /\ reply' = NoReply
    /\ UNCHANGED <<disk, offered, raised>>

Next == Restart \/ \E e \in Events : store(e)

Spec == Init /\ [][Next]_vars

-----------------------------------------------------------------------------
AllRows == UNION {TagRows(e, Len(e.tags)) : e \in Events}

(* The tables hold events, and index rows of events, that exist. *)
TypeOK ==
    /\ \A db \in {view, disk} : /\ db.events \subseteq Events
                                /\ db.tags \subseteq AllRows
                                /\ DOMAIN db = {"events", "tags"}
    /\ offered \subseteq Events
    /\ raised \subseteq Events

(* "Only the newest event per (pubkey, kind) is kept": no two stored       *)
(* events share a slot, in what is read and in what a restart would find.  *)
(* store() looks for rivals, deletes and inserts in separate statements,   *)
(* and may stop half way.                                                  *)
OneVersionPerSlot ==
    \A db \in {view, disk} :
        \A e, f \in db.events : Slot(e) = Slot(f) => e = f

(* What is stored of an author depends on which of their events were       *)
(* accepted and not on the order: two nodes that saw the same events hold  *)
(* the same ones, before and after a restart, whatever other authors do    *)
(* (other authors' deletion requests, and calls that raised, included).    *)
(* An author's own deletion request makes the order matter, and a store()  *)
(* that raised is a matter of its own.                                     *)
Undisturbed(author) ==
    /\ \A e \in offered : e.pubkey = author => e.kind # 5
    /\ \A e \in raised : e.pubkey # author

Of(author, S) == {e \in S : e.pubkey = author}

Authors == {e.pubkey : e \in Events}

Converges ==
    \A a \in Authors : Undisturbed(a) =>
        /\ Of(a, view.events) = Winners(Of(a, offered))
        /\ Of(a, disk.events) = Winners(Of(a, offered))

(* A subscription sees the same events stored as live: the SQL query over  *)
(* the tag index selects what matches selects, for events whose insert did *)
(* not raise.                                                              *)
QueryExact ==
    \A e \in view.events \ raised :
        \A name \in {e.tags[i][1] : i \in DOMAIN e.tags} \cap Letters :
            \A v \in tag_values(e, name) :
                SqlMatches(view, e, [tags |-> [x \in {name} |-> {v}]])

(* What replaces or deletes an event. *)
Replaces(e, f) == Slot(e) = Slot(f) /\ Beats(e, f)

Displaces(e, f) == Replaces(e, f) \/ Retracts(e, f)

Stored(e) == reply = [id |-> e.id, message |-> "stored"]

(* An event that a restart would find is lost only to a store() that       *)
(* succeeds, of a version of its slot that beats it or of its own author's *)
(* request; or because readers had already lost it to such an event whose  *)
(* store() raised, which the next commit makes durable: never to another   *)
(* author, an older version, or a restart.                                 *)
LossJustified ==
    [][\A f \in disk.events \ disk'.events :
          \E e \in Events :
             /\ Displaces(e, f)
             /\ Stored(e)' \/ (e \in raised /\ f \notin view.events)]_vars

(* db.py:8, "only the newest event per (pubkey, kind) is kept": an event   *)
(* is lost only to one that is stored, not to one that never was.          *)
LossToStored ==
    [][\A f \in disk.events \ disk'.events :
          \E e \in Events : Stored(e)' /\ Displaces(e, f)]_vars

(* db.py:122: "The deletion event itself is kept so it propagates."  When  *)
(* store() has confirmed a deletion request, the request is stored.        *)
DeletionKept ==
    \A e \in Events : e.kind = 5 /\ Stored(e) => e \in view.events

(* "NIP-09 deletes are honored": no stored event is named by a stored      *)
(* deletion request of its author.                                         *)
DeletionHonored ==
    \A del, f \in view.events : del # f => ~Retracts(del, f)

-----------------------------------------------------------------------------
(* The abstract store: one register per slot (NewestWins). *)
Persistent == {e \in Events : classify(e.kind) # "ephemeral"}

Registers(db) ==
    [s \in {Slot(e) : e \in Persistent} |-> {e \in db.events : Slot(e) = s}]

Register == INSTANCE NewestWins
            WITH Events <- Persistent, Unwritable <- Faulty,
                 Unfinishable <- Botched,
                 Newer <- Beats, Empties <- Retracts,
                 latest <- Registers(view), durable <- Registers(disk)

(* The tables, their rivals, deletions, inserts, failures and restarts     *)
(* implement a register per slot that only moves to a winning version.     *)
ImplementsRegister == Register!Spec
=============================================================================
