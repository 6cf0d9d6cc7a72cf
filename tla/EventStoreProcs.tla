-------------------------- MODULE EventStoreProcs --------------------------
(***************************************************************************)
(* Two processes on one relay.sqlite: the daemon (`pijn run`) and the      *)
(* one-shot `pijn sync`, each with its own EventStore.  The store's lock   *)
(* is a threading.Lock: it orders the calls of one process and nothing     *)
(* between processes, so here a call of store() is its SQLite statements,  *)
(* and the two processes meet in SQLite:                                   *)
(*  - a SELECT outside a transaction reads what is committed;              *)
(*  - Python opens the transaction (BEGIN DEFERRED) at the first DELETE or *)
(*    INSERT, which takes the write lock or, when the other process holds  *)
(*    it past the busy timeout, raises and leaves the transaction open;    *)
(*  - a SELECT inside a transaction without a snapshot takes one, and      *)
(*    SQLite refuses to write from a snapshot that a commit has overtaken. *)
(* store() never rolls back.                                               *)
(***************************************************************************)
EXTENDS EventTable

CONSTANTS
    Signed,     \* the signed events that exist
    Unbindable, \* those with a value SQLite refuses to bind
    Abortive,   \* deletion requests whose processing raises
    Daemon,     \* the process that lives on after a call raised
    Sync        \* the one-shot command, which an exception ends

ASSUME ProcsAssumption == Daemon # Sync

ASSUME SignedAssumption ==
    /\ Unbindable \subseteq Signed
    /\ Abortive \subseteq {e \in Signed : e.kind = 5}
    /\ \A e \in Signed : e.id \in Int /\ e.created_at \in Int /\ Len(e.tags) \in Nat
    /\ \A e, f \in Signed : e.id = f.id => e = f

Procs == {Daemon, Sync}

VARIABLES
    committed,  \* the committed tables
    mode,       \* per process, its transaction: "none", "begun", "snapshot", "write"
    tables,     \* per process, what it reads in a snapshot or after writing
    stale,      \* per process, whether a commit has overtaken its snapshot
    stage, job, rivals, \* the store() call each process is in
    answered,   \* history: the events some call has returned True for
    failed      \* history: those a call of the daemon's raised on, after a write

procsVars == <<committed, mode, tables, stale, stage, job, rivals, answered, failed>>

conn == <<mode, tables, stale>>

ProcsInit ==
    /\ committed = Empty
    /\ mode = [p \in Procs |-> "none"]
    /\ tables = [p \in Procs |-> Empty]
    /\ stale = [p \in Procs |-> FALSE]
    /\ stage = [p \in Procs |-> "idle"]
    /\ job \in [Procs -> Signed] /\ \A p, q \in Procs : job[p] = job[q]
    /\ rivals = [p \in Procs |-> {}]
    /\ answered = {}
    /\ failed = {}

Other(p) == IF p = Daemon THEN Sync ELSE Daemon

-----------------------------------------------------------------------------
Sees(p) == IF mode[p] \in {"snapshot", "write"} THEN tables[p] ELSE committed

(* What a SELECT does to the connection. *)
Select(p) ==
    /\ mode' = [mode EXCEPT ![p] = IF @ = "begun" THEN "snapshot" ELSE @]
    /\ tables' = [tables EXCEPT ![p] = IF mode[p] = "begun" THEN committed ELSE @]
    /\ UNCHANGED <<stale, committed>>

(* The connection is closed, by exit or crash: SQLite rolls back. *)
Closed(p) ==
    /\ mode' = [mode EXCEPT ![p] = "none"]
    /\ tables' = [tables EXCEPT ![p] = Empty]
    /\ stale' = [stale EXCEPT ![p] = FALSE]

Return(p) == stage' = [stage EXCEPT ![p] = "idle"] /\ rivals' = [rivals EXCEPT ![p] = {}]

Call(p, e) ==
    /\ stage[p] = "idle"
    /\ classify(e.kind) # "ephemeral"
    /\ stage' = [stage EXCEPT ![p] = "duplicate?"]
    /\ job' = [job EXCEPT ![p] = e]
    /\ UNCHANGED <<committed, conn, rivals, answered, failed>>

(* SELECT 1 FROM events WHERE id=? *)
SelectDuplicate(p) ==
    /\ stage[p] = "duplicate?"
    /\ Select(p)
    /\ \/ /\ Duplicate(Sees(p), job[p])
          /\ answered' = answered \cup {job[p]}
          /\ Return(p)
       \/ /\ ~Duplicate(Sees(p), job[p])
          /\ stage' = [stage EXCEPT ![p] = "rivals?"]
          /\ UNCHANGED <<rivals, answered>>
    /\ UNCHANGED <<job, failed>>

(* Mutant: with no rivals there is nothing to delete, so no lock to take. *)
SelectRivalsSkip(p) ==
    /\ stage[p] = "rivals?"
    /\ Select(p)
    /\ ~Superseded(Sees(p), job[p])
    /\ rivals' = [rivals EXCEPT ![p] = Rivals(Sees(p), job[p])]
    /\ stage' = [stage EXCEPT ![p] = IF rivals'[p] = {} THEN "insert" ELSE "write"]
    /\ UNCHANGED <<job, answered, failed>>

(* SELECT id, created_at of the slot, and the comparison. *)
SelectRivals(p) ==
    /\ stage[p] = "rivals?"
    /\ Select(p)
    /\ \/ /\ Superseded(Sees(p), job[p])
          /\ answered' = answered \cup {job[p]}
          /\ Return(p)
       \/ /\ ~Superseded(Sees(p), job[p])
          /\ stage' = [stage EXCEPT ![p] = "write"]
          /\ rivals' = [rivals EXCEPT ![p] = Rivals(Sees(p), job[p])]
          /\ UNCHANGED answered
    /\ UNCHANGED <<job, failed>>

(* The SELECT of an addressable event binds its `d` value, which may raise. *)
SelectRefused(p) ==
    /\ stage[p] = "rivals?"
    /\ job[p] \in Unbindable /\ classify(job[p].kind) = "addressable"
    /\ \/ p = Daemon /\ UNCHANGED conn
       \/ p = Sync /\ Closed(p)
    /\ Return(p)
    /\ UNCHANGED <<committed, job, answered, failed>>

MayWrite(p) == mode[Other(p)] # "write" /\ ~stale[p]

(* Mutant: DELETE by the slot's key, not by the ids the SELECT returned. *)
DeleteSlot(p) ==
    /\ stage[p] = "write"
    /\ MayWrite(p)
    /\ mode' = [mode EXCEPT ![p] = "write"]
    /\ tables' = [tables EXCEPT ![p] = Delete(Sees(p), Rivals(Sees(p), job[p]))]
    /\ stage' = [stage EXCEPT ![p] = "insert"]
    /\ UNCHANGED <<committed, stale, job, rivals, answered, failed>>

(* The first DELETE or INSERT takes the write lock; the rows whose ids the *)
(* SELECT returned are deleted.                                            *)
DeleteRivals(p) ==
    /\ stage[p] = "write"
    /\ MayWrite(p)
    /\ mode' = [mode EXCEPT ![p] = "write"]
    /\ tables' = [tables EXCEPT ![p] = Delete(Sees(p), rivals[p])]
    /\ stage' = [stage EXCEPT ![p] = "insert"]
    /\ UNCHANGED <<committed, stale, job, rivals, answered, failed>>

(* "database is locked": after the busy timeout, or at once from a stale   *)
(* snapshot.  The daemon keeps the transaction BEGIN opened.               *)
WriteRefused(p) ==
    /\ stage[p] = "write"
    /\ ~MayWrite(p)
    /\ \/ /\ p = Daemon
          /\ mode' = [mode EXCEPT ![p] = IF @ = "none" THEN "begun" ELSE @]
          /\ UNCHANGED <<tables, stale>>
       \/ p = Sync /\ Closed(p)
    /\ Return(p)
    /\ UNCHANGED <<committed, job, answered, failed>>

(* INSERT, a deletion request's DELETEs, COMMIT. *)
InsertAndCommit(p) ==
    /\ stage[p] = "insert"
    /\ ~Duplicate(tables[p], job[p])
    /\ job[p] \notin Unbindable \cup Abortive
    /\ committed' = ProcessDeletion(Insert(tables[p], job[p]), job[p])
    /\ mode' = [mode EXCEPT ![p] = "none"]
    /\ tables' = [tables EXCEPT ![p] = Empty]
    /\ stale' = [q \in Procs |-> q # p /\ (stale[q] \/ mode[q] = "snapshot")]
    /\ answered' = answered \cup {job[p]}
    /\ Return(p)
    /\ UNCHANGED <<job, failed>>

(* What an exception between the DELETEs and COMMIT leaves: the id was     *)
(* inserted by the other process since SelectDuplicate, a value of the row *)
(* or of a tag is refused, or the deletion request cannot be carried out.  *)
Left(db, e) ==
    IF Duplicate(db, e) THEN {db}
    ELSE IF e \in Unbindable
         THEN {db} \cup {InsertPart(db, e, n - 1) : n \in 1..Len(e.tags)}
    ELSE IF e \in Abortive THEN PartDeleted(Insert(db, e), e)
    ELSE {}

(* The daemon's transaction stays open with it. *)
InsertRefused(p) ==
    /\ stage[p] = "insert"
    /\ \E left \in Left(tables[p], job[p]) :
          \/ /\ p = Daemon
             /\ tables' = [tables EXCEPT ![p] = left]
             /\ failed' = IF Duplicate(tables[p], job[p]) THEN failed
                          ELSE failed \cup {job[p]}
             /\ UNCHANGED <<mode, stale>>
          \/ p = Sync /\ Closed(p) /\ UNCHANGED failed
    /\ Return(p)
    /\ UNCHANGED <<committed, job, answered>>

(* A read by the same process between two calls of store(): the gateway,   *)
(* a REQ.                                                                  *)
Query(p) ==
    /\ stage[p] = "idle"
    /\ Select(p)
    /\ UNCHANGED <<stage, job, rivals, answered, failed>>

(* A process ends and starts again. *)
Restarts(p) ==
    /\ Closed(p)
    /\ Return(p)
    /\ UNCHANGED <<committed, job, answered, failed>>

Step(p) ==
    \/ SelectDuplicate(p) \/ SelectRivals(p) \/ SelectRefused(p)
    \/ DeleteRivals(p) \/ WriteRefused(p)
    \/ InsertAndCommit(p) \/ InsertRefused(p)

ProcsNext ==
    \E p \in Procs :
        \/ \E e \in Signed : Call(p, e)
        \/ Step(p) \/ Query(p) \/ Restarts(p)

ProcsSpec == ProcsInit /\ [][ProcsNext]_procsVars

(* While the daemon stays up: a call that has started runs on, a writer    *)
(* finishes, and the daemon offers an event it failed to store again (the  *)
(* next replication cycle), as often as it takes.                          *)
NextUp ==
    \/ \E p \in Procs : (\E e \in Signed : Call(p, e)) \/ Step(p) \/ Query(p)
    \/ Restarts(Sync)

Fairness ==
    /\ \A p \in Procs : WF_procsVars(Step(p))
    /\ \A e \in Signed : /\ SF_procsVars(Call(Daemon, e))
                         /\ SF_procsVars(job[Daemon] = e /\ DeleteRivals(Daemon))

ProcsFairSpec == ProcsInit /\ [][NextUp]_procsVars /\ Fairness

-----------------------------------------------------------------------------
ProcsTypeOK ==
    /\ \A p \in Procs : /\ mode[p] \in {"none", "begun", "snapshot", "write"}
                        /\ stage[p] \in {"idle", "duplicate?", "rivals?", "write", "insert"}
                        /\ tables[p].events \subseteq Signed
                        /\ job[p] \in Signed
                        /\ stale[p] => mode[p] = "snapshot"
                        /\ stage[p] = "insert" => mode[p] = "write"
    /\ committed.events \subseteq Signed
    /\ answered \subseteq Signed
    /\ failed \subseteq Unbindable \cup Abortive

Known == answered \cup failed

(* Two writers that decide on what they read earlier never lose the newest *)
(* version: whatever either process was told is accepted is on disk or     *)
(* beaten by a version of its slot that is, at every moment (and so after  *)
(* either process crashes), unless its author withdrew that version, or a  *)
(* call of the daemon's raised on it half way: what SQLite refuses takes   *)
(* the version it beats with it.  A call of `pijn sync` that raises takes  *)
(* nothing.                                                                *)
Withdrawn(h) == \E d \in Known : Retracts(d, h)

AnsweredIsCovered ==
    \A g \in answered : \E h \in Known :
        AtLeast(h, g) /\ (h \in committed.events \cup failed \/ Withdrawn(h))

(* Readers of the newest version never go back in time, except that a      *)
(* deletion request that is being committed takes it away, or the daemon   *)
(* commits what a call that raised on a version or request left open.      *)
Spoilt(h) == h \in failed \/ \E d \in failed : Retracts(d, h)

NewestOnlyAdvances ==
    [][\A g \in committed.events : \E h \in Signed :
          /\ AtLeast(h, g)
          /\ \/ h \in committed'.events
             \/ \E p \in Procs : stage[p] = "insert" /\ Retracts(job[p], h)
             \/ stage[Daemon] = "insert" /\ Spoilt(h)]_procsVars

(* db.py:8: "only the newest event per (pubkey, kind) is kept". *)
OneVersionCommitted ==
    \A e, f \in committed.events : Slot(e) = Slot(f) => e = f

(* replication.py:252, "transient relay/blob errors: try again next        *)
(* cycle": an event the daemon keeps trying to store is stored in the end. *)
RetryStores ==
    \A e \in Signed :
        (stage[Daemon] = "write" /\ job[Daemon] = e) ~> e \in answered
=============================================================================
