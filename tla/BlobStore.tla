----------------------------- MODULE BlobStore -----------------------------
(***************************************************************************)
(* blob_store/storage.py: a blob is a file named by its hash and a row in  *)
(* a SQLite table, kept in step by no transaction.                         *)
(*                                                                         *)
(* Procs are the operating-system processes that use one blob directory.   *)
(* Inside a process a call runs from start to end (the server's and the    *)
(* replicator's calls are synchronous on one event loop), so with one      *)
(* process the steps below interleave only with its crash; `pijn run` and  *)
(* `pijn sync` are two processes and interleave freely.                    *)
(*                                                                         *)
(* Files are modelled as the file system has them: a name refers to an     *)
(* inode, opening `<sha>.tmp` for writing truncates the inode that name    *)
(* has or makes a new one, and os.replace renames whatever the name refers *)
(* to.  What matters of an inode's bytes is whether they are all there.    *)
(***************************************************************************)
EXTENDS Integers, FiniteSets

CONSTANTS
    Procs, Blobs, Users,
    Inodes,         \* enough for every name and every open file to have its own
    None            \* no inode, no row

ASSUME BlobAssumption == None \notin Inodes /\ None \notin Users

VARIABLES
    file,       \* Blobs -> the inode under the blob's name
    tmp,        \* Blobs -> the inode under `<sha>.tmp`
    whole,      \* the inodes with all of the blob's bytes
    row,        \* Blobs -> the uploader in the row, or None
    pc, op,     \* per process, the call it is in: [name, sha, user]
    fd,         \* per process, the inode it has open
    kept        \* history: blobs a put() returned for, with no delete() by
                \* their owner, and no evict(), of them begun since

vars == <<file, tmp, whole, row, pc, op, fd, kept>>

NoOp == [name |-> "none", sha |-> None, user |-> None]

Init ==
    /\ file = [b \in Blobs |-> None]
    /\ tmp = [b \in Blobs |-> None]
    /\ whole = {}
    /\ row = [b \in Blobs |-> None]
    /\ pc = [p \in Procs |-> "idle"]
    /\ op = [p \in Procs |-> NoOp]
    /\ fd = [p \in Procs |-> None]
    /\ kept = {}

Free == Inodes \ ({file[b] : b \in Blobs} \cup {tmp[b] : b \in Blobs} \cup {fd[p] : p \in Procs})

Begin(p, name, b, u, first) ==
    /\ pc[p] = "idle"
    /\ op' = [op EXCEPT ![p] = [name |-> name, sha |-> b, user |-> u]]
    /\ pc' = [pc EXCEPT ![p] = first]

Goto(p, step) == pc' = [pc EXCEPT ![p] = step] /\ UNCHANGED op

Returns(p) ==
    /\ pc' = [pc EXCEPT ![p] = "idle"]
    /\ op' = [op EXCEPT ![p] = NoOp]

-----------------------------------------------------------------------------
(* put *)
Put(p, b, u) ==
    /\ Begin(p, "put", b, u, "exists?")
    /\ UNCHANGED <<file, tmp, whole, row, fd, kept>>

(* Mutant: a file that exists needs no row. *)
ExistsReturns(p) ==
    /\ pc[p] = "exists?"
    /\ \/ file[op[p].sha] = None /\ Goto(p, "open") /\ UNCHANGED kept
       \/ file[op[p].sha] # None /\ Returns(p) /\ kept' = kept \cup {op[p].sha}
    /\ UNCHANGED <<file, tmp, whole, row, fd>>

Exists(p) ==
    /\ pc[p] = "exists?"
    /\ Goto(p, IF file[op[p].sha] = None THEN "open" ELSE "insert")
    /\ UNCHANGED <<file, tmp, whole, row, fd, kept>>

(* Mutant: open(path, "wb"). *)
OpenInPlace(p) ==
    /\ pc[p] = "open"
    /\ \E i \in Free : /\ file' = [file EXCEPT ![op[p].sha] = i]
                       /\ fd' = [fd EXCEPT ![p] = i]
                       /\ whole' = whole \ {i}
    /\ Goto(p, "write")
    /\ UNCHANGED <<tmp, row, kept>>

(* open(tmp, "wb") *)
Open(p) ==
    /\ pc[p] = "open"
    /\ \E i \in (IF tmp[op[p].sha] = None THEN Free ELSE {tmp[op[p].sha]}) :
          /\ tmp' = [tmp EXCEPT ![op[p].sha] = i]
          /\ fd' = [fd EXCEPT ![p] = i]
          /\ whole' = whole \ {i}
    /\ Goto(p, "write")
    /\ UNCHANGED <<file, row, kept>>

(* Mutant: the file is not closed. *)
WriteNoClose(p) ==
    /\ pc[p] = "write"
    /\ whole' = whole \cup {fd[p]}
    /\ Goto(p, "replace")
    /\ UNCHANGED <<file, tmp, row, fd, kept>>

(* f.write(data), and the close *)
WriteBytes(p) ==
    /\ pc[p] = "write"
    /\ whole' = whole \cup {fd[p]}
    /\ fd' = [fd EXCEPT ![p] = None]
    /\ Goto(p, "replace")
    /\ UNCHANGED <<file, tmp, row, kept>>

(* os.replace(tmp, path); when the other process has renamed the name      *)
(* away, put raises FileNotFoundError.                                     *)
Replace(p) ==
    /\ pc[p] = "replace"
    /\ \/ /\ tmp[op[p].sha] # None
          /\ file' = [file EXCEPT ![op[p].sha] = tmp[op[p].sha]]
          /\ tmp' = [tmp EXCEPT ![op[p].sha] = None]
          /\ Goto(p, "insert")
       \/ /\ tmp[op[p].sha] = None
          /\ Returns(p)
          /\ UNCHANGED <<file, tmp>>
    /\ UNCHANGED <<whole, row, fd, kept>>

(* Mutant: INSERT OR REPLACE. *)
ReplaceRow(p) ==
    /\ pc[p] = "insert"
    /\ row' = [row EXCEPT ![op[p].sha] = op[p].user]
    /\ kept' = kept \cup {op[p].sha}
    /\ Returns(p)
    /\ UNCHANGED <<file, tmp, whole, fd>>

(* INSERT OR IGNORE, COMMIT, and the descriptor is returned. *)
InsertRow(p) ==
    /\ pc[p] = "insert"
    /\ row' = [row EXCEPT ![op[p].sha] = IF @ = None THEN op[p].user ELSE @]
    /\ kept' = kept \cup {op[p].sha}
    /\ Returns(p)
    /\ UNCHANGED <<file, tmp, whole, fd>>

-----------------------------------------------------------------------------
(* delete, for an authenticated user, and evict *)
DeleteBlob(p, b, u) ==
    /\ Begin(p, "delete", b, u, "owner?")
    /\ UNCHANGED <<file, tmp, whole, row, fd, kept>>

(* "not found", "not owner", or go on.  (No caller stores a blob without   *)
(* an uploader, so the test for an empty one is left out.)                 *)
CheckOwner(p) ==
    /\ pc[p] = "owner?"
    /\ \/ row[op[p].sha] # op[p].user /\ Returns(p) /\ UNCHANGED kept
       \/ /\ row[op[p].sha] = op[p].user
          /\ Goto(p, "delete row")
          /\ kept' = kept \ {op[p].sha}
    /\ UNCHANGED <<file, tmp, whole, row, fd>>

Evict(p, b) ==
    /\ Begin(p, "evict", b, None, "delete row")
    /\ kept' = kept \ {b}
    /\ UNCHANGED <<file, tmp, whole, row, fd>>

DeleteRow(p) ==
    /\ pc[p] = "delete row"
    /\ row' = [row EXCEPT ![op[p].sha] = None]
    /\ Goto(p, "remove")
    /\ UNCHANGED <<file, tmp, whole, fd, kept>>

(* os.remove; a missing file is ignored *)
RemoveFile(p) ==
    /\ pc[p] = "remove"
    /\ file' = [file EXCEPT ![op[p].sha] = None]
    /\ Returns(p)
    /\ UNCHANGED <<tmp, whole, row, fd, kept>>

(* fetch, with store.meta, store.has and store.get *)
Fetch(p, b) ==
    /\ Begin(p, "fetch", b, None, "meta?")
    /\ UNCHANGED <<file, tmp, whole, row, fd, kept>>

(* 404, or go on *)
MetaAndHas(p) ==
    /\ \/ pc[p] = "meta?" /\ (IF row[op[p].sha] = None THEN Returns(p) ELSE Goto(p, "has?"))
       \/ pc[p] = "has?" /\ (IF file[op[p].sha] = None THEN Returns(p) ELSE Goto(p, "read"))
    /\ UNCHANGED <<file, tmp, whole, row, fd, kept>>

(* The answer is 200, and its body the bytes under the name, if any. *)
ReadFile(p) ==
    /\ pc[p] = "read"
    /\ Returns(p)
    /\ UNCHANGED <<file, tmp, whole, row, fd, kept>>

(* The process dies and starts again: committed rows and files stay. *)
Crash(p) ==
    /\ pc[p] # "idle"
    /\ Returns(p)
    /\ fd' = [fd EXCEPT ![p] = None]
    /\ UNCHANGED <<file, tmp, whole, row, kept>>

-----------------------------------------------------------------------------
Step(p) ==
    \/ Exists(p) \/ Open(p) \/ WriteBytes(p) \/ Replace(p) \/ InsertRow(p)
    \/ CheckOwner(p) \/ DeleteRow(p) \/ RemoveFile(p)
    \/ MetaAndHas(p) \/ ReadFile(p)

Next ==
    \E p \in Procs :
        \/ \E b \in Blobs : \/ \E u \in Users : Put(p, b, u) \/ DeleteBlob(p, b, u)
                            \/ Evict(p, b) \/ Fetch(p, b)
        \/ Step(p)
        \/ Crash(p)

Spec == Init /\ [][Next]_vars

-----------------------------------------------------------------------------
Steps == {"idle", "exists?", "open", "write", "replace", "insert", "owner?",
          "delete row", "remove", "meta?", "has?", "read"}

TypeOK ==
    /\ file \in [Blobs -> Inodes \cup {None}]
    /\ tmp \in [Blobs -> Inodes \cup {None}]
    /\ whole \subseteq Inodes
    /\ row \in [Blobs -> Users \cup {None}]
    /\ pc \in [Procs -> Steps]
    /\ op \in [Procs -> [name : {"put", "delete", "evict", "fetch"}, sha : Blobs,
                         user : Users \cup {None}] \cup {NoOp}]
    /\ fd \in [Procs -> Inodes \cup {None}]
    /\ \A p \in Procs : /\ fd[p] # None <=> pc[p] = "write"
                        /\ op[p] = NoOp <=> pc[p] = "idle"
    /\ kept \subseteq Blobs

Servable(b) == row[b] # None /\ file[b] \in whole

(* storage.py:56: "so a partial write never looks like a valid blob".  A   *)
(* file under a blob's name always has all of its bytes, wherever a crash  *)
(* struck.                                                                 *)
NeverPartial == \A b \in Blobs : file[b] = None \/ file[b] \in whole

(* A row always has its file, with all of its bytes: put() adds the row    *)
(* last, delete() and evict() drop it first, and a crash falls in between. *)
(* (The converse does not hold: a crash can leave a file nobody counts.)   *)
RowHasFile == \A b \in Blobs : row[b] # None => file[b] # None

(* A GET that is answered 200 has the blob's bytes: they are read after    *)
(* the row and the file were looked for.                                   *)
FetchIsWhole == \A p \in Procs : pc[p] = "read" => file[op[p].sha] \in whole

(* storage.py and the fetch of server.py agree on what a blob is, at every  *)
(* step of a put, a delete, an eviction and a GET.                         *)
FilesAndRows == NeverPartial /\ RowHasFile /\ FetchIsWhole

(* "Store bytes; return a blob descriptor.  Idempotent by content."        *)
(* (storage.py:52): once put() has returned, the blob is served until      *)
(* its owner begins to delete it or the node to evict it.                  *)
PutIsKept == \A b \in kept : Servable(b)

(* A blob's uploader is set once: only they can delete it, a second upload *)
(* does not take it over, and a new one comes only after an eviction or    *)
(* their own delete.                                                       *)
OnlyOwnerDeletes ==
    [][\A b \in Blobs : row[b] # None /\ row'[b] # row[b] =>
          /\ row'[b] = None
          /\ \E p \in Procs : /\ op[p].sha = b
                              /\ op[p].name = "evict" \/ op[p].user = row[b]]_vars
=============================================================================
