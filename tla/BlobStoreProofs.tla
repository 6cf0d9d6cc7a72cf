-------------------------- MODULE BlobStoreProofs --------------------------
(***************************************************************************)
(* Machine-checked proofs about BlobStore and, in the second half, about   *)
(* Bandwidth, the meter of the downloads that blobs come by.  About        *)
(* BlobStore, for any set of blobs, users and inodes: type correctness     *)
(* whatever processes share the directory, and, for a single process that  *)
(* may die at any point, that files and rows agree, that what put()        *)
(* returned for is kept, and that only its owner or an eviction takes a    *)
(* blob away.                                                              *)
(***************************************************************************)
EXTENDS BlobStore, Bandwidth, TLAPS

(* `pijn run` alone: no `pijn sync` beside it. *)
OneProcess == \A p, q \in Procs : p = q

-----------------------------------------------------------------------------
(* What TypeOK says of the calls the processes are in. *)
CallsOK ==
    /\ pc \in [Procs -> Steps]
    /\ op \in [Procs -> [name : {"put", "delete", "evict", "fetch"}, sha : Blobs,
                         user : Users \cup {None}] \cup {NoOp}]
    /\ \A p \in Procs : op[p] = NoOp <=> pc[p] = "idle"

LEMMA Arguments ==
    ASSUME TypeOK, NEW p \in Procs, pc[p] # "idle"
    PROVE  /\ op[p].sha \in Blobs
           /\ op[p].user \in Users \cup {None}
           /\ op[p].name \in {"put", "delete", "evict", "fetch"}
BY DEF TypeOK

LEMMA ReturnsTypes ==
    ASSUME TypeOK, NEW p \in Procs, pc[p] # "idle", Returns(p)
    PROVE  CallsOK'
BY DEF TypeOK, CallsOK, Returns, Steps

LEMMA GotoTypes ==
    ASSUME TypeOK, NEW p \in Procs, NEW s \in Steps \ {"idle"}, pc[p] # "idle", Goto(p, s)
    PROVE  CallsOK'
BY DEF TypeOK, CallsOK, Goto, Steps

LEMMA BeginTypes ==
    ASSUME TypeOK, NEW p \in Procs, NEW n \in {"put", "delete", "evict", "fetch"}, NEW b \in Blobs,
           NEW u \in Users \cup {None}, NEW s \in Steps \ {"idle"}, Begin(p, n, b, u, s)
    PROVE  CallsOK'
<1>1. [name |-> n, sha |-> b, user |-> u] # NoOp
  <2>1. [name |-> n, sha |-> b, user |-> u].name # NoOp.name
    BY DEF NoOp
  <2> QED BY <2>1
<1> QED BY <1>1 DEF TypeOK, CallsOK, Begin, Steps

LEMMA TypeStep == TypeOK /\ [Next]_vars => TypeOK'
<1> SUFFICES ASSUME TypeOK, Next PROVE TypeOK'
  BY DEF TypeOK, vars
<1> USE BlobAssumption
<1> PICK p \in Procs : \/ \E b \in Blobs : \/ \E u \in Users : Put(p, b, u) \/ DeleteBlob(p, b, u)
                                           \/ Evict(p, b) \/ Fetch(p, b)
                       \/ Step(p)
                       \/ Crash(p)
  BY DEF Next
<1>1. ASSUME NEW b \in Blobs, NEW u \in Users, Put(p, b, u) PROVE TypeOK'
  <2>1. Begin(p, "put", b, u, "exists?")
    BY <1>1 DEF Put
  <2>2. \A q \in Procs : fd[q] # None <=> pc'[q] = "write"
    BY <2>1 DEF Begin, TypeOK
  <2>3. CallsOK'
    BY <2>1, BeginTypes DEF Steps
  <2> QED BY <1>1, <2>2, <2>3 DEF Put, TypeOK, CallsOK
<1>2. ASSUME NEW b \in Blobs, NEW u \in Users, DeleteBlob(p, b, u) PROVE TypeOK'
  <2>1. Begin(p, "delete", b, u, "owner?")
    BY <1>2 DEF DeleteBlob
  <2>2. \A q \in Procs : fd[q] # None <=> pc'[q] = "write"
    BY <2>1 DEF Begin, TypeOK
  <2>3. CallsOK'
    BY <2>1, BeginTypes DEF Steps
  <2> QED BY <1>2, <2>2, <2>3 DEF DeleteBlob, TypeOK, CallsOK
<1>3. ASSUME NEW b \in Blobs, Evict(p, b) PROVE TypeOK'
  <2>1. Begin(p, "evict", b, None, "delete row")
    BY <1>3 DEF Evict
  <2>2. \A q \in Procs : fd[q] # None <=> pc'[q] = "write"
    BY <2>1 DEF Begin, TypeOK
  <2>3. CallsOK'
    BY <2>1, BeginTypes DEF Steps
  <2> QED BY <1>3, <2>2, <2>3 DEF Evict, TypeOK, CallsOK
<1>4. CASE Exists(p)
  <2>1. Goto(p, "open") \/ Goto(p, "insert")
    BY <1>4 DEF Exists
  <2> QED BY <1>4, <2>1, GotoTypes DEF Exists, TypeOK, CallsOK, Goto, Steps
<1>5. CASE Open(p)
  <2>1. Goto(p, "write")
    BY <1>5 DEF Open
  <2>2. PICK i \in Inodes : /\ tmp' = [tmp EXCEPT ![op[p].sha] = i]
                            /\ fd' = [fd EXCEPT ![p] = i]
                            /\ whole' = whole \ {i}
    BY <1>5, Arguments DEF Open, Free, TypeOK
  <2>3. op[p].sha \in Blobs /\ pc[p] = "open"
    BY <1>5, Arguments DEF Open
  <2>4. tmp' \in [Blobs -> Inodes \cup {None}] /\ fd' \in [Procs -> Inodes \cup {None}]
    BY <2>2, <2>3 DEF TypeOK
  <2>5. whole' \subseteq Inodes /\ UNCHANGED <<file, row, kept>>
    BY <1>5, <2>2 DEF Open, TypeOK
  <2>6. \A q \in Procs : fd'[q] # None <=> pc'[q] = "write"
    BY <2>1, <2>2 DEF TypeOK, Goto
  <2>7. CallsOK'
    BY <2>1, <2>3, GotoTypes DEF Steps
  <2> QED BY <2>4, <2>5, <2>6, <2>7 DEF TypeOK, CallsOK
<1>6. CASE WriteBytes(p)
  <2>1. Goto(p, "replace")
    BY <1>6 DEF WriteBytes
  <2>2. fd[p] \in Inodes
    BY <1>6 DEF WriteBytes, TypeOK
  <2> QED BY <1>6, <2>1, <2>2, GotoTypes DEF WriteBytes, TypeOK, CallsOK, Goto, Steps
<1>7. CASE Replace(p)
  <2>1. Goto(p, "insert") \/ Returns(p)
    BY <1>7 DEF Replace
  <2>2. file' \in [Blobs -> Inodes \cup {None}] /\ tmp' \in [Blobs -> Inodes \cup {None}]
    BY <1>7, Arguments DEF Replace, TypeOK, CallsOK
  <2> QED BY <1>7, <2>1, <2>2, GotoTypes, ReturnsTypes
          DEF Replace, TypeOK, CallsOK, Goto, Returns, Steps
<1>8. CASE InsertRow(p)
  <2>1. Returns(p) /\ op[p].sha \in Blobs
    BY <1>8, Arguments DEF InsertRow
  <2>2. row' \in [Blobs -> Users \cup {None}]
    BY <1>8, Arguments DEF InsertRow, TypeOK, CallsOK
  <2> QED BY <1>8, <2>1, <2>2, ReturnsTypes DEF InsertRow, TypeOK, CallsOK, Returns, Steps
<1>9. CASE CheckOwner(p)
  <2>1. Returns(p) \/ Goto(p, "delete row")
    BY <1>9 DEF CheckOwner
  <2> QED BY <1>9, <2>1, GotoTypes, ReturnsTypes DEF CheckOwner, TypeOK, CallsOK, Goto, Returns, Steps
<1>10. CASE DeleteRow(p)
  <2>1. Goto(p, "remove")
    BY <1>10 DEF DeleteRow
  <2> QED BY <1>10, <2>1, GotoTypes DEF DeleteRow, TypeOK, CallsOK, Goto, Steps
<1>11. CASE RemoveFile(p)
  <2>1. Returns(p)
    BY <1>11 DEF RemoveFile
  <2> QED BY <1>11, <2>1, ReturnsTypes DEF RemoveFile, TypeOK, CallsOK, Returns, Steps
<1>12. CASE Crash(p)
  <2>1. Returns(p)
    BY <1>12 DEF Crash
  <2> QED BY <1>12, <2>1, ReturnsTypes DEF Crash, TypeOK, CallsOK, Returns, Steps
<1>13. ASSUME NEW b \in Blobs, Fetch(p, b) PROVE TypeOK'
  <2>1. Begin(p, "fetch", b, None, "meta?")
    BY <1>13 DEF Fetch
  <2>2. \A q \in Procs : fd[q] # None <=> pc'[q] = "write"
    BY <2>1 DEF Begin, TypeOK
  <2>3. CallsOK'
    BY <2>1, BeginTypes DEF Steps
  <2> QED BY <1>13, <2>2, <2>3 DEF Fetch, TypeOK, CallsOK
<1>14. CASE MetaAndHas(p)
  <2>1. Returns(p) \/ Goto(p, "has?") \/ Goto(p, "read")
    BY <1>14 DEF MetaAndHas
  <2> QED BY <1>14, <2>1, GotoTypes, ReturnsTypes DEF MetaAndHas, TypeOK, CallsOK, Goto, Returns, Steps
<1>15. CASE ReadFile(p)
  <2>1. Returns(p)
    BY <1>15 DEF ReadFile
  <2> QED BY <1>15, <2>1, ReturnsTypes DEF ReadFile, TypeOK, CallsOK, Returns, Steps
<1> QED BY <1>1, <1>2, <1>3, <1>4, <1>5, <1>6, <1>7, <1>8, <1>9, <1>10, <1>11, <1>12,
           <1>13, <1>14, <1>15 DEF Step

(* The type invariant of BlobStore, with any number of processes. *)
THEOREM TypeCorrect == Spec => []TypeOK
<1>1. Init => TypeOK
  BY DEF Init, TypeOK, CallsOK, Steps
<1> QED BY <1>1, TypeStep, PTL DEF Spec

-----------------------------------------------------------------------------
(* What is true between the steps of a call.  The file a call has open is  *)
(* the one under the temporary name, and no name of a blob refers to it;   *)
(* a call that takes a blob away has already taken it out of `kept`.       *)
Inside(p) ==
    /\ pc[p] \in {"exists?", "open", "write", "replace", "insert", "owner?"} => op[p].user \in Users
    /\ pc[p] = "write" => fd[p] = tmp[op[p].sha]
    /\ pc[p] = "replace" => tmp[op[p].sha] \in whole
    /\ pc[p] \in {"insert", "read"} => file[op[p].sha] # None
    /\ pc[p] \in {"delete row", "remove"} => op[p].sha \notin kept
    /\ pc[p] = "delete row" => op[p].name = "evict" \/ op[p].user = row[op[p].sha]
    /\ pc[p] = "remove" => row[op[p].sha] = None

Apart ==
    \A b, c \in Blobs :
        /\ file[b] # None => file[b] # tmp[c]
        /\ tmp[b] # None /\ b # c => tmp[b] # tmp[c]

(* The inductive invariant, of one process. *)
IInv ==
    /\ NeverPartial
    /\ RowHasFile
    /\ PutIsKept
    /\ Apart
    /\ \A p \in Procs : Inside(p)
(* Only one call is going on, so only its own facts can change. *)
LEMMA InsideStep ==
    ASSUME OneProcess, TypeOK, TypeOK', IInv, Next
    PROVE  IInv'
<1> USE BlobAssumption
<1> PICK p \in Procs : \/ \E b \in Blobs : \/ \E u \in Users : Put(p, b, u) \/ DeleteBlob(p, b, u)
                                           \/ Evict(p, b) \/ Fetch(p, b)
                       \/ Step(p)
                       \/ Crash(p)
  BY DEF Next
<1>0. /\ \A q \in Procs : q = p
      /\ NeverPartial /\ RowHasFile /\ PutIsKept /\ Apart /\ Inside(p)
  BY DEF OneProcess, IInv
<1> SUFFICES NeverPartial' /\ RowHasFile' /\ PutIsKept' /\ Apart' /\ Inside(p)'
  BY <1>0 DEF IInv
<1>1. ASSUME NEW b \in Blobs, NEW u \in Users, Put(p, b, u)
      PROVE  NeverPartial' /\ RowHasFile' /\ PutIsKept' /\ Apart' /\ Inside(p)'
  <2>1. pc'[p] = "exists?" /\ op'[p].user = u
    BY <1>1 DEF Put, Begin, TypeOK
  <2> QED BY <1>0, <1>1, <2>1
          DEF Put, NeverPartial, RowHasFile, PutIsKept, Servable, Apart, Inside
<1>2. ASSUME NEW b \in Blobs, NEW u \in Users, DeleteBlob(p, b, u)
      PROVE  NeverPartial' /\ RowHasFile' /\ PutIsKept' /\ Apart' /\ Inside(p)'
  <2>1. pc'[p] = "owner?" /\ op'[p].user = u
    BY <1>2 DEF DeleteBlob, Begin, TypeOK
  <2> QED BY <1>0, <1>2, <2>1
          DEF DeleteBlob, NeverPartial, RowHasFile, PutIsKept, Servable, Apart, Inside
<1>3. ASSUME NEW b \in Blobs, Evict(p, b)
      PROVE  NeverPartial' /\ RowHasFile' /\ PutIsKept' /\ Apart' /\ Inside(p)'
  <2>1. pc'[p] = "delete row" /\ op'[p].name = "evict" /\ op'[p].sha = b
    BY <1>3 DEF Evict, Begin, TypeOK
  <2> QED BY <1>0, <1>3, <2>1
          DEF Evict, NeverPartial, RowHasFile, PutIsKept, Servable, Apart, Inside
<1>4. CASE Exists(p)
  <2>1. op' = op /\ op[p].sha \in Blobs
    BY <1>4, Arguments DEF Exists, Goto
  <2>2. pc'[p] = IF file[op[p].sha] = None THEN "open" ELSE "insert"
    BY <1>4 DEF Exists, Goto, TypeOK
  <2>3. UNCHANGED <<file, tmp, whole, row, fd, kept>>
    BY <1>4 DEF Exists
  <2>4. NeverPartial' /\ RowHasFile' /\ PutIsKept' /\ Apart'
    BY <1>0, <2>1, <2>3 DEF NeverPartial, RowHasFile, PutIsKept, Servable, Apart
  <2>5. Inside(p)'
    BY <1>0, <1>4, <2>1, <2>2, <2>3 DEF Exists, Inside
  <2> QED BY <2>4, <2>5
<1>5. CASE Open(p)
  <2>1. op' = op /\ op[p].sha \in Blobs /\ pc'[p] = "write"
    BY <1>5, Arguments DEF Open, Goto, TypeOK
  <2>2. PICK i \in Inodes : /\ tmp[op[p].sha] = None => i \in Free
                            /\ tmp[op[p].sha] # None => i = tmp[op[p].sha]
                            /\ tmp' = [tmp EXCEPT ![op[p].sha] = i]
                            /\ fd' = [fd EXCEPT ![p] = i]
                            /\ whole' = whole \ {i}
    <3>1. PICK i \in (IF tmp[op[p].sha] = None THEN Free ELSE {tmp[op[p].sha]}) :
              /\ tmp' = [tmp EXCEPT ![op[p].sha] = i]
              /\ fd' = [fd EXCEPT ![p] = i]
              /\ whole' = whole \ {i}
      BY <1>5 DEF Open
    <3>2. tmp[op[p].sha] \in Inodes \cup {None}
      BY <2>1 DEF TypeOK
    <3>3. i \in Inodes
      BY <3>2 DEF Free
    <3> QED BY <3>1, <3>3
  <2>3. \A b \in Blobs : file[b] # i /\ (b # op[p].sha => tmp[b] # i)
    BY <1>0, <2>1, <2>2 DEF Free, Apart
  <2>4. /\ fd'[p] = i
        /\ \A b \in Blobs : tmp'[b] = IF b = op[p].sha THEN i ELSE tmp[b]
    BY <2>1, <2>2 DEF TypeOK
  <2>5. file' = file /\ row' = row /\ kept' = kept
    BY <1>5 DEF Open
  <2>6. NeverPartial' /\ RowHasFile' /\ PutIsKept'
    BY <1>0, <2>2, <2>3, <2>5 DEF NeverPartial, RowHasFile, PutIsKept, Servable, TypeOK
  <2>7. Apart'
    BY <1>0, <2>3, <2>4, <2>5 DEF Apart
  <2>8. Inside(p)'
    BY <1>0, <1>5, <2>1, <2>4 DEF Open, Inside
  <2> QED BY <2>6, <2>7, <2>8
<1>6. CASE WriteBytes(p)
  <2>1. op' = op /\ op[p].sha \in Blobs /\ pc'[p] = "replace"
    BY <1>6, Arguments DEF WriteBytes, Goto, TypeOK
  <2>2. tmp[op[p].sha] \in whole'
    BY <1>0, <1>6 DEF WriteBytes, Inside
  <2> QED BY <1>0, <1>6, <2>1, <2>2
          DEF WriteBytes, NeverPartial, RowHasFile, PutIsKept, Servable, Apart, Inside
<1>7. CASE Replace(p)
  <2>1. /\ op[p].sha \in Blobs
        /\ pc[p] = "replace"
        /\ tmp[op[p].sha] \in whole
        /\ tmp[op[p].sha] # None
    BY <1>0, <1>7, Arguments DEF Replace, Inside, TypeOK
  <2>2. /\ op' = op /\ pc'[p] = "insert"
        /\ \A b \in Blobs : file'[b] = IF b = op[p].sha THEN tmp[op[p].sha] ELSE file[b]
        /\ \A b \in Blobs : tmp'[b] = IF b = op[p].sha THEN None ELSE tmp[b]
        /\ whole' = whole /\ row' = row /\ kept' = kept
    BY <1>7, <2>1 DEF Replace, Goto, TypeOK
  <2>3. NeverPartial' /\ RowHasFile' /\ PutIsKept'
    BY <1>0, <2>1, <2>2 DEF NeverPartial, RowHasFile, PutIsKept, Servable, TypeOK
  <2>4. Apart'
    BY <1>0, <2>1, <2>2 DEF Apart
  <2>5. Inside(p)'
    BY <1>0, <2>1, <2>2 DEF Inside
  <2> QED BY <2>3, <2>4, <2>5
<1>8. CASE InsertRow(p)
  <2>1. /\ op[p].sha \in Blobs /\ op[p].user \in Users /\ file[op[p].sha] # None
        /\ pc'[p] = "idle"
    BY <1>0, <1>8, Arguments DEF InsertRow, Returns, Inside, TypeOK
  <2>2. /\ \A b \in Blobs : row'[b] = IF b = op[p].sha /\ row[b] = None THEN op[p].user ELSE row[b]
        /\ file' = file /\ tmp' = tmp /\ whole' = whole /\ kept' = kept \cup {op[p].sha}
    BY <1>8, <2>1 DEF InsertRow, TypeOK
  <2>3. NeverPartial' /\ RowHasFile' /\ Apart'
    BY <1>0, <2>1, <2>2 DEF NeverPartial, RowHasFile, Apart
  <2>4. PutIsKept'
    BY <1>0, <2>1, <2>2 DEF NeverPartial, PutIsKept, Servable, TypeOK
  <2>5. Inside(p)'
    BY <2>1 DEF Inside
  <2> QED BY <2>3, <2>4, <2>5
<1>9. CASE CheckOwner(p)
  <2>1. \/ pc'[p] = "idle" /\ kept' = kept
        \/ /\ pc'[p] = "delete row" /\ op' = op
           /\ row[op[p].sha] = op[p].user
           /\ kept' = kept \ {op[p].sha}
    BY <1>9 DEF CheckOwner, Returns, Goto, TypeOK
  <2> QED BY <1>0, <1>9, <2>1
          DEF CheckOwner, NeverPartial, RowHasFile, PutIsKept, Servable, Apart, Inside
<1>10. CASE DeleteRow(p)
  <2>1. op' = op /\ op[p].sha \in Blobs /\ pc'[p] = "remove" /\ op[p].sha \notin kept
    BY <1>0, <1>10, Arguments DEF DeleteRow, Goto, Inside, TypeOK
  <2>2. /\ row' = [row EXCEPT ![op[p].sha] = None]
        /\ file' = file /\ tmp' = tmp /\ whole' = whole /\ kept' = kept
    BY <1>10 DEF DeleteRow
  <2>3. \A b \in Blobs : row'[b] = IF b = op[p].sha THEN None ELSE row[b]
    BY <2>2 DEF TypeOK
  <2>4. NeverPartial' /\ RowHasFile' /\ Apart'
    BY <1>0, <2>2, <2>3 DEF NeverPartial, RowHasFile, Apart
  <2>5. PutIsKept'
    BY <1>0, <2>1, <2>2, <2>3 DEF PutIsKept, Servable, TypeOK
  <2>6. Inside(p)'
    BY <2>1, <2>2, <2>3 DEF Inside
  <2> QED BY <2>4, <2>5, <2>6
<1>11. CASE RemoveFile(p)
  <2>1. /\ op[p].sha \in Blobs /\ op[p].sha \notin kept /\ row[op[p].sha] = None
        /\ pc'[p] = "idle"
    BY <1>0, <1>11, Arguments DEF RemoveFile, Returns, Inside, TypeOK
  <2>2. \A b \in Blobs : file'[b] = IF b = op[p].sha THEN None ELSE file[b]
    BY <1>11, <2>1 DEF RemoveFile, TypeOK
  <2> QED BY <1>0, <1>11, <2>1, <2>2
          DEF RemoveFile, NeverPartial, RowHasFile, PutIsKept, Servable, Apart, Inside, TypeOK
<1>12. CASE Crash(p)
  <2>1. pc'[p] = "idle"
    BY <1>12 DEF Crash, Returns, TypeOK
  <2> QED BY <1>0, <1>12, <2>1
          DEF Crash, NeverPartial, RowHasFile, PutIsKept, Servable, Apart, Inside
<1>13. ASSUME NEW b \in Blobs, Fetch(p, b)
       PROVE  NeverPartial' /\ RowHasFile' /\ PutIsKept' /\ Apart' /\ Inside(p)'
  <2>1. pc'[p] = "meta?"
    BY <1>13 DEF Fetch, Begin, TypeOK
  <2> QED BY <1>0, <1>13, <2>1
          DEF Fetch, NeverPartial, RowHasFile, PutIsKept, Servable, Apart, Inside
<1>14. CASE MetaAndHas(p)
  <2>1. \/ pc'[p] \in {"idle", "has?"}
        \/ pc'[p] = "read" /\ op' = op /\ file[op[p].sha] # None
    BY <1>14 DEF MetaAndHas, Returns, Goto, TypeOK
  <2> QED BY <1>0, <1>14, <2>1
          DEF MetaAndHas, NeverPartial, RowHasFile, PutIsKept, Servable, Apart, Inside
<1>15. CASE ReadFile(p)
  <2>1. pc'[p] = "idle"
    BY <1>15 DEF ReadFile, Returns, TypeOK
  <2> QED BY <1>0, <1>15, <2>1
          DEF ReadFile, NeverPartial, RowHasFile, PutIsKept, Servable, Apart, Inside
<1> QED BY <1>1, <1>2, <1>3, <1>4, <1>5, <1>6, <1>7, <1>8, <1>9, <1>10, <1>11, <1>12,
           <1>13, <1>14, <1>15 DEF Step

LEMMA Inductive ==
    ASSUME OneProcess
    PROVE  Spec => [](TypeOK /\ IInv)
<1>1. Init => IInv
  BY DEF Init, IInv, NeverPartial, RowHasFile, PutIsKept, Apart, Inside
<1>2. TypeOK /\ TypeOK' /\ IInv /\ [Next]_vars => IInv'
  <2>1. ASSUME UNCHANGED vars, IInv PROVE IInv'
    BY <2>1 DEF vars, IInv, NeverPartial, RowHasFile, PutIsKept, Servable, Apart, Inside
  <2> QED BY <2>1, InsideStep
<1> QED BY <1>1, <1>2, TypeCorrect, PTL DEF Spec

(* With one process, wherever it dies, a file under a blob's name has all  *)
(* of its bytes, a row has its file, and a GET answered 200 its bytes.     *)
THEOREM FilesAgree ==
    ASSUME OneProcess
    PROVE  Spec => []FilesAndRows
<1>1. TypeOK /\ IInv => FilesAndRows
  <2>1. ASSUME TypeOK, IInv, NEW p \in Procs, pc[p] = "read" PROVE file[op[p].sha] \in whole
    BY <2>1, Arguments DEF IInv, Inside, NeverPartial
  <2> QED BY <2>1 DEF IInv, FilesAndRows, FetchIsWhole
<1> QED BY <1>1, Inductive, PTL

(* With one process, a blob that put() returned for is served until its    *)
(* owner begins to delete it or the node to evict it.                      *)
THEOREM Kept ==
    ASSUME OneProcess
    PROVE  Spec => []PutIsKept
<1>1. IInv => PutIsKept
  BY DEF IInv
<1> QED BY <1>1, Inductive, PTL

(* With one process, a row is taken away by its uploader or by an eviction *)
(* and by nothing else, and it never passes to another uploader.           *)
THEOREM OwnersOnly ==
    ASSUME OneProcess
    PROVE  Spec => OnlyOwnerDeletes
<1> DEFINE Owned ==
      \A b \in Blobs : row[b] # None /\ row'[b] # row[b] =>
          /\ row'[b] = None
          /\ \E p \in Procs : /\ op[p].sha = b
                              /\ op[p].name = "evict" \/ op[p].user = row[b]
<1>1. ASSUME TypeOK, IInv, Next PROVE Owned
  <2> SUFFICES ASSUME NEW b \in Blobs, row[b] # None, row'[b] # row[b]
               PROVE  /\ row'[b] = None
                      /\ \E p \in Procs : /\ op[p].sha = b
                                          /\ op[p].name = "evict" \/ op[p].user = row[b]
    OBVIOUS
  <2>1. PICK p \in Procs : InsertRow(p) \/ DeleteRow(p)
    BY <1>1 DEF Next, Step, Put, DeleteBlob, Evict, Exists, Open, WriteBytes, Replace,
                CheckOwner, RemoveFile, Crash, Fetch, MetaAndHas, ReadFile
  <2>2. op[p].sha \in Blobs
    BY <1>1, <2>1, Arguments DEF InsertRow, DeleteRow
  <2>3. ~InsertRow(p)
    BY <1>1, <2>2 DEF InsertRow, TypeOK
  <2>4. /\ row' = [row EXCEPT ![op[p].sha] = None]
        /\ op[p].name = "evict" \/ op[p].user = row[op[p].sha]
    BY <1>1, <2>1, <2>3 DEF DeleteRow, IInv, Inside
  <2> QED BY <1>1, <2>2, <2>4 DEF TypeOK
<1>2. TypeOK /\ IInv /\ [Next]_vars => [Owned]_vars
  BY <1>1
<1> QED BY <1>2, Inductive, PTL DEF Spec, OnlyOwnerDeletes

-----------------------------------------------------------------------------
(***************************************************************************)
(* The meter of the downloads that the blobs come by (Bandwidth): no cap   *)
(* is passed on a day or in a month that one process at a time used, and   *)
(* no byte is counted that the period did not see, for any processes,      *)
(* caps, sizes and dates.                                                  *)
(***************************************************************************)

(* Months follow each other as their days do. *)
LEMMA MonthType == ASSUME NEW d \in Nat PROVE MonthOf(d) \in Nat
BY BudgetAssumption DEF MonthOf

LEMMA MonthOrder ==
    ASSUME NEW c \in Nat, NEW d \in Nat, c =< d
    PROVE  MonthOf(c) =< MonthOf(d)
BY BudgetAssumption DEF MonthOf

LEMMA DatesAreNat == Dates \subseteq Nat /\ \A m \in Months : m \in Nat
BY MonthType, BandwidthAssumption DEF Dates, Months

-----------------------------------------------------------------------------
(* The inductive invariant. *)

(* A counter was kept on a day that has come, and has seen no more than    *)
(* that day and its month.                                                 *)
Sound(m) ==
    m # NoCounts => /\ m.date \in Dates /\ m.date =< today
                    /\ m.month = MonthOf(m.date)
                    /\ m.day =< spent[m.date]
                    /\ m.month_bytes =< spentIn[m.month]

AllSound == Sound(stored) /\ \A p \in Meters : Sound(meter[p])

(* Nothing is spent yet of what is to come. *)
FutureEmpty ==
    /\ \A d \in Dates : d > today => spent[d] = 0
    /\ \A m \in Months : m > MonthOf(today) => spentIn[m] = 0

QuietDay   == today \notin disturbed
QuietMonth == DaysOf(MonthOf(today)) \cap disturbed = {}

Alone == QuietDay => \A p, q \in Meters : stage[p] # "down" /\ stage[q] # "down" => p = q

(* A counter that, rolled to today, has seen all of a quiet period. *)
Exact(m) ==
    /\ QuietDay => roll(m, today).day = spent[today]
    /\ QuietMonth => roll(m, today).month_bytes = spentIn[MonthOf(today)]

AllExact ==
    /\ (\A p \in Meters : stage[p] # "saving" /\ ~unsaved[p]) => Exact(stored)
    /\ \A p \in Meters : stage[p] # "down" => Exact(meter[p])

(* The size that was told was allowed when the meter was asked. *)
Allowed == \A p \in Meters : stage[p] = "fetching" /\ told[p] # 0 => Allows(meter[p], told[p])

(* Only a process that runs has counters to save. *)
Running == \A p \in Meters : unsaved[p] => stage[p] # "down"

MeterInv ==
    /\ MeterTypeOK /\ AllSound /\ FutureEmpty /\ Alone /\ AllExact /\ Allowed /\ Running
    /\ QuietWithinCap

-----------------------------------------------------------------------------
(* What the methods of the meter do to its counters. *)
LEMMA NoCountsType == NoCounts \in Counts
BY DEF NoCounts, Counts

LEMMA RollType ==
    ASSUME NEW m \in Counts, NEW d \in Dates
    PROVE  /\ roll(m, d) \in Counts
           /\ roll(m, d).date = d /\ roll(m, d).month = MonthOf(d)
           /\ roll(m, d).day = IF m.date = d THEN m.day ELSE 0
           /\ roll(m, d).month_bytes = IF m.month = MonthOf(d) THEN m.month_bytes ELSE 0
           /\ roll(m, d) # NoCounts
<1>1. MonthOf(d) \in Nat /\ d # -1
  BY DatesAreNat, MonthType DEF Dates
<1> QED BY <1>1 DEF roll, Counts, NoCounts

LEMMA RecordedType ==
    ASSUME NEW m \in Counts, NEW n \in Nat
    PROVE  /\ Recorded(m, n) \in Counts
           /\ Recorded(m, n).date = m.date /\ Recorded(m, n).month = m.month
           /\ Recorded(m, n).day = m.day + n
           /\ Recorded(m, n).month_bytes = m.month_bytes + n
<1>1. /\ m.day \in Nat /\ m.month_bytes \in Nat
      /\ m.day + n \in Nat /\ m.month_bytes + n \in Nat
  BY DEF Counts
<1> DEFINE one == [m EXCEPT !.day = m.day + n]
           two == [one EXCEPT !.month_bytes = m.month_bytes + n]
<1>2. /\ one \in Counts
      /\ one.date = m.date /\ one.month = m.month
      /\ one.day = m.day + n /\ one.month_bytes = m.month_bytes
  BY <1>1 DEF Counts
<1>3. Recorded(m, n) = two
  BY <1>2 DEF Recorded
<1> HIDE DEF one
<1>4. /\ two \in Counts
      /\ two.date = one.date /\ two.month = one.month
      /\ two.day = one.day /\ two.month_bytes = m.month_bytes + n
  BY <1>1, <1>2 DEF Counts
<1> QED BY <1>2, <1>3, <1>4

LEMMA RollSound ==
    ASSUME MeterTypeOK, NEW m \in Counts, Sound(m)
    PROVE  Sound(roll(m, today))
<1>1. /\ today \in Dates /\ today \in Nat /\ MonthOf(today) \in Nat /\ MonthOf(today) \in Months
      /\ spent[today] \in Nat /\ spentIn[MonthOf(today)] \in Nat
  BY DatesAreNat, MonthType DEF MeterTypeOK, Months
<1>2. m.month = MonthOf(today) => m # NoCounts
  BY <1>1 DEF NoCounts
<1>3. m.date = today => m # NoCounts
  BY <1>1 DEF NoCounts
<1> QED BY <1>1, <1>2, <1>3, RollType DEF Sound

LEMMA RollExact ==
    ASSUME MeterTypeOK, NEW m \in Counts, Exact(m)
    PROVE  Exact(roll(m, today))
<1>1. today \in Dates
  BY DEF MeterTypeOK
<1>2. roll(roll(m, today), today) = roll(m, today)
  BY DEF roll
<1> QED BY <1>2 DEF Exact

(* A roll can only make room. *)
LEMMA RollAllows ==
    ASSUME NEW m \in Counts, NEW d \in Dates, NEW n \in Nat, Allows(m, n)
    PROVE  Allows(roll(m, d), n)
<1>1. m.day \in Nat /\ m.month_bytes \in Nat
  BY DEF Counts
<1> DEFINE r == roll(m, d)
<1>2. r.day \in {0, m.day} /\ r.month_bytes \in {0, m.month_bytes}
  BY RollType
<1> HIDE DEF r
<1>3. r.day + n =< m.day + n /\ r.month_bytes + n =< m.month_bytes + n
  BY <1>1, <1>2
<1>4. r.day \in Nat /\ r.month_bytes \in Nat
  BY <1>1, <1>2
<1>5. Allows(r, n)
  BY <1>1, <1>3, <1>4, BudgetAssumption DEF Allows
<1> QED BY <1>5 DEF r

LEMMA SizeType ==
    ASSUME MeterTypeOK, NEW p \in Meters
    PROVE  /\ size[p] \in Nat /\ told[p] \in Nat
           /\ Unannounced(p) \in Nat /\ Unannounced(p) + told[p] >= size[p]
<1>1. size[p] \in Sizes \cup {0} /\ told[p] \in Tolds \cup {0}
  BY DEF MeterTypeOK
<1>2. (\A n \in Sizes \cup {0} : n \in Nat) /\ (\A n \in Tolds \cup {0} : n \in Nat)
  BY BandwidthAssumption
<1> QED BY <1>1, <1>2 DEF Unannounced

LEMMA QuietMonthQuietDay == MeterTypeOK /\ QuietMonth => QuietDay
BY DEF MeterTypeOK, QuietMonth, QuietDay, DaysOf

-----------------------------------------------------------------------------
(* The steps. *)
LEMMA StartStep ==
    ASSUME MeterInv, NEW p \in Meters, Start(p)
    PROVE  MeterInv'
<1>1. MeterTypeOK /\ AllSound /\ FutureEmpty /\ Alone /\ AllExact /\ Allowed /\ Running /\ QuietWithinCap
  BY DEF MeterInv
<1>2. /\ UNCHANGED <<today, stored, told, size, unsaved, spent, spentIn, beyond, beyondIn, received>>
      /\ stage[p] = "down" /\ stage' = [stage EXCEPT ![p] = "idle"]
      /\ meter' = [meter EXCEPT ![p] = roll(stored, today)]
      /\ disturbed' = disturbed \cup {d \in {today} : \E q \in Meters \ {p} : stage[q] # "down"}
  BY DEF Start, Moves, history
<1>3. /\ disturbed \subseteq disturbed' /\ disturbed' \subseteq Dates
      /\ QuietDay' => QuietDay
      /\ QuietMonth' => QuietMonth
      /\ QuietDay' => \A q \in Meters \ {p} : stage[q] = "down"
  BY <1>1, <1>2 DEF MeterTypeOK, QuietDay, QuietMonth
<1>4. MeterTypeOK'
  BY <1>1, <1>2, <1>3, RollType DEF MeterTypeOK
<1>5. AllSound'
  <2>1. \A m : Sound(m)' = Sound(m)
    BY <1>2 DEF Sound
  <2>2. Sound(roll(stored, today))
    BY <1>1, RollSound DEF MeterTypeOK, AllSound
  <2> QED BY <1>1, <1>2, <2>1, <2>2 DEF AllSound, MeterTypeOK
<1>6. FutureEmpty'
  BY <1>1, <1>2 DEF FutureEmpty
<1>7. Alone'
  BY <1>1, <1>2, <1>3 DEF Alone, MeterTypeOK
<1>8. AllExact'
  <2>1. \A m : Exact(m) => Exact(m)'
    BY <1>2, <1>3 DEF Exact
  <2>2. (\A q \in Meters : stage'[q] # "saving" /\ ~unsaved'[q]) => Exact(stored)'
    BY <1>1, <1>2, <2>1 DEF AllExact, MeterTypeOK
  <2>3. Exact(meter[p])'
    <3>1. CASE QuietDay'
      <4>1. \A q \in Meters : stage[q] # "saving" /\ ~unsaved[q]
        BY <1>1, <1>2, <1>3, <3>1 DEF Running
      <4>2. Exact(roll(stored, today))
        BY <1>1, <4>1, RollExact DEF AllExact, MeterTypeOK
      <4> QED BY <1>1, <1>2, <2>1, <4>2 DEF MeterTypeOK
    <3>2. CASE ~QuietDay'
      BY <1>4, <3>2, QuietMonthQuietDay DEF Exact, QuietMonth, QuietDay, DaysOf, MeterTypeOK
    <3> QED BY <3>1, <3>2
  <2>4. \A q \in Meters \ {p} : stage'[q] # "down" => Exact(meter[q])'
    BY <1>1, <1>2, <2>1 DEF AllExact, MeterTypeOK
  <2> QED BY <2>2, <2>3, <2>4 DEF AllExact
<1>9. Allowed' /\ Running'
  BY <1>1, <1>2 DEF Allowed, Running, MeterTypeOK
<1>10. QuietWithinCap'
  BY <1>1, <1>2, <1>3 DEF QuietWithinCap
<1> QED BY <1>4, <1>5, <1>6, <1>7, <1>8, <1>9, <1>10 DEF MeterInv

LEMMA AllowStep ==
    ASSUME MeterInv, NEW p \in Meters, NEW t \in Tolds, NEW n \in Sizes, Allow(p, t, n)
    PROVE  MeterInv'
<1>1. MeterTypeOK /\ AllSound /\ FutureEmpty /\ Alone /\ AllExact /\ Allowed /\ Running /\ QuietWithinCap
  BY DEF MeterInv
<1>2. /\ UNCHANGED <<today, stored, unsaved, spent, spentIn, beyond, beyondIn, received, disturbed>>
      /\ stage[p] = "idle"
      /\ meter' = [meter EXCEPT ![p] = roll(meter[p], today)]
      /\ \/ /\ Allows(meter'[p], t)
            /\ stage' = [stage EXCEPT ![p] = "fetching"]
            /\ told' = [told EXCEPT ![p] = t] /\ size' = [size EXCEPT ![p] = n]
         \/ UNCHANGED <<stage, told, size>>
  BY DEF Allow, history
<1>3. MeterTypeOK'
  <2>1. meter' \in [Meters -> Counts]
    BY <1>1, <1>2, RollType DEF MeterTypeOK
  <2>2. /\ stage' \in [Meters -> {"down", "idle", "fetching", "saving"}]
        /\ size' \in [Meters -> Sizes \cup {0}]
        /\ told' \in [Meters -> Tolds \cup {0}]
    BY <1>1, <1>2 DEF MeterTypeOK
  <2>3. \A q \in Meters : /\ size'[q] # 0 <=> stage'[q] \in {"fetching", "saving"}
                          /\ told'[q] # 0 => size'[q] # 0
    BY <1>1, <1>2, BandwidthAssumption DEF MeterTypeOK
  <2> QED BY <1>1, <1>2, <2>1, <2>2, <2>3 DEF MeterTypeOK
<1>4. AllSound'
  <2>1. \A m : Sound(m)' = Sound(m)
    BY <1>2 DEF Sound
  <2>2. Sound(roll(meter[p], today))
    BY <1>1, RollSound DEF MeterTypeOK, AllSound
  <2> QED BY <1>1, <1>2, <2>1, <2>2 DEF AllSound, MeterTypeOK
<1>5. FutureEmpty'
  BY <1>1, <1>2 DEF FutureEmpty
<1>6. \A q \in Meters : /\ stage'[q] # "down" => stage[q] # "down"
                        /\ stage'[q] # "saving" => stage[q] # "saving"
  BY <1>1, <1>2 DEF MeterTypeOK
<1>7. Alone'
  BY <1>1, <1>2, <1>6 DEF Alone, QuietDay
<1>8. AllExact'
  <2>1. \A m : Exact(m)' = Exact(m)
    BY <1>2 DEF Exact, QuietDay, QuietMonth
  <2>2. Exact(roll(meter[p], today))
    BY <1>1, <1>2, RollExact DEF MeterTypeOK, AllExact
  <2> QED BY <1>1, <1>2, <1>6, <2>1, <2>2 DEF AllExact, MeterTypeOK
<1>9. Allowed' /\ Running'
  BY <1>1, <1>2 DEF Allowed, Running, MeterTypeOK
<1>10. QuietWithinCap'
  BY <1>1, <1>2 DEF QuietWithinCap
<1> QED BY <1>3, <1>4, <1>5, <1>7, <1>8, <1>9, <1>10 DEF MeterInv

LEMMA UnaskedStep ==
    ASSUME MeterInv, NEW p \in Meters, NEW n \in Sizes, FetchUnasked(p, n)
    PROVE  MeterInv'
<1>1. MeterTypeOK /\ AllSound /\ FutureEmpty /\ Alone /\ AllExact /\ Allowed /\ Running /\ QuietWithinCap
  BY DEF MeterInv
<1>2. /\ UNCHANGED <<today, stored, meter, told, unsaved, spent, spentIn, beyond, beyondIn,
                      received, disturbed>>
      /\ stage[p] = "idle" /\ stage' = [stage EXCEPT ![p] = "fetching"]
      /\ size' = [size EXCEPT ![p] = n]
  BY DEF FetchUnasked, Moves, history
<1>3. told[p] = 0
  BY <1>1, <1>2 DEF MeterTypeOK
<1>4. MeterTypeOK'
  <2>1. \A q \in Meters : /\ size'[q] # 0 <=> stage'[q] \in {"fetching", "saving"}
                          /\ told'[q] # 0 => size'[q] # 0
    BY <1>1, <1>2, <1>3, BandwidthAssumption DEF MeterTypeOK
  <2> QED BY <1>1, <1>2, <2>1 DEF MeterTypeOK
<1>5. \A m : Sound(m)' = Sound(m) /\ Exact(m)' = Exact(m)
  BY <1>2 DEF Sound, Exact, QuietDay, QuietMonth
<1>6. AllSound' /\ FutureEmpty' /\ QuietWithinCap'
  BY <1>1, <1>2, <1>5 DEF AllSound, FutureEmpty, QuietWithinCap
<1>7. \A q \in Meters : /\ stage'[q] # "down" => stage[q] # "down"
                        /\ stage'[q] # "saving" => stage[q] # "saving"
  BY <1>1, <1>2 DEF MeterTypeOK
<1>8. Alone' /\ Running'
  BY <1>1, <1>2, <1>7 DEF Alone, QuietDay, Running, MeterTypeOK
<1>9. AllExact'
  BY <1>1, <1>2, <1>5, <1>7 DEF AllExact
<1>10. Allowed'
  BY <1>1, <1>2, <1>3 DEF Allowed, MeterTypeOK
<1> QED BY <1>4, <1>6, <1>8, <1>9, <1>10 DEF MeterInv

(* The download is counted, and its save goes on or has failed. *)
LEMMA FetchedStep ==
    ASSUME MeterInv, NEW p \in Meters, Fetched(p) \/ FetchedUnsaved(p)
    PROVE  MeterInv'
<1> DEFINE n == size[p]
           rolled == roll(meter[p], today)
           new == Recorded(rolled, n)
           month == MonthOf(today)
           u == Unannounced(p)
<1>1. MeterTypeOK /\ AllSound /\ FutureEmpty /\ Alone /\ AllExact /\ Allowed /\ Running /\ QuietWithinCap
  BY DEF MeterInv
<1>2. /\ UNCHANGED <<today, disturbed>> /\ stage[p] = "fetching"
      /\ \/ /\ stage' = [stage EXCEPT ![p] = "saving"] /\ stored' = NoCounts
            /\ UNCHANGED <<told, size, unsaved>>
         \/ /\ stage' = [stage EXCEPT ![p] = "idle"] /\ stored' = stored
            /\ told' = [told EXCEPT ![p] = 0] /\ size' = [size EXCEPT ![p] = 0]
            /\ unsaved' = [unsaved EXCEPT ![p] = TRUE]
      /\ meter' = [meter EXCEPT ![p] = new]
      /\ spent' = [spent EXCEPT ![today] = spent[today] + n]
      /\ spentIn' = [spentIn EXCEPT ![month] = spentIn[month] + n]
      /\ beyond' = [beyond EXCEPT ![today] = beyond[today] + u]
      /\ beyondIn' = [beyondIn EXCEPT ![month] = beyondIn[month] + u]
      /\ received' = [received EXCEPT ![today] = received[today] + n]
  BY DEF Fetched, FetchedUnsaved, Downloaded, Drops, Moves, Torn
<1>3. /\ today \in Dates /\ month \in Months /\ n \in Nat /\ meter[p] \in Counts
      /\ u \in Nat /\ told[p] \in Nat /\ u + told[p] >= n
      /\ spent[today] \in Nat /\ spentIn[month] \in Nat /\ received[today] \in Nat
      /\ beyond[today] \in Nat /\ beyondIn[month] \in Nat
  BY <1>1, SizeType DEF MeterTypeOK, Months
<1>4. /\ rolled \in Counts /\ rolled.date = today /\ rolled.month = month
      /\ rolled.day \in Nat /\ rolled.month_bytes \in Nat
      /\ rolled # NoCounts
  BY <1>3, RollType DEF Counts
<1>5. /\ new \in Counts /\ new.date = today /\ new.month = month
      /\ new.day = rolled.day + n /\ new.month_bytes = rolled.month_bytes + n
  BY <1>3, <1>4, RecordedType
<1>6. Sound(rolled) /\ (told[p] # 0 => Allows(rolled, told[p])) /\ Exact(rolled)
  BY <1>1, <1>2, <1>3, RollSound, RollAllows, RollExact DEF AllSound, Allowed, AllExact
<1>7. roll(new, today) = new
  BY <1>5 DEF roll, Counts
<1> HIDE DEF rolled, new, n, month, u
<1>8. MeterTypeOK'
  <2>1. /\ meter' \in [Meters -> Counts] /\ stored' \in Counts
        /\ stage' \in [Meters -> {"down", "idle", "fetching", "saving"}]
        /\ size' \in [Meters -> Sizes \cup {0}] /\ told' \in [Meters -> Tolds \cup {0}]
        /\ unsaved' \in [Meters -> BOOLEAN]
    BY <1>1, <1>2, <1>5, NoCountsType DEF MeterTypeOK
  <2>2. /\ spent' \in [Dates -> Nat] /\ spentIn' \in [Months -> Nat]
        /\ beyond' \in [Dates -> Nat] /\ beyondIn' \in [Months -> Nat]
        /\ received' \in [Dates -> Nat]
    BY <1>1, <1>2, <1>3 DEF MeterTypeOK
  <2>3. \A q \in Meters : /\ size'[q] # 0 <=> stage'[q] \in {"fetching", "saving"}
                          /\ told'[q] # 0 => size'[q] # 0
    BY <1>1, <1>2 DEF MeterTypeOK
  <2> QED BY <1>1, <1>2, <2>1, <2>2, <2>3 DEF MeterTypeOK
<1>9. /\ spent'[today] = spent[today] + n /\ spentIn'[month] = spentIn[month] + n
      /\ beyond'[today] = beyond[today] + u /\ beyondIn'[month] = beyondIn[month] + u
      /\ \A d \in Dates : d # today => spent'[d] = spent[d] /\ beyond'[d] = beyond[d]
      /\ \A m \in Months : m # month => spentIn'[m] = spentIn[m] /\ beyondIn'[m] = beyondIn[m]
  BY <1>1, <1>2, <1>3 DEF MeterTypeOK
<1>10. /\ \A d \in Dates : spent[d] =< spent'[d] /\ spent[d] \in Nat /\ spent'[d] \in Nat
       /\ \A m \in Months : spentIn[m] =< spentIn'[m] /\ spentIn[m] \in Nat /\ spentIn'[m] \in Nat
  BY <1>1, <1>3, <1>8, <1>9 DEF MeterTypeOK
<1>11. AllSound'
  <2>1. ASSUME NEW m \in Counts, Sound(m) PROVE Sound(m)'
    <3>1. CASE m = NoCounts
      BY <3>1 DEF Sound
    <3>2. CASE m # NoCounts
      <4>1. m.date \in Dates /\ m.month \in Months /\ m.day \in Nat /\ m.month_bytes \in Nat
        BY <2>1, <3>2 DEF Sound, Counts, Months
      <4>2. m.day =< spent'[m.date]
        BY <2>1, <3>2, <4>1, <1>10 DEF Sound
      <4>3. m.month_bytes =< spentIn'[m.month]
        BY <2>1, <3>2, <4>1, <1>10 DEF Sound
      <4> QED BY <1>2, <2>1, <3>2, <4>2, <4>3 DEF Sound
    <3> QED BY <3>1, <3>2
  <2>2. Sound(meter[p])'
    <3>1. new.day =< spent'[today] /\ new.month_bytes =< spentIn'[month]
      BY <1>3, <1>4, <1>5, <1>6, <1>9 DEF Sound
    <3>2. today =< today
      BY <1>3, DatesAreNat
    <3>3. meter'[p] = new
      BY <1>1, <1>2 DEF MeterTypeOK
    <3> QED BY <1>2, <1>3, <1>5, <3>1, <3>2, <3>3 DEF Sound, month
  <2>3. \A q \in Meters : Sound(meter[q])'
    BY <1>1, <1>2, <2>1, <2>2 DEF MeterTypeOK, AllSound
  <2>4. Sound(stored)'
    <3>1. stored' \in {NoCounts, stored} /\ stored \in Counts /\ Sound(stored)
      BY <1>1, <1>2 DEF AllSound, MeterTypeOK
    <3>2. Sound(NoCounts)'
      BY DEF Sound
    <3> QED BY <2>1, <3>1, <3>2 DEF Sound
  <2> QED BY <2>3, <2>4 DEF AllSound
<1>12. FutureEmpty'
  <2>1. today \in Nat /\ month \in Nat
    BY <1>3, DatesAreNat
  <2>2. \A d \in Dates : d > today => spent'[d] = 0
    BY <1>1, <1>9, <2>1, DatesAreNat DEF FutureEmpty
  <2>3. \A m \in Months : m > month => spentIn'[m] = 0
    BY <1>1, <1>9, <2>1, DatesAreNat DEF FutureEmpty, month
  <2> QED BY <1>2, <2>2, <2>3 DEF FutureEmpty, month
<1>13. /\ QuietDay' = QuietDay /\ QuietMonth' = QuietMonth
  BY <1>2 DEF QuietDay, QuietMonth
<1>14. \A q \in Meters : stage'[q] # "down" => stage[q] # "down"
  BY <1>1, <1>2 DEF MeterTypeOK
<1>15. Alone'
  BY <1>1, <1>13, <1>14 DEF Alone
<1>16. QuietDay => new.day = spent'[today]
  <2>1. roll(rolled, today) = rolled
    BY <1>3, RollType DEF roll, rolled
  <2> QED BY <1>5, <1>6, <1>9, <2>1 DEF Exact
<1>17. QuietMonth => new.month_bytes = spentIn'[month]
  <2>1. roll(rolled, today) = rolled
    BY <1>3, RollType DEF roll, rolled
  <2> QED BY <1>5, <1>6, <1>9, <2>1 DEF Exact, month
<1>18. AllExact'
  <2>1. stage'[p] = "saving" \/ unsaved'[p]
    BY <1>1, <1>2 DEF MeterTypeOK
  <2>2. Exact(meter[p])'
    <3>1. meter'[p] = new
      BY <1>1, <1>2 DEF MeterTypeOK
    <3> QED BY <1>2, <1>7, <1>13, <1>16, <1>17, <3>1 DEF Exact, month
  <2>3. ASSUME NEW q \in Meters, q # p, stage'[q] # "down" PROVE Exact(meter[q])'
    <3>1. ~QuietDay
      BY <1>1, <1>2, <1>14, <2>3 DEF Alone
    <3> QED BY <1>1, <1>13, <3>1, QuietMonthQuietDay DEF Exact
  <2> QED BY <1>1, <1>2, <2>1, <2>2, <2>3 DEF AllExact, MeterTypeOK
<1>19. Allowed' /\ Running'
  BY <1>1, <1>2 DEF Allowed, Running, MeterTypeOK
<1>20. QuietWithinCap'
  <2>1. DayCap # 0 /\ QuietDay => spent'[today] =< DayCap + beyond'[today]
    <3>1. CASE told[p] = 0
      <4>1. spent[today] =< DayCap + beyond[today] \/ ~(DayCap # 0 /\ QuietDay)
        BY <1>1, <1>3 DEF QuietWithinCap, QuietDay
      <4> QED BY <1>3, <1>9, <3>1, <4>1, BudgetAssumption
    <3>2. CASE told[p] # 0
      <4>1. DayCap # 0 /\ QuietDay => rolled.day + told[p] =< DayCap /\ spent'[today] = rolled.day + n
        BY <1>5, <1>6, <1>16, <3>2 DEF Allows
      <4> QED BY <1>3, <1>4, <1>9, <4>1, BudgetAssumption
    <3> QED BY <3>1, <3>2
  <2>2. MonthCap # 0 /\ QuietMonth => spentIn'[month] =< MonthCap + beyondIn'[month]
    <3>1. CASE told[p] = 0
      <4>1. spentIn[month] =< MonthCap + beyondIn[month] \/ ~(MonthCap # 0 /\ QuietMonth)
        BY <1>1, <1>3 DEF QuietWithinCap, QuietMonth, month
      <4> QED BY <1>3, <1>9, <3>1, <4>1, BudgetAssumption
    <3>2. CASE told[p] # 0
      <4>1. MonthCap # 0 /\ QuietMonth =>
               rolled.month_bytes + told[p] =< MonthCap /\ spentIn'[month] = rolled.month_bytes + n
        BY <1>5, <1>6, <1>17, <3>2 DEF Allows
      <4> QED BY <1>3, <1>4, <1>9, <4>1, BudgetAssumption
    <3> QED BY <3>1, <3>2
  <2>3. DayCap # 0 => \A d \in Dates \ disturbed : spent'[d] =< DayCap + beyond'[d]
    BY <1>1, <1>9, <2>1 DEF QuietWithinCap, QuietDay
  <2>4. MonthCap # 0 => \A m \in Months : DaysOf(m) \cap disturbed = {} =>
                                            spentIn'[m] =< MonthCap + beyondIn'[m]
    BY <1>1, <1>9, <2>2 DEF QuietWithinCap, QuietMonth, month
  <2> QED BY <1>2, <2>3, <2>4 DEF QuietWithinCap
<1> QED BY <1>8, <1>11, <1>12, <1>15, <1>18, <1>19, <1>20 DEF MeterInv

(* The steps that leave counters and history of the periods alone. *)
LEMMA SaveStep ==
    ASSUME MeterInv, NEW p \in Meters, Save(p) \/ SaveFails(p)
    PROVE  MeterInv'
<1>1. MeterTypeOK /\ AllSound /\ FutureEmpty /\ Alone /\ AllExact /\ Allowed /\ Running /\ QuietWithinCap
  BY DEF MeterInv
<1>2. /\ UNCHANGED <<today, meter, spent, spentIn, beyond, beyondIn, received, disturbed>>
      /\ stage[p] = "saving" /\ stage' = [stage EXCEPT ![p] = "idle"]
      /\ told' = [told EXCEPT ![p] = 0] /\ size' = [size EXCEPT ![p] = 0]
      /\ \/ stored' = meter[p] /\ unsaved' = [unsaved EXCEPT ![p] = FALSE]
         \/ stored' = stored /\ unsaved' = [unsaved EXCEPT ![p] = TRUE]
  BY DEF Save, SaveFails, Drops, Moves, history
<1>3. MeterTypeOK'
  <2>0. meter[p] \in Counts /\ stored \in Counts
    BY <1>1 DEF MeterTypeOK
  <2>1. stored' \in Counts
    BY <1>2, <2>0, Zenon
  <2>5. unsaved' \in [Meters -> BOOLEAN]
    BY <1>1, <1>2 DEF MeterTypeOK
  <2>2. stage' \in [Meters -> {"down", "idle", "fetching", "saving"}]
    BY <1>1, <1>2 DEF MeterTypeOK
  <2>3. told' \in [Meters -> Tolds \cup {0}] /\ size' \in [Meters -> Sizes \cup {0}]
    BY <1>1, <1>2 DEF MeterTypeOK
  <2>4. ASSUME NEW q \in Meters
        PROVE  /\ size'[q] # 0 <=> stage'[q] \in {"fetching", "saving"}
               /\ told'[q] # 0 => size'[q] # 0
    BY <1>1, <1>2 DEF MeterTypeOK
  <2> QED BY <1>1, <1>2, <2>1, <2>2, <2>3, <2>4, <2>5 DEF MeterTypeOK
<1>4. \A m : Sound(m)' = Sound(m) /\ Exact(m)' = Exact(m)
  BY <1>2 DEF Sound, Exact, QuietDay, QuietMonth
<1>5. AllSound'
  <2>1. stored' \in {stored, meter[p]}
    BY <1>2
  <2> QED BY <1>1, <1>2, <1>4, <2>1 DEF AllSound
<1>6. FutureEmpty' /\ QuietWithinCap'
  BY <1>1, <1>2 DEF FutureEmpty, QuietWithinCap
<1>7. Alone' /\ Allowed' /\ Running'
  BY <1>1, <1>2 DEF Alone, Allowed, Running, QuietDay, MeterTypeOK
<1>8. AllExact'
  <2>1. Exact(meter[p])
    BY <1>1, <1>2 DEF AllExact
  <2>2. \A q \in Meters : stage'[q] # "down" => Exact(meter[q])'
    BY <1>1, <1>2, <1>4 DEF AllExact, MeterTypeOK
  <2>3. stored' = meter[p] \/ unsaved'[p]
    BY <1>1, <1>2 DEF MeterTypeOK
  <2> QED BY <1>4, <2>1, <2>2, <2>3 DEF AllExact
<1> QED BY <1>3, <1>5, <1>6, <1>7, <1>8 DEF MeterInv

LEMMA AbandonStep ==
    ASSUME MeterInv, NEW p \in Meters, FetchFails(p) \/ Stop(p)
    PROVE  MeterInv'
<1>1. MeterTypeOK /\ AllSound /\ FutureEmpty /\ Alone /\ AllExact /\ Allowed /\ Running /\ QuietWithinCap
  BY DEF MeterInv
<1>2. /\ UNCHANGED <<today, stored, meter, spent, spentIn, beyond, beyondIn>>
      /\ stage[p] \in {"idle", "fetching"}
      /\ told' = [told EXCEPT ![p] = 0] /\ size' = [size EXCEPT ![p] = 0]
      /\ \/ /\ stage' = [stage EXCEPT ![p] = "idle"]
            /\ UNCHANGED <<unsaved, disturbed>>
         \/ /\ stage' = [stage EXCEPT ![p] = "down"]
            /\ unsaved' = [unsaved EXCEPT ![p] = FALSE]
            /\ disturbed' = disturbed \cup {d \in {today} : unsaved[p]}
  BY DEF FetchFails, Stop, Drops, Moves, history
<1>3. received' \in [Dates -> Nat]
  <2>1. size[p] \in Nat
    BY <1>1, SizeType
  <2> QED BY <1>1, <2>1 DEF FetchFails, Stop, MeterTypeOK, history
<1>4. MeterTypeOK'
  <2>1. /\ stage' \in [Meters -> {"down", "idle", "fetching", "saving"}]
        /\ size' \in [Meters -> Sizes \cup {0}]
        /\ told' \in [Meters -> Tolds \cup {0}]
    BY <1>1, <1>2 DEF MeterTypeOK
  <2>2. \A q \in Meters : /\ size'[q] # 0 <=> stage'[q] \in {"fetching", "saving"}
                          /\ told'[q] # 0 => size'[q] # 0
    BY <1>1, <1>2 DEF MeterTypeOK
  <2>3. unsaved' \in [Meters -> BOOLEAN] /\ disturbed' \subseteq Dates
    BY <1>1, <1>2 DEF MeterTypeOK
  <2> QED BY <1>1, <1>2, <1>3, <2>1, <2>2, <2>3 DEF MeterTypeOK
<1>5. /\ disturbed \subseteq disturbed' /\ (QuietDay' => QuietDay) /\ (QuietMonth' => QuietMonth)
      /\ \A m : Sound(m)' = Sound(m) /\ (Exact(m) => Exact(m)')
  BY <1>2 DEF Sound, Exact, QuietDay, QuietMonth
<1>6. \A q \in Meters : stage'[q] = stage[q] \/ (stage'[q] \in {"idle", "down"} /\ stage[q] \in {"idle", "fetching"})
  BY <1>1, <1>2 DEF MeterTypeOK
<1>7. AllSound'
  BY <1>1, <1>2, <1>5 DEF AllSound
<1>8. FutureEmpty' /\ QuietWithinCap'
  BY <1>1, <1>2, <1>5 DEF FutureEmpty, QuietWithinCap
<1>9. Alone'
  BY <1>1, <1>5, <1>6 DEF Alone
<1>10. Allowed' /\ Running'
  BY <1>1, <1>2 DEF Allowed, Running, MeterTypeOK
<1>11. AllExact'
  <2>1. \A q \in Meters : stage'[q] # "down" => Exact(meter[q])'
    BY <1>1, <1>2, <1>5, <1>6 DEF AllExact
  <2>2. CASE unsaved[p] /\ stage'[p] = "down"
    <3>1. ~QuietDay'
      BY <1>1, <1>2, <2>2 DEF QuietDay, MeterTypeOK
    <3>2. ~QuietMonth'
      BY <1>4, <3>1, QuietMonthQuietDay DEF QuietMonth, QuietDay, DaysOf, MeterTypeOK
    <3> QED BY <2>1, <3>1, <3>2 DEF AllExact, Exact
  <2>3. CASE ~(unsaved[p] /\ stage'[p] = "down")
    <3>1. \A q \in Meters : unsaved'[q] = unsaved[q]
      BY <1>1, <1>2, <2>3 DEF MeterTypeOK
    <3> QED BY <1>1, <1>2, <1>5, <1>6, <2>1, <3>1 DEF AllExact
  <2> QED BY <2>2, <2>3
<1> QED BY <1>4, <1>7, <1>8, <1>9, <1>10, <1>11 DEF MeterInv

LEMMA KillStep ==
    ASSUME MeterInv, NEW p \in Meters, Kill(p)
    PROVE  MeterInv'
<1>1. MeterTypeOK /\ AllSound /\ FutureEmpty /\ Alone /\ AllExact /\ Allowed /\ Running /\ QuietWithinCap
  BY DEF MeterInv
<1>2. /\ UNCHANGED <<today, stored, meter, spent, spentIn, beyond, beyondIn, received>>
      /\ stage' = [stage EXCEPT ![p] = "down"] /\ unsaved' = [unsaved EXCEPT ![p] = FALSE]
      /\ told' = [told EXCEPT ![p] = 0] /\ size' = [size EXCEPT ![p] = 0]
      /\ disturbed' = disturbed \cup {today}
  BY DEF Kill, Drops, Moves, history
<1>3. MeterTypeOK'
  BY <1>1, <1>2 DEF MeterTypeOK
<1>4. ~QuietDay'
  BY <1>2 DEF QuietDay
<1>5. ~QuietMonth'
  BY <1>2, <1>3 DEF QuietMonth, DaysOf, MeterTypeOK
<1>6. AllSound'
  BY <1>1, <1>2 DEF AllSound, Sound
<1>7. FutureEmpty' /\ QuietWithinCap'
  BY <1>1, <1>2 DEF FutureEmpty, QuietWithinCap
<1>8. Alone' /\ AllExact'
  BY <1>4, <1>5 DEF Alone, AllExact, Exact
<1>9. Allowed' /\ Running'
  BY <1>1, <1>2 DEF Allowed, Running, MeterTypeOK
<1> QED BY <1>3, <1>6, <1>7, <1>8, <1>9 DEF MeterInv

LEMMA NextDayStep ==
    ASSUME MeterInv, NextDay
    PROVE  MeterInv'
<1>1. MeterTypeOK /\ AllSound /\ FutureEmpty /\ Alone /\ AllExact /\ Allowed /\ Running /\ QuietWithinCap
  BY DEF MeterInv
<1>2. /\ UNCHANGED <<stored, meter, stage, told, size, unsaved, spent, spentIn, beyond, beyondIn,
                      received>>
      /\ today < MaxDate /\ today' = today + 1
      /\ disturbed' = disturbed \cup {d \in {today'} : \E p, q \in Meters :
                                        p # q /\ stage[p] # "down" /\ stage[q] # "down"}
  BY DEF NextDay, history
<1>3. /\ today \in Nat /\ today' \in Nat /\ today \in Dates /\ today' \in Dates
      /\ MonthOf(today) \in Nat /\ MonthOf(today') \in Nat
      /\ MonthOf(today) =< MonthOf(today')
      /\ MonthOf(today) \in Months /\ MonthOf(today') \in Months
  <2>1. today \in Nat /\ today' \in Nat /\ today \in Dates /\ today' \in Dates /\ today =< today'
    BY <1>1, <1>2, BandwidthAssumption DEF MeterTypeOK, Dates
  <2> QED BY <2>1, MonthType, MonthOrder DEF Months
<1>4. MeterTypeOK'
  BY <1>1, <1>2, <1>3 DEF MeterTypeOK
<1>5. AllSound'
  <2>1. \A d \in Dates : d =< today => d =< today'
    BY <1>2, <1>3, DatesAreNat
  <2>2. \A m : Sound(m) => Sound(m)'
    BY <1>2, <2>1 DEF Sound
  <2> QED BY <1>1, <1>2, <2>2 DEF AllSound
<1>6. FutureEmpty'
  <2>1. \A d \in Dates : d > today' => d > today
    BY <1>2, <1>3, DatesAreNat
  <2>2. \A m \in Months : m > MonthOf(today') => m > MonthOf(today)
    BY <1>3, DatesAreNat
  <2> QED BY <1>1, <1>2, <2>1, <2>2 DEF FutureEmpty
<1>7. Alone'
  BY <1>1, <1>2 DEF Alone, QuietDay
<1>8. disturbed \subseteq disturbed'
  BY <1>2
<1>9. ASSUME NEW m \in Counts, Sound(m), QuietMonth => Exact(m) PROVE Exact(m)'
  <2>1. m.date # today'
    BY <1>2, <1>3, <1>9 DEF Sound, NoCounts
  <2>2. roll(m, today').day = 0 /\ spent[today'] = 0
    BY <1>1, <1>2, <1>3, <2>1, RollType DEF FutureEmpty
  <2>3. QuietMonth' => roll(m, today').month_bytes = spentIn[MonthOf(today')]
    <3>1. CASE MonthOf(today') = MonthOf(today)
      <4>1. QuietMonth' => QuietMonth
        BY <1>8, <3>1 DEF QuietMonth
      <4>2. roll(m, today').month_bytes = roll(m, today).month_bytes
        BY <1>3, <3>1, RollType
      <4> QED BY <1>9, <3>1, <4>1, <4>2 DEF Exact
    <3>2. CASE MonthOf(today') # MonthOf(today)
      <4>1. MonthOf(today') > MonthOf(today)
        BY <1>3, <3>2
      <4>2. spentIn[MonthOf(today')] = 0
        BY <1>1, <1>3, <4>1 DEF FutureEmpty
      <4>3. m.month # MonthOf(today')
        <5>1. CASE m = NoCounts
          BY <1>3, <5>1 DEF NoCounts
        <5>2. CASE m # NoCounts
          <6>1. m.date \in Nat /\ m.date =< today /\ m.month = MonthOf(m.date)
            BY <1>9, <5>2, DatesAreNat DEF Sound
          <6>2. MonthOf(m.date) =< MonthOf(today) /\ MonthOf(m.date) \in Nat
            BY <1>3, <6>1, MonthOrder, MonthType
          <6> QED BY <1>3, <4>1, <6>1, <6>2
        <5> QED BY <5>1, <5>2
      <4> QED BY <1>3, <4>2, <4>3, RollType
    <3> QED BY <3>1, <3>2
  <2> QED BY <1>2, <2>2, <2>3 DEF Exact
<1>10. AllExact'
  <2>1. ASSUME \A p \in Meters : stage[p] # "saving" /\ ~unsaved[p] PROVE Exact(stored)'
    BY <1>1, <1>2, <1>9, <2>1 DEF AllExact, AllSound, MeterTypeOK
  <2>2. ASSUME NEW p \in Meters, stage[p] # "down" PROVE Exact(meter[p])'
    BY <1>1, <1>2, <1>9, <2>2 DEF AllExact, AllSound, MeterTypeOK
  <2> QED BY <1>2, <2>1, <2>2 DEF AllExact
<1>11. Allowed' /\ Running'
  BY <1>1, <1>2 DEF Allowed, Running
<1>12. QuietWithinCap'
  BY <1>1, <1>2, <1>8 DEF QuietWithinCap
<1> QED BY <1>4, <1>5, <1>6, <1>7, <1>10, <1>11, <1>12 DEF MeterInv

-----------------------------------------------------------------------------
LEMMA Initially == MeterInit => MeterInv
<1> SUFFICES ASSUME MeterInit PROVE MeterInv
  OBVIOUS
<1>1. 0 \in Dates /\ MonthOf(0) \in Months
  BY BandwidthAssumption DEF Dates, Months
<1>2. MeterTypeOK
  BY <1>1, NoCountsType DEF MeterInit, MeterTypeOK, Torn
<1>3. AllSound
  BY DEF MeterInit, AllSound, Sound, Torn
<1>4. FutureEmpty /\ Alone /\ Allowed /\ Running
  BY DEF MeterInit, FutureEmpty, Alone, Allowed, Running
<1>5. AllExact
  <2>1. roll(NoCounts, 0).day = 0 /\ roll(NoCounts, 0).month_bytes = 0
    BY DEF roll, NoCounts
  <2>2. Exact(stored)
    BY <1>1, <2>1 DEF MeterInit, Exact, Torn
  <2> QED BY <2>2 DEF MeterInit, AllExact
<1>6. QuietWithinCap
  BY BudgetAssumption DEF MeterInit, QuietWithinCap
<1> QED BY <1>2, <1>3, <1>4, <1>5, <1>6 DEF MeterInv

LEMMA MeterInductive == MeterSpec => []MeterInv
<1>1. MeterInv /\ [MeterNext]_meterVars => MeterInv'
  <2> SUFFICES ASSUME MeterInv, [MeterNext]_meterVars PROVE MeterInv'
    OBVIOUS
  <2>1. CASE MeterNext
    BY <2>1, StartStep, AllowStep, UnaskedStep, FetchedStep, SaveStep, AbandonStep, KillStep, NextDayStep
       DEF MeterNext
  <2>2. CASE UNCHANGED meterVars
    <3>1. MeterTypeOK' = MeterTypeOK /\ QuietWithinCap' = QuietWithinCap
      BY <2>2 DEF meterVars, MeterTypeOK, QuietWithinCap
    <3>2. AllSound' = AllSound /\ FutureEmpty' = FutureEmpty /\ Alone' = Alone
      BY <2>2 DEF meterVars, AllSound, Sound, FutureEmpty, Alone, QuietDay
    <3>3. AllExact' = AllExact /\ Allowed' = Allowed /\ Running' = Running
      BY <2>2 DEF meterVars, AllExact, Exact, Allowed, Running, QuietDay, QuietMonth
    <3> QED BY <3>1, <3>2, <3>3 DEF MeterInv
  <2> QED BY <2>1, <2>2
<1> QED BY Initially, <1>1, PTL DEF MeterSpec

(* The counters stay numbers, and a process has a size exactly while it    *)
(* downloads or saves.                                                     *)
THEOREM MeterTypeCorrect == MeterSpec => []MeterTypeOK
<1>1. MeterInv => MeterTypeOK
  BY DEF MeterInv
<1> QED BY MeterInductive, <1>1, PTL

(* On every day and in every month that one process at a time used, and on *)
(* which none was killed while it wrote the counters or ended with them    *)
(* unsaved, the downloads pass the cap by no more than servers left        *)
(* untold; and no counter passes what its period really saw                *)
(* (bandwidth.py:33-61, replication.py:174-195).                           *)
THEOREM MeterSound == MeterSpec => []MeterIsSound
<1>1. MeterInv => MeterIsSound
  <2> SUFFICES ASSUME MeterInv PROVE NeverOvercounts
    BY DEF MeterInv, MeterIsSound
  <2> QED BY DEF MeterInv, AllSound, Sound, NeverOvercounts
<1> QED BY MeterInductive, <1>1, PTL
=============================================================================
