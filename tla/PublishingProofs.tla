-------------------------- MODULE PublishingProofs --------------------------
(***************************************************************************)
(* Machine-checked proofs about Publishing: no published manifest dangles, *)
(* nothing reported as published is lost and what the gateway reads it     *)
(* serves, for any publishers, clocks, directories, other tools,           *)
(* deletions, evictions, losses and crashes.                               *)
(***************************************************************************)
EXTENDS Publishing, TableProofs

-----------------------------------------------------------------------------
(* The inductive invariant. *)

PathsOf(j) == IF j.type = "site" THEN DOMAIN j.files ELSE {}

(* All that the store may be given. *)
World == signed \cup Foreign

UploadRequests ==
    [from : Publishers \cup {"nobody"}, verb : {"upload"},
     sha : Shas, pubkey : Keys, expiration : Int]

EventRequests ==
    [from : Publishers \cup {"nobody"}, verb : {"event"}, event : signed]

Types ==
    /\ clock \in 0..MaxTime
    /\ db.events \subseteq World /\ disk.events \subseteq World
    /\ files \subseteq Shas /\ DOMAIN owner \subseteq files
    /\ \A sha \in DOMAIN owner : owner[sha] \in Keys
    /\ pc \in [Publishers -> {"idle", "walk", "upload", "send"}]
    /\ DOMAIN job = Publishers /\ DOMAIN todo = Publishers /\ DOMAIN current = Publishers
    /\ requests \subseteq UploadRequests \cup EventRequests
    /\ told \subseteq signed

(* What a publisher has in hand at each step. *)
Working(p) ==
    /\ job[p] \in Jobs[p] \cup {NoJob}
    /\ pc[p] # "idle" => job[p] \in Jobs[p]
    /\ todo[p] \subseteq PathsOf(job[p])
    /\ pc[p] \in {"idle", "walk"} => current[p] = {}
    /\ pc[p] = "upload" => \E path \in PathsOf(job[p]) : current[p] = {path}
    /\ pc[p] = "send" => \E e \in signed : current[p] = {e}

(* The request that a publisher waits for, and no other, has its name.     *)
Awaited(r) ==
    r.from \in Publishers =>
        \/ /\ r.verb = "upload" /\ pc[r.from] = "upload"
           /\ \E path \in PathsOf(job[r.from]) :
                 current[r.from] = {path} /\ r.sha = job[r.from].files[path]
        \/ r.verb = "event" /\ pc[r.from] = "send" /\ current[r.from] = {r.event}

Requests ==
    /\ \A r \in requests : Awaited(r)
    /\ \A r, s \in requests : r.from = s.from /\ r.from \in Publishers => r = s

(* A blob that was uploaded: there since, unless it was taken away. *)
Kept(sha) == sha \in removed \/ Fetchable(sha)

(* The events that publishers sign: each has its id, is of a kind that     *)
(* asks for no deletion, and names files that are uploaded.                *)
ManifestKept(e) == \A path \in DOMAIN ManifestPaths(e) : Kept(ManifestPaths(e)[path])

Signed ==
    /\ \A e \in signed : /\ e.id \in 1..MaxEvents /\ e.created_at \in Int
                         /\ e.kind \in {KIND_ROOT, KIND_NAMED, KIND_LONGFORM}
                         /\ ManifestKept(e)
    /\ \A e, f \in signed : e.id = f.id => e = f

(* What a publisher has put behind it is uploaded. *)
Uploads ==
    \A p \in Publishers : pc[p] \in {"walk", "upload"} =>
        \A path \in PathsOf(job[p]) \ todo[p] : Kept(job[p].files[path])

(* What a crash takes away is an event that store() raised at. *)
Committed == \A f \in db.events : f \in disk.events \/ Spoilt(f)

IInv ==
    /\ Types /\ (\A p \in Publishers : Working(p)) /\ Requests
    /\ Signed /\ Uploads /\ Committed /\ ToldIsCovered

-----------------------------------------------------------------------------
(* A finite set as a sequence: all of it, each member once. *)
LEMMA SetAsSeq ==
    ASSUME NEW S, IsFiniteSet(S)
    PROVE  /\ SetToSeq(S) \in Seq(S)
           /\ \A i, j \in DOMAIN SetToSeq(S) : SetToSeq(S)[i] = SetToSeq(S)[j] => i = j
           /\ \A x \in S : \E i \in DOMAIN SetToSeq(S) : SetToSeq(S)[i] = x
<1> DEFINE n == Cardinality(S)
           listed == SetToSeq(S)
<1>1. n \in Nat /\ \E f \in [1..n -> S] : IsInjective(f)
  BY FS_CardinalityType DEF ExistsBijection, Bijection, Injection
<1>2. listed \in [1..n -> S] /\ IsInjective(listed)
  BY <1>1 DEF SetToSeq
<1> HIDE DEF listed
<1>3. Cardinality(1..n) = n
  <2>1. Cardinality(1..n) = IF 1 > n THEN 0 ELSE n - 1 + 1
    BY <1>1, FS_Interval
  <2> QED BY <1>1, <2>1
<1>4. listed \in Injection(1..n, S)
  BY <1>2 DEF Injection
<1>5. listed \in Surjection(1..n, S)
  BY <1>3, <1>4, FS_Injection
<1>6. listed \in Seq(S)
  BY <1>1, <1>2
<1>7. /\ \A i, j \in DOMAIN listed : listed[i] = listed[j] => i = j
      /\ \A x \in S : \E i \in DOMAIN listed : listed[i] = x
  BY <1>2, <1>5 DEF IsInjective, Surjection
<1> QED BY <1>6, <1>7 DEF listed

(* The path tags of a manifest: one per file. *)
LEMMA PathTags ==
    ASSUME NEW paths, IsFiniteSet(DOMAIN paths), NEW identifier, NEW app
    PROVE  LET tags == ManifestTags(paths, identifier, app)
               tagged == {i \in DOMAIN tags : tags[i][1] = "path"}
           IN  /\ tagged \subseteq Nat
               /\ \A i \in tagged : \E path \in DOMAIN paths : tags[i] = <<"path", path, paths[path]>>
               /\ \A i, j \in tagged : tags[i][2] = tags[j][2] => i = j
               /\ \A path \in DOMAIN paths : \E i \in tagged : tags[i] = <<"path", path, paths[path]>>
<1> DEFINE Tag(path) == <<"path", path, paths[path]>>
           T == {Tag(path) : path \in DOMAIN paths}
           d == IF identifier = "" THEN <<>> ELSE << <<"d", identifier>> >>
           a == IF app = "" THEN <<>> ELSE << <<"app", app>> >>
           listed == SetToSeq(T)
           tags == ManifestTags(paths, identifier, app)
           before == Len(d) + Len(a)
<1>1. IsFiniteSet(T)
  <2>1. [path \in DOMAIN paths |-> Tag(path)] \in Surjection(DOMAIN paths, T)
    BY DEF Surjection
  <2> QED BY <2>1, FS_Surjection
<1>2. /\ listed \in Seq(T)
      /\ \A i, j \in DOMAIN listed : listed[i] = listed[j] => i = j
      /\ \A x \in T : \E i \in DOMAIN listed : listed[i] = x
  BY <1>1, SetAsSeq
<1>3. tags = d \o a \o listed
  BY DEF ManifestTags
<1>4. d \in Seq({<<"d", identifier>>}) /\ a \in Seq({<<"app", app>>})
  <2>1. \A X, x : x \in X => <<x>> \in Seq(X) /\ <<>> \in Seq(X)
    OBVIOUS
  <2> QED BY <2>1
<1>5. \A t \in T : t[1] = "path" /\ \A u \in T : t[2] = u[2] => t = u
  OBVIOUS
<1>6. \A path \in DOMAIN paths : Tag(path) \in T
  OBVIOUS
<1>7. \A t \in T : \E path \in DOMAIN paths : t = Tag(path)
  OBVIOUS
<1> HIDE DEF d, a, listed, tags, T
<1>8. /\ DOMAIN tags = 1..(before + Len(listed))
      /\ \A i \in 1..before : tags[i][1] # "path"
      /\ \A i \in 1..Len(listed) : tags[before + i] = listed[i]
  <2> DEFINE Z == {<<"d", identifier>>, <<"app", app>>}
  <2>1. d \in Seq(Z) /\ a \in Seq(Z) /\ \A z \in Z : z[1] # "path"
    <3>1. \A X, Y, s : X \subseteq Y /\ s \in Seq(X) => s \in Seq(Y)
      OBVIOUS
    <3>2. {<<"d", identifier>>} \subseteq Z /\ {<<"app", app>>} \subseteq Z
      OBVIOUS
    <3>3. \A z \in Z : z[1] # "path"
      OBVIOUS
    <3> QED BY <1>4, <3>1, <3>2, <3>3
  <2> HIDE DEF Z
  <2>2. d \o a \in Seq(Z) /\ Len(d \o a) = before /\ before \in Nat
    BY <2>1
  <2>3. \A i \in 1..before : (d \o a)[i][1] # "path"
    BY <2>1, <2>2
  <2>4. Len(listed) \in Nat /\ DOMAIN (d \o a) = 1..before /\ DOMAIN listed = 1..Len(listed)
    BY <1>2, <2>2
  <2>5. /\ DOMAIN tags = 1..(before + Len(listed))
        /\ \A i \in 1..before : tags[i] = (d \o a)[i]
        /\ \A i \in 1..Len(listed) : tags[before + i] = listed[i]
    BY <1>2, <1>3, <2>2, <2>4
  <2> QED BY <2>3, <2>5
<1>9. /\ DOMAIN listed = 1..Len(listed) /\ Len(listed) \in Nat
      /\ before \in Nat /\ \A i \in 1..Len(listed) : listed[i] \in T
  BY <1>2, <1>4
<1>10. \A i \in DOMAIN tags : tags[i][1] = "path" =>
          i - before \in 1..Len(listed) /\ tags[i] = listed[i - before]
  <2> SUFFICES ASSUME NEW i \in DOMAIN tags, tags[i][1] = "path"
               PROVE  i - before \in 1..Len(listed) /\ tags[i] = listed[i - before]
    OBVIOUS
  <2>1. i \in 1..(before + Len(listed)) /\ i \notin 1..before
    BY <1>8
  <2>2. i - before \in 1..Len(listed) /\ before + (i - before) = i
    BY <1>9, <2>1
  <2> QED BY <1>8, <2>2
<1>11. ASSUME NEW i \in DOMAIN tags, tags[i][1] = "path"
       PROVE  \E path \in DOMAIN paths : tags[i] = Tag(path)
  BY <1>7, <1>9, <1>10, <1>11
<1>12. ASSUME NEW i \in DOMAIN tags, NEW j \in DOMAIN tags,
              tags[i][1] = "path", tags[j][1] = "path", tags[i][2] = tags[j][2]
       PROVE  i = j
  <2>1. listed[i - before] = listed[j - before]
    BY <1>5, <1>9, <1>10, <1>12
  <2>2. i - before = j - before /\ i \in Int /\ j \in Int
    BY <1>2, <1>8, <1>9, <1>10, <1>12, <2>1
  <2> QED BY <1>9, <2>2
<1>13. ASSUME NEW path \in DOMAIN paths
       PROVE  \E i \in DOMAIN tags : tags[i][1] = "path" /\ tags[i] = Tag(path)
  <2>1. PICK i \in 1..Len(listed) : listed[i] = Tag(path)
    BY <1>2, <1>6, <1>9
  <2>2. before + i \in DOMAIN tags /\ tags[before + i] = Tag(path)
    BY <1>8, <1>9, <2>1
  <2> QED BY <2>2
<1> QED BY <1>8, <1>9, <1>11, <1>12, <1>13 DEF tags

(* The event's tags name these files under these paths, and no others. *)
Names(e, paths) ==
    /\ DOMAIN ManifestPaths(e) = DOMAIN paths
    /\ \A path \in DOMAIN paths : ManifestPaths(e)[path] = paths[path]

(* parse_manifest reads what build_manifest_tags wrote: the same files     *)
(* under the same paths, whatever the order of the tags.                   *)
THEOREM ManifestRoundTrip ==
    ASSUME NEW paths, IsFiniteSet(DOMAIN paths), NEW identifier, NEW app,
           NEW e, e.tags = ManifestTags(paths, identifier, app)
    PROVE  Names(e, paths)
<1> DEFINE tags == e.tags
           tagged == {i \in DOMAIN tags : tags[i][1] = "path"}
           last(path) == CHOOSE i \in tagged :
                            /\ tags[i][2] = path
                            /\ \A j \in tagged : tags[j][2] = path => j =< i
<1>1. /\ tagged \subseteq Nat
      /\ \A i \in tagged : \E path \in DOMAIN paths : tags[i] = <<"path", path, paths[path]>>
      /\ \A i, j \in tagged : tags[i][2] = tags[j][2] => i = j
      /\ \A path \in DOMAIN paths : \E i \in tagged : tags[i] = <<"path", path, paths[path]>>
  BY PathTags
<1>2. ManifestPaths(e) = [path \in {tags[i][2] : i \in tagged} |-> tags[last(path)][3]]
  BY DEF ManifestPaths
<1> HIDE DEF tagged, tags
<1>3. {tags[i][2] : i \in tagged} = DOMAIN paths
  BY <1>1
<1>4. ASSUME NEW path \in DOMAIN paths
      PROVE  tags[last(path)][3] = paths[path]
  <2>1. PICK i \in tagged : tags[i] = <<"path", path, paths[path]>>
    BY <1>1
  <2>2. \A j \in tagged : tags[j][2] = path => j = i
    BY <1>1, <2>1
  <2>3. i =< i
    BY <1>1
  <2>4. /\ tags[i][2] = path
        /\ \A j \in tagged : tags[j][2] = path => j =< i
        /\ \A k \in tagged : tags[k][2] = path => k = i
    BY <2>1, <2>2, <2>3
  <2>5. \E k \in tagged : tags[k][2] = path /\ \A j \in tagged : tags[j][2] = path => j =< k
    BY <2>4
  <2>6. last(path) \in tagged /\ tags[last(path)][2] = path
    BY <2>5
  <2> HIDE DEF last
  <2>7. last(path) = i
    BY <2>4, <2>6
  <2> QED BY <2>1, <2>7
<1> QED BY <1>2, <1>3, <1>4 DEF Names

-----------------------------------------------------------------------------
(* What is signed when nothing is left to upload. *)
LEMMA SignedNames ==
    ASSUME IInv, NEW p \in Publishers, pc[p] = "walk", todo[p] = {},
           NEW e, e.tags = EventOf(job[p]).tags
    PROVE  ManifestKept(e)
<1>1. job[p] \in Jobs[p] /\ job[p].type \in {"site", "blog", "post"}
  BY PublishingAssumption DEF IInv, Working
<1>2. CASE job[p].type = "site"
  <2>0. PICK paths, identifier : paths = job[p].files /\ identifier = job[p].identifier
    OBVIOUS
  <2>1. e.tags = ManifestTags(paths, identifier, "")
    BY <1>2, <2>0 DEF EventOf
  <2>2. IsFiniteSet(DOMAIN paths)
    BY <1>1, <1>2, <2>0, PublishingAssumption
  <2>3. \A path \in DOMAIN paths : Kept(paths[path])
    BY <1>2, <2>0 DEF IInv, Uploads, PathsOf
  <2>4. Names(e, paths)
    BY <2>1, <2>2, ManifestRoundTrip
  <2> QED BY <2>3, <2>4 DEF ManifestKept, Names
<1>3. CASE job[p].type = "blog"
  <2> DEFINE nothing == [x \in {} |-> ""]
  <2>1. e.tags = ManifestTags(nothing, job[p].identifier, "blog")
    BY <1>3 DEF EventOf
  <2>2. DOMAIN nothing = {} /\ IsFiniteSet(DOMAIN nothing)
    BY FS_EmptySet
  <2> HIDE DEF nothing
  <2>3. Names(e, nothing)
    BY <2>1, <2>2, ManifestRoundTrip
  <2> QED BY <2>2, <2>3 DEF ManifestKept, Names
<1>4. CASE job[p].type = "post"
  <2>1. e.tags = << <<"d", job[p].slug>> >>
    BY <1>4 DEF EventOf
  <2>2. {i \in DOMAIN e.tags : e.tags[i][1] = "path"} = {}
    BY <2>1
  <2>3. DOMAIN ManifestPaths(e) = {}
    BY <2>2 DEF ManifestPaths
  <2> QED BY <2>3 DEF ManifestKept
<1> QED BY <1>1, <1>2, <1>3, <1>4

LEMMA SignedKind ==
    ASSUME NEW j, j.type \in {"site", "blog", "post"}
    PROVE  EventOf(j).kind \in {KIND_ROOT, KIND_NAMED, KIND_LONGFORM}
BY DEF EventOf, ManifestKind

-----------------------------------------------------------------------------
(* The files and rows.  Whatever the node does, a blob that was uploaded   *)
(* can be fetched until it is taken away.                                  *)
LEMMA KeptStep ==
    ASSUME Types, [Next]_vars, NEW sha, Kept(sha)
    PROVE  Kept(sha)'
<1>1. ASSUME NEW r \in requests, HandleUpload(r) PROVE Kept(sha)'
  <2>1. /\ files' = files \cup {r.sha} /\ DOMAIN owner' = DOMAIN owner \cup {r.sha}
        /\ removed' = removed \ {r.sha}
    BY <1>1 DEF HandleUpload
  <2> QED BY <2>1 DEF Kept, Fetchable
<1>2. ASSUME NEW b \in DOMAIN owner,
             files' = files \ {b} \/ files' = files, DOMAIN owner' = DOMAIN owner \ {b},
             removed' = removed \cup {b}
      PROVE  Kept(sha)'
  BY <1>2 DEF Kept, Fetchable
<1>3. CASE UNCHANGED <<files, owner, removed>>
  BY <1>3 DEF Kept, Fetchable
<1>4. ASSUME NEW b \in Deletable, NEW u \in Keys, DeleteBlob(u, b) PROVE Kept(sha)'
  BY <1>2, <1>4 DEF DeleteBlob, Without
<1>5. ASSUME NEW b \in Evictable, Evict(b) PROVE Kept(sha)'
  BY <1>2, <1>5 DEF Evict, Without
<1>6. CASE Crash
  <2>1. CASE \E r \in requests : files' = files \cup {r.sha} /\ UNCHANGED <<owner, removed>>
    BY <2>1 DEF Kept, Fetchable
  <2>2. CASE \E b \in DOMAIN owner : /\ owner' = Without(b) /\ removed' = removed \cup {b}
                                    /\ UNCHANGED files
    BY <1>2, <2>2 DEF Without
  <2> QED BY <1>3, <1>6, <2>1, <2>2 DEF Crash
<1>7. ASSUME NEW p \in Publishers, Command(p) PROVE Kept(sha)'
  BY <1>3, <1>7 DEF Command, Begin, Upload, SignAndSend, GiveUp, node
<1>8. ASSUME NEW r \in requests, RefuseUpload(r) \/ HandleEvent(r) \/ RefuseEvent(r)
      PROVE  Kept(sha)'
  BY <1>3, <1>8 DEF RefuseUpload, HandleEvent, RefuseEvent, node
<1>9. ASSUME NEW e \in Foreign, Another(e) PROVE Kept(sha)'
  BY <1>3, <1>9 DEF Another
<1>10. CASE Tick \/ UNCHANGED vars
  BY <1>3, <1>10 DEF Tick, vars, node
<1> QED BY <1>1, <1>4, <1>5, <1>6, <1>7, <1>8, <1>9, <1>10 DEF Next, Handle

LEMMA FilesStep ==
    ASSUME Types, [Next]_vars
    PROVE  /\ files' \subseteq Shas /\ DOMAIN owner' \subseteq files'
           /\ \A sha \in DOMAIN owner' : owner'[sha] \in Keys
<1> DEFINE Goal == /\ files' \subseteq Shas /\ DOMAIN owner' \subseteq files'
                   /\ \A sha \in DOMAIN owner' : owner'[sha] \in Keys
<1>1. CASE UNCHANGED <<files, owner>>
  BY <1>1 DEF Types
<1>2. ASSUME NEW r \in requests, r.verb = "upload" PROVE r.sha \in Shas /\ r.pubkey \in Keys
  BY <1>2 DEF Types, UploadRequests, EventRequests
<1>3. ASSUME NEW r \in requests, HandleUpload(r) PROVE Goal
  <2>1. r.verb = "upload" /\ files' = files \cup {r.sha}
        /\ owner' = [sha \in DOMAIN owner \cup {r.sha} |->
                       IF sha \in DOMAIN owner THEN owner[sha] ELSE r.pubkey]
    BY <1>3 DEF HandleUpload
  <2> QED BY <1>2, <2>1 DEF Types
<1>4. ASSUME NEW b \in DOMAIN owner, files' = files \ {b} \/ files' = files, owner' = Without(b)
      PROVE  Goal
  BY <1>4 DEF Types, Without
<1>5. ASSUME NEW b \in Deletable, NEW u \in Keys, DeleteBlob(u, b) PROVE Goal
  BY <1>4, <1>5 DEF DeleteBlob
<1>6. ASSUME NEW b \in Evictable, Evict(b) PROVE Goal
  BY <1>4, <1>6 DEF Evict
<1>7. CASE Crash
  <2>1. CASE \E r \in requests : r.verb = "upload" /\ files' = files \cup {r.sha} /\ UNCHANGED owner
    BY <1>2, <2>1 DEF Types
  <2>2. CASE \E b \in DOMAIN owner : owner' = Without(b) /\ UNCHANGED files
    BY <1>4, <2>2
  <2> QED BY <1>1, <1>7, <2>1, <2>2 DEF Crash
<1>8. ASSUME NEW p \in Publishers, Command(p) PROVE Goal
  BY <1>1, <1>8 DEF Command, Begin, Upload, SignAndSend, GiveUp, node
<1>9. ASSUME NEW r \in requests, RefuseUpload(r) \/ HandleEvent(r) \/ RefuseEvent(r) PROVE Goal
  BY <1>1, <1>9 DEF RefuseUpload, HandleEvent, RefuseEvent, node
<1>10. ASSUME NEW e \in Foreign, Another(e) PROVE Goal
  BY <1>1, <1>10 DEF Another
<1>11. CASE Tick \/ UNCHANGED vars
  BY <1>1, <1>11 DEF Tick, vars, node
<1> QED BY <1>3, <1>5, <1>6, <1>7, <1>8, <1>9, <1>10, <1>11 DEF Next, Handle

-----------------------------------------------------------------------------
(* The publishers, and the requests they wait for. *)
Hands ==
    /\ pc \in [Publishers -> {"idle", "walk", "upload", "send"}]
    /\ DOMAIN job = Publishers /\ DOMAIN todo = Publishers /\ DOMAIN current = Publishers
    /\ requests \subseteq UploadRequests \cup EventRequests
    /\ told \subseteq signed
    /\ \A p \in Publishers : Working(p)
    /\ Requests

Same(q) ==
    pc'[q] = pc[q] /\ job'[q] = job[q] /\ todo'[q] = todo[q] /\ current'[q] = current[q]

Aside(p) == \A q \in Publishers \ {p} : Same(q)

LEMMA OthersWork ==
    ASSUME Hands, signed \subseteq signed', NEW q \in Publishers, Same(q)
    PROVE  Working(q)'
BY DEF Hands, Same, Working

LEMMA OthersWait ==
    ASSUME Hands, NEW r \in requests, r.from \in Publishers => Same(r.from)
    PROVE  Awaited(r)'
BY DEF Hands, Requests, Same, Awaited

(* One publisher moves on; what of the requests has its name is what it    *)
(* now waits for.                                                          *)
LEMMA Moves ==
    ASSUME Hands, NEW p \in Publishers, Aside(p), signed \subseteq signed', Working(p)',
           \A r \in requests' : /\ r.from = p => Awaited(r)'
                                /\ r.from \in Publishers \ {p} => r \in requests,
           \A r, s \in requests' : r.from = p /\ s.from = p => r = s
    PROVE  (\A q \in Publishers : Working(q)') /\ Requests'
<1>1. \A q \in Publishers : Working(q)'
  BY OthersWork DEF Aside
<1>2. ASSUME NEW r \in requests' PROVE Awaited(r)'
  <2>1. CASE r.from \in Publishers \ {p}
    BY <1>2, <2>1, OthersWait DEF Aside
  <2>2. CASE r.from \notin Publishers
    BY <2>2 DEF Awaited
  <2>3. CASE r.from = p
    BY <1>2, <2>3
  <2> QED BY <2>1, <2>2, <2>3
<1>3. ASSUME NEW r \in requests', NEW s \in requests', r.from = s.from, r.from \in Publishers
      PROVE  r = s
  BY <1>3 DEF Hands, Requests
<1> QED BY <1>1, <1>2, <1>3 DEF Requests

(* The requests of the others are those there are. *)
LEMMA NothingAwaited ==
    ASSUME Hands, NEW p \in Publishers, pc[p] \in {"idle", "walk"}, NEW r \in requests
    PROVE  r.from # p
BY DEF Hands, Requests, Awaited

LEMMA BeginHands ==
    ASSUME Hands, NEW p \in Publishers, NEW j \in Jobs[p], Begin(p, j)
    PROVE  Hands'
<1>1. /\ pc[p] = "idle" /\ pc' = [pc EXCEPT ![p] = "walk"] /\ job' = [job EXCEPT ![p] = j]
      /\ todo' = [todo EXCEPT ![p] = PathsOf(j)]
      /\ UNCHANGED <<current, requests, signed, told>>
  BY DEF Begin, PathsOf
<1>2. Aside(p) /\ pc'[p] = "walk" /\ job'[p] = j /\ todo'[p] = PathsOf(j) /\ current'[p] = {}
  BY <1>1 DEF Hands, Aside, Same, Working
<1>3. Working(p)'
  BY <1>2 DEF Working
<1>4. \A r \in requests' : r.from # p /\ r \in requests
  BY <1>1, NothingAwaited
<1>5. (\A q \in Publishers : Working(q)') /\ Requests'
  BY <1>1, <1>2, <1>3, <1>4, Moves
<1> QED BY <1>1, <1>5 DEF Hands, UploadRequests, EventRequests

LEMMA UploadHands ==
    ASSUME Hands, clock \in Int, NEW p \in Publishers, NEW path \in todo[p], Upload(p, path)
    PROVE  Hands'
<1>0. PICK new : new = [from |-> p, verb |-> "upload", sha |-> job[p].files[path],
                        pubkey |-> Author[p], expiration |-> Now(p) + Ttl]
  OBVIOUS
<1>1. /\ pc[p] = "walk" /\ pc' = [pc EXCEPT ![p] = "upload"]
      /\ current' = [current EXCEPT ![p] = {path}]
      /\ requests' = requests \cup {new} /\ UNCHANGED <<job, todo, signed, told>>
  BY <1>0 DEF Upload
<1>2. /\ Aside(p) /\ pc'[p] = "upload" /\ job'[p] = job[p] /\ todo'[p] = todo[p]
      /\ current'[p] = {path}
  BY <1>1 DEF Hands, Aside, Same
<1>3. job[p] \in Jobs[p] /\ path \in PathsOf(job[p]) /\ Working(p)
  BY <1>1 DEF Hands, Working
<1>4. Working(p)'
  BY <1>2, <1>3 DEF Working
<1>5. new \in UploadRequests
  <2>1. job[p].type = "site" /\ path \in DOMAIN job[p].files
    BY <1>3 DEF PathsOf
  <2>2. job[p].files[path] \in Shas
    BY <1>3, <2>1 DEF Shas, AllJobs
  <2>3. Author[p] \in Keys /\ Now(p) + Ttl \in Int
    BY PublishingAssumption DEF Keys, Now
  <2> QED BY <1>0, <2>2, <2>3 DEF UploadRequests
<1>6. new.from = p /\ Awaited(new)'
  <2>1. new.from = p /\ new.verb = "upload" /\ new.sha = job[p].files[path]
    BY <1>0
  <2> QED BY <1>2, <1>3, <2>1 DEF Awaited
<1>7. \A r \in requests : r.from # p
  BY <1>1, NothingAwaited
<1>8. (\A q \in Publishers : Working(q)') /\ Requests'
  BY <1>1, <1>2, <1>4, <1>6, <1>7, Moves
<1>9. requests' \subseteq (UploadRequests \cup EventRequests)'
  BY <1>1, <1>5 DEF Hands, UploadRequests, EventRequests
<1> QED BY <1>1, <1>8, <1>9 DEF Hands

LEMMA SignHands ==
    ASSUME Hands, NEW p \in Publishers, NEW i \in 1..MaxEvents, SignAndSend(p, i)
    PROVE  Hands'
<1>0. PICK e : e = [id |-> i, pubkey |-> Author[p], created_at |-> Now(p),
                    kind |-> EventOf(job[p]).kind, tags |-> EventOf(job[p]).tags]
  OBVIOUS
<1> DEFINE new == [from |-> p, verb |-> "event", event |-> e]
<1>1. /\ pc[p] = "walk" /\ pc' = [pc EXCEPT ![p] = "send"]
      /\ current' = [current EXCEPT ![p] = {e}] /\ signed' = signed \cup {e}
      /\ requests' = requests \cup {new} /\ UNCHANGED <<job, todo, told>>
  BY <1>0 DEF SignAndSend
<1>2. /\ Aside(p) /\ pc'[p] = "send" /\ job'[p] = job[p] /\ todo'[p] = todo[p]
      /\ current'[p] = {e}
  BY <1>1 DEF Hands, Aside, Same
<1>3. job[p] \in Jobs[p] /\ Working(p)
  BY <1>1 DEF Hands, Working
<1>4. Working(p)'
  BY <1>1, <1>2, <1>3 DEF Working
<1>5. new \in EventRequests' /\ new.from = p /\ Awaited(new)'
  <2>1. new.from = p /\ new.verb = "event" /\ new.event = e
    OBVIOUS
  <2>2. e \in signed'
    BY <1>1
  <2>3. new \in EventRequests'
    BY <2>2 DEF EventRequests
  <2> HIDE DEF new
  <2>4. Awaited(new)'
    BY <1>2, <2>1 DEF Awaited
  <2> QED BY <2>1, <2>3, <2>4
<1> HIDE DEF new
<1>6. \A r \in requests : r.from # p
  BY <1>1, NothingAwaited
<1>7. (\A q \in Publishers : Working(q)') /\ Requests'
  BY <1>1, <1>2, <1>4, <1>5, <1>6, Moves
<1>8. requests' \subseteq (UploadRequests \cup EventRequests)'
  BY <1>1, <1>5 DEF Hands, UploadRequests, EventRequests
<1> QED BY <1>1, <1>7, <1>8 DEF Hands

(* The command is over, whatever becomes of its request. *)
LEMMA StopsHands ==
    ASSUME Hands, NEW p \in Publishers, Stops(p), signed' = signed,
           requests' \subseteq UploadRequests \cup EventRequests, told' \subseteq signed,
           \A r \in requests' : r.from # p /\ (r.from \in Publishers => r \in requests)
    PROVE  Hands'
<1>1. /\ Aside(p) /\ pc'[p] = "idle" /\ job'[p] = NoJob /\ todo'[p] = {} /\ current'[p] = {}
  BY DEF Hands, Stops, Aside, Same
<1>2. Working(p)'
  BY <1>1 DEF Working
<1>3. (\A q \in Publishers : Working(q)') /\ Requests'
  BY <1>1, <1>2, Moves
<1> QED BY <1>3 DEF Hands, Stops, UploadRequests, EventRequests

LEMMA GiveUpHands ==
    ASSUME Hands, NEW p \in Publishers, GiveUp(p)
    PROVE  Hands'
<1>1. Stops(p) /\ requests' = Orphaned(p) /\ UNCHANGED <<signed, told>>
  BY DEF GiveUp
<1>2. ASSUME NEW r \in requests
      PROVE  LET s == [r EXCEPT !.from = IF @ = p THEN "nobody" ELSE @]
             IN  /\ s \in UploadRequests \cup EventRequests /\ s.from # p
                 /\ s.from \in Publishers => s = r
  <2>1. r \in UploadRequests \/ r \in EventRequests
    BY DEF Hands
  <2> QED BY <2>1, PublishingAssumption DEF UploadRequests, EventRequests
<1>3. /\ requests' \subseteq UploadRequests \cup EventRequests
      /\ \A r \in requests' : r.from # p /\ (r.from \in Publishers => r \in requests)
  BY <1>1, <1>2 DEF Orphaned
<1> QED BY <1>1, <1>3, StopsHands DEF Hands

(* A request is handled; its publisher learns of it, or goes on waiting. *)
LEMMA UnheardHands ==
    ASSUME Hands, UNCHANGED <<pc, job, todo, current, signed, told>>, requests' \subseteq requests
    PROVE  Hands'
<1>1. \A p \in Publishers : Same(p)
  BY DEF Same
<1>2. \A p \in Publishers : Working(p)'
  BY <1>1, OthersWork
<1>3. ASSUME NEW r \in requests' PROVE Awaited(r)'
  BY <1>1, OthersWait
<1>4. Requests'
  BY <1>3 DEF Hands, Requests
<1> QED BY <1>2, <1>4 DEF Hands, UploadRequests, EventRequests

LEMMA AnswerHands ==
    ASSUME Hands, NEW r \in requests, Handled(r),
           \/ NotReached
           \/ r.verb = "upload" /\ r.from \in Publishers /\ Uploaded(r.from)
           \/ r.verb = "event" /\ r.from \in Publishers /\ Published(r.from)
           \/ r.from \in Publishers /\ Rejected(r.from)
    PROVE  Hands'
<1>1. requests' = requests \ {r} /\ UNCHANGED signed
  BY DEF Handled
<1>2. CASE NotReached
  BY <1>1, <1>2, UnheardHands DEF NotReached, publisher
<1>3. ASSUME NEW p \in Publishers, r.from = p
      PROVE  /\ Awaited(r) /\ Working(p)
             /\ \A s \in requests' : s \in requests /\ s.from # p
  BY <1>1, <1>3 DEF Hands, Requests
<1>4. CASE r.verb = "upload" /\ r.from \in Publishers /\ Uploaded(r.from)
  <2>1. PICK p \in Publishers : p = r.from
    BY <1>4
  <2>2. /\ pc' = [pc EXCEPT ![p] = "walk"] /\ todo' = [todo EXCEPT ![p] = todo[p] \ current[p]]
        /\ current' = [current EXCEPT ![p] = {}] /\ UNCHANGED <<job, told>>
    BY <1>4, <2>1 DEF Uploaded
  <2>3. /\ Aside(p) /\ pc'[p] = "walk" /\ job'[p] = job[p]
        /\ todo'[p] \subseteq todo[p] /\ current'[p] = {}
    BY <2>2 DEF Hands, Aside, Same
  <2>4. Working(p)'
    <3>1. pc[p] = "upload"
      BY <1>3, <1>4, <2>1 DEF Awaited
    <3> QED BY <1>3, <2>1, <2>3, <3>1 DEF Working
  <2>5. (\A q \in Publishers : Working(q)') /\ Requests'
    BY <1>1, <1>3, <2>1, <2>3, <2>4, Moves
  <2> QED BY <1>1, <2>2, <2>5 DEF Hands, UploadRequests, EventRequests
<1>5. CASE r.verb = "event" /\ r.from \in Publishers /\ Published(r.from)
  <2>1. PICK p \in Publishers : p = r.from
    BY <1>5
  <2>2. Stops(p) /\ told' = told \cup current[p]
    BY <1>5, <2>1 DEF Published
  <2>3. current[p] \subseteq signed
    BY <1>3, <1>5, <2>1 DEF Awaited, Working
  <2>4. told' \subseteq signed
    BY <2>2, <2>3 DEF Hands
  <2> QED BY <1>1, <1>3, <2>1, <2>2, <2>4, StopsHands DEF Hands
<1>6. CASE r.from \in Publishers /\ Rejected(r.from)
  <2>1. PICK p \in Publishers : p = r.from
    BY <1>6
  <2>2. Stops(p) /\ told' = told
    BY <1>6, <2>1 DEF Rejected
  <2>3. told' \subseteq signed
    BY <2>2 DEF Hands
  <2> QED BY <1>1, <1>3, <2>1, <2>2, <2>3, StopsHands DEF Hands
<1> QED BY <1>2, <1>4, <1>5, <1>6

LEMMA HandsStep ==
    ASSUME Hands, clock \in Int, [Next]_vars
    PROVE  Hands'
<1>1. ASSUME NEW p \in Publishers, Command(p) PROVE Hands'
  BY <1>1, BeginHands, UploadHands, SignHands, GiveUpHands DEF Command
<1>2. ASSUME NEW r \in requests, Handle(r) PROVE Hands'
  BY <1>2, AnswerHands DEF Handle, HandleUpload, RefuseUpload, HandleEvent, RefuseEvent
<1>3. CASE UNCHANGED <<pc, job, todo, current, signed, told>> /\ requests' \subseteq requests
  BY <1>3, UnheardHands
<1>4. ASSUME NEW b \in Deletable, NEW u \in Keys, DeleteBlob(u, b) PROVE Hands'
  BY <1>3, <1>4 DEF DeleteBlob, publisher
<1>5. ASSUME NEW b \in Evictable, Evict(b) PROVE Hands'
  BY <1>3, <1>5 DEF Evict, publisher
<1>6. ASSUME NEW e \in Foreign, Another(e) PROVE Hands'
  BY <1>3, <1>6 DEF Another, publisher
<1>7. CASE Crash
  BY <1>3, <1>7 DEF Crash, publisher
<1>8. CASE Tick \/ UNCHANGED vars
  BY <1>3, <1>8 DEF Tick, vars, publisher
<1> QED BY <1>1, <1>2, <1>4, <1>5, <1>6, <1>7, <1>8 DEF Next

-----------------------------------------------------------------------------
(* Signing. *)
LEMMA SignedOnlyBy ==
    ASSUME [Next]_vars, signed' # signed
    PROVE  \E p \in Publishers : \E i \in 1..MaxEvents : SignAndSend(p, i)
<1> USE DEF Handled
<1>1. ASSUME NEW p \in Publishers, Command(p)
      PROVE  \E i \in 1..MaxEvents : SignAndSend(p, i)
  BY <1>1 DEF Command, Begin, Upload, GiveUp
<1>2. ASSUME NEW r \in requests, Handle(r) PROVE FALSE
  BY <1>2 DEF Handle, HandleUpload, RefuseUpload, HandleEvent, RefuseEvent
<1>3. ASSUME NEW b \in Deletable, NEW u \in Keys, DeleteBlob(u, b) PROVE FALSE
  BY <1>3 DEF DeleteBlob
<1>4. ASSUME NEW b \in Evictable, Evict(b) PROVE FALSE
  BY <1>4 DEF Evict
<1>5. ASSUME NEW e \in Foreign, Another(e) PROVE FALSE
  BY <1>5 DEF Another
<1>6. CASE Crash \/ Tick \/ UNCHANGED vars
  BY <1>6 DEF Crash, Tick, vars
<1> QED BY <1>1, <1>2, <1>3, <1>4, <1>5, <1>6 DEF Next

LEMMA ManifestKeptStep ==
    ASSUME Types, [Next]_vars, NEW e, ManifestKept(e)
    PROVE  ManifestKept(e)'
BY KeptStep DEF ManifestKept

LEMMA SignedStep ==
    ASSUME IInv, [Next]_vars
    PROVE  Signed'
<1>1. Types /\ Signed /\ clock \in Int
  BY PublishingAssumption DEF IInv, Types
<1>2. CASE signed' = signed
  BY <1>1, <1>2, ManifestKeptStep DEF Signed
<1>3. ASSUME NEW p \in Publishers, NEW i \in 1..MaxEvents, SignAndSend(p, i) PROVE Signed'
  <2>0. PICK e : e = [id |-> i, pubkey |-> Author[p], created_at |-> Now(p),
                      kind |-> EventOf(job[p]).kind, tags |-> EventOf(job[p]).tags]
    OBVIOUS
  <2>1. /\ pc[p] = "walk" /\ todo[p] = {} /\ signed' = signed \cup {e}
        /\ \A f \in signed : f.id # i
    BY <1>3, <2>0 DEF SignAndSend
  <2>2. e.id = i /\ e.created_at = Now(p) /\ e.kind = EventOf(job[p]).kind /\ e.tags = EventOf(job[p]).tags
    BY <2>0
  <2>3. e.created_at \in Int
    BY <1>1, <2>2, PublishingAssumption DEF Now
  <2>4. job[p].type \in {"site", "blog", "post"}
    BY <2>1, PublishingAssumption DEF IInv, Working
  <2>5. e.kind \in {KIND_ROOT, KIND_NAMED, KIND_LONGFORM}
    BY <2>2, <2>4, SignedKind
  <2>6. ManifestKept(e)
    BY <2>1, <2>2, SignedNames
  <2>7. \A f \in signed' : ManifestKept(f)'
    BY <1>1, <2>1, <2>6, ManifestKeptStep DEF Signed
  <2> QED BY <1>1, <2>1, <2>2, <2>3, <2>5, <2>7 DEF Signed
<1> QED BY <1>2, <1>3, SignedOnlyBy

-----------------------------------------------------------------------------
(* Uploading. *)
LEMMA UploadsMove ==
    ASSUME IInv, [Next]_vars, NEW p \in Publishers, Aside(p),
           pc'[p] \in {"walk", "upload"} =>
               \A path \in PathsOf(job'[p]) \ todo'[p] : Kept(job[p].files[path])'
    PROVE  Uploads'
<1> SUFFICES ASSUME NEW q \in Publishers, pc'[q] \in {"walk", "upload"},
                    NEW path \in PathsOf(job'[q]) \ todo'[q]
             PROVE  Kept(job[q].files[path])'
  BY DEF Uploads
<1>1. CASE q = p
  BY <1>1
<1>2. CASE q # p
  <2>1. pc[q] \in {"walk", "upload"} /\ path \in PathsOf(job[q]) \ todo[q] /\ job'[q] = job[q]
    BY <1>2 DEF Aside, Same
  <2>2. PICK sha : sha = job[q].files[path]
    OBVIOUS
  <2>3. Kept(sha)
    BY <2>1, <2>2 DEF IInv, Uploads
  <2>4. Kept(sha)'
    BY <2>3, KeptStep DEF IInv
  <2> QED BY <2>1, <2>2, <2>4 DEF Kept, Fetchable
<1> QED BY <1>1, <1>2

LEMMA UploadsStay ==
    ASSUME IInv, [Next]_vars, UNCHANGED <<pc, job, todo, current>>
    PROVE  Uploads'
<1> SUFFICES ASSUME NEW q \in Publishers, pc[q] \in {"walk", "upload"},
                    NEW path \in PathsOf(job[q]) \ todo[q]
             PROVE  Kept(job[q].files[path])'
  BY DEF Uploads
<1>1. PICK sha : sha = job[q].files[path]
  OBVIOUS
<1>2. Kept(sha)
  BY <1>1 DEF IInv, Uploads
<1>3. Kept(sha)'
  BY <1>2, KeptStep DEF IInv
<1> QED BY <1>1, <1>3 DEF Kept, Fetchable

LEMMA UploadsStop ==
    ASSUME IInv, [Next]_vars, NEW p \in Publishers, Stops(p)
    PROVE  Uploads'
<1>1. Aside(p) /\ pc'[p] = "idle"
  BY DEF IInv, Types, Stops, Aside, Same
<1> QED BY <1>1, UploadsMove

LEMMA UploadsStep ==
    ASSUME IInv, [Next]_vars
    PROVE  Uploads'
<1>1. ASSUME NEW p \in Publishers, NEW j \in Jobs[p], Begin(p, j) PROVE Uploads'
  <2>1. Aside(p) /\ job'[p] = j /\ todo'[p] = PathsOf(j)
    BY <1>1 DEF IInv, Types, Begin, Aside, Same, PathsOf
  <2> QED BY <2>1, UploadsMove
<1>2. ASSUME NEW p \in Publishers, NEW path \in todo[p], Upload(p, path) PROVE Uploads'
  <2>1. Aside(p) /\ pc[p] = "walk" /\ job'[p] = job[p] /\ todo'[p] = todo[p]
    BY <1>2 DEF IInv, Types, Upload, Aside, Same
  <2>2. ASSUME NEW other \in PathsOf(job[p]) \ todo[p] PROVE Kept(job[p].files[other])'
    <3>1. PICK sha : sha = job[p].files[other]
      OBVIOUS
    <3>2. Kept(sha)
      BY <2>1, <3>1 DEF IInv, Uploads
    <3>3. Kept(sha)'
      BY <3>2, KeptStep DEF IInv
    <3> QED BY <2>1, <3>1, <3>3 DEF Kept, Fetchable
  <2> QED BY <2>1, <2>2, UploadsMove
<1>3. ASSUME NEW p \in Publishers, NEW i \in 1..MaxEvents, SignAndSend(p, i) PROVE Uploads'
  <2>1. Aside(p) /\ pc'[p] = "send"
    BY <1>3 DEF IInv, Types, SignAndSend, Aside, Same
  <2> QED BY <2>1, UploadsMove
<1>4. ASSUME NEW p \in Publishers, GiveUp(p) PROVE Uploads'
  BY <1>4, UploadsStop DEF GiveUp
<1>5. ASSUME NEW r \in requests, HandleUpload(r), r.from \in Publishers, Uploaded(r.from)
      PROVE  Uploads'
  <2>1. PICK p \in Publishers : p = r.from
    BY <1>5
  <2>2. PICK sha : sha = r.sha
    OBVIOUS
  <2>3. Kept(sha)'
    BY <1>5, <2>2 DEF HandleUpload, Kept, Fetchable
  <2>4. /\ Aside(p) /\ pc'[p] = "walk" /\ job'[p] = job[p]
        /\ todo'[p] = todo[p] \ current[p]
    BY <1>5, <2>1 DEF IInv, Types, Uploaded, Aside, Same
  <2>5. /\ pc[p] = "upload"
        /\ \E path \in PathsOf(job[p]) : current[p] = {path} /\ sha = job[p].files[path]
    BY <1>5, <2>1, <2>2 DEF IInv, Requests, Awaited, HandleUpload
  <2>6. ASSUME NEW other \in PathsOf(job'[p]) \ todo'[p] PROVE Kept(job[p].files[other])'
    <3>1. PICK this : this = job[p].files[other]
      OBVIOUS
    <3>2. CASE other \in todo[p]
      <4>1. other \in current[p]
        BY <2>4, <3>2
      <4>2. this = sha
        BY <2>5, <3>1, <4>1
      <4> QED BY <2>3, <2>4, <3>1, <4>2 DEF Kept, Fetchable
    <3>3. CASE other \notin todo[p]
      <4>1. Kept(this)
        BY <2>4, <2>5, <3>1, <3>3 DEF IInv, Uploads
      <4>2. Kept(this)'
        BY <4>1, KeptStep DEF IInv
      <4> QED BY <2>4, <3>1, <4>2 DEF Kept, Fetchable
    <3> QED BY <3>2, <3>3
  <2> QED BY <2>4, <2>6, UploadsMove
<1>6. ASSUME NEW r \in requests, Handle(r) PROVE Uploads'
  <2>1. CASE NotReached
    BY <2>1, UploadsStay DEF NotReached, publisher
  <2>2. CASE r.from \in Publishers /\ (Published(r.from) \/ Rejected(r.from))
    BY <2>2, UploadsStop DEF Published, Rejected
  <2> QED BY <1>5, <1>6, <2>1, <2>2
          DEF Handle, HandleUpload, RefuseUpload, HandleEvent, RefuseEvent
<1>7. CASE UNCHANGED <<pc, job, todo, current>>
  BY <1>7, UploadsStay
<1>8. ASSUME NEW b \in Deletable, NEW u \in Keys, DeleteBlob(u, b) PROVE Uploads'
  BY <1>7, <1>8 DEF DeleteBlob, publisher
<1>9. ASSUME NEW b \in Evictable, Evict(b) PROVE Uploads'
  BY <1>7, <1>9 DEF Evict, publisher
<1>10. ASSUME NEW e \in Foreign, Another(e) PROVE Uploads'
  BY <1>7, <1>10 DEF Another, publisher
<1>11. CASE Crash \/ Tick \/ UNCHANGED vars
  BY <1>7, <1>11 DEF Crash, Tick, vars, publisher
<1> QED BY <1>1, <1>2, <1>3, <1>4, <1>6, <1>8, <1>9, <1>10, <1>11 DEF Next, Command

-----------------------------------------------------------------------------
(* The order of events: later, then the smaller id. *)
LEMMA WorldEvents ==
    ASSUME Signed
    PROVE  /\ \A e \in World : e.id \in Int /\ e.created_at \in Int
           /\ \A e, f \in World : e.id = f.id => e = f
BY ForeignAssumption, PublishingAssumption DEF Signed, World

LEMMA AtLeastTransitive ==
    ASSUME Signed, NEW e \in World, NEW f \in World, NEW g \in World, AtLeast(f, e), AtLeast(g, f)
    PROVE  AtLeast(g, e)
BY WorldEvents DEF AtLeast, Beats

LEMMA BeatsOther ==
    ASSUME Signed, NEW e \in World, NEW f \in World, e # f, ~Beats(f, e)
    PROVE  Beats(e, f)
BY WorldEvents DEF Beats

(* What publishers sign is neither an ephemeral event nor a deletion       *)
(* request, and has one version at a time.                                 *)
LEMMA SignedClass ==
    ASSUME Signed, NEW e \in signed
    PROVE  classify(e.kind) \notin {"ephemeral", "regular"} /\ e.kind # 5
<1>1. e.kind \in {15128, 35128, 30023}
  BY DEF Signed, KIND_ROOT, KIND_NAMED, KIND_LONGFORM
<1>2. classify(15128) = "replaceable"
  BY DEF classify
<1>3. classify(35128) = "addressable"
  BY DEF classify
<1>4. classify(30023) = "addressable"
  BY DEF classify
<1> QED BY <1>1, <1>2, <1>3, <1>4

(* The statements of store() for an event that wins. *)
LEMMA WrittenTable ==
    ASSUME NEW tables, NEW e
    PROVE  Write(tables, e).events
             = {f \in (tables.events \ Rivals(tables, e)) \cup {e} : ~Retracts(e, f)}
<1>1. PICK kept : kept = Delete(tables, Rivals(tables, e))
  OBVIOUS
<1>2. PICK more : more = Insert(kept, e)
  OBVIOUS
<1>3. kept.events = tables.events \ Rivals(tables, e)
  BY <1>1 DEF Delete
<1>4. more.events = kept.events \cup {e}
  BY <1>2 DEF Insert
<1>5. Write(tables, e) = ProcessDeletion(more, e)
  BY <1>1, <1>2 DEF Write
<1>6. ProcessDeletion(more, e).events = more.events \ {f \in more.events : Retracts(e, f)}
  BY DEF ProcessDeletion, Delete
<1> QED BY <1>3, <1>4, <1>5, <1>6

(* An event is covered when it, or one that beats it, is in the tables,    *)
(* withdrawn by its author or one that store() raises at.                  *)
Holds(events, f) == f \in events \/ Withdrawn(f) \/ Spoilt(f)

Covers(events, e) == \E f \in World : AtLeast(f, e) /\ Holds(events, f)

Given(x) == x \in signed \/ (x \in Foreign /\ Acceptable(x))

(* What store() may make of the events, when it writes and when it raises: *)
(* what is gone was an older version or is retracted.                      *)
Took(tables, after, x) ==
    /\ Answer(tables, x) = "stored"
    /\ after.events \subseteq tables.events \cup {x}
    /\ x \in after.events => after.events \cap Rivals(tables, x) = {}
    /\ \A f \in tables.events \ after.events : f \in Rivals(tables, x) \/ Retracts(x, f)
    /\ x \in after.events \/ Retracts(x, x) \/ Spoilt(x)

LEMMA NoRival ==
    ASSUME NEW tables, NEW x, Answer(tables, x) = "stored"
    PROVE  x \notin tables.events /\ \A f \in Rivals(tables, x) : f \in tables.events /\ ~Beats(f, x)
BY DEF Answer, Duplicate, Superseded, Rivals

LEMMA WriteTook ==
    ASSUME NEW tables, NEW x, Answer(tables, x) = "stored"
    PROVE  Took(tables, Write(tables, x), x)
<1>1. PICK after : after = Write(tables, x)
  OBVIOUS
<1>2. after.events = {f \in (tables.events \ Rivals(tables, x)) \cup {x} : ~Retracts(x, f)}
  BY <1>1, WrittenTable
<1> QED BY <1>1, <1>2, NoRival DEF Took

LEMMA LeftTook ==
    ASSUME NEW tables, NEW x, Answer(tables, x) = "stored", Spoilt(x),
           NEW left \in Leftovers(tables, x)
    PROVE  Took(tables, left, x)
<1> DEFINE dropped == Delete(tables, Rivals(tables, x))
           more == Insert(dropped, x)
<1>1. dropped.events = tables.events \ Rivals(tables, x)
  BY DEF Delete
<1>2. \A n : InsertPart(dropped, x, n).events = dropped.events \cup {x}
  BY DEF InsertPart
<1>3. more.events = dropped.events \cup {x}
  BY DEF Insert
<1>4. \A part \in PartDeleted(more, x) :
         part.events \subseteq more.events /\ \A f \in more.events \ part.events : Retracts(x, f)
  <2> SUFFICES ASSUME NEW part \in PartDeleted(more, x)
               PROVE  /\ part.events \subseteq more.events
                      /\ \A f \in more.events \ part.events : Retracts(x, f)
    OBVIOUS
  <2>1. PICK S : (\A f \in S : Retracts(x, f)) /\ part = Delete(more, S)
    BY DEF PartDeleted
  <2>2. part.events = more.events \ S
    BY <2>1 DEF Delete
  <2> QED BY <2>1, <2>2
<1>5. \/ left = tables \/ left = dropped
      \/ \E n : left = InsertPart(dropped, x, n)
      \/ left \in PartDeleted(more, x)
  BY DEF Leftovers
<1> HIDE DEF dropped, more
<1>6. CASE left = tables
  BY <1>6, NoRival DEF Took
<1>7. CASE left = dropped
  BY <1>1, <1>7, NoRival DEF Took
<1>8. CASE \E n : left = InsertPart(dropped, x, n)
  BY <1>1, <1>2, <1>8, NoRival DEF Took
<1>9. CASE left \in PartDeleted(more, x)
  BY <1>1, <1>3, <1>4, <1>9, NoRival DEF Took
<1> QED BY <1>5, <1>6, <1>7, <1>8, <1>9

(* Nothing that was covered is lost by it, and the event itself is covered. *)
LEMMA StoreCovers ==
    ASSUME Signed, NEW tables, tables.events \subseteq World, NEW x, Given(x),
           NEW after, Took(tables, after, x)
    PROVE  /\ after.events \subseteq World
           /\ \A f \in tables.events : Covers(after.events, f)
           /\ Covers(after.events, x)
<1>1. x \in World
  BY DEF Given, World
<1>2. \A f \in World : AtLeast(f, f)
  BY DEF AtLeast
<1>3. ASSUME NEW f, Retracts(x, f) PROVE Withdrawn(f)
  <2>1. x \in Foreign /\ Acceptable(x)
    BY <1>3, SignedClass DEF Given, Retracts
  <2> QED BY <1>3, <2>1 DEF Withdrawn
<1>4. Holds(after.events, x)
  BY <1>3 DEF Took, Holds
<1>5. ASSUME NEW f \in tables.events PROVE Covers(after.events, f)
  <2>1. CASE f \in Rivals(tables, x)
    <3>1. Slot(x) = Slot(f)
      BY <2>1 DEF Rivals
    <3>2. Beats(x, f)
      BY <1>1, <2>1, NoRival, BeatsOther DEF Took
    <3> QED BY <1>1, <1>4, <3>1, <3>2 DEF Covers, AtLeast
  <2>2. CASE f \notin Rivals(tables, x)
    <3>1. Holds(after.events, f)
      BY <1>3, <2>2 DEF Took, Holds
    <3> QED BY <1>2, <3>1 DEF Covers
  <2> QED BY <2>1, <2>2
<1> QED BY <1>1, <1>2, <1>4, <1>5 DEF Took, Covers

LEMMA AnsweredCovers ==
    ASSUME Signed, NEW tables, tables.events \subseteq World,
           NEW x \in signed, Answer(tables, x) # "stored"
    PROVE  Covers(tables.events, x)
<1>1. x \in World /\ \A f \in World : AtLeast(f, f)
  BY DEF World, AtLeast
<1>2. Duplicate(tables, x) \/ Superseded(tables, x)
  BY SignedClass DEF Answer
<1>3. CASE Duplicate(tables, x)
  BY <1>1, <1>3, WorldEvents DEF Duplicate, Covers, Holds
<1>4. CASE Superseded(tables, x)
  BY <1>4 DEF Superseded, Rivals, Covers, Holds, AtLeast
<1> QED BY <1>2, <1>3, <1>4

(* So whoever covered an event is covered, and it still is. *)
LEMMA CoversOn ==
    ASSUME Signed, NEW events, NEW after, events \subseteq World,
           \A f \in events : Covers(after, f),
           NEW e \in World, Covers(events, e)
    PROVE  Covers(after, e)
<1>1. PICK f \in World : AtLeast(f, e) /\ Holds(events, f)
  BY DEF Covers
<1>2. CASE f \in events
  <2>1. PICK g \in World : AtLeast(g, f) /\ Holds(after, g)
    BY <1>2 DEF Covers
  <2> QED BY <1>1, <2>1, AtLeastTransitive DEF Covers
<1>3. CASE Withdrawn(f) \/ Spoilt(f)
  BY <1>1, <1>3 DEF Covers, Holds
<1> QED BY <1>1, <1>2, <1>3 DEF Holds

(* Neither the clock nor another event signed uncovers one. *)
LEMMA StaysAcceptable ==
    ASSUME clock \in Int, clock' \in Int, clock =< clock', NEW f \in Foreign, Acceptable(f)
    PROVE  Acceptable(f)'
BY ForeignAssumption, PublishingAssumption DEF Acceptable

LEMMA StaysCovered ==
    ASSUME clock \in Int, clock' \in Int, clock =< clock', signed \subseteq signed',
           NEW events, NEW e, Covers(events, e)
    PROVE  Covers(events, e)'
<1>1. \A f : Withdrawn(f) => Withdrawn(f)'
  BY StaysAcceptable DEF Withdrawn
<1>2. \A f : Spoilt(f) => Spoilt(f)'
  BY StaysAcceptable, ForeignAssumption DEF Spoilt
<1>3. World \subseteq World'
  BY DEF World
<1> QED BY <1>1, <1>2, <1>3 DEF Covers, Holds

-----------------------------------------------------------------------------
(* What a step does to the clock, the store and what was reported: nothing;*)
(* store() returns; it raises; or the node restarts.                       *)
Stays == clock' = clock /\ UNCHANGED <<db, disk>> /\ told' = told

Answers(x) ==
    /\ clock' = clock /\ Given(x) /\ Stores(x)
    /\ told' = told \/ (x \in signed /\ told' = told \cup {x})

Fails(x) ==
    /\ clock' = clock /\ told' = told
    /\ Given(x) /\ Spoilt(x) /\ Raises(x)

Restarts == clock' = clock /\ told' = told /\ db' = disk /\ disk' = disk

LEMMA Changes ==
    ASSUME IInv, [Next]_vars
    PROVE  Stays \/ (\E x \in World : Answers(x) \/ Fails(x)) \/ Restarts \/ Tick
<1> DEFINE Goal == Stays \/ (\E x \in World : Answers(x) \/ Fails(x)) \/ Restarts \/ Tick
<1>1. ASSUME NEW p \in Publishers, Command(p) PROVE Goal
  BY <1>1 DEF Command, Begin, Upload, SignAndSend, GiveUp, Stays, node
<1>2. ASSUME NEW r \in requests, HandleUpload(r) PROVE Goal
  BY <1>2 DEF HandleUpload, Handled, NotReached, Uploaded, Stays, publisher
<1>3. ASSUME NEW r \in requests, RefuseUpload(r) \/ RefuseEvent(r) PROVE Goal
  BY <1>3 DEF RefuseUpload, RefuseEvent, Handled, NotReached, Rejected, Stays, publisher, node
<1>4. ASSUME NEW r \in requests, HandleEvent(r) PROVE Goal
  <2>1. PICK x : x = r.event
    OBVIOUS
  <2>2. r.verb = "event" /\ clock' = clock /\ Stores(x)
    BY <1>4, <2>1 DEF HandleEvent, Handled
  <2>3. x \in signed /\ Given(x) /\ x \in World
    BY <2>1, <2>2 DEF IInv, Types, UploadRequests, EventRequests, Given, World
  <2>4. told' = told \/ told' = told \cup {x}
    <3>1. CASE NotReached
      BY <3>1 DEF NotReached
    <3>2. CASE r.from \in Publishers /\ Published(r.from)
      <4>1. current[r.from] = {x}
        BY <2>1, <2>2, <3>2 DEF IInv, Requests, Awaited
      <4> QED BY <3>2, <4>1 DEF Published
    <3> QED BY <1>4, <3>1, <3>2 DEF HandleEvent
  <2> QED BY <2>2, <2>3, <2>4 DEF Answers
<1>5. ASSUME NEW b \in Deletable, NEW u \in Keys, DeleteBlob(u, b) PROVE Goal
  BY <1>5 DEF DeleteBlob, Stays
<1>6. ASSUME NEW b \in Evictable, Evict(b) PROVE Goal
  BY <1>6 DEF Evict, Stays
<1>7. ASSUME NEW e \in Foreign, Another(e) PROVE Goal
  <2>1. e \in World /\ Given(e) /\ clock' = clock /\ told' = told
    BY <1>7 DEF Another, Given, World
  <2>2. Raises(e) => Spoilt(e)
    BY <1>7 DEF Another, Raises, Spoilt
  <2>3. Raises(e) \/ Stores(e)
    BY <1>7 DEF Another
  <2> QED BY <2>1, <2>2, <2>3 DEF Answers, Fails
<1>8. CASE Crash
  BY <1>8 DEF Crash, Restarts
<1>9. CASE Tick \/ UNCHANGED vars
  BY <1>9 DEF vars, Stays, node
<1> QED BY <1>1, <1>2, <1>3, <1>4, <1>5, <1>6, <1>7, <1>8, <1>9 DEF Next, Handle

LEMMA SignedGrows ==
    ASSUME [Next]_vars
    PROVE  signed \subseteq signed'
<1>1. ASSUME NEW p \in Publishers, NEW i \in 1..MaxEvents, SignAndSend(p, i)
      PROVE  signed \subseteq signed'
  BY <1>1 DEF SignAndSend
<1> QED BY <1>1, SignedOnlyBy

(* The clock and the store. *)
LEMMA ClockStep ==
    ASSUME IInv, [Next]_vars
    PROVE  clock \in Int /\ clock' \in 0..MaxTime /\ clock =< clock'
<1>1. clock \in 0..MaxTime /\ MaxTime \in Nat
  BY PublishingAssumption DEF IInv, Types
<1> QED BY <1>1, Changes DEF Stays, Answers, Fails, Restarts, Tick

(* The tables after a step, and what of them is committed. *)
LEMMA Moved ==
    ASSUME IInv, [Next]_vars
    PROVE  \/ UNCHANGED <<db, disk>>
           \/ db' = disk /\ disk' = disk
           \/ \E x \in World : /\ Given(x) /\ Took(db, db', x)
                               /\ disk' = db' \/ (Spoilt(x) /\ disk' = disk)
<1>1. ASSUME NEW x \in World, Answers(x)
      PROVE  UNCHANGED <<db, disk>> \/ (Given(x) /\ Took(db, db', x) /\ disk' = db')
  <2>1. CASE Answer(db, x) = "stored"
    <3>1. db' = Write(db, x) /\ disk' = db' /\ Given(x)
      BY <1>1, <2>1 DEF Answers, Stores
    <3> QED BY <2>1, <3>1, WriteTook
  <2>2. CASE Answer(db, x) # "stored"
    BY <1>1, <2>2 DEF Answers, Stores
  <2> QED BY <2>1, <2>2
<1>2. ASSUME NEW x \in World, Fails(x)
      PROVE  Given(x) /\ Took(db, db', x) /\ Spoilt(x) /\ disk' = disk
  BY <1>2, LeftTook DEF Fails, Raises
<1>3. CASE Stays \/ Restarts \/ Tick
  BY <1>3 DEF Stays, Restarts, Tick, node
<1> QED BY <1>1, <1>2, <1>3, Changes

LEMMA StoreStep ==
    ASSUME IInv, [Next]_vars
    PROVE  /\ db'.events \subseteq World /\ disk'.events \subseteq World
           /\ \A f \in db.events : Covers(db'.events, f)
<1>1. Signed /\ db.events \subseteq World /\ disk.events \subseteq World
  BY DEF IInv, Types
<1>2. \A f \in World : AtLeast(f, f)
  BY DEF AtLeast
<1>3. CASE UNCHANGED <<db, disk>>
  BY <1>1, <1>2, <1>3 DEF Covers, Holds
<1>4. CASE db' = disk /\ disk' = disk
  BY <1>1, <1>2, <1>4 DEF IInv, Committed, Covers, Holds
<1>5. ASSUME NEW x \in World, Given(x), Took(db, db', x), disk' = db' \/ disk' = disk
      PROVE  /\ db'.events \subseteq World /\ disk'.events \subseteq World
             /\ \A f \in db.events : Covers(db'.events, f)
  <2>1. PICK tables, after : tables = db /\ after = db'
    OBVIOUS
  <2>2. /\ after.events \subseteq World
        /\ \A f \in tables.events : Covers(after.events, f)
    BY <1>1, <1>5, <2>1, StoreCovers
  <2> QED BY <1>1, <1>5, <2>1, <2>2
<1> QED BY <1>3, <1>4, <1>5, Moved

LEMMA CommittedStep ==
    ASSUME IInv, [Next]_vars
    PROVE  Committed'
<1>1. \A f : Spoilt(f) => Spoilt(f)'
  BY ClockStep, StaysAcceptable, ForeignAssumption DEF Spoilt
<1>2. CASE UNCHANGED <<db, disk>>
  BY <1>1, <1>2 DEF IInv, Committed
<1>3. CASE disk' = db'
  BY <1>3 DEF Committed
<1>4. ASSUME NEW x \in World, Took(db, db', x), Spoilt(x), disk' = disk PROVE Committed'
  <2>1. db'.events \subseteq db.events \cup {x}
    BY <1>4 DEF Took
  <2> QED BY <1>1, <1>4, <2>1 DEF IInv, Committed
<1> QED BY <1>2, <1>3, <1>4, Moved

LEMMA ToldStep ==
    ASSUME IInv, [Next]_vars
    PROVE  ToldIsCovered'
<1>1. Signed /\ db.events \subseteq World /\ told \subseteq World
  BY DEF IInv, Types, World
<1>2. PICK events, after : events = db.events /\ after = db'.events
  OBVIOUS
<1>3. \A e \in told : Covers(events, e)
  BY <1>2 DEF IInv, ToldIsCovered, Covers, Holds, World
<1>4. \A e \in told : Covers(after, e)
  BY <1>1, <1>2, <1>3, StoreStep, CoversOn
<1>5. \A e \in told' : Covers(after, e)
  <2>1. ASSUME NEW x \in World, Answers(x), x \in signed PROVE Covers(after, x)
    <3>1. PICK tables : tables = db
      OBVIOUS
    <3>2. CASE Answer(tables, x) = "stored"
      <4>1. Took(tables, Write(tables, x), x) /\ Given(x) /\ db' = Write(tables, x)
        BY <2>1, <3>1, <3>2, WriteTook DEF Answers, Stores
      <4> QED BY <1>1, <1>2, <3>1, <4>1, StoreCovers
    <3>3. CASE Answer(tables, x) # "stored"
      <4>1. db' = tables
        BY <2>1, <3>1, <3>3 DEF Answers, Stores
      <4> QED BY <1>1, <1>2, <2>1, <3>1, <3>3, <4>1, AnsweredCovers
    <3> QED BY <3>2, <3>3
  <2>2. told' = told \/ \E x \in World : Answers(x) /\ x \in signed /\ told' = told \cup {x}
    BY Changes DEF Stays, Answers, Fails, Restarts, Tick
  <2> QED BY <1>4, <2>1, <2>2
<1>6. \A e \in told' : Covers(after, e)'
  BY <1>5, ClockStep, SignedGrows, StaysCovered
<1> QED BY <1>2, <1>6 DEF ToldIsCovered, Covers, Holds, World

-----------------------------------------------------------------------------
LEMMA Initially == Init => IInv
<1> SUFFICES ASSUME Init PROVE IInv
  OBVIOUS
<1>1. Types
  BY PublishingAssumption DEF Init, Types, Empty, World
<1>2. \A p \in Publishers : Working(p)
  BY DEF Init, Working
<1>3. Requests /\ Signed /\ Uploads /\ Committed /\ ToldIsCovered
  BY DEF Init, Requests, Signed, Uploads, Empty, Committed, ToldIsCovered
<1> QED BY <1>1, <1>2, <1>3 DEF IInv

LEMMA Inductive == IInv /\ [Next]_vars => IInv'
<1> SUFFICES ASSUME IInv, [Next]_vars PROVE IInv'
  OBVIOUS
<1>1. Hands /\ Types
  BY DEF IInv, Types, Hands
<1>2. Hands'
  BY <1>1, HandsStep, ClockStep
<1>3. db'.events \subseteq World' /\ disk'.events \subseteq World'
  BY StoreStep, SignedGrows DEF World
<1>4. Types'
  BY <1>1, <1>2, <1>3, ClockStep, FilesStep DEF Types, Hands
<1> QED BY <1>2, <1>4, SignedStep, UploadsStep, CommittedStep, ToldStep DEF IInv, Hands

THEOREM Invariant == Spec => []IInv
BY Initially, Inductive, PTL DEF Spec

(* A publisher waits for one thing at a time, the rows of the blob store   *)
(* have their files, and what is reported was signed.                      *)
THEOREM TypeCorrect == Spec => []TypeOK
<1>1. IInv => TypeOK
  <2> SUFFICES ASSUME IInv PROVE TypeOK
    OBVIOUS
  <2>1. ASSUME NEW p \in Publishers
        PROVE  Cardinality(current[p]) = IF pc[p] \in {"upload", "send"} THEN 1 ELSE 0
    <3>1. CASE pc[p] \in {"upload", "send"}
      <4>1. PICK x : current[p] = {x}
        BY <3>1 DEF IInv, Working
      <4> QED BY <3>1, <4>1, FS_Singleton
    <3>2. CASE pc[p] \notin {"upload", "send"}
      <4>1. current[p] = {}
        BY <3>2 DEF IInv, Types, Working
      <4> QED BY <3>2, <4>1, FS_EmptySet
    <3> QED BY <3>1, <3>2
  <2> QED BY <2>1 DEF IInv, Types, Working, TypeOK, World
<1> QED BY <1>1, Invariant, PTL

(* Every file of a manifest that a command signed and the relay holds can  *)
(* be fetched from the Blossom server, unless it was deleted or evicted,   *)
(* whatever was refused, lost, answered late or cut off by a crash         *)
(* (publish.py uploads first and signs then; each upload is awaited).      *)
THEOREM NoneDangling == Spec => []NoDangling
<1>1. IInv => NoDangling
  BY DEF IInv, Signed, ManifestKept, Kept, NoDangling
<1> QED BY <1>1, Invariant, PTL

(* What a command reported as published is held by the relay, or a version *)
(* that beats it is, unless its author asked to delete that or has sent,   *)
(* with another tool, one that SQLite cannot bind: store() drops an event  *)
(* only for one that takes its place, and says yes only to what it has     *)
(* committed or holds already.                                             *)
THEOREM ToldCovered == Spec => []ToldIsCovered
<1>1. IInv => ToldIsCovered
  BY DEF IInv
<1> QED BY <1>1, Invariant, PTL

-----------------------------------------------------------------------------
(* A request for a file of a directory.  Its path says where it is, with   *)
(* nothing for normpath to collapse.                                       *)
Plain(path) == IsList(path) /\ path # <<>> /\ ToSet(path) \cap {"", ".", ".."} = {}

LEMMA PlainFirst ==
    ASSUME NEW path, Plain(path)
    PROVE  path[1] # ""
<1>1. \A S, s : s \in Seq(S) /\ s # <<>> => 1 \in 1..Len(s)
  OBVIOUS
<1>2. 1 \in 1..Len(path)
  BY <1>1 DEF Plain, IsList
<1>3. IsList(path)
  BY DEF Plain
<1>4. path[1] \in ToSet(path)
  BY <1>2, <1>3, ListShape
<1> QED BY <1>4 DEF Plain

LEMMA CollapseFold ==
    ASSUME NEW path
    PROVE  FoldLeft(Collapse, <<>>, path) =
              (CHOOSE g : g = [s \in SUBSET DOMAIN path |->
                  IF s = {} THEN <<>> ELSE Collapse(g[s \ {Max(s)}], path[Max(s)])])[DOMAIN path]
BY DEF FoldLeft, MapThenFoldSet

LEMMA PlainCollapse ==
    ASSUME NEW path, Plain(path), NEW done, NEW i \in DOMAIN path
    PROVE  Collapse(done, path[i]) = Append(done, path[i])
<1>1. path[i] \in ToSet(path)
  BY DEF ToSet
<1>2. path[i] \notin {"", ".", ".."}
  BY <1>1 DEF Plain
<1> QED BY <1>2 DEF Collapse

LEMMA PlainTrace ==
    ASSUME NEW path, Plain(path)
    PROVE  \E h \in [0..Len(path) -> Seq(ToSet(path))] :
              /\ h[0] = <<>> /\ FoldLeft(Collapse, <<>>, path) = h[Len(path)]
              /\ \A i \in 1..Len(path) : h[i] = Append(h[i - 1], path[i])
<1> DEFINE n == Len(path)
           X == Seq(ToSet(path))
           Of(g, s) == Collapse(g[s \ {Max(s)}], path[Max(s)])
           Is(g) == g = [s \in SUBSET DOMAIN path |-> IF s = {} THEN <<>> ELSE Of(g, s)]
           step == [p \in X \X (1..n) |-> Append(p[1], path[p[2]])]
<1>1. n \in Nat /\ DOMAIN path = 1..n /\ \A i \in 1..n : path[i] \in ToSet(path)
  BY ListShape DEF Plain
<1>2. \A v \in X, i \in 1..n : step[<<v, i>>] = Append(v, path[i])
  <2> HIDE DEF n, X
  <2> QED OBVIOUS
<1>3. ASSUME NEW v \in X, NEW i \in 1..n PROVE step[<<v, i>>] \in X
  BY <1>1, <1>2
<1>4. Steps(step, n, X) /\ <<>> \in X
  <2>1. <<>> \in X
    OBVIOUS
  <2> HIDE DEF step, n, X
  <2> QED BY <1>3, <2>1 DEF Steps
<1>5. \A s \in SUBSET (1..n) : s # {} => Max(s) \in s
  <2>1. ASSUME NEW s \in SUBSET (1..n), s # {} PROVE Max(s) \in s
    BY <1>1, <2>1, MaxIn
  <2> QED BY <2>1
<1>6. FoldLeft(Collapse, <<>>, path) = (CHOOSE f : Is(f))[1..n]
  BY <1>1, CollapseFold
<1>7. ASSUME NEW s \in SUBSET (1..n), s # {}, NEW done
      PROVE  Collapse(done, path[Max(s)]) = Append(done, path[Max(s)])
  <2>1. Max(s) \in DOMAIN path
    BY <1>1, <1>5, <1>7
  <2> QED BY <2>1, PlainCollapse
<1> HIDE DEF step, n, X
<1>8. PICK g \in [SUBSET (1..n) -> X] : Folds(g, <<>>, step, n)
  BY <1>1, <1>4, FoldExists
<1>9. \A s \in SUBSET (1..n) : s # {} => g[s] = Of(g, s)
  <2>1. ASSUME NEW s \in SUBSET (1..n), s # {} PROVE g[s] = Of(g, s)
    <3>1. Max(s) \in 1..n /\ g[s \ {Max(s)}] \in X /\ g[s] = step[<<g[s \ {Max(s)}], Max(s)>>]
      BY <1>1, <1>5, <1>8, <2>1 DEF Folds
    <3>2. Of(g, s) = Append(g[s \ {Max(s)}], path[Max(s)])
      BY <1>7, <2>1
    <3>3. step[<<g[s \ {Max(s)}], Max(s)>>] = Append(g[s \ {Max(s)}], path[Max(s)])
      BY <1>2, <3>1
    <3> QED BY <3>1, <3>2, <3>3
  <2> QED BY <2>1
<1>10. Is(g)
  BY <1>1, <1>8, <1>9 DEF Folds
<1>11. PICK f : f = CHOOSE x : Is(x)
  OBVIOUS
<1>12. Is(f) /\ FoldLeft(Collapse, <<>>, path) = f[1..n]
  BY <1>6, <1>10, <1>11
<1>13. ASSUME NEW s \in SUBSET (1..n), s # {}, f[s \ {Max(s)}] \in X
       PROVE  f[s] = step[<<f[s \ {Max(s)}], Max(s)>>]
  <2>1. Max(s) \in 1..n /\ f[s] = Of(f, s)
    BY <1>1, <1>5, <1>12, <1>13
  <2>2. Of(f, s) = Append(f[s \ {Max(s)}], path[Max(s)])
    BY <1>7, <1>13
  <2>3. step[<<f[s \ {Max(s)}], Max(s)>>] = Append(f[s \ {Max(s)}], path[Max(s)])
    BY <1>2, <1>13, <2>1
  <2> QED BY <2>1, <2>2, <2>3
<1>14. PICK h : Trace(h, <<>>, step, n, X) /\ h[n] = f[1..n]
  <2>1. f[{}] = <<>>
    BY <1>12
  <2>2. Follows(f, <<>>, step, n, X)
    BY <1>13, <2>1 DEF Follows
  <2> QED BY <1>1, <1>4, <2>2, FoldTrace
<1>15. \A i \in 1..n : h[i] = Append(h[i - 1], path[i])
  <2>1. ASSUME NEW i \in 1..n PROVE h[i] = Append(h[i - 1], path[i])
    <3>1. i - 1 \in 0..n
      BY <1>1
    <3> QED BY <1>2, <1>14, <3>1 DEF Trace
  <2> QED BY <2>1
<1> QED BY <1>1, <1>12, <1>14, <1>15 DEF Trace, n, X

LEMMA PlainNormal ==
    ASSUME NEW path, Plain(path)
    PROVE  normpath(path) = path
<1> DEFINE n == Len(path)
           X == Seq(ToSet(path))
<1>1. n \in Nat /\ DOMAIN path = 1..n /\ path = [i \in 1..n |-> path[i]]
      /\ \A i \in 1..n : path[i] \in ToSet(path)
  <2>1. path \in X
    BY DEF Plain, IsList
  <2>2. \A S, s : s \in Seq(S) => s = [i \in 1..Len(s) |-> s[i]]
    OBVIOUS
  <2>3. path = [i \in 1..Len(path) |-> path[i]]
    BY <2>1, <2>2
  <2>4. IsList(path)
    BY DEF Plain
  <2>5. n \in Nat /\ DOMAIN path = 1..n /\ \A i \in 1..n : path[i] \in ToSet(path)
    BY <2>4, ListShape
  <2> QED BY <2>3, <2>5
<1>2. PICK h \in [0..n -> X] :
         /\ h[0] = <<>> /\ FoldLeft(Collapse, <<>>, path) = h[n]
         /\ \A i \in 1..n : h[i] = Append(h[i - 1], path[i])
  BY PlainTrace
<1> HIDE DEF n
<1> DEFINE P == {k \in 0..n : h[k] = [i \in 1..k |-> path[i]]}
<1>3. 0 \in P
  <2>1. [i \in 1..0 |-> path[i]] = <<>>
    OBVIOUS
  <2> QED BY <1>1, <1>2, <2>1
<1>4. ASSUME NEW k \in 1..n, k - 1 \in P PROVE k \in P
  <2>1. k \in 0..n /\ k - 1 \in 0..n /\ k - 1 \in Nat /\ (k - 1) + 1 = k
    BY <1>1
  <2>2. PICK s : s = [i \in 1..(k - 1) |-> path[i]]
    OBVIOUS
  <2>3. h[k] = Append(s, path[k]) /\ s \in X
    BY <1>2, <1>4, <2>1, <2>2
  <2>4. Len(s) = k - 1
    BY <2>1, <2>2
  <2>5. Append(s, path[k]) = [i \in 1..k |-> path[i]]
    BY <2>1, <2>2, <2>3, <2>4
  <2> QED BY <2>1, <2>3, <2>5
<1> HIDE DEF P
<1>5. n \in P
  <2>1. 0..n \subseteq P
    BY <1>1, <1>3, <1>4, TraceInduction
  <2> QED BY <1>1, <2>1
<1>6. FoldLeft(Collapse, <<>>, path) = path
  BY <1>1, <1>2, <1>5 DEF P
<1>7. ~DoubleSlash(path)
  <2> SUFFICES ASSUME DoubleSlash(path) PROVE FALSE
    OBVIOUS
  <2>1. path[1] = ""
    BY DEF DoubleSlash
  <2> QED BY <2>1, PlainFirst
<1> QED BY <1>1, <1>6, <1>7 DEF normpath

(* The gateway finds it: under the path itself, or as it is, since what    *)
(* would come first is not there.                                          *)
LEMMA FileResolves ==
    ASSUME NEW paths, NEW path \in DOMAIN paths, Plain(path),
           \A other \in DOMAIN paths : IsPrefix(path, other) => path = other
    PROVE  resolve_blob(paths, path) = {paths[path]}
<1>1. normpath(path) = path
  BY PlainNormal
<1>2. path \notin {<<>>, <<"">>}
  <2> SUFFICES ASSUME path = <<"">> PROVE FALSE
    BY DEF Plain
  <2>1. path[1] = ""
    OBVIOUS
  <2> QED BY <2>1, PlainFirst
<1>3. PICK key : key = normalize_request_path(path)
  OBVIOUS
<1>4. key = path \/ key = Append(path, "index.html")
  BY <1>1, <1>2, <1>3 DEF normalize_request_path
<1>5. Append(path, "index.html") \notin DOMAIN paths
  <2>1. path \in Seq(ToSet(path) \cup {"index.html"})
    <3>1. \A X, Y, s : X \subseteq Y /\ s \in Seq(X) => s \in Seq(Y)
      OBVIOUS
    <3> QED BY <3>1 DEF Plain, IsList
  <2>2. PICK other : other = Append(path, "index.html")
    OBVIOUS
  <2>3. /\ other # path /\ Len(path) =< Len(other)
        /\ SubSeq(path, 1, Len(path)) = SubSeq(other, 1, Len(path))
    <3>1. PICK S : path \in Seq(S) /\ "index.html" \in S
      <4>1. "index.html" \in ToSet(path) \cup {"index.html"}
        OBVIOUS
      <4> QED BY <2>1, <4>1
    <3>2. /\ Len(path) \in Nat /\ Len(other) = Len(path) + 1
          /\ \A i \in 1..Len(path) : other[i] = path[i]
      BY <2>2, <3>1
    <3>3. SubSeq(path, 1, Len(path)) = [i \in 1..Len(path) |-> path[i]]
      BY <3>1, <3>2
    <3>4. SubSeq(other, 1, Len(path)) = [i \in 1..Len(path) |-> other[i]]
      BY <2>2, <3>1, <3>2
    <3> QED BY <3>2, <3>3, <3>4
  <2>4. IsPrefix(path, other)
    BY <2>3 DEF IsPrefix
  <2> QED BY <2>2, <2>3, <2>4
<1> QED BY <1>3, <1>4, <1>5 DEF resolve_blob

-----------------------------------------------------------------------------
(* What was signed was some command's to sign.                             *)
Commanded ==
    \A e \in signed : \E p \in Publishers : \E j \in Jobs[p] :
        e.kind = EventOf(j).kind /\ e.tags = EventOf(j).tags

LEMMA CommandedStep ==
    ASSUME IInv, Commanded, [Next]_vars
    PROVE  Commanded'
<1>1. CASE signed' = signed
  BY <1>1 DEF Commanded
<1>2. ASSUME NEW p \in Publishers, NEW i \in 1..MaxEvents, SignAndSend(p, i) PROVE Commanded'
  <2>1. PICK j : j = job[p]
    OBVIOUS
  <2>2. j \in Jobs[p]
    BY <1>2, <2>1 DEF IInv, Working, SignAndSend
  <2>3. PICK e : e = [id |-> i, pubkey |-> Author[p], created_at |-> Now(p),
                      kind |-> EventOf(j).kind, tags |-> EventOf(j).tags]
    OBVIOUS
  <2>4. signed' = signed \cup {e}
    BY <1>2, <2>1, <2>3 DEF SignAndSend
  <2>5. e.kind = EventOf(j).kind /\ e.tags = EventOf(j).tags
    BY <2>3
  <2> QED BY <2>2, <2>4, <2>5 DEF Commanded
<1> QED BY <1>1, <1>2, SignedOnlyBy

(* The files that an event names are those of the directory it was signed  *)
(* for; it has no other tag than its name and theirs.                      *)
LEMMA NoPaths ==
    ASSUME NEW j, j.type \in {"blog", "post"}, NEW e, e.tags = EventOf(j).tags
    PROVE  DOMAIN ManifestPaths(e) = {}
<1>1. CASE j.type = "blog"
  <2> DEFINE nothing == [x \in {} |-> ""]
  <2>1. e.tags = ManifestTags(nothing, j.identifier, "blog")
    BY <1>1 DEF EventOf
  <2>2. DOMAIN nothing = {} /\ IsFiniteSet(DOMAIN nothing)
    BY FS_EmptySet
  <2> HIDE DEF nothing
  <2>3. Names(e, nothing)
    BY <2>1, <2>2, ManifestRoundTrip
  <2> QED BY <2>2, <2>3 DEF Names
<1>2. CASE j.type = "post"
  <2>1. e.tags = << <<"d", j.slug>> >>
    BY <1>2 DEF EventOf
  <2>2. {i \in DOMAIN e.tags : e.tags[i][1] = "path"} = {}
    BY <2>1
  <2> QED BY <2>2 DEF ManifestPaths
<1> QED BY <1>1, <1>2

LEMMA Wider ==
    ASSUME NEW S, NEW T, S \subseteq T, NEW s \in Seq(S)
    PROVE  s \in Seq(T)
OBVIOUS

LEMMA SiteTagNames ==
    ASSUME NEW paths, IsFiniteSet(DOMAIN paths), NEW identifier
    PROVE  LET tags == ManifestTags(paths, identifier, "")
           IN  \A i \in DOMAIN tags : tags[i][1] # "app"
<1> DEFINE T == {<<"path", path, paths[path]>> : path \in DOMAIN paths}
           D == {<<"d", identifier>>}
           d == IF identifier = "" THEN <<>> ELSE << <<"d", identifier>> >>
           listed == SetToSeq(T)
           tags == ManifestTags(paths, identifier, "")
<1>1. IsFiniteSet(T)
  <2>1. [path \in DOMAIN paths |-> <<"path", path, paths[path]>>] \in Surjection(DOMAIN paths, T)
    BY DEF Surjection
  <2> QED BY <2>1, FS_Surjection
<1>2. listed \in Seq(T)
  BY <1>1, SetAsSeq
<1>3. d \in Seq(D)
  <2>1. \A X, x : x \in X => <<x>> \in Seq(X) /\ <<>> \in Seq(X)
    OBVIOUS
  <2> QED BY <2>1
<1>4. tags = (d \o <<>>) \o listed
  BY DEF ManifestTags
<1>5. \A t \in D \cup T : t[1] # "app"
  OBVIOUS
<1> HIDE DEF T, D, d, listed, tags
<1>6. d \o <<>> = d
  BY <1>3
<1>7. d \in Seq(D \cup T) /\ listed \in Seq(D \cup T)
  <2>1. D \subseteq D \cup T /\ T \subseteq D \cup T
    OBVIOUS
  <2> QED BY <1>2, <1>3, <2>1, Wider
<1>8. tags \in Seq(D \cup T)
  BY <1>4, <1>6, <1>7, Joined
<1>9. \A i \in DOMAIN tags : tags[i] \in D \cup T
  BY <1>8
<1> QED BY <1>5, <1>9 DEF tags

LEMMA SiteTags ==
    ASSUME NEW paths, IsFiniteSet(DOMAIN paths), NEW identifier, NEW e,
           e.tags = ManifestTags(paths, identifier, "")
    PROVE  first_tag(e, "app") = ""
<1>1. Named(e, "app") = {}
  BY SiteTagNames DEF Named
<1> QED BY <1>1 DEF first_tag

-----------------------------------------------------------------------------
(* The relay holds finitely many events, and one of each slot.             *)
OnePerSlot(tables) ==
    /\ IsFiniteSet(tables.events)
    /\ \A e, f \in tables.events : Slot(e) = Slot(f) => e = f

LEMMA StoreOnePerSlot ==
    ASSUME Signed, NEW tables, tables.events \subseteq World, OnePerSlot(tables), NEW x \in World,
           NEW after, Took(tables, after, x)
    PROVE  OnePerSlot(after)
<1>1. IsFiniteSet(after.events)
  <2>1. IsFiniteSet(tables.events \cup {x})
    BY FS_AddElement DEF OnePerSlot
  <2>2. after.events \subseteq tables.events \cup {x}
    BY DEF Took
  <2> QED BY <2>1, <2>2, FS_Subset
<1>2. ASSUME NEW f \in after.events, x \in after.events, Slot(f) = Slot(x) PROVE f = x
  <2> SUFFICES ASSUME f # x PROVE FALSE
    OBVIOUS
  <2>1. f \in tables.events /\ f \notin Rivals(tables, x)
    BY <1>2 DEF Took
  <2>2. classify(x.kind) = "regular"
    BY <1>2, <2>1 DEF Rivals
  <2>3. f.id = x.id
    BY <1>2, <2>2, SlotSame
  <2> QED BY <2>1, <2>3, WorldEvents
<1>3. ASSUME NEW e \in after.events, NEW f \in after.events, Slot(e) = Slot(f), e # x, f # x PROVE e = f
  BY <1>3 DEF OnePerSlot, Took
<1>4. \A e, f \in after.events : Slot(e) = Slot(f) => e = f
  BY <1>2, <1>3
<1> QED BY <1>1, <1>4 DEF OnePerSlot

LEMMA OnePerSlotStep ==
    ASSUME IInv, OnePerSlot(db), OnePerSlot(disk), [Next]_vars
    PROVE  OnePerSlot(db)' /\ OnePerSlot(disk)'
<1>1. Signed /\ db.events \subseteq World
  BY DEF IInv, Types
<1>2. CASE UNCHANGED <<db, disk>> \/ (db' = disk /\ disk' = disk)
  BY <1>2 DEF OnePerSlot
<1>3. ASSUME NEW x \in World, Took(db, db', x), disk' = db' \/ disk' = disk
      PROVE  OnePerSlot(db)' /\ OnePerSlot(disk)'
  <2>1. PICK tables, after : tables = db /\ after = db'
    OBVIOUS
  <2>2. OnePerSlot(after)
    BY <1>1, <1>3, <2>1, StoreOnePerSlot
  <2> QED BY <1>3, <2>1, <2>2 DEF OnePerSlot
<1> QED BY <1>2, <1>3, Moved

(* So the gateway reads one manifest. *)
LEMMA NewestIsOne ==
    ASSUME Signed, NEW tables, tables.events \subseteq World, OnePerSlot(tables),
           NEW flt, "limit" \in DOMAIN flt, flt.limit = 1,
           NEW e \in query(tables, {flt}), NEW m \in query(tables, {flt})
    PROVE  e = m
<1> DEFINE found == {x \in tables.events : SqlMatches(tables, x, flt)}
           Over(x) == {f \in found : Beats(f, x)}
<1>1. query(tables, {flt}) = {x \in found : Cardinality(Over(x)) < 1}
  BY DEF query, QueryOne
<1>2. ASSUME NEW x, NEW y, x \in query(tables, {flt}), y \in query(tables, {flt}) PROVE ~Beats(x, y)
  <2>1. IsFiniteSet(Over(y))
    <3>1. Over(y) \subseteq tables.events
      OBVIOUS
    <3> QED BY <3>1, FS_Subset DEF OnePerSlot
  <2>2. x \in found /\ y \in found /\ Cardinality(Over(y)) < 1
    BY <1>1, <1>2
  <2> HIDE DEF found
  <2>3. Cardinality(Over(y)) \in Nat
    BY <2>1, FS_CardinalityType
  <2>4. Cardinality(Over(y)) = 0
    BY <2>2, <2>3
  <2>5. Over(y) = {}
    BY <2>1, <2>4, FS_EmptySet
  <2> QED BY <2>2, <2>5
<1>3. e \in World /\ m \in World
  BY <1>1
<1> QED BY <1>2, <1>3, BeatsOther

-----------------------------------------------------------------------------
LEMMA OneManifest ==
    ASSUME Signed, db.events \subseteq World, OnePerSlot(db), NEW author, NEW identifier,
           NEW e \in Manifest(author, identifier), NEW m \in Manifest(author, identifier)
    PROVE  e = m
<1>1. PICK tables : tables = db
  OBVIOUS
<1>2. CASE identifier = ""
  <2>1. PICK flt : flt = [authors |-> {author}, kinds |-> {KIND_ROOT, KIND_LEGACY}, limit |-> 1]
    OBVIOUS
  <2>2. "limit" \in DOMAIN flt /\ flt.limit = 1
    BY <2>1
  <2>3. e \in query(tables, {flt}) /\ m \in query(tables, {flt})
    BY <1>1, <1>2, <2>1 DEF Manifest
  <2> QED BY <1>1, <2>2, <2>3, NewestIsOne
<1>3. CASE identifier # ""
  <2>1. PICK flt : flt = [authors |-> {author}, kinds |-> {KIND_NAMED}, limit |-> 1,
                          tags |-> [x \in {"d"} |-> {identifier}]]
    OBVIOUS
  <2>2. "limit" \in DOMAIN flt /\ flt.limit = 1
    BY <2>1
  <2>3. e \in query(tables, {flt}) /\ m \in query(tables, {flt})
    BY <1>1, <1>3, <2>1 DEF Manifest
  <2> QED BY <1>1, <2>2, <2>3, NewestIsOne
<1> QED BY <1>2, <1>3

(* A file of the directory is the page of its path. *)
LEMMA FileServed ==
    ASSUME IInv, Commanded, OnePerSlot(db), NEW e \in signed, NEW identifier,
           e \in Manifest(e.pubkey, identifier), NEW path \in DOMAIN ManifestPaths(e)
    PROVE  \/ ManifestPaths(e)[path] \in removed
           \/ Page(e.pubkey, identifier, path) = {<<"blob", ManifestPaths(e)[path]>>}
<1>0. PICK p \in Publishers : \E j \in Jobs[p] : e.kind = EventOf(j).kind /\ e.tags = EventOf(j).tags
  BY DEF Commanded
<1>1. PICK j \in Jobs[p] : e.kind = EventOf(j).kind /\ e.tags = EventOf(j).tags
  BY <1>0
<1>2. j.type = "site"
  <2>1. j.type \in {"site", "blog", "post"}
    BY PublishingAssumption
  <2> QED BY <1>1, <2>1, NoPaths
<1>3. PICK there, named : there = j.files /\ named = j.identifier
  OBVIOUS
<1>4. e.tags = ManifestTags(there, named, "") /\ IsFiniteSet(DOMAIN there)
  BY <1>1, <1>2, <1>3, PublishingAssumption DEF EventOf
<1>5. DOMAIN ManifestPaths(e) = DOMAIN there /\ first_tag(e, "app") = ""
  <2>1. Names(e, there)
    BY <1>4, ManifestRoundTrip
  <2>2. first_tag(e, "app") = ""
    BY <1>4, SiteTags
  <2> QED BY <2>1, <2>2 DEF Names
<1>6. PICK paths : paths = ManifestPaths(e)
  OBVIOUS
<1>7. Plain(path) /\ \A other \in DOMAIN paths : IsPrefix(path, other) => path = other
  BY <1>2, <1>3, <1>5, <1>6, DirectoryAssumption DEF Plain, IsList
<1>8. resolve_blob(paths, path) = {paths[path]}
  BY <1>6, <1>7, FileResolves
<1>9. paths[path] \in removed \/ paths[path] \in files
  BY <1>6 DEF IInv, Signed, ManifestKept, Kept, Fetchable
<1>10. Manifest(e.pubkey, identifier) = {e}
  BY OneManifest DEF IInv, Types
<1>11. Page(e.pubkey, identifier, path) = {<<"blob", sha>> : sha \in resolve_blob(paths, path) \cap files}
  BY <1>5, <1>6, <1>10 DEF Page
<1>12. ASSUME paths[path] \in files
       PROVE  {<<"blob", sha>> : sha \in resolve_blob(paths, path) \cap files} = {<<"blob", paths[path]>>}
  BY <1>8, <1>12
<1> QED BY <1>6, <1>9, <1>11, <1>12

(* A post is the page of its slug, when the slug is none of the index's    *)
(* names.                                                                  *)
Slugs ==
    \A p \in Publishers : \A j \in Jobs[p] : j.type = "post" => j.slug \notin {"", "index.html"}

LEMMA FirstOfOne ==
    ASSUME NEW s
    PROVE  1 \in DOMAIN <<s>> /\ <<s>>[1] = s
<1>1. 1 \in DOMAIN <<s>>
  OBVIOUS
<1>2. <<s>>[1] = s
  OBVIOUS
<1> QED BY <1>1, <1>2

LEMMA OneSelected ==
    ASSUME NEW s, NEW at, 1 \in at
    PROVE  Selected(<<s>>, at) = <<s>>
<1>1. PICK list : list = <<s>>
  OBVIOUS
<1>2. list \in Seq({s}) /\ Len(list) = 1
  BY <1>1
<1>3. list[1] = s
  BY <1>1
<1>4. IsList(list)
  BY <1>2, ListOf
<1>5. PICK h \in [0..Len(list) -> Seq(ToSet(list))] :
         /\ h[0] = <<>> /\ Selected(list, at) = h[Len(list)]
         /\ \A i \in 1..Len(list) : h[i] = Pick(list, at, h[i - 1], i)
  BY <1>4, SelectedTrace
<1>6. 1 \in 1..Len(list) /\ 1 - 1 = 0
  BY <1>2
<1>7. h[1] = Pick(list, at, <<>>, 1)
  BY <1>5, <1>6
<1>8. Pick(list, at, <<>>, 1) = Append(<<>>, s)
  BY <1>3 DEF Pick
<1>9. Append(<<>>, s) = <<s>>
  OBVIOUS
<1> QED BY <1>1, <1>2, <1>5, <1>7, <1>8, <1>9

LEMMA Alone ==
    ASSUME NEW s, s # ""
    PROVE  Stripped(<<s>>) = <<s>>
<1>1. PICK at : at = {i \in DOMAIN <<s>> : <<s>>[i] # ""}
  OBVIOUS
<1>2. 1 \in DOMAIN <<s>> /\ <<s>>[1] = s
  BY FirstOfOne
<1>3. 1 \in at
  BY <1>1, <1>2
<1> QED BY <1>1, <1>3, OneSelected DEF Stripped

LEMMA PostsAre ==
    ASSUME NEW author
    PROVE  Posts(author) = {e \in db.events : e.pubkey = author /\ e.kind = KIND_LONGFORM}
<1>1. PICK flt : flt = [authors |-> {author}, kinds |-> {KIND_LONGFORM}]
  OBVIOUS
<1>2. DOMAIN flt = {"authors", "kinds"} /\ flt.authors = {author} /\ flt.kinds = {KIND_LONGFORM}
  BY <1>1
<1>3. \A e : SqlMatches(db, e, flt) <=> e.pubkey = author /\ e.kind = KIND_LONGFORM
  BY <1>2 DEF SqlMatches, MatchesColumns, TagFilters
<1>4. query(db, {flt}) = {e \in db.events : SqlMatches(db, e, flt)}
  BY <1>2 DEF query, QueryOne
<1> QED BY <1>1, <1>3, <1>4 DEF Posts

LEMMA PostServed ==
    ASSUME Slugs, IInv, Commanded, OnePerSlot(db), NEW e \in signed, e \in db.events,
           e.kind = KIND_LONGFORM, NEW identifier,
           NEW m \in Manifest(e.pubkey, identifier), first_tag(m, "app") = "blog"
    PROVE  Page(e.pubkey, identifier, <<d_tag(e)>>) = {<<"post", e.id>>}
<1>0. PICK p \in Publishers : \E j \in Jobs[p] : e.kind = EventOf(j).kind /\ e.tags = EventOf(j).tags
  BY DEF Commanded
<1>1. PICK j \in Jobs[p] : e.kind = EventOf(j).kind /\ e.tags = EventOf(j).tags
  BY <1>0
<1>2. j.type = "post"
  <2>1. j.type \in {"site", "blog", "post"}
    BY PublishingAssumption
  <2>2. j.type \in {"site", "blog"} => EventOf(j).kind \in {KIND_ROOT, KIND_NAMED}
    BY DEF EventOf, ManifestKind
  <2> QED BY <1>1, <2>1, <2>2 DEF KIND_ROOT, KIND_NAMED, KIND_LONGFORM
<1>3. PICK slug : slug = d_tag(e)
  OBVIOUS
<1>4. slug \notin {"", "index.html"}
  <2>1. e.tags = << <<"d", j.slug>> >>
    BY <1>1, <1>2 DEF EventOf
  <2>2. Named(e, "d") = {1} /\ e.tags[1][2] = j.slug
    BY <2>1 DEF Named
  <2>3. PICK first : first = CHOOSE i \in Named(e, "d") : \A k \in Named(e, "d") : i =< k
    OBVIOUS
  <2>4. first = 1
    BY <2>2, <2>3
  <2>5. d_tag(e) = j.slug
    BY <2>2, <2>3, <2>4 DEF d_tag, first_tag
  <2> QED BY <1>2, <1>3, <2>5 DEF Slugs
<1>5. Stripped(<<slug>>) = <<slug>>
  BY <1>4, Alone
<1>6. <<slug>> \notin {<<>>, <<"index.html">>}
  BY <1>4
<1>7. BlogPage(e.pubkey, <<slug>>)
        = {<<"post", f.id>> : f \in {g \in Posts(e.pubkey) : <<d_tag(g)>> = <<slug>>}}
  BY <1>5, <1>6 DEF BlogPage
<1>8. {g \in Posts(e.pubkey) : <<d_tag(g)>> = <<slug>>} = {e}
  <2>1. classify(KIND_LONGFORM) = "addressable"
    BY DEF classify, KIND_LONGFORM
  <2>2. ASSUME NEW g \in db.events, g.pubkey = e.pubkey, g.kind = KIND_LONGFORM, d_tag(g) = slug
        PROVE  g = e
    <3>1. Slot(g) = Slot(e)
      BY <1>3, <2>1, <2>2 DEF Slot
    <3> QED BY <3>1 DEF OnePerSlot
  <2>3. \A a, b : <<a>> = <<b>> => a = b
    OBVIOUS
  <2>4. {g \in Posts(e.pubkey) : <<d_tag(g)>> = <<slug>>}
          = {g \in db.events : g.pubkey = e.pubkey /\ g.kind = KIND_LONGFORM /\ d_tag(g) = slug}
    BY <2>3, PostsAre
  <2> QED BY <1>3, <2>2, <2>4
<1>9. Manifest(e.pubkey, identifier) = {m}
  BY OneManifest DEF IInv, Types
<1>10. Page(e.pubkey, identifier, <<slug>>) = BlogPage(e.pubkey, <<slug>>)
  BY <1>9 DEF Page
<1> QED BY <1>3, <1>7, <1>8, <1>10

-----------------------------------------------------------------------------
ServedInv == IInv /\ Commanded /\ OnePerSlot(db) /\ OnePerSlot(disk)

LEMMA ServedInitially == Init => ServedInv
<1> SUFFICES ASSUME Init PROVE ServedInv
  OBVIOUS
<1>1. Commanded
  BY DEF Init, Commanded
<1>2. OnePerSlot(db) /\ OnePerSlot(disk)
  BY FS_EmptySet DEF Init, Empty, OnePerSlot
<1> QED BY <1>1, <1>2, Initially DEF ServedInv

LEMMA ServedInductive == ServedInv /\ [Next]_vars => ServedInv'
BY Inductive, CommandedStep, OnePerSlotStep DEF ServedInv

(* README.md: what was published can be browsed.  While the gateway reads  *)
(* the manifest that `publish` reported, it answers each file of the       *)
(* directory under its own path, unless the file was taken away since; and *)
(* while it reads a blog's, each post that the relay holds under its slug. *)
THEOREM Browsed ==
    ASSUME Slugs
    PROVE  Spec => []PublishedIsServed
<1>1. ServedInv => PublishedIsServed
  <2> SUFFICES ASSUME ServedInv, NEW e \in told \cap db.events
               PROVE  /\ \A identifier \in Identifiers :
                            e \in Manifest(e.pubkey, identifier) =>
                                \A path \in DOMAIN ManifestPaths(e) :
                                    \/ ManifestPaths(e)[path] \in removed
                                    \/ Page(e.pubkey, identifier, path)
                                         = {<<"blob", ManifestPaths(e)[path]>>}
                      /\ e.kind = KIND_LONGFORM =>
                            \A identifier \in Identifiers : \A m \in Manifest(e.pubkey, identifier) :
                                first_tag(m, "app") = "blog" =>
                                    Page(e.pubkey, identifier, <<d_tag(e)>>) = {<<"post", e.id>>}
    BY DEF PublishedIsServed
  <2>1. e \in signed
    BY DEF ServedInv, IInv, Types
  <2> QED BY <2>1, FileServed, PostServed DEF ServedInv
<1> QED BY <1>1, ServedInitially, ServedInductive, PTL DEF Spec
=============================================================================
