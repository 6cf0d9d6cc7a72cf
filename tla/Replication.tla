---------------------------- MODULE Replication ----------------------------
(***************************************************************************)
(* replication.py, eviction.py: the controller that mirrors the sites of   *)
(* the policy into this node's event store and blob store, while the       *)
(* node's relay and Blossom server write to the same stores.               *)
(*                                                                         *)
(* The controller is one coroutine; code between two awaits is one step,   *)
(* and the other services run at its awaits:                               *)
(*    "starting"  run_forever has not called sync_all yet                  *)
(*    "manifest"  sync_site queries relays for lists, seeders, a manifest  *)
(*    "posts"     it queries relays for the posts of a blog                *)
(*    "size"      it asks the servers for the size of Head(todo)           *)
(*    "fetch"     it downloads Head(todo)                                  *)
(*    "asleep"    run_forever sleeps                                       *)
(*    "stopped"   the process has ended with an exception                  *)
(* The relays and servers asked are not named: an answer is what the       *)
(* newest-wins or first-that-answers loop over them ends with.  The event  *)
(* store is the table of EventTable (what SQLite refuses is in EventStore),*)
(* a blob is stored or not (BlobStore has the file and the row).           *)
(***************************************************************************)
EXTENDS EventTable, Moderation, Budget, SequencesExt

CONSTANTS
    Sites,          \* the policy's sites: a sequence of [pubkey, identifier, pin, storage_cap]
    StorageTotal, BlobMax,      \* bytes; 0 = no limit
    EvictionPolicy,     \* "manual" or "lru" ("popularity" has no statistics and is "lru")
    ProtectPinned,
    Shas, SizeOf,       \* the blobs there are, and Shas -> their sizes
    Events,         \* the signed events relays hold
    Stray,          \* those some relay returns whatever it is asked for
    Malformed,      \* those with a URL urlsplit refuses
    Tolds,          \* what HEAD may tell of any blob beside its size; 0: it tells none
    Arrivals,       \* the events clients send to this node's relay
    Uploads,        \* <<sha, user>> clients send to this node's Blossom server
    Deleters,       \* the users who delete their blobs there
    Found, Reachable,   \* the sites (indices) and blobs some source keeps answering for
    MaxTime, MaxDate,   \* bounds: of the clock in uploaded_at, of the date,
    MaxBytes            \* of the bytes counted in _node_bytes and in a day

ASSUME ReplicationAssumption ==
    /\ SizeOf \in [Shas -> Nat \ {0}] /\ Tolds \subseteq Nat
    /\ StorageTotal \in Nat /\ BlobMax \in Nat
    /\ \A i \in DOMAIN Sites : Sites[i].storage_cap \in Nat
    /\ Len(Sites) \in Nat \ {0} /\ DOMAIN Sites = 1..Len(Sites)
    /\ EvictionPolicy \in {"manual", "lru"}

(* What relays hold is finite; the blobs of manifests and uploads are among *)
(* those there are.                                                        *)
ASSUME WorldAssumption ==
    /\ IsFiniteSet(Events)
    /\ \A e \in Events :
          /\ Len(e.tags) \in Nat /\ DOMAIN e.tags = 1..Len(e.tags)
          /\ \A i \in DOMAIN e.tags : e.tags[i][1] = "path" => e.tags[i][2] \in Shas
    /\ \A u \in Uploads : u[1] \in Shas

VARIABLES
    db, blobs,      \* the stores; blobs: stored sha -> [owner, at]
    now, today, meter,
    pc, first,      \* first: run_forever's first sync_all, outside its try
    cur, todo,      \* the site being synced; the blobs it has not come to
    nodeBytes, siteBytes,   \* self._node_bytes, report["bytes"]
    told,           \* of the blob being fetched, the size HEAD told
    uploaded,       \* history: the blobs uploaded since _node_bytes was counted
    complete,       \* no file of the site was skipped or missing
    report          \* the last one returned: [site, result]

vars == <<db, blobs, now, today, meter, pc, first, cur, todo, nodeBytes,
          siteBytes, told, uploaded, complete, report>>

NoReport == [site |-> 0, result |-> "none"]

Init ==
    /\ db = Empty
    /\ blobs = [b \in {} |-> 0]
    /\ now = 1
    /\ today = 0
    /\ meter = roll(NoCounts, 0)
    /\ pc = "starting"
    /\ first = TRUE
    /\ cur = 1
    /\ todo = <<>>
    /\ nodeBytes = 0
    /\ siteBytes = 0
    /\ told = 0
    /\ uploaded = {}
    /\ complete = TRUE
    /\ report = NoReport

-----------------------------------------------------------------------------
KIND_ROOT     == 15128
KIND_NAMED    == 35128
KIND_LEGACY   == 34128
KIND_LONGFORM == 30023
KIND_RELAYS   == 10002
KIND_SEED     == 30888

site == Sites[cur]

SiteFilter(s) ==
    IF s.identifier # ""
    THEN [authors |-> {s.pubkey}, kinds |-> {KIND_NAMED},
          tags |-> [x \in {"d"} |-> {s.identifier}], limit |-> 1]
    ELSE [authors |-> {s.pubkey}, kinds |-> {KIND_ROOT, KIND_LEGACY}, limit |-> 1]

(* Mutant: every tag is taken for a path. *)
TagValuesInOrder(e) == [i \in DOMAIN e.tags |-> e.tags[i][2]]

(* parse_manifest: the blobs of the path tags, in order.  Path names are   *)
(* left out, and with them a path given twice, of which only the last blob *)
(* is kept.                                                                *)
Paths(e) ==
    FoldLeft(LAMBDA shas, t : IF t[1] = "path" THEN Append(shas, t[2]) ELSE shas, <<>>, e.tags)

PathSet(e) == tag_values(e, "path")

coord == <<IF site.identifier # "" THEN KIND_NAMED ELSE KIND_ROOT,
           site.pubkey, site.identifier>>

(* What the gateway and _protected_shas take for the site's manifest. *)
LocalManifest(s) == query(db, {SiteFilter(s)})

Stored(t, e) == IF Answer(t, e) = "stored" THEN Write(t, e) ELSE t

Used(S) == MapThenSumSet(LAMBDA b : SizeOf[b], S)

total_bytes == Used(DOMAIN blobs)

Put(sha, user) ==
    IF sha \in DOMAIN blobs THEN blobs
    ELSE [b \in DOMAIN blobs \cup {sha} |->
            IF b = sha THEN [owner |-> user, at |-> now] ELSE blobs[b]]

Without(S) == [b \in DOMAIN blobs \ S |-> blobs[b]]

-----------------------------------------------------------------------------
(* Eviction. *)
PinnedSites == {i \in DOMAIN Sites : Sites[i].pin}

ProtectedShas ==
    IF ~ProtectPinned THEN {}
    ELSE UNION {PathSet(e) : e \in
           UNION {LocalManifest(Sites[i]) : i \in PinnedSites}}

(* A set select_evictions may return: a prefix of the candidates by        *)
(* uploaded_at (those of one second in any order) that frees need bytes,   *)
(* if they all do, and would not without its last.                         *)
select_evictions(V, candidates, need) ==
    /\ V \subseteq candidates
    /\ \A v \in V, c \in candidates \ V : blobs[v].at =< blobs[c].at
    /\ Used(V) >= need \/ V = candidates
    /\ V # {} => \E v \in V : /\ \A w \in V : blobs[w].at =< blobs[v].at
                              /\ Used(V \ {v}) < need

(* _enforce_ceiling *)
MayEvict(V) ==
    IF EvictionPolicy = "manual" \/ StorageTotal = 0 \/ total_bytes =< StorageTotal
    THEN V = {}
    ELSE select_evictions(V, DOMAIN blobs \ ProtectedShas, total_bytes - StorageTotal)

-----------------------------------------------------------------------------
(* sync_all, called by run_forever: at once, and after every sleep. *)
SyncAll ==
    /\ pc \in {"starting", "asleep"}
    /\ \E V \in SUBSET DOMAIN blobs : MayEvict(V) /\ blobs' = Without(V)
    /\ nodeBytes' = Used(DOMAIN blobs')
    /\ uploaded' = {}
    /\ pc' = "manifest"
    /\ cur' = 1
    /\ siteBytes' = 0
    /\ complete' = TRUE
    /\ UNCHANGED <<db, now, today, meter, first, todo, told, report>>

(* sync_site returns: the next site, or sleep. *)
SiteEnds(result) ==
    /\ report' = [site |-> cur, result |-> result]
    /\ IF cur < Len(Sites) THEN cur' = cur + 1 /\ pc' = "manifest" /\ UNCHANGED first
                           ELSE cur' = 1 /\ pc' = "asleep" /\ first' = FALSE
    /\ todo' = <<>>
    /\ told' = 0
    /\ siteBytes' = 0
    /\ complete' = TRUE

(* sync_site raises: the first sync_all takes the process with it (gather),*)
(* a later one is abandoned, the sites that follow included.               *)
SiteRaises ==
    /\ pc' = IF first THEN "stopped" ELSE "asleep"
    /\ cur' = 1
    /\ todo' = <<>>
    /\ told' = 0
    /\ siteBytes' = 0
    /\ complete' = TRUE
    /\ UNCHANGED <<first, report>>

(* The loop over the manifest's paths goes on to the first blob that is    *)
(* not stored and awaits its size, or returns.                             *)
Advance(rest, stored, whole, bytes) ==
    LET absent == {i \in DOMAIN rest : rest[i] \notin stored}
    IN  \/ absent = {} /\ SiteEnds(IF whole THEN "complete" ELSE "partial")
        \/ /\ absent # {}
           /\ todo' = SubSeq(rest, Min(absent), Len(rest))
           /\ pc' = "size"
           /\ told' = 0
           /\ siteBytes' = bytes
           /\ complete' = whole
           /\ UNCHANGED <<cur, first, report>>

-----------------------------------------------------------------------------
(* A list of relays or a seeder's announcement with a URL that filter_safe *)
(* chokes on.                                                              *)
DiscoveryRaises ==
    /\ pc = "manifest"
    /\ \E e \in Malformed :
          \/ e.kind = KIND_RELAYS /\ e.pubkey = site.pubkey
          \/ e.kind = KIND_SEED /\ coord \in tag_values(e, "a")
    /\ SiteRaises
    /\ UNCHANGED <<db, blobs, now, today, meter, nodeBytes, uploaded>>

(* Mutant: raises. *)
NoManifestRaises ==
    /\ pc = "manifest"
    /\ SiteRaises
    /\ UNCHANGED <<db, blobs, now, today, meter, nodeBytes, uploaded>>

(* No relay answers with an event, or the newest is another author's. *)
NoManifest ==
    /\ pc = "manifest"
    /\ SiteEnds("not found")
    /\ UNCHANGED <<db, blobs, now, today, meter, nodeBytes, uploaded>>

(* The newest answer.  A relay that does its part answers what matches;    *)
(* _pull_newest checks the signature, sync_site the author.  What store()  *)
(* says is not looked at.                                                  *)
PullManifest(e) ==
    /\ pc = "manifest"
    /\ e \in Stray \/ matches(e, SiteFilter(site))
    /\ e.pubkey = site.pubkey
    /\ db' = Stored(db, e)
    /\ \/ e \in Malformed /\ SiteRaises
       \/ /\ e \notin Malformed
          /\ first_tag(e, "app") = "blog"
          /\ todo' = Paths(e)
          /\ pc' = "posts"
          /\ UNCHANGED <<cur, first, siteBytes, told, complete, report>>
       \/ /\ e \notin Malformed
          /\ first_tag(e, "app") # "blog"
          /\ Advance(Paths(e), DOMAIN blobs, TRUE, 0)
    /\ UNCHANGED <<blobs, now, today, meter, nodeBytes, uploaded>>

(* Every valid event of every answer is stored. *)
PullPosts(S) ==
    /\ pc = "posts"
    /\ \A e \in S : e \in Stray \/ matches(e, [authors |-> {site.pubkey}, kinds |-> {KIND_LONGFORM}])
    /\ db' = FoldSet(LAMBDA e, t : Stored(t, e), db, S)
    /\ Advance(todo, DOMAIN blobs, TRUE, 0)
    /\ UNCHANGED <<blobs, now, today, meter, nodeBytes, uploaded>>

-----------------------------------------------------------------------------

(* continue: a file is skipped or missing, the next ones are not. *)
Skip ==
    /\ Advance(Tail(todo), DOMAIN blobs, FALSE, siteBytes)
    /\ UNCHANGED <<db, blobs, now, today, nodeBytes, uploaded>>

(* HEAD: the size, or whatever the first server that answers says instead  *)
(* (SPEC.md:316, "HEAD sizes are advisory only"); 0 when none tells one.   *)
Heads(sha) == {SizeOf[sha]} \cup Tolds

(* The node's ceiling, the site's cap. *)
OverCaps(size) ==
    /\ ~site.pin
    /\ \/ StorageTotal # 0 /\ nodeBytes + size > StorageTotal
       \/ site.storage_cap # 0 /\ siteBytes + size > site.storage_cap

(* Mutant: a pin bypasses the budget too. *)
BudgetUnlessPinned(m, size) == site.pin \/ Allows(m, size)

WithinBudget(m, size) == Allows(m, size)

(* Every test is skipped for a size that is 0 or unknown; the meter is     *)
(* asked last, and rolls.                                                  *)
SizeTold(size) ==
    /\ pc = "size"
    /\ LET m == roll(meter, today)
           asked == size # 0 /\ ~OverCaps(size)
       IN  /\ meter' = IF asked THEN m ELSE meter
           /\ \/ /\ size # 0 /\ (OverCaps(size) \/ ~WithinBudget(m, size))
                 /\ Skip
              \/ /\ size = 0 \/ (asked /\ WithinBudget(m, size))
                 /\ pc' = "fetch"
                 /\ told' = size
                 /\ UNCHANGED <<db, blobs, now, today, nodeBytes, first, cur, todo,
                                siteBytes, uploaded, complete, report>>

(* A counter that no cap reads is not kept. *)
Metered(n) ==
    IF DayCap = 0 /\ MonthCap = 0 THEN meter ELSE Recorded(roll(meter, today), n)

(* Mutant: the node's bytes are only counted anew by the next sync_all. *)
NodeBytesStale(n) == nodeBytes

NodeBytesWith(n) == nodeBytes + n

(* The first server that has the blob, with the bytes of its hash and not  *)
(* more than BlobMax of them.                                              *)
Fetched ==
    /\ pc = "fetch"
    /\ LET sha == Head(todo)
       IN  /\ BlobMax # 0 => SizeOf[sha] =< BlobMax
           /\ Max({nodeBytes, roll(meter, today).day}) + SizeOf[sha] =< MaxBytes
           /\ blobs' = Put(sha, site.pubkey)
           /\ meter' = Metered(SizeOf[sha])
           /\ nodeBytes' = NodeBytesWith(SizeOf[sha])
           /\ Advance(Tail(todo), DOMAIN blobs', complete, siteBytes + SizeOf[sha])
    /\ UNCHANGED <<db, now, today, uploaded>>

Missing ==
    /\ pc = "fetch"
    /\ Skip
    /\ UNCHANGED meter

-----------------------------------------------------------------------------
(* The other services, at an await; both consult moderation. *)
ReceiveEvent(e) ==
    /\ Carries(e.id, e.pubkey)
    /\ db' = Stored(db, e)
    /\ UNCHANGED <<blobs, now, today, meter, pc, first, cur, todo, nodeBytes,
                   siteBytes, told, uploaded, complete, report>>

Upload(sha, user) ==
    /\ Carries(sha, user)
    /\ BlobMax # 0 => SizeOf[sha] =< BlobMax
    /\ blobs' = Put(sha, user)
    /\ uploaded' = uploaded \cup ({sha} \ DOMAIN blobs)
    /\ UNCHANGED <<db, now, today, meter, pc, first, cur, todo, nodeBytes,
                   siteBytes, told, complete, report>>

DeleteBlob(sha, user) ==
    /\ sha \in DOMAIN blobs /\ blobs[sha].owner = user
    /\ blobs' = Without({sha})
    /\ uploaded' = uploaded \ {sha}
    /\ UNCHANGED <<db, now, today, meter, pc, first, cur, todo, nodeBytes,
                   siteBytes, told, complete, report>>

Tick ==
    /\ \/ now < MaxTime /\ now' = now + 1 /\ UNCHANGED today
       \/ today < MaxDate /\ today' = today + 1 /\ UNCHANGED now
    /\ UNCHANGED <<db, blobs, meter, pc, first, cur, todo, nodeBytes, siteBytes,
                   told, uploaded, complete, report>>

(* The process ends, in any way, and is started again: __init__ reads the  *)
(* stores and the meter's file.                                            *)
Restart ==
    /\ pc' = "starting"
    /\ first' = TRUE
    /\ cur' = 1
    /\ todo' = <<>>
    /\ nodeBytes' = total_bytes
    /\ uploaded' = {}
    /\ told' = 0
    /\ meter' = roll(meter, today)
    /\ siteBytes' = 0
    /\ complete' = TRUE
    /\ report' = NoReport
    /\ UNCHANGED <<db, blobs, now, today>>

Controller ==
    \/ SyncAll
    \/ DiscoveryRaises \/ NoManifest \/ \E e \in Events : PullManifest(e)
    \/ \E S \in SUBSET {e \in Events : e \in Stray \/ e.kind = KIND_LONGFORM} : PullPosts(S)
    \/ todo # <<>> /\ \E size \in Heads(Head(todo)) : SizeTold(size)
    \/ Fetched \/ Missing

Services ==
    \/ \E e \in Arrivals : ReceiveEvent(e)
    \/ \E u \in Uploads : Upload(u[1], u[2])
    \/ \E sha \in Shas, user \in Deleters : DeleteBlob(sha, user)

Next == Controller \/ Services \/ Tick \/ Restart

Spec == Init /\ [][Next]_vars

(* While the node stays up: the event loop resumes the controller; the     *)
(* sources of Found and Reachable answer again and again.                  *)
Fairness ==
    /\ WF_vars(Controller)
    /\ \A i \in Found, e \in Events : SF_vars(cur = i /\ PullManifest(e))
    /\ \A sha \in Reachable : /\ SF_vars(todo # <<>> /\ Head(todo) = sha /\ SizeTold(SizeOf[sha]))
                              /\ SF_vars(todo # <<>> /\ Head(todo) = sha /\ Fetched)

FairSpec == Init /\ [][Controller \/ Services \/ Tick]_vars /\ Fairness

-----------------------------------------------------------------------------
Results == {"none", "not found", "partial", "complete"}

(* The size of what is on disk is known, and so is what is awaited. *)
TypeOK ==
    /\ db.events \subseteq Events \cup Arrivals
    /\ DOMAIN blobs \subseteq Shas
    /\ pc \in {"starting", "manifest", "posts", "size", "fetch", "asleep", "stopped"}
    /\ first \in BOOLEAN /\ complete \in BOOLEAN
    /\ cur \in DOMAIN Sites
    /\ \A i \in DOMAIN todo : todo[i] \in Shas
    /\ pc \in {"size", "fetch"} => todo # <<>>
    /\ nodeBytes \in Nat /\ siteBytes \in Nat
    /\ told \in Nat /\ (told # 0 => pc = "fetch")
    /\ uploaded \subseteq DOMAIN blobs
    /\ report.site \in 0..Len(Sites) /\ report.result \in Results

(* A blob the controller stores. *)
Mirrors(sha) == pc = "fetch" /\ pc' # "fetch" /\ sha \in DOMAIN blobs' \ DOMAIN blobs

(* replication.py:18, "a node-wide `storage_total` is a hard ceiling":     *)
(* what is mirrored for a site without a pin leaves the node at or below   *)
(* it, whatever was fetched, uploaded, deleted or evicted before.          *)
HardCeiling ==
    [][\A sha \in Shas : Mirrors(sha) /\ ~site.pin /\ StorageTotal # 0
          => Used(DOMAIN blobs') =< StorageTotal]_vars

(* The bytes of the download that HEAD had not told of. *)
Unannounced ==
    IF told >= SizeOf[Head(todo)] THEN 0 ELSE SizeOf[Head(todo)] - told

(* Both limits of sync_site hold across its awaits, midnights and restarts *)
(* for every blob whose size some server told: but for its own bytes that  *)
(* HEAD did not tell of, it leaves the node's blobs, those aside that were *)
(* uploaded since sync_all last counted, within the ceiling, and the day   *)
(* within its cap.  That holds whatever was told, or not told, of the      *)
(* blobs fetched before it, and whatever was deleted or evicted meanwhile. *)
CapsHold ==
    [][\A sha \in Shas : Mirrors(sha) /\ told # 0 =>
          /\ ~site.pin /\ StorageTotal # 0 =>
                Used(DOMAIN blobs' \ uploaded) =< StorageTotal + Unannounced
          /\ DayCap # 0 => meter'.day =< DayCap + Unannounced]_vars

(* replication.py:6, "After a sync, this node's gateway serves the site    *)
(* from local storage": when sync_site reports that no file was skipped or *)
(* missing, the files of the manifest the gateway reads are stored.        *)
ServedAfterSync ==
    [][report' # report /\ report'.result = "complete" =>
          \A e \in LocalManifest(Sites[report.site])' :
              PathSet(e) \subseteq DOMAIN blobs']_vars

(* SPEC.md:174, "file-level cap; subset kept if site exceeds it": the      *)
(* files mirrored for a site without a pin stay within its storage_cap.    *)
SiteCapHeld ==
    \A i \in DOMAIN Sites : ~Sites[i].pin /\ Sites[i].storage_cap # 0 =>
        Used({b \in DOMAIN blobs : blobs[b].owner = Sites[i].pubkey}) =< Sites[i].storage_cap

(* SPEC.md:302, moderation is "applied at three points: relay event        *)
(* ingest, Blossom upload, and replication".                               *)
OnlyCarriedStored ==
    /\ \A e \in db.events : Carries(e.id, e.pubkey)
    /\ \A b \in DOMAIN blobs : Carries(b, blobs[b].owner)

(* replication.py:64, "return the newest valid, matching event": what is   *)
(* mirrored as a site's manifest is one.                                   *)
MirrorsManifest ==
    [][\A e \in Events : PullManifest(e) => matches(e, SiteFilter(site))]_vars

(* replication.py:4, "For each site in policy `sites:`, it pulls the       *)
(* site's manifest": while the daemon goes on, no site is left out.        *)
EverySiteSynced ==
    []<>(pc = "asleep") => \A i \in DOMAIN Sites : []<>(pc = "manifest" /\ cur = i)

(* replication.py:253, "transient relay/blob errors: try again next        *)
(* cycle": the daemon goes on syncing.                                     *)
KeepsSyncing == []<>(pc = "manifest")

(* A file that some server keeps offering is mirrored in the end, whatever *)
(* happens to the other files of its site and to the other sites.          *)
EachMirrored == \A sha \in Reachable : <>(sha \in DOMAIN blobs)

=============================================================================
