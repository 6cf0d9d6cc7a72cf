----------------------------- MODULE Publishing -----------------------------
(***************************************************************************)
(* `pijn publish`, `post` and `blog` (publish.py, post.py, the clients)    *)
(* against a node's Blossom server (blob_store/server.py, auth.py), its    *)
(* relay and its gateway (gateway/resolver.py).                            *)
(*                                                                         *)
(* A publisher is one command line.  It uploads the files of a directory   *)
(* one after the other, then signs a manifest that names them and sends it *)
(* to the relay; it waits for every answer, and gives up when one says no  *)
(* or does not come.  The node handles a request in one step (the stores   *)
(* are called synchronously on its event loop), however late, also after   *)
(* its sender has given up; a request may be lost, and so may its answer;  *)
(* the node may crash, in the middle of a put() or a delete() too.  What   *)
(* pijn signs, SQLite can bind; another tool of the author may publish     *)
(* what it cannot, and store() raises with its transaction left open.      *)
(*                                                                         *)
(* Publishers have clocks of their own: created_at and the expiration of   *)
(* an upload token are theirs, and the node compares them with its own.    *)
(***************************************************************************)
EXTENDS EventTable, Nsite

CONSTANTS
    Publishers,
    Author,         \* [Publishers -> the key each signs with]
    Skew,           \* [Publishers -> how far ahead of the node its clock is]
    Jobs,           \* [Publishers -> what each may be told to publish]
    Refused,        \* the blobs over the server's size, or its policy excludes
    Barred,         \* the authors whose events the relay's policy excludes
    Foreign,        \* events that other tools of the authors publish
    Raising,        \* those at which store() raises if it gets to write them
    Deletable,      \* bound: the blobs that their owners delete
    Evictable,      \* bound: the blobs that the node evicts
    Ttl,            \* of an upload token
    MaxFuture,      \* how far ahead of the relay's clock an event may be
    MaxTime,        \* bound: the node's clock
    MaxEvents       \* bound: the events publishers sign

ASSUME PublishingAssumption ==
    /\ "nobody" \notin Publishers
    /\ \A p \in Publishers : Skew[p] \in Int
    /\ \A p \in Publishers : \A j \in Jobs[p] :
          /\ j.type \in {"site", "blog", "post"}
          /\ j.type = "site" => IsFiniteSet(DOMAIN j.files)
    /\ Ttl \in Nat /\ MaxFuture \in Nat /\ MaxTime \in Nat /\ MaxEvents \in Nat

(* A directory: files under names, none of which is a directory as well.   *)
ASSUME DirectoryAssumption ==
    \A p \in Publishers : \A j \in Jobs[p] : j.type = "site" =>
        \A path \in DOMAIN j.files :
            /\ path \in Seq(ToSet(path)) /\ path # <<>>
            /\ ToSet(path) \cap {"", ".", ".."} = {}
            /\ \A other \in DOMAIN j.files : IsPrefix(path, other) => path = other

(* An id is a hash of its event; ids and times are numbers. *)
ASSUME ForeignAssumption ==
    /\ \A e \in Foreign : e.id \in Int \ (1..MaxEvents) /\ e.created_at \in Int
    /\ \A e, f \in Foreign : e.id = f.id => e = f
    /\ Raising \subseteq Foreign

VARIABLES
    clock,      \* the node's
    db,         \* the event store, as its connection sees it
    disk,       \* what of it is committed
    files,      \* the blobs with a file
    owner,      \* the blobs with a row -> their uploader
    pc, job,    \* per publisher: "idle", "walk", "upload", "send"
    todo,       \* per publisher, the paths of its directory not yet uploaded
    current,    \* per publisher, the path or the event it waits for, as a set
    requests,   \* on their way to the node
    signed,     \* history: the events publishers have signed
    told,       \* history: those a publisher reported as published
    removed     \* history: the blobs deleted or evicted, and not put again since

node      == <<db, disk, files, owner>>
publisher == <<pc, job, todo, current>>
vars      == <<clock, node, publisher, requests, signed, told, removed>>

NoJob == [type |-> "none"]

Init ==
    /\ clock = 0
    /\ db = Empty
    /\ disk = Empty
    /\ files = {}
    /\ owner = [sha \in {} |-> ""]
    /\ pc = [p \in Publishers |-> "idle"]
    /\ job = [p \in Publishers |-> NoJob]
    /\ todo = [p \in Publishers |-> {}]
    /\ current = [p \in Publishers |-> {}]
    /\ requests = {}
    /\ signed = {}
    /\ told = {}
    /\ removed = {}

Keys == {Author[p] : p \in Publishers}

Now(p) == clock + Skew[p]

-----------------------------------------------------------------------------
(* The publisher. *)
Begin(p, j) ==
    /\ pc[p] = "idle"
    /\ Cardinality(signed) < MaxEvents
    /\ pc' = [pc EXCEPT ![p] = "walk"]
    /\ job' = [job EXCEPT ![p] = j]
    /\ todo' = [todo EXCEPT ![p] = IF j.type = "site" THEN DOMAIN j.files ELSE {}]
    /\ UNCHANGED <<clock, node, current, requests, signed, told, removed>>

(* BlossomClient.upload, with a token for this blob. *)
Upload(p, path) ==
    /\ pc[p] = "walk"
    /\ path \in todo[p]
    /\ pc' = [pc EXCEPT ![p] = "upload"]
    /\ current' = [current EXCEPT ![p] = {path}]
    /\ requests' = requests \cup
         {[from |-> p, verb |-> "upload", sha |-> job[p].files[path],
           pubkey |-> Author[p], expiration |-> Now(p) + Ttl]}
    /\ UNCHANGED <<clock, node, job, todo, signed, told, removed>>

(* What a job's event says. *)
EventOf(j) ==
    CASE j.type = "site" -> [kind |-> ManifestKind(j.identifier),
                             tags |-> ManifestTags(j.files, j.identifier, "")]
      [] j.type = "blog" -> [kind |-> ManifestKind(j.identifier),
                             tags |-> ManifestTags([x \in {} |-> ""], j.identifier, "blog")]
      [] j.type = "post" -> [kind |-> KIND_LONGFORM, tags |-> << <<"d", j.slug>> >>]

(* Mutant: the manifest goes out before the files. *)
SignAndSendFirst(p, i) ==
    /\ pc[p] = "walk"
    /\ \A e \in signed : e.id # i
    /\ LET e == [id |-> i, pubkey |-> Author[p], created_at |-> Now(p),
                 kind |-> EventOf(job[p]).kind, tags |-> EventOf(job[p]).tags]
       IN  /\ signed' = signed \cup {e}
           /\ requests' = requests \cup {[from |-> p, verb |-> "event", event |-> e]}
           /\ current' = [current EXCEPT ![p] = {e}]
    /\ pc' = [pc EXCEPT ![p] = "send"]
    /\ UNCHANGED <<clock, node, job, todo, told, removed>>

(* Every file is uploaded: RelayClient.publish of an event signed now, and *)
(* whose id falls anywhere among the others.                               *)
SignAndSend(p, i) ==
    /\ pc[p] = "walk"
    /\ todo[p] = {}
    /\ \A e \in signed : e.id # i
    /\ LET e == [id |-> i, pubkey |-> Author[p], created_at |-> Now(p),
                 kind |-> EventOf(job[p]).kind, tags |-> EventOf(job[p]).tags]
       IN  /\ signed' = signed \cup {e}
           /\ requests' = requests \cup {[from |-> p, verb |-> "event", event |-> e]}
           /\ current' = [current EXCEPT ![p] = {e}]
    /\ pc' = [pc EXCEPT ![p] = "send"]
    /\ UNCHANGED <<clock, node, job, todo, told, removed>>

(* Stops as it waits, whatever for. *)
Stops(p) ==
    /\ pc' = [pc EXCEPT ![p] = "idle"]
    /\ job' = [job EXCEPT ![p] = NoJob]
    /\ todo' = [todo EXCEPT ![p] = {}]
    /\ current' = [current EXCEPT ![p] = {}]

(* The requests of a publisher that is gone are handled all the same. *)
Orphaned(p) == {[r EXCEPT !.from = IF @ = p THEN "nobody" ELSE @] : r \in requests}

(* Mutant: no answer in time counts as one. *)
GiveUpPublished(p) ==
    /\ pc[p] \in {"upload", "send"}
    /\ told' = IF pc[p] = "send" THEN told \cup current[p] ELSE told
    /\ Stops(p)
    /\ requests' = Orphaned(p)
    /\ UNCHANGED <<clock, node, signed, removed>>

(* No answer in time, a broken connection, or Ctrl-C: an exception ends    *)
(* the command.                                                            *)
GiveUp(p) ==
    /\ pc[p] \in {"upload", "send"}
    /\ Stops(p)
    /\ requests' = Orphaned(p)
    /\ UNCHANGED <<clock, node, signed, told, removed>>

(* The publisher of an upload has its answer: on to the next file.         *)
Uploaded(p) ==
    /\ pc' = [pc EXCEPT ![p] = "walk"]
    /\ todo' = [todo EXCEPT ![p] = @ \ current[p]]
    /\ current' = [current EXCEPT ![p] = {}]
    /\ UNCHANGED <<job, told>>

(* OK with accepted true: the summary is printed. *)
Published(p) ==
    /\ told' = told \cup current[p]
    /\ Stops(p)

(* Mutant: the status of an upload is not looked at. *)
RejectedUnseen(p) ==
    /\ pc' = [pc EXCEPT ![p] = IF @ = "upload" THEN "walk" ELSE "idle"]
    /\ todo' = [todo EXCEPT ![p] = @ \ current[p]]
    /\ current' = [current EXCEPT ![p] = {}]
    /\ UNCHANGED <<job, told>>

(* raise_for_status, or an OK with accepted false. *)
Rejected(p) == Stops(p) /\ UNCHANGED told

-----------------------------------------------------------------------------
(* The node.  An answer reaches a publisher that still waits for it, or is *)
(* lost on the way.  A request that is lost is one that is never handled.  *)
NotReached == UNCHANGED <<publisher, told>>

Handled(r) ==
    /\ requests' = requests \ {r}
    /\ UNCHANGED <<clock, signed>>

(* verify_auth, the size limit and moderation. *)
Authorized(r) == r.expiration > clock /\ r.sha \notin Refused

(* put(): the first uploader of a blob is its owner. *)
HandleUpload(r) ==
    /\ r.verb = "upload"
    /\ Authorized(r)
    /\ files' = files \cup {r.sha}
    /\ owner' = [sha \in DOMAIN owner \cup {r.sha} |->
                    IF sha \in DOMAIN owner THEN owner[sha] ELSE r.pubkey]
    /\ removed' = removed \ {r.sha}
    /\ Handled(r)
    /\ NotReached \/ (r.from \in Publishers /\ Uploaded(r.from))
    /\ UNCHANGED <<db, disk>>

RefuseUpload(r) ==
    /\ r.verb = "upload"
    /\ ~Authorized(r)
    /\ Handled(r)
    /\ NotReached \/ (r.from \in Publishers /\ Rejected(r.from))
    /\ UNCHANGED <<node, removed>>

(* What the relay looks at before store(): the time and moderation. *)
Acceptable(e) == e.created_at =< clock + MaxFuture /\ e.pubkey \notin Barred

(* store() returns.  Only the answer "stored" comes after a commit, which  *)
(* takes with it whatever an earlier exception left uncommitted.           *)
Stores(e) ==
    IF Answer(db, e) = "stored" THEN db' = Write(db, e) /\ disk' = db'
                                ELSE UNCHANGED <<db, disk>>

(* store() raises: part of its statements, and no commit. *)
Raises(e) ==
    /\ e \in Raising
    /\ Answer(db, e) = "stored"
    /\ db' \in Leftovers(db, e)
    /\ UNCHANGED disk

(* OK says accepted whatever the store did with the event. *)
HandleEvent(r) ==
    /\ r.verb = "event"
    /\ Acceptable(r.event)
    /\ Stores(r.event)
    /\ Handled(r)
    /\ NotReached \/ (r.from \in Publishers /\ Published(r.from))
    /\ UNCHANGED <<files, owner, removed>>

RefuseEvent(r) ==
    /\ r.verb = "event"
    /\ ~Acceptable(r.event)
    /\ Handled(r)
    /\ NotReached \/ (r.from \in Publishers /\ Rejected(r.from))
    /\ UNCHANGED <<node, removed>>

Without(sha) == [b \in DOMAIN owner \ {sha} |-> owner[b]]

(* DELETE by the owner; another user's is answered 403 and does nothing. *)
DeleteBlob(u, sha) ==
    /\ sha \in DOMAIN owner
    /\ owner[sha] = u
    /\ files' = files \ {sha}
    /\ owner' = Without(sha)
    /\ removed' = removed \cup {sha}
    /\ UNCHANGED <<clock, db, disk, publisher, requests, signed, told>>

(* The replication controller makes room. *)
Evict(sha) ==
    /\ sha \in DOMAIN owner
    /\ files' = files \ {sha}
    /\ owner' = Without(sha)
    /\ removed' = removed \cup {sha}
    /\ UNCHANGED <<clock, db, disk, publisher, requests, signed, told>>

(* Mutant: put() adds the row before the file. *)
CrashRowFirst ==
    /\ requests' = {}
    /\ \E r \in requests : /\ r.verb = "upload" /\ Authorized(r)
                           /\ owner' = [sha \in DOMAIN owner \cup {r.sha} |->
                                          IF sha \in DOMAIN owner THEN owner[sha] ELSE r.pubkey]
    /\ db' = disk
    /\ UNCHANGED <<clock, disk, files, publisher, signed, told, removed>>

(* The node dies, and with it every connection and what it did not commit: *)
(* idle; or in put(), with the file renamed and no row; or in delete(),    *)
(* with no row and the file.                                               *)
Crash ==
    /\ requests' = {}
    /\ db' = disk
    /\ \/ UNCHANGED <<files, owner, removed>>
       \/ \E r \in requests : /\ r.verb = "upload" /\ Authorized(r)
                              /\ files' = files \cup {r.sha}
                              /\ UNCHANGED <<owner, removed>>
       \/ \E sha \in DOMAIN owner : /\ sha \in Deletable
                                    /\ owner' = Without(sha)
                                    /\ removed' = removed \cup {sha}
                                    /\ UNCHANGED files
    /\ UNCHANGED <<clock, disk, publisher, signed, told>>

Another(e) ==
    /\ e \notin signed
    /\ Acceptable(e)
    /\ Raises(e) \/ ((e \in Raising => Answer(db, e) # "stored") /\ Stores(e))
    /\ UNCHANGED <<clock, files, owner, publisher, requests, signed, told, removed>>

Tick ==
    /\ clock < MaxTime
    /\ clock' = clock + 1
    /\ UNCHANGED <<node, publisher, requests, signed, told, removed>>

Command(p) ==
    \/ \E j \in Jobs[p] : Begin(p, j)
    \/ \E path \in todo[p] : Upload(p, path)
    \/ \E i \in 1..MaxEvents : SignAndSend(p, i)
    \/ GiveUp(p)

Handle(r) ==
    HandleUpload(r) \/ RefuseUpload(r) \/ HandleEvent(r) \/ RefuseEvent(r)

Next ==
    \/ \E p \in Publishers : Command(p)
    \/ \E r \in requests : Handle(r)
    \/ \E sha \in Deletable, u \in Keys : DeleteBlob(u, sha)
    \/ \E sha \in Evictable : Evict(sha)
    \/ \E e \in Foreign : Another(e)
    \/ Crash
    \/ Tick

Spec == Init /\ [][Next]_vars

-----------------------------------------------------------------------------
(* The gateway: the manifest it reads, and the page it answers with, as    *)
(* sets of at most one.                                                    *)
Manifest(author, identifier) ==
    IF identifier = ""
    THEN query(db, {[authors |-> {author}, kinds |-> {KIND_ROOT, KIND_LEGACY}, limit |-> 1]})
    ELSE query(db, {[authors |-> {author}, kinds |-> {KIND_NAMED}, limit |-> 1,
                     tags |-> [x \in {"d"} |-> {identifier}]]})

Posts(author) == query(db, {[authors |-> {author}, kinds |-> {KIND_LONGFORM}]})

Stripped(path) == Selected(path, {i \in DOMAIN path : path[i] # ""})

(* _resolve_blog *)
BlogPage(author, path) ==
    IF Stripped(path) \in {<<>>, <<"index.html">>} THEN {<<"index", 0>>}
    ELSE {<<"post", e.id>> : e \in {f \in Posts(author) : <<d_tag(f)>> = Stripped(path)}}

(* Resolver.resolve, with local sources: the blob store's get() reads the  *)
(* file and does not look for a row.                                       *)
Page(author, identifier, path) ==
    UNION {IF first_tag(m, "app") = "blog" THEN BlogPage(author, path)
           ELSE {<<"blob", sha>> : sha \in resolve_blob(ManifestPaths(m), path) \cap files} :
             m \in Manifest(author, identifier)}

(* GET and HEAD of the Blossom server. *)
Fetchable(sha) == sha \in files /\ sha \in DOMAIN owner

-----------------------------------------------------------------------------
AllJobs == UNION {Jobs[p] : p \in Publishers}

Shas == UNION {{j.files[path] : path \in DOMAIN j.files} : j \in {k \in AllJobs : k.type = "site"}}

Identifiers == {j.identifier : j \in {k \in AllJobs : k.type # "post"}}

TypeOK ==
    /\ clock \in 0..MaxTime
    /\ db.events \cup disk.events \subseteq signed \cup Foreign
    /\ files \subseteq Shas
    /\ DOMAIN owner \subseteq files
    /\ \A sha \in DOMAIN owner : owner[sha] \in Keys
    /\ pc \in [Publishers -> {"idle", "walk", "upload", "send"}]
    /\ \A p \in Publishers : /\ job[p] \in Jobs[p] \cup {NoJob}
                             /\ Cardinality(current[p]) = IF pc[p] \in {"upload", "send"} THEN 1 ELSE 0
    /\ told \subseteq signed

(* publish.py:5-6: a manifest is published when its files are uploaded.    *)
(* Every file a published manifest names can be fetched from the Blossom   *)
(* server, unless it was deleted or evicted since it was last uploaded:    *)
(* whatever was refused, lost, late or cut off by a crash on the way.      *)
NoDangling ==
    \A e \in db.events \cap signed : \A path \in DOMAIN ManifestPaths(e) :
        ManifestPaths(e)[path] \in removed \/ Fetchable(ManifestPaths(e)[path])

(* What a command reported as published is what the relay holds for its    *)
(* slot, or a version that beats it is, unless its author has asked to     *)
(* delete that, or another tool of the author's has sent such a version    *)
(* that SQLite cannot bind (db.py:107-115 drops the older one first, and   *)
(* the next event commits that): no crash, no answer lost and nothing else *)
(* takes back what the relay said yes to.                                  *)
Withdrawn(f) == \E d \in Foreign : Acceptable(d) /\ Retracts(d, f)

Spoilt(f) == f \in Raising /\ Acceptable(f)

ToldIsCovered ==
    \A e \in told : \E f \in signed \cup Foreign :
        AtLeast(f, e) /\ (f \in db.events \/ Withdrawn(f) \/ Spoilt(f))

(* README.md:183-191: what was published can be browsed.  As long as the   *)
(* gateway reads the manifest a command reported, each file of the         *)
(* directory is served under its own path, unless it was deleted or        *)
(* evicted; and while it reads a blog's, each post the relay holds is      *)
(* served under its slug.                                                  *)
PublishedIsServed ==
    \A e \in told \cap db.events :
        /\ \A identifier \in Identifiers :
              e \in Manifest(e.pubkey, identifier) =>
                  \A path \in DOMAIN ManifestPaths(e) :
                      \/ ManifestPaths(e)[path] \in removed
                      \/ Page(e.pubkey, identifier, path) = {<<"blob", ManifestPaths(e)[path]>>}
        /\ e.kind = KIND_LONGFORM =>
              \A identifier \in Identifiers : \A m \in Manifest(e.pubkey, identifier) :
                  first_tag(m, "app") = "blog" =>
                      Page(e.pubkey, identifier, <<d_tag(e)>>) = {<<"post", e.id>>}

(* README.md:191, "Re-running `publish` is the update path: a fresh        *)
(* manifest is signed and the old one superseded": the last event an       *)
(* author signed for a slot is the one stored when the command reports it. *)
LatestOf(e) == \A f \in signed : Slot(f) = Slot(e) /\ f # e => e.created_at >= f.created_at

UpdateTakesEffect ==
    [][\A e \in told' \ told : LatestOf(e) => e \in db.events]_vars
=============================================================================
