------------------------------ MODULE Gateway ------------------------------
(***************************************************************************)
(* The gateway where it has no stores of its own: gateway/server.py routes *)
(* a request to a site, gateway/resolver.py reads the site from remote     *)
(* relays and Blossom servers, one after the other, through                *)
(* RelayClient.query and BlossomClient.fetch.                              *)
(*                                                                         *)
(* Requests share no state, so one is followed at a time.  Its coroutine   *)
(* awaits a message of a relay or an answer of a server; meanwhile authors *)
(* go on publishing to the relays:                                         *)
(*    "route"     the host and the path are looked at                      *)
(*    "manifest"  messages of relay number asked, for the manifest         *)
(*    "posts"     messages of relay number asked, for a blog's posts       *)
(*    "blob"      the body that server number asked sends, read by read    *)
(*    "reply"     the page is known                                        *)
(* A relay is the table of EventTable.  One that is not Reliable may leave *)
(* out what it has, reorder it, send what was not asked for and what it    *)
(* made up, fall silent, or break the connection; a server that is not,    *)
(* send other bytes, none, or bytes without end.  The gateway verifies no  *)
(* signature of what it reads and compares neither author, kind nor d tag  *)
(* with what it asked for.                                                 *)
(***************************************************************************)
EXTENDS EventTable, Nsite

CONSTANTS
    Relays, Servers,    \* relay_urls, default_servers: sequences
    Reliable,           \* those of both that answer as they should
    Chatty, Dripping,   \* relays, and servers, that never stop sending
    Published,          \* the events that authors publish, to any relay
    Unasked, Malformed, \* what else a relay may send: forged or stray events;
                        \* those of them whose tags raise when they are read
    Blobs,              \* server -> the blobs it has
    Links,              \* the links that are followed: [host, path, means]
    Pubkey,             \* the labels that are npubs (or hex keys) -> the key
    Npub,               \* key -> its npub
    Numeric,            \* the labels of digits only
    MaxIgnored          \* bound: the needless messages of a relay, or reads of a
                        \* body, that a request waits for, unless they never stop

ASSUME GatewayAssumption ==
    /\ Relays \in Seq(ToSet(Relays)) \ {<<>>} /\ Servers \in Seq(ToSet(Servers))
    /\ \A label \in DOMAIN Pubkey : Pubkey[label] \in DOMAIN Npub
    /\ \A author \in DOMAIN Npub : Npub[author] \in DOMAIN Pubkey /\ Pubkey[Npub[author]] = author
    /\ Chatty \cap Reliable = {} /\ Dripping \cap Reliable = {}
    /\ "d" \in Letters
    /\ MaxIgnored \in Nat \ {0}

Sendable == Published \cup Unasked

(* Ids are hashes, where authors publish; a host has a label, if an empty  *)
(* one.                                                                    *)
ASSUME InputAssumption ==
    /\ IsFiniteSet(Published)
    /\ \A e, f \in Published : e.id = f.id => e = f
    /\ \A e \in Sendable : e.id \in Int /\ e.created_at \in Int /\ e.tags \in Seq(ToSet(e.tags))
    /\ Malformed \subseteq Unasked
    /\ \A l \in Links : /\ DOMAIN l = {"host", "path", "means"}
                       /\ l.host \in Seq(ToSet(l.host)) \ {<<>>} /\ l.path \in Seq(ToSet(l.path))

VARIABLES
    holds,          \* relay -> what it stores
    pc,
    link,           \* the request: its host's labels and its path
    site,           \* what it is routed to: [author, identifier, path]
    asked,          \* the number of the relay or server being asked
    coming,         \* the stored events a relay has not sent
    heard,          \* the needless messages, or reads, of the one that is asked
    out,            \* the events of the query so far
    newest, posts,  \* the manifest, as a set; the posts, in order
    page,           \* the answer, as a set
    before          \* history: what relays held when the request came

request == <<link, site, asked, coming, heard, out, newest, posts, page, before>>
vars    == <<holds, pc, request>>

NoLink  == [host |-> <<"">>, path |-> <<>>, means |-> "none"]
Nowhere == [author |-> "none", identifier |-> "", path |-> <<>>]

Nothing == [r \in {Relays[i] : i \in DOMAIN Relays} |-> Empty]

Init ==
    /\ holds = Nothing
    /\ pc = "idle"
    /\ link = NoLink
    /\ site = Nowhere
    /\ asked = 0 /\ coming = {} /\ heard = 0 /\ out = <<>>
    /\ newest = {} /\ posts = <<>> /\ page = {}
    /\ before = Nothing

-----------------------------------------------------------------------------
(* Routing. *)
ServeSite(author, path, identifier) ==
    /\ site' = [author |-> author, identifier |-> identifier, path |-> path]
    /\ pc' = "manifest"
    /\ UNCHANGED link

NamedHost(host) == Len(host) >= 2 /\ host[2] \in DOMAIN Pubkey

(* <npub>.<host> and <id>.<npub>.<host> *)
RouteByHost ==
    IF link.host[1] \in DOMAIN Pubkey
    THEN ServeSite(Pubkey[link.host[1]], link.path, "")
    ELSE /\ NamedHost(link.host)
         /\ ServeSite(Pubkey[link.host[2]], link.path, link.host[1])

(* A host of digits is an address, which has no subdomains. *)
BaseHost(host) == IF \A i \in DOMAIN host : host[i] \in Numeric THEN <<"localhost">> ELSE host

(* Mutant: the tail of a legacy link is dropped. *)
RedirectToRoot(author, path) ==
    /\ link' = [link EXCEPT !.host = <<Npub[author]>> \o BaseHost(@), !.path = <<"">>]
    /\ UNCHANGED <<pc, site>>

Redirect(author, path) ==
    /\ link' = [link EXCEPT !.host = <<Npub[author]>> \o BaseHost(@),
                            !.path = IF path = <<>> THEN <<"">> ELSE path]
    /\ UNCHANGED <<pc, site>>

Prefix(verb, n) == Len(link.path) >= n /\ link.path[1] = verb

From(n) == SubSeq(link.path, n, Len(link.path))

(* /n/<npub> and /n/<npub>/<path> redirect to the canonical host,          *)
(* /s/<npub>/<id> to itself with a slash, and /s/<npub>/<id>/<path> is     *)
(* served.                                                                 *)
RouteByPath ==
    /\ link.host[1] \notin DOMAIN Pubkey
    /\ ~NamedHost(link.host)
    /\ \/ /\ Prefix("n", 2)
          /\ link.path[2] \in DOMAIN Pubkey
          /\ Redirect(Pubkey[link.path[2]], From(3))
       \/ /\ Prefix("s", 3)
          /\ Len(link.path) = 3
          /\ link' = [link EXCEPT !.path = Append(@, "")]
          /\ UNCHANGED <<pc, site>>
       \/ /\ Prefix("s", 4)
          /\ link.path[2] \in DOMAIN Pubkey
          /\ ServeSite(Pubkey[link.path[2]], From(4), link.path[3])

Routable ==
    \/ link.host[1] \in DOMAIN Pubkey
    \/ NamedHost(link.host)
    \/ Prefix("n", 2) /\ link.path[2] \in DOMAIN Pubkey
    \/ Prefix("s", 3) /\ (Len(link.path) = 3 \/ link.path[2] \in DOMAIN Pubkey)

(* The landing page, 404, or 400 for what is no npub. *)
RouteNowhere ==
    /\ ~Routable
    /\ pc' = "reply"
    /\ UNCHANGED <<link, site>>

-----------------------------------------------------------------------------
(* RelayClient.query: one step per message, or per timeout. *)
ManifestFilter(s) ==
    IF s.identifier # ""
    THEN [authors |-> {s.author}, kinds |-> {KIND_NAMED},
          tags |-> [x \in {"d"} |-> {s.identifier}], limit |-> 1]
    ELSE [authors |-> {s.author}, kinds |-> {KIND_ROOT, KIND_LEGACY}, limit |-> 1]

PostsFilter(s) == [authors |-> {s.author}, kinds |-> {KIND_LONGFORM}]

Relay == Relays[asked]

(* A connection to relay number i and a REQ, after which nothing is heard. *)
AskRelay(i, flt) ==
    /\ asked' = i
    /\ coming' = IF i =< Len(Relays) THEN query(holds[Relays[i]], {flt}) ELSE {}
    /\ heard' = 0
    /\ out' = <<>>

Querying == pc \in {"manifest", "posts"}

(* Mutant: one more than there are. *)
MoreOrEqual(n, list) == n =< Len(list)

(* The loops over relays and servers go on. *)
More(n, list) == n < Len(list)

ReceiveEvent(e) ==
    /\ Querying
    /\ e \in coming
    /\ Relay \in Reliable => \A f \in coming : ~Beats(f, e)
    /\ out' = Append(out, e)
    /\ coming' = coming \ {e}
    /\ UNCHANGED <<holds, pc, link, site, asked, heard, newest, posts, page, before>>

(* What never stops is counted no further. *)
OneMoreNeedless ==
    /\ heard >= MaxIgnored
    /\ heard' \in {MaxIgnored, MaxIgnored + 1} \ {heard}

(* What else is sent in an EVENT of this subscription counts alike: only   *)
(* fields that are missing are noticed.                                    *)
ReceiveUnasked(e) ==
    /\ Querying
    /\ Relay \notin Reliable
    /\ heard < MaxIgnored
    /\ heard' = heard + 1
    /\ out' = Append(out, e)
    /\ UNCHANGED <<holds, pc, link, site, asked, coming, newest, posts, page, before>>

(* An event without its fields, a NOTICE, another subscription's message:  *)
(* the wait for the next message starts again.                             *)
ReceiveIgnored ==
    /\ Querying
    /\ Relay \notin Reliable
    /\ \/ heard < MaxIgnored /\ heard' = heard + 1
       \/ Relay \in Chatty /\ OneMoreNeedless
    /\ UNCHANGED <<holds, pc, link, site, asked, coming, out, newest, posts, page, before>>

(* Mutant: the first relay that has a manifest is believed. *)
FirstManifest(found, events) == IF found # {} \/ events = <<>> THEN found ELSE {Head(events)}

(* get_manifest keeps the newest, and of equally new ones the first. *)
NewestOf(found, events) ==
    FoldLeft(LAMBDA best, e :
                IF \A b \in best : e.created_at > b.created_at THEN {e} ELSE best,
             found, events)

(* get_posts keeps what it has not seen, by the id it comes with, in the   *)
(* order of arrival.                                                       *)
WithPosts(known, events) ==
    LET seen(i) == {e.id : e \in ToSet(known) \cup {events[j] : j \in 1..(i - 1)}}
    IN  known \o Selected(events, {i \in DOMAIN events : events[i].id \notin seen(i)})

Hints(m) == LET tagged == Selected(m.tags, Named(m, "server"))
            IN  [i \in DOMAIN tagged |-> tagged[i][2]]

Sources(m) == Hints(m) \o Servers

Wanted(m) == resolve_blob(ManifestPaths(m), site.path)

Reply(answer) ==
    /\ pc' = "reply"
    /\ page' = answer
    /\ asked' = 0 /\ coming' = {} /\ heard' = 0 /\ out' = <<>>

(* What the tags of a malformed event raise ends the request: a 500. *)
Failure == <<"error">>

(* resolve, once the relays have been asked for the manifest. *)
WithManifest ==
    \/ /\ newest' = {}
       /\ Reply({})
    \/ /\ newest' \cap Malformed # {}
       /\ Reply({Failure})
    \/ \E m \in newest' \ Malformed :
          \/ /\ first_tag(m, "app") = "blog"
             /\ pc' = "posts"
             /\ AskRelay(1, PostsFilter(site))
             /\ UNCHANGED page
          \/ /\ first_tag(m, "app") # "blog"
             /\ IF Wanted(m) = {} \/ Sources(m) = <<>> THEN Reply({})
                ELSE /\ pc' = "blob"
                     /\ asked' = 1 /\ coming' = {} /\ heard' = 0 /\ out' = <<>>
                     /\ UNCHANGED page

Stripped(path) == Selected(path, {i \in DOMAIN path : path[i] # ""})

Shown(e) == IF e \in Malformed THEN Failure ELSE <<"post", e.id>>

(* The first post of the list whose d tag is the slug, unless one before   *)
(* it raises.                                                              *)
PostOf(list, slug) ==
    LET same == {i \in DOMAIN list : list[i] \in Malformed \/ <<d_tag(list[i])>> = slug}
    IN  {Shown(list[i]) : i \in {j \in same : \A k \in same : j =< k}}

Index(list) ==
    IF ToSet(list) \cap Malformed # {} THEN Failure
    ELSE <<"index", {list[i].id : i \in DOMAIN list}>>

(* _resolve_blog *)
BlogPage(list) ==
    IF Stripped(site.path) \in {<<>>, <<"index.html">>}
    THEN {Index(list)}
    ELSE PostOf(list, Stripped(site.path))

(* The query is over with these events; the next relay, or the next step   *)
(* of resolve.                                                             *)
QueryOver(events) ==
    \/ /\ pc = "manifest"
       /\ newest' = NewestOf(newest, events)
       /\ \/ /\ More(asked, Relays)
             /\ AskRelay(asked + 1, ManifestFilter(site))
             /\ UNCHANGED <<pc, page>>
          \/ ~More(asked, Relays) /\ WithManifest
       /\ UNCHANGED posts
    \/ /\ pc = "posts"
       /\ posts' = WithPosts(posts, events)
       /\ \/ /\ More(asked, Relays)
             /\ AskRelay(asked + 1, PostsFilter(site))
             /\ UNCHANGED <<pc, page>>
          \/ ~More(asked, Relays) /\ Reply(BlogPage(posts'))
       /\ UNCHANGED newest

(* EOSE, CLOSED, or ten seconds without a message: what has come counts. *)
QueryEnds ==
    /\ Querying
    /\ Relay \in Reliable => coming = {}
    /\ QueryOver(out)
    /\ UNCHANGED <<holds, link, site, before>>

(* No connection, one that breaks, a message that is not JSON, a date that *)
(* is no number: the query raises, and what it has received is lost.       *)
QueryRaises ==
    /\ Querying
    /\ Relay \notin Reliable
    /\ QueryOver(<<>>)
    /\ UNCHANGED <<holds, link, site, before>>

-----------------------------------------------------------------------------
(* BlossomClient.fetch, which the gateway gives no max_bytes and httpx a   *)
(* timeout for each read.  A blob's bytes are named as its hash; Garbage   *)
(* are the bytes of any other.                                             *)
Garbage == "garbage"

Manifest == CHOOSE m \in newest : TRUE

Sha == CHOOSE sha \in Wanted(Manifest) : TRUE

Server == Sources(Manifest)[asked]

(* Mutant: the hash is not compared. *)
GoodAny(data) == TRUE

Good(data) == data = Sha

(* A part of the body, and not the last: the next read has a timeout of    *)
(* its own.                                                                *)
FetchMore ==
    /\ pc = "blob"
    /\ Server \notin Reliable
    /\ \/ heard < MaxIgnored /\ heard' = heard + 1
       \/ Server \in Dripping /\ OneMoreNeedless
    /\ UNCHANGED <<holds, pc, link, site, asked, coming, out, newest, posts, page, before>>

(* The bytes of a 200 hash to the name that was asked for. *)
FetchGood(data) ==
    /\ pc = "blob"
    /\ \/ data = Sha /\ Sha \in Blobs[Server]
       \/ data = Garbage /\ Server \notin Reliable
    /\ Good(data)
    /\ Reply({<<"blob", data>>})
    /\ UNCHANGED <<holds, link, site, newest, posts, before>>

(* Mutant: after the last server comes the first. *)
FetchFailsAround ==
    /\ pc = "blob"
    /\ Server \in Reliable => Sha \notin Blobs[Server]
    /\ asked' = IF More(asked, Sources(Manifest)) THEN asked + 1 ELSE 1
    /\ heard' = 0
    /\ UNCHANGED <<holds, pc, link, site, coming, out, newest, posts, page, before>>

(* They do not, there are none, or a read times out: on to the next        *)
(* server.                                                                 *)
FetchFails ==
    /\ pc = "blob"
    /\ Server \in Reliable => Sha \notin Blobs[Server]
    /\ IF More(asked, Sources(Manifest))
       THEN asked' = asked + 1 /\ heard' = 0 /\ UNCHANGED <<pc, coming, out, page>>
       ELSE Reply({})
    /\ UNCHANGED <<holds, link, site, newest, posts, before>>

-----------------------------------------------------------------------------
Request(l) ==
    /\ pc = "idle"
    /\ pc' = "route"
    /\ link' = l
    /\ before' = holds
    /\ UNCHANGED <<holds, site, asked, coming, heard, out, newest, posts, page>>

Route ==
    /\ pc = "route"
    /\ RouteByHost \/ RouteByPath \/ RouteNowhere
    /\ IF pc' = "manifest" THEN AskRelay(1, ManifestFilter(site'))
                           ELSE UNCHANGED <<asked, coming, heard, out>>
    /\ UNCHANGED <<holds, newest, posts, page, before>>

Replied ==
    /\ pc = "reply"
    /\ pc' = "idle"
    /\ link' = NoLink /\ site' = Nowhere
    /\ newest' = {} /\ posts' = <<>> /\ page' = {}
    /\ before' = Nothing
    /\ UNCHANGED <<holds, asked, coming, heard, out>>

(* An author publishes to a relay. *)
Publish(r, e) ==
    /\ Answer(holds[r], e) = "stored"
    /\ holds' = [holds EXCEPT ![r] = Write(@, e)]
    /\ UNCHANGED <<pc, request>>

Handle ==
    \/ Route
    \/ \E e \in coming : ReceiveEvent(e)
    \/ \E e \in Unasked : ReceiveUnasked(e)
    \/ ReceiveIgnored \/ QueryEnds \/ QueryRaises
    \/ FetchMore
    \/ \E data \in {Garbage} \cup UNION {Blobs[s] : s \in DOMAIN Blobs} : FetchGood(data)
    \/ FetchFails
    \/ Replied

Next ==
    \/ \E l \in Links : Request(l)
    \/ Handle
    \/ \E r \in DOMAIN holds, e \in Published : Publish(r, e)

(* Every single await is bounded by a timeout, after which the coroutine   *)
(* goes on; neither a query nor a download is bounded as a whole.          *)
Spec == Init /\ [][Next]_vars /\ WF_vars(Handle)

-----------------------------------------------------------------------------
TypeOK ==
    /\ \A r \in DOMAIN holds : holds[r].events \subseteq Published
    /\ pc \in {"idle", "route", "manifest", "posts", "blob", "reply"}
    /\ Querying => asked \in DOMAIN Relays
    /\ pc = "blob" => asked \in DOMAIN Sources(Manifest) /\ Wanted(Manifest) # {}
    /\ coming \subseteq Published
    /\ heard \in 0..(MaxIgnored + 1)
    /\ newest \subseteq Sendable /\ Cardinality(newest) =< 1
    /\ \A i \in DOMAIN posts : posts[i] \in Sendable
    /\ Cardinality(page) =< 1

ReliableRelays == DOMAIN holds \cap Reliable

Found(db, flt) == query(db, {flt})

Done == pc = "reply" /\ site # Nowhere

(* server.py:18-20, "so an old or hand-typed link still lands on the       *)
(* working URL": whatever form of link is followed, and through whichever  *)
(* redirects, the site and the path that are resolved are those the link   *)
(* stands for.                                                             *)
LinkLeadsHome ==
    pc \in {"manifest", "posts", "blob", "reply"} =>
        site.author = link.means.author /\ site.identifier = link.means.identifier
        /\ Stripped(site.path) = Stripped(link.means.path)

(* One reliable relay is enough against an old page: the event a page      *)
(* comes from is at least as new as any manifest that such a relay held    *)
(* when the request came, although others fail in the middle of an answer  *)
(* or hold old versions, and authors publish meanwhile.  It need not be    *)
(* the author's: a newer one that a relay made up wins.                    *)
FreshEnough ==
    Done => \A r \in ReliableRelays : \A m \in Found(before[r], ManifestFilter(site)) :
                \E n \in newest : n.created_at >= m.created_at

(* What hides the posts of other relays: an event that comes with the id   *)
(* of a post, or that raises.                                              *)
Impostors == Malformed \cup {f \in Unasked : \E g \in Published \ {f} : g.id = f.id}

(* One reliable source of a file, or of a post, is enough for the manifest *)
(* that was found, if its tags can be read.  The file it names is served,  *)
(* with the bytes it names, whichever servers before fail or send others;  *)
(* and a post of the name, unless a relay hides it behind an impostor.     *)
ServedIfAnyoneCan ==
    Done => \A m \in newest \ Malformed :
        IF first_tag(m, "app") = "blog"
        THEN \A r \in ReliableRelays : \A e \in Found(before[r], PostsFilter(site)) :
                \A answer \in {<<d_tag(e)>>} \ {<<"index.html">>} :
                    Stripped(site.path) = answer /\ ToSet(posts) \cap Impostors = {} =>
                        \E f \in Sendable : d_tag(f) = d_tag(e) /\ page = {<<"post", f.id>>}
        ELSE \A sha \in Wanted(m) :
                \/ page = {<<"blob", sha>>}
                \/ /\ page = {}
                   /\ \A i \in DOMAIN Sources(m) :
                         Sources(m)[i] \in Reliable => sha \notin Blobs[Sources(m)[i]]

(* resolver.py's remote sources: one relay that answers as it should keeps *)
(* old pages out, and one server is enough for a file, whatever the other  *)
(* relays send, forged and malformed events included.                      *)
OneSourceSuffices == FreshEnough /\ ServedIfAnyoneCan

(* The one that is asked never stops sending. *)
Detained == (Querying /\ Relay \in Chatty) \/ (pc = "blob" /\ Server \in Dripping)

(* A request is answered, whichever sources fail, fall silent or answer    *)
(* nonsense, unless one of them goes on sending for ever.  The code: the   *)
(* loops of resolver.py, the timeouts of each wait and of each read.       *)
RequestAnswered == pc = "route" ~> (pc = "reply" \/ []Detained)

(* relay_client.py:42, "so a relay that never sends EOSE can't hang the    *)
(* caller forever": every request is answered.                             *)
EveryRequestAnswered == pc = "route" ~> pc = "reply"

(* resolver.py:9, "the resolver works two ways without changing its        *)
(* logic": with nothing but reliable relays, the page is the one a gateway *)
(* would serve whose own store had received the events of all of them.     *)
Everything(db) == Winners(UNION {db[r].events : r \in DOMAIN db})

LocalManifest(db) ==
    LET fits == {m \in Everything(db) : matches(m, ManifestFilter(site))}
    IN  {m \in fits : \A n \in fits : ~Beats(n, m)}

LocalPosts(db) ==
    {<<"post", e.id>> : e \in {f \in Everything(db) : /\ matches(f, PostsFilter(site))
                                                      /\ <<d_tag(f)>> = Stripped(site.path)}}

RemoteAgreesWithLocal ==
    Done /\ before = holds /\ DOMAIN holds \subseteq Reliable =>
        /\ newest = LocalManifest(holds)
        /\ \A m \in newest :
              first_tag(m, "app") = "blog" /\ Stripped(site.path) \notin {<<>>, <<"index.html">>} =>
                  page = LocalPosts(holds)
=============================================================================
