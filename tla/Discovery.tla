----------------------------- MODULE Discovery -----------------------------
(***************************************************************************)
(* How a sync finds its sources: discovery.py, netguard.py and the part of *)
(* replication.py's sync_site that asks them, up to the first file.  Other *)
(* nodes run `pijn announce` meanwhile.                                    *)
(*                                                                         *)
(* The sync awaits the answer to one query at a time; a query's messages   *)
(* are followed in Gateway, the caps and the stores in Replication:        *)
(*    "lists"          relays[asked] is asked for the author's relay list  *)
(*    "announcements"  ... for announcements of the site                   *)
(*    "manifest"       ... for the site's manifest                         *)
(*    "blob"           sources[asked] is asked for the manifest's file     *)
(*    "done", "stopped"  sync_site has returned, or raised                 *)
(* Relays in the domain of holds answer as they should where the transport *)
(* reaches them; any other relay sends, of the events that exist, what it  *)
(* likes, or fails.                                                        *)
(***************************************************************************)
EXTENDS EventTable, Nsite

CONSTANTS
    SourceRelays, DefaultServers,  \* the operator's relays and servers, sequences
    Author, Identifier,            \* the site
    Url,            \* url -> [scheme, host, addresses]: what urlsplit and DNS make of it
    Malformed,      \* the urls urlsplit refuses
    Public,         \* the public addresses
    allow_private,
    Proxy,          \* the site's transport: "none" or "socks"
    Relays,         \* the relays that answer as they should
    Blobs,          \* such a server -> the blobs it has
    Manifests,      \* the site's manifests, signed by now
    ManifestRelays, \* where they are published and mirrored
    Policies,       \* announce command -> [pubkey, now, ids, read, write, server, seeds]
    Stray,          \* whether other relays send events the filter does not select
    MaxMoves        \* bound: steps of other nodes during a sync

ASSUME DiscoveryAssumption ==
    /\ SourceRelays \in Seq(DOMAIN Url) \ {<<>>} /\ DefaultServers \in Seq(DOMAIN Url)
    /\ {"a", "d"} \subseteq Letters
    /\ \A c \in DOMAIN Policies :
          LET p == Policies[c]
          IN  p.write \in Seq(DOMAIN Url) /\ p.seeds \in Seq(ToSet(p.seeds))
    /\ Proxy \in {"none", "socks"} /\ {allow_private, Stray} \subseteq BOOLEAN
    /\ ManifestRelays \subseteq Relays

VARIABLES
    holds,          \* relay -> what it stores
    sent,           \* announce command -> the publish calls it has made
    moves,          \* steps of other nodes since the sync began
    pc, asked,
    relays,         \* the relays the sync knows
    newest,         \* the newest relay list, or manifest, so far: a set
    announced,      \* the announcements, in order
    sources,        \* the announced servers; with the manifest, all servers
    contacted,      \* history: urls asked
    data,           \* the file, as a set
    before          \* history: what relays held when the sync began

others == <<holds, sent, moves>>
sync   == <<pc, asked, relays, newest, announced, sources, contacted, data, before>>
vars   == <<others, sync>>

Nothing == [r \in Relays |-> Empty]

-----------------------------------------------------------------------------
(* Relay lists and announcements. *)
KIND_RELAY_LIST == 10002
KIND_SEED       == 30888

site_coord(kind, author, identifier) == <<kind, author, identifier>>

SiteKind(identifier) == IF identifier = "" THEN KIND_ROOT ELSE KIND_NAMED

Tagged(name, values) == [i \in DOMAIN values |-> <<name, values[i]>>]

build_relay_list_event(p) ==
    LET marker(url) == IF url \notin ToSet(p.write) THEN "read"
                       ELSE IF url \notin ToSet(p.read) THEN "write" ELSE ""
        urls == SetToSeq(ToSet(p.read) \cup ToSet(p.write))
    IN  [id |-> p.ids[1], pubkey |-> p.pubkey, created_at |-> p.now, kind |-> KIND_RELAY_LIST,
         tags |-> [i \in DOMAIN urls |-> <<"r", urls[i], marker(urls[i])>>]]

build_seed_announcement(p, coord, id) ==
    [id |-> id, pubkey |-> p.pubkey, created_at |-> p.now, kind |-> KIND_SEED,
     tags |-> << <<"d", coord>>, <<"a", coord>> >>
              \o Tagged("server", <<p.server>>) \o Tagged("relay", p.write)]

(* What an announce command signs. *)
Announced(p) ==
    <<build_relay_list_event(p)>>
    \o [i \in DOMAIN p.seeds |-> build_seed_announcement(p, p.seeds[i], p.ids[i + 1])]

(* Every event that anybody may sign. *)
Signable == Manifests \cup UNION {ToSet(Announced(Policies[c])) : c \in DOMAIN Policies}

relays_from_event(e) ==
    LET tags == Selected(e.tags, {i \in Named(e, "r") : e.tags[i][3] \in {"", "write"}})
    IN  [i \in DOMAIN tags |-> tags[i][2]]

Values(e, name) ==
    LET tags == Selected(e.tags, Named(e, name))
    IN  [i \in DOMAIN tags |-> tags[i][2]]

(* All values of the tags of this name, of events in order. *)
Collected(events, name) ==
    FoldLeft(LAMBDA urls, e : urls \o Values(e, name), <<>>, events)

-----------------------------------------------------------------------------
(* netguard.py and transport/config.py *)
is_safe_public_url(url) ==
    /\ Url[url].scheme \in {"http", "https", "ws", "wss"}
    /\ Url[url].host # "none"
    /\ \/ allow_private
       \/ Url[url].host = "onion"
       \/ Url[url].addresses # {} /\ Url[url].addresses \subseteq Public

(* Mutant: one public address is enough. *)
filter_any(urls) ==
    Selected(urls, {i \in DOMAIN urls : \/ Url[urls[i]].host = "onion"
                                       \/ Url[urls[i]].addresses \cap Public # {}})

filter_safe(urls) == Selected(urls, {i \in DOMAIN urls : is_safe_public_url(urls[i])})

Raises(urls) == ToSet(urls) \cap Malformed # {}

proxy_url == Proxy

proxy_for_url(url) == IF Url[url].host = "loopback" THEN "none" ELSE proxy_url

(* Tor reaches onion services, and nothing on this machine. *)
Reaches(url, proxy) ==
    /\ Url[url].host = "onion" => proxy = "socks"
    /\ Url[url].host = "loopback" => proxy = "none"

-----------------------------------------------------------------------------
(* The sync. *)
Unique(urls) == Selected(urls, {i \in DOMAIN urls : \A j \in 1..(i - 1) : urls[j] # urls[i]})

ListFilter == [authors |-> {Author}, kinds |-> {KIND_RELAY_LIST}, limit |-> 1]

Coord == site_coord(SiteKind(Identifier), Author, Identifier)

SeedFilter == [kinds |-> {KIND_SEED}, tags |-> [x \in {"a"} |-> {Coord}], limit |-> 100]

SiteFilter ==
    IF Identifier # ""
    THEN [authors |-> {Author}, kinds |-> {KIND_NAMED},
          tags |-> [x \in {"d"} |-> {Identifier}], limit |-> 1]
    ELSE [authors |-> {Author}, kinds |-> {KIND_ROOT, KIND_LEGACY}, limit |-> 1]

(* Ids are hashes; what urls name is known of each; the manifests are the  *)
(* site's.                                                                 *)
ASSUME SignableAssumption ==
    /\ IsFiniteSet(Signable)
    /\ \A e, f \in Signable : e.id = f.id => e = f
    /\ \A e \in Signable :
          /\ e.id \in Int /\ e.created_at \in Int
          /\ e.tags \in Seq(ToSet(e.tags))
          /\ UNION {tag_values(e, name) : name \in {"r", "relay", "server"}} \subseteq DOMAIN Url
    /\ \A m \in Manifests : matches(m, SiteFilter)

Filter ==
    CASE pc = "lists"         -> ListFilter
      [] pc = "announcements" -> SeedFilter
      [] pc = "manifest"      -> SiteFilter

(* Every event that somebody has signed. *)
Existing ==
    Manifests \cup UNION {ToSet(Announced(Policies[c])) : c \in {d \in DOMAIN sent : sent[d] > 0}}

(* What query() may return; nothing, too, where it raises. *)
Answers(url) ==
    IF url \in Relays /\ Reaches(url, proxy_url)
    THEN {events \in SetToSeqs(query(holds[url], {Filter})) :
             \A i, j \in DOMAIN events : i < j => Beats(events[i], events[j])}
    ELSE UNION {SetToSeqs(some) : some \in
                   SUBSET {e \in Existing : Stray \/ matches(e, Filter)}}

NewestOf(found, events) ==
    FoldLeft(LAMBDA best, e :
                IF \A b \in best : e.created_at > b.created_at THEN {e} ELSE best,
             found, events)

OfAuthor(e) == e.pubkey = Author

ByAuthor(events) == Selected(events, {i \in DOMAIN events : OfAuthor(events[i])})

(* Those of the events that are not known yet, after the known ones. *)
WithEvents(known, events) ==
    LET seen(i) == {e.id : e \in ToSet(known) \cup {events[j] : j \in 1..(i - 1)}}
    IN  known \o Selected(events, {i \in DOMAIN events : events[i].id \notin seen(i)})

Stop ==
    /\ pc' = "stopped"
    /\ UNCHANGED <<relays, sources>>

(* Mutant: the discovered relays replace the operator's. *)
LearnInstead(urls, stage) ==
    IF Raises(urls) THEN Stop
    ELSE /\ relays' = filter_safe(urls)
         /\ pc' = stage
         /\ UNCHANGED sources

(* filter_safe raises, or the sync goes on to this stage with the relays   *)
(* it knew and the safe ones of these.                                     *)
LearnRelays(urls, stage) ==
    IF Raises(urls) THEN Stop
    ELSE /\ relays' = Unique(relays \o filter_safe(urls))
         /\ pc' = stage
         /\ UNCHANGED sources

(* Mutant: the announced relays are left out. *)
LearnNoSeeders(servers, urls) ==
    IF Raises(servers) \/ Raises(urls) THEN Stop
    ELSE /\ pc' = "manifest"
         /\ sources' = filter_safe(servers)
         /\ UNCHANGED relays

LearnSeeders(servers, urls) ==
    IF Raises(servers) \/ Raises(urls) THEN Stop
    ELSE /\ relays' = Unique(relays \o filter_safe(urls))
         /\ pc' = "manifest"
         /\ sources' = filter_safe(servers)

Hints(m) == Values(m, "server")

Files(m) == {m.tags[i][3] : i \in Named(m, "path")}

LearnHints(m) ==
    IF Raises(Hints(m)) THEN Stop
    ELSE /\ sources' = Unique(filter_safe(Hints(m)) \o sources \o DefaultServers)
         /\ pc' = IF Files(m) = {} \/ sources' = <<>> THEN "done" ELSE "blob"
         /\ UNCHANGED relays

NotFound ==
    /\ pc' = "done"
    /\ UNCHANGED <<relays, sources>>

(* The last relay of a stage has answered; found is its newest event. *)
StageOver(found, list) ==
    /\ asked' = 1
    /\ newest' = IF pc = "lists" THEN {} ELSE found
    /\ CASE pc = "lists" ->
              LearnRelays(IF found = {} THEN <<>>
                          ELSE relays_from_event(CHOOSE e \in found : TRUE), "announcements")
         [] pc = "announcements" ->
              LearnSeeders(Collected(list, "server"), Collected(list, "relay"))
         [] pc = "manifest" ->
              IF \A m \in found : ~OfAuthor(m) THEN NotFound
              ELSE \E m \in found : LearnHints(m)

Asking == pc \in {"lists", "announcements", "manifest"}

Answered ==
    /\ Asking
    /\ contacted' = contacted \cup {relays[asked]}
    /\ \E events \in Answers(relays[asked]) :
          LET found == CASE pc = "lists"         -> NewestOf(newest, ByAuthor(events))
                         [] pc = "announcements" -> newest
                         [] pc = "manifest"      -> NewestOf(newest, events)
              list  == IF pc = "announcements" THEN WithEvents(announced, events) ELSE announced
          IN  /\ announced' = list
              /\ IF asked < Len(relays)
                 THEN /\ asked' = asked + 1
                      /\ newest' = found
                      /\ UNCHANGED <<pc, relays, sources>>
                 ELSE StageOver(found, list)
    /\ UNCHANGED <<others, data, before>>

File == CHOOSE sha \in UNION {Files(m) : m \in newest} : TRUE

Server == sources[asked]

Honest(url) == url \in DOMAIN Blobs /\ Reaches(url, proxy_url)

Fetched ==
    /\ pc = "blob"
    /\ Honest(Server) => File \in Blobs[Server]
    /\ data' = {File}
    /\ pc' = "done"
    /\ contacted' = contacted \cup {Server}
    /\ UNCHANGED <<others, asked, relays, newest, announced, sources, before>>

FetchFails ==
    /\ pc = "blob"
    /\ Honest(Server) => File \notin Blobs[Server]
    /\ contacted' = contacted \cup {Server}
    /\ IF asked < Len(sources) THEN asked' = asked + 1 /\ UNCHANGED pc
                               ELSE pc' = "done" /\ UNCHANGED asked
    /\ UNCHANGED <<others, relays, newest, announced, sources, data, before>>

Begin ==
    /\ pc = "idle"
    /\ pc' = "lists" /\ asked' = 1
    /\ relays' = SourceRelays
    /\ before' = holds
    /\ UNCHANGED <<others, newest, announced, sources, contacted, data>>

(* sync_site's locals are gone. *)
Return ==
    /\ pc \in {"done", "stopped"}
    /\ pc' = "idle" /\ asked' = 0 /\ relays' = <<>>
    /\ newest' = {} /\ announced' = <<>> /\ sources' = <<>>
    /\ contacted' = {} /\ data' = {}
    /\ before' = Nothing
    /\ moves' = 0
    /\ UNCHANGED <<holds, sent>>

-----------------------------------------------------------------------------
(* The others. *)
Store(r, e) ==
    holds' = IF Answer(holds[r], e) = "stored" THEN [holds EXCEPT ![r] = Write(@, e)] ELSE holds

Move ==
    /\ pc # "idle" => moves < MaxMoves
    /\ moves' = IF pc = "idle" THEN 0 ELSE moves + 1
    /\ UNCHANGED sync

(* `pijn announce`: one publish call after the other, event by event and   *)
(* target by target; one that fails is reported and no more.               *)
Announce(c) ==
    LET p      == Policies[c]
        event  == Announced(p)[(sent[c] \div Len(p.write)) + 1]
        target == p.write[(sent[c] % Len(p.write)) + 1]
    IN  /\ sent[c] < Len(Announced(p)) * Len(p.write)
        /\ sent' = [sent EXCEPT ![c] = @ + 1]
        /\ \/ target \in Relays /\ Store(target, event)
           \/ UNCHANGED holds
        /\ Move

Publish(r, m) ==
    /\ Answer(holds[r], m) = "stored"
    /\ Store(r, m)
    /\ UNCHANGED sent
    /\ Move

Init ==
    /\ holds = Nothing
    /\ sent = [c \in DOMAIN Policies |-> 0] /\ moves = 0
    /\ pc = "idle" /\ asked = 0
    /\ relays = <<>> /\ newest = {} /\ announced = <<>> /\ sources = <<>>
    /\ contacted = {} /\ data = {}
    /\ before = Nothing

Next ==
    \/ Begin \/ Return
    \/ Answered \/ Fetched \/ FetchFails
    \/ \E c \in DOMAIN Policies : Announce(c)
    \/ \E r \in ManifestRelays, m \in Manifests : Publish(r, m)

Spec == Init /\ [][Next]_vars

-----------------------------------------------------------------------------
Urls == DOMAIN Url

TypeOK ==
    /\ pc \in {"idle", "lists", "announcements", "manifest", "blob", "done", "stopped"}
    /\ Asking => asked \in DOMAIN relays
    /\ pc = "blob" => asked \in DOMAIN sources
    /\ Asking => ToSet(SourceRelays) \subseteq ToSet(relays)
    /\ ToSet(relays) \cup ToSet(sources) \cup contacted \subseteq Urls
    /\ newest \subseteq Existing /\ Cardinality(newest) =< 1
    /\ ToSet(announced) \subseteq Existing
    /\ Cardinality(data) =< 1

(* replication.py:119-122 and 157-158: the operator's own relays and       *)
(* servers are trusted; whatever the network supplies, through whichever   *)
(* of a relay list, an announcement and a manifest, is asked only if the   *)
(* guard accepts it.                                                       *)
OnlyGuardedAsked ==
    \A url \in contacted :
        \/ url \in ToSet(SourceRelays) \cup ToSet(DefaultServers)
        \/ is_safe_public_url(url)

(* The relays and servers that one ought to get to, if what they know is   *)
(* taken from those that answer as they should: the operator's, the ones   *)
(* the author's newest relay list names, and the ones that announcements   *)
(* name which these had all the time.                                      *)
Answering(urls) == {url \in urls \cap Relays : Reaches(url, proxy_url)}

Guarded(urls) == {url \in urls : is_safe_public_url(url)}

NewestLists ==
    {e \in UNION {before[r].events : r \in Answering(ToSet(SourceRelays))} :
        /\ matches(e, ListFilter)
        /\ \A f \in Existing : matches(f, ListFilter) /\ f # e => f.created_at < e.created_at}

Known ==
    ToSet(SourceRelays)
    \cup Guarded(UNION {ToSet(relays_from_event(e)) : e \in NewestLists})

ByAnnouncement(name) ==
    Guarded(UNION {tag_values(e, name) :
                      e \in {f \in UNION {before[r].events \cap holds[r].events : r \in Answering(Known)} :
                                matches(f, SeedFilter)}})

(* The author's own relays and the seeders' are found through the relays   *)
(* the operator has: the manifest is at least as new as any that one of    *)
(* them held when the sync began, whatever other relays answer and         *)
(* whichever announcements they withhold or add.                           *)
NewestFound ==
    \A r \in Answering(Known \cup ByAnnouncement("relay")) :
        \A m \in query(before[r], {SiteFilter}) :
            \E n \in newest : n.created_at >= m.created_at

FoundIfAnyoneHolds == pc = "done" => NewestFound

(* replication.py:130, "resilience when the author is gone": the file is   *)
(* fetched if any server has it that the manifest, an announcement or the  *)
(* operator names.                                                         *)
Candidates ==
    ToSet(DefaultServers) \cup ByAnnouncement("server")
    \cup Guarded(UNION {tag_values(m, "server") : m \in newest})

FetchedIfAnyoneHas ==
    pc = "done" /\ newest # {} /\ data = {} /\ UNION {Files(m) : m \in newest} # {} =>
        \A url \in Candidates : Honest(url) => File \notin Blobs[url]

(* Both: what a sync finds out about sources is enough to use them. *)
SourcesSuffice == FoundIfAnyoneHolds /\ FetchedIfAnyoneHas

(* discovery.py:7-9, the relay list names the relays "where their manifests *)
(* and posts actually live": an author whose list the operator's relays    *)
(* have is found, wherever the manifest was published.                     *)
PublishedIsFound ==
    pc = "done" /\ NewestLists # {} =>
        \A r \in Answering(ManifestRelays) : \A m \in query(before[r], {SiteFilter}) :
            \E n \in newest : n.created_at >= m.created_at

(* netguard.py:19, ".onion hosts pass: they are not internal-network       *)
(* targets and are reached over Tor's SOCKS proxy".                        *)
OnionViaTor ==
    \A url \in contacted : Url[url].host = "onion" => proxy_url = "socks"

(* transport/config.py:48, "never tunnels a loopback target".              *)
LoopbackDirect ==
    \A url \in contacted : Url[url].host = "loopback" => proxy_url = proxy_for_url(url)
=============================================================================
