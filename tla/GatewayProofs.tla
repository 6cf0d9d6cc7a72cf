---------------------------- MODULE GatewayProofs ----------------------------
(***************************************************************************)
(* Machine-checked proofs about Gateway: where a link leads, and that one  *)
(* relay and one server that answer as they should are enough for a page,  *)
(* for any relays, servers, links and events.                              *)
(***************************************************************************)
EXTENDS Gateway, TableProofs

-----------------------------------------------------------------------------
(* The inductive invariant, part by part: the variables' types,            *)
Names == {Relays[i] : i \in DOMAIN Relays}

Tables(stores) ==
    /\ DOMAIN stores = Names
    /\ \A r \in Names : stores[r].events \subseteq Published /\ Indexed(Published, stores[r])

Types ==
    /\ Tables(holds) /\ Tables(before)
    /\ pc \in {"idle", "route", "manifest", "posts", "blob", "reply"}
    /\ DOMAIN link = {"host", "path", "means"}
    /\ IsList(link.host) /\ link.host # <<>> /\ IsList(link.path)
    /\ pc \in {"idle", "route"} => site = Nowhere
    /\ Querying => asked \in 1..Len(Relays)
    /\ coming \subseteq Published /\ heard \in 0..(MaxIgnored + 1)
    /\ out \in Seq(Sendable) /\ posts \in Seq(Sendable)
    /\ newest \subseteq Sendable /\ AtMostOne(newest)
    /\ pc = "blob" => newest # {} /\ asked \in 1..Len(Sources(Manifest)) /\ Wanted(Manifest) # {}
    /\ AtMostOne(page)

(* what a link stands for, by the form it has: <npub>.<host>/<path>,       *)
(* <id>.<npub>.<host>/<path>, and where the host names no key,             *)
(* /n/<npub>/<path> and /s/<npub>/<id>/<path>; any other is nobody's,      *)
Same(m, author, identifier, path) ==
    m.author = author /\ m.identifier = identifier /\ Stripped(path) = Stripped(m.path)

Legacy(l, verb, n) ==
    /\ l.host[1] \notin DOMAIN Pubkey /\ ~NamedHost(l.host)
    /\ Len(l.path) >= n /\ l.path[1] = verb /\ l.path[2] \in DOMAIN Pubkey

StandsFor(l, m) ==
    /\ l.host[1] \in DOMAIN Pubkey => Same(m, Pubkey[l.host[1]], "", l.path)
    /\ l.host[1] \notin DOMAIN Pubkey /\ NamedHost(l.host) =>
          Same(m, Pubkey[l.host[2]], l.host[1], l.path)
    /\ Legacy(l, "n", 2) => Same(m, Pubkey[l.path[2]], "", SubSeq(l.path, 3, Len(l.path)))
    /\ Legacy(l, "s", 3) => Same(m, Pubkey[l.path[2]], l.path[3], SubSeq(l.path, 4, Len(l.path)))
    /\ \/ l.host[1] \in DOMAIN Pubkey \/ NamedHost(l.host)
       \/ Legacy(l, "n", 2) \/ Legacy(l, "s", 3)
       \/ Same(m, "none", "", <<>>)

LinkStands ==
    /\ pc = "route" => StandsFor(link, link.means)
    /\ LinkLeadsHome

(* what is left of what the relays held when the request came,             *)
Kept == \A r \in Names : \A e \in before[r].events : \E g \in holds[r].events : AtLeast(g, e)

(* and, stage by stage, what those asked so far have contributed.          *)
Covers(S, db, s) ==
    \A m \in Found(db, ManifestFilter(s)) : \E n \in S : n.created_at >= m.created_at

CoversPosts(S, db, s) ==
    \A e \in Found(db, PostsFilter(s)) : \E f \in S \cap Published : d_tag(f) = d_tag(e)

(* Posts that are as their relays sent them, none of them an impostor.     *)
Clean(list) == ToSet(list) \cap Impostors = {}

ManifestAsked ==
    pc = "manifest" =>
        /\ \A k \in 1..(asked - 1) : Relays[k] \in Reliable => Covers(newest, before[Relays[k]], site)
        /\ Relay \in Reliable => Covers(coming \cup ToSet(out), before[Relay], site)

PostsAsked ==
    pc = "posts" =>
        /\ \A m \in newest : first_tag(m, "app") = "blog"
        /\ Clean(posts) =>
              \A k \in 1..(asked - 1) : Relays[k] \in Reliable => CoversPosts(ToSet(posts), before[Relays[k]], site)
        /\ Relay \in Reliable => CoversPosts(coming \cup ToSet(out), before[Relay], site)

ServersAsked ==
    pc = "blob" =>
        /\ \A m \in newest : first_tag(m, "app") # "blog"
        /\ \A k \in 1..(asked - 1) :
              Sources(Manifest)[k] \in Reliable => Sha \notin Blobs[Sources(Manifest)[k]]

Fresh ==
    pc \in {"posts", "blob"} \/ Done => \A r \in ReliableRelays : Covers(newest, before[r], site)

Progress == ManifestAsked /\ PostsAsked /\ ServersAsked /\ Fresh /\ ServedIfAnyoneCan

-----------------------------------------------------------------------------
(* The constants. *)
LEMMA SendableFormed ==
    \A e \in Sendable : e.id \in Int /\ e.created_at \in Int /\ IsList(e.tags)
BY InputAssumption DEF IsList

LEMMA PublishedSendable == Published \subseteq Sendable /\ Unasked \subseteq Sendable
BY DEF Sendable

LEMMA PublishedFormed == WellFormed(Published)
BY SendableFormed, PublishedSendable, InputAssumption DEF WellFormed

LEMMA RelaysShape ==
    /\ Len(Relays) \in Nat /\ Len(Relays) >= 1 /\ DOMAIN Relays = 1..Len(Relays)
    /\ \A i \in 1..Len(Relays) : Relays[i] \in Names
    /\ \A r \in Names : \E i \in 1..Len(Relays) : r = Relays[i]
<1>1. Len(Relays) \in Nat /\ DOMAIN Relays = 1..Len(Relays) /\ Relays # <<>>
  BY GatewayAssumption
<1>2. Len(Relays) # 0
  BY GatewayAssumption
<1> QED BY <1>1, <1>2 DEF Names

LEMMA Longer ==
    ASSUME NEW list, IsList(list), NEW n \in 1..Len(list)
    PROVE  /\ More(n, list) => n + 1 \in 1..Len(list)
           /\ ~More(n, list) => n = Len(list)
<1>1. Len(list) \in Nat
  BY ListShape
<1> QED BY <1>1 DEF More

LEMMA RelaysList == IsList(Relays)
BY GatewayAssumption DEF IsList

(* A manifest's sources are a list, and what a path wants of it at most    *)
(* one blob.                                                               *)
LEMMA SourcesList ==
    ASSUME NEW m \in Sendable
    PROVE  IsList(Sources(m)) /\ (Sources(m) # <<>> => 1 \in 1..Len(Sources(m)))
<1>1. PICK tagged : tagged = Selected(m.tags, Named(m, "server"))
  OBVIOUS
<1>2. IsList(tagged)
  <2>1. IsList(m.tags)
    BY SendableFormed
  <2>2. tagged \in Seq(ToSet(m.tags))
    BY <1>1, <2>1, SelectedList
  <2> QED BY <2>2, ListOf
<1>3. PICK V : Hints(m) \in Seq(V)
  BY <1>1, <1>2, Mapped DEF Hints
<1>4. \A X, Y, s : X \subseteq Y /\ s \in Seq(X) => s \in Seq(Y)
  OBVIOUS
<1>5. Hints(m) \in Seq(V \cup ToSet(Servers)) /\ Servers \in Seq(V \cup ToSet(Servers))
  <2>1. V \subseteq V \cup ToSet(Servers) /\ ToSet(Servers) \subseteq V \cup ToSet(Servers)
    OBVIOUS
  <2> QED BY <1>3, <1>4, <2>1, GatewayAssumption
<1>6. Sources(m) \in Seq(V \cup ToSet(Servers))
  BY <1>5 DEF Sources
<1>7. IsList(Sources(m))
  BY <1>6, ListOf
<1>8. Sources(m) # <<>> => Len(Sources(m)) # 0 /\ Len(Sources(m)) \in Nat
  BY <1>6
<1> QED BY <1>7, <1>8

LEMMA WantedOne ==
    ASSUME NEW m
    PROVE  AtMostOne(Wanted(m))
BY DEF Wanted, resolve_blob, AtMostOne

LEMMA PageOne ==
    ASSUME NEW list, IsList(list)
    PROVE  AtMostOne(BlogPage(list))
<1>1. \A slug : AtMostOne(PostOf(list, slug))
  <2> SUFFICES ASSUME NEW slug PROVE AtMostOne(PostOf(list, slug))
    OBVIOUS
  <2> DEFINE same == {i \in DOMAIN list : list[i] \in Malformed \/ <<d_tag(list[i])>> = slug}
             first == {j \in same : \A k \in same : j =< k}
  <2>1. \A j, k \in first : j \in Nat /\ k \in Nat /\ j =< k /\ k =< j
    BY ListShape
  <2>2. \A j, k \in first : j = k
    BY <2>1
  <2>3. PostOf(list, slug) = {Shown(list[i]) : i \in first}
    BY DEF PostOf
  <2> HIDE DEF first
  <2> QED BY <2>2, <2>3 DEF AtMostOne
<1>2. AtMostOne({Index(list)})
  BY DEF AtMostOne
<1> QED BY <1>1, <1>2 DEF BlogPage

(* Which operators are those of the shared lemmas. *)
LEMMA Shared ==
    /\ \A found, events : NewestOf(found, events) = NewestAmong(found, events)
    /\ \A known, events : WithPosts(known, events) = FreshAfter(known, events)
BY DEF NewestOf, NewestAmong, WithPosts, FreshAfter

LEMMA QueryWithin ==
    ASSUME NEW db, NEW flt
    PROVE  query(db, {flt}) \subseteq db.events
BY DEF query, QueryOne

LEMMA AskedOf ==
    ASSUME Types, NEW i \in 1..Len(Relays), NEW flt, AskRelay(i, flt)
    PROVE  /\ asked' = i /\ heard' = 0 /\ out' = <<>>
           /\ coming' = query(holds[Relays[i]], {flt})
           /\ coming' \subseteq Published
<1>1. i =< Len(Relays) /\ Relays[i] \in Names
  BY RelaysShape
<1>2. /\ asked' = i /\ heard' = 0 /\ out' = <<>>
      /\ coming' = query(holds[Relays[i]], {flt})
  BY <1>1 DEF AskRelay
<1>3. holds[Relays[i]].events \subseteq Published
  BY <1>1 DEF Types, Tables
<1> QED BY <1>2, <1>3, QueryWithin

LEMMA ManifestStays ==
    ASSUME UNCHANGED <<newest, site>>
    PROVE  /\ Manifest' = Manifest /\ Sources(Manifest)' = Sources(Manifest)
           /\ Wanted(Manifest)' = Wanted(Manifest) /\ Sha' = Sha
<1>1. Manifest' = Manifest
  BY DEF Manifest
<1>2. Sources(Manifest)' = Sources(Manifest) /\ Wanted(Manifest)' = Wanted(Manifest)
  BY <1>1 DEF Sources, Hints, Wanted
<1> QED BY <1>1, <1>2 DEF Sha

LEMMA ManifestIs ==
    ASSUME AtMostOne(newest), NEW m \in newest
    PROVE  Manifest = m
BY DEF Manifest, AtMostOne

(* What the events of a query add to what was found. *)
LEMMA NewestAdds ==
    ASSUME Types, NEW events \in Seq(Sendable), NEW newer, newer = NewestOf(newest, events)
    PROVE  /\ newer \subseteq newest \cup ToSet(events) /\ newer \subseteq Sendable /\ AtMostOne(newer)
           /\ \A x \in newest \cup ToSet(events) : \E y \in newer : y.created_at >= x.created_at
<1>1. IsList(events) /\ ToSet(events) \subseteq Sendable
  BY ListOf
<1>2. newest \subseteq Sendable /\ AtMostOne(newest)
  BY DEF Types
<1>3. \A x \in newest \cup ToSet(events) : x.created_at \in Int
  BY <1>1, <1>2, InputAssumption
<1>4. newer = NewestAmong(newest, events)
  BY Shared
<1>5. /\ newer \subseteq newest \cup ToSet(events) /\ AtMostOne(newer)
      /\ \A x \in newest \cup ToSet(events) : \E y \in newer : y.created_at >= x.created_at
  BY <1>1, <1>2, <1>3, <1>4, NewestOne
<1> QED BY <1>1, <1>2, <1>5

LEMMA PostsAdd ==
    ASSUME Types, NEW events \in Seq(Sendable), NEW more, more = WithPosts(posts, events)
    PROVE  /\ more \in Seq(Sendable)
           /\ ToSet(posts) \subseteq ToSet(more)
           /\ \A x \in ToSet(events) : \E y \in ToSet(more) : y.id = x.id
<1>1. more = FreshAfter(posts, events)
  BY Shared
<1>2. posts \in Seq(Sendable)
  BY DEF Types
<1> QED BY <1>1, <1>2, WithIds

-----------------------------------------------------------------------------
(* The steps keep the types. *)
Over(events) ==
    /\ Querying
    /\ events \in Seq(Sendable)
    /\ Relay \in Reliable => coming = {} /\ events = out
    /\ QueryOver(events)
    /\ UNCHANGED <<holds, link, site, before>>

LEMMA QueryEndsOver ==
    ASSUME Types, QueryEnds \/ QueryRaises
    PROVE  \E events : Over(events)
<1>1. CASE QueryEnds
  <2>1. Over(out)
    BY <1>1 DEF QueryEnds, Over, Types
  <2> QED BY <2>1
<1>2. CASE QueryRaises
  <2>1. <<>> \in Seq(Sendable)
    OBVIOUS
  <2>2. Over(<<>>)
    BY <1>2, <2>1 DEF QueryRaises, Over
  <2> QED BY <2>2
<1> QED BY <1>1, <1>2

(* What may come of the end of a query. *)
NextRelay(flt) ==
    /\ asked + 1 \in 1..Len(Relays)
    /\ pc' = pc /\ page' = page
    /\ asked' = asked + 1 /\ heard' = 0 /\ out' = <<>>
    /\ coming' = query(holds[Relays[asked + 1]], {flt}) /\ coming' \subseteq Published

Answers(answer) ==
    /\ asked = Len(Relays)
    /\ pc' = "reply" /\ page' = answer
    /\ coming' = {} /\ heard' = 0 /\ out' = <<>>

ToPosts ==
    /\ asked = Len(Relays)
    /\ \A m \in newest' : first_tag(m, "app") = "blog"
    /\ pc' = "posts" /\ page' = page
    /\ asked' = 1 /\ heard' = 0 /\ out' = <<>>
    /\ coming' = query(holds[Relays[1]], {PostsFilter(site)}) /\ coming' \subseteq Published

ToBlob ==
    /\ asked = Len(Relays)
    /\ newest' # {}
    /\ \A m \in newest' : first_tag(m, "app") # "blog" /\ Wanted(m) # {} /\ Sources(m) # <<>>
    /\ pc' = "blob" /\ page' = page
    /\ asked' = 1 /\ coming' = {} /\ heard' = 0 /\ out' = <<>>

Unserved ==
    \A m \in newest' : first_tag(m, "app") # "blog" /\ (Wanted(m) = {} \/ Sources(m) = <<>>)

Unreadable == newest' \subseteq Malformed

LEMMA ManifestOver ==
    ASSUME Types, NEW events, Over(events), pc = "manifest"
    PROVE  /\ newest' = NewestOf(newest, events) /\ newest' \subseteq Sendable /\ AtMostOne(newest')
           /\ \A x \in newest \cup ToSet(events) : \E y \in newest' : y.created_at >= x.created_at
           /\ posts' = posts
           /\ \/ NextRelay(ManifestFilter(site))
              \/ Answers({}) /\ Unserved
              \/ Answers({Failure}) /\ Unreadable
              \/ ToPosts
              \/ ToBlob
<1>1. /\ events \in Seq(Sendable) /\ newest' = NewestOf(newest, events) /\ posts' = posts
      /\ \/ /\ More(asked, Relays)
            /\ AskRelay(asked + 1, ManifestFilter(site))
            /\ UNCHANGED <<pc, page>>
         \/ ~More(asked, Relays) /\ WithManifest
  BY DEF Over, QueryOver
<1>2. PICK newer : newer = newest'
  OBVIOUS
<1>3. /\ newer \subseteq Sendable /\ AtMostOne(newer)
      /\ \A x \in newest \cup ToSet(events) : \E y \in newer : y.created_at >= x.created_at
  BY <1>1, <1>2, NewestAdds
<1>4. asked \in 1..Len(Relays) /\ IsList(Relays)
  BY RelaysList DEF Types, Over
<1>5. CASE More(asked, Relays) /\ AskRelay(asked + 1, ManifestFilter(site)) /\ UNCHANGED <<pc, page>>
  <2>1. asked + 1 \in 1..Len(Relays)
    BY <1>4, <1>5, Longer
  <2>2. NextRelay(ManifestFilter(site))
    BY <1>5, <2>1, AskedOf DEF NextRelay
  <2> QED BY <1>1, <1>2, <1>3, <2>2
<1>6. CASE ~More(asked, Relays) /\ WithManifest
  <2>1. asked = Len(Relays)
    BY <1>4, <1>6, Longer
  <2>2. CASE newest' = {} /\ Reply({})
    <3>1. Answers({}) /\ Unserved
      BY <2>1, <2>2 DEF Answers, Reply, Unserved
    <3> QED BY <1>1, <1>2, <1>3, <3>1
  <2>3. CASE newest' \cap Malformed # {} /\ Reply({Failure})
    <3>1. Unreadable
      BY <1>2, <1>3, <2>3 DEF Unreadable, AtMostOne
    <3>2. Answers({Failure})
      BY <2>1, <2>3 DEF Answers, Reply
    <3> QED BY <1>1, <1>2, <1>3, <3>1, <3>2
  <2>4. ASSUME NEW m \in newest', first_tag(m, "app") = "blog", pc' = "posts",
               AskRelay(1, PostsFilter(site)), UNCHANGED page
        PROVE  ToPosts
    <3>1. \A n \in newest' : n = m
      BY <1>2, <1>3 DEF AtMostOne
    <3>2. 1 \in 1..Len(Relays)
      BY RelaysShape
    <3>3. /\ asked' = 1 /\ heard' = 0 /\ out' = <<>>
          /\ coming' = query(holds[Relays[1]], {PostsFilter(site)}) /\ coming' \subseteq Published
      BY <2>4, <3>2, AskedOf
    <3> QED BY <2>1, <2>4, <3>1, <3>3 DEF ToPosts
  <2>5. ASSUME NEW m \in newest', first_tag(m, "app") # "blog",
               IF Wanted(m) = {} \/ Sources(m) = <<>> THEN Reply({})
               ELSE /\ pc' = "blob"
                    /\ asked' = 1 /\ coming' = {} /\ heard' = 0 /\ out' = <<>>
                    /\ UNCHANGED page
        PROVE  (Answers({}) /\ Unserved) \/ ToBlob
    <3>1. \A n \in newest' : n = m
      BY <1>2, <1>3 DEF AtMostOne
    <3>2. CASE Wanted(m) = {} \/ Sources(m) = <<>>
      BY <2>1, <2>5, <3>1, <3>2 DEF Answers, Reply, Unserved
    <3>3. CASE ~(Wanted(m) = {} \/ Sources(m) = <<>>)
      BY <2>1, <2>5, <3>1, <3>3 DEF ToBlob
    <3> QED BY <3>2, <3>3
  <2>6. \/ newest' = {} /\ Reply({})
        \/ newest' \cap Malformed # {} /\ Reply({Failure})
        \/ \E m \in newest' :
              \/ /\ first_tag(m, "app") = "blog" /\ pc' = "posts"
                 /\ AskRelay(1, PostsFilter(site)) /\ UNCHANGED page
              \/ /\ first_tag(m, "app") # "blog"
                 /\ IF Wanted(m) = {} \/ Sources(m) = <<>> THEN Reply({})
                    ELSE /\ pc' = "blob"
                         /\ asked' = 1 /\ coming' = {} /\ heard' = 0 /\ out' = <<>>
                         /\ UNCHANGED page
    BY <1>6 DEF WithManifest
  <2> QED BY <1>1, <1>2, <1>3, <2>2, <2>3, <2>4, <2>5, <2>6
<1> QED BY <1>1, <1>5, <1>6

Grown(events) ==
    /\ ToSet(posts) \subseteq ToSet(posts')
    /\ \A x \in ToSet(events) : \E y \in ToSet(posts') : y.id = x.id

LEMMA PostsOver ==
    ASSUME Types, NEW events, Over(events), pc = "posts"
    PROVE  /\ newest' = newest
           /\ posts' \in Seq(Sendable) /\ Grown(events)
           /\ NextRelay(PostsFilter(site)) \/ Answers(BlogPage(posts'))
<1>1. /\ events \in Seq(Sendable) /\ newest' = newest /\ posts' = WithPosts(posts, events)
      /\ \/ /\ More(asked, Relays)
            /\ AskRelay(asked + 1, PostsFilter(site))
            /\ UNCHANGED <<pc, page>>
         \/ ~More(asked, Relays) /\ Reply(BlogPage(posts'))
  BY DEF Over, QueryOver
<1>2. PICK more : more = posts'
  OBVIOUS
<1>3. /\ more \in Seq(Sendable)
      /\ ToSet(posts) \subseteq ToSet(more)
      /\ \A x \in ToSet(events) : \E y \in ToSet(more) : y.id = x.id
  BY <1>1, <1>2, PostsAdd
<1>4. posts' \in Seq(Sendable) /\ Grown(events)
  BY <1>2, <1>3 DEF Grown
<1>5. asked \in 1..Len(Relays) /\ IsList(Relays)
  BY RelaysList DEF Types, Over
<1>6. CASE More(asked, Relays) /\ AskRelay(asked + 1, PostsFilter(site)) /\ UNCHANGED <<pc, page>>
  <2>1. asked + 1 \in 1..Len(Relays)
    BY <1>5, <1>6, Longer
  <2>2. NextRelay(PostsFilter(site))
    BY <1>6, <2>1, AskedOf DEF NextRelay
  <2> QED BY <1>1, <1>4, <2>2
<1>7. CASE ~More(asked, Relays) /\ Reply(BlogPage(posts'))
  <2>1. asked = Len(Relays)
    BY <1>5, <1>7, Longer
  <2>2. Answers(BlogPage(posts'))
    BY <1>7, <2>1 DEF Answers, Reply
  <2> QED BY <1>1, <1>4, <2>2
<1> QED BY <1>1, <1>6, <1>7

(* What comes of a look at a link. *)
Served(author, identifier, path) ==
    /\ site' = [author |-> author, identifier |-> identifier, path |-> path]
    /\ link' = link /\ pc' = "manifest"
    /\ asked' = 1 /\ heard' = 0 /\ out' = <<>>
    /\ coming' = query(holds[Relays[1]], {ManifestFilter(site')}) /\ coming' \subseteq Published

Stays == UNCHANGED <<asked, coming, heard, out>>

LEMMA ServedBy ==
    ASSUME Types, NEW author, NEW identifier, NEW path, ServeSite(author, path, identifier),
           IF pc' = "manifest" THEN AskRelay(1, ManifestFilter(site')) ELSE Stays
    PROVE  Served(author, identifier, path)
<1>1. /\ site' = [author |-> author, identifier |-> identifier, path |-> path]
      /\ link' = link /\ pc' = "manifest"
  BY DEF ServeSite
<1>2. AskRelay(1, ManifestFilter(site')) /\ 1 \in 1..Len(Relays)
  BY <1>1, RelaysShape
<1>3. PICK flt : flt = ManifestFilter(site')
  OBVIOUS
<1>4. AskRelay(1, flt)
  BY <1>2, <1>3
<1>5. /\ asked' = 1 /\ heard' = 0 /\ out' = <<>>
      /\ coming' = query(holds[Relays[1]], {flt}) /\ coming' \subseteq Published
  BY <1>2, <1>4, AskedOf
<1> QED BY <1>1, <1>3, <1>5 DEF Served

Redirected(label) ==
    /\ label \in DOMAIN Pubkey
    /\ link' = [link EXCEPT !.host = <<label>> \o BaseHost(@),
                            !.path = IF From(3) = <<>> THEN <<"">> ELSE From(3)]
    /\ site' = site /\ pc' = pc /\ Stays

LEMMA RouteCases ==
    ASSUME Types, Route
    PROVE  /\ pc = "route" /\ UNCHANGED <<holds, newest, posts, page, before>>
           /\ \/ link.host[1] \in DOMAIN Pubkey /\ Served(Pubkey[link.host[1]], "", link.path)
              \/ /\ link.host[1] \notin DOMAIN Pubkey /\ NamedHost(link.host)
                 /\ Served(Pubkey[link.host[2]], link.host[1], link.path)
              \/ Legacy(link, "n", 2) /\ Redirected(Npub[Pubkey[link.path[2]]])
              \/ /\ link.host[1] \notin DOMAIN Pubkey /\ ~NamedHost(link.host)
                 /\ Len(link.path) = 3 /\ link.path[1] = "s"
                 /\ link' = [link EXCEPT !.path = Append(@, "")]
                 /\ site' = site /\ pc' = pc /\ Stays
              \/ Legacy(link, "s", 4) /\ Served(Pubkey[link.path[2]], link.path[3], From(4))
              \/ ~Routable /\ pc' = "reply" /\ link' = link /\ site' = site /\ Stays
<1>1. /\ pc = "route" /\ UNCHANGED <<holds, newest, posts, page, before>>
      /\ RouteByHost \/ RouteByPath \/ RouteNowhere
      /\ IF pc' = "manifest" THEN AskRelay(1, ManifestFilter(site')) ELSE Stays
  BY DEF Route, Stays
<1>2. CASE RouteByHost
  <2>1. CASE link.host[1] \in DOMAIN Pubkey
    <3>1. ServeSite(Pubkey[link.host[1]], link.path, "")
      BY <1>2, <2>1 DEF RouteByHost
    <3> QED BY <1>1, <2>1, <3>1, ServedBy
  <2>2. CASE link.host[1] \notin DOMAIN Pubkey
    <3>1. NamedHost(link.host) /\ ServeSite(Pubkey[link.host[2]], link.path, link.host[1])
      BY <1>2, <2>2 DEF RouteByHost
    <3> QED BY <1>1, <2>2, <3>1, ServedBy
  <2> QED BY <2>1, <2>2
<1>3. CASE RouteByPath
  <2>1. link.host[1] \notin DOMAIN Pubkey /\ ~NamedHost(link.host)
    BY <1>3 DEF RouteByPath
  <2>2. CASE Prefix("n", 2) /\ link.path[2] \in DOMAIN Pubkey /\ Redirect(Pubkey[link.path[2]], From(3))
    <3>1. Legacy(link, "n", 2)
      BY <2>1, <2>2 DEF Legacy, Prefix
    <3>2. Npub[Pubkey[link.path[2]]] \in DOMAIN Pubkey
      BY <2>2, GatewayAssumption
    <3>3. Redirected(Npub[Pubkey[link.path[2]]])
      BY <1>1, <2>2, <3>2 DEF Redirected, Redirect
    <3> QED BY <1>1, <3>1, <3>3
  <2>3. CASE Prefix("s", 3) /\ Len(link.path) = 3 /\ link' = [link EXCEPT !.path = Append(@, "")]
             /\ UNCHANGED <<pc, site>>
    BY <1>1, <2>1, <2>3 DEF Prefix
  <2>4. CASE Prefix("s", 4) /\ link.path[2] \in DOMAIN Pubkey
             /\ ServeSite(Pubkey[link.path[2]], From(4), link.path[3])
    <3>1. Legacy(link, "s", 4)
      BY <2>1, <2>4 DEF Legacy, Prefix
    <3> QED BY <1>1, <2>4, <3>1, ServedBy
  <2> QED BY <1>3, <2>2, <2>3, <2>4 DEF RouteByPath
<1>4. CASE RouteNowhere
  BY <1>1, <1>4 DEF RouteNowhere
<1> QED BY <1>1, <1>2, <1>3, <1>4

(* A link after a redirect is a link. *)
LinkShape(l) ==
    /\ DOMAIN l = {"host", "path", "means"}
    /\ IsList(l.host) /\ l.host # <<>> /\ IsList(l.path)

LEMMA RedirectShape ==
    ASSUME LinkShape(link), NEW label, Redirected(label)
    PROVE  /\ LinkShape(link') /\ link'.host[1] = label /\ link'.means = link.means
           /\ link'.path = IF From(3) = <<>> THEN <<"">> ELSE From(3)
<1>1. PICK base : base = BaseHost(link.host)
  OBVIOUS
<1>2. IsList(base)
  <2>1. <<"localhost">> \in Seq({"localhost"})
    OBVIOUS
  <2> QED BY <1>1, <2>1, ListOf DEF BaseHost, LinkShape
<1>3. PICK S : base \in Seq(S) /\ label \in S
  <2>1. base \in Seq(ToSet(base) \cup {label})
    BY <1>2 DEF IsList
  <2> QED BY <2>1
<1>4. <<label>> \o base \in Seq(S) /\ (<<label>> \o base)[1] = label /\ <<label>> \o base # <<>>
  BY <1>3
<1>5. IsList(<<label>> \o base)
  BY <1>4, ListOf
<1>6. IsList(IF From(3) = <<>> THEN <<"">> ELSE From(3))
  <2>1. link.path \in Seq(ToSet(link.path)) /\ Len(link.path) \in Nat
    BY DEF LinkShape, IsList
  <2>2. From(3) \in Seq(ToSet(link.path))
    BY <2>1 DEF From
  <2>3. <<"">> \in Seq({""})
    OBVIOUS
  <2> QED BY <2>2, <2>3, ListOf
<1>7. link' = [link EXCEPT !.host = <<label>> \o base,
                           !.path = IF From(3) = <<>> THEN <<"">> ELSE From(3)]
  BY <1>1 DEF Redirected
<1>8. /\ DOMAIN link' = {"host", "path", "means"}
      /\ link'.host = <<label>> \o base /\ link'.means = link.means
      /\ link'.path = IF From(3) = <<>> THEN <<"">> ELSE From(3)
  BY <1>7 DEF LinkShape
<1> QED BY <1>4, <1>5, <1>6, <1>8 DEF LinkShape

LEMMA Slashed ==
    ASSUME NEW path, IsList(path), NEW segment
    PROVE  IsList(Append(path, segment))
<1>1. path \in Seq(ToSet(path) \cup {segment})
  BY DEF IsList
<1>2. Append(path, segment) \in Seq(ToSet(path) \cup {segment})
  BY <1>1
<1> QED BY <1>2, ListOf

LEMMA SlashShape ==
    ASSUME LinkShape(link), link' = [link EXCEPT !.path = Append(@, "")]
    PROVE  /\ LinkShape(link') /\ link'.host = link.host /\ link'.means = link.means
           /\ link'.path = Append(link.path, "")
<1>3. IsList(Append(link.path, ""))
  BY Slashed DEF LinkShape
<1>4. /\ DOMAIN link' = {"host", "path", "means"}
      /\ link'.host = link.host /\ link'.means = link.means
      /\ link'.path = Append(link.path, "")
  BY DEF LinkShape
<1> QED BY <1>3, <1>4 DEF LinkShape

LEMMA TypesLink == Types => LinkShape(link)
BY DEF Types, LinkShape

LEMMA RouteTypes == Types /\ Route => Types'
<1> SUFFICES ASSUME Types, Route PROVE Types'
  OBVIOUS
<1>1. pc = "route" /\ UNCHANGED <<holds, newest, posts, page, before>>
  BY RouteCases
<1>2. LinkShape(link) /\ site = Nowhere /\ 1 \in 1..Len(Relays) /\ <<>> \in Seq(Sendable) /\ 0 \in 0..(MaxIgnored + 1)
  BY <1>1, TypesLink, RelaysShape, GatewayAssumption DEF Types
<1>3. /\ Tables(holds)' /\ Tables(before)'
      /\ posts' \in Seq(Sendable) /\ newest' \subseteq Sendable
      /\ AtMostOne(newest)' /\ AtMostOne(page)'
  BY <1>1 DEF Types, Tables, Indexed, AtMostOne
<1>4. ASSUME NEW author, NEW identifier, NEW path, Served(author, identifier, path) PROVE Types'
  BY <1>1, <1>2, <1>3, <1>4 DEF Types, Served, LinkShape, Querying
<1>5. ASSUME LinkShape(link'), site' = site, pc' \in {"route", "reply"}, Stays PROVE Types'
  BY <1>1, <1>2, <1>3, <1>5 DEF Types, Stays, LinkShape, Querying
<1>6. ASSUME NEW label, Redirected(label) PROVE Types'
  BY <1>1, <1>2, <1>5, <1>6, RedirectShape DEF Redirected
<1>7. ASSUME link' = [link EXCEPT !.path = Append(@, "")], site' = site, pc' = pc, Stays PROVE Types'
  BY <1>1, <1>2, <1>5, <1>7, SlashShape
<1>8. ASSUME pc' = "reply", link' = link, site' = site, Stays PROVE Types'
  BY <1>2, <1>5, <1>8
<1> QED BY <1>4, <1>6, <1>7, <1>8, RouteCases

LEMMA OverTypes == Types /\ (QueryEnds \/ QueryRaises) => Types'
<1> SUFFICES ASSUME Types, QueryEnds \/ QueryRaises PROVE Types'
  OBVIOUS
<1>1. PICK events : Over(events)
  BY QueryEndsOver
<1>2. Querying /\ UNCHANGED <<holds, link, site, before>>
  BY <1>1 DEF Over
<1>3. Tables(holds)' /\ Tables(before)'
  BY <1>2 DEF Types, Tables, Indexed
<1>4. /\ <<>> \in Seq(Sendable) /\ 0 \in 0..(MaxIgnored + 1) /\ 1 \in 1..Len(Relays)
      /\ \A s : AtMostOne({s}) /\ AtMostOne({})
  BY RelaysShape, GatewayAssumption DEF AtMostOne
<1> DEFINE Common ==
      /\ coming' \subseteq Published /\ heard' = 0 /\ out' = <<>>
      /\ posts' \in Seq(Sendable) /\ newest' \subseteq Sendable /\ AtMostOne(newest')
      /\ AtMostOne(page')
<1>5. ASSUME Common, pc' \in {"manifest", "posts"}, asked' \in 1..Len(Relays) PROVE Types'
  BY <1>2, <1>3, <1>4, <1>5 DEF Types, Querying
<1>6. ASSUME Common, pc' = "reply" PROVE Types'
  BY <1>2, <1>3, <1>4, <1>6 DEF Types, Querying
<1>7. CASE pc = "manifest"
  <2>1. /\ newest' \subseteq Sendable /\ AtMostOne(newest') /\ posts' = posts /\ posts \in Seq(Sendable)
        /\ AtMostOne(page)
        /\ \/ NextRelay(ManifestFilter(site)) \/ Answers({}) \/ Answers({Failure})
           \/ ToPosts \/ ToBlob
    BY <1>1, <1>7, ManifestOver DEF Types
  <2>2. CASE NextRelay(ManifestFilter(site))
    BY <1>5, <1>7, <2>1, <2>2 DEF NextRelay
  <2>3. ASSUME NEW answer, AtMostOne(answer), Answers(answer) PROVE Types'
    BY <1>4, <1>6, <2>1, <2>3 DEF Answers
  <2>4. CASE ToPosts
    BY <1>4, <1>5, <2>1, <2>4 DEF ToPosts
  <2>5. CASE ToBlob
    <3>1. PICK m \in newest' : TRUE
      BY <2>5 DEF ToBlob
    <3>2. Manifest' = m
      BY <2>1, <3>1 DEF Manifest, AtMostOne
    <3>3. m \in Sendable /\ Wanted(m) # {} /\ Sources(m) # <<>>
      BY <2>1, <2>5, <3>1 DEF ToBlob
    <3>4. Sources(Manifest)' = Sources(m) /\ Wanted(Manifest)' = Wanted(m)
      BY <1>2, <3>2 DEF Sources, Hints, Wanted
    <3>5. 1 \in 1..Len(Sources(m))
      BY <3>3, SourcesList
    <3>6. pc' = "blob" /\ asked' = 1 /\ newest' # {} /\ Common
      BY <2>1, <2>5 DEF ToBlob
    <3> HIDE DEF Common
    <3>7. asked' \in 1..Len(Sources(Manifest)') /\ Wanted(Manifest)' # {}
      BY <3>3, <3>4, <3>5, <3>6
    <3> QED BY <1>2, <1>3, <1>4, <3>6, <3>7 DEF Types, Querying, Common
  <2> QED BY <1>4, <2>1, <2>2, <2>3, <2>4, <2>5
<1>8. CASE pc = "posts"
  <2>1. /\ newest' = newest /\ newest \subseteq Sendable /\ AtMostOne(newest)
        /\ posts' \in Seq(Sendable) /\ AtMostOne(page)
        /\ NextRelay(PostsFilter(site)) \/ Answers(BlogPage(posts'))
    BY <1>1, <1>8, PostsOver DEF Types
  <2>2. CASE NextRelay(PostsFilter(site))
    BY <1>5, <1>8, <2>1, <2>2 DEF NextRelay
  <2>3. CASE Answers(BlogPage(posts'))
    <3>1. AtMostOne(BlogPage(posts'))
      <4>1. PICK list : list = posts'
        OBVIOUS
      <4>2. IsList(list)
        BY <2>1, <4>1, ListOf
      <4> QED BY <4>1, <4>2, PageOne
    <3> QED BY <1>4, <1>6, <2>1, <2>3, <3>1 DEF Answers
  <2> QED BY <2>1, <2>2, <2>3
<1> QED BY <1>2, <1>7, <1>8 DEF Querying

LEMMA HeardBound ==
    ASSUME heard \in 0..(MaxIgnored + 1), (heard < MaxIgnored /\ heard' = heard + 1) \/ OneMoreNeedless
    PROVE  heard' \in 0..(MaxIgnored + 1)
<1>1. MaxIgnored \in Nat
  BY GatewayAssumption
<1>2. CASE heard < MaxIgnored /\ heard' = heard + 1
  BY <1>1, <1>2
<1>3. CASE OneMoreNeedless
  BY <1>1, <1>3 DEF OneMoreNeedless
<1> QED BY <1>2, <1>3

LEMMA ReceiveTypes ==
    ASSUME Types,
           \/ ReceiveIgnored \/ FetchMore
           \/ \E e \in Unasked : ReceiveUnasked(e)
           \/ \E e \in coming : ReceiveEvent(e)
    PROVE  Types'
<1>1. CASE ReceiveIgnored \/ FetchMore
  <2>1. /\ (heard < MaxIgnored /\ heard' = heard + 1) \/ OneMoreNeedless
        /\ UNCHANGED <<holds, pc, link, site, asked, coming, out, newest, posts, page, before>>
    BY <1>1 DEF ReceiveIgnored, FetchMore
  <2>2. heard' \in 0..(MaxIgnored + 1)
    BY <2>1, HeardBound DEF Types
  <2>3. /\ Sources(Manifest)' = Sources(Manifest) /\ Wanted(Manifest)' = Wanted(Manifest)
    BY <2>1, ManifestStays
  <2>4. Tables(holds)' /\ Tables(before)'
    BY <2>1 DEF Types, Tables, Indexed
  <2> QED BY <2>1, <2>2, <2>3, <2>4 DEF Types, Querying, AtMostOne
<1>2. ASSUME NEW e \in coming, ReceiveEvent(e) PROVE Types'
  <2>1. /\ Querying /\ out' = Append(out, e) /\ coming' = coming \ {e}
        /\ UNCHANGED <<holds, pc, link, site, asked, heard, newest, posts, page, before>>
    BY <1>2 DEF ReceiveEvent
  <2>2. out' \in Seq(Sendable) /\ coming' \subseteq Published
    <3>1. e \in Sendable /\ out \in Seq(Sendable)
      BY PublishedSendable DEF Types
    <3> QED BY <2>1, <3>1 DEF Types
  <2>3. /\ Sources(Manifest)' = Sources(Manifest) /\ Wanted(Manifest)' = Wanted(Manifest)
    BY <2>1, ManifestStays
  <2>4. Tables(holds)' /\ Tables(before)'
    BY <2>1 DEF Types, Tables, Indexed
  <2> QED BY <2>1, <2>2, <2>3, <2>4 DEF Types, Querying, AtMostOne
<1>3. ASSUME NEW e \in Unasked, ReceiveUnasked(e) PROVE Types'
  <2>1. /\ Querying /\ out' = Append(out, e) /\ heard < MaxIgnored /\ heard' = heard + 1
        /\ UNCHANGED <<holds, pc, link, site, asked, coming, newest, posts, page, before>>
    BY <1>3 DEF ReceiveUnasked
  <2>2. out' \in Seq(Sendable)
    <3>1. e \in Sendable /\ out \in Seq(Sendable)
      BY PublishedSendable DEF Types
    <3> QED BY <2>1, <3>1
  <2>3. heard' \in 0..(MaxIgnored + 1)
    BY <2>1, HeardBound DEF Types
  <2>4. /\ Sources(Manifest)' = Sources(Manifest) /\ Wanted(Manifest)' = Wanted(Manifest)
    BY <2>1, ManifestStays
  <2>5. Tables(holds)' /\ Tables(before)'
    BY <2>1 DEF Types, Tables, Indexed
  <2> QED BY <2>1, <2>2, <2>3, <2>4, <2>5 DEF Types, Querying, AtMostOne
<1> QED BY <1>1, <1>2, <1>3

LEMMA FetchTypes ==
    ASSUME Types, FetchFails \/ \E data : FetchGood(data)
    PROVE  Types'
<1>1. pc = "blob" /\ UNCHANGED <<holds, link, site, newest, posts, before>>
  BY DEF FetchFails, FetchGood
<1>2. Tables(holds)' /\ Tables(before)'
  BY <1>1 DEF Types, Tables, Indexed
<1>3. ASSUME NEW answer, AtMostOne(answer), Reply(answer) PROVE Types'
  <2>1. <<>> \in Seq(Sendable) /\ 0 \in 0..(MaxIgnored + 1)
    BY GatewayAssumption
  <2>2. pc' = "reply" /\ page' = answer /\ asked' = 0 /\ coming' = {} /\ heard' = 0 /\ out' = <<>>
    BY <1>3 DEF Reply
  <2> QED BY <1>1, <1>2, <1>3, <2>1, <2>2 DEF Types, Querying, AtMostOne
<1>4. CASE \E data : FetchGood(data)
  <2>1. PICK data : Reply({<<"blob", data>>})
    BY <1>4 DEF FetchGood
  <2>2. AtMostOne({<<"blob", data>>})
    BY DEF AtMostOne
  <2> QED BY <1>3, <2>1, <2>2
<1>5. CASE FetchFails
  <2>1. CASE Reply({})
    <3>1. AtMostOne({})
      BY DEF AtMostOne
    <3> QED BY <1>3, <2>1, <3>1
  <2>2. CASE More(asked, Sources(Manifest)) /\ asked' = asked + 1 /\ heard' = 0 /\ UNCHANGED <<pc, coming, out, page>>
    <3>1. 0 \in 0..(MaxIgnored + 1)
      BY GatewayAssumption
    <3>2. newest # {} /\ newest \subseteq Sendable /\ asked \in 1..Len(Sources(Manifest)) /\ Wanted(Manifest) # {}
      BY <1>1 DEF Types
    <3>3. IsList(Sources(Manifest))
      BY <3>2, SourcesList DEF Manifest
    <3>4. asked' \in 1..Len(Sources(Manifest))
      BY <2>2, <3>2, <3>3, Longer
    <3>5. Sources(Manifest)' = Sources(Manifest) /\ Wanted(Manifest)' = Wanted(Manifest)
      BY <1>1, ManifestStays
    <3> QED BY <1>1, <1>2, <2>2, <3>2, <3>4, <3>5, <3>1 DEF Types, Querying, AtMostOne
  <2> QED BY <1>5, <2>1, <2>2 DEF FetchFails
<1> QED BY <1>4, <1>5

LEMMA RequestTypes ==
    ASSUME Types, Replied \/ \E l \in Links : Request(l)
    PROVE  Types'
<1>1. CASE Replied
  <2>1. /\ pc' = "idle" /\ link' = NoLink /\ site' = Nowhere
        /\ newest' = {} /\ posts' = <<>> /\ page' = {} /\ before' = Nothing
        /\ UNCHANGED <<holds, asked, coming, heard, out>>
    BY <1>1 DEF Replied
  <2>2. Tables(holds)'
    BY <2>1 DEF Types, Tables, Indexed
  <2>3. Tables(before)'
    <3>1. Tables(Nothing)
      BY EmptyIndexed DEF Tables, Nothing, Names
    <3> QED BY <2>1, <3>1 DEF Tables, Indexed
  <2>4. LinkShape(NoLink)
    <3>1. <<"">> \in Seq({""}) /\ <<>> \in Seq({})
      OBVIOUS
    <3>2. IsList(<<"">>) /\ IsList(<<>>) /\ <<"">> # <<>>
      BY <3>1, ListOf
    <3> QED BY <3>2 DEF LinkShape, NoLink
  <2>5. <<>> \in Seq(Sendable) /\ AtMostOne({})
    BY DEF AtMostOne
  <2> QED BY <2>1, <2>2, <2>3, <2>4, <2>5 DEF Types, Querying, LinkShape, AtMostOne
<1>2. ASSUME NEW l \in Links, Request(l) PROVE Types'
  <2>1. /\ pc = "idle" /\ pc' = "route" /\ link' = l /\ before' = holds
        /\ UNCHANGED <<holds, site, asked, coming, heard, out, newest, posts, page>>
    BY <1>2 DEF Request
  <2>2. Tables(holds)' /\ Tables(before)'
    BY <2>1 DEF Types, Tables, Indexed
  <2>3. LinkShape(l)
    BY InputAssumption DEF LinkShape, IsList
  <2> QED BY <2>1, <2>2, <2>3 DEF Types, Querying, LinkShape, AtMostOne
<1> QED BY <1>1, <1>2

LEMMA PublishTypes ==
    ASSUME Types, NEW r \in DOMAIN holds, NEW e \in Published, Publish(r, e)
    PROVE  Types'
<1>1. holds' = [holds EXCEPT ![r] = Write(holds[r], e)] /\ UNCHANGED <<pc, request>>
  BY DEF Publish
<1>2. DOMAIN holds = Names /\ \A q \in Names : holds[q].events \subseteq Published /\ Indexed(Published, holds[q])
  BY DEF Types, Tables
<1>3. PICK db : db = Write(holds[r], e)
  OBVIOUS
<1>4. db.events \subseteq Published /\ Indexed(Published, db)
  <2>1. db.events \subseteq holds[r].events \cup {e} /\ Indexed(Published, db)
    BY <1>2, <1>3, PublishedFormed, WriteTable
  <2> QED BY <1>2, <2>1
<1>5. Tables(holds')
  BY <1>1, <1>2, <1>3, <1>4 DEF Tables
<1>6. /\ link' = link /\ site' = site /\ asked' = asked /\ coming' = coming /\ heard' = heard /\ out' = out
      /\ newest' = newest /\ posts' = posts /\ page' = page /\ before' = before /\ pc' = pc
  BY <1>1 DEF request
<1>7. Tables(holds)' /\ Tables(before)'
  BY <1>5, <1>6 DEF Types, Tables, Indexed
<1>8. Sources(Manifest)' = Sources(Manifest) /\ Wanted(Manifest)' = Wanted(Manifest)
  BY <1>6, ManifestStays
<1> QED BY <1>6, <1>7, <1>8 DEF Types, Querying, AtMostOne

LEMMA InitTypes == Init => Types
<1> SUFFICES ASSUME Init PROVE Types
  OBVIOUS
<1>1. Tables(Nothing)
  BY EmptyIndexed DEF Tables, Nothing, Names
<1>2. LinkShape(NoLink)
  <2>1. <<"">> \in Seq({""}) /\ <<>> \in Seq({})
    OBVIOUS
  <2>2. IsList(<<"">>) /\ IsList(<<>>) /\ <<"">> # <<>>
    BY <2>1, ListOf
  <2> QED BY <2>2 DEF LinkShape, NoLink
<1>3. <<>> \in Seq(Sendable) /\ AtMostOne({}) /\ 0 \in 0..(MaxIgnored + 1)
  BY GatewayAssumption DEF AtMostOne
<1> QED BY <1>1, <1>2, <1>3 DEF Init, Types, Querying, LinkShape

LEMMA NextTypes == Types /\ [Next]_vars => Types'
<1> SUFFICES ASSUME Types, [Next]_vars PROVE Types'
  OBVIOUS
<1>1. CASE Route
  BY <1>1, RouteTypes
<1>2. CASE \/ ReceiveIgnored \/ FetchMore
           \/ \E e \in Unasked : ReceiveUnasked(e)
           \/ \E e \in coming : ReceiveEvent(e)
  BY <1>2, ReceiveTypes
<1>3. CASE QueryEnds \/ QueryRaises
  BY <1>3, OverTypes
<1>4. CASE FetchFails \/ \E data : FetchGood(data)
  BY <1>4, FetchTypes
<1>5. CASE Replied \/ \E l \in Links : Request(l)
  BY <1>5, RequestTypes
<1>6. ASSUME NEW r \in DOMAIN holds, NEW e \in Published, Publish(r, e) PROVE Types'
  BY <1>6, PublishTypes
<1>7. CASE UNCHANGED vars
  <2>1. Sources(Manifest)' = Sources(Manifest) /\ Wanted(Manifest)' = Wanted(Manifest)
    BY <1>7, ManifestStays DEF vars, request
  <2> QED BY <1>7, <2>1 DEF vars, request, Types, Tables, Indexed, Querying, AtMostOne
<1> QED BY <1>1, <1>2, <1>3, <1>4, <1>5, <1>6, <1>7 DEF Next, Handle

LEMMA TypesInductive == Spec => []Types
<1>1. Init => Types
  BY InitTypes
<1>2. Types /\ [Next]_vars => Types'
  BY NextTypes
<1> QED BY <1>1, <1>2, PTL DEF Spec

(* Whatever relays and servers send and whenever, a request has one        *)
(* relay or server it asks, that there is; one manifest at most, and one   *)
(* page.  The code: resolver.py's loops, RelayClient.query's messages.     *)
THEOREM TypeCorrect == Spec => []TypeOK
<1>1. Types => TypeOK
  <2> SUFFICES ASSUME Types PROVE TypeOK
    OBVIOUS
  <2>1. DOMAIN Relays = 1..Len(Relays)
    BY RelaysShape
  <2>2. DOMAIN holds = Names /\ \A r \in Names : holds[r].events \subseteq Published
    BY DEF Types, Tables
  <2>3. pc = "blob" => asked \in DOMAIN Sources(Manifest) /\ Wanted(Manifest) # {}
    <3> SUFFICES ASSUME pc = "blob" PROVE asked \in DOMAIN Sources(Manifest) /\ Wanted(Manifest) # {}
      OBVIOUS
    <3>1. newest # {} /\ newest \subseteq Sendable /\ asked \in 1..Len(Sources(Manifest)) /\ Wanted(Manifest) # {}
      BY DEF Types
    <3>2. IsList(Sources(Manifest))
      BY <3>1, SourcesList DEF Manifest
    <3> QED BY <3>1, <3>2, ListShape
  <2>4. Cardinality(newest) =< 1 /\ Cardinality(page) =< 1
    BY OneIsOne DEF Types
  <2>5. \A i \in DOMAIN posts : posts[i] \in Sendable
    BY DEF Types
  <2> QED BY <2>1, <2>2, <2>3, <2>4, <2>5 DEF Types, TypeOK
<1> QED BY <1>1, TypesInductive, PTL

-----------------------------------------------------------------------------
(* Links. *)
LEMMA EmptyList ==
    ASSUME NEW s, IsList(s), ToSet(s) = {}
    PROVE  s = <<>>
<1>1. s \in Seq({})
  BY DEF IsList
<1>2. ASSUME Len(s) # 0 PROVE FALSE
  <2>1. 1 \in 1..Len(s)
    BY <1>1, <1>2
  <2>2. s[1] \in {}
    BY <1>1, <2>1
  <2> QED BY <2>2
<1> QED BY <1>1, <1>2

LEMMA NothingStripped ==
    ASSUME NEW path, IsList(path), \A i \in DOMAIN path : path[i] = ""
    PROVE  Stripped(path) = <<>>
<1>1. PICK at : at = {i \in DOMAIN path : path[i] # ""}
  OBVIOUS
<1>2. at \cap DOMAIN path = {}
  BY <1>1
<1>3. PICK left : left = Selected(path, at)
  OBVIOUS
<1>4. left \in Seq(ToSet(path)) /\ ToSet(left) = {path[i] : i \in at \cap DOMAIN path}
  BY <1>3, SelectedList
<1>5. ToSet(left) = {}
  BY <1>2, <1>4
<1>6. IsList(left)
  BY <1>4, ListOf
<1> QED BY <1>1, <1>3, <1>5, <1>6, EmptyList DEF Stripped

LEMMA Single ==
    ASSUME NEW x
    PROVE  <<x>> \in Seq({x}) /\ \A i \in DOMAIN <<x>> : <<x>>[i] = x
<1>1. <<x>> \in Seq({x})
  OBVIOUS
<1>2. \A i \in DOMAIN <<x>> : i = 1
  OBVIOUS
<1>3. <<x>>[1] = x
  OBVIOUS
<1> QED BY <1>1, <1>2, <1>3

LEMMA OneElement ==
    ASSUME NEW S, NEW s \in Seq(S), Len(s) = 1
    PROVE  s = <<s[1]>>
OBVIOUS

LEMMA OneEmpty ==
    ASSUME NEW none, none = ""
    PROVE  Stripped(<<none>>) = <<>>
<1>1. PICK path : path = <<none>>
  OBVIOUS
<1>2. path \in Seq({none}) /\ \A i \in DOMAIN path : path[i] = none
  BY <1>1, Single
<1>3. IsList(path)
  BY <1>2, ListOf
<1> QED BY <1>1, <1>2, <1>3, NothingStripped

LEMMA EmptyPaths == Stripped(<<>>) = <<>> /\ Stripped(<<"">>) = <<>>
<1>1. Stripped(<<"">>) = <<>>
  <2>1. PICK none : none = ""
    OBVIOUS
  <2> QED BY <2>1, OneEmpty
<1>2. Stripped(<<>>) = <<>>
  <2>1. PICK path : path = <<>>
    OBVIOUS
  <2>2. path \in Seq({}) /\ DOMAIN path = {}
    BY <2>1
  <2>3. IsList(path)
    BY <2>2, ListOf
  <2> QED BY <2>1, <2>2, <2>3, NothingStripped
<1> QED BY <1>1, <1>2

LEMMA FourthAppended ==
    ASSUME NEW S, NEW path \in Seq(S), Len(path) = 3, NEW segment \in S
    PROVE  /\ Append(path, segment) \in Seq(S) /\ Len(Append(path, segment)) = 4
           /\ Append(path, segment)[4] = segment
<1>1. /\ Append(path, segment) \in Seq(S)
      /\ Len(Append(path, segment)) = Len(path) + 1
      /\ Append(path, segment)[Len(path) + 1] = segment
  BY AppendProperties, Zenon
<1> QED BY <1>1

LEMMA AppendKeeps ==
    ASSUME NEW S, NEW path \in Seq(S), NEW segment \in S, NEW i \in 1..Len(path)
    PROVE  Append(path, segment)[i] = path[i]
OBVIOUS

LEMMA FirstThree ==
    ASSUME NEW S, NEW path \in Seq(S), Len(path) = 3, NEW segment \in S
    PROVE  /\ Append(path, segment)[1] = path[1] /\ Append(path, segment)[2] = path[2]
           /\ Append(path, segment)[3] = path[3]
<1>1. \A i \in 1..Len(path) : Append(path, segment)[i] = path[i]
  BY AppendKeeps, Zenon
<1>2. 1 \in 1..Len(path) /\ 2 \in 1..Len(path) /\ 3 \in 1..Len(path)
  OBVIOUS
<1> QED BY <1>1, <1>2, Zenon

LEMMA AfterThird ==
    ASSUME NEW path
    PROVE  SubSeq(path, 4, 3) = <<>>
<1>1. 4 \in Int /\ 3 \in Int /\ 3 < 4
  OBVIOUS
<1> QED BY <1>1, SubSeqEmpty, Zenon

LEMMA FourthOn ==
    ASSUME NEW S, NEW s \in Seq(S), Len(s) = 4
    PROVE  SubSeq(s, 4, 4) = <<s[4]>>
<1>1. SubSeq(s, 4, 4) \in Seq(S) /\ Len(SubSeq(s, 4, 4)) = 1 /\ SubSeq(s, 4, 4)[1] = s[4]
  OBVIOUS
<1>2. SubSeq(s, 4, 4) = <<SubSeq(s, 4, 4)[1]>>
  BY <1>1, OneElement
<1> QED BY <1>1, <1>2, Zenon

(* /s/<npub>/<id> and /s/<npub>/<id>/ *)
LEMMA SlashedFields ==
    ASSUME NEW path, IsList(path), Len(path) = 3, NEW segment
    PROVE  /\ Len(Append(path, segment)) = 4
           /\ Append(path, segment)[1] = path[1] /\ Append(path, segment)[2] = path[2]
           /\ Append(path, segment)[3] = path[3]
           /\ SubSeq(path, 4, 3) = <<>> /\ SubSeq(Append(path, segment), 4, 4) = <<segment>>
<1>1. PICK S : S = ToSet(path) \cup {segment}
  OBVIOUS
<1>2. path \in Seq(S) /\ segment \in S
  BY <1>1 DEF IsList
<1>3. /\ Append(path, segment) \in Seq(S) /\ Len(Append(path, segment)) = 4
      /\ Append(path, segment)[4] = segment
  BY <1>2, FourthAppended, Zenon
<1>4. /\ Append(path, segment)[1] = path[1] /\ Append(path, segment)[2] = path[2]
      /\ Append(path, segment)[3] = path[3]
  BY <1>2, FirstThree, Zenon
<1>5. SubSeq(path, 4, 3) = <<>>
  BY <1>2, AfterThird, Zenon
<1>6. SubSeq(Append(path, segment), 4, 4) = <<Append(path, segment)[4]>>
  BY <1>3, FourthOn, Zenon
<1> QED BY <1>3, <1>4, <1>5, <1>6, Zenon

(* At least three of three or four fields. *)
LEMMA ThreeFields == 3 >= 3 /\ 4 >= 3
OBVIOUS

LEMMA SlashStands ==
    ASSUME LinkShape(link), NEW m, StandsFor(link, m),
           link.host[1] \notin DOMAIN Pubkey, ~NamedHost(link.host),
           Len(link.path) = 3, link.path[1] = "s",
           NEW l, l.host = link.host, l.path = Append(link.path, "")
    PROVE  StandsFor(l, m)
<1>1. /\ Len(l.path) = 4 /\ l.path[1] = "s" /\ l.path[2] = link.path[2] /\ l.path[3] = link.path[3]
      /\ SubSeq(link.path, 4, 3) = <<>> /\ SubSeq(l.path, 4, 4) = <<"">>
  <2>1. PICK path, longer : path = link.path /\ longer = l.path
    OBVIOUS
  <2>2. IsList(path) /\ Len(path) = 3 /\ longer = Append(path, "")
    BY <2>1 DEF LinkShape
  <2>3. PICK none : none = ""
    OBVIOUS
  <2>4. longer = Append(path, none)
    BY <2>2, <2>3
  <2>5. /\ Len(Append(path, none)) = 4
        /\ Append(path, none)[1] = path[1] /\ Append(path, none)[2] = path[2]
        /\ Append(path, none)[3] = path[3]
        /\ SubSeq(path, 4, 3) = <<>> /\ SubSeq(Append(path, none), 4, 4) = <<none>>
    BY <2>2, SlashedFields, Zenon
  <2> QED BY <2>1, <2>2, <2>3, <2>4, <2>5
<1>2. Stripped(SubSeq(l.path, 4, Len(l.path))) = Stripped(SubSeq(link.path, 4, Len(link.path)))
  BY <1>1, EmptyPaths
<1>3. ~Legacy(l, "n", 2) /\ ~Legacy(link, "n", 2)
  BY <1>1 DEF Legacy
<1>4. Legacy(l, "s", 3) <=> Legacy(link, "s", 3)
  BY <1>1, ThreeFields, Zenon DEF Legacy
<1>5. Legacy(link, "s", 3) => Same(m, Pubkey[link.path[2]], link.path[3], SubSeq(link.path, 4, Len(link.path)))
  BY DEF StandsFor
<1>6. Legacy(l, "s", 3) => Same(m, Pubkey[l.path[2]], l.path[3], SubSeq(l.path, 4, Len(l.path)))
  BY <1>1, <1>2, <1>4, <1>5 DEF Same
<1>7. Legacy(link, "s", 3) \/ Same(m, "none", "", <<>>)
  BY <1>3 DEF StandsFor
<1> QED BY <1>3, <1>4, <1>6, <1>7 DEF StandsFor

LEMMA RouteStands == Types /\ LinkStands /\ Route => LinkStands'
<1> SUFFICES ASSUME Types, LinkStands, Route PROVE LinkStands'
  OBVIOUS
<1>1. pc = "route" /\ StandsFor(link, link.means) /\ site = Nowhere /\ LinkShape(link)
  BY RouteCases, TypesLink DEF LinkStands, Types
<1>2. ASSUME NEW author, NEW identifier, NEW path, Served(author, identifier, path),
             Same(link.means, author, identifier, path)
      PROVE  LinkStands'
  BY <1>2 DEF LinkStands, LinkLeadsHome, Served, Same, Stripped
<1>3. CASE link.host[1] \in DOMAIN Pubkey /\ Served(Pubkey[link.host[1]], "", link.path)
  <2>1. Same(link.means, Pubkey[link.host[1]], "", link.path)
    BY <1>1, <1>3 DEF StandsFor
  <2> QED BY <1>2, <1>3, <2>1
<1>4. CASE /\ link.host[1] \notin DOMAIN Pubkey /\ NamedHost(link.host)
           /\ Served(Pubkey[link.host[2]], link.host[1], link.path)
  <2>1. Same(link.means, Pubkey[link.host[2]], link.host[1], link.path)
    BY <1>1, <1>4 DEF StandsFor
  <2> QED BY <1>2, <1>4, <2>1
<1>5. CASE Legacy(link, "n", 2) /\ Redirected(Npub[Pubkey[link.path[2]]])
  <2>1. PICK key, label : key = Pubkey[link.path[2]] /\ label = Npub[key]
    OBVIOUS
  <2>2. label \in DOMAIN Pubkey /\ Pubkey[label] = key
    <3>1. key \in DOMAIN Npub
      BY <1>5, <2>1, GatewayAssumption DEF Legacy
    <3> QED BY <2>1, <3>1, GatewayAssumption
  <2>3. Redirected(label) /\ From(3) = SubSeq(link.path, 3, Len(link.path))
    BY <1>5, <2>1 DEF From
  <2>4. /\ link'.host[1] = label /\ link'.means = link.means
        /\ link'.path = IF From(3) = <<>> THEN <<"">> ELSE From(3)
    BY <1>1, <2>3, RedirectShape
  <2>5. Stripped(link'.path) = Stripped(From(3))
    BY <2>4, EmptyPaths
  <2>6. Same(link.means, key, "", From(3))
    BY <1>1, <1>5, <2>1, <2>3 DEF StandsFor
  <2>7. PICK l : l = link'
    OBVIOUS
  <2>8. Same(link.means, Pubkey[l.host[1]], "", l.path) /\ l.host[1] \in DOMAIN Pubkey
    BY <2>2, <2>4, <2>5, <2>6, <2>7 DEF Same
  <2>9. StandsFor(l, link.means)
    BY <2>8 DEF StandsFor, Legacy
  <2>10. StandsFor(link, link.means)'
    BY <2>4, <2>7, <2>9 DEF StandsFor, Same, Legacy, NamedHost, Stripped
  <2>11. pc' = "route"
    BY <1>1, <2>3 DEF Redirected
  <2> QED BY <2>10, <2>11 DEF LinkStands, LinkLeadsHome
<1>6. CASE /\ link.host[1] \notin DOMAIN Pubkey /\ ~NamedHost(link.host)
           /\ Len(link.path) = 3 /\ link.path[1] = "s"
           /\ link' = [link EXCEPT !.path = Append(@, "")]
           /\ site' = site /\ pc' = pc /\ Stays
  <2>1. PICK l : l = link'
    OBVIOUS
  <2>2. l.host = link.host /\ l.means = link.means /\ l.path = Append(link.path, "")
    BY <1>1, <1>6, <2>1, SlashShape
  <2>3. StandsFor(l, link.means)
    BY <1>1, <1>6, <2>2, SlashStands
  <2>4. StandsFor(link, link.means)'
    BY <2>1, <2>2, <2>3 DEF StandsFor, Same, Legacy, NamedHost, Stripped
  <2> QED BY <1>1, <1>6, <2>4 DEF LinkStands, LinkLeadsHome
<1>7. CASE Legacy(link, "s", 4) /\ Served(Pubkey[link.path[2]], link.path[3], From(4))
  <2>1. Legacy(link, "s", 3)
    <3>1. Len(link.path) \in Nat
      BY <1>1, ListShape DEF LinkShape
    <3> QED BY <1>7, <3>1 DEF Legacy
  <2>2. Same(link.means, Pubkey[link.path[2]], link.path[3], From(4))
    BY <1>1, <2>1 DEF StandsFor, From
  <2> QED BY <1>2, <1>7, <2>2
<1>8. CASE ~Routable /\ pc' = "reply" /\ link' = link /\ site' = site /\ Stays
  <2>1. /\ link.host[1] \notin DOMAIN Pubkey /\ ~NamedHost(link.host)
        /\ ~Legacy(link, "n", 2) /\ ~Legacy(link, "s", 3)
    BY <1>8 DEF Routable, Legacy, Prefix
  <2>2. Same(link.means, "none", "", <<>>)
    BY <1>1, <2>1 DEF StandsFor
  <2>3. site.author = "none" /\ site.identifier = "" /\ site.path = <<>>
    BY <1>1 DEF Nowhere
  <2> QED BY <1>8, <2>2, <2>3 DEF LinkStands, LinkLeadsHome, Same, Stripped
<1> QED BY <1>3, <1>4, <1>5, <1>6, <1>7, <1>8, RouteCases

AsWritten == \A l \in Links : StandsFor(l, l.means)

LEMMA NextStands == AsWritten /\ Types /\ LinkStands /\ [Next]_vars => LinkStands'
<1> SUFFICES ASSUME AsWritten, Types, LinkStands, [Next]_vars PROVE LinkStands'
  OBVIOUS
<1>1. ASSUME UNCHANGED <<link, site>>, pc # "route", pc # "idle", pc' # "route"
      PROVE  LinkStands'
  BY <1>1 DEF LinkStands, LinkLeadsHome, Types, Stripped
<1>2. ASSUME UNCHANGED <<link, site, pc>> PROVE LinkStands'
  BY <1>2 DEF LinkStands, LinkLeadsHome, StandsFor, Same, Legacy, NamedHost, Stripped
<1>3. CASE Route
  BY <1>3, RouteStands
<1>4. CASE \/ ReceiveIgnored \/ FetchMore
           \/ \E e \in Unasked : ReceiveUnasked(e)
           \/ \E e \in coming : ReceiveEvent(e)
  BY <1>2, <1>4 DEF ReceiveIgnored, FetchMore, ReceiveUnasked, ReceiveEvent
<1>5. CASE QueryEnds \/ QueryRaises
  <2>1. PICK events : Over(events)
    BY <1>5, QueryEndsOver
  <2>2. Querying /\ UNCHANGED <<link, site>>
    BY <2>1 DEF Over
  <2>3. pc' # "route"
    <3>1. CASE pc = "manifest"
      <4>1. \/ NextRelay(ManifestFilter(site)) \/ Answers({}) \/ Answers({Failure})
            \/ ToPosts \/ ToBlob
        BY <2>1, <3>1, ManifestOver
      <4> QED BY <3>1, <4>1 DEF NextRelay, Answers, ToPosts, ToBlob
    <3>2. CASE pc = "posts"
      <4>1. NextRelay(PostsFilter(site)) \/ Answers(BlogPage(posts'))
        BY <2>1, <3>2, PostsOver
      <4> QED BY <3>2, <4>1 DEF NextRelay, Answers
    <3> QED BY <2>2, <3>1, <3>2 DEF Querying
  <2> QED BY <1>1, <2>2, <2>3 DEF Querying
<1>6. CASE FetchFails \/ \E data : FetchGood(data)
  BY <1>1, <1>6 DEF FetchFails, FetchGood, Reply
<1>7. CASE Replied
  BY <1>7 DEF Replied, LinkStands, LinkLeadsHome
<1>8. ASSUME NEW l \in Links, Request(l) PROVE LinkStands'
  <2>1. StandsFor(l, l.means) /\ link' = l /\ pc' = "route"
    BY <1>8 DEF AsWritten, Request
  <2>2. StandsFor(link, link.means)'
    BY <2>1 DEF StandsFor, Same, Legacy, NamedHost, Stripped
  <2> QED BY <2>1, <2>2 DEF LinkStands, LinkLeadsHome
<1>9. CASE \E r \in DOMAIN holds, e \in Published : Publish(r, e)
  BY <1>2, <1>9 DEF Publish, request
<1>10. CASE UNCHANGED vars
  BY <1>2, <1>10 DEF vars, request
<1> QED BY <1>3, <1>4, <1>5, <1>6, <1>7, <1>8, <1>9, <1>10 DEF Next, Handle

(* If the links are written in the forms that server.py's docstring and    *)
(* its legacy routes know (AsWritten), what is resolved is the site and    *)
(* the path a link stands for, through whichever redirects.                *)
THEOREM LinksResolve ==
    ASSUME AsWritten
    PROVE  Spec => []LinkLeadsHome
<1>1. Init => LinkStands
  BY DEF Init, LinkStands, LinkLeadsHome
<1>2. Types /\ LinkStands /\ [Next]_vars => LinkStands'
  BY NextStands
<1>3. LinkStands => LinkLeadsHome
  BY DEF LinkStands
<1> QED BY <1>1, <1>2, <1>3, TypesInductive, PTL DEF Spec


-----------------------------------------------------------------------------
(* Sources. *)
NoDeletions == \A e \in Published : e.kind # 5

OneName == \A e \in Published : e.kind = KIND_NAMED => AtMostOne(Named(e, "d"))

LEMMA Classes ==
    /\ classify(KIND_ROOT) = "replaceable"
    /\ classify(KIND_LEGACY) = "addressable"
    /\ classify(KIND_NAMED) = "addressable"
    /\ classify(KIND_LONGFORM) = "addressable"
BY DEF classify, KIND_ROOT, KIND_LEGACY, KIND_NAMED, KIND_LONGFORM

LEMMA RootFilter ==
    ASSUME NEW s, s.identifier = ""
    PROVE  /\ TagFilters(ManifestFilter(s)) = {}
           /\ "limit" \in DOMAIN ManifestFilter(s) /\ ManifestFilter(s).limit = 1
           /\ \A e : matches(e, ManifestFilter(s)) <=>
                        e.pubkey = s.author /\ e.kind \in {KIND_ROOT, KIND_LEGACY}
<1>1. PICK flt : flt = [authors |-> {s.author}, kinds |-> {KIND_ROOT, KIND_LEGACY}, limit |-> 1]
  OBVIOUS
<1>2. ManifestFilter(s) = flt
  BY <1>1 DEF ManifestFilter
<1>3. /\ DOMAIN flt = {"authors", "kinds", "limit"} /\ flt.limit = 1
      /\ flt.authors = {s.author} /\ flt.kinds = {KIND_ROOT, KIND_LEGACY}
  BY <1>1
<1>4. TagFilters(flt) = {} /\ "limit" \in DOMAIN flt
  BY <1>3 DEF TagFilters
<1>5. \A e : matches(e, flt) <=> e.pubkey = s.author /\ e.kind \in {KIND_ROOT, KIND_LEGACY}
  BY <1>3, <1>4 DEF matches, MatchesColumns
<1> QED BY <1>2, <1>3, <1>4, <1>5

LEMMA NamedFilter ==
    ASSUME NEW s, s.identifier # ""
    PROVE  /\ TagFilters(ManifestFilter(s)) = {"d"}
           /\ "limit" \in DOMAIN ManifestFilter(s) /\ ManifestFilter(s).limit = 1
           /\ \A e : matches(e, ManifestFilter(s)) <=>
                        /\ e.pubkey = s.author /\ e.kind = KIND_NAMED
                        /\ s.identifier \in tag_values(e, "d")
<1>1. PICK names : names = [x \in {"d"} |-> {s.identifier}]
  OBVIOUS
<1>2. PICK flt : flt = [authors |-> {s.author}, kinds |-> {KIND_NAMED}, tags |-> names, limit |-> 1]
  OBVIOUS
<1>3. ManifestFilter(s) = flt
  BY <1>1, <1>2 DEF ManifestFilter
<1>4. /\ DOMAIN flt = {"authors", "kinds", "tags", "limit"} /\ flt.limit = 1
      /\ flt.authors = {s.author} /\ flt.kinds = {KIND_NAMED} /\ flt.tags = names
  BY <1>2
<1>5. DOMAIN names = {"d"} /\ names["d"] = {s.identifier}
  BY <1>1
<1>6. TagFilters(flt) = {"d"} /\ "limit" \in DOMAIN flt
  BY <1>4, <1>5 DEF TagFilters
<1>7. \A e : matches(e, flt) <=> /\ e.pubkey = s.author /\ e.kind = KIND_NAMED
                                 /\ s.identifier \in tag_values(e, "d")
  <2>1. \A e : MatchesColumns(e, flt) <=> e.pubkey = s.author /\ e.kind = KIND_NAMED
    BY <1>4 DEF MatchesColumns
  <2>2. \A e : matches(e, flt) <=> MatchesColumns(e, flt) /\ tag_values(e, "d") \cap {s.identifier} # {}
    BY <1>4, <1>5, <1>6 DEF matches
  <2> QED BY <2>1, <2>2
<1> QED BY <1>3, <1>4, <1>6, <1>7

LEMMA PostFilter ==
    ASSUME NEW s
    PROVE  /\ TagFilters(PostsFilter(s)) = {} /\ "limit" \notin DOMAIN PostsFilter(s)
           /\ \A e : matches(e, PostsFilter(s)) <=> e.pubkey = s.author /\ e.kind = KIND_LONGFORM
<1>1. PICK flt : flt = [authors |-> {s.author}, kinds |-> {KIND_LONGFORM}]
  OBVIOUS
<1>2. PostsFilter(s) = flt
  BY <1>1 DEF PostsFilter
<1>3. DOMAIN flt = {"authors", "kinds"} /\ flt.authors = {s.author} /\ flt.kinds = {KIND_LONGFORM}
  BY <1>1
<1>4. TagFilters(flt) = {} /\ "limit" \notin DOMAIN flt
  BY <1>3 DEF TagFilters
<1>5. \A e : matches(e, flt) <=> e.pubkey = s.author /\ e.kind = KIND_LONGFORM
  BY <1>3, <1>4 DEF matches, MatchesColumns
<1> QED BY <1>2, <1>4, <1>5

LEMMA Counting == \A n \in Nat : 1..n \subseteq Nat
OBVIOUS

(* A d tag is the first of its name, the only one in a named manifest.     *)
LEMMA NameOf ==
    ASSUME NEW e \in Published, NEW v, v # ""
    PROVE  /\ d_tag(e) = v => v \in tag_values(e, "d")
           /\ AtMostOne(Named(e, "d")) /\ v \in tag_values(e, "d") => d_tag(e) = v
<1>1. PICK at : at = Named(e, "d")
  OBVIOUS
<1>2. at \subseteq Nat
  <2>1. IsList(e.tags)
    BY PublishedFormed DEF WellFormed
  <2>2. Len(e.tags) \in Nat /\ DOMAIN e.tags = 1..Len(e.tags)
    BY <2>1, ListShape
  <2>3. at \subseteq DOMAIN e.tags
    BY <1>1 DEF Named
  <2>4. 1..Len(e.tags) \subseteq Nat
    BY <2>2, Counting, Zenon
  <2> QED BY <2>2, <2>3, <2>4, Zenon
<1>3. PICK first : first = CHOOSE i \in at : \A j \in at : i =< j
  OBVIOUS
<1>4. at # {} => first \in at
  <2>1. at # {} => \E i \in at : \A j \in at : i =< j
    BY <1>2, Least
  <2> QED BY <1>3, <2>1
<1>5. /\ at = {} => d_tag(e) = ""
      /\ at # {} => d_tag(e) = e.tags[first][2]
  BY <1>1, <1>3 DEF d_tag, first_tag
<1>6. tag_values(e, "d") = {e.tags[i][2] : i \in at}
  BY <1>1 DEF tag_values
<1>7. d_tag(e) = v => v \in tag_values(e, "d")
  BY <1>4, <1>5, <1>6
<1>8. ASSUME AtMostOne(at), v \in tag_values(e, "d") PROVE d_tag(e) = v
  <2>1. PICK i \in at : v = e.tags[i][2]
    BY <1>6, <1>8
  <2>2. i = first
    BY <1>4, <1>8, <2>1 DEF AtMostOne
  <2> QED BY <1>5, <2>1, <2>2
<1> QED BY <1>1, <1>7, <1>8

LEMMA SameSlotMatches ==
    ASSUME OneName, NEW s, NEW e \in Published, NEW g \in Published, AtLeast(g, e),
           matches(e, ManifestFilter(s))
    PROVE  matches(g, ManifestFilter(s))
<1>1. Slot(e) = Slot(g)
  BY DEF AtLeast
<1>2. CASE s.identifier = ""
  <2>1. e.pubkey = s.author /\ e.kind \in {KIND_ROOT, KIND_LEGACY}
    BY <1>2, RootFilter
  <2>2. classify(e.kind) \in {"replaceable", "addressable"}
    BY <2>1, Classes
  <2>3. g.pubkey = s.author /\ g.kind \in {KIND_ROOT, KIND_LEGACY}
    BY <1>1, <2>1, <2>2, SlotSame
  <2> QED BY <1>2, <2>3, RootFilter
<1>3. CASE s.identifier # ""
  <2>1. e.pubkey = s.author /\ e.kind = KIND_NAMED /\ s.identifier \in tag_values(e, "d")
    BY <1>3, NamedFilter
  <2>2. classify(e.kind) = "addressable"
    BY <2>1, Classes
  <2>3. g.pubkey = s.author /\ g.kind = KIND_NAMED /\ d_tag(g) = d_tag(e)
    BY <1>1, <2>1, <2>2, SlotSame
  <2>4. AtMostOne(Named(e, "d"))
    BY <2>1 DEF OneName
  <2>5. d_tag(e) = s.identifier
    BY <1>3, <2>1, <2>4, NameOf
  <2>6. s.identifier \in tag_values(g, "d")
    BY <1>3, <2>3, <2>5, NameOf
  <2> QED BY <1>3, <2>3, <2>6, NamedFilter
<1> QED BY <1>2, <1>3

LEMMA SameSlotPosts ==
    ASSUME NEW s, NEW e \in Published, NEW g \in Published, AtLeast(g, e),
           matches(e, PostsFilter(s))
    PROVE  matches(g, PostsFilter(s)) /\ d_tag(g) = d_tag(e)
<1>1. Slot(e) = Slot(g)
  BY DEF AtLeast
<1>2. e.pubkey = s.author /\ e.kind = KIND_LONGFORM
  BY PostFilter
<1>3. classify(e.kind) = "addressable"
  BY <1>2, Classes
<1>4. g.pubkey = s.author /\ g.kind = KIND_LONGFORM /\ d_tag(g) = d_tag(e)
  BY <1>1, <1>2, <1>3, SlotSame
<1> QED BY <1>4, PostFilter

LEMMA QueryMatches ==
    ASSUME NEW db, db.events \subseteq Published, Indexed(Published, db),
           NEW flt, TagFilters(flt) \subseteq Letters, NEW m \in query(db, {flt})
    PROVE  matches(m, flt)
<1>1. CASE "limit" \in DOMAIN flt
  <2>1. query(db, {flt}) \subseteq Fitting(db, flt)
    BY <1>1, PublishedFormed, QueryFound
  <2> QED BY <2>1 DEF Fitting
<1>2. CASE "limit" \notin DOMAIN flt
  <2>1. query(db, {flt}) = Fitting(db, flt)
    BY <1>2, PublishedFormed, QueryFound
  <2> QED BY <2>1 DEF Fitting
<1> QED BY <1>1, <1>2

(* What a relay still has of what it had covers it. *)
LEMMA StillCovers ==
    ASSUME OneName, Types, Kept, NEW r \in Names, NEW s
    PROVE  Covers(query(holds[r], {ManifestFilter(s)}), before[r], s)
<1>1. /\ holds[r].events \subseteq Published /\ Indexed(Published, holds[r])
      /\ before[r].events \subseteq Published /\ Indexed(Published, before[r])
      /\ WellFormed(Published)
  BY PublishedFormed DEF Types, Tables
<1>2. PICK flt, now, old : flt = ManifestFilter(s) /\ now = holds[r] /\ old = before[r]
  OBVIOUS
<1>3. TagFilters(flt) \subseteq Letters /\ "limit" \in DOMAIN flt /\ flt.limit = 1
  BY <1>2, RootFilter, NamedFilter, GatewayAssumption
<1>4. ASSUME NEW m \in query(old, {flt})
      PROVE  \E n \in query(now, {flt}) : n.created_at >= m.created_at
  <2>1. m \in old.events
    BY <1>4, QueryWithin
  <2>2. matches(m, flt)
    BY <1>1, <1>2, <1>3, <1>4, QueryMatches
  <2>3. PICK g \in now.events : AtLeast(g, m)
    BY <1>2, <2>1 DEF Kept
  <2>4. g \in Published /\ m \in Published
    BY <1>1, <1>2, <2>1, <2>3
  <2>5. g \in Fitting(now, flt)
    BY <1>2, <2>2, <2>3, <2>4, SameSlotMatches DEF Fitting
  <2>6. PICK t \in query(now, {flt}) : t = g \/ Beats(t, g)
    BY <1>1, <1>2, <1>3, <2>5, QueryNewest
  <2>7. t \in Published
    BY <1>1, <1>2, <2>6, QueryWithin
  <2>8. t = g \/ t.created_at >= g.created_at
    BY <1>1, <2>4, <2>6, <2>7, BeatsOrder
  <2>9. g = m \/ g.created_at >= m.created_at
    BY <1>1, <2>3, <2>4, BeatsOrder DEF AtLeast
  <2>10. \A e \in Published : e.created_at \in Int
    BY <1>1 DEF WellFormed
  <2> QED BY <2>4, <2>6, <2>7, <2>8, <2>9, <2>10
<1> QED BY <1>2, <1>4 DEF Covers, Found

LEMMA StillCoversPosts ==
    ASSUME Types, Kept, NEW r \in Names, NEW s
    PROVE  CoversPosts(query(holds[r], {PostsFilter(s)}), before[r], s)
<1>1. /\ holds[r].events \subseteq Published /\ Indexed(Published, holds[r])
      /\ before[r].events \subseteq Published /\ Indexed(Published, before[r])
      /\ WellFormed(Published)
  BY PublishedFormed DEF Types, Tables
<1>2. PICK flt, now, old : flt = PostsFilter(s) /\ now = holds[r] /\ old = before[r]
  OBVIOUS
<1>3. TagFilters(flt) \subseteq Letters /\ "limit" \notin DOMAIN flt
  BY <1>2, PostFilter
<1>4. ASSUME NEW m \in query(old, {flt})
      PROVE  \E n \in query(now, {flt}) \cap Published : d_tag(n) = d_tag(m)
  <2>1. m \in old.events
    BY <1>4, QueryWithin
  <2>2. matches(m, flt)
    BY <1>1, <1>2, <1>3, <1>4, QueryMatches
  <2>3. PICK g \in now.events : AtLeast(g, m)
    BY <1>2, <2>1 DEF Kept
  <2>4. g \in Published /\ m \in Published
    BY <1>1, <1>2, <2>1, <2>3
  <2>5. g \in Fitting(now, flt) /\ d_tag(g) = d_tag(m)
    BY <1>2, <2>2, <2>3, <2>4, SameSlotPosts DEF Fitting
  <2>6. query(now, {flt}) = Fitting(now, flt)
    BY <1>1, <1>2, <1>3, QueryFound
  <2> QED BY <2>4, <2>5, <2>6
<1> QED BY <1>2, <1>4 DEF CoversPosts, Found

LEMMA NextKept ==
    ASSUME NoDeletions, Types, Kept, [Next]_vars
    PROVE  Kept'
<1>1. WellFormed(Published)
  BY PublishedFormed
<1>2. CASE UNCHANGED <<holds, before>>
  BY <1>2 DEF Kept
<1>3. ASSUME NEW r \in DOMAIN holds, NEW e \in Published, Publish(r, e)
      PROVE  Kept'
  <2>1. /\ Answer(holds[r], e) = "stored" /\ holds' = [holds EXCEPT ![r] = Write(@, e)]
        /\ before' = before
    BY <1>3 DEF Publish, request
  <2>2. PICK now, after : now = holds /\ after = holds'
    OBVIOUS
  <2>3. /\ DOMAIN now = Names /\ r \in Names /\ e.kind # 5
        /\ \A q \in Names : now[q].events \subseteq Published /\ Indexed(Published, now[q])
    BY <2>2 DEF Types, Tables, NoDeletions
  <2>4. after = IF Answer(now[r], e) = "stored" THEN [now EXCEPT ![r] = Write(@, e)] ELSE now
    BY <2>1, <2>2
  <2>5. \A q \in Names : /\ after[q].events \subseteq now[q].events \cup {e}
                         /\ \A f \in now[q].events : \E g \in after[q].events : AtLeast(g, f)
    BY <1>1, <2>3, <2>4, Stored
  <2>6. ASSUME NEW q \in Names, NEW f \in before[q].events
        PROVE  \E g \in after[q].events : AtLeast(g, f)
    <3>1. PICK h \in now[q].events : AtLeast(h, f)
      BY <2>2, <2>6 DEF Kept
    <3>2. PICK g \in after[q].events : AtLeast(g, h)
      BY <2>5, <2>6, <3>1
    <3>3. f \in Published /\ h \in Published /\ g \in Published
      BY <2>3, <2>5, <2>6, <3>1, <3>2 DEF Types, Tables
    <3>4. AtLeast(g, f)
      BY <1>1, <3>1, <3>2, <3>3, AtLeastOrder
    <3> QED BY <3>4
  <2> QED BY <2>1, <2>2, <2>6 DEF Kept
<1>4. ASSUME NEW l \in Links, Request(l) PROVE Kept'
  <2>1. before' = holds /\ holds' = holds
    BY <1>4 DEF Request
  <2>2. \A e : AtLeast(e, e)
    BY DEF AtLeast
  <2> QED BY <2>1, <2>2 DEF Kept
<1>5. CASE Replied
  <2>1. before' = Nothing
    BY <1>5 DEF Replied
  <2>2. \A r \in Names : Nothing[r].events = {}
    BY DEF Nothing, Names, Empty
  <2> QED BY <2>1, <2>2 DEF Kept
<1>6. CASE Route
  BY <1>2, <1>6 DEF Route
<1>7. CASE \/ ReceiveIgnored \/ FetchMore
           \/ \E e \in Unasked : ReceiveUnasked(e)
           \/ \E e \in coming : ReceiveEvent(e)
  BY <1>2, <1>7 DEF ReceiveIgnored, FetchMore, ReceiveUnasked, ReceiveEvent
<1>8. CASE QueryEnds \/ QueryRaises
  BY <1>2, <1>8 DEF QueryEnds, QueryRaises
<1>9. CASE FetchFails \/ \E data : FetchGood(data)
  BY <1>2, <1>9 DEF FetchFails, FetchGood
<1>10. CASE UNCHANGED vars
  BY <1>2, <1>10 DEF vars, request
<1> QED BY <1>3, <1>4, <1>5, <1>6, <1>7, <1>8, <1>9, <1>10 DEF Next, Handle

-----------------------------------------------------------------------------
(* The parts of Progress in the next state. *)
LEMMA ManifestNext ==
    ManifestAsked' <=>
       (pc' = "manifest" =>
          /\ \A k \in 1..(asked' - 1) : Relays[k] \in Reliable => Covers(newest', before'[Relays[k]], site')
          /\ Relays[asked'] \in Reliable => Covers(coming' \cup ToSet(out'), before'[Relays[asked']], site'))
BY DEF ManifestAsked, Relay, ToSet, Covers, Found, query, QueryOne, SqlMatches, MatchesColumns,
       TagFilters, ManifestFilter, Beats

LEMMA PostsNext ==
    PostsAsked' <=>
       (pc' = "posts" =>
          /\ \A m \in newest' : first_tag(m, "app") = "blog"
          /\ Clean(posts') =>
                \A k \in 1..(asked' - 1) : Relays[k] \in Reliable => CoversPosts(ToSet(posts'), before'[Relays[k]], site')
          /\ Relays[asked'] \in Reliable => CoversPosts(coming' \cup ToSet(out'), before'[Relays[asked']], site'))
BY DEF PostsAsked, Clean, Relay, ToSet, CoversPosts, Found, query, QueryOne, SqlMatches, MatchesColumns,
       TagFilters, PostsFilter, Beats

LEMMA FreshNext ==
    Fresh' <=>
       (pc' \in {"posts", "blob"} \/ (pc' = "reply" /\ site' # Nowhere) =>
          \A r \in DOMAIN holds' \cap Reliable : Covers(newest', before'[r], site'))
BY DEF Fresh, Done, ReliableRelays, Covers, Found, query, QueryOne, SqlMatches, MatchesColumns,
       TagFilters, ManifestFilter, Beats

(* What ServedIfAnyoneCan says of an answer. *)
PostServed(db, s, answer) ==
    \A e \in Found(db, PostsFilter(s)) :
       \A slug \in {<<d_tag(e)>>} \ {<<"index.html">>} :
          Stripped(s.path) = slug =>
             \E f \in Sendable : d_tag(f) = d_tag(e) /\ answer = {<<"post", f.id>>}

FileServed(m, sha, answer) ==
    \/ answer = {<<"blob", sha>>}
    \/ /\ answer = {}
       /\ \A i \in DOMAIN Sources(m) : Sources(m)[i] \in Reliable => sha \notin Blobs[Sources(m)[i]]

LEMMA ServedNext ==
    ASSUME site' = site
    PROVE  ServedIfAnyoneCan' <=>
             (pc' = "reply" /\ site # Nowhere =>
                \A m \in newest' \ Malformed :
                   IF first_tag(m, "app") = "blog"
                   THEN Clean(posts') =>
                           \A r \in DOMAIN holds' \cap Reliable : PostServed(before'[r], site, page')
                   ELSE \A sha \in Wanted(m) : FileServed(m, sha, page'))
<1>1. \A m : Wanted(m)' = Wanted(m)
  BY DEF Wanted
<1> QED BY <1>1 DEF ServedIfAnyoneCan, Clean, ToSet, Done, ReliableRelays, PostServed, FileServed, Found, query, QueryOne,
       SqlMatches, MatchesColumns, TagFilters, PostsFilter, Beats, Stripped

LEMMA NotReplying ==
    ASSUME pc' # "reply"
    PROVE  ServedIfAnyoneCan'
BY DEF ServedIfAnyoneCan, Done

LEMMA ServersNext ==
    ASSUME UNCHANGED <<newest, site>>
    PROVE  ServersAsked' <=>
             (pc' = "blob" =>
                /\ \A m \in newest : first_tag(m, "app") # "blog"
                /\ \A k \in 1..(asked' - 1) :
                      Sources(Manifest)[k] \in Reliable => Sha \notin Blobs[Sources(Manifest)[k]])
BY ManifestStays DEF ServersAsked

LEMMA SteadyProgress ==
    ASSUME Progress, UNCHANGED <<pc, site, asked, newest, posts, page, before>>,
           DOMAIN holds' = DOMAIN holds,
           Querying /\ Relay \in Reliable => coming' \cup ToSet(out') = coming \cup ToSet(out)
    PROVE  Progress'
<1>1. ManifestAsked'
  BY ManifestNext DEF Progress, ManifestAsked, Relay, Querying
<1>2. PostsAsked'
  BY PostsNext DEF Progress, PostsAsked, Relay, Clean, Querying
<1>3. ServersAsked'
  BY ServersNext DEF Progress, ServersAsked
<1>4. Fresh'
  BY FreshNext DEF Progress, Fresh, Done, ReliableRelays
<1>5. ServedIfAnyoneCan'
  BY ServedNext DEF Progress, ServedIfAnyoneCan, Clean, Done, ReliableRelays, PostServed, FileServed
<1> QED BY <1>1, <1>2, <1>3, <1>4, <1>5 DEF Progress

LEMMA SentOrComing ==
    ASSUME Types, NEW e \in coming, out' = Append(out, e), coming' = coming \ {e}
    PROVE  coming' \cup ToSet(out') = coming \cup ToSet(out)
<1>1. out \in Seq(Sendable) /\ e \in Sendable
  BY PublishedSendable DEF Types
<1>2. ToSet(Append(out, e)) = ToSet(out) \cup {e}
  BY <1>1, Appended
<1> QED BY <1>2

LEMMA CoversMore ==
    ASSUME NEW S, NEW T, S \subseteq Sendable, T \subseteq Sendable,
           \A x \in S : \E y \in T : y.created_at >= x.created_at,
           NEW db, db.events \subseteq Published, NEW s, Covers(S, db, s)
    PROVE  Covers(T, db, s)
<1>1. \A e \in Sendable : e.created_at \in Int
  BY SendableFormed
<1>2. Found(db, ManifestFilter(s)) \subseteq Sendable
  BY QueryWithin, PublishedSendable DEF Found
<1>3. ASSUME NEW m \in Found(db, ManifestFilter(s)) PROVE \E y \in T : y.created_at >= m.created_at
  <2>1. PICK n \in S : n.created_at >= m.created_at
    BY <1>3 DEF Covers
  <2>2. PICK y \in T : y.created_at >= n.created_at
    BY <2>1
  <2>3. m \in Sendable /\ n \in Sendable /\ y \in Sendable
    BY <1>2, <1>3, <2>1, <2>2
  <2> QED BY <1>1, <2>1, <2>2, <2>3
<1> QED BY <1>3 DEF Covers

LEMMA NothingHeard == ToSet(<<>>) = {}
BY DEF ToSet

LEMMA AtOrEarlier == \A n \in Nat : \A k \in 1..n : k \in 1..(n - 1) \/ k = n
OBVIOUS

LEMMA OneMore == \A n \in Nat : (n + 1) - 1 = n
OBVIOUS

LEMMA NoneBefore == 1..(1 - 1) = {}
OBVIOUS

LEMMA ManifestProgress ==
    ASSUME OneName, Types, Kept, Progress, NEW events, Over(events), pc = "manifest"
    PROVE  Progress'
<1>1. /\ newest' \subseteq Sendable
      /\ \A x \in newest \cup ToSet(events) : \E y \in newest' : y.created_at >= x.created_at
      /\ \/ NextRelay(ManifestFilter(site))
         \/ Answers({}) /\ Unserved
         \/ Answers({Failure}) /\ Unreadable
         \/ ToPosts
         \/ ToBlob
  BY ManifestOver
<1>2. PICK found : found = newest'
  OBVIOUS
<1>3. /\ UNCHANGED <<holds, link, site, before>> /\ events \in Seq(Sendable)
      /\ Relay \in Reliable => coming = {} /\ events = out
  BY DEF Over
<1>4. asked \in 1..Len(Relays) /\ asked \in Nat /\ Len(Relays) \in Nat
  BY RelaysShape DEF Types, Querying
<1>5. \A r \in Names : before[r].events \subseteq Published
  BY DEF Types, Tables
<1>6. newest \subseteq Sendable /\ ToSet(events) \subseteq Sendable /\ DOMAIN holds = Names
  BY <1>3, ListOf DEF Types, Tables
<1>7. \A k \in 1..Len(Relays) : Relays[k] \in Names
  BY RelaysShape
<1>8. ASSUME NEW k \in 1..asked, Relays[k] \in Reliable
      PROVE  Covers(found, before[Relays[k]], site)
  <2>1. k \in 1..Len(Relays)
    BY <1>4, <1>8
  <2>2. before[Relays[k]].events \subseteq Published
    BY <1>5, <1>7, <2>1
  <2>3. CASE k \in 1..(asked - 1)
    <3>1. Covers(newest, before[Relays[k]], site)
      BY <1>8, <2>3 DEF Progress, ManifestAsked
    <3> QED BY <1>1, <1>2, <1>6, <2>2, <3>1, CoversMore
  <2>4. CASE k = asked
    <3>1. Relay \in Reliable
      BY <1>8, <2>4 DEF Relay
    <3>2. coming \cup ToSet(out) = ToSet(events)
      BY <1>3, <3>1
    <3>3. Covers(ToSet(events), before[Relays[k]], site)
      BY <2>4, <3>1, <3>2 DEF Progress, ManifestAsked, Relay
    <3> QED BY <1>1, <1>2, <1>6, <2>2, <3>3, CoversMore
  <2> QED BY <1>4, <1>8, <2>3, <2>4, AtOrEarlier
<1>9. CASE NextRelay(ManifestFilter(site))
  <2>1. /\ asked + 1 \in 1..Len(Relays) /\ asked' = asked + 1 /\ pc' = "manifest" /\ out' = <<>>
        /\ coming' = query(holds[Relays[asked + 1]], {ManifestFilter(site)})
    BY <1>9 DEF NextRelay
  <2>2. Covers(coming', before[Relays[asked']], site)
    BY <1>7, <2>1, StillCovers
  <2>3. coming' \cup ToSet(out') = coming'
    BY <2>1, NothingHeard
  <2>4. asked' - 1 = asked
    BY <1>4, <2>1, OneMore
  <2>5. ManifestAsked'
    BY <1>2, <1>3, <1>8, <2>2, <2>3, <2>4, ManifestNext
  <2>6. ServedIfAnyoneCan'
    BY <2>1, NotReplying
  <2> QED BY <2>1, <2>5, <2>6 DEF Progress, PostsAsked, ServersAsked, Fresh, Done
<1>10. ASSUME asked = Len(Relays) PROVE Fresh'
  <2>1. ASSUME NEW r \in Names, r \in Reliable PROVE Covers(found, before[r], site)
    <3>1. PICK k \in 1..Len(Relays) : r = Relays[k]
      BY <2>1, RelaysShape
    <3> QED BY <1>8, <1>10, <2>1, <3>1
  <2> QED BY <1>2, <1>3, <1>6, <2>1, FreshNext
<1>11. CASE Answers({}) /\ Unserved
  <2>1. pc' = "reply" /\ page' = {} /\ asked = Len(Relays)
    BY <1>11 DEF Answers
  <2>2. ASSUME NEW m \in newest', NEW sha \in Wanted(m) PROVE FileServed(m, sha, {})
    <3>1. Sources(m) = <<>>
      BY <1>11, <2>2 DEF Unserved
    <3>2. DOMAIN Sources(m) = {}
      BY <3>1
    <3> QED BY <3>2 DEF FileServed
  <2>3. \A m \in newest' : first_tag(m, "app") # "blog"
    BY <1>11 DEF Unserved
  <2>4. ServedIfAnyoneCan'
    BY <1>3, <2>1, <2>2, <2>3, ServedNext
  <2> QED BY <1>10, <2>1, <2>4 DEF Progress, ManifestAsked, PostsAsked, ServersAsked
<1>12. CASE Answers({Failure}) /\ Unreadable
  <2>1. pc' = "reply" /\ asked = Len(Relays) /\ newest' \ Malformed = {}
    BY <1>12 DEF Answers, Unreadable
  <2>2. ServedIfAnyoneCan'
    BY <1>3, <2>1, ServedNext
  <2> QED BY <1>10, <2>1, <2>2 DEF Progress, ManifestAsked, PostsAsked, ServersAsked
<1>13. CASE ToPosts
  <2>1. /\ pc' = "posts" /\ asked' = 1 /\ out' = <<>> /\ asked = Len(Relays)
        /\ coming' = query(holds[Relays[1]], {PostsFilter(site)})
        /\ \A m \in newest' : first_tag(m, "app") = "blog"
    BY <1>13 DEF ToPosts
  <2>2. 1 \in 1..Len(Relays)
    BY RelaysShape
  <2>3. CoversPosts(coming', before[Relays[asked']], site)
    BY <1>7, <2>1, <2>2, StillCoversPosts
  <2>4. coming' \cup ToSet(out') = coming'
    BY <2>1, NothingHeard
  <2>5. 1..(asked' - 1) = {}
    BY <2>1, NoneBefore
  <2>6. PostsAsked'
    BY <1>3, <2>1, <2>3, <2>4, <2>5, PostsNext
  <2>7. ServedIfAnyoneCan'
    BY <2>1, NotReplying
  <2> QED BY <1>10, <2>1, <2>6, <2>7 DEF Progress, ManifestAsked, ServersAsked
<1>14. CASE ToBlob
  <2>1. /\ pc' = "blob" /\ asked' = 1 /\ asked = Len(Relays)
        /\ \A m \in newest' : first_tag(m, "app") # "blog"
    BY <1>14 DEF ToBlob
  <2>2. 1..(asked' - 1) = {}
    BY <2>1, NoneBefore
  <2>3. ServersAsked'
    BY <2>1, <2>2 DEF ServersAsked
  <2>4. ServedIfAnyoneCan'
    BY <2>1, NotReplying
  <2> QED BY <1>10, <2>1, <2>3, <2>4 DEF Progress, ManifestAsked, PostsAsked
<1> QED BY <1>1, <1>9, <1>11, <1>12, <1>13, <1>14

LEMMA OneLeast ==
    ASSUME NEW T, T \subseteq Nat, NEW j \in T, \A k \in T : j =< k
    PROVE  {i \in T : \A k \in T : i =< k} = {j}
<1>1. \A i \in T : i \in Nat
  OBVIOUS
<1>2. \A i \in T : i =< j /\ j =< i => i = j
  BY <1>1
<1> QED BY <1>2

(* The page of a blog has the post that a link names, if any of the name   *)
(* was received.                                                           *)
LEMMA BlogServes ==
    ASSUME NEW list \in Seq(Sendable), Clean(list), NEW db, CoversPosts(ToSet(list), db, site)
    PROVE  PostServed(db, site, BlogPage(list))
<1>1. ASSUME NEW e \in Found(db, PostsFilter(site)),
             <<d_tag(e)>> # <<"index.html">>, Stripped(site.path) = <<d_tag(e)>>
      PROVE  \E f \in Sendable : d_tag(f) = d_tag(e) /\ BlogPage(list) = {<<"post", f.id>>}
  <2>1. PICK slug : slug = <<d_tag(e)>>
    OBVIOUS
  <2>2. slug # <<>> /\ slug # <<"index.html">>
    BY <1>1, <2>1
  <2>3. BlogPage(list) = PostOf(list, slug)
    BY <1>1, <2>1, <2>2 DEF BlogPage
  <2>4. PICK g \in ToSet(list) : d_tag(g) = d_tag(e)
    BY <1>1 DEF CoversPosts
  <2>5. PICK same : same = {i \in DOMAIN list : list[i] \in Malformed \/ <<d_tag(list[i])>> = slug}
    OBVIOUS
  <2>6. same # {}
    <3>1. PICK i \in DOMAIN list : g = list[i]
      BY <2>4 DEF ToSet
    <3> QED BY <2>1, <2>4, <2>5, <3>1
  <2>7. /\ same \subseteq Nat
        /\ \A i \in same : list[i] \in Sendable \ Malformed /\ d_tag(list[i]) = d_tag(e)
    <3>1. DOMAIN list = 1..Len(list) /\ Len(list) \in Nat /\ \A i \in DOMAIN list : list[i] \in Sendable
      OBVIOUS
    <3>2. \A i \in DOMAIN list : list[i] \notin Malformed
      BY DEF Clean, Impostors, ToSet
    <3>3. \A i \in same : i \in DOMAIN list /\ <<d_tag(list[i])>> = <<d_tag(e)>>
      BY <2>1, <2>5, <3>2
    <3>4. \A i \in DOMAIN list : i \in Nat
      BY <3>1
    <3> QED BY <3>1, <3>2, <3>3, <3>4
  <2>8. PICK j \in same : \A k \in same : j =< k
    BY <2>6, <2>7, Least
  <2>9. {i \in same : \A k \in same : i =< k} = {j}
    BY <2>7, <2>8, OneLeast
  <2>10. PostOf(list, slug) = {Shown(list[i]) : i \in {i \in same : \A k \in same : i =< k}}
    BY <2>5 DEF PostOf
  <2>11. PostOf(list, slug) = {<<"post", list[j].id>>}
    BY <2>7, <2>8, <2>9, <2>10 DEF Shown
  <2> QED BY <2>3, <2>7, <2>8, <2>11
<1> QED BY <1>1 DEF PostServed

(* Where no impostor is, an id is that of the post that was published.     *)
LEMMA StillThere ==
    ASSUME NEW S, NEW T, T \subseteq Sendable, T \cap Impostors = {},
           \A x \in S : \E y \in T : y.id = x.id,
           NEW db, NEW s, CoversPosts(S, db, s)
    PROVE  CoversPosts(T, db, s)
<1>1. ASSUME NEW x \in S \cap Published PROVE x \in T
  <2>1. PICK y \in T : y.id = x.id
    BY <1>1
  <2>2. y \in Unasked /\ y # x => y \in Impostors
    BY <1>1, <2>1 DEF Impostors
  <2>3. y \in Published => y = x
    BY <1>1, <2>1, InputAssumption
  <2> QED BY <2>1, <2>2, <2>3 DEF Sendable
<1> QED BY <1>1 DEF CoversPosts

LEMMA PostsProgress ==
    ASSUME Types, Kept, Progress, NEW events, Over(events), pc = "posts"
    PROVE  Progress'
<1>1. /\ newest' = newest
      /\ posts' \in Seq(Sendable) /\ Grown(events)
      /\ NextRelay(PostsFilter(site)) \/ Answers(BlogPage(posts'))
  BY PostsOver
<1>2. PICK list : list = posts'
  OBVIOUS
<1>3. /\ UNCHANGED <<holds, link, site, before>>
      /\ Relay \in Reliable => coming = {} /\ events = out
  BY DEF Over
<1>4. asked \in 1..Len(Relays) /\ asked \in Nat /\ Len(Relays) \in Nat
  BY RelaysShape DEF Types, Querying
<1>5. DOMAIN holds = Names /\ \A k \in 1..Len(Relays) : Relays[k] \in Names
  BY RelaysShape DEF Types, Tables
<1>6. ASSUME NEW k \in 1..asked, Relays[k] \in Reliable, Clean(list)
      PROVE  CoversPosts(ToSet(list), before[Relays[k]], site)
  <2>1. CASE k \in 1..(asked - 1)
    <3>1. Clean(posts)
      BY <1>1, <1>2, <1>6 DEF Clean, Grown
    <3>2. CoversPosts(ToSet(posts), before[Relays[k]], site)
      BY <1>6, <2>1, <3>1 DEF Progress, PostsAsked
    <3> QED BY <1>1, <1>2, <3>2 DEF CoversPosts, Grown
  <2>2. CASE k = asked
    <3>1. Relay \in Reliable
      BY <1>6, <2>2 DEF Relay
    <3>2. coming \cup ToSet(out) = ToSet(events)
      BY <1>3, <3>1
    <3>3. CoversPosts(ToSet(events), before[Relays[k]], site)
      BY <2>2, <3>1, <3>2 DEF Progress, PostsAsked, Relay
    <3>4. /\ ToSet(list) \subseteq Sendable /\ ToSet(list) \cap Impostors = {}
          /\ \A x \in ToSet(events) : \E y \in ToSet(list) : y.id = x.id
      BY <1>1, <1>2, <1>6, ListOf DEF Clean, Grown
    <3> QED BY <3>3, <3>4, StillThere
  <2> QED BY <1>4, <1>6, <2>1, <2>2, AtOrEarlier
<1>7. \A m \in newest : first_tag(m, "app") = "blog"
  BY DEF Progress, PostsAsked
<1>8. ASSUME pc' \in {"posts", "reply"} PROVE Fresh'
  BY <1>1, <1>3, FreshNext DEF Progress, Fresh, ReliableRelays
<1>9. CASE NextRelay(PostsFilter(site))
  <2>1. /\ asked + 1 \in 1..Len(Relays) /\ asked' = asked + 1 /\ pc' = "posts" /\ out' = <<>>
        /\ coming' = query(holds[Relays[asked + 1]], {PostsFilter(site)})
    BY <1>9 DEF NextRelay
  <2>2. CoversPosts(coming', before[Relays[asked']], site)
    BY <1>5, <2>1, StillCoversPosts
  <2>3. coming' \cup ToSet(out') = coming'
    BY <2>1, NothingHeard
  <2>4. asked' - 1 = asked
    BY <1>4, <2>1, OneMore
  <2>5. PostsAsked'
    BY <1>1, <1>2, <1>3, <1>6, <1>7, <2>2, <2>3, <2>4, PostsNext
  <2>6. ServedIfAnyoneCan'
    BY <2>1, NotReplying
  <2> QED BY <1>8, <2>1, <2>5, <2>6 DEF Progress, ManifestAsked, ServersAsked
<1>10. CASE Answers(BlogPage(posts'))
  <2>1. pc' = "reply" /\ page' = BlogPage(list) /\ asked = Len(Relays)
    BY <1>2, <1>10 DEF Answers
  <2>2. ASSUME NEW r \in DOMAIN holds \cap Reliable, Clean(list)
        PROVE  PostServed(before[r], site, page')
    <3>1. PICK k \in 1..Len(Relays) : r = Relays[k]
      BY <1>5, <2>2, RelaysShape
    <3>2. CoversPosts(ToSet(list), before[r], site)
      BY <1>6, <2>1, <2>2, <3>1
    <3>3. PostServed(before[r], site, BlogPage(list))
      BY <1>1, <1>2, <2>2, <3>2, BlogServes
    <3> QED BY <2>1, <3>3
  <2>3. ServedIfAnyoneCan'
    BY <1>1, <1>2, <1>3, <1>7, <2>1, <2>2, ServedNext
  <2> QED BY <1>8, <2>1, <2>3 DEF Progress, ManifestAsked, PostsAsked, ServersAsked
<1> QED BY <1>1, <1>9, <1>10

LEMMA FetchProgress ==
    ASSUME Types, Progress, FetchFails \/ \E data : FetchGood(data)
    PROVE  Progress'
<1>1. pc = "blob" /\ UNCHANGED <<holds, link, site, newest, posts, before>>
  BY DEF FetchFails, FetchGood
<1>2. /\ AtMostOne(newest) /\ newest # {} /\ newest \subseteq Sendable
      /\ asked \in 1..Len(Sources(Manifest))
  BY <1>1 DEF Types
<1>3. PICK m \in newest : Manifest = m
  BY <1>2, ManifestIs
<1>4. \A n \in newest : n = m /\ first_tag(n, "app") # "blog"
  BY <1>1, <1>2 DEF Progress, ServersAsked, AtMostOne
<1>5. ASSUME NEW sha \in Wanted(m) PROVE sha = Sha
  BY <1>3, <1>5, WantedOne DEF Sha, AtMostOne
<1>6. IsList(Sources(m)) /\ DOMAIN Sources(m) = 1..Len(Sources(m)) /\ Len(Sources(m)) \in Nat
  BY <1>2, SourcesList, ListShape
<1>7. ASSUME pc' \in {"blob", "reply"} PROVE Fresh'
  BY <1>1, FreshNext DEF Progress, Fresh, ReliableRelays
<1>8. ASSUME NEW data, FetchGood(data) PROVE Progress'
  <2>1. pc' = "reply" /\ page' = {<<"blob", Sha>>}
    BY <1>8 DEF FetchGood, Good, Reply
  <2>2. \A sha \in Wanted(m) : FileServed(m, sha, page')
    BY <1>5, <2>1 DEF FileServed
  <2>3. ServedIfAnyoneCan'
    BY <1>1, <1>4, <2>1, <2>2, ServedNext
  <2> QED BY <1>7, <2>1, <2>3 DEF Progress, ManifestAsked, PostsAsked, ServersAsked
<1>9. CASE FetchFails
  <2>1. Server \in Reliable => Sha \notin Blobs[Server]
    BY <1>9 DEF FetchFails
  <2>2. ASSUME NEW k \in 1..asked, Sources(m)[k] \in Reliable PROVE Sha \notin Blobs[Sources(m)[k]]
    <3>1. CASE k \in 1..(asked - 1)
      BY <1>1, <1>3, <2>2, <3>1 DEF Progress, ServersAsked
    <3>2. CASE k = asked
      BY <1>3, <2>1, <2>2, <3>2 DEF Server
    <3>3. asked \in Nat
      BY <1>2, <1>3, <1>6
    <3> QED BY <2>2, <3>1, <3>2, <3>3, AtOrEarlier
  <2>3. CASE More(asked, Sources(Manifest)) /\ asked' = asked + 1 /\ pc' = pc
    <3>1. asked' - 1 = asked
      BY <1>2, <1>3, <1>6, <2>3
    <3>2. ServersAsked'
      BY <1>1, <1>3, <1>4, <2>2, <3>1, ServersNext
    <3>3. pc' = "blob" /\ ServedIfAnyoneCan'
      BY <1>1, <2>3, NotReplying
    <3> QED BY <1>7, <3>2, <3>3 DEF Progress, ManifestAsked, PostsAsked
  <2>4. CASE ~More(asked, Sources(Manifest)) /\ Reply({})
    <3>1. asked = Len(Sources(m))
      BY <1>2, <1>3, <1>6, <2>4, Longer
    <3>2. pc' = "reply" /\ page' = {}
      BY <2>4 DEF Reply
    <3>3. \A sha \in Wanted(m) : FileServed(m, sha, page')
      BY <1>5, <1>6, <2>2, <3>1, <3>2 DEF FileServed
    <3>4. ServedIfAnyoneCan'
      BY <1>1, <1>4, <3>2, <3>3, ServedNext
    <3> QED BY <1>7, <3>2, <3>4 DEF Progress, ManifestAsked, PostsAsked, ServersAsked
  <2> QED BY <1>9, <2>3, <2>4 DEF FetchFails
<1> QED BY <1>8, <1>9

LEMMA RouteProgress ==
    ASSUME OneName, Types, Kept, Progress, Route
    PROVE  Progress'
<1>1. pc = "route" /\ UNCHANGED <<holds, newest, posts, page, before>> /\ site = Nowhere
  BY RouteCases DEF Types
<1>2. ASSUME NEW author, NEW identifier, NEW path, Served(author, identifier, path)
      PROVE  Progress'
  <2>1. /\ pc' = "manifest" /\ asked' = 1 /\ out' = <<>>
        /\ coming' = query(holds[Relays[1]], {ManifestFilter(site')})
    BY <1>2 DEF Served
  <2>2. PICK s : s = site'
    OBVIOUS
  <2>3. Relays[1] \in Names
    BY RelaysShape
  <2>4. Covers(coming', before[Relays[asked']], s)
    BY <2>1, <2>2, <2>3, StillCovers
  <2>5. coming' \cup ToSet(out') = coming'
    BY <2>1, NothingHeard
  <2>6. 1..(asked' - 1) = {}
    BY <2>1, NoneBefore
  <2>7. ManifestAsked'
    BY <1>1, <2>2, <2>4, <2>5, <2>6, ManifestNext
  <2>8. ServedIfAnyoneCan'
    BY <2>1, NotReplying
  <2> QED BY <2>1, <2>7, <2>8 DEF Progress, PostsAsked, ServersAsked, Fresh, Done
<1>3. CASE site' = site /\ pc' \in {"route", "reply"}
  BY <1>1, <1>3 DEF Progress, ManifestAsked, PostsAsked, ServersAsked, Fresh, ServedIfAnyoneCan, Done, Nowhere
<1> QED BY <1>1, <1>2, <1>3, RouteCases DEF Redirected

LEMMA NextProgress ==
    ASSUME OneName, Types, Kept, Progress, [Next]_vars
    PROVE  Progress'
<1>1. CASE Route
  BY <1>1, RouteProgress
<1>2. CASE ReceiveIgnored \/ FetchMore \/ \E e \in Unasked : ReceiveUnasked(e)
  <2>1. /\ UNCHANGED <<holds, pc, site, asked, newest, posts, page, before>>
        /\ Querying /\ Relay \in Reliable => coming' \cup ToSet(out') = coming \cup ToSet(out)
    BY <1>2 DEF ReceiveIgnored, FetchMore, ReceiveUnasked
  <2> QED BY <2>1, SteadyProgress
<1>3. ASSUME NEW e \in coming, ReceiveEvent(e) PROVE Progress'
  <2>1. /\ out' = Append(out, e) /\ coming' = coming \ {e}
        /\ UNCHANGED <<holds, pc, site, asked, newest, posts, page, before>>
    BY <1>3 DEF ReceiveEvent
  <2> QED BY <2>1, SentOrComing, SteadyProgress
<1>4. CASE QueryEnds \/ QueryRaises
  <2>1. PICK events : Over(events)
    BY <1>4, QueryEndsOver
  <2>2. pc = "manifest" \/ pc = "posts"
    BY <2>1 DEF Over, Querying
  <2> QED BY <2>1, <2>2, ManifestProgress, PostsProgress
<1>5. CASE FetchFails \/ \E data : FetchGood(data)
  BY <1>5, FetchProgress
<1>6. CASE Replied \/ \E l \in Links : Request(l)
  <2>1. pc' \in {"idle", "route"}
    BY <1>6 DEF Replied, Request
  <2> QED BY <2>1 DEF Progress, ManifestAsked, PostsAsked, ServersAsked, Fresh, ServedIfAnyoneCan, Done
<1>7. ASSUME NEW r \in DOMAIN holds, NEW e \in Published, Publish(r, e) PROVE Progress'
  <2>1. UNCHANGED <<pc, request>> /\ DOMAIN holds' = DOMAIN holds
    BY <1>7 DEF Publish
  <2> QED BY <2>1, SteadyProgress DEF request
<1>8. CASE UNCHANGED vars
  BY <1>8, SteadyProgress DEF vars, request
<1> QED BY <1>1, <1>2, <1>3, <1>4, <1>5, <1>6, <1>7, <1>8 DEF Next, Handle

LEMMA Initially == Init => Kept /\ Progress
<1> SUFFICES ASSUME Init PROVE Kept /\ Progress
  OBVIOUS
<1>1. pc = "idle" /\ before = Nothing
  BY DEF Init
<1>2. \A r \in Names : Nothing[r].events = {}
  BY DEF Nothing, Names, Empty
<1>3. Kept
  BY <1>1, <1>2 DEF Kept
<1>4. Progress
  BY <1>1 DEF Progress, ManifestAsked, PostsAsked, ServersAsked, Fresh, ServedIfAnyoneCan, Done
<1> QED BY <1>3, <1>4

(* If authors publish no deletions and give a named manifest one name, one *)
(* relay that answers as it should keeps out every event older than the    *)
(* manifest it held when the request came, and gives the post a link names *)
(* unless another relay hides it behind an impostor; and one server is     *)
(* enough for the file: whatever else the other relays and servers send.   *)
THEOREM OneEnough ==
    ASSUME NoDeletions, OneName
    PROVE  Spec => []OneSourceSuffices
<1>1. Init => Kept /\ Progress
  BY Initially
<1>2. Types /\ Kept /\ Progress /\ [Next]_vars => (Kept /\ Progress)'
  BY NextKept, NextProgress
<1>3. Types /\ Progress => OneSourceSuffices
  <2> SUFFICES ASSUME Types, Progress PROVE OneSourceSuffices
    OBVIOUS
  <2>1. FreshEnough
    BY DEF Progress, Fresh, FreshEnough, Done, Covers
  <2> QED BY <2>1 DEF Progress, OneSourceSuffices
<1> QED BY <1>1, <1>2, <1>3, TypesInductive, PTL DEF Spec
=============================================================================
