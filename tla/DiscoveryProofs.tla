--------------------------- MODULE DiscoveryProofs ---------------------------
(***************************************************************************)
(* Machine-checked proofs about Discovery: what network-supplied urls a    *)
(* sync may contact, and that what it finds out about sources is enough,   *)
(* for any relays, servers, urls, policies, manifests and events.          *)
(***************************************************************************)
EXTENDS Discovery, TableProofs

-----------------------------------------------------------------------------
(* The urls of a list of events: those of each. *)
JoinValues(events, name, v, i) == v \o Values(events[i], name)

ValuesIn(events, name, V) == \A e \in ToSet(events) : Values(e, name) \in Seq(V)

LEMMA CollectedFold ==
    ASSUME NEW events, NEW name
    PROVE  Collected(events, name) =
              (CHOOSE g : g = [s \in SUBSET DOMAIN events |->
                  IF s = {} THEN <<>>
                  ELSE JoinValues(events, name, g[s \ {Max(s)}], Max(s))])[DOMAIN events]
BY DEF Collected, FoldLeft, MapThenFoldSet, JoinValues

LEMMA CollectedTrace ==
    ASSUME NEW events, IsList(events), NEW name, NEW V,
           ValuesIn(events, name, V)
    PROVE  \E h \in [0..Len(events) -> Seq(V)] :
              /\ h[0] = <<>> /\ Collected(events, name) = h[Len(events)]
              /\ \A i \in 1..Len(events) : h[i] = JoinValues(events, name, h[i - 1], i)
<1> DEFINE n == Len(events)
           X == Seq(V)
           Of(g, s) == JoinValues(events, name, g[s \ {Max(s)}], Max(s))
           Is(g) == g = [s \in SUBSET DOMAIN events |-> IF s = {} THEN <<>> ELSE Of(g, s)]
           step == [p \in X \X (1..n) |-> JoinValues(events, name, p[1], p[2])]
<1>1. n \in Nat /\ DOMAIN events = 1..n /\ \A i \in 1..n : Values(events[i], name) \in X
  BY ListShape DEF ValuesIn
<1>2. \A v \in X, i \in 1..n : step[<<v, i>>] = JoinValues(events, name, v, i)
  <2> HIDE DEF n, X
  <2> QED OBVIOUS
<1>3. ASSUME NEW v \in X, NEW i \in 1..n PROVE step[<<v, i>>] \in X
  <2>1. JoinValues(events, name, v, i) \in X
    BY <1>1 DEF JoinValues
  <2> QED BY <1>2, <2>1
<1>4. Steps(step, n, X) /\ <<>> \in X
  <2>1. <<>> \in X
    OBVIOUS
  <2> HIDE DEF step, n, X
  <2> QED BY <1>3, <2>1 DEF Steps
<1>5. \A s \in SUBSET (1..n) : s # {} => Max(s) \in s
  <2>1. ASSUME NEW s \in SUBSET (1..n), s # {} PROVE Max(s) \in s
    BY <1>1, <2>1, MaxIn
  <2> QED BY <2>1
<1>6. Collected(events, name) = (CHOOSE f : Is(f))[1..n]
  BY <1>1, CollectedFold
<1> HIDE DEF step, n, X
<1>7. PICK g \in [SUBSET (1..n) -> X] : Folds(g, <<>>, step, n)
  BY <1>1, <1>4, FoldExists
<1>8. \A s \in SUBSET (1..n) : s # {} => g[s] = Of(g, s)
  <2>1. ASSUME NEW s \in SUBSET (1..n), s # {} PROVE g[s] = Of(g, s)
    <3>1. Max(s) \in 1..n /\ g[s \ {Max(s)}] \in X /\ g[s] = step[<<g[s \ {Max(s)}], Max(s)>>]
      BY <1>1, <1>5, <1>7, <2>1 DEF Folds
    <3> QED BY <1>2, <2>1, <3>1
  <2> QED BY <2>1
<1>9. Is(g)
  BY <1>1, <1>7, <1>8 DEF Folds
<1>10. PICK f : f = CHOOSE x : Is(x)
  OBVIOUS
<1>11. Is(f) /\ Collected(events, name) = f[1..n]
  BY <1>6, <1>9, <1>10
<1>12. ASSUME NEW s \in SUBSET (1..n), s # {}, f[s \ {Max(s)}] \in X
       PROVE  f[s] = step[<<f[s \ {Max(s)}], Max(s)>>]
  <2>1. Max(s) \in 1..n /\ f[s] = Of(f, s)
    BY <1>1, <1>5, <1>11, <1>12
  <2> QED BY <1>1, <1>2, <1>12, <2>1
<1>13. PICK h : Trace(h, <<>>, step, n, X) /\ h[n] = f[1..n]
  <2>1. f[{}] = <<>>
    BY <1>11
  <2>2. Follows(f, <<>>, step, n, X)
    BY <1>12, <2>1 DEF Follows
  <2> QED BY <1>1, <1>4, <2>2, FoldTrace
<1>14. \A i \in 1..n : h[i] = JoinValues(events, name, h[i - 1], i)
  <2>1. ASSUME NEW i \in 1..n PROVE h[i] = JoinValues(events, name, h[i - 1], i)
    <3>1. i - 1 \in 0..n
      BY <1>1
    <3> QED BY <1>2, <1>13, <3>1 DEF Trace
  <2> QED BY <2>1
<1> QED BY <1>1, <1>11, <1>13, <1>14 DEF Trace, n, X

LEMMA CollectedList ==
    ASSUME NEW events, IsList(events), NEW name, NEW V,
           ValuesIn(events, name, V)
    PROVE  /\ Collected(events, name) \in Seq(V)
           /\ ToSet(Collected(events, name)) = UNION {ToSet(Values(e, name)) : e \in ToSet(events)}
<1> DEFINE n == Len(events)
           X == Seq(V)
           Upon(k) == UNION {ToSet(Values(events[i], name)) : i \in 1..k}
<1>1. n \in Nat /\ DOMAIN events = 1..n /\ \A i \in 1..n : Values(events[i], name) \in X
  BY ListShape DEF ValuesIn
<1>2. PICK h \in [0..n -> X] :
         /\ h[0] = <<>> /\ Collected(events, name) = h[n]
         /\ \A i \in 1..n : h[i] = JoinValues(events, name, h[i - 1], i)
  BY CollectedTrace
<1> HIDE DEF n
<1> DEFINE P == {k \in 0..n : ToSet(h[k]) = Upon(k)}
<1>3. 0 \in P
  <2>1. 0 \in 0..n /\ 1..0 = {} /\ ToSet(<<>>) = {}
    BY <1>1 DEF ToSet
  <2> QED BY <1>2, <2>1
<1>4. ASSUME NEW k \in 1..n, k - 1 \in P PROVE k \in P
  <2>1. k \in 0..n /\ k - 1 \in 0..n /\ 1..k = (1..(k - 1)) \cup {k}
    BY <1>1
  <2>2. h[k - 1] \in X /\ h[k] = h[k - 1] \o Values(events[k], name)
    BY <1>2, <2>1 DEF JoinValues
  <2>3. ToSet(h[k]) = ToSet(h[k - 1]) \cup ToSet(Values(events[k], name))
    BY <1>1, <2>2, Joined
  <2>4. ToSet(h[k - 1]) = Upon(k - 1)
    BY <1>4
  <2>5. Upon(k) = Upon(k - 1) \cup ToSet(Values(events[k], name))
    BY <2>1
  <2> QED BY <2>1, <2>3, <2>4, <2>5
<1> HIDE DEF P
<1>5. n \in P
  <2>1. 0..n \subseteq P
    BY <1>1, <1>3, <1>4, TraceInduction
  <2> QED BY <1>1, <2>1
<1>6. h[n] \in X
  BY <1>1, <1>2
<1>7. Upon(n) = UNION {ToSet(Values(e, name)) : e \in ToSet(events)}
  <2>1. ToSet(events) = {events[i] : i \in 1..n}
    BY <1>1 DEF ToSet
  <2> QED BY <2>1
<1> QED BY <1>1, <1>2, <1>5, <1>6, <1>7 DEF P, n

LEMMA ValuesList ==
    ASSUME NEW e, IsList(e.tags), NEW name
    PROVE  /\ Values(e, name) \in Seq(tag_values(e, name))
           /\ ToSet(Values(e, name)) = tag_values(e, name)
<1>1. PICK tags : tags = Selected(e.tags, Named(e, name))
  OBVIOUS
<1>2. IsList(tags) /\ ToSet(tags) = {e.tags[i] : i \in Named(e, name) \cap DOMAIN e.tags}
  <2>1. tags \in Seq(ToSet(e.tags)) /\ ToSet(tags) = {e.tags[i] : i \in Named(e, name) \cap DOMAIN e.tags}
    BY <1>1, SelectedList
  <2> QED BY <2>1, ListOf
<1>3. {t[2] : t \in ToSet(tags)} = tag_values(e, name)
  BY <1>2 DEF tag_values, Named
<1>4. Values(e, name) = [i \in DOMAIN tags |-> tags[i][2]]
  BY <1>1 DEF Values
<1> QED BY <1>2, <1>3, <1>4, Mapped

LEMMA RelaysList ==
    ASSUME NEW e, IsList(e.tags)
    PROVE  relays_from_event(e) \in Seq(tag_values(e, "r"))
<1> DEFINE at == {i \in Named(e, "r") : e.tags[i][3] \in {"", "write"}}
<1>1. PICK tags : tags = Selected(e.tags, at)
  OBVIOUS
<1>2. IsList(tags) /\ ToSet(tags) = {e.tags[i] : i \in at \cap DOMAIN e.tags}
  <2>1. tags \in Seq(ToSet(e.tags)) /\ ToSet(tags) = {e.tags[i] : i \in at \cap DOMAIN e.tags}
    BY <1>1, SelectedList
  <2> QED BY <2>1, ListOf
<1>3. {t[2] : t \in ToSet(tags)} \subseteq tag_values(e, "r")
  BY <1>2 DEF tag_values, Named
<1>4. relays_from_event(e) = [i \in DOMAIN tags |-> tags[i][2]]
  BY <1>1 DEF relays_from_event
<1>5. relays_from_event(e) \in Seq({t[2] : t \in ToSet(tags)})
  BY <1>2, <1>4, Mapped
<1>6. \A X, Y, s : X \subseteq Y /\ s \in Seq(X) => s \in Seq(Y)
  OBVIOUS
<1> QED BY <1>3, <1>5, <1>6

LEMMA SafeOnes ==
    ASSUME NEW urls, IsList(urls)
    PROVE  IsList(filter_safe(urls)) /\ ToSet(filter_safe(urls)) = Guarded(ToSet(urls))
<1> DEFINE at == {i \in DOMAIN urls : is_safe_public_url(urls[i])}
<1>1. filter_safe(urls) \in Seq(ToSet(urls)) /\ ToSet(filter_safe(urls)) = {urls[i] : i \in at \cap DOMAIN urls}
  BY SelectedList DEF filter_safe
<1>2. {urls[i] : i \in at \cap DOMAIN urls} = Guarded(ToSet(urls))
  BY DEF Guarded, ToSet
<1> QED BY <1>1, <1>2, ListOf

LEMMA UniqueSame ==
    ASSUME NEW urls, IsList(urls)
    PROVE  IsList(Unique(urls)) /\ ToSet(Unique(urls)) = ToSet(urls)
<1> DEFINE at == {i \in DOMAIN urls : \A j \in 1..(i - 1) : urls[j] # urls[i]}
<1>1. Unique(urls) \in Seq(ToSet(urls)) /\ ToSet(Unique(urls)) = {urls[i] : i \in at \cap DOMAIN urls}
  BY SelectedList DEF Unique
<1>2. DOMAIN urls = 1..Len(urls) /\ Len(urls) \in Nat
  BY ListShape
<1>3. ASSUME NEW x \in ToSet(urls) PROVE x \in {urls[i] : i \in at \cap DOMAIN urls}
  <2> DEFINE T == {i \in DOMAIN urls : urls[i] = x}
  <2>1. T \subseteq Nat /\ T # {}
    BY <1>2, <1>3 DEF ToSet
  <2> HIDE DEF T
  <2>2. PICK n \in T : \A m \in T : n =< m
    BY <2>1, Least
  <2>3. n \in DOMAIN urls /\ urls[n] = x /\ n \in 1..Len(urls)
    BY <1>2, <2>2 DEF T
  <2>4. ASSUME NEW j \in 1..(n - 1) PROVE urls[j] # urls[n]
    <3> SUFFICES ASSUME urls[j] = urls[n] PROVE FALSE
      OBVIOUS
    <3>1. j \in 1..Len(urls) /\ j \in Nat /\ ~(n =< j)
      BY <1>2, <2>3
    <3>2. j \in T
      BY <1>2, <2>3, <3>1 DEF T
    <3> QED BY <2>2, <3>1, <3>2
  <2> QED BY <2>3, <2>4
<1>4. {urls[i] : i \in at \cap DOMAIN urls} \subseteq ToSet(urls)
  BY DEF ToSet
<1> QED BY <1>1, <1>3, <1>4, ListOf

LEMMA AuthorsOwn ==
    ASSUME NEW events, IsList(events)
    PROVE  IsList(ByAuthor(events)) /\ ToSet(ByAuthor(events)) = {e \in ToSet(events) : OfAuthor(e)}
<1> DEFINE at == {i \in DOMAIN events : OfAuthor(events[i])}
<1>1. ByAuthor(events) \in Seq(ToSet(events)) /\ ToSet(ByAuthor(events)) = {events[i] : i \in at \cap DOMAIN events}
  BY SelectedList DEF ByAuthor
<1>2. {events[i] : i \in at \cap DOMAIN events} = {e \in ToSet(events) : OfAuthor(e)}
  BY DEF ToSet
<1> QED BY <1>1, <1>2, ListOf

-----------------------------------------------------------------------------
(* The events. *)
LEMMA AnnouncedEvents ==
    ASSUME NEW c \in DOMAIN Policies
    PROVE  LET list == Announced(Policies[c])
           IN  /\ Len(list) \in Nat /\ DOMAIN list = 1..Len(list)
               /\ \A e \in ToSet(list) : e.kind \in {KIND_RELAY_LIST, KIND_SEED}
               /\ \A i \in 1..Len(list) : list[i] \in Signable
<1> DEFINE p == Policies[c]
           list == Announced(p)
           seeds == [i \in DOMAIN p.seeds |-> build_seed_announcement(p, p.seeds[i], p.ids[i + 1])]
<1>1. p.seeds \in Seq(ToSet(p.seeds))
  BY DiscoveryAssumption
<1>2. Len(p.seeds) \in Nat /\ DOMAIN p.seeds = 1..Len(p.seeds)
  BY <1>1
<1>3. build_relay_list_event(p).kind = KIND_RELAY_LIST
  BY DEF build_relay_list_event
<1>4. \A i \in DOMAIN seeds : seeds[i].kind = KIND_SEED
  BY DEF build_seed_announcement
<1> DEFINE E == {build_relay_list_event(p)} \cup {seeds[i] : i \in 1..Len(p.seeds)}
<1>5. \A e \in E : e.kind \in {KIND_RELAY_LIST, KIND_SEED}
  BY <1>2, <1>3, <1>4
<1>6. <<build_relay_list_event(p)>> \in Seq(E) /\ seeds \in Seq(E)
  BY <1>2
<1>7. list = <<build_relay_list_event(p)>> \o seeds
  BY DEF Announced
<1> HIDE DEF E, seeds, list
<1>8. list \in Seq(E)
  BY <1>6, <1>7
<1>9. IsList(list) /\ ToSet(list) \subseteq E
  BY <1>8, ListOf
<1>10. Len(list) \in Nat /\ DOMAIN list = 1..Len(list) /\ \A i \in 1..Len(list) : list[i] \in ToSet(list)
  BY <1>9, ListShape
<1>11. ToSet(list) \subseteq Signable
  BY DEF Signable, list
<1> QED BY <1>5, <1>9, <1>10, <1>11 DEF list

SiteKinds == {KIND_ROOT, KIND_NAMED, KIND_LEGACY}

LEMMA ManifestKinds == \A m \in Manifests : m.kind \in SiteKinds
<1> SUFFICES ASSUME NEW m \in Manifests PROVE m.kind \in SiteKinds
  OBVIOUS
<1>1. MatchesColumns(m, SiteFilter)
  BY SignableAssumption DEF matches
<1>2. SiteFilter.kinds \subseteq SiteKinds /\ "kinds" \in DOMAIN SiteFilter
  BY DEF SiteFilter, SiteKinds
<1> QED BY <1>1, <1>2 DEF MatchesColumns

LEMMA EventKinds ==
    ASSUME NEW e \in Signable
    PROVE  /\ e.kind \in {KIND_RELAY_LIST, KIND_SEED} \cup SiteKinds
           /\ e.kind \in SiteKinds => e \in Manifests
           /\ classify(e.kind) \in {"replaceable", "addressable"}
<1>1. e \in Manifests \/ \E c \in DOMAIN Policies : e \in ToSet(Announced(Policies[c]))
  BY DEF Signable
<1>2. KIND_RELAY_LIST = 10002 /\ KIND_SEED = 30888 /\ SiteKinds = {15128, 35128, 34128}
  BY DEF KIND_RELAY_LIST, KIND_SEED, SiteKinds, KIND_ROOT, KIND_NAMED, KIND_LEGACY
<1>3. e.kind \in {KIND_RELAY_LIST, KIND_SEED} \cup SiteKinds
  BY <1>1, AnnouncedEvents, ManifestKinds
<1>4. e.kind \in SiteKinds => e \in Manifests
  BY <1>1, <1>2, AnnouncedEvents
<1>5. /\ classify(10002) = "replaceable" /\ classify(30888) = "addressable"
      /\ classify(15128) = "replaceable" /\ classify(35128) = "addressable"
      /\ classify(34128) = "addressable"
  BY DEF classify
<1>6. classify(e.kind) \in {"replaceable", "addressable"}
  BY <1>2, <1>3, <1>5
<1> QED BY <1>3, <1>4, <1>6

(* Ids are hashes, ids and times numbers, tags a list. *)
LEMMA SignableFormed == WellFormed(Signable)
<1>1. \A e \in Signable : IsList(e.tags)
  BY SignableAssumption DEF IsList
<1> QED BY <1>1, SignableAssumption DEF WellFormed

LEMMA SignableOrder ==
    /\ \A e, f \in Signable : e # f => Beats(e, f) \/ Beats(f, e)
    /\ \A e, f \in Signable : Beats(e, f) => ~Beats(f, e) /\ e.created_at >= f.created_at
    /\ \A e, f, g \in Signable : Beats(e, f) /\ Beats(f, g) => Beats(e, g)
BY SignableFormed, BeatsOrder

LEMMA NoDeletion == \A e \in Signable : e.kind # 5
BY EventKinds DEF KIND_RELAY_LIST, KIND_SEED, SiteKinds, KIND_ROOT, KIND_NAMED, KIND_LEGACY

LEMMA Shared ==
    /\ \A found, events : NewestOf(found, events) = NewestAmong(found, events)
    /\ \A known, events : WithEvents(known, events) = FreshAfter(known, events)
BY DEF NewestOf, NewestAmong, WithEvents, FreshAfter

LEMMA ExistingSignable ==
    ASSUME DOMAIN sent = DOMAIN Policies
    PROVE  Existing \subseteq Signable /\ Manifests \subseteq Existing
<1> DEFINE By(c) == ToSet(Announced(Policies[c]))
           Began == {c \in DOMAIN Policies : sent[c] > 0}
<1>1. Existing = Manifests \cup UNION {By(c) : c \in Began}
  BY DEF Existing
<1>2. Signable = Manifests \cup UNION {By(c) : c \in DOMAIN Policies}
  BY DEF Signable
<1>3. Began \subseteq DOMAIN Policies
  OBVIOUS
<1> HIDE DEF By, Began
<1> QED BY <1>1, <1>2, <1>3

(* The sync's three filters. *)
LEMMA Filters ==
    /\ TagFilters(ListFilter) \subseteq Letters /\ "limit" \in DOMAIN ListFilter /\ ListFilter.limit = 1
    /\ TagFilters(SeedFilter) \subseteq Letters /\ "limit" \in DOMAIN SeedFilter /\ SeedFilter.limit = 100
    /\ TagFilters(SiteFilter) \subseteq Letters /\ "limit" \in DOMAIN SiteFilter /\ SiteFilter.limit = 1
<1> USE DiscoveryAssumption
<1>1. TagFilters(ListFilter) = {} /\ "limit" \in DOMAIN ListFilter /\ ListFilter.limit = 1
  BY DEF ListFilter, TagFilters
<1>2. TagFilters(SeedFilter) = {"a"} /\ "limit" \in DOMAIN SeedFilter /\ SeedFilter.limit = 100
  BY DEF SeedFilter, TagFilters
<1>3. TagFilters(SiteFilter) \subseteq {"d"} /\ "limit" \in DOMAIN SiteFilter /\ SiteFilter.limit = 1
  BY DEF SiteFilter, TagFilters
<1> QED BY <1>1, <1>2, <1>3

(* What a relay may send: events that exist, and, unless relays send what  *)
(* nobody asked for, events the filter selects.                            *)
Tables(stores) ==
    /\ DOMAIN stores = Relays
    /\ \A r \in Relays : stores[r].events \subseteq Existing /\ Indexed(Signable, stores[r])

LEMMA AnswersExist ==
    ASSUME DOMAIN sent = DOMAIN Policies, Tables(holds), Asking, NEW url, NEW events \in Answers(url)
    PROVE  /\ events \in Seq(Existing) /\ IsList(events) /\ ToSet(events) \subseteq Existing
           /\ Stray \/ \A e \in ToSet(events) : matches(e, Filter)
<1> DEFINE honest == url \in Relays /\ Reaches(url, proxy_url)
<1>1. Existing \subseteq Signable
  BY ExistingSignable
<1>2. TagFilters(Filter) \subseteq Letters /\ "limit" \in DOMAIN Filter
  BY Filters DEF Asking, Filter
<1>3. PICK some : some \subseteq Existing /\ events \in SetToSeqs(some)
                  /\ (Stray \/ \A e \in some : matches(e, Filter))
  <2>1. CASE honest
    <3>1. events \in SetToSeqs(query(holds[url], {Filter}))
      BY <2>1 DEF Answers
    <3>2. holds[url].events \subseteq Existing /\ Indexed(Signable, holds[url])
      BY <2>1 DEF Tables
    <3>3. query(holds[url], {Filter}) \subseteq Fitting(holds[url], Filter)
      BY <1>1, <1>2, <3>2, QueryFound, SignableFormed
    <3> QED BY <3>1, <3>2, <3>3 DEF Fitting
  <2>2. CASE ~honest
    <3>1. events \in UNION {SetToSeqs(some) : some \in SUBSET {e \in Existing : Stray \/ matches(e, Filter)}}
      BY <2>2 DEF Answers
    <3> QED BY <3>1
  <2> QED BY <2>1, <2>2
<1>4. IsFiniteSet(some)
  <2>1. some \subseteq Signable
    BY <1>1, <1>3
  <2> QED BY <2>1, SignableAssumption, FS_Subset
<1>5. events \in Seq(some) /\ ToSet(events) = some
  BY <1>3, <1>4, SetInOrder
<1>6. events \in Seq(Existing)
  <2>1. \A X, Y, s : X \subseteq Y /\ s \in Seq(X) => s \in Seq(Y)
    OBVIOUS
  <2> QED BY <1>3, <1>5, <2>1
<1> QED BY <1>3, <1>5, <1>6, ListOf

(* What an answering relay sends. *)
LEMMA AnswersWhole ==
    ASSUME DOMAIN sent = DOMAIN Policies, Tables(holds),
           NEW url \in Relays, Reaches(url, proxy_url), NEW events \in Answers(url)
    PROVE  ToSet(events) = query(holds[url], {Filter})
<1>1. events \in SetToSeqs(query(holds[url], {Filter}))
  BY DEF Answers
<1>2. query(holds[url], {Filter}) \subseteq holds[url].events
  BY DEF query, QueryOne
<1>3. IsFiniteSet(query(holds[url], {Filter}))
  <2>1. query(holds[url], {Filter}) \subseteq Signable
    BY <1>2, ExistingSignable DEF Tables
  <2> QED BY <2>1, SignableAssumption, FS_Subset
<1> QED BY <1>1, <1>3, SetInOrder

-----------------------------------------------------------------------------
(* The inductive invariant, part by part: the variables' types, the urls,  *)
(* what is left of what the relays had when the sync began,                *)
Types ==
    /\ sent \in [DOMAIN Policies -> Nat]
    /\ Tables(holds) /\ Tables(before)
    /\ pc \in {"idle", "lists", "announcements", "manifest", "blob", "done", "stopped"}
    /\ relays \in Seq(Urls) /\ sources \in Seq(Urls) /\ contacted \subseteq Urls
    /\ Asking => asked \in 1..Len(relays)
    /\ pc = "blob" => asked \in 1..Len(sources)
    /\ newest \subseteq Existing /\ AtMostOne(newest)
    /\ announced \in Seq(Existing)
    /\ AtMostOne(data)
    /\ pc = "idle" => /\ newest = {} /\ announced = <<>> /\ sources = <<>>
                      /\ contacted = {} /\ data = {}

Trusted ==
    /\ ToSet(relays) \subseteq ToSet(SourceRelays) \cup Guarded(Urls)
    /\ ToSet(sources) \subseteq ToSet(DefaultServers) \cup Guarded(Urls)
    /\ contacted \subseteq ToSet(SourceRelays) \cup ToSet(DefaultServers) \cup Guarded(Urls)
    /\ Asking => ToSet(SourceRelays) \subseteq ToSet(relays)

Kept == \A r \in Relays : \A e \in before[r].events : \E g \in holds[r].events : AtLeast(g, e)

(* and, stage by stage, what the relays asked so far have contributed.     *)
Asked == {relays[k] : k \in 1..(asked - 1)}

ListsAsked ==
    pc = "lists" =>
        /\ relays = SourceRelays
        /\ \A n \in newest : matches(n, ListFilter)
        /\ \A r \in Answering(Asked) : NewestLists \cap before[r].events \subseteq newest

AnnouncementsAsked ==
    pc = "announcements" =>
        /\ Known \subseteq ToSet(relays)
        /\ newest = {}
        /\ \A r \in Answering(Asked) : \A e \in before[r].events \cap holds[r].events :
              matches(e, SeedFilter) => e \in ToSet(announced)

ManifestAsked ==
    pc = "manifest" =>
        /\ Known \cup ByAnnouncement("relay") \subseteq ToSet(relays)
        /\ ByAnnouncement("server") \subseteq ToSet(sources)
        /\ \A n \in newest : matches(n, SiteFilter)
        /\ \A r \in Answering(Asked) : \A m \in query(before[r], {SiteFilter}) :
              \E n \in newest : n.created_at >= m.created_at

ServersAsked ==
    pc = "blob" =>
        /\ NewestFound
        /\ Candidates \subseteq ToSet(sources)
        /\ \A k \in 1..(asked - 1) : Honest(sources[k]) => File \notin Blobs[sources[k]]

Progress == ListsAsked /\ AnnouncementsAsked /\ ManifestAsked /\ ServersAsked /\ SourcesSuffice

IInv == Types /\ Trusted /\ Kept

-----------------------------------------------------------------------------
(* Other nodes' steps. *)
LEMMA Quotient ==
    ASSUME NEW s \in Nat, NEW a \in Nat, NEW w \in Nat, s < a * w
    PROVE  (s \div w) + 1 \in 1..a
<1>1. w > 0
  BY Z3
<1>2. PICK q \in Nat, r \in Nat : s = q * w + r /\ r < w /\ q = s \div w
  BY <1>1, s = (s \div w) * w + (s % w), s % w < w, s \div w \in Nat, s % w \in Nat
<1>3. q < a
  <2> SUFFICES ASSUME q >= a PROVE FALSE
    BY <1>2
  <2>1. PICK d \in Nat : q = a + d
    BY q - a \in Nat, q = a + (q - a)
  <2>2. q * w = a * w + d * w
    BY <2>1
  <2>3. d * w \in Nat /\ a * w \in Nat /\ q * w \in Nat
    OBVIOUS
  <2> QED BY <1>2, <2>2, <2>3
<1> QED BY <1>2, <1>3

(* What another node stores exists, and nothing that was there is lost but *)
(* to what replaces it for good.                                           *)
NeverBack == \A r \in Relays : before[r].events \cap holds'[r].events \subseteq holds[r].events

LEMMA HoldsStep ==
    ASSUME Types, Kept, before' = before, Existing \subseteq Existing',
           \/ holds' = holds
           \/ \E r \in Relays, e \in Existing' : e \in Signable /\ Store(r, e)
    PROVE  Tables(holds)' /\ Kept' /\ NeverBack
<1>1. /\ DOMAIN holds = Relays
      /\ \A q \in Relays : holds[q].events \subseteq Existing /\ Indexed(Signable, holds[q])
      /\ \A q \in Relays : before[q].events \subseteq Existing
      /\ Existing \subseteq Signable
  BY ExistingSignable DEF Types, Tables
<1>2. CASE holds' = holds
  BY <1>1, <1>2 DEF Tables, Kept, NeverBack
<1>3. ASSUME NEW r \in Relays, NEW e \in Existing', e \in Signable, Store(r, e)
      PROVE  Tables(holds)' /\ Kept' /\ NeverBack
  <2>1. \A q \in Relays : holds[q].events \subseteq Signable /\ Indexed(Signable, holds[q])
    BY <1>1
  <2>2. PICK after : after = holds'
    OBVIOUS
  <2>3. after = IF Answer(holds[r], e) = "stored" THEN [holds EXCEPT ![r] = Write(@, e)] ELSE holds
    BY <1>3, <2>2 DEF Store
  <2>4. /\ DOMAIN after = Relays
        /\ \A q \in Relays :
              /\ after[q].events \subseteq holds[q].events \cup {e}
              /\ Indexed(Signable, after[q])
              /\ \A f \in holds[q].events : \E g \in after[q].events : AtLeast(g, f)
              /\ \A f \in after[q].events \ holds[q].events :
                    \A g \in holds[q].events : Slot(g) = Slot(f) => Beats(f, g)
    BY <1>1, <1>3, <2>1, <2>3, SignableFormed, NoDeletion, Stored
  <2>5. Tables(holds)'
    BY <1>1, <1>3, <2>2, <2>4 DEF Tables, Indexed
  <2>6. ASSUME NEW q \in Relays, NEW f \in before[q].events PROVE \E g \in after[q].events : AtLeast(g, f)
    <3>1. PICK g \in holds[q].events : AtLeast(g, f)
      BY DEF Kept
    <3>2. PICK h \in after[q].events : AtLeast(h, g)
      BY <2>4
    <3>3. f \in Signable /\ g \in Signable /\ h \in Signable
      BY <1>1, <1>3, <2>4
    <3>4. AtLeast(h, f)
      BY <3>1, <3>2, <3>3, SignableOrder DEF AtLeast
    <3> QED BY <3>4
  <2>7. Kept'
    BY <1>1, <2>2, <2>6 DEF Kept, AtLeast
  <2>8. ASSUME NEW q \in Relays, NEW f \in before[q].events \cap after[q].events, f \notin holds[q].events
        PROVE  FALSE
    <3>1. PICK g \in holds[q].events : AtLeast(g, f)
      BY DEF Kept
    <3>2. f \in Signable /\ g \in Signable
      BY <1>1
    <3>3. Slot(g) = Slot(f) /\ Beats(g, f)
      BY <2>8, <3>1 DEF AtLeast
    <3>4. Beats(f, g)
      BY <2>4, <2>8, <3>3
    <3> QED BY <3>2, <3>3, <3>4, SignableOrder
  <2> QED BY <2>2, <2>5, <2>7, <2>8 DEF NeverBack
<1> QED BY <1>2, <1>3

Others == \/ \E c \in DOMAIN Policies : Announce(c)
          \/ \E r \in ManifestRelays, m \in Manifests : Publish(r, m)

LEMMA OthersMove ==
    ASSUME Types, Others
    PROVE  /\ sent' \in [DOMAIN Policies -> Nat] /\ Existing \subseteq Existing'
           /\ UNCHANGED sync
           /\ \/ holds' = holds
              \/ \E r \in Relays, e \in Existing' : e \in Signable /\ Store(r, e)
<1>1. sent \in [DOMAIN Policies -> Nat]
  BY DEF Types
<1>2. ASSUME NEW c \in DOMAIN Policies, Announce(c)
      PROVE  /\ sent' \in [DOMAIN Policies -> Nat] /\ Existing \subseteq Existing'
             /\ UNCHANGED sync
             /\ \/ holds' = holds
                \/ \E r \in Relays, e \in Existing' : e \in Signable /\ Store(r, e)
  <2> DEFINE p == Policies[c]
             list == Announced(p)
             target == p.write[(sent[c] % Len(p.write)) + 1]
  <2>1. Len(list) \in Nat /\ DOMAIN list = 1..Len(list) /\ \A i \in 1..Len(list) : list[i] \in Signable
    BY AnnouncedEvents
  <2>2. Len(p.write) \in Nat
    <3>1. p.write \in Seq(DOMAIN Url)
      BY DiscoveryAssumption
    <3> QED BY <3>1
  <2>3. PICK i : i = (sent[c] \div Len(p.write)) + 1
    OBVIOUS
  <2>4. i \in 1..Len(list)
    <3>1. sent[c] < Len(list) * Len(p.write) /\ sent[c] \in Nat
      BY <1>1, <1>2 DEF Announce
    <3> HIDE DEF list
    <3> QED BY <2>1, <2>2, <2>3, <3>1, Quotient
  <2>5. sent' = [sent EXCEPT ![c] = @ + 1]
    BY <1>2 DEF Announce
  <2>6. /\ sent' \in [DOMAIN Policies -> Nat] /\ sent'[c] > 0
        /\ \A d \in DOMAIN Policies : sent[d] > 0 => sent'[d] > 0
    BY <1>1, <2>5
  <2>7. Existing \subseteq Existing' /\ ToSet(list) \subseteq Existing'
    <3> DEFINE By(d) == ToSet(Announced(Policies[d]))
    <3>1. Existing = Manifests \cup UNION {By(d) : d \in {d \in DOMAIN Policies : sent[d] > 0}}
      BY <1>1 DEF Existing
    <3>2. Existing' = Manifests \cup UNION {By(d) : d \in {d \in DOMAIN Policies : sent'[d] > 0}}
      BY <2>6 DEF Existing
    <3>3. ToSet(list) = By(c)
      OBVIOUS
    <3> HIDE DEF By, list
    <3> QED BY <2>6, <3>1, <3>2, <3>3
  <2>8. list[i] \in Existing' /\ list[i] \in Signable
    <3>1. list[i] \in ToSet(list)
      BY <2>1, <2>4 DEF ToSet
    <3> QED BY <2>1, <2>4, <2>7, <3>1
  <2>9. UNCHANGED sync
    BY <1>2 DEF Announce, Move
  <2>10. holds' = holds \/ (target \in Relays /\ Store(target, list[i]))
    BY <1>2, <2>3 DEF Announce
  <2> HIDE DEF list, target
  <2> QED BY <2>6, <2>7, <2>8, <2>9, <2>10
<1>3. ASSUME NEW r \in ManifestRelays, NEW m \in Manifests, Publish(r, m)
      PROVE  /\ sent' \in [DOMAIN Policies -> Nat] /\ Existing \subseteq Existing'
             /\ UNCHANGED sync
             /\ \E q \in Relays, e \in Existing' : e \in Signable /\ Store(q, e)
  <2>1. UNCHANGED sync /\ sent' = sent /\ Store(r, m)
    BY <1>3 DEF Publish, Move
  <2>2. Existing' = Existing
    BY <2>1 DEF Existing
  <2>3. r \in Relays
    BY DiscoveryAssumption
  <2>4. m \in Existing /\ m \in Signable
    BY DEF Existing, Signable
  <2> QED BY <1>1, <2>1, <2>2, <2>3, <2>4
<1> QED BY <1>2, <1>3 DEF Others

-----------------------------------------------------------------------------
(* The sync's steps. *)
LEMMA LongEnough ==
    ASSUME NEW S, NEW s \in Seq(S), s # <<>> \/ ToSet(s) # {}
    PROVE  1 \in 1..Len(s)
<1>1. Len(s) \in Nat /\ (s # <<>> => Len(s) # 0)
  OBVIOUS
<1>2. ToSet(<<>>) = {}
  BY DEF ToSet
<1> QED BY <1>1, <1>2

LEMMA SourceRelaysOK ==
    /\ SourceRelays \in Seq(Urls) /\ ToSet(SourceRelays) # {} /\ ToSet(SourceRelays) \subseteq Urls
    /\ DefaultServers \in Seq(Urls) /\ ToSet(DefaultServers) \subseteq Urls
<1>1. SourceRelays \in Seq(Urls) /\ SourceRelays # <<>> /\ DefaultServers \in Seq(Urls)
  BY DiscoveryAssumption DEF Urls
<1>2. 1 \in DOMAIN SourceRelays
  BY <1>1
<1> QED BY <1>1, <1>2, ListOf DEF ToSet

LEMMA UrlsOf ==
    ASSUME NEW e \in Signable
    PROVE  /\ IsList(Values(e, "relay")) /\ ToSet(Values(e, "relay")) = tag_values(e, "relay")
           /\ IsList(Values(e, "server")) /\ ToSet(Values(e, "server")) = tag_values(e, "server")
           /\ IsList(relays_from_event(e)) /\ ToSet(relays_from_event(e)) \subseteq Urls
           /\ tag_values(e, "relay") \subseteq Urls /\ tag_values(e, "server") \subseteq Urls
<1>1. UNION {tag_values(e, name) : name \in {"r", "relay", "server"}} \subseteq Urls
  BY SignableAssumption DEF Urls
<1>2. tag_values(e, "r") \subseteq Urls /\ tag_values(e, "relay") \subseteq Urls /\ tag_values(e, "server") \subseteq Urls
  BY <1>1
<1>3. IsList(e.tags)
  BY SignableFormed DEF WellFormed
<1>4. /\ Values(e, "relay") \in Seq(tag_values(e, "relay")) /\ ToSet(Values(e, "relay")) = tag_values(e, "relay")
      /\ Values(e, "server") \in Seq(tag_values(e, "server")) /\ ToSet(Values(e, "server")) = tag_values(e, "server")
      /\ relays_from_event(e) \in Seq(tag_values(e, "r"))
  BY <1>3, ValuesList, RelaysList
<1>5. /\ IsList(Values(e, "relay")) /\ IsList(Values(e, "server"))
      /\ IsList(relays_from_event(e)) /\ ToSet(relays_from_event(e)) \subseteq tag_values(e, "r")
  BY <1>4, ListOf
<1> QED BY <1>2, <1>4, <1>5

LEMMA CollectedUrls ==
    ASSUME NEW list \in Seq(Signable), NEW name \in {"relay", "server"}
    PROVE  /\ IsList(Collected(list, name))
           /\ ToSet(Collected(list, name)) = UNION {tag_values(e, name) : e \in ToSet(list)}
           /\ ToSet(Collected(list, name)) \subseteq Urls
<1>1. IsList(list) /\ ToSet(list) \subseteq Signable
  BY ListOf
<1>2. \A e \in ToSet(list) : /\ IsList(Values(e, name)) /\ ToSet(Values(e, name)) = tag_values(e, name)
                             /\ tag_values(e, name) \subseteq Urls
  BY <1>1, UrlsOf
<1>3. \A e \in ToSet(list) : Values(e, name) \in Seq(Urls)
  <2>1. \A X, Y, s : X \subseteq Y /\ s \in Seq(X) => s \in Seq(Y)
    OBVIOUS
  <2> QED BY <1>2, <2>1 DEF IsList
<1>4. ValuesIn(list, name, Urls)
  BY <1>3 DEF ValuesIn
<1>5. /\ Collected(list, name) \in Seq(Urls)
      /\ ToSet(Collected(list, name)) = UNION {ToSet(Values(e, name)) : e \in ToSet(list)}
  BY <1>1, <1>4, CollectedList
<1>6. UNION {ToSet(Values(e, name)) : e \in ToSet(list)} = UNION {tag_values(e, name) : e \in ToSet(list)}
  BY <1>2
<1> QED BY <1>5, <1>6, ListOf

LEMMA Learned ==
    ASSUME NEW known \in Seq(Urls), NEW urls, IsList(urls), ToSet(urls) \subseteq Urls
    PROVE  /\ Unique(known \o filter_safe(urls)) \in Seq(Urls)
           /\ ToSet(Unique(known \o filter_safe(urls))) = ToSet(known) \cup Guarded(ToSet(urls))
<1>1. IsList(filter_safe(urls)) /\ ToSet(filter_safe(urls)) = Guarded(ToSet(urls))
  BY SafeOnes
<1>2. filter_safe(urls) \in Seq(Urls)
  <2>1. \A X, Y, s : X \subseteq Y /\ s \in Seq(X) => s \in Seq(Y)
    OBVIOUS
  <2>2. Guarded(ToSet(urls)) \subseteq Urls
    BY DEF Guarded
  <2> QED BY <1>1, <2>1, <2>2 DEF IsList
<1>3. known \o filter_safe(urls) \in Seq(Urls)
      /\ ToSet(known \o filter_safe(urls)) = ToSet(known) \cup Guarded(ToSet(urls))
  BY <1>1, <1>2, Joined
<1>4. PICK all : all = known \o filter_safe(urls)
  OBVIOUS
<1>5. IsList(all) /\ ToSet(all) \subseteq Urls
  BY <1>3, <1>4, ListOf
<1>6. IsList(Unique(all)) /\ ToSet(Unique(all)) = ToSet(all)
  BY <1>5, UniqueSame
<1>7. Unique(all) \in Seq(Urls)
  <2>1. \A X, Y, s : X \subseteq Y /\ s \in Seq(X) => s \in Seq(Y)
    OBVIOUS
  <2> QED BY <1>5, <1>6, <2>1 DEF IsList
<1> QED BY <1>3, <1>4, <1>6, <1>7

LEMMA SafeUrls ==
    ASSUME NEW urls, IsList(urls), ToSet(urls) \subseteq Urls
    PROVE  filter_safe(urls) \in Seq(Urls) /\ ToSet(filter_safe(urls)) = Guarded(ToSet(urls))
<1>1. IsList(filter_safe(urls)) /\ ToSet(filter_safe(urls)) = Guarded(ToSet(urls))
  BY SafeOnes
<1>2. \A X, Y, s : X \subseteq Y /\ s \in Seq(X) => s \in Seq(Y)
  OBVIOUS
<1>3. Guarded(ToSet(urls)) \subseteq Urls
  BY DEF Guarded
<1> QED BY <1>1, <1>2, <1>3 DEF IsList

(* How a stage ends: the sync stops where a url cannot be read, or knows   *)
(* the safe ones of the new urls as well.                                  *)
LEMMA RelaysLearned ==
    ASSUME relays \in Seq(Urls), NEW urls, IsList(urls), ToSet(urls) \subseteq Urls, NEW stage,
           LearnRelays(urls, stage)
    PROVE  /\ sources' = sources
           /\ \/ pc' = "stopped" /\ relays' = relays
              \/ /\ pc' = stage /\ relays' \in Seq(Urls)
                 /\ ToSet(relays') = ToSet(relays) \cup Guarded(ToSet(urls))
<1>1. CASE Raises(urls)
  BY <1>1 DEF LearnRelays, Stop
<1>2. CASE ~Raises(urls)
  <2>1. sources' = sources /\ pc' = stage /\ relays' = Unique(relays \o filter_safe(urls))
    BY <1>2 DEF LearnRelays
  <2> QED BY <2>1, Learned
<1> QED BY <1>1, <1>2

LEMMA SeedersLearned ==
    ASSUME relays \in Seq(Urls), NEW list \in Seq(Signable),
           LearnSeeders(Collected(list, "server"), Collected(list, "relay"))
    PROVE  \/ pc' = "stopped" /\ relays' = relays /\ sources' = sources
           \/ /\ pc' = "manifest"
              /\ relays' \in Seq(Urls) /\ sources' \in Seq(Urls)
              /\ ToSet(relays') = ToSet(relays) \cup Guarded(UNION {tag_values(e, "relay") : e \in ToSet(list)})
              /\ ToSet(sources') = Guarded(UNION {tag_values(e, "server") : e \in ToSet(list)})
<1>1. CASE Raises(Collected(list, "server")) \/ Raises(Collected(list, "relay"))
  BY <1>1 DEF LearnSeeders, Stop
<1>2. CASE ~(Raises(Collected(list, "server")) \/ Raises(Collected(list, "relay")))
  <2>1. /\ pc' = "manifest"
        /\ relays' = Unique(relays \o filter_safe(Collected(list, "relay")))
        /\ sources' = filter_safe(Collected(list, "server"))
    BY <1>2 DEF LearnSeeders
  <2> QED BY <2>1, CollectedUrls, Learned, SafeUrls
<1> QED BY <1>1, <1>2

LEMMA HintsLearned ==
    ASSUME sources \in Seq(Urls), NEW m \in Signable, LearnHints(m)
    PROVE  /\ relays' = relays
           /\ \/ pc' = "stopped" /\ sources' = sources
              \/ /\ pc' = IF Files(m) = {} \/ sources' = <<>> THEN "done" ELSE "blob"
                 /\ sources' \in Seq(Urls)
                 /\ ToSet(sources') = Guarded(tag_values(m, "server")) \cup ToSet(sources) \cup ToSet(DefaultServers)
<1>1. CASE Raises(Hints(m))
  BY <1>1 DEF LearnHints, Stop
<1>2. CASE ~Raises(Hints(m))
  <2>1. /\ relays' = relays
        /\ pc' = IF Files(m) = {} \/ sources' = <<>> THEN "done" ELSE "blob"
        /\ sources' = Unique(filter_safe(Hints(m)) \o sources \o DefaultServers)
    BY <1>2 DEF LearnHints
  <2>2. PICK safe : safe = filter_safe(Hints(m))
    OBVIOUS
  <2>3. safe \in Seq(Urls) /\ ToSet(safe) = Guarded(tag_values(m, "server"))
    BY <2>2, UrlsOf, SafeUrls DEF Hints
  <2>4. PICK both : both = safe \o sources
    OBVIOUS
  <2>5. both \in Seq(Urls) /\ ToSet(both) = ToSet(safe) \cup ToSet(sources)
    BY <2>3, <2>4, Joined
  <2>6. PICK all : all = both \o DefaultServers
    OBVIOUS
  <2>7. all \in Seq(Urls) /\ ToSet(all) = ToSet(both) \cup ToSet(DefaultServers)
    BY <2>5, <2>6, SourceRelaysOK, Joined
  <2>8. IsList(all) /\ ToSet(all) \subseteq Urls
    BY <2>7, ListOf
  <2>9. IsList(Unique(all)) /\ ToSet(Unique(all)) = ToSet(all)
    BY <2>8, UniqueSame
  <2>10. Unique(all) \in Seq(Urls)
    <3>1. \A X, Y, s : X \subseteq Y /\ s \in Seq(X) => s \in Seq(Y)
      OBVIOUS
    <3> QED BY <2>8, <2>9, <3>1 DEF IsList
  <2> QED BY <2>1, <2>2, <2>3, <2>4, <2>5, <2>6, <2>7, <2>9, <2>10
<1> QED BY <1>1, <1>2

(* What a relay's answer adds. *)
FoundAfter(events) ==
    CASE pc = "lists"         -> NewestOf(newest, ByAuthor(events))
      [] pc = "announcements" -> newest
      [] pc = "manifest"      -> NewestOf(newest, events)

ListAfter(events) == IF pc = "announcements" THEN WithEvents(announced, events) ELSE announced

Covering(S, T) == \A x \in T : \E y \in S : y.created_at >= x.created_at

LEMMA AnswerAdds ==
    ASSUME Types, Asking, NEW url, NEW events \in Answers(url)
    PROVE  /\ IsList(events) /\ ToSet(events) \subseteq Existing
           /\ Stray \/ \A e \in ToSet(events) : matches(e, Filter)
           /\ FoundAfter(events) \subseteq newest \cup ToSet(events) /\ AtMostOne(FoundAfter(events))
           /\ pc = "lists" => /\ FoundAfter(events) \subseteq newest \cup {e \in ToSet(events) : OfAuthor(e)}
                              /\ Covering(FoundAfter(events), newest \cup {e \in ToSet(events) : OfAuthor(e)})
           /\ pc = "manifest" => Covering(FoundAfter(events), newest \cup ToSet(events))
           /\ ListAfter(events) \in Seq(Existing)
           /\ pc = "announcements" =>
                 /\ ToSet(ListAfter(events)) = ToSet(announced) \cup ToSet(events)
                 /\ FoundAfter(events) = newest
<1>1. /\ DOMAIN sent = DOMAIN Policies /\ Tables(holds) /\ newest \subseteq Existing /\ AtMostOne(newest)
      /\ announced \in Seq(Existing)
  BY DEF Types
<1>2. Existing \subseteq Signable
  BY <1>1, ExistingSignable
<1>3. /\ events \in Seq(Existing) /\ IsList(events) /\ ToSet(events) \subseteq Existing
      /\ Stray \/ \A e \in ToSet(events) : matches(e, Filter)
  BY <1>1, AnswersExist
<1>4. \A x \in newest \cup ToSet(events) : x.created_at \in Int
  BY <1>1, <1>2, <1>3, SignableAssumption
<1>5. CASE pc = "lists"
  <2>1. PICK own : own = ByAuthor(events)
    OBVIOUS
  <2>2. IsList(own) /\ ToSet(own) = {e \in ToSet(events) : OfAuthor(e)}
    BY <1>3, <2>1, AuthorsOwn
  <2>3. \A x \in newest \cup ToSet(own) : x.created_at \in Int
    BY <1>4, <2>2
  <2>4. /\ NewestOf(newest, own) \subseteq newest \cup ToSet(own) /\ AtMostOne(NewestOf(newest, own))
        /\ Covering(NewestOf(newest, own), newest \cup ToSet(own))
    BY <1>1, <2>2, <2>3, NewestOne, Shared DEF Covering
  <2>5. FoundAfter(events) = NewestOf(newest, own) /\ ListAfter(events) = announced
    BY <1>5, <2>1 DEF FoundAfter, ListAfter
  <2> QED BY <1>1, <1>3, <1>5, <2>2, <2>4, <2>5
<1>6. CASE pc = "announcements"
  <2>1. FoundAfter(events) = newest /\ ListAfter(events) = WithEvents(announced, events)
    BY <1>6 DEF FoundAfter, ListAfter
  <2>2. \A e, f \in Existing : e.id = f.id => e = f
    BY <1>2, SignableAssumption
  <2>3. /\ WithEvents(announced, events) \in Seq(Existing)
        /\ ToSet(WithEvents(announced, events)) = ToSet(announced) \cup ToSet(events)
    BY <1>1, <1>3, <2>2, WithAll, Shared
  <2> QED BY <1>1, <1>3, <1>6, <2>1, <2>3
<1>7. CASE pc = "manifest"
  <2>1. FoundAfter(events) = NewestOf(newest, events) /\ ListAfter(events) = announced
    BY <1>7 DEF FoundAfter, ListAfter
  <2>2. /\ NewestOf(newest, events) \subseteq newest \cup ToSet(events) /\ AtMostOne(NewestOf(newest, events))
        /\ Covering(NewestOf(newest, events), newest \cup ToSet(events))
    BY <1>1, <1>3, <1>4, NewestOne, Shared DEF Covering
  <2> QED BY <1>1, <1>3, <1>7, <2>1, <2>2
<1> QED BY <1>5, <1>6, <1>7 DEF Asking

(* A stage is over, or the next relay is asked. *)
LEMMA AnsweredEffect ==
    ASSUME Types, Answered
    PROVE  \E events \in Answers(relays[asked]) :
              /\ announced' = ListAfter(events)
              /\ \/ /\ asked < Len(relays) /\ asked' = asked + 1 /\ newest' = FoundAfter(events)
                    /\ UNCHANGED <<pc, relays, sources>>
                 \/ asked = Len(relays) /\ StageOver(FoundAfter(events), ListAfter(events))
<1>1. asked \in 1..Len(relays) /\ Len(relays) \in Nat
  BY DEF Types, Answered
<1>2. PICK events \in Answers(relays[asked]) :
         /\ announced' = ListAfter(events)
         /\ IF asked < Len(relays)
            THEN /\ asked' = asked + 1
                 /\ newest' = FoundAfter(events)
                 /\ UNCHANGED <<pc, relays, sources>>
            ELSE StageOver(FoundAfter(events), ListAfter(events))
  BY DEF Answered, FoundAfter, ListAfter
<1>3. CASE asked < Len(relays)
  BY <1>2, <1>3
<1>4. CASE ~(asked < Len(relays))
  <2>1. asked = Len(relays)
    BY <1>1, <1>4
  <2> QED BY <1>2, <1>4, <2>1
<1> QED BY <1>3, <1>4

(* The urls a relay list gives, if there is one. *)
ListUrls(found) == IF found = {} THEN <<>> ELSE relays_from_event(CHOOSE e \in found : TRUE)

LEMMA ListUrlsOK ==
    ASSUME NEW found, found \subseteq Signable
    PROVE  IsList(ListUrls(found)) /\ ToSet(ListUrls(found)) \subseteq Urls
<1>1. CASE found = {}
  <2>1. ToSet(<<>>) = {} /\ <<>> \in Seq({})
    BY DEF ToSet
  <2> QED BY <1>1, <2>1 DEF ListUrls, IsList
<1>2. CASE found # {}
  <2>1. PICK e \in found : e = CHOOSE x \in found : TRUE
    BY <1>2
  <2>2. ListUrls(found) = relays_from_event(e)
    BY <1>2, <2>1 DEF ListUrls
  <2> QED BY <2>2, UrlsOf
<1> QED BY <1>1, <1>2

LEMMA ListsOver ==
    ASSUME relays \in Seq(Urls), NEW found, found \subseteq Signable, NEW list, StageOver(found, list), pc = "lists"
    PROVE  /\ asked' = 1 /\ newest' = {} /\ sources' = sources
           /\ \/ pc' = "stopped" /\ relays' = relays
              \/ /\ pc' = "announcements" /\ relays' \in Seq(Urls)
                 /\ ToSet(relays') = ToSet(relays) \cup Guarded(ToSet(ListUrls(found)))
<1>1. asked' = 1 /\ newest' = {} /\ LearnRelays(ListUrls(found), "announcements")
  BY DEF StageOver, ListUrls
<1> QED BY <1>1, ListUrlsOK, RelaysLearned

LEMMA AnnouncementsOver ==
    ASSUME relays \in Seq(Urls), NEW found, NEW list \in Seq(Signable), StageOver(found, list),
           pc = "announcements"
    PROVE  /\ asked' = 1 /\ newest' = found
           /\ \/ pc' = "stopped" /\ relays' = relays /\ sources' = sources
              \/ /\ pc' = "manifest"
                 /\ relays' \in Seq(Urls) /\ sources' \in Seq(Urls)
                 /\ ToSet(relays') = ToSet(relays) \cup Guarded(UNION {tag_values(e, "relay") : e \in ToSet(list)})
                 /\ ToSet(sources') = Guarded(UNION {tag_values(e, "server") : e \in ToSet(list)})
<1>1. asked' = 1 /\ newest' = found /\ LearnSeeders(Collected(list, "server"), Collected(list, "relay"))
  BY DEF StageOver
<1> QED BY <1>1, SeedersLearned

LEMMA ManifestOver ==
    ASSUME sources \in Seq(Urls), NEW found, found \subseteq Signable, NEW list, StageOver(found, list),
           pc = "manifest"
    PROVE  /\ asked' = 1 /\ newest' = found /\ relays' = relays
           /\ \/ /\ \A m \in found : ~OfAuthor(m)
                 /\ pc' = "done" /\ sources' = sources
              \/ pc' = "stopped" /\ sources' = sources
              \/ \E m \in found :
                    /\ pc' = IF Files(m) = {} \/ sources' = <<>> THEN "done" ELSE "blob"
                    /\ sources' \in Seq(Urls)
                    /\ ToSet(sources') = Guarded(tag_values(m, "server")) \cup ToSet(sources) \cup ToSet(DefaultServers)
<1>1. /\ asked' = 1 /\ newest' = found
      /\ IF \A m \in found : ~OfAuthor(m) THEN NotFound ELSE \E m \in found : LearnHints(m)
  BY DEF StageOver
<1>2. CASE \A m \in found : ~OfAuthor(m)
  BY <1>1, <1>2 DEF NotFound
<1>3. ASSUME NEW m \in found, LearnHints(m)
      PROVE  /\ relays' = relays
             /\ \/ pc' = "stopped" /\ sources' = sources
                \/ \E x \in found :
                      /\ pc' = IF Files(x) = {} \/ sources' = <<>> THEN "done" ELSE "blob"
                      /\ sources' \in Seq(Urls)
                      /\ ToSet(sources') = Guarded(tag_values(x, "server")) \cup ToSet(sources) \cup ToSet(DefaultServers)
  <2>1. m \in Signable
    OBVIOUS
  <2> QED BY <1>3, <2>1, HintsLearned
<1> QED BY <1>1, <1>2, <1>3

(* The urls a stage ends with. *)
LEMMA AnsweredUrls ==
    ASSUME Types, Trusted, Answered
    PROVE  /\ pc' \in {"lists", "announcements", "manifest", "blob", "done", "stopped"}
           /\ relays' \in Seq(Urls) /\ sources' \in Seq(Urls)
           /\ ToSet(relays) \subseteq ToSet(relays')
           /\ ToSet(relays') \subseteq ToSet(relays) \cup Guarded(Urls)
           /\ ToSet(sources') \subseteq ToSet(sources) \cup ToSet(DefaultServers) \cup Guarded(Urls)
           /\ pc' \in {"lists", "announcements", "manifest"} => asked' \in 1..Len(relays')
           /\ pc' = "blob" => asked' \in 1..Len(sources')
           /\ newest' \subseteq Existing /\ AtMostOne(newest') /\ announced' \in Seq(Existing)
<1>1. /\ DOMAIN sent = DOMAIN Policies /\ newest \subseteq Existing
      /\ relays \in Seq(Urls) /\ sources \in Seq(Urls) /\ asked \in 1..Len(relays)
      /\ pc \in {"lists", "announcements", "manifest"} /\ Asking
      /\ ToSet(SourceRelays) \subseteq ToSet(relays)
  BY DEF Types, Trusted, Answered, Asking
<1>2. Existing \subseteq Signable
  BY <1>1, ExistingSignable
<1>3. PICK events \in Answers(relays[asked]) :
         /\ announced' = ListAfter(events)
         /\ \/ /\ asked < Len(relays) /\ asked' = asked + 1 /\ newest' = FoundAfter(events)
               /\ UNCHANGED <<pc, relays, sources>>
            \/ asked = Len(relays) /\ StageOver(FoundAfter(events), ListAfter(events))
  BY AnsweredEffect
<1>4. PICK found, list : found = FoundAfter(events) /\ list = ListAfter(events)
  OBVIOUS
<1>5. /\ found \subseteq Existing /\ AtMostOne(found) /\ list \in Seq(Existing)
      /\ announced' = list
  BY <1>1, <1>3, <1>4, AnswerAdds
<1>6. found \subseteq Signable /\ list \in Seq(Signable)
  <2>1. \A X, Y, s : X \subseteq Y /\ s \in Seq(X) => s \in Seq(Y)
    OBVIOUS
  <2> QED BY <1>2, <1>5, <2>1
<1>7. \A S, T : S \subseteq T => Guarded(S) \subseteq Guarded(T)
  BY DEF Guarded
<1>8. CASE asked < Len(relays) /\ asked' = asked + 1 /\ newest' = found /\ UNCHANGED <<pc, relays, sources>>
  <2>1. asked' \in 1..Len(relays') /\ pc' # "blob"
    BY <1>1, <1>8
  <2> QED BY <1>1, <1>5, <1>8, <2>1
<1>9. CASE StageOver(found, list)
  <2>1. ASSUME relays' \in Seq(Urls), ToSet(relays) \subseteq ToSet(relays') PROVE 1 \in 1..Len(relays')
    BY <1>1, <2>1, SourceRelaysOK, LongEnough
  <2>2. CASE pc = "lists"
    <3>1. Guarded(ToSet(ListUrls(found))) \subseteq Guarded(Urls)
      BY <1>6, <1>7, ListUrlsOK
    <3>2. /\ asked' = 1 /\ newest' = {} /\ sources' = sources
          /\ \/ pc' = "stopped" /\ relays' = relays
             \/ /\ pc' = "announcements" /\ relays' \in Seq(Urls)
                /\ ToSet(relays') = ToSet(relays) \cup Guarded(ToSet(ListUrls(found)))
      BY <1>1, <1>6, <1>9, <2>2, ListsOver
    <3> QED BY <1>1, <1>5, <2>1, <3>1, <3>2 DEF AtMostOne
  <2>3. CASE pc = "announcements"
    <3> DEFINE said(name) == UNION {tag_values(e, name) : e \in ToSet(list)}
    <3>1. Guarded(said("relay")) \subseteq Guarded(Urls) /\ Guarded(said("server")) \subseteq Guarded(Urls)
      <4>1. said("relay") \subseteq Urls /\ said("server") \subseteq Urls
        BY <1>6, CollectedUrls
      <4> QED BY <1>7, <4>1
    <3>2. /\ asked' = 1 /\ newest' = found
          /\ \/ pc' = "stopped" /\ relays' = relays /\ sources' = sources
             \/ /\ pc' = "manifest"
                /\ relays' \in Seq(Urls) /\ sources' \in Seq(Urls)
                /\ ToSet(relays') = ToSet(relays) \cup Guarded(said("relay"))
                /\ ToSet(sources') = Guarded(said("server"))
      BY <1>1, <1>6, <1>9, <2>3, AnnouncementsOver
    <3> HIDE DEF said
    <3> QED BY <1>1, <1>5, <2>1, <3>1, <3>2
  <2>4. CASE pc = "manifest"
    <3>1. \A m \in found : Guarded(tag_values(m, "server")) \subseteq Guarded(Urls)
      BY <1>6, <1>7, UrlsOf
    <3>2. /\ asked' = 1 /\ newest' = found /\ relays' = relays
          /\ \/ pc' \in {"done", "stopped"} /\ sources' = sources
             \/ \E m \in found :
                   /\ pc' = IF Files(m) = {} \/ sources' = <<>> THEN "done" ELSE "blob"
                   /\ sources' \in Seq(Urls)
                   /\ ToSet(sources') = Guarded(tag_values(m, "server")) \cup ToSet(sources) \cup ToSet(DefaultServers)
      BY <1>1, <1>6, <1>9, <2>4, ManifestOver
    <3>3. CASE pc' \in {"done", "stopped"} /\ sources' = sources
      BY <1>1, <1>5, <3>2, <3>3
    <3>4. ASSUME NEW m \in found,
                 pc' = IF Files(m) = {} \/ sources' = <<>> THEN "done" ELSE "blob",
                 sources' \in Seq(Urls),
                 ToSet(sources') = Guarded(tag_values(m, "server")) \cup ToSet(sources) \cup ToSet(DefaultServers)
          PROVE  /\ pc' \in {"blob", "done"} /\ sources' \in Seq(Urls)
                 /\ ToSet(sources') \subseteq ToSet(sources) \cup ToSet(DefaultServers) \cup Guarded(Urls)
                 /\ pc' = "blob" => asked' \in 1..Len(sources')
      <4>1. pc' = "blob" => sources' # <<>>
        BY <3>4
      <4>2. sources' # <<>> => 1 \in 1..Len(sources')
        BY <3>4, LongEnough
      <4> QED BY <3>1, <3>2, <3>4, <4>1, <4>2
    <3> QED BY <1>1, <1>5, <3>2, <3>3, <3>4
  <2> QED BY <1>1, <2>2, <2>3, <2>4
<1> QED BY <1>3, <1>4, <1>8, <1>9

(* Where nobody else moves, what exists and is held stays. *)
LEMMA SameWorld ==
    ASSUME Types, UNCHANGED <<holds, sent>>
    PROVE  /\ sent' \in [DOMAIN Policies -> Nat] /\ Existing' = Existing
           /\ Tables(holds)'
           /\ before' = before => Tables(before)' /\ (Kept => Kept')
<1>1. Existing' = Existing
  BY DEF Existing
<1>2. holds' = holds /\ sent' = sent
  OBVIOUS
<1>3. sent' \in [DOMAIN Policies -> Nat] /\ Tables(holds)'
  BY <1>1, <1>2 DEF Types, Tables, Indexed
<1>4. ASSUME before' = before PROVE Tables(before)' /\ (Kept => Kept')
  <2>1. Tables(before)'
    BY <1>1, <1>4 DEF Types, Tables, Indexed
  <2>2. Kept => Kept'
    BY <1>2, <1>4 DEF Kept
  <2> QED BY <2>1, <2>2
<1> QED BY <1>1, <1>3, <1>4

LEMMA NothingTables == Tables(Nothing)
BY DEF Tables, Nothing, Empty, Indexed

LEMMA AnsweredInv == IInv /\ Answered => IInv'
<1> SUFFICES ASSUME IInv, Answered PROVE IInv'
  OBVIOUS
<1>1. /\ Types /\ Trusted /\ Kept
      /\ relays \in Seq(Urls) /\ asked \in 1..Len(relays)
      /\ contacted \subseteq Urls /\ AtMostOne(data)
  BY DEF IInv, Types, Answered
<1>2. /\ UNCHANGED <<holds, sent>> /\ before' = before /\ data' = data
      /\ contacted' = contacted \cup {relays[asked]}
  BY DEF Answered, others
<1>3. /\ sent' \in [DOMAIN Policies -> Nat] /\ Existing' = Existing
      /\ Tables(holds)' /\ Tables(before)' /\ Kept'
  BY <1>1, <1>2, SameWorld
<1>4. /\ pc' \in {"lists", "announcements", "manifest", "blob", "done", "stopped"}
      /\ relays' \in Seq(Urls) /\ sources' \in Seq(Urls)
      /\ ToSet(relays) \subseteq ToSet(relays')
      /\ ToSet(relays') \subseteq ToSet(relays) \cup Guarded(Urls)
      /\ ToSet(sources') \subseteq ToSet(sources) \cup ToSet(DefaultServers) \cup Guarded(Urls)
      /\ pc' \in {"lists", "announcements", "manifest"} => asked' \in 1..Len(relays')
      /\ pc' = "blob" => asked' \in 1..Len(sources')
      /\ newest' \subseteq Existing /\ AtMostOne(newest') /\ announced' \in Seq(Existing)
  BY <1>1, AnsweredUrls
<1>5. relays[asked] \in ToSet(relays) /\ relays[asked] \in Urls
  BY <1>1 DEF ToSet
<1>6. contacted' \subseteq Urls /\ AtMostOne(data')
  BY <1>1, <1>2, <1>5
<1>7. Types'
  <2>1. Asking' => asked' \in 1..Len(relays')
    BY <1>4 DEF Asking
  <2>2. AtMostOne(newest)' /\ AtMostOne(data)'
    BY <1>4, <1>6
  <2>3. pc' # "idle"
    BY <1>4
  <2> QED BY <1>3, <1>4, <1>6, <2>1, <2>2, <2>3 DEF Types, Urls, AtMostOne
<1>8. Trusted'
  <2>1. /\ ToSet(relays) \subseteq ToSet(SourceRelays) \cup Guarded(Urls)
        /\ ToSet(sources) \subseteq ToSet(DefaultServers) \cup Guarded(Urls)
        /\ contacted \subseteq ToSet(SourceRelays) \cup ToSet(DefaultServers) \cup Guarded(Urls)
        /\ ToSet(SourceRelays) \subseteq ToSet(relays)
    BY <1>1 DEF Trusted, Answered
  <2>2. /\ ToSet(relays') \subseteq ToSet(SourceRelays) \cup Guarded(Urls)
        /\ ToSet(sources') \subseteq ToSet(DefaultServers) \cup Guarded(Urls)
        /\ contacted' \subseteq ToSet(SourceRelays) \cup ToSet(DefaultServers) \cup Guarded(Urls)
        /\ ToSet(SourceRelays) \subseteq ToSet(relays')
    BY <1>2, <1>4, <1>5, <2>1
  <2> QED BY <2>2 DEF Trusted
<1> QED BY <1>3, <1>7, <1>8 DEF IInv

LEMMA BlobInv == IInv /\ (Fetched \/ FetchFails) => IInv'
<1> SUFFICES ASSUME IInv, Fetched \/ FetchFails PROVE IInv'
  OBVIOUS
<1>1. /\ Types /\ Trusted /\ Kept /\ pc = "blob"
      /\ sources \in Seq(Urls) /\ asked \in 1..Len(sources)
      /\ contacted \subseteq Urls /\ AtMostOne(data)
  BY DEF IInv, Types, Fetched, FetchFails
<1>2. /\ UNCHANGED <<holds, sent>> /\ before' = before
      /\ UNCHANGED <<relays, newest, announced, sources>>
      /\ contacted' = contacted \cup {sources[asked]}
  BY DEF Fetched, FetchFails, others, Server
<1>3. /\ sent' \in [DOMAIN Policies -> Nat] /\ Existing' = Existing
      /\ Tables(holds)' /\ Tables(before)' /\ Kept'
  BY <1>1, <1>2, SameWorld
<1>4. sources[asked] \in ToSet(sources) /\ sources[asked] \in Urls
  BY <1>1 DEF ToSet
<1>5. pc' = "done" \/ (pc' = "blob" /\ asked' = asked + 1 /\ asked < Len(sources))
  BY <1>1 DEF Fetched, FetchFails
<1>6. data' = data \/ data' = {File}
  BY DEF Fetched, FetchFails
<1>7. AtMostOne(data')
  BY <1>1, <1>6 DEF AtMostOne
<1>8. Types'
  <2>1. pc' = "blob" => asked' \in 1..Len(sources')
    BY <1>1, <1>2, <1>5
  <2>2. ~Asking' /\ pc' # "idle" /\ pc' \in {"blob", "done"}
    BY <1>5 DEF Asking
  <2>3. /\ relays' \in Seq(Urls) /\ sources' \in Seq(Urls) /\ contacted' \subseteq Urls
        /\ newest' \subseteq Existing' /\ AtMostOne(newest') /\ announced' \in Seq(Existing')
    BY <1>1, <1>2, <1>3, <1>4 DEF Types
  <2> QED BY <1>3, <1>7, <2>1, <2>2, <2>3 DEF Types, Urls, AtMostOne
<1>9. Trusted'
  <2>1. ~Asking'
    BY <1>5 DEF Asking
  <2> QED BY <1>1, <1>2, <1>4, <2>1 DEF Trusted
<1> QED BY <1>3, <1>8, <1>9 DEF IInv

LEMMA BeginInv == IInv /\ Begin => IInv'
<1> SUFFICES ASSUME IInv, Begin PROVE IInv'
  OBVIOUS
<1>1. /\ Types /\ Trusted /\ Kept /\ pc = "idle" /\ Tables(holds)
      /\ newest = {} /\ announced = <<>> /\ sources = <<>> /\ contacted = {} /\ data = {}
  BY DEF IInv, Types, Begin
<1>2. /\ UNCHANGED <<holds, sent>> /\ before' = holds
      /\ UNCHANGED <<newest, announced, sources, contacted, data>>
      /\ pc' = "lists" /\ asked' = 1 /\ relays' = SourceRelays
  BY DEF Begin, others
<1>3. /\ sent' \in [DOMAIN Policies -> Nat] /\ Existing' = Existing /\ Tables(holds)'
  BY <1>1, <1>2, SameWorld
<1>4. Tables(before)'
  BY <1>1, <1>2, <1>3 DEF Tables, Indexed
<1>5. Kept'
  <2>1. \A e : AtLeast(e, e)
    BY DEF AtLeast
  <2>2. before' = holds' /\ holds' = holds
    BY <1>2
  <2> QED BY <2>1, <2>2 DEF Kept, AtLeast
<1>6. SourceRelays \in Seq(Urls) /\ 1 \in 1..Len(SourceRelays)
  BY SourceRelaysOK, LongEnough
<1>7. ToSet(<<>>) = {} /\ AtMostOne({})
  BY DEF ToSet, AtMostOne
<1>8. \A S : <<>> \in Seq(S)
  OBVIOUS
<1>9. Types'
  BY <1>1, <1>2, <1>3, <1>4, <1>6, <1>7, <1>8 DEF Types, Asking, Urls, AtMostOne
<1>10. Trusted'
  BY <1>1, <1>2, <1>7 DEF Trusted, Asking
<1> QED BY <1>5, <1>9, <1>10 DEF IInv

LEMMA ReturnInv == IInv /\ Return => IInv'
<1> SUFFICES ASSUME IInv, Return PROVE IInv'
  OBVIOUS
<1>1. Types
  BY DEF IInv
<1>2. /\ UNCHANGED <<holds, sent>> /\ before' = Nothing
      /\ pc' = "idle" /\ relays' = <<>> /\ newest' = {} /\ announced' = <<>> /\ sources' = <<>>
      /\ contacted' = {} /\ data' = {}
  BY DEF Return
<1>3. /\ sent' \in [DOMAIN Policies -> Nat] /\ Existing' = Existing /\ Tables(holds)'
  BY <1>1, <1>2, SameWorld
<1>4. Tables(before)'
  BY <1>2, <1>3, NothingTables DEF Tables, Indexed
<1>5. Kept'
  BY <1>2 DEF Kept, Nothing, Empty
<1>6. ToSet(<<>>) = {} /\ AtMostOne({})
  BY DEF ToSet, AtMostOne
<1>7. \A S : <<>> \in Seq(S)
  OBVIOUS
<1>8. Types'
  BY <1>2, <1>3, <1>4, <1>6, <1>7 DEF Types, Asking, Urls, AtMostOne
<1>9. Trusted'
  BY <1>2, <1>6 DEF Trusted, Asking
<1> QED BY <1>5, <1>8, <1>9 DEF IInv

LEMMA OthersInv == IInv /\ Others => IInv' /\ NeverBack /\ Existing \subseteq Existing' /\ UNCHANGED sync
<1> SUFFICES ASSUME IInv, Others PROVE IInv' /\ NeverBack /\ Existing \subseteq Existing' /\ UNCHANGED sync
  OBVIOUS
<1>1. Types /\ Trusted /\ Kept
  BY DEF IInv
<1>2. /\ sent' \in [DOMAIN Policies -> Nat] /\ Existing \subseteq Existing'
      /\ UNCHANGED sync
      /\ \/ holds' = holds
         \/ \E r \in Relays, e \in Existing' : e \in Signable /\ Store(r, e)
  BY <1>1, OthersMove
<1>3. UNCHANGED <<pc, asked, relays, newest, announced, sources, contacted, data, before>>
  BY <1>2 DEF sync
<1>4. Tables(holds)' /\ Kept' /\ NeverBack
  BY <1>1, <1>2, <1>3, HoldsStep
<1>5. Tables(before)'
  BY <1>1, <1>2, <1>3 DEF Types, Tables, Indexed
<1>6. announced \in Seq(Existing')
  <2>1. \A X, Y, s : X \subseteq Y /\ s \in Seq(X) => s \in Seq(Y)
    OBVIOUS
  <2> QED BY <1>1, <1>2, <2>1 DEF Types
<1>7. Types'
  BY <1>1, <1>2, <1>3, <1>4, <1>5, <1>6 DEF Types, Asking, Urls, AtMostOne
<1>8. Trusted'
  BY <1>1, <1>3 DEF Trusted, Asking
<1> QED BY <1>2, <1>4, <1>7, <1>8 DEF IInv

LEMMA InitInv == Init => IInv
<1> SUFFICES ASSUME Init PROVE IInv
  OBVIOUS
<1>1. ToSet(<<>>) = {} /\ AtMostOne({})
  BY DEF ToSet, AtMostOne
<1>2. \A S : <<>> \in Seq(S)
  OBVIOUS
<1>3. Types
  BY <1>1, <1>2, NothingTables DEF Init, Types, Asking
<1>4. Trusted
  BY <1>1 DEF Init, Trusted, Asking
<1>5. Kept
  BY DEF Init, Kept, Nothing, Empty
<1> QED BY <1>3, <1>4, <1>5 DEF IInv

LEMMA Inductive == Spec => []IInv
<1>1. IInv /\ [Next]_vars => IInv'
  <2> SUFFICES ASSUME IInv, [Next]_vars PROVE IInv'
    OBVIOUS
  <2>1. CASE UNCHANGED vars
    <3>1. /\ UNCHANGED <<holds, sent>> /\ before' = before
          /\ UNCHANGED <<pc, asked, relays, newest, announced, sources, contacted, data>>
      BY <2>1 DEF vars, others, sync
    <3>2. Types /\ Trusted /\ Kept
      BY DEF IInv
    <3>3. /\ sent' \in [DOMAIN Policies -> Nat] /\ Existing' = Existing
          /\ Tables(holds)' /\ Tables(before)' /\ Kept'
      BY <3>1, <3>2, SameWorld
    <3>4. Types'
      BY <3>1, <3>2, <3>3 DEF Types, Asking, Urls, AtMostOne
    <3>5. Trusted'
      BY <3>1, <3>2 DEF Trusted, Asking
    <3> QED BY <3>3, <3>4, <3>5 DEF IInv
  <2>2. CASE Next
    <3>1. Begin \/ Return \/ Answered \/ (Fetched \/ FetchFails) \/ Others
      BY <2>2 DEF Next, Others
    <3> QED BY <3>1, BeginInv, ReturnInv, AnsweredInv, BlobInv, OthersInv
  <2> QED BY <2>1, <2>2
<1> QED BY <1>1, InitInv, PTL DEF Spec

(* The variables keep their types, whatever the relays answer and the      *)
(* other nodes do: a relay or a server that is asked is one of the list,   *)
(* and the operator's relays stay among those that are asked.              *)
THEOREM TypeCorrect == Spec => []TypeOK
<1>1. IInv => TypeOK
  <2> SUFFICES ASSUME IInv PROVE TypeOK
    OBVIOUS
  <2>1. Types /\ Trusted
    BY DEF IInv
  <2>2. relays \in Seq(Urls) /\ sources \in Seq(Urls) /\ announced \in Seq(Existing)
    BY <2>1 DEF Types
  <2>3. DOMAIN relays = 1..Len(relays) /\ DOMAIN sources = 1..Len(sources)
    BY <2>2
  <2>4. ToSet(relays) \subseteq Urls /\ ToSet(sources) \subseteq Urls /\ ToSet(announced) \subseteq Existing
    BY <2>2, ListOf
  <2>5. Cardinality(newest) =< 1 /\ Cardinality(data) =< 1
    BY <2>1, OneIsOne DEF Types
  <2> QED BY <2>1, <2>3, <2>4, <2>5 DEF Types, Trusted, TypeOK
<1> QED BY <1>1, Inductive, PTL

(* Whatever the network supplies is asked only if the guard accepts it     *)
(* (replication.py:119-122, 157-158, netguard.py).                         *)
THEOREM OnlyGuarded == Spec => []OnlyGuardedAsked
<1>1. IInv => OnlyGuardedAsked
  <2> SUFFICES ASSUME IInv, NEW url \in contacted
               PROVE  url \in ToSet(SourceRelays) \cup ToSet(DefaultServers) \/ is_safe_public_url(url)
    BY DEF OnlyGuardedAsked
  <2>1. url \in ToSet(SourceRelays) \cup ToSet(DefaultServers) \cup Guarded(Urls)
    BY DEF IInv, Trusted
  <2> QED BY <2>1 DEF Guarded
<1> QED BY <1>1, Inductive, PTL

-----------------------------------------------------------------------------
(* Sources suffice.  There are so few announcements of the site that a     *)
(* relay does not leave any out of its answer.                             *)
FewSeeders == Cardinality({e \in Signable : matches(e, SeedFilter)}) =< 100

LEMMA ListMatch ==
    /\ \A e : matches(e, ListFilter) <=> e.pubkey = Author /\ e.kind = KIND_RELAY_LIST
    /\ \A e : matches(e, SiteFilter) => OfAuthor(e) /\ e.kind \in SiteKinds
<1>1. /\ DOMAIN ListFilter = {"authors", "kinds", "limit"}
      /\ ListFilter.authors = {Author} /\ ListFilter.kinds = {KIND_RELAY_LIST}
  BY DEF ListFilter
<1>2. /\ "authors" \in DOMAIN SiteFilter /\ "kinds" \in DOMAIN SiteFilter
      /\ SiteFilter.authors = {Author} /\ SiteFilter.kinds \subseteq SiteKinds
  BY DEF SiteFilter, SiteKinds
<1>3. TagFilters(ListFilter) = {}
  BY <1>1 DEF TagFilters
<1>4. ASSUME NEW e PROVE matches(e, ListFilter) <=> e.pubkey = Author /\ e.kind = KIND_RELAY_LIST
  <2>1. MatchesColumns(e, ListFilter) <=> e.pubkey = Author /\ e.kind = KIND_RELAY_LIST
    BY <1>1 DEF MatchesColumns
  <2> QED BY <1>3, <2>1 DEF matches
<1>5. ASSUME NEW e, matches(e, SiteFilter) PROVE OfAuthor(e) /\ e.kind \in SiteKinds
  <2>1. MatchesColumns(e, SiteFilter)
    BY <1>5 DEF matches
  <2> QED BY <1>2, <2>1 DEF MatchesColumns, OfAuthor
<1> QED BY <1>4, <1>5

(* Which of a slot's versions an event is does not matter to the filters   *)
(* of lists and of manifests.                                              *)
LEMMA SlotMatch ==
    ASSUME NEW e \in Signable, NEW g \in Signable, Slot(g) = Slot(e)
    PROVE  /\ matches(e, ListFilter) => matches(g, ListFilter)
           /\ matches(e, SiteFilter) => matches(g, SiteFilter)
<1>1. g.kind = e.kind /\ g.pubkey = e.pubkey
  BY SlotSame, EventKinds
<1>2. matches(e, ListFilter) => matches(g, ListFilter)
  BY <1>1, ListMatch
<1>3. ASSUME matches(e, SiteFilter) PROVE matches(g, SiteFilter)
  <2>1. g.kind \in SiteKinds
    BY <1>1, <1>3, ListMatch
  <2>2. g \in Manifests
    BY <2>1, EventKinds
  <2> QED BY <2>2, SignableAssumption
<1> QED BY <1>2, <1>3

LEMMA TopList ==
    ASSUME Existing \subseteq Signable, NEW e \in NewestLists, e \in Signable,
           NEW y \in Existing, matches(y, ListFilter), y.created_at >= e.created_at
    PROVE  y = e
<1>1. y # e => y.created_at < e.created_at
  BY DEF NewestLists
<1>2. y.created_at \in Int /\ e.created_at \in Int
  BY SignableAssumption
<1> QED BY <1>1, <1>2

LEMMA BeforeSignable ==
    ASSUME Types
    PROVE  /\ Existing \subseteq Signable /\ newest \subseteq Signable
           /\ \A r \in Relays : /\ before[r].events \subseteq Signable /\ Indexed(Signable, before[r])
                                /\ holds[r].events \subseteq Signable /\ Indexed(Signable, holds[r])
                                /\ holds[r].events \subseteq Existing
           /\ NewestLists \subseteq Signable
           /\ \A e \in NewestLists : matches(e, ListFilter)
<1>1. /\ Existing \subseteq Signable /\ Tables(before) /\ Tables(holds) /\ newest \subseteq Existing
  BY ExistingSignable DEF Types
<1>2. \A r \in Relays : /\ before[r].events \subseteq Signable /\ Indexed(Signable, before[r])
                        /\ holds[r].events \subseteq Signable /\ Indexed(Signable, holds[r])
                        /\ holds[r].events \subseteq Existing
  BY <1>1 DEF Tables
<1>3. NewestLists \subseteq Signable
  BY <1>2 DEF NewestLists, Answering
<1>4. \A e \in NewestLists : matches(e, ListFilter)
  BY DEF NewestLists
<1> QED BY <1>1, <1>2, <1>3, <1>4

(* What the relays asked so far, and the one that answers now, contribute. *)
LEMMA ListsHeard ==
    ASSUME IInv, ListsAsked, Stray = FALSE, pc = "lists", asked \in 1..Len(relays),
           NEW events \in Answers(relays[asked])
    PROVE  /\ \A n \in FoundAfter(events) : matches(n, ListFilter)
           /\ \A r \in Answering(Asked \cup {relays[asked]}) :
                 NewestLists \cap before[r].events \subseteq FoundAfter(events)
<1>1. Types /\ Kept /\ Asking /\ Filter = ListFilter
  BY DEF IInv, Asking, Filter
<1>2. PICK found : found = FoundAfter(events)
  OBVIOUS
<1>3. /\ ToSet(events) \subseteq Existing
      /\ \A e \in ToSet(events) : matches(e, ListFilter)
      /\ found \subseteq newest \cup ToSet(events)
      /\ Covering(found, newest \cup {e \in ToSet(events) : OfAuthor(e)})
  BY <1>1, <1>2, AnswerAdds
<1>4. /\ \A n \in newest : matches(n, ListFilter)
      /\ \A r \in Answering(Asked) : NewestLists \cap before[r].events \subseteq newest
  BY DEF ListsAsked
<1>5. \A n \in found : matches(n, ListFilter) /\ n \in Existing
  BY <1>1, <1>3, <1>4 DEF Types
<1>6. ASSUME NEW e \in NewestLists, e \in newest \cup {x \in ToSet(events) : OfAuthor(x)} PROVE e \in found
  <2>1. PICK y \in found : y.created_at >= e.created_at
    BY <1>3, <1>6 DEF Covering
  <2>2. y = e
    BY <1>1, <1>5, <2>1, BeforeSignable, TopList
  <2> QED BY <2>1, <2>2
<1>7. ASSUME NEW r \in Answering(Asked \cup {relays[asked]}), NEW e \in NewestLists \cap before[r].events
      PROVE  e \in found
  <2>1. CASE r \in Answering(Asked)
    BY <1>4, <1>6, <1>7, <2>1
  <2>2. CASE r = relays[asked]
    <3>1. r \in Relays /\ Reaches(r, proxy_url)
      BY <1>7 DEF Answering
    <3>2. PICK g \in holds[r].events : AtLeast(g, e)
      BY <1>1, <1>7, <3>1 DEF Kept
    <3>3. /\ e \in Signable /\ g \in Signable /\ g \in Existing /\ matches(e, ListFilter)
          /\ holds[r].events \subseteq Signable /\ Indexed(Signable, holds[r])
          /\ holds[r].events \subseteq Existing /\ Existing \subseteq Signable
      BY <1>1, <1>7, <3>1, <3>2, BeforeSignable
    <3>4. matches(g, ListFilter) /\ g.created_at >= e.created_at
      <4>1. matches(g, ListFilter)
        BY <3>2, <3>3, SlotMatch DEF AtLeast
      <4>2. g.created_at >= e.created_at
        BY <3>2, <3>3, SignableOrder, SignableAssumption DEF AtLeast
      <4> QED BY <4>1, <4>2
    <3>5. g = e
      BY <1>7, <3>3, <3>4, TopList
    <3>6. e \in Fitting(holds[r], ListFilter)
      BY <3>2, <3>4, <3>5 DEF Fitting
    <3>7. PICK t \in query(holds[r], {ListFilter}) : t = e \/ Beats(t, e)
      BY <3>3, <3>6, Filters, QueryNewest, SignableFormed
    <3>8. t \in ToSet(events)
      <4>1. ToSet(events) = query(holds[r], {Filter})
        BY <1>1, <2>2, <3>1, AnswersWhole DEF Types
      <4> QED BY <1>1, <3>7, <4>1
    <3>9. t = e
      <4>1. t \in Existing /\ matches(t, ListFilter)
        BY <1>3, <3>8
      <4>2. t.created_at >= e.created_at
        BY <3>3, <3>7, <4>1, SignableOrder, SignableAssumption
      <4> QED BY <1>7, <3>3, <4>1, <4>2, TopList
    <3>10. OfAuthor(e)
      BY <3>3, ListMatch DEF OfAuthor
    <3> QED BY <1>6, <1>7, <3>8, <3>9, <3>10
  <2> QED BY <1>7, <2>1, <2>2 DEF Answering
<1> QED BY <1>2, <1>5, <1>7

LEMMA AnnouncementsHeard ==
    ASSUME IInv, AnnouncementsAsked, FewSeeders, pc = "announcements", asked \in 1..Len(relays),
           NEW events \in Answers(relays[asked])
    PROVE  \A r \in Answering(Asked \cup {relays[asked]}) : \A e \in before[r].events \cap holds[r].events :
              matches(e, SeedFilter) => e \in ToSet(ListAfter(events))
<1>1. Types /\ Asking /\ Filter = SeedFilter
  BY DEF IInv, Asking, Filter
<1>2. ToSet(ListAfter(events)) = ToSet(announced) \cup ToSet(events)
  BY <1>1, AnswerAdds
<1>3. ASSUME NEW r \in Answering(Asked \cup {relays[asked]}),
             NEW e \in before[r].events \cap holds[r].events, matches(e, SeedFilter)
      PROVE  e \in ToSet(ListAfter(events))
  <2>1. CASE r \in Answering(Asked)
    BY <1>2, <1>3, <2>1 DEF AnnouncementsAsked
  <2>2. CASE r = relays[asked]
    <3>1. r \in Relays /\ Reaches(r, proxy_url)
      BY <1>3 DEF Answering
    <3>2. holds[r].events \subseteq Signable /\ Indexed(Signable, holds[r])
      BY <1>1, <3>1, BeforeSignable
    <3>3. query(holds[r], {SeedFilter}) = Fitting(holds[r], SeedFilter)
      <4>1. Cardinality({x \in Signable : matches(x, SeedFilter)}) =< SeedFilter.limit
        BY Filters DEF FewSeeders
      <4>2. SeedFilter.limit \in Nat
        BY Filters
      <4> QED BY <3>2, <4>1, <4>2, Filters, QueryAll, SignableFormed
    <3>4. ToSet(events) = query(holds[r], {Filter})
      BY <1>1, <2>2, <3>1, AnswersWhole DEF Types
    <3> QED BY <1>1, <1>2, <1>3, <3>3, <3>4 DEF Fitting
  <2> QED BY <1>3, <2>1, <2>2 DEF Answering
<1> QED BY <1>3

LEMMA ManifestHeard ==
    ASSUME IInv, ManifestAsked, Stray = FALSE, pc = "manifest", asked \in 1..Len(relays),
           NEW events \in Answers(relays[asked])
    PROVE  /\ \A n \in FoundAfter(events) : matches(n, SiteFilter)
           /\ \A r \in Answering(Asked \cup {relays[asked]}) : \A m \in query(before[r], {SiteFilter}) :
                 \E n \in FoundAfter(events) : n.created_at >= m.created_at
<1>1. Types /\ Kept /\ Asking /\ Filter = SiteFilter
  BY DEF IInv, Asking, Filter
<1>2. PICK found : found = FoundAfter(events)
  OBVIOUS
<1>3. /\ ToSet(events) \subseteq Existing
      /\ \A e \in ToSet(events) : matches(e, SiteFilter)
      /\ found \subseteq newest \cup ToSet(events)
      /\ Covering(found, newest \cup ToSet(events))
  BY <1>1, <1>2, AnswerAdds
<1>4. /\ \A n \in newest : matches(n, SiteFilter)
      /\ \A r \in Answering(Asked) : \A m \in query(before[r], {SiteFilter}) :
            \E n \in newest : n.created_at >= m.created_at
  BY DEF ManifestAsked
<1>5. \A n \in found : matches(n, SiteFilter) /\ n \in Signable
  BY <1>1, <1>3, <1>4, BeforeSignable
<1>6. ASSUME NEW x \in newest \cup ToSet(events), NEW m \in Signable, x.created_at >= m.created_at
      PROVE  \E n \in found : n.created_at >= m.created_at
  <2>1. PICK n \in found : n.created_at >= x.created_at
    BY <1>3 DEF Covering
  <2>2. x \in Signable /\ n \in Signable
    BY <1>1, <1>3, <1>5, BeforeSignable
  <2>3. n.created_at \in Int /\ x.created_at \in Int /\ m.created_at \in Int
    BY <2>2, SignableAssumption
  <2> QED BY <1>6, <2>1, <2>3
<1>7. ASSUME NEW r \in Answering(Asked \cup {relays[asked]}), NEW m \in query(before[r], {SiteFilter})
      PROVE  \E n \in found : n.created_at >= m.created_at
  <2>1. r \in Relays /\ Reaches(r, proxy_url)
    BY <1>7 DEF Answering
  <2>2. /\ before[r].events \subseteq Signable /\ Indexed(Signable, before[r])
        /\ holds[r].events \subseteq Signable /\ Indexed(Signable, holds[r])
    BY <1>1, <2>1, BeforeSignable
  <2>3. m \in Fitting(before[r], SiteFilter)
    <3>1. PICK db : db = before[r]
      OBVIOUS
    <3>2. query(db, {SiteFilter}) \subseteq Fitting(db, SiteFilter)
      <4>1. TagFilters(SiteFilter) \subseteq Letters /\ "limit" \in DOMAIN SiteFilter
        BY Filters
      <4> QED BY <2>2, <3>1, <4>1, QueryFound, SignableFormed
    <3> QED BY <1>7, <3>1, <3>2
  <2>4. m \in before[r].events /\ m \in Signable /\ matches(m, SiteFilter)
    BY <2>2, <2>3 DEF Fitting
  <2>5. CASE r \in Answering(Asked)
    BY <1>4, <1>6, <1>7, <2>4, <2>5
  <2>6. CASE r = relays[asked]
    <3>1. PICK g \in holds[r].events : AtLeast(g, m)
      BY <1>1, <2>1, <2>4 DEF Kept
    <3>2. g \in Signable /\ matches(g, SiteFilter)
      BY <2>2, <2>4, <3>1, SlotMatch DEF AtLeast
    <3>3. g \in Fitting(holds[r], SiteFilter)
      BY <3>1, <3>2 DEF Fitting
    <3>4. PICK t \in query(holds[r], {SiteFilter}) : t = g \/ Beats(t, g)
      BY <2>2, <3>3, Filters, QueryNewest, SignableFormed
    <3>5. t \in ToSet(events)
      <4>1. ToSet(events) = query(holds[r], {Filter})
        BY <1>1, <2>1, <2>6, AnswersWhole DEF Types
      <4> QED BY <1>1, <3>4, <4>1
    <3>6. t \in Signable
      BY <1>1, <1>3, <3>5, BeforeSignable
    <3>7. t.created_at >= m.created_at
      <4>1. t = m \/ Beats(t, m)
        BY <2>4, <3>1, <3>2, <3>4, <3>6, SignableOrder DEF AtLeast
      <4>2. t.created_at \in Int
        BY <3>6, SignableAssumption
      <4> QED BY <2>4, <3>6, <4>1, <4>2, SignableOrder
    <3> QED BY <1>6, <2>4, <3>5, <3>7
  <2> QED BY <1>7, <2>5, <2>6 DEF Answering
<1> QED BY <1>2, <1>5, <1>7

-----------------------------------------------------------------------------
(* The steps: what one ought to know by now only shrinks while the others  *)
(* move.                                                                   *)
LEMMA Shrinks ==
    ASSUME before' = before, Existing \subseteq Existing', NeverBack \/ holds' = holds
    PROVE  /\ NewestLists' \subseteq NewestLists /\ Known' \subseteq Known
           /\ ByAnnouncement("relay")' \subseteq ByAnnouncement("relay")
           /\ ByAnnouncement("server")' \subseteq ByAnnouncement("server")
<1>1. NewestLists' \subseteq NewestLists
  <2>1. ASSUME NEW e \in NewestLists' PROVE e \in NewestLists
    <3>1. /\ e \in UNION {before[r].events : r \in Answering(ToSet(SourceRelays))}
          /\ matches(e, ListFilter)
          /\ \A f \in Existing' : matches(f, ListFilter) /\ f # e => f.created_at < e.created_at
      BY DEF NewestLists
    <3> QED BY <3>1 DEF NewestLists
  <2> QED BY <2>1
<1>2. \A S, T : S \subseteq T => Guarded(S) \subseteq Guarded(T) /\ Answering(S) \subseteq Answering(T)
  BY DEF Guarded, Answering
<1>3. Known' \subseteq Known
  <2> DEFINE Urls_(lists) == UNION {ToSet(relays_from_event(e)) : e \in lists}
  <2>1. Urls_(NewestLists') \subseteq Urls_(NewestLists)
    BY <1>1
  <2>2. /\ Known = ToSet(SourceRelays) \cup Guarded(Urls_(NewestLists))
        /\ Known' = ToSet(SourceRelays) \cup Guarded(Urls_(NewestLists'))
    BY DEF Known
  <2> HIDE DEF Urls_
  <2> QED BY <1>2, <2>1, <2>2
<1>4. Answering(Known') \subseteq Answering(Known)
  BY <1>2, <1>3
<1> DEFINE Held == UNION {before[r].events \cap holds[r].events : r \in Answering(Known)}
<1>5. Held' \subseteq Held
  <2>1. ASSUME NEW r \in Answering(Known'), NEW e \in before[r].events \cap holds'[r].events
        PROVE  e \in Held
    <3>1. r \in Answering(Known) /\ r \in Relays
      BY <1>4 DEF Answering
    <3>2. e \in holds[r].events
      BY <2>1, <3>1 DEF NeverBack
    <3> QED BY <2>1, <3>1, <3>2
  <2>2. Held' = UNION {before[r].events \cap holds'[r].events : r \in Answering(Known')}
    OBVIOUS
  <2> QED BY <2>1, <2>2
<1> DEFINE Said(held, name) == UNION {tag_values(e, name) : e \in {f \in held : matches(f, SeedFilter)}}
<1>6. \A name : Said(Held', name) \subseteq Said(Held, name)
  BY <1>5
<1>7. /\ ByAnnouncement("relay") = Guarded(Said(Held, "relay"))
      /\ ByAnnouncement("relay")' = Guarded(Said(Held', "relay"))
      /\ ByAnnouncement("server") = Guarded(Said(Held, "server"))
      /\ ByAnnouncement("server")' = Guarded(Said(Held', "server"))
  BY DEF ByAnnouncement
<1> HIDE DEF Held, Said
<1> QED BY <1>1, <1>2, <1>3, <1>6, <1>7

LEMMA SameKnown ==
    ASSUME UNCHANGED <<holds, sent, before>>
    PROVE  /\ NewestLists' = NewestLists /\ Known' = Known
           /\ ByAnnouncement("relay")' = ByAnnouncement("relay")
           /\ ByAnnouncement("server")' = ByAnnouncement("server")
<1>1. Existing' = Existing
  BY DEF Existing
<1>2. NewestLists' = NewestLists
  BY <1>1 DEF NewestLists
<1>3. Known' = Known
  BY <1>2 DEF Known
<1>4. ByAnnouncement("relay")' = ByAnnouncement("relay")
  BY <1>3 DEF ByAnnouncement
<1>5. ByAnnouncement("server")' = ByAnnouncement("server")
  BY <1>3 DEF ByAnnouncement
<1> QED BY <1>2, <1>3, <1>4, <1>5

(* What one has found out stays enough when less is to be known. *)
LEMMA StillEnough ==
    ASSUME NewestFound, before' = before, newest' = newest, Known' \subseteq Known,
           ByAnnouncement("relay")' \subseteq ByAnnouncement("relay")
    PROVE  NewestFound'
<1>1. \A S, T : S \subseteq T => Answering(S) \subseteq Answering(T)
  BY DEF Answering
<1>2. Answering((Known \cup ByAnnouncement("relay"))') \subseteq Answering(Known \cup ByAnnouncement("relay"))
  BY <1>1
<1> QED BY <1>2 DEF NewestFound

LEMMA StillCandidates ==
    ASSUME newest' = newest, ByAnnouncement("server")' \subseteq ByAnnouncement("server")
    PROVE  Candidates' \subseteq Candidates
BY DEF Candidates

LEMMA StillProgress ==
    ASSUME Progress, UNCHANGED sync, Existing \subseteq Existing', NeverBack \/ holds' = holds
    PROVE  Progress'
<1>1. UNCHANGED <<pc, asked, relays, newest, announced, sources, data, before>>
  BY DEF sync
<1>2. /\ NewestLists' \subseteq NewestLists /\ Known' \subseteq Known
      /\ ByAnnouncement("relay")' \subseteq ByAnnouncement("relay")
      /\ ByAnnouncement("server")' \subseteq ByAnnouncement("server")
  BY <1>1, Shrinks
<1>3. Asked' = Asked
  BY <1>1 DEF Asked
<1>4. ListsAsked'
  BY <1>1, <1>2, <1>3 DEF Progress, ListsAsked
<1>5. AnnouncementsAsked'
  <2> SUFFICES ASSUME pc' = "announcements"
               PROVE  /\ Known' \subseteq ToSet(relays')
                      /\ newest' = {}
                      /\ \A r \in Answering(Asked') : \A e \in before'[r].events \cap holds'[r].events :
                            matches(e, SeedFilter) => e \in ToSet(announced')
    BY DEF AnnouncementsAsked
  <2>1. /\ Known \subseteq ToSet(relays) /\ newest = {}
        /\ \A r \in Answering(Asked) : \A e \in before[r].events \cap holds[r].events :
              matches(e, SeedFilter) => e \in ToSet(announced)
    BY <1>1 DEF Progress, AnnouncementsAsked
  <2>2. \A r \in Answering(Asked) : before[r].events \cap holds'[r].events \subseteq holds[r].events
    BY DEF NeverBack, Answering
  <2> QED BY <1>1, <1>2, <1>3, <2>1, <2>2
<1>6. ManifestAsked'
  BY <1>1, <1>2, <1>3 DEF Progress, ManifestAsked
<1>7. File' = File
  BY <1>1 DEF File
<1>8. Candidates' \subseteq Candidates
  BY <1>1, <1>2, StillCandidates
<1>9. NewestFound => NewestFound'
  BY <1>1, <1>2, StillEnough
<1>10. ServersAsked'
  BY <1>1, <1>7, <1>8, <1>9 DEF Progress, ServersAsked
<1>11. SourcesSuffice'
  <2>1. FoundIfAnyoneHolds'
    BY <1>1, <1>9 DEF Progress, SourcesSuffice, FoundIfAnyoneHolds
  <2>2. FetchedIfAnyoneHas'
    BY <1>1, <1>7, <1>8 DEF Progress, SourcesSuffice, FetchedIfAnyoneHas
  <2> QED BY <2>1, <2>2 DEF SourcesSuffice
<1> QED BY <1>4, <1>5, <1>6, <1>10, <1>11 DEF Progress

(* Where a stage stops, nothing is promised. *)
LEMMA NoStage ==
    ASSUME pc' \in {"idle", "stopped"}
    PROVE  Progress'
BY DEF Progress, ListsAsked, AnnouncementsAsked, ManifestAsked, ServersAsked,
       SourcesSuffice, FoundIfAnyoneHolds, FetchedIfAnyoneHas

LEMMA BeginProgress == IInv /\ Begin => Progress'
<1> SUFFICES ASSUME IInv, Begin PROVE Progress'
  OBVIOUS
<1>1. pc' = "lists" /\ asked' = 1 /\ relays' = SourceRelays /\ newest' = {}
  BY DEF IInv, Types, Begin
<1>2. Answering(Asked') = {}
  <2>1. 1..(1 - 1) = {}
    OBVIOUS
  <2> QED BY <1>1, <2>1 DEF Asked, Answering
<1>3. ListsAsked'
  BY <1>1, <1>2 DEF ListsAsked
<1> QED BY <1>1, <1>3 DEF Progress, AnnouncementsAsked, ManifestAsked, ServersAsked,
       SourcesSuffice, FoundIfAnyoneHolds, FetchedIfAnyoneHas

LEMMA BlobProgress == IInv /\ Progress /\ (Fetched \/ FetchFails) => Progress'
<1> SUFFICES ASSUME IInv, Progress, Fetched \/ FetchFails PROVE Progress'
  OBVIOUS
<1>1. /\ pc = "blob" /\ Types /\ UNCHANGED <<holds, sent, before>>
      /\ UNCHANGED <<relays, newest, announced, sources>>
      /\ sources \in Seq(Urls) /\ asked \in 1..Len(sources)
  BY DEF IInv, Types, Fetched, FetchFails, others
<1>2. /\ Known' = Known /\ ByAnnouncement("relay")' = ByAnnouncement("relay")
      /\ ByAnnouncement("server")' = ByAnnouncement("server")
  BY <1>1, SameKnown
<1>3. /\ NewestFound /\ Candidates \subseteq ToSet(sources)
      /\ \A k \in 1..(asked - 1) : Honest(sources[k]) => File \notin Blobs[sources[k]]
  BY <1>1 DEF Progress, ServersAsked
<1>4. NewestFound' /\ Candidates' \subseteq Candidates /\ File' = File
  BY <1>1, <1>2, <1>3, StillEnough, StillCandidates DEF File
<1>5. CASE Fetched
  <2>1. pc' = "done" /\ data' # {}
    BY <1>5 DEF Fetched
  <2> QED BY <1>4, <2>1 DEF Progress, ListsAsked, AnnouncementsAsked, ManifestAsked, ServersAsked,
                            SourcesSuffice, FoundIfAnyoneHolds, FetchedIfAnyoneHas
<1>6. CASE FetchFails
  <2>1. Honest(sources[asked]) => File \notin Blobs[sources[asked]]
    BY <1>6 DEF FetchFails, Server
  <2>2. \A k \in 1..asked : Honest(sources[k]) => File \notin Blobs[sources[k]]
    <3>1. \A k \in 1..asked : k \in 1..(asked - 1) \/ k = asked
      BY <1>1
    <3> QED BY <1>3, <2>1, <3>1
  <2>3. CASE pc' = "blob" /\ asked' = asked + 1
    <3>1. asked' - 1 = asked
      BY <1>1, <2>3
    <3>2. ServersAsked'
      BY <1>1, <1>3, <1>4, <2>2, <3>1 DEF ServersAsked
    <3> QED BY <2>3, <3>2 DEF Progress, ListsAsked, AnnouncementsAsked, ManifestAsked,
                              SourcesSuffice, FoundIfAnyoneHolds, FetchedIfAnyoneHas
  <2>4. CASE pc' = "done" /\ asked = Len(sources)
    <3>1. \A url \in ToSet(sources) : Honest(url) => File \notin Blobs[url]
      <4>1. DOMAIN sources = 1..asked
        BY <1>1, <2>4
      <4> QED BY <2>2, <4>1 DEF ToSet
    <3>2. FetchedIfAnyoneHas'
      BY <1>1, <1>3, <1>4, <3>1 DEF FetchedIfAnyoneHas
    <3> QED BY <1>4, <2>4, <3>2 DEF Progress, ListsAsked, AnnouncementsAsked, ManifestAsked, ServersAsked,
                                    SourcesSuffice, FoundIfAnyoneHolds
  <2>5. (pc' = "blob" /\ asked' = asked + 1) \/ (pc' = "done" /\ asked = Len(sources))
    <3>1. Len(sources) \in Nat /\ (~(asked < Len(sources)) => asked = Len(sources))
      BY <1>1
    <3> QED BY <1>1, <1>6, <3>1 DEF FetchFails
  <2> QED BY <2>3, <2>4, <2>5
<1> QED BY <1>5, <1>6

(* When the last relay of a stage has answered, all have. *)
LEMMA AllAsked ==
    ASSUME NEW S, relays \in Seq(S), asked \in 1..Len(relays)
    PROVE  /\ asked = Len(relays) => Asked \cup {relays[asked]} = ToSet(relays)
           /\ asked' = asked + 1 /\ relays' = relays => Asked' = Asked \cup {relays[asked]}
           /\ asked' = 1 => Asked' = {}
<1>1. DOMAIN relays = 1..Len(relays) /\ Len(relays) \in Nat /\ asked \in Nat
  OBVIOUS
<1>2. Asked \cup {relays[asked]} = {relays[k] : k \in 1..asked}
  <2>1. 1..asked = 1..(asked - 1) \cup {asked}
    BY <1>1
  <2> QED BY <2>1 DEF Asked
<1>3. asked = Len(relays) => Asked \cup {relays[asked]} = ToSet(relays)
  BY <1>1, <1>2 DEF ToSet
<1>4. ASSUME asked' = asked + 1, relays' = relays PROVE Asked' = Asked \cup {relays[asked]}
  <2>1. asked' - 1 = asked
    BY <1>1, <1>4
  <2> QED BY <1>2, <1>4, <2>1 DEF Asked
<1>5. ASSUME asked' = 1 PROVE Asked' = {}
  <2>1. 1..(1 - 1) = {}
    OBVIOUS
  <2> QED BY <1>5, <2>1 DEF Asked
<1> QED BY <1>3, <1>4, <1>5

LEMMA ListsProgress ==
    ASSUME IInv, ListsAsked, Stray = FALSE, Answered, pc = "lists"
    PROVE  Progress'
<1>1. /\ Types /\ Asking /\ relays \in Seq(Urls) /\ asked \in 1..Len(relays)
      /\ UNCHANGED <<holds, sent, before>> /\ relays = SourceRelays
  BY DEF IInv, Types, Answered, others, ListsAsked
<1>2. PICK events \in Answers(relays[asked]) :
         \/ /\ asked < Len(relays) /\ asked' = asked + 1 /\ newest' = FoundAfter(events)
            /\ UNCHANGED <<pc, relays, sources>>
         \/ asked = Len(relays) /\ StageOver(FoundAfter(events), ListAfter(events))
  BY <1>1, AnsweredEffect
<1>3. PICK found, list : found = FoundAfter(events) /\ list = ListAfter(events)
  OBVIOUS
<1>4. /\ \A n \in found : matches(n, ListFilter)
      /\ \A r \in Answering(Asked \cup {relays[asked]}) : NewestLists \cap before[r].events \subseteq found
  BY <1>1, <1>3, ListsHeard
<1>5. found \subseteq Signable /\ AtMostOne(found)
  <2>1. ToSet(events) \subseteq Existing /\ found \subseteq newest \cup ToSet(events) /\ AtMostOne(found)
    BY <1>1, <1>3, AnswerAdds
  <2> QED BY <1>1, <2>1, BeforeSignable
<1>6. NewestLists' = NewestLists /\ Known' = Known
  BY <1>1, SameKnown
<1>7. CASE asked < Len(relays) /\ asked' = asked + 1 /\ newest' = found /\ UNCHANGED <<pc, relays, sources>>
  <2>1. Asked' = Asked \cup {relays[asked]}
    BY <1>1, <1>7, AllAsked
  <2>2. ListsAsked'
    BY <1>1, <1>4, <1>6, <1>7, <2>1 DEF ListsAsked
  <2>3. pc' = "lists"
    BY <1>7
  <2> QED BY <2>2, <2>3 DEF Progress, AnnouncementsAsked, ManifestAsked, ServersAsked,
       SourcesSuffice, FoundIfAnyoneHolds, FetchedIfAnyoneHas
<1>8. CASE asked = Len(relays) /\ StageOver(found, list)
  <2>1. /\ asked' = 1 /\ newest' = {}
        /\ \/ pc' = "stopped"
           \/ /\ pc' = "announcements"
              /\ ToSet(relays') = ToSet(relays) \cup Guarded(ToSet(ListUrls(found)))
    BY <1>1, <1>5, <1>8, ListsOver
  <2>2. CASE pc' = "stopped"
    BY <2>2, NoStage
  <2>3. CASE pc' = "announcements" /\ ToSet(relays') = ToSet(relays) \cup Guarded(ToSet(ListUrls(found)))
    <3>1. NewestLists \subseteq found
      <4>1. Asked \cup {relays[asked]} = ToSet(SourceRelays)
        BY <1>1, <1>8, AllAsked
      <4>2. ASSUME NEW e \in NewestLists PROVE e \in found
        <5>1. PICK r \in Answering(ToSet(SourceRelays)) : e \in before[r].events
          BY DEF NewestLists
        <5> QED BY <1>4, <4>1, <5>1
      <4> QED BY <4>2
    <3>2. UNION {ToSet(relays_from_event(e)) : e \in NewestLists} \subseteq ToSet(ListUrls(found))
      <4>1. ASSUME NEW e \in NewestLists PROVE relays_from_event(e) = ListUrls(found)
        <5>1. e \in found /\ found # {}
          BY <3>1
        <5>2. PICK x \in found : x = CHOOSE y \in found : TRUE
          BY <5>1
        <5>3. x = e
          BY <1>5, <5>1 DEF AtMostOne
        <5> QED BY <5>1, <5>2, <5>3 DEF ListUrls
      <4> QED BY <4>1
    <3>3. Known \subseteq ToSet(relays')
      <4>1. \A S, T : S \subseteq T => Guarded(S) \subseteq Guarded(T)
        BY DEF Guarded
      <4>2. Known = ToSet(relays) \cup Guarded(UNION {ToSet(relays_from_event(e)) : e \in NewestLists})
        BY <1>1 DEF Known
      <4> QED BY <2>3, <3>2, <4>1, <4>2
    <3>4. Answering(Asked') = {}
      BY <1>1, <2>1, AllAsked DEF Answering
    <3>5. AnnouncementsAsked'
      BY <1>6, <2>1, <3>3, <3>4 DEF AnnouncementsAsked
    <3> QED BY <2>3, <3>5 DEF Progress, ListsAsked, ManifestAsked, ServersAsked,
         SourcesSuffice, FoundIfAnyoneHolds, FetchedIfAnyoneHas
  <2> QED BY <2>1, <2>2, <2>3
<1> QED BY <1>2, <1>3, <1>7, <1>8

LEMMA AnnouncementsProgress ==
    ASSUME IInv, AnnouncementsAsked, FewSeeders, Answered, pc = "announcements"
    PROVE  Progress'
<1>1. /\ Types /\ Asking /\ relays \in Seq(Urls) /\ sources \in Seq(Urls) /\ asked \in 1..Len(relays)
      /\ UNCHANGED <<holds, sent, before>>
      /\ Known \subseteq ToSet(relays) /\ newest = {}
  BY DEF IInv, Types, Answered, others, AnnouncementsAsked
<1>2. PICK events \in Answers(relays[asked]) :
         /\ announced' = ListAfter(events)
         /\ \/ /\ asked < Len(relays) /\ asked' = asked + 1 /\ newest' = FoundAfter(events)
               /\ UNCHANGED <<pc, relays, sources>>
            \/ asked = Len(relays) /\ StageOver(FoundAfter(events), ListAfter(events))
  BY <1>1, AnsweredEffect
<1>3. PICK found, list : found = FoundAfter(events) /\ list = ListAfter(events)
  OBVIOUS
<1>4. \A r \in Answering(Asked \cup {relays[asked]}) : \A e \in before[r].events \cap holds[r].events :
         matches(e, SeedFilter) => e \in ToSet(list)
  BY <1>1, <1>3, AnnouncementsHeard
<1>5. found = {} /\ list \in Seq(Signable)
  <2>1. found = newest /\ list \in Seq(Existing)
    BY <1>1, <1>3, AnswerAdds
  <2>2. \A X, Y, s : X \subseteq Y /\ s \in Seq(X) => s \in Seq(Y)
    OBVIOUS
  <2> QED BY <1>1, <2>1, <2>2, BeforeSignable
<1>6. /\ Known' = Known
      /\ ByAnnouncement("relay")' = ByAnnouncement("relay") /\ ByAnnouncement("server")' = ByAnnouncement("server")
  BY <1>1, SameKnown
<1>7. CASE asked < Len(relays) /\ asked' = asked + 1 /\ newest' = found /\ UNCHANGED <<pc, relays, sources>>
  <2>1. Asked' = Asked \cup {relays[asked]}
    BY <1>1, <1>7, AllAsked
  <2>2. AnnouncementsAsked'
    BY <1>1, <1>2, <1>3, <1>4, <1>5, <1>6, <1>7, <2>1 DEF AnnouncementsAsked
  <2>3. pc' = "announcements"
    BY <1>7
  <2> QED BY <2>2, <2>3 DEF Progress, ListsAsked, ManifestAsked, ServersAsked,
       SourcesSuffice, FoundIfAnyoneHolds, FetchedIfAnyoneHas
<1>8. CASE asked = Len(relays) /\ StageOver(found, list)
  <2> DEFINE said(name) == UNION {tag_values(e, name) : e \in ToSet(list)}
  <2>1. /\ asked' = 1 /\ newest' = found
        /\ \/ pc' = "stopped"
           \/ /\ pc' = "manifest"
              /\ ToSet(relays') = ToSet(relays) \cup Guarded(said("relay"))
              /\ ToSet(sources') = Guarded(said("server"))
    BY <1>1, <1>5, <1>8, AnnouncementsOver
  <2>2. CASE pc' = "stopped"
    BY <2>2, NoStage
  <2>3. CASE /\ pc' = "manifest"
             /\ ToSet(relays') = ToSet(relays) \cup Guarded(said("relay"))
             /\ ToSet(sources') = Guarded(said("server"))
    <3>1. Asked \cup {relays[asked]} = ToSet(relays)
      BY <1>1, <1>8, AllAsked
    <3>2. {f \in UNION {before[r].events \cap holds[r].events : r \in Answering(Known)} : matches(f, SeedFilter)}
             \subseteq ToSet(list)
      <4>1. Answering(Known) \subseteq Answering(Asked \cup {relays[asked]})
        BY <1>1, <3>1 DEF Answering
      <4> QED BY <1>4, <4>1
    <3>3. ASSUME NEW name PROVE ByAnnouncement(name) \subseteq Guarded(said(name))
      <4>1. \A S, T : S \subseteq T => Guarded(S) \subseteq Guarded(T)
        BY DEF Guarded
      <4> DEFINE heard == {f \in UNION {before[r].events \cap holds[r].events : r \in Answering(Known)} :
                             matches(f, SeedFilter)}
      <4>2. UNION {tag_values(e, name) : e \in heard} \subseteq said(name)
        <5>1. heard \subseteq ToSet(list)
          BY <3>2
        <5> HIDE DEF heard
        <5> QED BY <5>1
      <4>3. ByAnnouncement(name) = Guarded(UNION {tag_values(e, name) : e \in heard})
        BY DEF ByAnnouncement
      <4> HIDE DEF heard, said
      <4> QED BY <4>1, <4>2, <4>3
    <3>4. ByAnnouncement("relay") \subseteq ToSet(relays') /\ ByAnnouncement("server") \subseteq ToSet(sources')
      BY <2>3, <3>3
    <3>5. Answering(Asked') = {}
      BY <1>1, <2>1, AllAsked DEF Answering
    <3>6. ManifestAsked'
      <4>1. Known' \cup ByAnnouncement("relay")' \subseteq ToSet(relays') /\ ByAnnouncement("server")' \subseteq ToSet(sources')
        BY <1>1, <1>6, <2>3, <3>4
      <4> QED BY <1>5, <2>1, <3>5, <4>1 DEF ManifestAsked
    <3> QED BY <2>3, <3>6 DEF Progress, ListsAsked, AnnouncementsAsked, ServersAsked,
         SourcesSuffice, FoundIfAnyoneHolds, FetchedIfAnyoneHas
  <2> QED BY <2>1, <2>2, <2>3
<1> QED BY <1>2, <1>3, <1>7, <1>8

LEMMA ManifestProgress ==
    ASSUME IInv, ManifestAsked, Stray = FALSE, Answered, pc = "manifest"
    PROVE  Progress'
<1>1. /\ Types /\ Asking /\ relays \in Seq(Urls) /\ sources \in Seq(Urls) /\ asked \in 1..Len(relays)
      /\ UNCHANGED <<holds, sent, before>>
      /\ Known \cup ByAnnouncement("relay") \subseteq ToSet(relays)
      /\ ByAnnouncement("server") \subseteq ToSet(sources)
  BY DEF IInv, Types, Answered, others, ManifestAsked
<1>2. PICK events \in Answers(relays[asked]) :
         \/ /\ asked < Len(relays) /\ asked' = asked + 1 /\ newest' = FoundAfter(events)
            /\ UNCHANGED <<pc, relays, sources>>
         \/ asked = Len(relays) /\ StageOver(FoundAfter(events), ListAfter(events))
  BY <1>1, AnsweredEffect
<1>3. PICK found, list : found = FoundAfter(events) /\ list = ListAfter(events)
  OBVIOUS
<1>4. /\ \A n \in found : matches(n, SiteFilter)
      /\ \A r \in Answering(Asked \cup {relays[asked]}) : \A m \in query(before[r], {SiteFilter}) :
            \E n \in found : n.created_at >= m.created_at
  BY <1>1, <1>3, ManifestHeard
<1>5. found \subseteq Signable /\ AtMostOne(found)
  <2>1. ToSet(events) \subseteq Existing /\ found \subseteq newest \cup ToSet(events) /\ AtMostOne(found)
    BY <1>1, <1>3, AnswerAdds
  <2> QED BY <1>1, <2>1, BeforeSignable
<1>6. /\ Known' = Known
      /\ ByAnnouncement("relay")' = ByAnnouncement("relay") /\ ByAnnouncement("server")' = ByAnnouncement("server")
  BY <1>1, SameKnown
<1>7. CASE asked < Len(relays) /\ asked' = asked + 1 /\ newest' = found /\ UNCHANGED <<pc, relays, sources>>
  <2>1. Asked' = Asked \cup {relays[asked]}
    BY <1>1, <1>7, AllAsked
  <2>2. ManifestAsked'
    BY <1>1, <1>4, <1>6, <1>7, <2>1 DEF ManifestAsked
  <2>3. pc' = "manifest"
    BY <1>7
  <2> QED BY <2>2, <2>3 DEF Progress, ListsAsked, AnnouncementsAsked, ServersAsked,
       SourcesSuffice, FoundIfAnyoneHolds, FetchedIfAnyoneHas
<1>8. CASE asked = Len(relays) /\ StageOver(found, list)
  <2>1. /\ asked' = 1 /\ newest' = found /\ relays' = relays
        /\ \/ /\ \A m \in found : ~OfAuthor(m)
              /\ pc' = "done" /\ sources' = sources
           \/ pc' = "stopped"
           \/ \E m \in found :
                 /\ pc' = IF Files(m) = {} \/ sources' = <<>> THEN "done" ELSE "blob"
                 /\ ToSet(sources') = Guarded(tag_values(m, "server")) \cup ToSet(sources) \cup ToSet(DefaultServers)
    BY <1>1, <1>5, <1>8, ManifestOver
  <2>2. NewestFound'
    <3>1. Answering(Known \cup ByAnnouncement("relay")) \subseteq Answering(Asked \cup {relays[asked]})
      <4>1. Asked \cup {relays[asked]} = ToSet(relays)
        BY <1>1, <1>8, AllAsked
      <4> QED BY <1>1, <4>1 DEF Answering
    <3>2. \A r \in Answering(Known \cup ByAnnouncement("relay")) : \A m \in query(before[r], {SiteFilter}) :
             \E n \in found : n.created_at >= m.created_at
      BY <1>4, <3>1
    <3> QED BY <1>1, <1>6, <2>1, <3>2 DEF NewestFound
  <2>3. CASE pc' = "stopped"
    BY <2>3, NoStage
  <2>4. CASE (\A m \in found : ~OfAuthor(m)) /\ pc' = "done"
    <3>1. newest' = {}
      BY <1>4, <2>1, <2>4, ListMatch
    <3> QED BY <2>2, <2>4, <3>1 DEF Progress, ListsAsked, AnnouncementsAsked, ManifestAsked, ServersAsked,
         SourcesSuffice, FoundIfAnyoneHolds, FetchedIfAnyoneHas
  <2>5. ASSUME NEW m \in found,
               pc' = IF Files(m) = {} \/ sources' = <<>> THEN "done" ELSE "blob",
               ToSet(sources') = Guarded(tag_values(m, "server")) \cup ToSet(sources) \cup ToSet(DefaultServers)
        PROVE  Progress'
    <3>1. newest' = {m}
      BY <1>5, <2>1 DEF AtMostOne
    <3>2. Candidates' \subseteq ToSet(sources')
      <4>1. UNION {tag_values(x, "server") : x \in newest'} = tag_values(m, "server")
        BY <3>1
      <4>2. Candidates' = ToSet(DefaultServers) \cup ByAnnouncement("server")
                            \cup Guarded(UNION {tag_values(x, "server") : x \in newest'})
        BY <1>6 DEF Candidates
      <4> QED BY <1>1, <2>5, <4>1, <4>2
    <3>3. CASE pc' = "blob"
      <4>1. \A k \in 1..(asked' - 1) : FALSE
        BY <2>1
      <4>2. ServersAsked'
        BY <2>2, <3>2, <4>1 DEF ServersAsked
      <4> QED BY <3>3, <4>2 DEF Progress, ListsAsked, AnnouncementsAsked, ManifestAsked,
           SourcesSuffice, FoundIfAnyoneHolds, FetchedIfAnyoneHas
    <3>4. CASE pc' = "done"
      <4>1. Files(m) = {} \/ sources' = <<>>
        BY <2>5, <3>4
      <4>2. UNION {Files(x) : x \in newest'} = Files(m)
        BY <3>1
      <4>3. sources' = <<>> => Candidates' = {}
        BY <3>2 DEF ToSet
      <4>4. FetchedIfAnyoneHas'
        BY <4>1, <4>2, <4>3 DEF FetchedIfAnyoneHas
      <4> QED BY <2>2, <3>4, <4>4 DEF Progress, ListsAsked, AnnouncementsAsked, ManifestAsked, ServersAsked,
           SourcesSuffice, FoundIfAnyoneHolds
    <3> QED BY <2>5, <3>3, <3>4
  <2> QED BY <2>1, <2>3, <2>4, <2>5
<1> QED BY <1>2, <1>3, <1>7, <1>8

(* The author's own relays and the seeders' are found through the          *)
(* operator's, and the file is fetched if any server has it that the       *)
(* manifest, an announcement or the operator names (discovery.py,          *)
(* replication.py:112-160): whatever other relays and nodes do, as long as *)
(* relays send only what a filter selects and no more than the limit of    *)
(* 100 announcements of the site exist.                                    *)
THEOREM Sufficient ==
    ASSUME Stray = FALSE, FewSeeders
    PROVE  Spec => []SourcesSuffice
<1>1. Init => Progress
  BY DEF Init, Progress, ListsAsked, AnnouncementsAsked, ManifestAsked, ServersAsked,
         SourcesSuffice, FoundIfAnyoneHolds, FetchedIfAnyoneHas
<1>2. IInv /\ Progress /\ [Next]_vars => Progress'
  <2> SUFFICES ASSUME IInv, Progress, [Next]_vars PROVE Progress'
    OBVIOUS
  <2>1. ListsAsked /\ AnnouncementsAsked /\ ManifestAsked
    BY DEF Progress
  <2>2. CASE UNCHANGED vars
    <3>1. UNCHANGED sync /\ UNCHANGED <<holds, sent>>
      BY <2>2 DEF vars, others
    <3>2. Existing' = Existing
      BY <3>1 DEF Existing
    <3> QED BY <3>1, <3>2, StillProgress
  <2>3. CASE Answered
    <3>1. pc \in {"lists", "announcements", "manifest"}
      BY <2>3 DEF Answered, Asking
    <3> QED BY <2>1, <2>3, <3>1, ListsProgress, AnnouncementsProgress, ManifestProgress
  <2>4. CASE Return
    BY <2>4, NoStage DEF Return
  <2>5. CASE Others
    BY <2>5, OthersInv, StillProgress
  <2>6. Begin \/ Return \/ Answered \/ (Fetched \/ FetchFails) \/ Others \/ UNCHANGED vars
    BY DEF Next, Others
  <2> QED BY <2>2, <2>3, <2>4, <2>5, <2>6, BeginProgress, BlobProgress
<1>3. Progress => SourcesSuffice
  BY DEF Progress
<1> QED BY <1>1, <1>2, <1>3, Inductive, PTL DEF Spec
=============================================================================
