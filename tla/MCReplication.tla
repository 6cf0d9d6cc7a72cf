--------------------------- MODULE MCReplication ---------------------------
(* Ann's root site, in versions that share blobs, one of them a blog, and  *)
(* Bob's pinned wiki; small blobs and a big one.                           *)
EXTENDS Replication, Policy, TLC

CONSTANTS x, y, z

Event(i, author, t, k, ts) ==
    [id |-> i, pubkey |-> author, created_at |-> t, kind |-> k, tags |-> ts]

Path(sha) == <<"path", sha>>

Root1 == Event(1, "ann", 1, 15128, <<Path(x), Path(y)>>)
Root2 == Event(2, "ann", 2, 15128, <<Path(z)>>)
Blog  == Event(3, "ann", 3, 15128, << <<"app", "blog">>, Path(x) >>)
Post  == Event(4, "ann", 1, 30023, << <<"d", "post">> >>)
Wiki  == Event(5, "bob", 1, 35128, << <<"d", "wiki">>, Path(y), Path(z) >>)
Broken == Event(7, "bob", 3, 35128, << <<"d", "wiki">> >>)
Lists == Event(8, "bob", 1, 10002, <<>>)
Note  == Event(9, "ann", 4, 1, <<>>)
Root1b == Event(10, "ann", 1, 15128, <<Path(x), Path(z)>>)

MCLetters == {"d", "a"}
MCShas == {x, y, z}
MCSizes == [b \in MCShas |-> CASE b = x -> 2 [] b = y -> 3 [] b = z -> 1]

(* Policy documents: sites pinned by default or not, an entry whose key    *)
(* has a slip, a limit of 1.5 KB, of 3 bytes each here, and limits.    *)
MCnormalize(text) == IF text \in {"ann", "bob"} THEN text ELSE "no key"

AnnEntry == [pubkey |-> "ann", pin |-> FALSE]
WikiEntry == [pubkey |-> "bob", identifier |-> "wiki"]
Document ==
    [sites |-> <<AnnEntry, [pubkey |-> "bbo"], WikiEntry>>,
     limits |-> [storage_total |-> <<15, "KB">>, bandwidth_day |-> <<30, "B">>],
     eviction |-> [policy |-> "lru"]]

Parsed ==
    [two |-> sites(Document),
     one |-> sites([sites |-> <<AnnEntry>>]),
     capped |-> sites([sites |-> <<AnnEntry @@ [storage_cap |-> <<40, "">>]>>]),
     rootAndCapped |->
        sites([sites |-> <<AnnEntry, WikiEntry @@ [pin |-> FALSE, storage_cap |-> <<20, "B">>]>>]),
     storage |-> storage_total(Document), day |-> bandwidth_day(Document),
     month |-> bandwidth_month(Document), eviction |-> eviction(Document)]

TwoSites == Parsed.two
OneSite == Parsed.one
CappedSite == Parsed.capped
RootAndCapped == Parsed.rootAndCapped
MCStorage == Parsed.storage
MCDayCap == Parsed.day
MCMonthCap == Parsed.month
MCPolicy == Parsed.eviction.policy
MCProtect == Parsed.eviction.protect_pinned

World == {Root1, Root2, Blog, Post, Wiki, Broken, Lists}
Bad == {Broken, Lists}
WikiToo == {Wiki}
RootOnly == {Root1}
Versions == {Root1, Root1b}
RootAndNote == {Root1, Note}
TheNote == {Note}
BigWiki == Event(12, "bob", 1, 35128, << <<"d", "wiki">>, Path(x), Path(y), Path(z) >>)
RootAndBig == {Root2, BigWiki}
BrokenRoot == Event(11, "ann", 1, 15128, <<Path(x)>>)
RootBroken == {BrokenRoot, Wiki}
TheBroken == {BrokenRoot}

YbyBob == {<<y, "bob">>}

None == {}
=============================================================================
