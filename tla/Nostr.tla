------------------------------- MODULE Nostr -------------------------------
(***************************************************************************)
(* The Nostr event as the event store, the relay and the replicator see    *)
(* it: its storage class, the slot it competes for, the newest-wins order, *)
(* and NIP-01 filters.                                                     *)
(*                                                                         *)
(* An event is a record                                                    *)
(*    [id, pubkey, created_at, kind, tags]                                 *)
(* whose id is a number: ids are 64-digit hex strings compared             *)
(* lexicographically and nothing else is ever done with them.  tags is a   *)
(* sequence of pairs <<name, value>>; the value of an "a" tag is the       *)
(* coordinate <<kind, pubkey, d>> it spells.  Content and signature are    *)
(* left out: signatures are checked before an event reaches these parts.   *)
(*                                                                         *)
(* A filter is a record with any of the fields ids, authors, kinds, since, *)
(* until, limit, and tags, a function from letters to sets of values.      *)
(***************************************************************************)
EXTENDS Integers, Sequences, FiniteSets

classify(kind) ==
    CASE kind \in 20000..29999                          -> "ephemeral"
      [] kind = 0 \/ kind = 3 \/ kind \in 10000..19999  -> "replaceable"
      [] kind \in 30000..39999                          -> "addressable"
      [] OTHER                                          -> "regular"

(* The pairs of an event's tag list that carry this name. *)
Named(e, name) == {i \in DOMAIN e.tags : e.tags[i][1] = name}

tag_values(e, name) == {e.tags[i][2] : i \in Named(e, name)}

(* The value of the first tag of this name; the empty string when there is *)
(* none.                                                                   *)
first_tag(e, name) ==
    IF Named(e, name) = {} THEN ""
    ELSE LET first == CHOOSE i \in Named(e, name) : \A j \in Named(e, name) : i =< j
         IN  e.tags[first][2]

d_tag(e) == first_tag(e, "d")

(* What an event competes for: the (pubkey, kind) or (pubkey, kind, d) key *)
(* under which only one version is kept, or nothing but its own id.        *)
Slot(e) ==
    CASE classify(e.kind) = "replaceable" -> <<e.pubkey, e.kind>>
      [] classify(e.kind) = "addressable" -> <<e.pubkey, e.kind, d_tag(e)>>
      [] OTHER                            -> <<e.id>>

(* Newest first: later created_at, then the smaller id.  It is also the    *)
(* ORDER BY of every query.                                                *)
Beats(e, f) ==
    \/ e.created_at > f.created_at
    \/ e.created_at = f.created_at /\ e.id < f.id

(* The same version, or one that replaces it. *)
AtLeast(e, f) == Slot(e) = Slot(f) /\ (e = f \/ Beats(e, f))

(* The versions that are left when every event of S has been compared with *)
(* the others of its slot.                                                 *)
Winners(S) == {e \in S : \A f \in S : Slot(f) = Slot(e) => ~Beats(f, e)}

(***************************************************************************)
(* Filters.  matches is the predicate applied to live events; the SQL      *)
(* query of the store agrees with it on all conditions but the tag ones,   *)
(* which it looks up in the tag index (EventTable).                        *)
(***************************************************************************)
MatchesColumns(e, flt) ==
    /\ "ids"     \in DOMAIN flt => e.id \in flt.ids
    /\ "authors" \in DOMAIN flt => e.pubkey \in flt.authors
    /\ "kinds"   \in DOMAIN flt => e.kind \in flt.kinds
    /\ "since"   \in DOMAIN flt => e.created_at >= flt.since
    /\ "until"   \in DOMAIN flt => e.created_at =< flt.until

TagFilters(flt) == IF "tags" \in DOMAIN flt THEN DOMAIN flt.tags ELSE {}

matches(e, flt) ==
    /\ MatchesColumns(e, flt)
    /\ \A x \in TagFilters(flt) : tag_values(e, x) \cap flt.tags[x] # {}

matches_any(e, filters) == \E flt \in filters : matches(e, flt)
=============================================================================
