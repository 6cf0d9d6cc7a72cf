----------------------------- MODULE EventTable -----------------------------
(***************************************************************************)
(* The two SQLite tables of event_store/db.py as a value, and what its     *)
(* statements do to it.  A table state is a record                         *)
(*    [events |-> set of events, tags |-> set of <<id, name, value>>]      *)
(* These operators hold the rules; EventStore, EventStoreProcs and Relay   *)
(* say when they run.                                                      *)
(***************************************************************************)
EXTENDS Nostr

CONSTANT Letters     \* the tag names of one letter: the only ones indexed

Empty == [events |-> {}, tags |-> {}]

TagRow(e, i) == <<e.id, e.tags[i][1], e.tags[i][2]>>

(* The rows event_tags receives for the first n tags of an event. *)
TagRows(e, n) == {TagRow(e, i) : i \in {j \in 1..n : e.tags[j][1] \in Letters}}

(* Mutant: the `d` value is left out of the key of addressable events. *)
RivalsByKind(db, e) ==
    {f \in db.events : /\ classify(e.kind) # "regular"
                       /\ f.pubkey = e.pubkey /\ f.kind = e.kind}

(* The rows the incoming event is compared with and, if it wins, drops. *)
Rivals(db, e) ==
    {f \in db.events : classify(e.kind) # "regular" /\ Slot(f) = Slot(e)}

Duplicate(db, e)  == \E f \in db.events : f.id = e.id
(* Mutant: a tie of created_at is not broken by the id. *)
SupersededByTime(db, e) == \E f \in Rivals(db, e) : f.created_at > e.created_at

Superseded(db, e) == \E f \in Rivals(db, e) : Beats(f, e)

Delete(db, S) ==
    [events |-> db.events \ S,
     tags   |-> {row \in db.tags : \A f \in S : row[1] # f.id}]

(* Mutant: every tag is indexed. *)
InsertAllTags(db, e) ==
    [events |-> db.events \cup {e},
     tags   |-> db.tags \cup {TagRow(e, i) : i \in DOMAIN e.tags}]

(* Mutant: one row per tag name, as from a dict. *)
InsertFirstTags(db, e) ==
    [events |-> db.events \cup {e},
     tags   |-> db.tags \cup {TagRow(e, i) : i \in
                   {j \in DOMAIN e.tags : /\ e.tags[j][1] \in Letters
                                          /\ \A k \in 1..(j - 1) : e.tags[k][1] # e.tags[j][1]}}]

Insert(db, e) ==
    [events |-> db.events \cup {e},
     tags   |-> db.tags \cup TagRows(e, Len(e.tags))]

(* INSERT succeeds for the events row and the first n tags, then raises. *)
InsertPart(db, e, n) ==
    [events |-> db.events \cup {e},
     tags   |-> db.tags \cup TagRows(e, n)]

(* The events a kind-5 event names: by id, or by coordinate; its own       *)
(* author's only.                                                          *)
Retracts(del, f) ==
    /\ del.kind = 5
    /\ f.pubkey = del.pubkey
    /\ \/ f.id \in tag_values(del, "e")
       \/ <<f.kind, f.pubkey, d_tag(f)>> \in tag_values(del, "a")

ProcessDeletion(db, del) ==
    Delete(db, {f \in db.events : Retracts(del, f)})

(* What an exception leaves of it: the ids come first and cannot raise     *)
(* (INSERT has bound them); a coordinate may, after some others.           *)
PartDeleted(db, del) ==
    {Delete(db, {f \in db.events :
                   /\ Retracts(del, f)
                   /\ \/ f.id \in tag_values(del, "e")
                      \/ <<f.kind, f.pubkey, d_tag(f)>> \in done}) :
       done \in SUBSET tag_values(del, "a")}

(* What store() may have made of the tables when it raises: nothing yet,   *)
(* or the rivals are gone, the first tags are in, some of a deletion       *)
(* request is carried out.                                                 *)
Leftovers(db, e) ==
    LET dropped == Delete(db, Rivals(db, e))
    IN  {db, dropped} \cup {InsertPart(dropped, e, n - 1) : n \in 1..Len(e.tags)}
        \cup PartDeleted(Insert(dropped, e), e)

(* Mutant: the older versions stay. *)
WriteBeside(db, e) == ProcessDeletion(Insert(db, e), e)

(* The whole write of an event that is neither a duplicate nor superseded. *)
Write(db, e) ==
    ProcessDeletion(Insert(Delete(db, Rivals(db, e)), e), e)

(* The answer of store for an event whose statements all succeed. *)
Answer(db, e) ==
    IF classify(e.kind) = "ephemeral" THEN "ephemeral"
    ELSE IF Duplicate(db, e) THEN "duplicate"
    ELSE IF Superseded(db, e) THEN "superseded"
    ELSE "stored"

(* The events a filter selects in SQL, newest first up to its limit. *)
SqlMatches(db, e, flt) ==
    /\ MatchesColumns(e, flt)
    /\ \A x \in TagFilters(flt) : \E v \in flt.tags[x] : <<e.id, x, v>> \in db.tags

QueryOne(db, flt) ==
    LET found == {e \in db.events : SqlMatches(db, e, flt)}
    IN  IF "limit" \notin DOMAIN flt THEN found
        ELSE {e \in found : Cardinality({f \in found : Beats(f, e)}) < flt.limit}

query(db, filters) == UNION {QueryOne(db, flt) : flt \in filters}
=============================================================================
