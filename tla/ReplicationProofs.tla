-------------------------- MODULE ReplicationProofs --------------------------
(***************************************************************************)
(* Machine-checked proofs about Replication: the caps hold for any sites,  *)
(* caps, sizes, events and blobs, whatever servers tell.                   *)
(*                                                                         *)
(* The provers know neither the sum of a set's sizes nor a fold.  Both are *)
(* recursive functions, and what they compute is proved here by induction, *)
(* for which naturals being well founded is enough (Least, Induction).     *)
(***************************************************************************)
EXTENDS Replication, FiniteSetTheorems, SequenceTheorems,
        WellFoundedInduction, TLAPS

-----------------------------------------------------------------------------
(* Induction, over naturals and over finite sets. *)
(* A set of naturals has a least member. *)
LEMMA Least ==
    ASSUME NEW T, T \subseteq Nat, T # {}
    PROVE  \E n \in T : \A m \in T : n =< m
<1>1. PICK n \in T : \A m \in T : <<m, n>> \notin OpToRel(<, Nat)
  BY NatLessThanWellFounded, WFMin
<1>2. \A m \in Nat : m < n => <<m, n>> \in OpToRel(<, Nat)
  BY DEF OpToRel
<1>3. \A m \in T : m \in Nat /\ n \in Nat /\ ~(m < n)
  BY <1>1, <1>2
<1>4. \A m \in T : n =< m
  BY <1>3
<1> QED BY <1>4

LEMMA Induction ==
    ASSUME NEW S, 0 \in S, \A n \in Nat : n \in S => n + 1 \in S
    PROVE  Nat \subseteq S
<1> SUFFICES ASSUME Nat \ S # {} PROVE FALSE
  OBVIOUS
<1>1. PICK n \in Nat \ S : \A m \in Nat \ S : n =< m
  BY Least
<1>2. n - 1 \in Nat /\ (n - 1) + 1 = n
  BY <1>1
<1> QED BY <1>1, <1>2

(* What the empty set has, and a set has if it has it without any one of   *)
(* its members, every finite set has.                                      *)
LEMMA FiniteInduction ==
    ASSUME NEW D, IsFiniteSet(D), NEW P, {} \in P,
           \A s \in SUBSET D : s # {} /\ (\A x \in s : s \ {x} \in P) => s \in P
    PROVE  SUBSET D \subseteq P
<1> DEFINE S == {n \in Nat : \A s \in SUBSET D : Cardinality(s) = n => s \in P}
<1>0. Cardinality({}) = 0
  BY FS_EmptySet
<1>1. \A s \in SUBSET D : IsFiniteSet(s) /\ Cardinality(s) \in Nat
  BY FS_Subset, FS_CardinalityType
<1>2. 0 \in S
  BY <1>1, FS_EmptySet
<1>3. ASSUME NEW n \in Nat, n \in S PROVE n + 1 \in S
  <2>1. ASSUME NEW s \in SUBSET D, Cardinality(s) = n + 1 PROVE s \in P
    <3>1. s # {}
      BY <1>0, <2>1
    <3>2. ASSUME NEW x \in s PROVE s \ {x} \in P
      <4>1. Cardinality(s \ {x}) = n
        BY <1>1, <2>1, FS_RemoveElement
      <4> QED BY <1>3, <4>1
    <3> QED BY <3>1, <3>2
  <2> QED BY <2>1
<1> HIDE DEF S
<1>4. Nat \subseteq S
  BY <1>2, <1>3, Induction
<1> QED BY <1>1, <1>4 DEF S

-----------------------------------------------------------------------------
(* A fold over a finite set, whichever member it takes next, has a value:  *)
(* the recursive function it is defined by exists.                         *)
Picks(pick, D) == \A s \in SUBSET D : s # {} => pick[s] \in s

Steps(step, D, X) == \A v \in X, x \in D : step[<<v, x>>] \in X

FoldsTo(g, base, pick, step, D, X) ==
    /\ g \in [SUBSET D -> X]
    /\ \A s \in SUBSET D :
          g[s] = IF s = {} THEN base ELSE step[<<g[s \ {pick[s]}], pick[s]>>]

LEMMA FoldExists ==
    ASSUME NEW D, IsFiniteSet(D), NEW X, NEW base \in X,
           NEW pick, Picks(pick, D), NEW step, Steps(step, D, X)
    PROVE  \E g : FoldsTo(g, base, pick, step, D, X)
<1> USE DEF Picks, Steps
<1> DEFINE Value(g, s) == IF s = {} THEN base ELSE step[<<g[s \ {pick[s]}], pick[s]>>]
           Upto(g, n) == \A s \in SUBSET D : Cardinality(s) =< n => g[s] = Value(g, s)
           S == {n \in Nat : \E g \in [SUBSET D -> X] : Upto(g, n)}
<1>1. \A s \in SUBSET D : IsFiniteSet(s) /\ Cardinality(s) \in Nat /\ (Cardinality(s) = 0 => s = {})
  BY FS_Subset, FS_CardinalityType, FS_EmptySet
<1>2. 0 \in S
  <2>1. [s \in SUBSET D |-> base] \in [SUBSET D -> X]
    OBVIOUS
  <2>2. Upto([s \in SUBSET D |-> base], 0)
    BY <1>1
  <2> QED BY <2>1, <2>2
<1>3. ASSUME NEW n \in Nat, n \in S PROVE n + 1 \in S
  <2>1. PICK g \in [SUBSET D -> X] : Upto(g, n)
    BY <1>3
  <2> DEFINE h == [s \in SUBSET D |-> Value(g, s)]
  <2>2. h \in [SUBSET D -> X]
    OBVIOUS
  <2>3. ASSUME NEW s \in SUBSET D, Cardinality(s) =< n + 1 PROVE h[s] = Value(h, s)
    <3>1. CASE s = {}
      BY <3>1
    <3>2. CASE s # {}
      <4>1. pick[s] \in s /\ s \ {pick[s]} \in SUBSET D
        BY <3>2
      <4>2. Cardinality(s \ {pick[s]}) =< n
        BY <1>1, <2>3, <4>1, FS_RemoveElement
      <4>3. h[s \ {pick[s]}] = g[s \ {pick[s]}]
        BY <2>1, <4>1, <4>2
      <4> QED BY <3>2, <4>1, <4>3
    <3> QED BY <3>1, <3>2
  <2> HIDE DEF h, Value
  <2> QED BY <2>2, <2>3
<1> HIDE DEF S
<1>4. Cardinality(D) \in S
  BY <1>2, <1>3, <1>1, Induction
<1>5. PICK g \in [SUBSET D -> X] : Upto(g, Cardinality(D))
  BY <1>4 DEF S
<1>6. \A s \in SUBSET D : Cardinality(s) =< Cardinality(D)
  BY FS_Subset
<1> QED BY <1>5, <1>6 DEF FoldsTo

-----------------------------------------------------------------------------
(* The function that Used is the value of: on every subset, the sizes of   *)
(* its members added up.                                                   *)
Sums(g, S) ==
    /\ g \in [SUBSET S -> Nat]
    /\ g[{}] = 0
    /\ \A s \in SUBSET S : \A x \in s : g[s] = SizeOf[x] + g[s \ {x}]

Anyof(s) == CHOOSE x \in s : TRUE

LEMMA UsedFold ==
    ASSUME NEW S
    PROVE  Used(S) = (CHOOSE g : g = [s \in SUBSET S |->
                        IF s = {} THEN 0 ELSE SizeOf[Anyof(s)] + g[s \ {Anyof(s)}]])[S]
BY DEF Used, MapThenSumSet, MapThenFoldSet, Anyof

(* The order in which members are taken does not matter. *)
LEMMA SumsAny ==
    ASSUME NEW S, IsFiniteSet(S), \A x \in S : SizeOf[x] \in Nat, NEW g,
           g = [s \in SUBSET S |->
                  IF s = {} THEN 0 ELSE SizeOf[Anyof(s)] + g[s \ {Anyof(s)}]]
    PROVE  Sums(g, S)
<1>0. /\ DOMAIN g = SUBSET S /\ g[{}] = 0
      /\ \A s \in SUBSET S : s # {} => g[s] = SizeOf[Anyof(s)] + g[s \ {Anyof(s)}]
  OBVIOUS
<1>1. \A s \in SUBSET S : g[s] \in Nat
  <2> DEFINE P == {s \in SUBSET S : g[s] \in Nat}
  <2>1. {} \in P
    BY <1>0
  <2>2. ASSUME NEW s \in SUBSET S, s # {}, \A x \in s : s \ {x} \in P
        PROVE  s \in P
    <3>1. Anyof(s) \in s
      BY <2>2 DEF Anyof
    <3>2. g[s] = SizeOf[Anyof(s)] + g[s \ {Anyof(s)}]
      BY <1>0, <2>2
    <3>3. g[s \ {Anyof(s)}] \in Nat /\ SizeOf[Anyof(s)] \in Nat
      BY <2>2, <3>1
    <3> QED BY <3>2, <3>3
  <2> HIDE DEF P
  <2>3. SUBSET S \subseteq P
    BY <2>1, <2>2, FiniteInduction
  <2> QED BY <2>3 DEF P
<1>2. \A s \in SUBSET S : \A x \in s : g[s] = SizeOf[x] + g[s \ {x}]
  <2> DEFINE P == {s \in SUBSET S : \A x \in s : g[s] = SizeOf[x] + g[s \ {x}]}
  <2>1. {} \in P
    OBVIOUS
  <2>2. ASSUME NEW s \in SUBSET S, s # {}, \A x \in s : s \ {x} \in P
        PROVE  s \in P
    <3>1. PICK y \in s : y = Anyof(s)
      BY <2>2 DEF Anyof
    <3>2. g[s] = SizeOf[y] + g[s \ {y}]
      BY <1>0, <2>2, <3>1
    <3>3. ASSUME NEW x \in s, x # y PROVE g[s] = SizeOf[x] + g[s \ {x}]
      <4>1. g[s \ {y}] = SizeOf[x] + g[(s \ {y}) \ {x}]
        BY <2>2, <3>3
      <4>2. g[s \ {x}] = SizeOf[y] + g[(s \ {x}) \ {y}]
        BY <2>2, <3>3
      <4>3. (s \ {y}) \ {x} = (s \ {x}) \ {y} /\ (s \ {y}) \ {x} \in SUBSET S
        OBVIOUS
      <4>4. /\ g[s \ {x}] \in Nat /\ g[s \ {y}] \in Nat /\ g[(s \ {y}) \ {x}] \in Nat
            /\ SizeOf[x] \in Nat /\ SizeOf[y] \in Nat
        BY <1>1, <4>3
      <4>5. PICK a, c, d : a = g[s \ {x}] /\ c = g[s \ {y}] /\ d = g[(s \ {y}) \ {x}]
        OBVIOUS
      <4>6. c = SizeOf[x] + d /\ a = SizeOf[y] + d
        BY <4>1, <4>2, <4>3, <4>5
      <4>7. SizeOf[y] + c = SizeOf[x] + a
        BY <4>4, <4>5, <4>6
      <4> QED BY <3>2, <4>5, <4>7
    <3> QED BY <3>2, <3>3
  <2> HIDE DEF P
  <2>3. SUBSET S \subseteq P
    BY <2>1, <2>2, FiniteInduction
  <2> QED BY <2>3 DEF P
<1> QED BY <1>0, <1>1, <1>2 DEF Sums

LEMMA SumsExist ==
    ASSUME NEW S, IsFiniteSet(S), \A x \in S : SizeOf[x] \in Nat
    PROVE  \E g : Sums(g, S) /\ Used(S) = g[S]
<1> DEFINE Is(g) == g = [s \in SUBSET S |->
                           IF s = {} THEN 0 ELSE SizeOf[Anyof(s)] + g[s \ {Anyof(s)}]]
           pick == [s \in SUBSET S |-> Anyof(s)]
           step == [p \in Nat \X S |-> SizeOf[p[2]] + p[1]]
<1>1. Picks(pick, S)
  BY DEF Anyof, Picks
<1>2. \A v \in Nat, x \in S : step[<<v, x>>] = SizeOf[x] + v
  OBVIOUS
<1> HIDE DEF step, pick
<1>3. Steps(step, S, Nat)
  <2>1. ASSUME NEW v \in Nat, NEW x \in S PROVE step[<<v, x>>] \in Nat
    <3>1. SizeOf[x] + v \in Nat
      OBVIOUS
    <3> QED BY <1>2, <3>1
  <2> QED BY <2>1 DEF Steps
<1>4. PICK g : FoldsTo(g, 0, pick, step, S, Nat)
  BY <1>1, <1>3, FoldExists
<1>5. ASSUME NEW s \in SUBSET S, s # {} PROVE g[s] = SizeOf[Anyof(s)] + g[s \ {Anyof(s)}]
  <2>1. pick[s] = Anyof(s) /\ pick[s] \in s
    BY <1>1, <1>5 DEF pick, Picks
  <2>2. g[s] = step[<<g[s \ {pick[s]}], pick[s]>>]
    BY <1>4, <1>5 DEF FoldsTo
  <2>3. g[s \ {pick[s]}] \in Nat /\ pick[s] \in S
    BY <1>4, <2>1 DEF FoldsTo
  <2> QED BY <1>2, <2>1, <2>2, <2>3
<1>6. Is(g)
  BY <1>4, <1>5 DEF FoldsTo
<1>7. PICK h : h = CHOOSE f : Is(f)
  OBVIOUS
<1>8. Is(h) /\ Used(S) = h[S]
  BY <1>6, <1>7, UsedFold
<1>9. Sums(h, S)
  BY <1>8, SumsAny
<1> QED BY <1>8, <1>9

(* The sizes of a set of blobs: nothing for none, one more for one more,   *)
(* no more for fewer.                                                      *)
LEMMA UsedEmpty == Used({}) = 0
<1>1. PICK g : Sums(g, {}) /\ Used({}) = g[{}]
  BY SumsExist, FS_EmptySet
<1> QED BY <1>1 DEF Sums

LEMMA SumsAgree ==
    ASSUME NEW S, NEW T, IsFiniteSet(S), S \subseteq T, NEW g, NEW h, Sums(g, S), Sums(h, T)
    PROVE  g[S] = h[S]
<1> DEFINE P == {s \in SUBSET S : g[s] = h[s]}
<1>1. {} \in P
  BY DEF Sums
<1>2. ASSUME NEW s \in SUBSET S, s # {}, \A x \in s : s \ {x} \in P
      PROVE  s \in P
  <2>1. PICK x \in s : s \ {x} \in P
    BY <1>2
  <2>2. s \in SUBSET T
    OBVIOUS
  <2> QED BY <2>1, <2>2 DEF Sums
<1> HIDE DEF P
<1>3. SUBSET S \subseteq P
  BY <1>1, <1>2, FiniteInduction
<1> QED BY <1>3 DEF P

LEMMA UsedAdd ==
    ASSUME NEW S, IsFiniteSet(S), NEW b, b \notin S,
           \A x \in S \cup {b} : SizeOf[x] \in Nat
    PROVE  Used(S) \in Nat /\ Used(S \cup {b}) = SizeOf[b] + Used(S)
<1> DEFINE T == S \cup {b}
<1>1. IsFiniteSet(T)
  BY FS_AddElement
<1>2. T \ {b} = S /\ S \subseteq T /\ T \in SUBSET T /\ b \in T /\ \A x \in T : SizeOf[x] \in Nat
  OBVIOUS
<1> HIDE DEF T
<1>3. PICK g : Sums(g, S) /\ Used(S) = g[S]
  BY SumsExist
<1>4. PICK h : Sums(h, T) /\ Used(T) = h[T]
  BY <1>1, <1>2, SumsExist
<1>5. g[S] = h[S]
  BY <1>2, <1>3, <1>4, SumsAgree
<1>6. h[T] = SizeOf[b] + h[S]
  BY <1>2, <1>4 DEF Sums
<1>7. g[S] \in Nat
  BY <1>3 DEF Sums
<1> QED BY <1>3, <1>4, <1>5, <1>6, <1>7 DEF T

LEMMA UsedLess ==
    ASSUME NEW S, IsFiniteSet(S), \A x \in S : SizeOf[x] \in Nat, NEW T \in SUBSET S
    PROVE  Used(S) \in Nat /\ Used(T) \in Nat /\ Used(T) =< Used(S)
<1>1. PICK g : Sums(g, S) /\ Used(S) = g[S]
  BY SumsExist
<1> DEFINE P == {s \in SUBSET S : \A t \in SUBSET s : g[t] =< g[s]}
<1>2. \A s \in SUBSET S : g[s] \in Nat
  BY <1>1 DEF Sums
<1>3. {} \in P
  BY <1>2
<1>4. ASSUME NEW s \in SUBSET S, s # {}, \A x \in s : s \ {x} \in P
      PROVE  s \in P
  <2>1. ASSUME NEW t \in SUBSET s, t # s PROVE g[t] =< g[s]
    <3>1. PICK x \in s : x \notin t
      BY <2>1
    <3>2. g[t] =< g[s \ {x}]
      BY <1>4, <3>1
    <3>3. g[s] = SizeOf[x] + g[s \ {x}] /\ SizeOf[x] \in Nat
      BY <1>1 DEF Sums
    <3> QED BY <1>2, <3>2, <3>3
  <2> QED BY <1>2, <2>1
<1> HIDE DEF P
<1>5. SUBSET S \subseteq P
  BY <1>3, <1>4, FiniteInduction
<1>6. g[T] =< g[S]
  BY <1>5 DEF P
<1>7. IsFiniteSet(T)
  BY FS_Subset
<1>8. PICK h : Sums(h, T) /\ Used(T) = h[T]
  BY <1>7, SumsExist
<1>9. h[T] = g[T]
  BY <1>1, <1>7, <1>8, SumsAgree
<1> QED BY <1>1, <1>2, <1>6, <1>8, <1>9

-----------------------------------------------------------------------------
(* The first and the last of a set of positions. *)
LEMMA MinIn ==
    ASSUME NEW T, T \subseteq Nat, T # {}
    PROVE  Min(T) \in T
BY Least DEF Min

LEMMA MaxIn ==
    ASSUME NEW n \in Nat, NEW T, T \subseteq 1..n, T # {}
    PROVE  Max(T) \in T
<1> DEFINE Above == {m \in Nat : \A k \in T : k =< m}
<1>1. n \in Above
  OBVIOUS
<1>2. PICK m \in Above : \A k \in Above : m =< k
  <2>1. Above \subseteq Nat /\ Above # {}
    BY <1>1
  <2> HIDE DEF Above
  <2> QED BY <2>1, Least
<1>3. m \in T
  <2> SUFFICES ASSUME m \notin T PROVE FALSE
    OBVIOUS
  <2>1. m \in Nat /\ \A k \in T : k \in Nat /\ k >= 1 /\ k =< m /\ k # m
    BY <1>2
  <2>2. \A k \in T : k =< m - 1 /\ m - 1 \in Nat
    BY <2>1
  <2>3. m - 1 \in Above
    BY <2>2
  <2>4. m =< m - 1
    BY <1>2, <2>3
  <2> QED BY <2>1, <2>4
<1>4. \E x \in T : \A y \in T : x >= y
  BY <1>2, <1>3
<1> QED BY <1>4 DEF Max

(* The blobs that a manifest names, in order. *)
WithPath(shas, t) == IF t[1] = "path" THEN Append(shas, t[2]) ELSE shas

LEMMA PathsFold ==
    ASSUME NEW e
    PROVE  Paths(e) = (CHOOSE g : g = [s \in SUBSET DOMAIN e.tags |->
                         IF s = {} THEN <<>>
                         ELSE WithPath(g[s \ {Max(s)}], e.tags[Max(s)])])[DOMAIN e.tags]
BY DEF Paths, FoldLeft, MapThenFoldSet, WithPath

LEMMA PathsShas ==
    ASSUME NEW e \in Events
    PROVE  Paths(e) \in Seq(Shas)
<1> DEFINE D == DOMAIN e.tags
           Is(g) == g = [s \in SUBSET D |->
                           IF s = {} THEN <<>>
                           ELSE WithPath(g[s \ {Max(s)}], e.tags[Max(s)])]
           pick == [s \in SUBSET D |-> Max(s)]
           step == [p \in Seq(Shas) \X D |-> WithPath(p[1], e.tags[p[2]])]
<1>1. IsFiniteSet(D) /\ \A s \in SUBSET D : s # {} => Max(s) \in s
  <2>1. D = 1..Len(e.tags) /\ Len(e.tags) \in Nat
    BY WorldAssumption
  <2> HIDE DEF D
  <2>2. IsFiniteSet(D)
    BY <2>1, FS_Interval
  <2>3. ASSUME NEW s \in SUBSET D, s # {} PROVE Max(s) \in s
    BY <2>1, <2>3, MaxIn
  <2> QED BY <2>2, <2>3
<1>2. ASSUME NEW v \in Seq(Shas), NEW i \in D
      PROVE  WithPath(v, e.tags[i]) \in Seq(Shas)
  BY WorldAssumption DEF WithPath
<1>3. \A v \in Seq(Shas), i \in D : step[<<v, i>>] = WithPath(v, e.tags[i])
  OBVIOUS
<1>4. Picks(pick, D)
  BY <1>1 DEF Picks
<1>5. \A s \in SUBSET D : pick[s] = Max(s)
  OBVIOUS
<1> HIDE DEF pick, step, D
<1>6. Steps(step, D, Seq(Shas))
  BY <1>2, <1>3 DEF Steps
<1>7. <<>> \in Seq(Shas)
  OBVIOUS
<1>8. PICK g : FoldsTo(g, <<>>, pick, step, D, Seq(Shas))
  BY <1>1, <1>4, <1>6, <1>7, FoldExists
<1>9. Is(g)
  <2>1. ASSUME NEW s \in SUBSET D, s # {}
        PROVE  g[s] = WithPath(g[s \ {Max(s)}], e.tags[Max(s)])
    <3>1. g[s \ {Max(s)}] \in Seq(Shas) /\ Max(s) \in D
      BY <1>1, <1>8, <2>1 DEF FoldsTo
    <3> QED BY <1>3, <1>5, <1>8, <2>1, <3>1 DEF FoldsTo
  <2> QED BY <1>8, <2>1 DEF FoldsTo
<1>10. PICK h : h = CHOOSE f : Is(f)
  OBVIOUS
<1>11. Is(h)
  BY <1>9, <1>10
<1>12. Paths(e) = h[D]
  BY <1>10, PathsFold DEF D
<1> DEFINE P == {s \in SUBSET D : h[s] \in Seq(Shas)}
<1>13. {} \in P
  BY <1>7, <1>11
<1>14. ASSUME NEW s \in SUBSET D, s # {}, \A x \in s : s \ {x} \in P
       PROVE  s \in P
  <2>1. Max(s) \in s /\ h[s \ {Max(s)}] \in Seq(Shas)
    BY <1>1, <1>14
  <2>2. h[s] = WithPath(h[s \ {Max(s)}], e.tags[Max(s)])
    BY <1>11, <1>14
  <2> QED BY <1>2, <2>1, <2>2
<1> HIDE DEF P
<1>15. SUBSET D \subseteq P
  BY <1>1, <1>13, <1>14, FiniteInduction
<1> QED BY <1>12, <1>15 DEF P

-----------------------------------------------------------------------------
(* The table of events: what a write, and the writes of a whole answer,    *)
(* leave in it came from a relay or from a client.                         *)
Senders == Events \cup Arrivals

Tables ==
    [events : SUBSET Senders, tags : SUBSET UNION {TagRows(e, Len(e.tags)) : e \in Senders}]

LEMMA DeleteTables ==
    ASSUME NEW t \in Tables, NEW S
    PROVE  Delete(t, S) \in Tables
BY DEF Delete, Tables

LEMMA InsertTables ==
    ASSUME NEW t \in Tables, NEW e \in Senders
    PROVE  Insert(t, e) \in Tables
BY DEF Insert, Tables

LEMMA StoredTables ==
    ASSUME NEW t \in Tables, NEW e \in Senders
    PROVE  Stored(t, e) \in Tables
<1>1. Write(t, e) \in Tables
  BY DeleteTables, InsertTables DEF Write, ProcessDeletion
<1> QED BY <1>1 DEF Stored

LEMMA AllFold ==
    ASSUME NEW t, NEW S
    PROVE  FoldSet(LAMBDA e, u : Stored(u, e), t, S) =
               (CHOOSE g : g = [s \in SUBSET S |->
                   IF s = {} THEN t ELSE Stored(g[s \ {Anyof(s)}], Anyof(s))])[S]
BY DEF FoldSet, MapThenFoldSet, Anyof

LEMMA AllTables ==
    ASSUME NEW t \in Tables, NEW S \in SUBSET Senders, IsFiniteSet(S)
    PROVE  FoldSet(LAMBDA e, u : Stored(u, e), t, S) \in Tables
<1> DEFINE Is(g) == g = [s \in SUBSET S |->
                           IF s = {} THEN t ELSE Stored(g[s \ {Anyof(s)}], Anyof(s))]
           pick == [s \in SUBSET S |-> Anyof(s)]
           step == [p \in Tables \X S |-> Stored(p[1], p[2])]
<1>1. \A s \in SUBSET S : s # {} => Anyof(s) \in s
  BY DEF Anyof
<1>2. \A v \in Tables, e \in S : step[<<v, e>>] = Stored(v, e)
  OBVIOUS
<1>3. Picks(pick, S)
  BY <1>1 DEF Picks
<1>4. \A s \in SUBSET S : pick[s] = Anyof(s)
  OBVIOUS
<1> HIDE DEF pick, step
<1>5. Steps(step, S, Tables)
  BY <1>2, StoredTables DEF Steps
<1>6. PICK g : FoldsTo(g, t, pick, step, S, Tables)
  BY <1>3, <1>5, FoldExists
<1>7. Is(g)
  <2>1. ASSUME NEW s \in SUBSET S, s # {}
        PROVE  g[s] = Stored(g[s \ {Anyof(s)}], Anyof(s))
    <3>1. g[s \ {Anyof(s)}] \in Tables /\ Anyof(s) \in S
      BY <1>1, <1>6, <2>1 DEF FoldsTo
    <3> QED BY <1>2, <1>4, <1>6, <2>1, <3>1 DEF FoldsTo
  <2> QED BY <1>6, <2>1 DEF FoldsTo
<1>8. PICK h : h = CHOOSE f : Is(f)
  OBVIOUS
<1>9. Is(h)
  BY <1>7, <1>8
<1>10. FoldSet(LAMBDA e, u : Stored(u, e), t, S) = h[S]
  BY <1>8, AllFold
<1> DEFINE P == {s \in SUBSET S : h[s] \in Tables}
<1>11. {} \in P
  BY <1>9
<1>12. ASSUME NEW s \in SUBSET S, s # {}, \A x \in s : s \ {x} \in P
       PROVE  s \in P
  <2>1. Anyof(s) \in s /\ h[s \ {Anyof(s)}] \in Tables
    BY <1>1, <1>12
  <2>2. h[s] = Stored(h[s \ {Anyof(s)}], Anyof(s))
    BY <1>9, <1>12
  <2> QED BY <2>1, <2>2, StoredTables
<1> HIDE DEF P
<1>13. SUBSET S \subseteq P
  BY <1>11, <1>12, FiniteInduction
<1> QED BY <1>10, <1>13 DEF P

-----------------------------------------------------------------------------
(* The inductive invariant. *)

Stores ==
    /\ db \in Tables
    /\ DOMAIN blobs \subseteq Shas /\ IsFiniteSet(DOMAIN blobs)
    /\ uploaded \subseteq DOMAIN blobs

(* Where the controller is. *)
Control ==
    /\ pc \in {"starting", "manifest", "posts", "size", "fetch", "asleep", "stopped"}
    /\ first \in BOOLEAN /\ complete \in BOOLEAN
    /\ cur \in 1..Len(Sites)
    /\ todo \in Seq(Shas) /\ (pc \in {"size", "fetch"} => todo # <<>>)
    /\ siteBytes \in Nat
    /\ told \in Nat /\ (told # 0 => pc = "fetch")
    /\ report.site \in 0..Len(Sites) /\ report.result \in Results

(* What it counts; the meter was last used on a date that has come. *)
Counts ==
    /\ nodeBytes \in Nat
    /\ today \in Nat
    /\ meter.date \in Int /\ meter.date =< today /\ meter.day \in Nat

(* It knows of every byte that was not uploaded since it counted. *)
Counted == Used(DOMAIN blobs \ uploaded) =< nodeBytes

RoomOnNode ==
    ~site.pin /\ StorageTotal # 0 => nodeBytes + told =< StorageTotal

RoomToday ==
    DayCap # 0 => roll(meter, today).day + told =< DayCap

(* What HEAD told of the blob being fetched still fits when it comes. *)
Room == pc = "fetch" /\ told # 0 => RoomOnNode /\ RoomToday

IInv == Stores /\ Control /\ Counts /\ Counted /\ Room

-----------------------------------------------------------------------------
(* What the steps of the controller have in common. *)
LEMMA SiteEndsControl ==
    ASSUME Control, NEW result \in Results, SiteEnds(result)
    PROVE  Control' /\ pc' \in {"manifest", "asleep"}
<1>1. Len(Sites) \in Nat
  BY ReplicationAssumption
<1>2. /\ report'.site = cur /\ report'.result = result
      /\ todo' = <<>> /\ siteBytes' = 0 /\ told' = 0 /\ complete' = TRUE
      /\ \/ cur < Len(Sites) /\ cur' = cur + 1 /\ pc' = "manifest" /\ first' = first
         \/ cur' = 1 /\ pc' = "asleep" /\ first' = FALSE
  BY DEF SiteEnds
<1>3. cur \in 1..Len(Sites) /\ first \in BOOLEAN
  BY DEF Control
<1>4. cur' \in 1..Len(Sites) /\ cur \in 0..Len(Sites)
  BY <1>1, <1>2, <1>3
<1>5. first' \in BOOLEAN
  BY <1>2, <1>3
<1>6. todo' \in Seq(Shas)
  BY <1>2
<1> QED BY <1>2, <1>4, <1>5, <1>6 DEF Control

LEMMA SiteRaisesControl ==
    ASSUME Control, SiteRaises
    PROVE  Control' /\ pc' \in {"stopped", "asleep"}
<1>1. Len(Sites) \in Nat \ {0} /\ 1 \in 1..Len(Sites)
  BY ReplicationAssumption
<1>2. <<>> \in Seq(Shas)
  OBVIOUS
<1> QED BY <1>1, <1>2 DEF SiteRaises, Control

LEMMA AdvanceControl ==
    ASSUME Control, NEW rest \in Seq(Shas), NEW stored, NEW whole \in BOOLEAN,
           NEW bytes \in Nat, Advance(rest, stored, whole, bytes)
    PROVE  Control' /\ pc' \in {"size", "manifest", "asleep"}
<1> DEFINE absent == {i \in DOMAIN rest : rest[i] \notin stored}
<1>1. CASE absent = {} /\ SiteEnds(IF whole THEN "complete" ELSE "partial")
  BY <1>1, SiteEndsControl DEF Results
<1>2. CASE /\ absent # {}
           /\ todo' = SubSeq(rest, Min(absent), Len(rest))
           /\ pc' = "size"
           /\ told' = 0
           /\ siteBytes' = bytes
           /\ complete' = whole
           /\ UNCHANGED <<cur, first, report>>
  <2>1. absent \subseteq 1..Len(rest) /\ Len(rest) \in Nat
    OBVIOUS
  <2> HIDE DEF absent
  <2>2. absent \subseteq Nat
    BY <2>1
  <2>3. PICK k : k = Min(absent)
    OBVIOUS
  <2>4. k \in 1..Len(rest)
    BY <1>2, <2>1, <2>2, <2>3, MinIn
  <2>5. todo' = SubSeq(rest, k, Len(rest))
    BY <1>2, <2>3
  <2>6. todo' \in Seq(Shas) /\ Len(todo') = Len(rest) - k + 1
    BY <2>1, <2>4, <2>5, SubSeqProperties
  <2>7. Len(todo') # 0
    BY <2>1, <2>4, <2>6
  <2>8. todo' # <<>>
    BY <2>7
  <2> QED BY <1>2, <2>6, <2>8 DEF Control
<1> QED BY <1>1, <1>2 DEF Advance

LEMMA HeadType ==
    ASSUME Control, pc \in {"size", "fetch"}
    PROVE  /\ Head(todo) \in Shas /\ Tail(todo) \in Seq(Shas)
           /\ SizeOf[Head(todo)] \in Nat \ {0}
<1>1. Head(todo) \in Shas /\ Tail(todo) \in Seq(Shas)
  BY HeadTailProperties DEF Control
<1> QED BY <1>1, ReplicationAssumption

LEMMA HeadsType ==
    ASSUME Control, pc \in {"size", "fetch"}
    PROVE  Heads(Head(todo)) \subseteq Nat
<1>1. SizeOf[Head(todo)] \in Nat
  BY HeadType
<1> QED BY <1>1, ReplicationAssumption DEF Heads

LEMMA SkipControl ==
    ASSUME Control, pc \in {"size", "fetch"}, Skip
    PROVE  Control' /\ pc' \in {"size", "manifest", "asleep"}
<1>1. PICK stored : stored = DOMAIN blobs
  OBVIOUS
<1>2. Advance(Tail(todo), stored, FALSE, siteBytes)
  BY <1>1 DEF Skip
<1>3. siteBytes \in Nat /\ Tail(todo) \in Seq(Shas)
  BY HeadType DEF Control
<1> QED BY <1>2, <1>3, AdvanceControl

LEMMA FetchedControl ==
    ASSUME Control, Fetched
    PROVE  Control' /\ pc' \in {"size", "manifest", "asleep"}
<1>1. pc = "fetch"
  BY DEF Fetched
<1>2. PICK stored, bytes : stored = DOMAIN blobs' /\ bytes = siteBytes + SizeOf[Head(todo)]
  OBVIOUS
<1>3. Advance(Tail(todo), stored, complete, bytes)
  BY <1>2 DEF Fetched
<1>4. bytes \in Nat /\ complete \in BOOLEAN /\ Tail(todo) \in Seq(Shas)
  <2>1. SizeOf[Head(todo)] \in Nat /\ siteBytes \in Nat
    BY <1>1, HeadType DEF Control
  <2>2. bytes \in Nat
    BY <1>2, <2>1
  <2>3. complete \in BOOLEAN
    BY DEF Control
  <2> QED BY <1>1, <2>2, <2>3, HeadType
<1> QED BY <1>3, <1>4, AdvanceControl

LEMMA PullManifestControl ==
    ASSUME Control, NEW e \in Events, PullManifest(e)
    PROVE  Control' /\ pc' \in {"stopped", "posts", "size", "manifest", "asleep"}
<1>1. Paths(e) \in Seq(Shas)
  BY PathsShas
<1>2. CASE SiteRaises
  BY <1>2, SiteRaisesControl
<1>3. CASE todo' = Paths(e) /\ pc' = "posts" /\ UNCHANGED <<cur, first, siteBytes, told, complete, report>>
  <2>1. told = 0
    BY DEF PullManifest, Control
  <2> QED BY <1>1, <1>3, <2>1 DEF Control
<1>4. CASE Advance(Paths(e), DOMAIN blobs, TRUE, 0)
  BY <1>1, <1>4, AdvanceControl
<1> QED BY <1>2, <1>3, <1>4 DEF PullManifest

LEMMA PullPostsControl ==
    ASSUME Control, NEW S, PullPosts(S)
    PROVE  Control' /\ pc' \in {"size", "manifest", "asleep"}
<1>1. todo \in Seq(Shas) /\ Advance(todo, DOMAIN blobs, TRUE, 0)
  BY DEF PullPosts, Control
<1> QED BY <1>1, AdvanceControl

LEMMA SizeToldControl ==
    ASSUME Control, NEW size \in Nat, SizeTold(size)
    PROVE  Control'
<1>1. pc = "size"
  BY DEF SizeTold
<1>2. CASE Skip
  BY <1>1, <1>2, SkipControl
<1>3. CASE /\ pc' = "fetch" /\ told' = size
           /\ UNCHANGED <<first, cur, todo, siteBytes, complete, report>>
  BY <1>1, <1>3 DEF Control
<1> QED BY <1>2, <1>3 DEF SizeTold

LEMMA ControlStep ==
    ASSUME Control, [Next]_vars
    PROVE  Control'
<1>1. CASE SyncAll
  <2>1. 1 \in 1..Len(Sites)
    BY ReplicationAssumption
  <2> QED BY <1>1, <2>1 DEF SyncAll, Control
<1>2. CASE DiscoveryRaises
  BY <1>2, SiteRaisesControl DEF DiscoveryRaises
<1>3. CASE NoManifest
  BY <1>3, SiteEndsControl DEF NoManifest, Results
<1>4. CASE \E e \in Events : PullManifest(e)
  BY <1>4, PullManifestControl
<1>5. CASE \E S \in SUBSET {e \in Events : e \in Stray \/ e.kind = KIND_LONGFORM} : PullPosts(S)
  BY <1>5, PullPostsControl
<1>6. CASE \E size \in Heads(Head(todo)) : SizeTold(size)
  BY <1>6, HeadsType, SizeToldControl DEF SizeTold
<1>7. CASE Fetched
  BY <1>7, FetchedControl
<1>8. CASE Missing
  BY <1>8, SkipControl DEF Missing
<1>9. CASE Services \/ Tick \/ UNCHANGED vars
  <2>1. UNCHANGED <<pc, first, cur, todo, siteBytes, told, complete, report>>
    BY <1>9 DEF Services, ReceiveEvent, Upload, DeleteBlob, Tick, vars
  <2> QED BY <2>1 DEF Control
<1>10. CASE Restart
  <2>1. 1 \in 1..Len(Sites) /\ 0 \in 0..Len(Sites)
    BY ReplicationAssumption
  <2>2. report'.site = 0 /\ report'.result = "none"
    BY <1>10 DEF Restart, NoReport
  <2>3. /\ pc' = "starting" /\ first' = TRUE /\ cur' = 1 /\ todo' = <<>>
        /\ siteBytes' = 0 /\ told' = 0 /\ complete' = TRUE
    BY <1>10 DEF Restart
  <2>4. todo' \in Seq(Shas)
    BY <2>3
  <2>5. report'.site \in 0..Len(Sites) /\ report'.result \in Results
    BY <2>1, <2>2 DEF Results
  <2> QED BY <2>1, <2>3, <2>4, <2>5 DEF Control
<1> QED BY <1>1, <1>2, <1>3, <1>4, <1>5, <1>6, <1>7, <1>8, <1>9, <1>10 DEF Next, Controller

-----------------------------------------------------------------------------
(* The stores keep their types. *)
LEMMA PutDomain == ASSUME NEW sha, NEW user PROVE DOMAIN Put(sha, user) = DOMAIN blobs \cup {sha}
BY DEF Put

LEMMA WithoutDomain == ASSUME NEW S PROVE DOMAIN Without(S) = DOMAIN blobs \ S
BY DEF Without

LEMMA DbStep ==
    ASSUME Stores, [Next]_vars
    PROVE  db' \in Tables
<1>0. db \in Tables
  BY DEF Stores
<1>1. CASE \E e \in Events : PullManifest(e)
  BY <1>0, <1>1, StoredTables DEF PullManifest, Senders
<1>2. CASE \E S \in SUBSET {e \in Events : e \in Stray \/ e.kind = KIND_LONGFORM} : PullPosts(S)
  <2>1. PICK S \in SUBSET Events : PullPosts(S)
    BY <1>2
  <2>2. IsFiniteSet(S) /\ S \subseteq Senders
    BY <2>1, WorldAssumption, FS_Subset DEF Senders
  <2>3. db' = FoldSet(LAMBDA e, t : Stored(t, e), db, S)
    BY <2>1 DEF PullPosts
  <2>4. FoldSet(LAMBDA e, t : Stored(t, e), db, S) \in Tables
    BY <1>0, <2>2, AllTables
  <2> QED BY <2>3, <2>4
<1>3. CASE \E e \in Arrivals : ReceiveEvent(e)
  BY <1>0, <1>3, StoredTables DEF ReceiveEvent, Senders
<1>4. CASE UNCHANGED db
  BY <1>0, <1>4
<1>5. \/ UNCHANGED db
      \/ \E e \in Events : PullManifest(e)
      \/ \E S \in SUBSET {e \in Events : e \in Stray \/ e.kind = KIND_LONGFORM} : PullPosts(S)
      \/ \E e \in Arrivals : ReceiveEvent(e)
  BY DEF Next, Controller, Services, vars, SyncAll, DiscoveryRaises, NoManifest, SizeTold, Skip,
         Fetched, Missing, Upload, DeleteBlob, Tick, Restart
<1> QED BY <1>1, <1>2, <1>3, <1>4, <1>5

(* What becomes of the blobs; only the controller and uploads add one. *)
LEMMA BlobsMove ==
    ASSUME [Next]_vars
    PROVE  \/ Fetched \/ \E u \in Uploads : Upload(u[1], u[2])
           \/ DOMAIN blobs' \subseteq DOMAIN blobs
<1>1. CASE SyncAll
  BY <1>1, WithoutDomain DEF SyncAll
<1>2. CASE \E sha \in Shas, user \in Deleters : DeleteBlob(sha, user)
  BY <1>2, WithoutDomain DEF DeleteBlob
<1>3. \/ UNCHANGED blobs \/ SyncAll
      \/ Fetched \/ \E u \in Uploads : Upload(u[1], u[2])
      \/ \E sha \in Shas, user \in Deleters : DeleteBlob(sha, user)
  BY DEF Next, Controller, Services, vars, DiscoveryRaises, NoManifest, PullManifest, PullPosts,
         SizeTold, Skip, Missing, ReceiveEvent, Tick, Restart
<1> QED BY <1>1, <1>2, <1>3

LEMMA FetchedBlobs ==
    ASSUME Control, Fetched
    PROVE  DOMAIN blobs' = DOMAIN blobs \cup {Head(todo)}
BY PutDomain DEF Fetched

(* What is uploaded is noted, what is deleted is not any more. *)
LEMMA UploadedMove ==
    ASSUME uploaded \subseteq DOMAIN blobs, Control, [Next]_vars
    PROVE  /\ uploaded' \subseteq DOMAIN blobs'
           /\ \/ Fetched
              \/ DOMAIN blobs' \ uploaded' \subseteq DOMAIN blobs \ uploaded
              \/ nodeBytes' = Used(DOMAIN blobs' \ uploaded')
<1>1. CASE SyncAll \/ Restart
  <2>1. uploaded' = {} /\ nodeBytes' = Used(DOMAIN blobs')
    BY <1>1 DEF SyncAll, Restart, total_bytes
  <2>2. DOMAIN blobs' \ uploaded' = DOMAIN blobs'
    BY <2>1
  <2> QED BY <2>1, <2>2
<1>2. CASE \E u \in Uploads : Upload(u[1], u[2])
  <2>1. PICK u \in Uploads : Upload(u[1], u[2])
    BY <1>2
  <2>2. /\ DOMAIN blobs' = DOMAIN blobs \cup {u[1]}
        /\ uploaded' = uploaded \cup ({u[1]} \ DOMAIN blobs)
    BY <2>1, PutDomain DEF Upload
  <2> QED BY <2>2
<1>3. CASE \E sha \in Shas, user \in Deleters : DeleteBlob(sha, user)
  <2>1. PICK sha \in Shas : /\ blobs' = Without({sha})
                            /\ uploaded' = uploaded \ {sha}
    BY <1>3 DEF DeleteBlob
  <2> QED BY <2>1, WithoutDomain
<1>4. CASE Fetched
  BY <1>4, FetchedBlobs DEF Fetched
<1>5. CASE UNCHANGED <<blobs, uploaded>>
  BY <1>5
<1>6. \/ SyncAll \/ Restart \/ Fetched
      \/ \E u \in Uploads : Upload(u[1], u[2])
      \/ \E sha \in Shas, user \in Deleters : DeleteBlob(sha, user)
      \/ UNCHANGED <<blobs, uploaded>>
  BY DEF Next, Controller, Services, vars, DiscoveryRaises, NoManifest, PullManifest, PullPosts,
         SizeTold, Skip, Missing, ReceiveEvent, Tick
<1> QED BY <1>1, <1>2, <1>3, <1>4, <1>5, <1>6

LEMMA StoresStep ==
    ASSUME Stores, Control, [Next]_vars
    PROVE  Stores'
<1>0. uploaded' \subseteq DOMAIN blobs'
  BY UploadedMove DEF Stores
<1>1. DOMAIN blobs \subseteq Shas /\ IsFiniteSet(DOMAIN blobs)
  BY DEF Stores
<1>2. CASE Fetched
  <2>1. Head(todo) \in Shas
    BY <1>2, HeadType DEF Fetched
  <2>2. DOMAIN blobs' \subseteq Shas /\ IsFiniteSet(DOMAIN blobs')
    BY <1>1, <1>2, <2>1, FetchedBlobs, FS_AddElement
  <2> QED BY <1>0, <2>2, DbStep DEF Stores
<1>3. CASE \E u \in Uploads : Upload(u[1], u[2])
  <2>0. PICK u \in Uploads : blobs' = Put(u[1], u[2])
    BY <1>3 DEF Upload
  <2>1. PICK sha \in Shas : DOMAIN blobs' = DOMAIN blobs \cup {sha}
    BY <2>0, WorldAssumption, PutDomain
  <2>2. DOMAIN blobs' \subseteq Shas /\ IsFiniteSet(DOMAIN blobs')
    BY <1>1, <2>1, FS_AddElement
  <2> QED BY <1>0, <2>2, DbStep DEF Stores
<1>4. CASE DOMAIN blobs' \subseteq DOMAIN blobs
  <2>1. DOMAIN blobs' \subseteq Shas /\ IsFiniteSet(DOMAIN blobs')
    BY <1>1, <1>4, FS_Subset
  <2> QED BY <1>0, <2>1, DbStep DEF Stores
<1> QED BY <1>2, <1>3, <1>4, BlobsMove

LEMMA UsedType ==
    ASSUME Stores
    PROVE  /\ \A x \in DOMAIN blobs : SizeOf[x] \in Nat
           /\ Used(DOMAIN blobs) \in Nat
<1>1. \A x \in DOMAIN blobs : SizeOf[x] \in Nat
  BY ReplicationAssumption DEF Stores
<1> QED BY <1>1, UsedLess DEF Stores

-----------------------------------------------------------------------------
(* The meter, and the bytes of the node. *)
LEMMA RollFacts ==
    ASSUME Counts
    PROVE  /\ roll(meter, today).date = today
           /\ roll(meter, today).day = IF meter.date = today THEN meter.day ELSE 0
           /\ roll(meter, today).day \in Nat
BY DEF roll, Counts

LEMMA MeterMoves ==
    ASSUME [Next]_vars
    PROVE  \/ UNCHANGED <<meter, today>>
           \/ meter' = roll(meter, today) /\ UNCHANGED today
           \/ UNCHANGED meter /\ today' = today + 1
           \/ Fetched
BY DEF Next, Controller, Services, vars, SyncAll, DiscoveryRaises, NoManifest, PullManifest,
       PullPosts, SizeTold, Skip, Missing, ReceiveEvent, Upload, DeleteBlob, Tick, Restart

LEMMA FetchedMeter ==
    ASSUME Counts, Control, Fetched
    PROVE  /\ pc = "fetch" /\ SizeOf[Head(todo)] \in Nat
           /\ today' = today /\ nodeBytes' = nodeBytes + SizeOf[Head(todo)]
           /\ \/ DayCap = 0 /\ meter' = meter
              \/ /\ meter'.date = today
                 /\ meter'.day = roll(meter, today).day + SizeOf[Head(todo)]
<1>1. pc = "fetch"
  BY DEF Fetched
<1>2. /\ today' = today /\ nodeBytes' = nodeBytes + SizeOf[Head(todo)]
      /\ meter' = Metered(SizeOf[Head(todo)])
  BY DEF Fetched, NodeBytesWith
<1>3. SizeOf[Head(todo)] \in Nat
  BY <1>1, HeadType
<1>4. CASE DayCap = 0 /\ MonthCap = 0
  BY <1>1, <1>2, <1>3, <1>4 DEF Metered
<1>5. CASE ~(DayCap = 0 /\ MonthCap = 0)
  <2>1. meter' = Recorded(roll(meter, today), SizeOf[Head(todo)])
    BY <1>2, <1>5 DEF Metered
  <2>2. /\ meter'.date = roll(meter, today).date
        /\ meter'.day = roll(meter, today).day + SizeOf[Head(todo)]
    BY <2>1 DEF Recorded, roll
  <2> QED BY <1>1, <1>2, <1>3, <2>2, RollFacts
<1> QED BY <1>4, <1>5

LEMMA NodeBytesMove ==
    ASSUME [Next]_vars
    PROVE  \/ UNCHANGED nodeBytes
           \/ nodeBytes' = Used(DOMAIN blobs') /\ uploaded' = {}
           \/ Fetched
BY DEF Next, Controller, Services, vars, SyncAll, DiscoveryRaises, NoManifest, PullManifest,
       PullPosts, SizeTold, Skip, Missing, ReceiveEvent, Upload, DeleteBlob, Tick, Restart,
       total_bytes

LEMMA CountsStep ==
    ASSUME Counts, Control, Stores', [Next]_vars
    PROVE  Counts'
<1>1. today \in Nat /\ nodeBytes \in Nat /\ meter.date \in Int /\ meter.date =< today /\ meter.day \in Nat
  BY DEF Counts
<1>2. Used(DOMAIN blobs)' \in Nat
  <2>1. PICK S : S = DOMAIN blobs'
    OBVIOUS
  <2>2. IsFiniteSet(S) /\ \A x \in S : SizeOf[x] \in Nat
    BY <2>1, ReplicationAssumption DEF Stores
  <2>3. Used(S) \in Nat
    BY <2>2, UsedLess
  <2> QED BY <2>1, <2>3
<1>3. CASE Fetched
  <2>1. meter'.date \in Int /\ meter'.date =< today /\ meter'.day \in Nat
    BY <1>1, <1>3, FetchedMeter, RollFacts
  <2>2. nodeBytes' \in Nat
    BY <1>1, <1>3, FetchedMeter
  <2> QED BY <1>1, <1>3, <2>1, <2>2, FetchedMeter DEF Counts
<1>4. CASE ~Fetched
  <2>1. nodeBytes' \in Nat
    BY <1>1, <1>2, <1>4, NodeBytesMove
  <2>2. today' \in Nat /\ meter'.date \in Int /\ meter'.date =< today' /\ meter'.day \in Nat
    BY <1>1, <1>4, MeterMoves, RollFacts
  <2> QED BY <2>1, <2>2 DEF Counts
<1> QED BY <1>3, <1>4

LEMMA CountedStep ==
    ASSUME Counted, Counts, Stores, Control, Stores', [Next]_vars
    PROVE  Counted'
<1> DEFINE R == DOMAIN blobs \ uploaded
<1>1. PICK S : S = DOMAIN blobs' \ uploaded'
  OBVIOUS
<1>2. IsFiniteSet(R) /\ \A x \in R \cup S : SizeOf[x] \in Nat
  BY <1>1, ReplicationAssumption, FS_Subset DEF Stores
<1>3. Used(R) \in Nat /\ Used(R) =< nodeBytes /\ nodeBytes \in Nat
  <2>1. Used(R) \in Nat
    BY <1>2, UsedLess
  <2> QED BY <2>1 DEF Counted, Counts
<1>4. CASE Fetched
  <2>1. PICK h \in Shas : h = Head(todo)
    BY <1>4, HeadType DEF Fetched
  <2>2. /\ DOMAIN blobs' = DOMAIN blobs \cup {h} /\ uploaded' = uploaded
        /\ nodeBytes' = nodeBytes + SizeOf[h] /\ SizeOf[h] \in Nat
    BY <1>4, <2>1, FetchedBlobs, FetchedMeter DEF Fetched
  <2>3. S = R \/ (h \notin R /\ S = R \cup {h})
    BY <1>1, <2>2
  <2> HIDE DEF R
  <2>4. S = R \/ Used(S) = SizeOf[h] + Used(R)
    BY <1>2, <2>2, <2>3, UsedAdd
  <2>5. PICK u, k : u = Used(R) /\ k = SizeOf[h]
    OBVIOUS
  <2>6. Used(S) = u \/ Used(S) = k + u
    BY <2>4, <2>5
  <2>7. u \in Nat /\ u =< nodeBytes /\ nodeBytes \in Nat /\ k \in Nat /\ nodeBytes' = nodeBytes + k
    BY <1>3, <2>2, <2>5
  <2>8. Used(S) =< nodeBytes'
    BY <2>6, <2>7
  <2> QED BY <1>1, <2>8 DEF Counted
<1>5. CASE nodeBytes' = Used(S)
  <2>1. IsFiniteSet(S)
    BY <1>1, FS_Subset DEF Stores
  <2>2. Used(S) \in Nat
    BY <1>2, <2>1, UsedLess
  <2> QED BY <1>1, <1>5, <2>2 DEF Counted
<1>6. CASE ~Fetched /\ nodeBytes' # Used(S)
  <2>1. S \in SUBSET R
    BY <1>1, <1>6, UploadedMove DEF Stores
  <2>2. nodeBytes' = nodeBytes
    BY <1>1, <1>6, NodeBytesMove
  <2> HIDE DEF R
  <2>3. Used(S) \in Nat /\ Used(S) =< Used(R)
    BY <1>2, <2>1, UsedLess
  <2>4. Used(S) =< nodeBytes'
    BY <1>3, <2>2, <2>3
  <2> QED BY <1>1, <2>4 DEF Counted
<1> QED BY <1>4, <1>5, <1>6

-----------------------------------------------------------------------------
(* What was allowed when it was asked for still fits when it comes. *)
LEMMA FetchMoves ==
    ASSUME Control, [Next]_vars, pc' = "fetch"
    PROVE  \/ /\ pc = "fetch" /\ UNCHANGED <<cur, todo, nodeBytes, meter, told>>
              /\ today' = today \/ today' = today + 1
           \/ \E size \in Heads(Head(todo)) : SizeTold(size) /\ ~Skip
<1>1. CASE \E e \in Events : PullManifest(e)
  BY <1>1, PullManifestControl
<1>2. CASE \E S \in SUBSET {e \in Events : e \in Stray \/ e.kind = KIND_LONGFORM} : PullPosts(S)
  BY <1>2, PullPostsControl
<1>3. CASE SyncAll \/ Restart
  BY <1>3 DEF SyncAll, Restart
<1>4. CASE DiscoveryRaises
  BY <1>4, SiteRaisesControl DEF DiscoveryRaises
<1>5. CASE NoManifest
  BY <1>5, SiteEndsControl DEF NoManifest, Results
<1>6. CASE Fetched
  BY <1>6, FetchedControl
<1>7. CASE Missing
  BY <1>7, SkipControl DEF Missing
<1>8. CASE \E size \in Heads(Head(todo)) : SizeTold(size)
  <2>1. PICK size \in Heads(Head(todo)) : SizeTold(size)
    BY <1>8
  <2>2. ~Skip
    BY <2>1, SkipControl DEF SizeTold
  <2> QED BY <2>1, <2>2
<1>9. CASE Services \/ Tick \/ UNCHANGED vars
  <2>1. UNCHANGED <<pc, cur, todo, nodeBytes, meter, told>>
    BY <1>9 DEF Services, ReceiveEvent, Upload, DeleteBlob, Tick, vars
  <2>2. today' = today \/ today' = today + 1
    BY <1>9 DEF Services, ReceiveEvent, Upload, DeleteBlob, Tick, vars
  <2> QED BY <2>1, <2>2
<1> QED BY <1>1, <1>2, <1>3, <1>4, <1>5, <1>6, <1>7, <1>8, <1>9 DEF Next, Controller

LEMMA RoomStep ==
    ASSUME Room, Counts, Control, [Next]_vars
    PROVE  Room'
<1> SUFFICES ASSUME pc' = "fetch", told' # 0 PROVE RoomOnNode' /\ RoomToday'
  BY DEF Room
<1>0. DayCap \in Nat
  BY BudgetAssumption
<1>1. CASE /\ pc = "fetch" /\ UNCHANGED <<cur, todo, nodeBytes, meter, told>>
           /\ today' = today \/ today' = today + 1
  <2>1. RoomOnNode /\ RoomToday
    BY <1>1 DEF Room
  <2>2. RoomOnNode'
    BY <1>1, <2>1 DEF RoomOnNode, site
  <2>3. CASE today' = today
    <3>1. roll(meter, today)' = roll(meter, today) /\ told' = told
      BY <1>1, <2>3 DEF roll
    <3> QED BY <2>1, <2>2, <3>1 DEF RoomToday
  <2>4. CASE today' = today + 1
    <3>1. meter.date # today' /\ meter' = meter /\ told' = told
      BY <1>1, <2>4 DEF Counts
    <3>2. roll(meter, today)'.day = 0
      BY <3>1 DEF roll
    <3>3. told \in Nat /\ roll(meter, today).day \in Nat
      BY <1>1, RollFacts DEF Control
    <3>4. DayCap # 0 => told =< DayCap
      BY <1>0, <2>1, <3>3 DEF RoomToday
    <3> QED BY <2>2, <3>1, <3>2, <3>3, <3>4 DEF RoomToday
  <2> QED BY <1>1, <2>2, <2>3, <2>4
<1>2. CASE \E size \in Heads(Head(todo)) : SizeTold(size) /\ ~Skip
  <2>1. PICK size \in Heads(Head(todo)) : SizeTold(size) /\ ~Skip
    BY <1>2
  <2>2. pc = "size" /\ told' = size
    BY <2>1 DEF SizeTold
  <2>3. size \in Nat \ {0}
    BY <2>1, <2>2, HeadsType
  <2>4. /\ ~OverCaps(size) /\ Allows(roll(meter, today), size)
        /\ meter' = roll(meter, today)
        /\ UNCHANGED <<cur, todo, nodeBytes, today>>
    BY <2>1, <2>3 DEF SizeTold, WithinBudget
  <2>5. RoomOnNode'
    <3>1. ~site.pin /\ StorageTotal # 0 => ~(nodeBytes + size > StorageTotal)
      BY <2>4 DEF OverCaps
    <3>2. ~site.pin /\ StorageTotal # 0 => nodeBytes + size =< StorageTotal
      BY <2>3, <3>1, ReplicationAssumption DEF Counts
    <3> QED BY <2>2, <2>4, <3>2 DEF RoomOnNode, site
  <2>6. RoomToday'
    <3>1. DayCap # 0 => roll(meter, today).day + size =< DayCap
      BY <2>4 DEF Allows
    <3>2. roll(meter, today)'.day = roll(meter, today).day
      BY <2>4 DEF roll
    <3> QED BY <2>2, <2>4, <3>1, <3>2 DEF RoomToday
  <2> QED BY <2>5, <2>6
<1> QED BY <1>1, <1>2, FetchMoves

-----------------------------------------------------------------------------
LEMMA InitInvariant == Init => IInv
<1> SUFFICES ASSUME Init PROVE IInv
  OBVIOUS
<1>1. Stores
  BY FS_EmptySet DEF Init, Stores, Empty, Tables
<1>2. Control
  <2>1. /\ 1 \in 1..Len(Sites) /\ 0 \in 0..Len(Sites)
        /\ pc = "starting" /\ first = TRUE /\ cur = 1 /\ todo = <<>> /\ siteBytes = 0
        /\ told = 0
        /\ complete = TRUE /\ report.site = 0 /\ report.result = "none"
    BY ReplicationAssumption DEF Init, NoReport
  <2>2. todo \in Seq(Shas)
    BY <2>1
  <2> QED BY <2>1, <2>2 DEF Control, Results
<1>3. Counts
  <2>1. nodeBytes = 0 /\ today = 0 /\ meter.date = 0 /\ meter.day = 0
    BY DEF Init, roll, NoCounts
  <2> QED BY <2>1 DEF Counts
<1>4. Counted
  <2>1. DOMAIN blobs \ uploaded = {} /\ nodeBytes = 0
    BY DEF Init
  <2> QED BY <2>1, UsedEmpty DEF Counted
<1>5. Room
  BY DEF Init, Room
<1> QED BY <1>1, <1>2, <1>3, <1>4, <1>5 DEF IInv

LEMMA NextInvariant == IInv /\ [Next]_vars => IInv'
<1> SUFFICES ASSUME IInv, [Next]_vars PROVE IInv'
  OBVIOUS
<1>1. Stores /\ Control /\ Counts /\ Counted /\ Room
  BY DEF IInv
<1>2. Stores' /\ Control'
  BY <1>1, StoresStep, ControlStep
<1>3. Counts' /\ Counted'
  BY <1>1, <1>2, CountsStep, CountedStep
<1>4. Room'
  BY <1>1, RoomStep
<1> QED BY <1>2, <1>3, <1>4 DEF IInv

LEMMA Invariant == Spec => []IInv
BY InitInvariant, NextInvariant, PTL DEF Spec

(* The stores and the controller's state stay what they are read as:       *)
(* sync_site is always at a site of the policy, and where it awaits a size *)
(* or a download there is a blob it awaits it for.                         *)
THEOREM TypeCorrect == Spec => []TypeOK
<1>1. IInv => TypeOK
  <2> SUFFICES ASSUME IInv PROVE TypeOK
    OBVIOUS
  <2>1. Stores /\ Control /\ Counts
    BY DEF IInv
  <2>2. db.events \subseteq Events \cup Arrivals /\ DOMAIN blobs \subseteq Shas
    BY <2>1 DEF Stores, Tables, Senders
  <2>3. cur \in DOMAIN Sites
    BY <2>1, ReplicationAssumption DEF Control
  <2>4. \A i \in DOMAIN todo : todo[i] \in Shas
    BY <2>1 DEF Control
  <2>5. nodeBytes \in Nat
    BY <2>1 DEF Counts
  <2>6. uploaded \subseteq DOMAIN blobs
    BY <2>1 DEF Stores
  <2> QED BY <2>1, <2>2, <2>3, <2>4, <2>5, <2>6 DEF TypeOK, Control
<1> QED BY <1>1, Invariant, PTL

LEMMA CapsStep ==
    ASSUME IInv, [Next]_vars, NEW sha \in Shas, Mirrors(sha), told # 0
    PROVE  /\ ~site.pin /\ StorageTotal # 0 =>
                 Used(DOMAIN blobs' \ uploaded) =< StorageTotal + Unannounced
           /\ DayCap # 0 => meter'.day =< DayCap + Unannounced
<1>1. Counted' /\ Stores' /\ Stores /\ Room /\ Counts' /\ Control /\ Counts
  BY NextInvariant DEF IInv
<1>2. Fetched
  BY BlobsMove DEF Mirrors, Upload
<1>3. pc = "fetch" /\ RoomOnNode /\ RoomToday
  BY <1>1 DEF Mirrors, Room
<1>4. PICK k : k = SizeOf[Head(todo)]
  OBVIOUS
<1>5. k \in Nat /\ told \in Nat /\ nodeBytes \in Nat /\ StorageTotal \in Nat /\ DayCap \in Nat
  BY <1>1, <1>3, <1>4, HeadType, ReplicationAssumption, BudgetAssumption DEF Control, Counts
<1>6. Unannounced \in Nat /\ k =< told + Unannounced
  <2>1. Unannounced = IF told >= k THEN 0 ELSE k - told
    BY <1>4 DEF Unannounced
  <2> QED BY <1>5, <2>1
<1>7. DayCap # 0 => meter'.day =< DayCap + Unannounced
  <2>1. DayCap # 0 => meter'.day = roll(meter, today).day + k
    BY <1>1, <1>2, <1>4, FetchedMeter
  <2>2. DayCap # 0 => roll(meter, today).day + told =< DayCap
    BY <1>3 DEF RoomToday
  <2>3. roll(meter, today).day \in Nat
    BY <1>1, RollFacts
  <2> QED BY <1>5, <1>6, <2>1, <2>2, <2>3
<1>8. ASSUME ~site.pin, StorageTotal # 0
      PROVE  Used(DOMAIN blobs' \ uploaded) =< StorageTotal + Unannounced
  <2>1. nodeBytes + told =< StorageTotal /\ nodeBytes' = nodeBytes + k
    BY <1>1, <1>2, <1>3, <1>4, <1>8, FetchedMeter DEF RoomOnNode
  <2>2. uploaded' = uploaded
    BY <1>2 DEF Fetched
  <2>3. PICK S : S = DOMAIN blobs' \ uploaded'
    OBVIOUS
  <2>4. Used(S) =< nodeBytes'
    BY <1>1, <2>3 DEF Counted
  <2>5. Used(S) \in Nat
    <3>1. IsFiniteSet(S) /\ \A x \in S : SizeOf[x] \in Nat
      BY <1>1, <2>3, ReplicationAssumption, FS_Subset DEF Stores
    <3> QED BY <3>1, UsedLess
  <2>6. Used(S) =< StorageTotal + Unannounced
    BY <1>5, <1>6, <2>1, <2>4, <2>5
  <2> QED BY <2>2, <2>3, <2>6
<1> QED BY <1>7, <1>8

(* replication.py:18, bandwidth.py:10: the ceiling of the node and the     *)
(* budget of the day hold across the awaits of sync_site, whatever servers *)
(* tell and whatever is uploaded, deleted or evicted meanwhile, but for    *)
(* the bytes of a blob that its HEAD did not tell of and for the uploads   *)
(* that sync_all has not counted yet.                                      *)
THEOREM CapsHeld == Spec => CapsHold
<1> DEFINE Caps ==
        \A sha \in Shas : Mirrors(sha) /\ told # 0 =>
          /\ ~site.pin /\ StorageTotal # 0 =>
                Used(DOMAIN blobs' \ uploaded) =< StorageTotal + Unannounced
          /\ DayCap # 0 => meter'.day =< DayCap + Unannounced
<1>1. IInv /\ [Next]_vars => [Caps]_vars
  BY CapsStep
<1> QED BY <1>1, Invariant, PTL DEF Spec, CapsHold
=============================================================================
