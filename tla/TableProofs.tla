----------------------------- MODULE TableProofs -----------------------------
(***************************************************************************)
(* What the proofs about Discovery, Gateway and Publishing share: lemmas   *)
(* about folds and lists, and about what a relay's tables keep when an     *)
(* event is written, and answer to a query.                                *)
(***************************************************************************)
EXTENDS EventTable, Nsite, FiniteSetTheorems, SequenceTheorems,
        WellFoundedInduction, TLAPS

(* Induction, and the folds. *)
(* A set of naturals has a least member. *)
LEMMA Least ==
    ASSUME NEW T, T \subseteq Nat, T # {}
    PROVE  \E n \in T : \A m \in T : n =< m
<1>1. PICK n \in T : \A m \in T : <<m, n>> \notin OpToRel(<, Nat)
  BY NatLessThanWellFounded, WFMin
<1>2. \A m \in Nat : m < n => <<m, n>> \in OpToRel(<, Nat)
  BY DEF OpToRel
<1>3. \A m \in T : m \in Nat /\ n \in Nat /\ ~(m < n)
  BY <1>1, <1>2
<1>4. \A m \in T : n =< m
  BY <1>3
<1> QED BY <1>4

LEMMA Induction ==
    ASSUME NEW S, 0 \in S, \A n \in Nat : n \in S => n + 1 \in S
    PROVE  Nat \subseteq S
<1> SUFFICES ASSUME Nat \ S # {} PROVE FALSE
  OBVIOUS
<1>1. PICK n \in Nat \ S : \A m \in Nat \ S : n =< m
  BY Least
<1>2. n - 1 \in Nat /\ (n - 1) + 1 = n
  BY <1>1
<1> QED BY <1>1, <1>2

(* The last of a set of positions. *)
LEMMA MaxIn ==
    ASSUME NEW n \in Nat, NEW T, T \subseteq 1..n, T # {}
    PROVE  Max(T) \in T /\ \A k \in T : k =< Max(T)
<1> DEFINE Above == {m \in Nat : \A k \in T : k =< m}
<1>1. n \in Above
  OBVIOUS
<1>2. PICK m \in Above : \A k \in Above : m =< k
  <2>1. Above \subseteq Nat /\ Above # {}
    BY <1>1
  <2> HIDE DEF Above
  <2> QED BY <2>1, Least
<1>3. m \in T
  <2> SUFFICES ASSUME m \notin T PROVE FALSE
    OBVIOUS
  <2>1. m \in Nat /\ \A k \in T : k \in Nat /\ k >= 1 /\ k =< m /\ k # m
    BY <1>2
  <2>2. \A k \in T : k =< m - 1 /\ m - 1 \in Nat
    BY <2>1
  <2>3. m - 1 \in Above
    BY <2>2
  <2>4. m =< m - 1
    BY <1>2, <2>3
  <2> QED BY <2>1, <2>4
<1>4. \E x \in T : \A y \in T : x >= y
  BY <1>2, <1>3
<1> QED BY <1>4 DEF Max

(* A list's fold is the value, on all positions, of a recursive function   *)
(* of sets of positions, which exists; what it is on the first i positions *)
(* follows from what it is on the first i - 1.                             *)
Steps(step, n, X) == \A v \in X, i \in 1..n : step[<<v, i>>] \in X

Folds(g, base, step, n) ==
    \A s \in SUBSET (1..n) :
        g[s] = IF s = {} THEN base ELSE step[<<g[s \ {Max(s)}], Max(s)>>]

Follows(g, base, step, n, X) ==
    /\ g[{}] = base
    /\ \A s \in SUBSET (1..n) : s # {} /\ g[s \ {Max(s)}] \in X =>
          g[s] = step[<<g[s \ {Max(s)}], Max(s)>>]

Trace(h, base, step, n, X) ==
    /\ h \in [0..n -> X]
    /\ h[0] = base
    /\ \A i \in 1..n : h[i] = step[<<h[i - 1], i>>]

(* Of the positions up to i, i is the last. *)
LEMMA Upto ==
    ASSUME NEW n \in Nat, NEW i \in 1..n
    PROVE  Max(1..i) = i /\ (1..i) \ {i} = 1..(i - 1)
<1>1. i \in Nat /\ i \in 1..i
  OBVIOUS
<1>2. Max(1..i) \in 1..i /\ \A k \in 1..i : k =< Max(1..i)
  <2>1. 1..i \subseteq 1..i /\ 1..i # {}
    BY <1>1
  <2> QED BY <1>1, <2>1, MaxIn
<1>3. PICK m : m = Max(1..i)
  OBVIOUS
<1>4. m \in 1..i /\ i =< m
  BY <1>1, <1>2, <1>3
<1>5. m = i
  BY <1>4
<1>6. (1..i) \ {i} = 1..(i - 1)
  OBVIOUS
<1> QED BY <1>3, <1>5, <1>6

LEMMA FoldExists ==
    ASSUME NEW n \in Nat, NEW X, NEW base \in X, NEW step, Steps(step, n, X)
    PROVE  \E g \in [SUBSET (1..n) -> X] : Folds(g, base, step, n)
<1> DEFINE Value(g, s) == IF s = {} THEN base ELSE step[<<g[s \ {Max(s)}], Max(s)>>]
           Within(g, m) == \A s \in SUBSET (1..n) : s \subseteq 1..m => g[s] = Value(g, s)
           Defined(m) == \E g \in [SUBSET (1..n) -> X] : Within(g, m)
           S == {m \in Nat : m > n \/ Defined(m)}
<1>1. 0 \in S
  <2>1. [s \in SUBSET (1..n) |-> base] \in [SUBSET (1..n) -> X]
    OBVIOUS
  <2>2. \A s \in SUBSET (1..n) : s \subseteq 1..0 => s = {}
    OBVIOUS
  <2>3. Within([s \in SUBSET (1..n) |-> base], 0)
    BY <2>2
  <2> QED BY <2>1, <2>3
<1>2. ASSUME NEW m \in Nat, Defined(m) PROVE Defined(m + 1)
  <2>1. PICK g \in [SUBSET (1..n) -> X] : Within(g, m)
    BY <1>2
  <2> DEFINE h == [s \in SUBSET (1..n) |-> Value(g, s)]
  <2>2. ASSUME NEW s \in SUBSET (1..n), s # {} PROVE Max(s) \in s /\ \A k \in s : k =< Max(s)
    BY <2>2, MaxIn
  <2>3. h \in [SUBSET (1..n) -> X]
    <3>1. ASSUME NEW s \in SUBSET (1..n), s # {} PROVE step[<<g[s \ {Max(s)}], Max(s)>>] \in X
      <4>1. g[s \ {Max(s)}] \in X /\ Max(s) \in 1..n
        BY <2>1, <2>2, <3>1
      <4> QED BY <4>1 DEF Steps
    <3> QED BY <3>1
  <2>4. ASSUME NEW s \in SUBSET (1..n), s \subseteq 1..(m + 1) PROVE h[s] = Value(h, s)
    <3>1. CASE s = {}
      BY <3>1
    <3>2. CASE s # {}
      <4>1. s \ {Max(s)} \in SUBSET (1..n) /\ s \ {Max(s)} \subseteq 1..m
        <5>1. PICK k : k = Max(s)
          OBVIOUS
        <5>2. k \in s /\ \A j \in s : j =< k
          BY <2>2, <3>2, <5>1
        <5>3. s \ {k} \subseteq 1..m
          BY <2>4, <5>2
        <5> QED BY <5>1, <5>3
      <4>2. h[s \ {Max(s)}] = g[s \ {Max(s)}]
        BY <2>1, <4>1
      <4> QED BY <3>2, <4>2
    <3> QED BY <3>1, <3>2
  <2> HIDE DEF h, Value
  <2> QED BY <2>3, <2>4
<1> HIDE DEF Defined
<1>3. \A m \in Nat : m \in S => m + 1 \in S
  BY <1>2
<1> HIDE DEF S
<1>4. n \in S
  BY <1>1, <1>3, Induction
<1>5. Defined(n)
  BY <1>4 DEF S
<1> QED BY <1>5 DEF Defined, Folds

LEMMA FoldTrace ==
    ASSUME NEW n \in Nat, NEW X, NEW base \in X, NEW step, Steps(step, n, X),
           NEW g, Follows(g, base, step, n, X)
    PROVE  \E h : Trace(h, base, step, n, X) /\ h[n] = g[1..n]
<1> DEFINE h == [i \in 0..n |-> g[1..i]]
           S == {i \in Nat : i =< n => g[1..i] \in X}
<1>1. ASSUME NEW i \in 1..n, g[1..(i - 1)] \in X
      PROVE  g[1..i] = step[<<g[1..(i - 1)], i>>] /\ g[1..i] \in X
  <2>1. Max(1..i) = i /\ (1..i) \ {i} = 1..(i - 1)
    BY Upto
  <2>2. 1..i # {} /\ 1..i \in SUBSET (1..n)
    OBVIOUS
  <2>3. g[1..i] = step[<<g[1..(i - 1)], i>>]
    BY <1>1, <2>1, <2>2 DEF Follows
  <2> QED BY <1>1, <2>3 DEF Steps
<1>2. 1..0 = {}
  OBVIOUS
<1>3. 0 \in S
  BY <1>2 DEF Follows
<1>4. ASSUME NEW m \in Nat, m \in S PROVE m + 1 \in S
  <2> SUFFICES ASSUME m + 1 =< n PROVE g[1..(m + 1)] \in X
    OBVIOUS
  <2>1. m + 1 \in 1..n /\ (m + 1) - 1 = m /\ g[1..m] \in X
    BY <1>4
  <2>2. g[1..((m + 1) - 1)] \in X
    BY <2>1
  <2> QED BY <1>1, <2>1, <2>2
<1> HIDE DEF S
<1>5. \A i \in 0..n : g[1..i] \in X
  <2>1. Nat \subseteq S
    BY <1>3, <1>4, Induction
  <2> QED BY <2>1 DEF S
<1>6. h \in [0..n -> X] /\ h[0] = base /\ h[n] = g[1..n]
  BY <1>2, <1>5 DEF Follows
<1>7. ASSUME NEW i \in 1..n PROVE h[i] = step[<<h[i - 1], i>>]
  <2>1. i - 1 \in 0..n /\ i \in 0..n
    OBVIOUS
  <2> QED BY <1>1, <1>5, <2>1
<1> HIDE DEF h
<1> QED BY <1>6, <1>7 DEF Trace

(* What holds before the first step and is kept by each holds at the end.  *)
LEMMA TraceInduction ==
    ASSUME NEW n \in Nat, NEW P, 0 \in P, \A i \in 1..n : i - 1 \in P => i \in P
    PROVE  0..n \subseteq P
<1> DEFINE S == {i \in Nat : i =< n => i \in P}
<1>1. 0 \in S
  OBVIOUS
<1>2. ASSUME NEW i \in Nat, i \in S PROVE i + 1 \in S
  <2>1. i + 1 =< n => i + 1 \in 1..n /\ (i + 1) - 1 = i
    OBVIOUS
  <2> QED BY <1>2, <2>1
<1> HIDE DEF S
<1>3. Nat \subseteq S
  BY <1>1, <1>2, Induction
<1> QED BY <1>3 DEF S

-----------------------------------------------------------------------------
(* Lists. *)
IsList(s) == s \in Seq(ToSet(s))

LEMMA ListOf ==
    ASSUME NEW S, NEW s \in Seq(S)
    PROVE  IsList(s) /\ ToSet(s) \subseteq S
<1>1. Len(s) \in Nat /\ DOMAIN s = 1..Len(s) /\ s = [i \in 1..Len(s) |-> s[i]] /\ \A i \in 1..Len(s) : s[i] \in S
  OBVIOUS
<1>2. \A i \in 1..Len(s) : s[i] \in ToSet(s)
  BY <1>1 DEF ToSet
<1>3. s \in [1..Len(s) -> ToSet(s)]
  BY <1>1, <1>2
<1>4. s \in Seq(ToSet(s))
  BY <1>1, <1>3
<1> QED BY <1>1, <1>4 DEF IsList, ToSet

LEMMA ListShape ==
    ASSUME NEW s, IsList(s)
    PROVE  Len(s) \in Nat /\ DOMAIN s = 1..Len(s) /\ \A i \in 1..Len(s) : s[i] \in ToSet(s)
BY DEF IsList, ToSet

LEMMA Joined ==
    ASSUME NEW S, NEW s \in Seq(S), NEW t \in Seq(S)
    PROVE  s \o t \in Seq(S) /\ ToSet(s \o t) = ToSet(s) \cup ToSet(t)
<1>1. /\ s \o t \in Seq(S) /\ Len(s \o t) = Len(s) + Len(t)
      /\ \A i \in 1..Len(s) : (s \o t)[i] = s[i]
      /\ \A i \in 1..Len(t) : (s \o t)[Len(s) + i] = t[i]
  OBVIOUS
<1>2. Len(s) \in Nat /\ Len(t) \in Nat /\ DOMAIN s = 1..Len(s) /\ DOMAIN t = 1..Len(t)
      /\ DOMAIN (s \o t) = 1..Len(s \o t)
  BY <1>1
<1>3. ASSUME NEW i \in 1..(Len(s) + Len(t)) PROVE (s \o t)[i] \in ToSet(s) \cup ToSet(t)
  <2>1. CASE i \in 1..Len(s)
    BY <1>1, <1>2, <2>1 DEF ToSet
  <2>2. CASE i \notin 1..Len(s)
    <3>1. i - Len(s) \in 1..Len(t) /\ Len(s) + (i - Len(s)) = i
      BY <1>2, <2>2
    <3> QED BY <1>1, <1>2, <3>1 DEF ToSet
  <2> QED BY <2>1, <2>2
<1>4. ToSet(s) \cup ToSet(t) \subseteq ToSet(s \o t)
  <2>1. \A i \in 1..Len(s) : i \in 1..(Len(s) + Len(t))
    BY <1>2
  <2>2. \A i \in 1..Len(t) : Len(s) + i \in 1..(Len(s) + Len(t))
    BY <1>2
  <2> QED BY <1>1, <1>2, <2>1, <2>2 DEF ToSet
<1> QED BY <1>1, <1>2, <1>3, <1>4 DEF ToSet

LEMMA Appended ==
    ASSUME NEW S, NEW s \in Seq(S), NEW x \in S
    PROVE  ToSet(Append(s, x)) = ToSet(s) \cup {x}
<1>1. /\ Len(s) \in Nat /\ DOMAIN s = 1..Len(s)
      /\ DOMAIN Append(s, x) = 1..(Len(s) + 1)
      /\ \A i \in 1..Len(s) : Append(s, x)[i] = s[i]
      /\ Append(s, x)[Len(s) + 1] = x
  OBVIOUS
<1>2. \A i \in 1..(Len(s) + 1) : i \in 1..Len(s) \/ i = Len(s) + 1
  BY <1>1
<1>3. (\A i \in 1..Len(s) : i \in 1..(Len(s) + 1)) /\ Len(s) + 1 \in 1..(Len(s) + 1)
  BY <1>1
<1> QED BY <1>1, <1>2, <1>3 DEF ToSet

(* The members at some positions, in order: the list has those and no      *)
(* others.                                                                 *)
Pick(list, at, v, i) == IF i \in at THEN Append(v, list[i]) ELSE v

LEMMA SelectedFold ==
    ASSUME NEW list, NEW at
    PROVE  Selected(list, at) =
              (CHOOSE g : g = [s \in SUBSET DOMAIN [i \in DOMAIN list |-> i] |->
                  IF s = {} THEN <<>>
                  ELSE Pick(list, at, g[s \ {Max(s)}], [i \in DOMAIN list |-> i][Max(s)])])[
              DOMAIN [i \in DOMAIN list |-> i]]
BY DEF Selected, FoldLeftDomain, FoldLeft, MapThenFoldSet, Pick

LEMMA SelectedTrace ==
    ASSUME NEW list, IsList(list), NEW at
    PROVE  \E h \in [0..Len(list) -> Seq(ToSet(list))] :
              /\ h[0] = <<>> /\ Selected(list, at) = h[Len(list)]
              /\ \A i \in 1..Len(list) : h[i] = Pick(list, at, h[i - 1], i)
<1> DEFINE n == Len(list)
           X == Seq(ToSet(list))
           D == DOMAIN [i \in DOMAIN list |-> i]
           Of(g, s) == Pick(list, at, g[s \ {Max(s)}], [i \in DOMAIN list |-> i][Max(s)])
           Is(g) == g = [s \in SUBSET D |-> IF s = {} THEN <<>> ELSE Of(g, s)]
           step == [p \in X \X (1..n) |-> Pick(list, at, p[1], p[2])]
<1>1. n \in Nat /\ D = 1..n /\ \A i \in 1..n : list[i] \in ToSet(list)
  BY ListShape
<1>2. \A v \in X, i \in 1..n : step[<<v, i>>] = Pick(list, at, v, i)
  <2> HIDE DEF n, X
  <2> QED OBVIOUS
<1>21. ASSUME NEW v \in X, NEW i \in 1..n PROVE step[<<v, i>>] \in X
  <2>1. Pick(list, at, v, i) \in X
    BY <1>1 DEF Pick
  <2> QED BY <1>2, <2>1
<1>3. Steps(step, n, X) /\ <<>> \in X
  <2>1. <<>> \in X
    OBVIOUS
  <2> HIDE DEF step, n, X
  <2> QED BY <1>21, <2>1 DEF Steps
<1>4. \A s \in SUBSET D : s # {} => Max(s) \in s /\ [i \in DOMAIN list |-> i][Max(s)] = Max(s)
  <2>1. ASSUME NEW s \in SUBSET D, s # {} PROVE Max(s) \in s
    BY <1>1, <2>1, MaxIn
  <2> QED BY <1>1, <2>1
<1>5. \A g : Selected(list, at) = (CHOOSE f : Is(f))[D]
  BY SelectedFold
<1> HIDE DEF step, D, n, X
<1>6. PICK g \in [SUBSET (1..n) -> X] : Folds(g, <<>>, step, n)
  BY <1>1, <1>3, FoldExists
<1>7. \A s \in SUBSET D : s # {} => g[s] = Of(g, s)
  <2>1. ASSUME NEW s \in SUBSET D, s # {} PROVE g[s] = Of(g, s)
    <3>1. Max(s) \in 1..n /\ g[s \ {Max(s)}] \in X /\ g[s] = step[<<g[s \ {Max(s)}], Max(s)>>]
      BY <1>1, <1>4, <1>6, <2>1 DEF Folds
    <3> QED BY <1>2, <1>4, <2>1, <3>1
  <2> QED BY <2>1
<1>8. Is(g)
  BY <1>1, <1>6, <1>7 DEF Folds
<1>9. PICK f : f = CHOOSE x : Is(x)
  OBVIOUS
<1>10. Is(f) /\ Selected(list, at) = f[D]
  BY <1>5, <1>8, <1>9
<1>11. ASSUME NEW s \in SUBSET (1..n), s # {}, f[s \ {Max(s)}] \in X
       PROVE  f[s] = step[<<f[s \ {Max(s)}], Max(s)>>]
  <2>1. Max(s) \in 1..n /\ f[s] = Of(f, s)
    BY <1>1, <1>4, <1>10, <1>11
  <2> QED BY <1>1, <1>2, <1>4, <1>11, <2>1
<1>12. f[{}] = <<>>
  BY <1>10
<1>13. PICK h : Trace(h, <<>>, step, n, X) /\ h[n] = f[1..n]
  <2>1. Follows(f, <<>>, step, n, X)
    BY <1>11, <1>12 DEF Follows
  <2> QED BY <1>1, <1>3, <2>1, FoldTrace
<1>14. \A i \in 1..n : h[i] = Pick(list, at, h[i - 1], i)
  <2>1. ASSUME NEW i \in 1..n PROVE h[i] = Pick(list, at, h[i - 1], i)
    <3>1. i - 1 \in 0..n
      BY <1>1
    <3> QED BY <1>2, <1>13, <3>1 DEF Trace
  <2> QED BY <2>1
<1> QED BY <1>1, <1>10, <1>13, <1>14 DEF Trace, n, X

LEMMA SelectedList ==
    ASSUME NEW list, IsList(list), NEW at
    PROVE  /\ Selected(list, at) \in Seq(ToSet(list))
           /\ ToSet(Selected(list, at)) = {list[i] : i \in at \cap DOMAIN list}
<1> DEFINE n == Len(list)
           X == Seq(ToSet(list))
<1>1. n \in Nat /\ DOMAIN list = 1..n /\ \A i \in 1..n : list[i] \in ToSet(list)
  BY ListShape
<1>2. PICK h \in [0..n -> X] :
         /\ h[0] = <<>> /\ Selected(list, at) = h[n]
         /\ \A i \in 1..n : h[i] = Pick(list, at, h[i - 1], i)
  BY SelectedTrace
<1> HIDE DEF n
<1> DEFINE P == {k \in 0..n : ToSet(h[k]) = {list[i] : i \in at \cap 1..k}}
<1>3. 0 \in P
  <2>1. 0 \in 0..n /\ at \cap 1..0 = {} /\ ToSet(<<>>) = {}
    BY <1>1 DEF ToSet
  <2> QED BY <1>2, <2>1
<1>4. ASSUME NEW k \in 1..n, k - 1 \in P PROVE k \in P
  <2>1. k \in 0..n /\ k - 1 \in 0..n /\ 1..k = (1..(k - 1)) \cup {k}
    BY <1>1
  <2>2. h[k - 1] \in X /\ h[k] = Pick(list, at, h[k - 1], k)
    BY <1>2, <2>1
  <2>3. ToSet(h[k - 1]) = {list[i] : i \in at \cap 1..(k - 1)}
    BY <1>4
  <2>4. CASE k \in at
    <3>1. ToSet(Append(h[k - 1], list[k])) = ToSet(h[k - 1]) \cup {list[k]}
      BY <1>1, <2>2, Appended
    <3>2. h[k] = Append(h[k - 1], list[k])
      BY <2>2, <2>4 DEF Pick
    <3> QED BY <2>1, <2>3, <2>4, <3>1, <3>2
  <2>5. CASE k \notin at
    <3>1. h[k] = h[k - 1] /\ at \cap 1..k = at \cap 1..(k - 1)
      BY <2>1, <2>2, <2>5 DEF Pick
    <3> QED BY <2>1, <2>3, <3>1
  <2> QED BY <2>4, <2>5
<1> HIDE DEF P
<1>5. n \in P
  <2>1. 0..n \subseteq P
    BY <1>1, <1>3, <1>4, TraceInduction
  <2> QED BY <1>1, <2>1
<1>6. h[n] \in X
  BY <1>1, <1>2
<1> QED BY <1>1, <1>2, <1>5, <1>6 DEF P, n

-----------------------------------------------------------------------------
(* The newest event of a list, beside what was the newest before. *)
Later(events, best, i) ==
    IF \A b \in best : events[i].created_at > b.created_at THEN {events[i]} ELSE best

NewestAmong(found, events) ==
    FoldLeft(LAMBDA best, e :
                IF \A b \in best : e.created_at > b.created_at THEN {e} ELSE best,
             found, events)

LEMMA NewestFold ==
    ASSUME NEW found, NEW events
    PROVE  NewestAmong(found, events) =
              (CHOOSE g : g = [s \in SUBSET DOMAIN events |->
                  IF s = {} THEN found
                  ELSE Later(events, g[s \ {Max(s)}], Max(s))])[DOMAIN events]
BY DEF NewestAmong, FoldLeft, MapThenFoldSet, Later

LEMMA NewestTrace ==
    ASSUME NEW events, IsList(events), NEW found
    PROVE  \E h \in [0..Len(events) -> SUBSET (found \cup ToSet(events))] :
              /\ h[0] = found /\ NewestAmong(found, events) = h[Len(events)]
              /\ \A i \in 1..Len(events) : h[i] = Later(events, h[i - 1], i)
<1> DEFINE n == Len(events)
           X == SUBSET (found \cup ToSet(events))
           Of(g, s) == Later(events, g[s \ {Max(s)}], Max(s))
           Is(g) == g = [s \in SUBSET DOMAIN events |-> IF s = {} THEN found ELSE Of(g, s)]
           step == [p \in X \X (1..n) |-> Later(events, p[1], p[2])]
<1>1. n \in Nat /\ DOMAIN events = 1..n /\ \A i \in 1..n : events[i] \in ToSet(events)
  BY ListShape
<1>2. \A v \in X, i \in 1..n : step[<<v, i>>] = Later(events, v, i)
  <2> HIDE DEF n, X
  <2> QED OBVIOUS
<1>3. ASSUME NEW v \in X, NEW i \in 1..n PROVE step[<<v, i>>] \in X
  <2>1. Later(events, v, i) \in X
    BY <1>1 DEF Later
  <2> QED BY <1>2, <2>1
<1>4. Steps(step, n, X) /\ found \in X
  <2>1. found \in X
    OBVIOUS
  <2> HIDE DEF step, n, X
  <2> QED BY <1>3, <2>1 DEF Steps
<1>5. \A s \in SUBSET (1..n) : s # {} => Max(s) \in s
  <2>1. ASSUME NEW s \in SUBSET (1..n), s # {} PROVE Max(s) \in s
    BY <1>1, <2>1, MaxIn
  <2> QED BY <2>1
<1>6. NewestAmong(found, events) = (CHOOSE f : Is(f))[1..n]
  BY <1>1, NewestFold
<1> HIDE DEF step, n, X
<1>7. PICK g \in [SUBSET (1..n) -> X] : Folds(g, found, step, n)
  BY <1>1, <1>4, FoldExists
<1>8. \A s \in SUBSET (1..n) : s # {} => g[s] = Of(g, s)
  <2>1. ASSUME NEW s \in SUBSET (1..n), s # {} PROVE g[s] = Of(g, s)
    <3>1. Max(s) \in 1..n /\ g[s \ {Max(s)}] \in X /\ g[s] = step[<<g[s \ {Max(s)}], Max(s)>>]
      BY <1>1, <1>5, <1>7, <2>1 DEF Folds
    <3> QED BY <1>2, <2>1, <3>1
  <2> QED BY <2>1
<1>9. Is(g)
  BY <1>1, <1>7, <1>8 DEF Folds
<1>10. PICK f : f = CHOOSE x : Is(x)
  OBVIOUS
<1>11. Is(f) /\ NewestAmong(found, events) = f[1..n]
  BY <1>6, <1>9, <1>10
<1>12. ASSUME NEW s \in SUBSET (1..n), s # {}, f[s \ {Max(s)}] \in X
       PROVE  f[s] = step[<<f[s \ {Max(s)}], Max(s)>>]
  <2>1. Max(s) \in 1..n /\ f[s] = Of(f, s)
    BY <1>1, <1>5, <1>11, <1>12
  <2> QED BY <1>1, <1>2, <1>12, <2>1
<1>13. PICK h : Trace(h, found, step, n, X) /\ h[n] = f[1..n]
  <2>1. f[{}] = found
    BY <1>11
  <2>2. Follows(f, found, step, n, X)
    BY <1>12, <2>1 DEF Follows
  <2> QED BY <1>1, <1>4, <2>2, FoldTrace
<1>14. \A i \in 1..n : h[i] = Later(events, h[i - 1], i)
  <2>1. ASSUME NEW i \in 1..n PROVE h[i] = Later(events, h[i - 1], i)
    <3>1. i - 1 \in 0..n
      BY <1>1
    <3> QED BY <1>2, <1>13, <3>1 DEF Trace
  <2> QED BY <2>1
<1> QED BY <1>1, <1>11, <1>13, <1>14 DEF Trace, n, X

AtMostOne(S) == \A x, y \in S : x = y

LEMMA OneIsOne ==
    ASSUME NEW S, AtMostOne(S)
    PROVE  IsFiniteSet(S) /\ Cardinality(S) =< 1
<1>1. CASE S = {}
  BY <1>1, FS_EmptySet
<1>2. CASE S # {}
  <2>1. PICK x : S = {x}
    BY <1>2 DEF AtMostOne
  <2>2. IsFiniteSet({x}) /\ Cardinality({x}) = 1
    BY FS_Singleton
  <2> QED BY <2>1, <2>2
<1> QED BY <1>1, <1>2

LEMMA NewestOne ==
    ASSUME NEW events, IsList(events), NEW found, AtMostOne(found),
           \A x \in found \cup ToSet(events) : x.created_at \in Int
    PROVE  LET newer == NewestAmong(found, events)
           IN  /\ newer \subseteq found \cup ToSet(events) /\ AtMostOne(newer)
               /\ \A x \in found \cup ToSet(events) : \E y \in newer : y.created_at >= x.created_at
<1> DEFINE n == Len(events)
           X == SUBSET (found \cup ToSet(events))
           Upon(k) == found \cup {events[i] : i \in 1..k}
           AsNew(best, x) == \E y \in best : y.created_at >= x.created_at
           Right(best, k) == AtMostOne(best) /\ \A x \in Upon(k) : AsNew(best, x)
<1>1. n \in Nat /\ DOMAIN events = 1..n /\ \A i \in 1..n : events[i] \in ToSet(events)
  BY ListShape
<1>2. PICK h \in [0..n -> X] :
         /\ h[0] = found /\ NewestAmong(found, events) = h[n]
         /\ \A i \in 1..n : h[i] = Later(events, h[i - 1], i)
  BY NewestTrace
<1> HIDE DEF n
<1> DEFINE P == {k \in 0..n : Right(h[k], k)}
<1>3. 0 \in P
  <2>1. 0 \in 0..n /\ Upon(0) = found
    BY <1>1
  <2>2. \A x \in found : AsNew(found, x)
    OBVIOUS
  <2> QED BY <1>2, <2>1, <2>2
<1>4. ASSUME NEW k \in 1..n, k - 1 \in P PROVE k \in P
  <2>1. k \in 0..n /\ k - 1 \in 0..n
    BY <1>1
  <2>2. Upon(k) = Upon(k - 1) \cup {events[k]}
    BY <2>1
  <2>3. PICK best \in X : best = h[k - 1]
    BY <1>2, <2>1
  <2>4. AtMostOne(best) /\ \A x \in Upon(k - 1) : AsNew(best, x)
    BY <1>4, <2>3
  <2>5. PICK e : e = events[k] /\ e \in ToSet(events)
    BY <1>1
  <2>6. h[k] = IF \A b \in best : e.created_at > b.created_at THEN {e} ELSE best
    BY <1>2, <2>3, <2>5 DEF Later
  <2>7. e.created_at \in Int /\ \A b \in best : b.created_at \in Int
    BY <2>5
  <2>8. \A x \in Upon(k - 1) : x.created_at \in Int
    <3>1. \A i \in 1..(k - 1) : i \in 1..n
      BY <1>1
    <3> QED BY <1>1, <3>1
  <2> HIDE DEF X, Upon
  <2>9. CASE \A b \in best : e.created_at > b.created_at
    <3>1. h[k] = {e} /\ AtMostOne({e})
      BY <2>6, <2>9 DEF AtMostOne
    <3>2. ASSUME NEW x \in Upon(k - 1) PROVE e.created_at >= x.created_at
      BY <2>4, <2>7, <2>8, <2>9
    <3>3. \A x \in Upon(k) : AsNew({e}, x)
      BY <2>2, <2>5, <2>7, <3>2
    <3> QED BY <2>1, <3>1, <3>3
  <2>10. ASSUME NEW b \in best, ~(e.created_at > b.created_at) PROVE k \in P
    <3>1. h[k] = best /\ b.created_at >= e.created_at
      BY <2>6, <2>7, <2>10
    <3>2. \A x \in Upon(k) : AsNew(best, x)
      BY <2>2, <2>4, <2>5, <2>10, <3>1
    <3> QED BY <2>1, <2>4, <3>1, <3>2
  <2> QED BY <2>9, <2>10
<1> HIDE DEF P
<1>5. n \in P
  <2>1. 0..n \subseteq P
    BY <1>1, <1>3, <1>4, TraceInduction
  <2> QED BY <1>1, <2>1
<1>6. Upon(n) = found \cup ToSet(events)
  BY <1>1 DEF ToSet
<1>7. h[n] \in X /\ Right(h[n], n)
  BY <1>1, <1>2, <1>5 DEF P
<1> QED BY <1>2, <1>6, <1>7

-----------------------------------------------------------------------------

LEMMA Mapped ==
    ASSUME NEW tags, IsList(tags)
    PROVE  LET urls == [i \in DOMAIN tags |-> tags[i][2]]
           IN  /\ urls \in Seq({t[2] : t \in ToSet(tags)})
               /\ ToSet(urls) = {t[2] : t \in ToSet(tags)}
<1>1. Len(tags) \in Nat /\ DOMAIN tags = 1..Len(tags) /\ \A i \in 1..Len(tags) : tags[i] \in ToSet(tags)
  BY ListShape
<1>2. ToSet(tags) = {tags[i] : i \in 1..Len(tags)}
  BY <1>1 DEF ToSet
<1>3. [i \in DOMAIN tags |-> tags[i][2]] \in Seq({t[2] : t \in ToSet(tags)})
  BY <1>1
<1>4. ToSet([i \in DOMAIN tags |-> tags[i][2]]) = {t[2] : t \in ToSet(tags)}
  BY <1>1, <1>2 DEF ToSet
<1> QED BY <1>3, <1>4

(* Those of the events that are not known yet, after the known ones. *)
FreshAfter(known, events) ==
    LET seen(i) == {e.id : e \in ToSet(known) \cup {events[j] : j \in 1..(i - 1)}}
    IN  known \o Selected(events, {i \in DOMAIN events : events[i].id \notin seen(i)})

LEMMA WithIds ==
    ASSUME NEW S, NEW known \in Seq(S), NEW events \in Seq(S)
    PROVE  /\ FreshAfter(known, events) \in Seq(S)
           /\ ToSet(known) \subseteq ToSet(FreshAfter(known, events))
           /\ ToSet(FreshAfter(known, events)) \subseteq ToSet(known) \cup ToSet(events)
           /\ \A x \in ToSet(events) : \E y \in ToSet(FreshAfter(known, events)) : y.id = x.id
<1> DEFINE seen(i) == {e.id : e \in ToSet(known) \cup {events[j] : j \in 1..(i - 1)}}
           at == {i \in DOMAIN events : events[i].id \notin seen(i)}
           new == Selected(events, at)
<1>1. IsList(known) /\ IsList(events) /\ ToSet(known) \subseteq S /\ ToSet(events) \subseteq S
  BY ListOf
<1>2. new \in Seq(ToSet(events)) /\ ToSet(new) = {events[i] : i \in at \cap DOMAIN events}
  BY <1>1, SelectedList
<1>3. DOMAIN events = 1..Len(events) /\ Len(events) \in Nat /\ \A i \in DOMAIN events : events[i] \in S
  BY <1>1, ListShape
<1>4. ASSUME NEW x \in ToSet(events)
      PROVE  \E y \in ToSet(known) \cup {events[i] : i \in at \cap DOMAIN events} : y.id = x.id
  <2> DEFINE T == {i \in DOMAIN events : events[i].id = x.id}
  <2>1. T \subseteq Nat /\ T # {}
    BY <1>3, <1>4 DEF ToSet
  <2> HIDE DEF T
  <2>2. PICK n \in T : \A m \in T : n =< m
    BY <2>1, Least
  <2>3. n \in DOMAIN events /\ events[n].id = x.id /\ n \in 1..Len(events)
    BY <1>3, <2>2 DEF T
  <2>4. ASSUME NEW j \in 1..(n - 1) PROVE events[j].id # x.id
    <3>1. j \in 1..Len(events) /\ j \in Nat /\ ~(n =< j)
      BY <1>3, <2>3
    <3> QED BY <1>3, <2>2, <2>3, <3>1 DEF T
  <2>5. CASE x.id \in seen(n)
    <3>1. PICK e \in ToSet(known) \cup {events[j] : j \in 1..(n - 1)} : e.id = x.id
      BY <2>5
    <3>2. e \in ToSet(known)
      BY <2>4, <3>1
    <3> QED BY <3>1, <3>2
  <2> HIDE DEF seen
  <2>6. CASE x.id \notin seen(n)
    <3>1. n \in at
      BY <2>3, <2>6
    <3> QED BY <2>3, <3>1
  <2> QED BY <2>5, <2>6
<1>5. {events[i] : i \in at \cap DOMAIN events} \subseteq ToSet(events)
  BY DEF ToSet
<1>6. new \in Seq(S)
  <2>1. \A X, Y, s : X \subseteq Y /\ s \in Seq(X) => s \in Seq(Y)
    OBVIOUS
  <2> QED BY <1>1, <1>2, <2>1
<1>7. FreshAfter(known, events) = known \o new
  BY DEF FreshAfter
<1> HIDE DEF new, at
<1>8. ToSet(known \o new) = ToSet(known) \cup ToSet(new) /\ known \o new \in Seq(S)
  BY <1>6, Joined
<1> QED BY <1>2, <1>4, <1>5, <1>7, <1>8

LEMMA WithAll ==
    ASSUME NEW S, \A e, f \in S : e.id = f.id => e = f,
           NEW known \in Seq(S), NEW events \in Seq(S)
    PROVE  FreshAfter(known, events) \in Seq(S)
           /\ ToSet(FreshAfter(known, events)) = ToSet(known) \cup ToSet(events)
<1>1. ToSet(known) \subseteq S /\ ToSet(events) \subseteq S
  BY ListOf
<1> QED BY <1>1, WithIds

-----------------------------------------------------------------------------

(* A set in any order. *)
LEMMA SetInOrder ==
    ASSUME NEW S, IsFiniteSet(S), NEW list \in SetToSeqs(S)
    PROVE  list \in Seq(S) /\ ToSet(list) = S
<1> DEFINE n == Cardinality(S)
<1>1. n \in Nat
  BY FS_CardinalityType
<1>2. list \in [1..n -> S] /\ \A i, j \in 1..n : i # j => list[i] # list[j]
  BY DEF SetToSeqs
<1>3. Cardinality(1..n) = n
  <2>1. Cardinality(1..n) = IF 1 > n THEN 0 ELSE n - 1 + 1
    BY <1>1, FS_Interval
  <2> QED BY <1>1, <2>1
<1>4. list \in Injection(1..n, S)
  BY <1>2 DEF Injection, IsInjective
<1>5. list \in Surjection(1..n, S)
  BY <1>3, <1>4, FS_Injection
<1>6. list \in Seq(S)
  BY <1>1, <1>2
<1>7. ToSet(list) = S
  BY <1>2, <1>5 DEF Surjection, ToSet
<1> QED BY <1>6, <1>7

-----------------------------------------------------------------------------
(* Events.  Ids are hashes, ids and times numbers, tags a list. *)
WellFormed(E) ==
    /\ IsFiniteSet(E)
    /\ \A e, f \in E : e.id = f.id => e = f
    /\ \A e \in E : e.id \in Int /\ e.created_at \in Int /\ IsList(e.tags)

LEMMA BeatsOrder ==
    ASSUME NEW E, WellFormed(E)
    PROVE  /\ \A e, f \in E : e # f => Beats(e, f) \/ Beats(f, e)
           /\ \A e, f \in E : Beats(e, f) => ~Beats(f, e) /\ e.created_at >= f.created_at
           /\ \A e, f, g \in E : Beats(e, f) /\ Beats(f, g) => Beats(e, g)
<1>1. \A e, f \in E : e.id = f.id => e = f
  BY DEF WellFormed
<1>2. \A e \in E : e.id \in Int /\ e.created_at \in Int
  BY DEF WellFormed
<1>3. \A e, f \in E : e # f => Beats(e, f) \/ Beats(f, e)
  BY <1>1, <1>2 DEF Beats
<1>4. \A e, f \in E : Beats(e, f) => ~Beats(f, e) /\ e.created_at >= f.created_at
  BY <1>2 DEF Beats
<1>5. \A e, f, g \in E : Beats(e, f) /\ Beats(f, g) => Beats(e, g)
  BY <1>2 DEF Beats
<1> QED BY <1>3, <1>4, <1>5

(* What competes for one slot is of one kind, one author and one name, or  *)
(* is one event.                                                           *)
LEMMA SlotSame ==
    ASSUME NEW e, NEW f, Slot(e) = Slot(f)
    PROVE  /\ classify(e.kind) \in {"replaceable", "addressable"} => e.kind = f.kind /\ e.pubkey = f.pubkey
           /\ classify(e.kind) = "addressable" => d_tag(e) = d_tag(f)
           /\ classify(e.kind) \notin {"replaceable", "addressable"} => e.id = f.id
<1>1. CASE classify(e.kind) = "replaceable"
  <2>1. Slot(e) = <<e.pubkey, e.kind>>
    BY <1>1 DEF Slot
  <2>2. classify(f.kind) = "replaceable"
    BY <2>1 DEF Slot
  <2> QED BY <1>1, <2>1, <2>2 DEF Slot
<1>2. CASE classify(e.kind) = "addressable"
  <2>1. Slot(e) = <<e.pubkey, e.kind, d_tag(e)>>
    BY <1>2 DEF Slot
  <2>2. classify(f.kind) = "addressable"
    BY <2>1 DEF Slot
  <2> QED BY <1>2, <2>1, <2>2 DEF Slot
<1>3. CASE classify(e.kind) \notin {"replaceable", "addressable"}
  <2>1. Slot(e) = <<e.id>>
    BY <1>3 DEF Slot
  <2>2. classify(f.kind) \notin {"replaceable", "addressable"}
    BY <2>1 DEF Slot
  <2> QED BY <1>3, <2>1, <2>2 DEF Slot
<1> QED BY <1>1, <1>2, <1>3

-----------------------------------------------------------------------------
(* The relays' tables.  A relay's index knows of a stored event what its   *)
(* tags say, no less and no more.                                          *)
AnyRows(E) == UNION {TagRows(e, Len(e.tags)) : e \in E}

Indexed(E, db) ==
    /\ db.tags \subseteq AnyRows(E)
    /\ \A e \in db.events : TagRows(e, Len(e.tags)) \subseteq db.tags

LEMMA EmptyIndexed ==
    ASSUME NEW E
    PROVE  Empty.events = {} /\ Indexed(E, Empty)
BY DEF Empty, Indexed

LEMMA RowsOfOne ==
    ASSUME NEW E, WellFormed(E), NEW e \in E, NEW f \in E,
           NEW row \in TagRows(e, Len(e.tags)), row[1] = f.id
    PROVE  e = f
<1>1. PICK i \in 1..Len(e.tags) : row = TagRow(e, i)
  BY DEF TagRows
<1>2. row[1] = e.id
  BY <1>1 DEF TagRow
<1> QED BY <1>2 DEF WellFormed

LEMMA DeleteIndexed ==
    ASSUME NEW E, WellFormed(E), NEW db, db.events \subseteq E, Indexed(E, db), NEW S, S \subseteq E
    PROVE  /\ Delete(db, S).events = db.events \ S
           /\ Indexed(E, Delete(db, S))
<1>1. Delete(db, S).events = db.events \ S /\ Delete(db, S).tags \subseteq db.tags
  BY DEF Delete
<1>2. ASSUME NEW e \in db.events \ S PROVE TagRows(e, Len(e.tags)) \subseteq Delete(db, S).tags
  <2> SUFFICES ASSUME NEW row \in TagRows(e, Len(e.tags)) PROVE row \in Delete(db, S).tags
    OBVIOUS
  <2>1. row \in db.tags
    BY DEF Indexed
  <2>2. \A f \in S : row[1] # f.id
    BY RowsOfOne
  <2> QED BY <2>1, <2>2 DEF Delete
<1> QED BY <1>1, <1>2 DEF Indexed

LEMMA WriteTable ==
    ASSUME NEW E, WellFormed(E), NEW db, db.events \subseteq E, Indexed(E, db), NEW e \in E
    PROVE  /\ Write(db, e).events \subseteq db.events \cup {e}
           /\ Indexed(E, Write(db, e))
           /\ e.kind # 5 => Write(db, e).events = (db.events \ Rivals(db, e)) \cup {e}
<1>1. PICK kept : kept = Delete(db, Rivals(db, e))
  OBVIOUS
<1>2. PICK more : more = Insert(kept, e)
  OBVIOUS
<1>3. Rivals(db, e) \subseteq db.events
  BY DEF Rivals
<1>4. kept.events = db.events \ Rivals(db, e) /\ Indexed(E, kept)
  BY <1>1, <1>3, DeleteIndexed
<1>5. more.events = kept.events \cup {e} /\ more.tags = kept.tags \cup TagRows(e, Len(e.tags))
  BY <1>2 DEF Insert
<1>6. more.events \subseteq E /\ Indexed(E, more)
  <2>1. TagRows(e, Len(e.tags)) \subseteq AnyRows(E)
    BY DEF AnyRows
  <2> QED BY <1>4, <1>5, <2>1 DEF Indexed
<1> DEFINE gone == {f \in more.events : Retracts(e, f)}
<1>7. Write(db, e) = Delete(more, gone)
  BY <1>1, <1>2 DEF Write, ProcessDeletion
<1>8. gone \subseteq E
  BY <1>6
<1>9. e.kind # 5 => gone = {}
  BY DEF Retracts
<1> HIDE DEF gone
<1>10. Write(db, e).events = more.events \ gone /\ Indexed(E, Write(db, e))
  BY <1>6, <1>7, <1>8, DeleteIndexed
<1> QED BY <1>4, <1>5, <1>9, <1>10

LEMMA AnswerStored ==
    ASSUME NEW E, WellFormed(E), NEW db, db.events \subseteq E, NEW e \in E, Answer(db, e) = "stored"
    PROVE  /\ e \notin db.events
           /\ Rivals(db, e) = {f \in db.events : Slot(f) = Slot(e)}
           /\ \A f \in db.events : Slot(f) = Slot(e) => Beats(e, f)
<1>1. ~Duplicate(db, e) /\ ~Superseded(db, e)
  BY DEF Answer
<1>2. \A f \in db.events : f.id # e.id
  BY <1>1 DEF Duplicate
<1>3. Rivals(db, e) = {f \in db.events : Slot(f) = Slot(e)}
  <2>1. classify(e.kind) = "regular" => classify(e.kind) \notin {"replaceable", "addressable"}
    OBVIOUS
  <2>2. classify(e.kind) = "regular" => \A f \in db.events : Slot(f) # Slot(e)
    BY <1>2, <2>1, SlotSame
  <2> QED BY <2>2 DEF Rivals
<1>4. \A f \in db.events : Slot(f) = Slot(e) => Beats(e, f)
  BY <1>1, <1>2, <1>3, BeatsOrder DEF Superseded
<1> QED BY <1>2, <1>3, <1>4

LEMMA IndexSays ==
    ASSUME NEW E, WellFormed(E), NEW db, db.events \subseteq E, Indexed(E, db),
           NEW e \in db.events, NEW x \in Letters, NEW v
    PROVE  <<e.id, x, v>> \in db.tags <=> v \in tag_values(e, x)
<1>1. e \in E /\ DOMAIN e.tags = 1..Len(e.tags) /\ db.tags \subseteq AnyRows(E)
  <2>1. e \in E /\ IsList(e.tags)
    BY DEF WellFormed
  <2> QED BY <2>1, ListShape DEF Indexed
<1>2. ASSUME <<e.id, x, v>> \in db.tags PROVE v \in tag_values(e, x)
  <2>1. PICK f \in E : <<e.id, x, v>> \in TagRows(f, Len(f.tags))
    BY <1>1, <1>2 DEF AnyRows
  <2>2. <<e.id, x, v>>[1] = e.id
    OBVIOUS
  <2>3. f = e
    BY <1>1, <2>1, <2>2, RowsOfOne
  <2>4. PICK i \in 1..Len(e.tags) : <<e.id, x, v>> = TagRow(e, i)
    BY <2>1, <2>3 DEF TagRows
  <2>5. x = e.tags[i][1] /\ v = e.tags[i][2]
    BY <2>4 DEF TagRow
  <2>6. i \in DOMAIN e.tags
    BY <1>1, <2>4
  <2> QED BY <2>5, <2>6 DEF tag_values, Named
<1>3. ASSUME v \in tag_values(e, x) PROVE <<e.id, x, v>> \in db.tags
  <2>1. PICK i \in DOMAIN e.tags : e.tags[i][1] = x /\ e.tags[i][2] = v
    BY <1>3 DEF tag_values, Named
  <2>2. i \in 1..Len(e.tags)
    BY <1>1, <2>1
  <2>3. TagRow(e, i) = <<e.id, x, v>> /\ TagRow(e, i) \in TagRows(e, Len(e.tags))
    BY <2>1, <2>2 DEF TagRow, TagRows
  <2> QED BY <2>3 DEF Indexed
<1> QED BY <1>2, <1>3

LEMMA SelectsWhatMatches ==
    ASSUME NEW E, WellFormed(E), NEW db, db.events \subseteq E, Indexed(E, db),
           NEW flt, TagFilters(flt) \subseteq Letters, NEW e \in db.events
    PROVE  SqlMatches(db, e, flt) <=> matches(e, flt)
<1>1. ASSUME NEW x \in TagFilters(flt)
      PROVE  (\E v \in flt.tags[x] : <<e.id, x, v>> \in db.tags)
                <=> tag_values(e, x) \cap flt.tags[x] # {}
  <2>1. x \in Letters
    OBVIOUS
  <2>2. \A v : <<e.id, x, v>> \in db.tags <=> v \in tag_values(e, x)
    BY <2>1, IndexSays
  <2> QED BY <2>2
<1> QED BY <1>1 DEF SqlMatches, matches

-----------------------------------------------------------------------------
(* Queries. *)
Top(S, t) == t \in S /\ \A f \in S : f = t \/ Beats(t, f)

LEMMA TopExists ==
    ASSUME NEW E, WellFormed(E), NEW S, S \subseteq E, S # {}
    PROVE  \E t : Top(S, t)
<1> DEFINE Above(e) == {f \in S : Beats(f, e)}
           Ranks == {Cardinality(Above(e)) : e \in S}
<1>0. /\ \A e, f \in S : e # f => Beats(e, f) \/ Beats(f, e)
      /\ \A e, f \in S : Beats(e, f) => ~Beats(f, e)
      /\ \A e, f, g \in S : Beats(e, f) /\ Beats(f, g) => Beats(e, g)
  BY BeatsOrder
<1>1. IsFiniteSet(S)
  BY FS_Subset DEF WellFormed
<1>2. \A e \in S : IsFiniteSet(Above(e)) /\ Cardinality(Above(e)) \in Nat
  <2> SUFFICES ASSUME NEW e \in S PROVE IsFiniteSet(Above(e)) /\ Cardinality(Above(e)) \in Nat
    OBVIOUS
  <2>1. Above(e) \subseteq S
    OBVIOUS
  <2> QED BY <1>1, <2>1, FS_Subset, FS_CardinalityType
<1>3. PICK n \in Ranks : \A m \in Ranks : n =< m
  <2>1. Ranks \subseteq Nat /\ Ranks # {}
    BY <1>2
  <2> HIDE DEF Ranks
  <2> QED BY <2>1, Least
<1>4. PICK t \in S : Cardinality(Above(t)) = n
  BY <1>3
<1>5. ASSUME NEW f \in S, Beats(f, t) PROVE FALSE
  <2>1. Above(f) \subseteq Above(t) /\ f \in Above(t) /\ f \notin Above(f)
    BY <1>0, <1>5
  <2>2. Cardinality(Above(f)) =< Cardinality(Above(t))
        /\ (Cardinality(Above(f)) = Cardinality(Above(t)) => Above(f) = Above(t))
    BY <1>2, <2>1, FS_Subset
  <2>3. Cardinality(Above(f)) \in Ranks /\ Cardinality(Above(f)) \in Nat /\ Cardinality(Above(t)) \in Nat
    BY <1>2
  <2>4. n =< Cardinality(Above(f))
    BY <1>3, <2>3
  <2> HIDE DEF Above, Ranks
  <2>5. Above(f) = Above(t)
    BY <1>4, <2>2, <2>3, <2>4
  <2> QED BY <2>1, <2>5
<1>6. Top(S, t)
  BY <1>0, <1>5 DEF Top
<1> QED BY <1>6

(* The events of a table that a filter is about. *)
Fitting(db, flt) == {e \in db.events : matches(e, flt)}

LEMMA QueryFound ==
    ASSUME NEW E, WellFormed(E), NEW db, db.events \subseteq E, Indexed(E, db),
           NEW flt, TagFilters(flt) \subseteq Letters
    PROVE  /\ "limit" \notin DOMAIN flt => query(db, {flt}) = Fitting(db, flt)
           /\ "limit" \in DOMAIN flt =>
                 query(db, {flt}) =
                    {e \in Fitting(db, flt) : Cardinality({f \in Fitting(db, flt) : Beats(f, e)}) < flt.limit}
<1>1. {e \in db.events : SqlMatches(db, e, flt)} = Fitting(db, flt)
  BY SelectsWhatMatches DEF Fitting
<1>2. query(db, {flt}) = QueryOne(db, flt)
  BY DEF query
<1> QED BY <1>1, <1>2 DEF QueryOne

LEMMA QueryNewest ==
    ASSUME NEW E, WellFormed(E), NEW db, db.events \subseteq E, Indexed(E, db),
           NEW flt, TagFilters(flt) \subseteq Letters, "limit" \in DOMAIN flt, flt.limit = 1,
           NEW e \in Fitting(db, flt)
    PROVE  \E t \in query(db, {flt}) : t = e \/ Beats(t, e)
<1>1. Fitting(db, flt) \subseteq E /\ Fitting(db, flt) # {}
  BY DEF Fitting
<1>2. PICK t : Top(Fitting(db, flt), t)
  BY <1>1, TopExists
<1>3. {f \in Fitting(db, flt) : Beats(f, t)} = {}
  BY <1>1, <1>2, BeatsOrder DEF Top
<1>4. Cardinality({}) = 0
  BY FS_EmptySet
<1>5. t \in query(db, {flt})
  BY <1>2, <1>3, <1>4, QueryFound DEF Top
<1> QED BY <1>2, <1>5 DEF Top

LEMMA QueryAll ==
    ASSUME NEW E, WellFormed(E), NEW db, db.events \subseteq E, Indexed(E, db),
           NEW flt, TagFilters(flt) \subseteq Letters, "limit" \in DOMAIN flt, flt.limit \in Nat,
           Cardinality({e \in E : matches(e, flt)}) =< flt.limit
    PROVE  query(db, {flt}) = Fitting(db, flt)
<1> DEFINE All == {e \in E : matches(e, flt)}
<1>0. \A e \in E : ~Beats(e, e)
  BY BeatsOrder
<1>1. IsFiniteSet(All) /\ Cardinality(All) \in Nat
  <2>1. All \subseteq E
    OBVIOUS
  <2> QED BY <2>1, FS_Subset, FS_CardinalityType DEF WellFormed
<1>2. ASSUME NEW e \in Fitting(db, flt)
      PROVE  Cardinality({f \in Fitting(db, flt) : Beats(f, e)}) < flt.limit
  <2> DEFINE above == {f \in Fitting(db, flt) : Beats(f, e)}
  <2>1. above \subseteq All /\ e \in All /\ e \notin above
    BY <1>0 DEF Fitting
  <2>2. IsFiniteSet(above) /\ Cardinality(above) \in Nat /\ Cardinality(above) =< Cardinality(All)
        /\ (Cardinality(above) = Cardinality(All) => above = All)
    BY <1>1, <2>1, FS_Subset, FS_CardinalityType
  <2>3. Cardinality(above) # Cardinality(All)
    BY <2>1, <2>2
  <2> HIDE DEF above
  <2>4. Cardinality(above) < flt.limit
    BY <1>1, <2>2, <2>3
  <2> QED BY <2>4 DEF above
<1> QED BY <1>2, QueryFound

-----------------------------------------------------------------------------
(* What is written replaces nothing but what it beats for good. *)
LEMMA AtLeastOrder ==
    ASSUME NEW E, WellFormed(E), NEW e \in E, NEW f \in E, NEW g \in E, AtLeast(g, f), AtLeast(f, e)
    PROVE  AtLeast(g, e)
BY BeatsOrder DEF AtLeast

LEMMA Stored ==
    ASSUME NEW E, WellFormed(E), NEW R, NEW stores, DOMAIN stores = R,
           \A q \in R : stores[q].events \subseteq E /\ Indexed(E, stores[q]),
           NEW r \in R, NEW e \in E, e.kind # 5,
           NEW after, after = IF Answer(stores[r], e) = "stored"
                              THEN [stores EXCEPT ![r] = Write(@, e)] ELSE stores
    PROVE  /\ DOMAIN after = R
           /\ \A q \in R :
                 /\ after[q].events \subseteq stores[q].events \cup {e}
                 /\ Indexed(E, after[q])
                 /\ \A f \in stores[q].events : \E g \in after[q].events : AtLeast(g, f)
                 /\ \A f \in after[q].events \ stores[q].events :
                       \A g \in stores[q].events : Slot(g) = Slot(f) => Beats(f, g)
<1>1. \A f : AtLeast(f, f)
  BY DEF AtLeast
<1>2. CASE Answer(stores[r], e) # "stored"
  BY <1>1, <1>2
<1>3. CASE Answer(stores[r], e) = "stored"
  <2>1. after = [stores EXCEPT ![r] = Write(@, e)]
    BY <1>3
  <2>2. DOMAIN after = R /\ after[r] = Write(stores[r], e) /\ \A q \in R \ {r} : after[q] = stores[q]
    BY <2>1
  <2>3. /\ Rivals(stores[r], e) = {f \in stores[r].events : Slot(f) = Slot(e)}
        /\ \A f \in stores[r].events : Slot(f) = Slot(e) => Beats(e, f)
    BY <1>3, AnswerStored
  <2>4. /\ after[r].events = (stores[r].events \ Rivals(stores[r], e)) \cup {e}
        /\ Indexed(E, after[r])
    BY <2>2, WriteTable
  <2>5. ASSUME NEW f \in stores[r].events PROVE \E g \in after[r].events : AtLeast(g, f)
    <3>1. CASE Slot(f) = Slot(e)
      BY <2>3, <2>4, <3>1 DEF AtLeast
    <3>2. CASE Slot(f) # Slot(e)
      BY <1>1, <2>3, <2>4, <3>2
    <3> QED BY <3>1, <3>2
  <2>6. \A f \in after[r].events \ stores[r].events :
           \A g \in stores[r].events : Slot(g) = Slot(f) => Beats(f, g)
    BY <2>3, <2>4
  <2>7. ASSUME NEW q \in R
        PROVE  /\ after[q].events \subseteq stores[q].events \cup {e}
               /\ Indexed(E, after[q])
               /\ \A f \in stores[q].events : \E g \in after[q].events : AtLeast(g, f)
               /\ \A f \in after[q].events \ stores[q].events :
                     \A g \in stores[q].events : Slot(g) = Slot(f) => Beats(f, g)
    <3>1. CASE q = r
      BY <2>4, <2>5, <2>6, <3>1
    <3>2. CASE q # r
      BY <1>1, <2>2, <3>2
    <3> QED BY <3>1, <3>2
  <2> QED BY <2>2, <2>7
<1> QED BY <1>2, <1>3
=============================================================================
