------------------------- MODULE SessionMetricsProof -------------------------
(***************************************************************************)
(* Theorems about the metrics of a session, for any streams, packets per   *)
(* frame and sizes of the circles.                                         *)
(***************************************************************************)
EXTENDS SessionMetrics, FiniteSetTheorems, WellFoundedInduction, TLAPS

-----------------------------------------------------------------------------
(* Sums over a finite set, which the community modules define by recursion *)
(* over its subsets.                                                       *)

(* A family of subsets of a finite set has a member none of which can be   *)
(* taken out without leaving the family.                                   *)
LEMMA MinimalSubset ==
  ASSUME NEW U, IsFiniteSet(U), NEW F \in SUBSET SUBSET U, F # {}
  PROVE  \E T \in F : \A x \in T : T \ {x} \notin F
<1>1. IsWellFoundedOn(StrictSubsetOrdering(U), FiniteSubsetsOf(U))
  BY FS_StrictSubsetOrderingWellFounded
<1>2. F \subseteq FiniteSubsetsOf(U)
  BY FS_FiniteSubsetsOfFinite
<1>3. PICK T \in F : \A V \in F : ~(<<V, T>> \in StrictSubsetOrdering(U))
  BY <1>1, <1>2, WFMin
<1>4. ASSUME NEW x \in T, T \ {x} \in F
      PROVE  FALSE
  <2>1. <<T \ {x}, T>> \in StrictSubsetOrdering(U)
    BY <1>3, <1>4 DEF StrictSubsetOrdering
  <2> QED
    BY <1>3, <1>4, <2>1
<1> QED
  BY <1>3, <1>4

\* f gives the sum of h over every subset of U.
Sums(f, U, h) ==
  /\ f \in [SUBSET U -> Int] /\ f[{}] = 0
  /\ \A T \in SUBSET U : \A x \in T : f[T] = f[T \ {x}] + h[x]

(* Every function on a finite set has its sums.                            *)
LEMMA SumsExist ==
  ASSUME NEW U, IsFiniteSet(U), NEW h, \A x \in U : h[x] \in Int
  PROVE  \E f : Sums(f, U, h)
<1> DEFINE Bad == {T \in SUBSET U : ~\E f : Sums(f, T, h)}
<1>1. SUFFICES Bad = {}
  OBVIOUS
<1>2. ASSUME Bad # {}
      PROVE  FALSE
  <2>1. PICK T \in Bad : \A x \in T : T \ {x} \notin Bad
    BY <1>2, MinimalSubset
  <2>2. T \subseteq U /\ ~\E f : Sums(f, T, h)
    OBVIOUS
  <2>3. CASE T = {}
    <3>1. Sums([V \in {{}} |-> 0], {}, h)
      BY DEF Sums
    <3> QED
      BY <2>2, <2>3, <3>1
  <2>4. CASE T # {}
    <3>1. PICK a \in T : TRUE
      BY <2>4
    <3> DEFINE R == T \ {a}
    <3>2. R \in SUBSET U /\ R \notin Bad
      BY <2>1, <2>2, <3>1
    <3>3. PICK f : Sums(f, R, h)
      BY <3>2
    <3>4. h[a] \in Int
      BY <2>2
    <3> DEFINE g == [V \in SUBSET T |-> IF a \in V THEN f[V \ {a}] + h[a] ELSE f[V]]
    <3>5. f \in [SUBSET R -> Int] /\ f[{}] = 0
          /\ \A V \in SUBSET R : \A x \in V : f[V] = f[V \ {x}] + h[x]
      BY <3>3 DEF Sums
    <3>6. ASSUME NEW V \in SUBSET T
          PROVE  g[V] \in Int
      <4>1. V \ {a} \in SUBSET R /\ (a \notin V => V \in SUBSET R)
        OBVIOUS
      <4> QED
        BY <3>4, <3>5, <4>1
    <3>7. ASSUME NEW V \in SUBSET T, NEW x \in V
          PROVE  g[V] = g[V \ {x}] + h[x]
      <4>1. CASE x = a
        <5>1. a \in V /\ a \notin V \ {a} /\ V \ {a} \in SUBSET T
          BY <4>1
        <5> QED
          BY <4>1, <5>1
      <4>2. CASE x # a /\ a \in V
        <5> DEFINE W == V \ {a}
        <5>1. W \in SUBSET R /\ x \in W /\ (V \ {x}) \ {a} = W \ {x} /\ a \in V \ {x}
              /\ V \ {x} \in SUBSET T /\ W \ {x} \in SUBSET R
          BY <4>2
        <5>2. f[W] = f[W \ {x}] + h[x] /\ f[W \ {x}] \in Int /\ h[x] \in Int
          BY <2>2, <3>5, <5>1
        <5>3. g[V] = f[W] + h[a] /\ g[V \ {x}] = f[W \ {x}] + h[a]
          BY <4>2, <5>1
        <5> HIDE DEF g, W
        <5> QED
          BY <3>4, <5>2, <5>3
      <4>3. CASE x # a /\ a \notin V
        <5>1. V \in SUBSET R /\ V \ {x} \in SUBSET T /\ a \notin V \ {x}
          BY <4>3
        <5> QED
          BY <3>5, <4>3, <5>1
      <4> QED
        BY <4>1, <4>2, <4>3
    <3>8. g[{}] = 0
      BY <3>5
    <3>9. Sums(g, T, h)
      <4>1. g \in [SUBSET T -> Int]
        BY <3>6
      <4> HIDE DEF g
      <4> QED
        BY <3>7, <3>8, <4>1 DEF Sums
    <3> QED
      BY <2>2, <3>9
  <2> QED
    BY <2>3, <2>4
<1> QED
  BY <1>2

\* The sum of the function h over U.
SumOf(h, U) == MapThenSumSet(LAMBDA x : h[x], U)

\* One turn of the recursion behind MapThenSumSet.
Turn(it, h, U) ==
  [s \in SUBSET U |-> IF s = {} THEN 0
                      ELSE h[CHOOSE x \in s : TRUE] + it[s \ {CHOOSE x \in s : TRUE}]]

(* The sums are the only solution of the recursion.                        *)
LEMMA SumsUnique ==
  ASSUME NEW U, IsFiniteSet(U), NEW h, \A x \in U : h[x] \in Int,
         NEW f, Sums(f, U, h), NEW it
  PROVE  it = Turn(it, h, U) <=> it = f
<1>0. f \in [SUBSET U -> Int] /\ f[{}] = 0
      /\ \A T \in SUBSET U : \A x \in T : f[T] = f[T \ {x}] + h[x]
  BY DEF Sums
<1>1. ASSUME NEW T \in SUBSET U, T # {}, NEW j,
             j[T \ {CHOOSE x \in T : TRUE}] = f[T \ {CHOOSE x \in T : TRUE}]
      PROVE  Turn(j, h, U)[T] = f[T]
  <2> DEFINE c == CHOOSE x \in T : TRUE
  <2>1. c \in T
    BY <1>1
  <2>2. Turn(j, h, U)[T] = h[c] + j[T \ {c}]
    BY <1>1 DEF Turn
  <2>3. T \ {c} \in SUBSET U /\ c \in U /\ j[T \ {c}] = f[T \ {c}]
    BY <1>1, <2>1
  <2>4. h[c] \in Int /\ f[T \ {c}] \in Int /\ f[T] = f[T \ {c}] + h[c]
    BY <1>0, <2>1, <2>3
  <2> HIDE DEF c
  <2> QED
    BY <2>2, <2>3, <2>4
<1>2. ASSUME it = f
      PROVE  it = Turn(it, h, U)
  <2>1. ASSUME NEW T \in SUBSET U
        PROVE  Turn(f, h, U)[T] = f[T]
    <3>1. CASE T = {}
      BY <1>0, <3>1 DEF Turn
    <3> QED
      BY <1>1, <3>1
  <2>2. Turn(f, h, U) = [T \in SUBSET U |-> Turn(f, h, U)[T]]
    BY DEF Turn
  <2>3. f = [T \in SUBSET U |-> f[T]]
    BY <1>0
  <2>4. Turn(f, h, U) = f
    BY <2>1, <2>2, <2>3, Zenon
  <2> QED
    BY <1>2, <2>4
<1>3. ASSUME it = Turn(it, h, U)
      PROVE  it = f
  <2>0. it = [T \in SUBSET U |-> it[T]]
    BY <1>3 DEF Turn
  <2> DEFINE Bad == {T \in SUBSET U : it[T] # f[T]}
  <2>1. ASSUME Bad # {}
        PROVE  FALSE
    <3>1. PICK T \in Bad : \A x \in T : T \ {x} \notin Bad
      BY <2>1, MinimalSubset
    <3>2. CASE T = {}
      BY <1>0, <1>3, <3>1, <3>2 DEF Turn
    <3>3. CASE T # {}
      <4> DEFINE c == CHOOSE x \in T : TRUE
      <4>1. c \in T
        BY <3>3
      <4>2. it[T \ {c}] = f[T \ {c}]
        BY <3>1, <4>1
      <4>3. Turn(it, h, U)[T] = f[T]
        BY <1>1, <3>1, <3>3, <4>2
      <4> QED
        BY <1>3, <3>1, <4>3
    <3> QED
      BY <3>2, <3>3
  <2>2. \A T \in SUBSET U : it[T] = f[T]
    BY <2>1
  <2>3. f = [T \in SUBSET U |-> f[T]]
    BY <1>0
  <2> QED
    BY <2>0, <2>2, <2>3, Zenon
<1> QED
  BY <1>2, <1>3

(* MapThenSumSet computes the sums.                                        *)
LEMMA SumsGiveSum ==
  ASSUME NEW U, IsFiniteSet(U), NEW h, \A x \in U : h[x] \in Int, NEW f, Sums(f, U, h)
  PROVE  SumOf(h, U) = f[U]
<1>1. \A it : it = Turn(it, h, U) <=> it = f
  BY SumsUnique
<1>2. (CHOOSE it : it = Turn(it, h, U)) = f
  BY <1>1
<1>3. SumOf(h, U) = (CHOOSE it : it = Turn(it, h, U))[U]
  BY DEF SumOf, Turn, MapThenSumSet, MapThenFoldSet
<1> QED
  BY <1>2, <1>3

(* The sum over nothing is zero.                                           *)
LEMMA SumEmpty ==
  ASSUME NEW h
  PROVE  SumOf(h, {}) = 0
<1>1. IsFiniteSet({})
  BY FS_EmptySet
<1>2. PICK f : Sums(f, {}, h)
  BY <1>1, SumsExist
<1> QED
  BY <1>1, <1>2, SumsGiveSum DEF Sums

(* A sum is a number, and each of its terms can be split off.              *)
LEMMA SumSplit ==
  ASSUME NEW U, IsFiniteSet(U), NEW h, \A x \in U : h[x] \in Int, NEW x \in U
  PROVE  /\ SumOf(h, U) \in Int /\ SumOf(h, U \ {x}) \in Int
         /\ SumOf(h, U) = SumOf(h, U \ {x}) + h[x]
<1>1. PICK f : Sums(f, U, h)
  BY SumsExist
<1>2. f \in [SUBSET U -> Int] /\ f[{}] = 0
      /\ \A T \in SUBSET U : \A y \in T : f[T] = f[T \ {y}] + h[y]
  BY <1>1 DEF Sums
<1> DEFINE V == U \ {x}
           g == [T \in SUBSET V |-> f[T]]
<1>3. Sums(g, V, h)
  <2>1. g \in [SUBSET V -> Int] /\ g[{}] = 0
    BY <1>2
  <2>2. ASSUME NEW T \in SUBSET V, NEW y \in T
        PROVE  g[T] = g[T \ {y}] + h[y]
    <3>1. T \in SUBSET U /\ T \ {y} \in SUBSET V
      OBVIOUS
    <3> QED
      BY <1>2, <3>1
  <2> HIDE DEF g, V
  <2> QED
    BY <2>1, <2>2 DEF Sums
<1>4. IsFiniteSet(V) /\ \A y \in V : h[y] \in Int
  BY FS_RemoveElement
<1>5. SumOf(h, V) = g[V] /\ g[V] = f[V]
  <2>1. SumOf(h, V) = g[V]
    BY <1>3, <1>4, SumsGiveSum
  <2> QED
    BY <2>1
<1>6. SumOf(h, U) = f[U]
  BY <1>1, SumsGiveSum
<1>7. f[U] \in Int /\ f[V] \in Int /\ f[U] = f[V] + h[x]
  BY <1>2
<1> QED
  BY <1>5, <1>6, <1>7

(* A sum is a number.                                                      *)
LEMMA SumType ==
  ASSUME NEW U, IsFiniteSet(U), NEW h, \A x \in U : h[x] \in Int
  PROVE  SumOf(h, U) \in Int
<1>1. CASE U = {}
  BY <1>1, SumEmpty
<1>2. CASE U # {}
  BY <1>2, SumSplit
<1> QED
  BY <1>1, <1>2

(* A sum of natural numbers is one.                                        *)
LEMMA SumNat ==
  ASSUME NEW U, IsFiniteSet(U), NEW h, \A x \in U : h[x] \in Nat
  PROVE  SumOf(h, U) \in Nat
<1> DEFINE Bad == {T \in SUBSET U : SumOf(h, T) \notin Nat}
<1>1. ASSUME Bad # {}
      PROVE  FALSE
  <2>1. PICK T \in Bad : \A x \in T : T \ {x} \notin Bad
    BY <1>1, MinimalSubset
  <2>2. IsFiniteSet(T) /\ T \subseteq U
    BY FS_Subset
  <2>3. CASE T = {}
    BY <2>3, SumEmpty
  <2>4. CASE T # {}
    <3>1. PICK x \in T : TRUE
      BY <2>4
    <3>2. h[x] \in Nat /\ SumOf(h, T \ {x}) \in Nat /\ \A y \in T : h[y] \in Int
      BY <2>1, <2>2
    <3>3. SumOf(h, T) = SumOf(h, T \ {x}) + h[x]
      BY <2>2, <3>2, SumSplit
    <3> QED
      BY <3>2, <3>3
  <2> QED
    BY <2>3, <2>4
<1> QED
  BY <1>1

(* A sum depends on the terms over its set alone.                          *)
LEMMA SumSame ==
  ASSUME NEW U, IsFiniteSet(U), NEW h, NEW k,
         \A x \in U : h[x] \in Int /\ k[x] = h[x]
  PROVE  SumOf(k, U) = SumOf(h, U)
<1>1. PICK f : Sums(f, U, h)
  BY SumsExist
<1>2. Sums(f, U, k)
  BY <1>1 DEF Sums
<1> QED
  BY <1>1, <1>2, SumsGiveSum

(* A sum of which one term changes, or one is added to it.                 *)
LEMMA SumChange ==
  ASSUME NEW U, IsFiniteSet(U), NEW h, NEW k, NEW x, k[x] \in Int,
         \A y \in U : h[y] \in Int, \A y \in U \ {x} : k[y] = h[y],
         NEW W, W = U \cup {x}
  PROVE  /\ SumOf(h, U) \in Int
         /\ x \in U => SumOf(k, W) = SumOf(h, U) + (k[x] - h[x])
         /\ x \notin U => SumOf(k, W) = SumOf(h, U) + k[x]
<1> DEFINE R == U \ {x}
<1>1. IsFiniteSet(R) /\ IsFiniteSet(W) /\ W \ {x} = R
  BY FS_AddElement, FS_RemoveElement
<1>2. k[x] \in Int /\ \A y \in W : k[y] \in Int
  OBVIOUS
<1>3. SumOf(k, W) = SumOf(k, R) + k[x]
  BY <1>1, <1>2, SumSplit
<1>4. SumOf(k, R) = SumOf(h, R)
  BY <1>1, SumSame
<1>5. SumOf(h, U) \in Int
  BY SumType
<1>6. CASE x \in U
  <2>1. SumOf(h, R) \in Int /\ SumOf(h, U) = SumOf(h, R) + h[x] /\ h[x] \in Int
    BY <1>6, SumSplit
  <2> HIDE DEF R
  <2>2. SumOf(k, W) = SumOf(h, U) + (k[x] - h[x])
    BY <1>2, <1>3, <1>4, <1>5, <2>1
  <2> QED
    BY <1>5, <1>6, <2>2
<1>7. CASE x \notin U
  <2>1. R = U
    BY <1>7
  <2> QED
    BY <1>3, <1>4, <1>5, <1>7, <2>1
<1> QED
  BY <1>6, <1>7

-----------------------------------------------------------------------------
(* Greatest and least members of finite sets of integers.                  *)

LEMMA MaxOf ==
  ASSUME NEW S \in SUBSET Int, IsFiniteSet(S), S # {}
  PROVE  Max(S) \in S /\ \A y \in S : y <= Max(S)
<1> DEFINE Top(T) == \E m \in T : \A y \in T : m >= y
           Bad == {T \in SUBSET S : T # {} /\ ~Top(T)}
<1>1. ASSUME Bad # {}
      PROVE  FALSE
  <2>1. PICK T \in Bad : \A x \in T : T \ {x} \notin Bad
    BY <1>1, MinimalSubset
  <2>2. T \subseteq S /\ T # {} /\ ~\E m \in T : \A y \in T : m >= y
    OBVIOUS
  <2>3. PICK x \in T : TRUE
    BY <2>2
  <2>4. x \in Int /\ \A y \in T : y \in Int
    BY <2>2
  <2>5. CASE T = {x}
    BY <2>2, <2>4, <2>5
  <2>6. CASE T # {x}
    <3>1. T \ {x} # {} /\ T \ {x} \in SUBSET S
      BY <2>2, <2>3, <2>6
    <3>2. PICK m \in T \ {x} : \A y \in T \ {x} : m >= y
      BY <2>1, <2>3, <3>1
    <3>3. CASE m >= x
      BY <2>2, <3>2, <3>3
    <3>4. CASE ~(m >= x)
      <4>1. \A y \in T : x >= y
        BY <2>4, <3>2, <3>4
      <4> QED
        BY <2>2, <4>1
    <3> QED
      BY <3>3, <3>4
  <2> QED
    BY <2>5, <2>6
<1>2. PICK m \in S : \A y \in S : m >= y
  BY <1>1
<1>3. Max(S) \in S /\ \A y \in S : Max(S) >= y
  BY <1>2 DEF Max
<1> QED
  BY <1>3

LEMMA MinOf ==
  ASSUME NEW S \in SUBSET Int, IsFiniteSet(S), S # {}
  PROVE  Min(S) \in S /\ \A y \in S : Min(S) <= y
<1> DEFINE Bottom(T) == \E m \in T : \A y \in T : m =< y
           Bad == {T \in SUBSET S : T # {} /\ ~Bottom(T)}
<1>1. ASSUME Bad # {}
      PROVE  FALSE
  <2>1. PICK T \in Bad : \A x \in T : T \ {x} \notin Bad
    BY <1>1, MinimalSubset
  <2>2. T \subseteq S /\ T # {} /\ ~\E m \in T : \A y \in T : m =< y
    OBVIOUS
  <2>3. PICK x \in T : TRUE
    BY <2>2
  <2>4. x \in Int /\ \A y \in T : y \in Int
    BY <2>2
  <2>5. CASE T = {x}
    BY <2>2, <2>4, <2>5
  <2>6. CASE T # {x}
    <3>1. T \ {x} # {} /\ T \ {x} \in SUBSET S
      BY <2>2, <2>3, <2>6
    <3>2. PICK m \in T \ {x} : \A y \in T \ {x} : m =< y
      BY <2>1, <2>3, <3>1
    <3>3. CASE m =< x
      BY <2>2, <3>2, <3>3
    <3>4. CASE ~(m =< x)
      <4>1. \A y \in T : x =< y
        BY <2>4, <3>2, <3>4
      <4> QED
        BY <2>2, <4>1
    <3> QED
      BY <3>3, <3>4
  <2> QED
    BY <2>5, <2>6
<1>2. PICK m \in S : \A y \in S : m =< y
  BY <1>1
<1> QED
  BY <1>2 DEF Min

(* A member that bounds a set of integers is its greatest, or its least.   *)
LEMMA MaxIs ==
  ASSUME NEW S \in SUBSET Int, NEW m \in S, \A y \in S : y <= m
  PROVE  Max(S) = m
<1>1. \A x \in S : (\A y \in S : x >= y) <=> x = m
  OBVIOUS
<1> QED
  BY <1>1 DEF Max

LEMMA MinIs ==
  ASSUME NEW S \in SUBSET Int, NEW m \in S, \A y \in S : m <= y
  PROVE  Min(S) = m
<1>1. \A x \in S : (\A y \in S : x =< y) <=> x = m
  OBVIOUS
<1> QED
  BY <1>1 DEF Min

-----------------------------------------------------------------------------
(* The sums of the model, as sums of functions on the streams.             *)

\* The packets in the sets r of some streams.
CountSum(r, S) == MapThenSumSet(LAMBDA s : Cardinality(r[s]), S)

Counted(r) == [s \in Ssrcs |-> Cardinality(r[s])]

\* The gaps opened in streams that begin at f, of which r arrived, o late.
Opened(f, r, o, s) ==
  Cardinality((f[s] .. Max(r[s])) \ r[s]) + Cardinality({i \in o[s] : i > f[s]})

GapSum(f, r, o, S) == MapThenSumSet(LAMBDA s : Opened(f, r, o, s), S)

Gaps(f, r, o) == [s \in Ssrcs |-> Opened(f, r, o, s)]

LEMMA CountIsSum ==
  ASSUME NEW r, NEW S \in SUBSET Ssrcs
  PROVE  CountSum(r, S) = SumOf(Counted(r), S)
<1> DEFINE Step(it) ==
      [s \in SUBSET S |-> IF s = {} THEN 0
                          ELSE Cardinality(r[CHOOSE x \in s : TRUE])
                                 + it[s \ {CHOOSE x \in s : TRUE}]]
           Same(it) ==
      [s \in SUBSET S |-> IF s = {} THEN 0
                          ELSE Counted(r)[CHOOSE x \in s : TRUE]
                                 + it[s \ {CHOOSE x \in s : TRUE}]]
<1>1. ASSUME NEW it
      PROVE  Step(it) = Same(it)
  <2>1. \A s \in SUBSET S : s # {} =>
          Cardinality(r[CHOOSE x \in s : TRUE]) = Counted(r)[CHOOSE x \in s : TRUE]
    BY DEF Counted
  <2> QED
    BY <2>1
<1>2. CountSum(r, S) = (CHOOSE it : it = Step(it))[S]
  BY DEF CountSum, MapThenSumSet, MapThenFoldSet
<1>3. SumOf(Counted(r), S) = (CHOOSE it : it = Same(it))[S]
  BY DEF SumOf, MapThenSumSet, MapThenFoldSet
<1> HIDE DEF Step, Same
<1>4. (CHOOSE it : it = Step(it)) = (CHOOSE it : it = Same(it))
  BY <1>1
<1> QED
  BY <1>2, <1>3, <1>4

LEMMA GapIsSum ==
  ASSUME NEW f, NEW r, NEW o, NEW S \in SUBSET Ssrcs
  PROVE  GapSum(f, r, o, S) = SumOf(Gaps(f, r, o), S)
<1> DEFINE Step(it) ==
      [s \in SUBSET S |-> IF s = {} THEN 0
                          ELSE Opened(f, r, o, CHOOSE x \in s : TRUE)
                                 + it[s \ {CHOOSE x \in s : TRUE}]]
           Same(it) ==
      [s \in SUBSET S |-> IF s = {} THEN 0
                          ELSE Gaps(f, r, o)[CHOOSE x \in s : TRUE]
                                 + it[s \ {CHOOSE x \in s : TRUE}]]
<1>1. ASSUME NEW it
      PROVE  Step(it) = Same(it)
  <2>1. \A s \in SUBSET S : s # {} =>
          Opened(f, r, o, CHOOSE x \in s : TRUE) = Gaps(f, r, o)[CHOOSE x \in s : TRUE]
    BY DEF Gaps
  <2> QED
    BY <2>1
<1>2. GapSum(f, r, o, S) = (CHOOSE it : it = Step(it))[S]
  BY DEF GapSum, MapThenSumSet, MapThenFoldSet
<1>3. SumOf(Gaps(f, r, o), S) = (CHOOSE it : it = Same(it))[S]
  BY DEF SumOf, MapThenSumSet, MapThenFoldSet
<1> HIDE DEF Step, Same
<1>4. (CHOOSE it : it = Step(it)) = (CHOOSE it : it = Same(it))
  BY <1>1
<1> QED
  BY <1>2, <1>3, <1>4

\* The properties of NetworkMetrics and the clock in these terms.
LEMMA PacketsAsSums ==
  PacketsCountedOnce <=>
    \A d \in Direction :
      exported[d].packets + bin[d].packets = CountSum(received, StreamsOf(d))
BY DEF PacketsCountedOnce, CountSum

LEMMA LossAsSums ==
  LossIsGapsOpened <=>
    \A d \in Direction :
      exported[d].lost + bin[d].lost = GapSum(first, received, overtaken, StreamsOf(d))
BY DEF LossIsGapsOpened, GapSum, Opened, Missing, Late, Newest

LEMMA NowAsSum == Now = CountSum(received, Ssrcs)
BY DEF Now, CountSum

-----------------------------------------------------------------------------
(* The network metrics: counters per direction, and what seq_state knows   *)
(* of each stream.                                                         *)

\* Sequence numbers of packets less than half the circle apart; the width of
\* the window plays no part.
Circle == INSTANCE DedupWindowProof WITH Window <- 1

Counts == [packets : Nat, lost : Nat]

\* seq_state holds the sequence number of the newest packet of a stream.
StreamInv(s) ==
  /\ IsFiniteSet(received[s]) /\ overtaken[s] \subseteq received[s]
  /\ s \in DOMAIN first <=> received[s] # {}
  /\ s \in DOMAIN first => first[s] \in received[s] /\ seq_state[s] = Seq16(Newest(s))

NetworkInv ==
  /\ bin \in [Direction -> Counts] /\ exported \in [Direction -> Counts]
  /\ received \in [Ssrcs -> SUBSET Int] /\ overtaken \in [Ssrcs -> SUBSET Int]
  /\ DOMAIN first \subseteq Ssrcs /\ DOMAIN seq_state = DOMAIN first
  /\ \A s \in Ssrcs : StreamInv(s)

(* The distance on the circle is the distance of the packets.              *)
LEMMA DiffIsDistance ==
  ASSUME NEW i \in Int, NEW n \in Int, n - Reach <= i, i <= n + Reach
  PROVE  Diff(Seq16(i), Seq16(n)) = i - n
<1>1. SeqMod \in Nat \ {0} /\ SeqMod % 2 = 0 /\ Reach \in Nat /\ 2 * Reach < SeqMod
  BY NetworkAssumption
<1>2. SeqMod \in Int /\ 1 \in Nat \ {0} /\ 2 * 1 <= SeqMod
  BY <1>1
<1>3. Circle!DedupAssumption
  BY <1>1, <1>2 DEF Circle!DedupAssumption
<1>4. Circle!Half \in Nat /\ SeqMod = 2 * Circle!Half
  BY <1>3, Circle!HalfFacts
<1>5. -Circle!Half <= i - n /\ i - n < Circle!Half
  BY <1>1, <1>4
<1>6. Circle!Diff(i % SeqMod, n % SeqMod) = i - n
  BY <1>3, <1>5, Circle!DiffUnique
<1> QED
  BY <1>6 DEF Diff, Seq16, Circle!Diff, Circle!Half

(* What a packet does to its stream: the newest packet moves only forward, *)
(* and what is added to the losses is the gap before it.                   *)
LEMMA Arrival ==
  ASSUME NetworkInv, NEW s \in Ssrcs, NEW i \in Index[s], ProcessPacket(s, i)
  PROVE  /\ i \in Int \ received[s]
         /\ received' = [received EXCEPT ![s] = received[s] \cup {i}]
         /\ received[s] # {} =>
              /\ Newest(s) \in received[s] /\ Newest(s) \in Int
              /\ \A y \in received[s] : y <= Newest(s)
         /\ Max(received'[s]) = IF received[s] # {} /\ i < Newest(s) THEN Newest(s) ELSE i
         /\ LostThisPacket(s, Seq16(i)) =
              IF received[s] # {} /\ i > Newest(s) THEN i - Newest(s) - 1 ELSE 0
         /\ LastSeq(s, Seq16(i))[s] = Seq16(Max(received'[s]))
<1>1. i \in Int \ received[s] /\ received[s] \in SUBSET Int
  BY NetworkAssumption DEF NetworkInv, ProcessPacket, CanArrive
<1>2. received' = [received EXCEPT ![s] = received[s] \cup {i}]
  BY DEF ProcessPacket
<1>3. received'[s] = received[s] \cup {i}
  BY <1>2 DEF NetworkInv
<1>4. StreamInv(s)
  BY DEF NetworkInv
<1>5. CASE received[s] = {}
  <2>1. received'[s] = {i} /\ i \in {i} /\ \A y \in {i} : y <= i
    BY <1>1, <1>3, <1>5
  <2>2. Max(received'[s]) = i
    BY <1>1, <2>1, MaxIs
  <2>3. s \notin DOMAIN seq_state
    BY <1>4, <1>5 DEF NetworkInv, StreamInv
  <2>4. LostThisPacket(s, Seq16(i)) = 0
    BY <2>3 DEF LostThisPacket
  <2>5. LastSeq(s, Seq16(i))[s] = Seq16(i)
    BY <2>3 DEF LastSeq
  <2> QED
    BY <1>1, <1>2, <1>5, <2>2, <2>4, <2>5
<1>6. CASE received[s] # {}
  <2> DEFINE n == Newest(s)
             q == Seq16(i)
  <2>1. n \in received[s] /\ n \in Int /\ \A y \in received[s] : y <= n
    BY <1>1, <1>4, <1>6, MaxOf DEF StreamInv, Newest
  <2>2. n - Reach <= i /\ i <= n + Reach
    BY <1>6 DEF ProcessPacket, CanArrive
  <2>3. s \in DOMAIN seq_state /\ seq_state[s] = Seq16(n)
    BY <1>4, <1>6 DEF NetworkInv, StreamInv
  <2>4. Diff(q, seq_state[s]) = i - n
    BY <1>1, <2>1, <2>2, <2>3, DiffIsDistance
  <2>5. i # n
    BY <1>1, <2>1
  <2> HIDE DEF n
  <2>6. LostThisPacket(s, q) = IF i > n THEN i - n - 1 ELSE 0
    <3> HIDE DEF q
    <3>1. LostThisPacket(s, q) = IF i - n > 1 THEN i - n - 1 ELSE 0
      BY <2>3, <2>4 DEF LostThisPacket
    <3> QED
      BY <1>1, <2>1, <3>1
  <2>7. LastSeq(s, q)[s] = IF i > n THEN q ELSE Seq16(n)
    <3> HIDE DEF q
    <3>1. LastSeq(s, q)[s] = IF i - n > 0 THEN q ELSE seq_state[s]
      BY <2>3, <2>4 DEF LastSeq
    <3> QED
      BY <1>1, <2>1, <2>3, <3>1
  <2>8. Max(received'[s]) = IF i < n THEN n ELSE i
    <3>1. received'[s] \in SUBSET Int
      BY <1>1, <1>3
    <3>2. CASE i < n
      <4>1. n \in received'[s] /\ \A y \in received'[s] : y <= n
        BY <1>1, <1>3, <2>1, <3>2
      <4> QED
        BY <3>1, <3>2, <4>1, MaxIs
    <3>3. CASE ~(i < n)
      <4>1. i \in received'[s] /\ \A y \in received'[s] : y <= i
        BY <1>1, <1>3, <2>1, <3>3
      <4> QED
        BY <3>1, <3>3, <4>1, MaxIs
    <3> QED
      BY <3>2, <3>3
  <2>9. LastSeq(s, q)[s] = Seq16(Max(received'[s]))
    BY <1>1, <2>1, <2>5, <2>7, <2>8
  <2> QED
    BY <1>1, <1>2, <1>6, <2>1, <2>6, <2>8, <2>9 DEF n
<1> QED
  BY <1>5, <1>6

(* Each part of the network metrics after a packet.                        *)
LEMMA ArrivalBin ==
  ASSUME NetworkInv, NEW s \in Ssrcs, NEW i \in Index[s], ProcessPacket(s, i)
  PROVE  /\ bin' \in [Direction -> Counts]
         /\ \A d \in Direction :
              /\ bin'[d].packets = bin[d].packets + (IF d = DirectionOf(s) THEN 1 ELSE 0)
              /\ bin'[d].lost = bin[d].lost
                   + (IF d = DirectionOf(s) THEN LostThisPacket(s, Seq16(i)) ELSE 0)
<1> DEFINE x == LostThisPacket(s, Seq16(i))
           e == DirectionOf(s)
<1>1. x \in Nat
  <2>1. i \in Int /\ x = IF received[s] # {} /\ i > Newest(s) THEN i - Newest(s) - 1 ELSE 0
    BY Arrival
  <2>2. received[s] # {} => Newest(s) \in Int
    BY Arrival
  <2> HIDE DEF x
  <2> QED
    BY <2>1, <2>2
<1>2. bin' = [bin EXCEPT ![e] = [packets |-> bin[e].packets + 1, lost |-> bin[e].lost + x]]
  BY DEF ProcessPacket
<1>3. e \in Direction /\ bin \in [Direction -> Counts]
  BY DEF DirectionOf, Direction, NetworkInv
<1> HIDE DEF x, e
<1>4. \A d \in Direction :
        bin[d] \in Counts /\ bin[d].packets \in Nat /\ bin[d].lost \in Nat
  BY <1>3 DEF Counts
<1>5. [packets |-> bin[e].packets + 1, lost |-> bin[e].lost + x] \in Counts
  BY <1>1, <1>3, <1>4 DEF Counts
<1>6. bin' \in [Direction -> Counts]
  BY <1>2, <1>3, <1>5
<1>7. \A d \in Direction :
        /\ bin'[d].packets = bin[d].packets + (IF d = e THEN 1 ELSE 0)
        /\ bin'[d].lost = bin[d].lost + (IF d = e THEN x ELSE 0)
  BY <1>1, <1>2, <1>3, <1>4
<1> QED
  BY <1>6, <1>7 DEF x, e

LEMMA ArrivalStreams ==
  ASSUME NetworkInv, NEW s \in Ssrcs, NEW i \in Index[s], ProcessPacket(s, i)
  PROVE  /\ DOMAIN first' = DOMAIN first \cup {s} /\ DOMAIN seq_state' = DOMAIN first'
         /\ \A t \in DOMAIN first : first'[t] = first[t]
         /\ first'[s] = (IF received[s] = {} THEN i ELSE first[s])
         /\ \A t \in Ssrcs \ {s} : /\ received'[t] = received[t]
                                   /\ overtaken'[t] = overtaken[t]
         /\ \A t \in DOMAIN first \ {s} : seq_state'[t] = seq_state[t]
         /\ received'[s] = received[s] \cup {i}
         /\ overtaken'[s] = overtaken[s]
              \cup (IF received[s] # {} /\ i < Newest(s) THEN {i} ELSE {})
         /\ seq_state'[s] = Seq16(Max(received'[s]))
<1>1. DOMAIN seq_state = DOMAIN first /\ DOMAIN first \subseteq Ssrcs
      /\ (s \in DOMAIN first <=> received[s] # {})
      /\ received \in [Ssrcs -> SUBSET Int] /\ overtaken \in [Ssrcs -> SUBSET Int]
  BY DEF NetworkInv, StreamInv
<1>2. first' = [t \in DOMAIN first \cup {s} |-> IF t \in DOMAIN first THEN first[t] ELSE i]
  BY DEF ProcessPacket
<1>3. seq_state' = LastSeq(s, Seq16(i))
  BY DEF ProcessPacket
<1>4. received' = [received EXCEPT ![s] = received[s] \cup {i}]
  BY DEF ProcessPacket
<1>5. overtaken' = IF received[s] # {} /\ i < Newest(s)
                   THEN [overtaken EXCEPT ![s] = overtaken[s] \cup {i}] ELSE overtaken
  BY DEF ProcessPacket
<1>6. seq_state'[s] = Seq16(Max(received'[s]))
  BY <1>3, Arrival
<1>7. DOMAIN seq_state' = DOMAIN first \cup {s}
      /\ \A t \in DOMAIN first \ {s} : seq_state'[t] = seq_state[t]
  BY <1>1, <1>3 DEF LastSeq
<1>8. DOMAIN first' = DOMAIN first \cup {s}
      /\ (\A t \in DOMAIN first : first'[t] = first[t])
      /\ first'[s] = (IF received[s] = {} THEN i ELSE first[s])
  BY <1>1, <1>2
<1>9. /\ \A t \in Ssrcs \ {s} : received'[t] = received[t] /\ overtaken'[t] = overtaken[t]
      /\ received'[s] = received[s] \cup {i}
      /\ overtaken'[s] = overtaken[s]
              \cup (IF received[s] # {} /\ i < Newest(s) THEN {i} ELSE {})
  BY <1>1, <1>4, <1>5
<1> QED
  BY <1>6, <1>7, <1>8, <1>9

LEMMA NetworkInvInit == NetworkInit => NetworkInv
<1> SUFFICES ASSUME NetworkInit PROVE NetworkInv
  OBVIOUS
<1>1. bin \in [Direction -> Counts] /\ exported \in [Direction -> Counts]
  BY DEF NetworkInit, NoTraffic, Counts
<1>2. received \in [Ssrcs -> SUBSET Int] /\ overtaken \in [Ssrcs -> SUBSET Int]
  BY DEF NetworkInit
<1>3. DOMAIN first = {} /\ DOMAIN seq_state = {}
  BY DEF NetworkInit
<1>4. ASSUME NEW s \in Ssrcs
      PROVE  StreamInv(s)
  BY <1>3, FS_EmptySet DEF NetworkInit, StreamInv
<1> QED
  BY <1>1, <1>2, <1>3, <1>4 DEF NetworkInv

LEMMA NetworkInvPacket ==
  ASSUME NetworkInv, NEW s \in Ssrcs, NEW i \in Index[s], ProcessPacket(s, i)
  PROVE  NetworkInv'
<1>1. bin' \in [Direction -> Counts] /\ exported' \in [Direction -> Counts]
  BY ArrivalBin DEF NetworkInv, ProcessPacket
<1>2. i \in Int
  BY Arrival
<1>3. received' \in [Ssrcs -> SUBSET Int] /\ overtaken' \in [Ssrcs -> SUBSET Int]
  BY <1>2 DEF NetworkInv, ProcessPacket
<1>4. DOMAIN first' \subseteq Ssrcs /\ DOMAIN seq_state' = DOMAIN first'
  BY ArrivalStreams DEF NetworkInv
<1>5. ASSUME NEW t \in Ssrcs
      PROVE  StreamInv(t)'
  <2>1. StreamInv(t) /\ StreamInv(s) /\ DOMAIN seq_state = DOMAIN first
    BY DEF NetworkInv
  <2>2. CASE t # s
    <3>1. received'[t] = received[t] /\ overtaken'[t] = overtaken[t]
          /\ (t \in DOMAIN first' <=> t \in DOMAIN first)
          /\ (t \in DOMAIN first => first'[t] = first[t] /\ seq_state'[t] = seq_state[t])
      <4>1. /\ DOMAIN first' = DOMAIN first \cup {s}
            /\ \A u \in DOMAIN first : first'[u] = first[u]
            /\ \A u \in Ssrcs \ {s} : received'[u] = received[u] /\ overtaken'[u] = overtaken[u]
            /\ \A u \in DOMAIN first \ {s} : seq_state'[u] = seq_state[u]
        BY ArrivalStreams
      <4> QED
        BY <2>2, <4>1
    <3>2. Newest(t)' = Newest(t)
      BY <3>1 DEF Newest
    <3> QED
      BY <2>1, <3>1, <3>2 DEF StreamInv, Seq16
  <2>3. CASE t = s
    <3>1. /\ received'[s] = received[s] \cup {i}
          /\ overtaken'[s] \subseteq overtaken[s] \cup {i}
          /\ s \in DOMAIN first'
          /\ first'[s] = (IF received[s] = {} THEN i ELSE first[s])
          /\ seq_state'[s] = Seq16(Max(received'[s]))
      BY ArrivalStreams
    <3>2. IsFiniteSet(received'[s])
      BY <2>1, <3>1, FS_AddElement DEF StreamInv
    <3>3. first'[s] \in received'[s]
      BY <2>1, <3>1 DEF StreamInv
    <3>4. overtaken'[s] \subseteq received'[s]
      BY <2>1, <3>1 DEF StreamInv
    <3> QED
      BY <2>3, <3>1, <3>2, <3>3, <3>4 DEF StreamInv, Newest, Seq16
  <2> QED
    BY <2>2, <2>3
<1> QED
  BY <1>1, <1>3, <1>4, <1>5 DEF NetworkInv

(* A flush moves the counters of the bin to what has been exported.        *)
LEMMA ResetCounts ==
  ASSUME NetworkInv, ResetBin
  PROVE  /\ bin' \in [Direction -> Counts] /\ exported' \in [Direction -> Counts]
         /\ UNCHANGED <<seq_state, received, first, overtaken>>
         /\ \A d \in Direction :
              /\ exported'[d].packets + bin'[d].packets = exported[d].packets + bin[d].packets
              /\ exported'[d].lost + bin'[d].lost = exported[d].lost + bin[d].lost
<1>1. \A d \in Direction :
        /\ bin[d].packets \in Nat /\ bin[d].lost \in Nat
        /\ exported[d].packets \in Nat /\ exported[d].lost \in Nat
  BY DEF NetworkInv, Counts
<1>2. exported' = [d \in Direction |-> [packets |-> exported[d].packets + bin[d].packets,
                                       lost |-> exported[d].lost + bin[d].lost]]
  BY DEF ResetBin
<1>3. bin' = [d \in Direction |-> [packets |-> 0, lost |-> 0]]
  BY DEF ResetBin, NoTraffic
<1>4. UNCHANGED <<seq_state, received, first, overtaken>>
  BY DEF ResetBin, history
<1>5. bin' \in [Direction -> Counts]
  BY <1>3 DEF Counts
<1>6. exported' \in [Direction -> Counts]
  BY <1>1, <1>2 DEF Counts
<1>7. \A d \in Direction :
        /\ exported'[d].packets + bin'[d].packets = exported[d].packets + bin[d].packets
        /\ exported'[d].lost + bin'[d].lost = exported[d].lost + bin[d].lost
  BY <1>1, <1>2, <1>3
<1> QED
  BY <1>4, <1>5, <1>6, <1>7

LEMMA NetworkInvReset ==
  ASSUME NetworkInv, ResetBin
  PROVE  NetworkInv'
<1>1. bin' \in [Direction -> Counts] /\ exported' \in [Direction -> Counts]
  BY ResetCounts
<1>2. UNCHANGED <<seq_state, received, first, overtaken>>
  BY ResetCounts
<1> QED
  BY <1>1, <1>2 DEF NetworkInv, StreamInv, Newest, Seq16

LEMMA NetworkInvStutter ==
  ASSUME NetworkInv, UNCHANGED network
  PROVE  NetworkInv'
BY DEF NetworkInv, StreamInv, Newest, Seq16, network, history

(* The gaps of a stream are a number.                                      *)
LEMMA OpenedType ==
  ASSUME NetworkInv, NEW s \in DOMAIN first
  PROVE  Opened(first, received, overtaken, s) \in Nat
<1>1. s \in Ssrcs /\ received[s] \in SUBSET Int /\ StreamInv(s)
  BY DEF NetworkInv
<1>2. IsFiniteSet(received[s]) /\ overtaken[s] \subseteq received[s] /\ first[s] \in received[s]
  BY <1>1 DEF StreamInv
<1>3. Max(received[s]) \in received[s]
  BY <1>1, <1>2, MaxOf
<1>4. IsFiniteSet(first[s] .. Max(received[s]))
  BY <1>1, <1>2, <1>3, FS_Interval
<1>5. IsFiniteSet((first[s] .. Max(received[s])) \ received[s])
  BY <1>4, FS_Subset
<1>6. IsFiniteSet({i \in overtaken[s] : i > first[s]})
  BY <1>2, FS_Subset
<1> QED
  BY <1>5, <1>6, FS_CardinalityType DEF Opened

(* A packet opens, in its stream, the gap that it adds to the losses; one  *)
(* that comes late turns from missing into late.                           *)
LEMMA GapOpens ==
  ASSUME NetworkInv, NEW s \in Ssrcs, NEW i \in Index[s], ProcessPacket(s, i)
  PROVE  /\ s \in DOMAIN first => Opened(first, received, overtaken, s) \in Nat
         /\ LostThisPacket(s, Seq16(i)) \in Nat
         /\ Opened(first', received', overtaken', s) =
              (IF s \in DOMAIN first THEN Opened(first, received, overtaken, s) ELSE 0)
                + LostThisPacket(s, Seq16(i))
<1> DEFINE r == received[s]
           n == Newest(s)
           lost == LostThisPacket(s, Seq16(i))
           f == first[s]
           o == overtaken[s]
           M == (f .. n) \ r
           L == {j \in o : j > f}
           N == (first'[s] .. Max(received'[s])) \ received'[s]
           K == {j \in overtaken'[s] : j > first'[s]}
<1>1. i \in Int /\ i \notin r /\ r \subseteq Int /\ o \subseteq r /\ IsFiniteSet(r)
      /\ (s \in DOMAIN first <=> r # {}) /\ (r # {} => f \in r)
  BY Arrival DEF NetworkInv, StreamInv
<1>2. r # {} => n \in r /\ n \in Int /\ \A y \in r : y <= n
  BY Arrival
<1>3. lost = (IF r # {} /\ i > n THEN i - n - 1 ELSE 0)
      /\ Max(received'[s]) = (IF r # {} /\ i < n THEN n ELSE i)
  BY Arrival
<1>4. received'[s] = r \cup {i}
      /\ first'[s] = (IF r = {} THEN i ELSE f)
      /\ overtaken'[s] = o \cup (IF r # {} /\ i < n THEN {i} ELSE {})
  BY ArrivalStreams
<1>5. Opened(first, received, overtaken, s) = Cardinality(M) + Cardinality(L)
  BY DEF Opened, Newest
<1>6. Opened(first', received', overtaken', s) = Cardinality(N) + Cardinality(K)
  BY DEF Opened
<1>7. IsFiniteSet(L)
  BY <1>1, FS_Subset
<1> HIDE DEF r, n, lost, f, o, N, K
<1>8. ASSUME r # {}
      PROVE  /\ f \in Int /\ f <= n /\ n \in Int
             /\ IsFiniteSet(M) /\ Cardinality(M) \in Nat /\ Cardinality(L) \in Nat
  <2>1. f \in Int /\ f <= n /\ n \in Int
    BY <1>1, <1>2, <1>8
  <2>2. IsFiniteSet(f .. n)
    BY <2>1, FS_Interval
  <2>3. IsFiniteSet(M)
    BY <2>2, FS_Subset
  <2> QED
    BY <1>7, <2>1, <2>3, FS_CardinalityType
<1>9. CASE r = {}
  <2>1. N = {} /\ K = {}
    <3>1. first'[s] = i /\ Max(received'[s]) = i /\ received'[s] = {i} /\ overtaken'[s] = {}
      BY <1>1, <1>3, <1>4, <1>9
    <3> QED
      BY <1>1, <3>1 DEF N, K
  <2>2. Cardinality(N) = 0 /\ Cardinality(K) = 0
    BY <2>1, FS_EmptySet
  <2> QED
    BY <1>1, <1>3, <1>6, <1>9, <2>2 DEF lost
<1>10. CASE r # {} /\ i > n
  <2> DEFINE G == (n + 1) .. (i - 1)
  <2>1. N = M \cup G /\ M \cap G = {} /\ K = L
    <3>1. first'[s] = f /\ Max(received'[s]) = i /\ received'[s] = r \cup {i}
          /\ overtaken'[s] = o
      BY <1>1, <1>2, <1>3, <1>4, <1>10
    <3>2. K = L
      BY <3>1 DEF K
    <3>3. N = (f .. i) \ (r \cup {i})
      BY <3>1 DEF N
    <3>4. (f .. i) \ (r \cup {i}) = M \cup G
      BY <1>1, <1>2, <1>8, <1>10
    <3>5. M \cap G = {}
      BY <1>8, <1>10
    <3> QED
      BY <3>2, <3>3, <3>4, <3>5
  <2>2. IsFiniteSet(G) /\ Cardinality(G) = i - n - 1
    <3>1. n + 1 \in Int /\ i - 1 \in Int
      BY <1>1, <1>8, <1>10
    <3>2. IsFiniteSet(G)
          /\ Cardinality(G) = IF n + 1 > i - 1 THEN 0 ELSE (i - 1) - (n + 1) + 1
      BY <3>1, FS_Interval
    <3> HIDE DEF G
    <3> QED
      BY <1>1, <1>8, <1>10, <3>2
  <2> HIDE DEF G, M, L
  <2>3. Cardinality(N) = Cardinality(M) + Cardinality(G)
    <3>1. Cardinality(M \cup G) = Cardinality(M) + Cardinality(G) - Cardinality({})
      BY <1>8, <1>10, <2>1, <2>2, FS_Union
    <3>2. i - n - 1 \in Int
      BY <1>1, <1>8, <1>10
    <3> QED
      BY <1>8, <1>10, <2>1, <2>2, <3>1, <3>2, FS_EmptySet
  <2>4. lost = i - n - 1 /\ lost \in Nat
    BY <1>1, <1>3, <1>8, <1>10
  <2> QED
    BY <1>1, <1>5, <1>6, <1>8, <1>10, <2>1, <2>2, <2>3, <2>4 DEF lost
<1>11. CASE r # {} /\ ~(i > n)
  <2>0. i < n /\ i # f /\ i # n
    BY <1>1, <1>2, <1>8, <1>11
  <2>1. first'[s] = f /\ Max(received'[s]) = n /\ received'[s] = r \cup {i}
        /\ overtaken'[s] = o \cup {i} /\ lost = 0
    BY <1>3, <1>4, <1>11, <2>0
  <2>2. N = M \ {i}
    BY <2>1 DEF N
  <2>3. CASE i > f
    <3>1. K = L \cup {i} /\ i \notin L /\ i \in M
      BY <1>1, <1>8, <1>11, <2>0, <2>1, <2>3 DEF K
    <3> HIDE DEF M, L
    <3>2. Cardinality(K) = Cardinality(L) + 1 /\ Cardinality(N) = Cardinality(M) - 1
      BY <1>7, <1>8, <1>11, <2>2, <3>1, FS_AddElement, FS_RemoveElement
    <3> QED
      BY <1>1, <1>5, <1>6, <1>8, <1>11, <2>1, <3>2 DEF lost
  <2>4. CASE ~(i > f)
    <3>1. K = L /\ N = M
      BY <1>1, <1>8, <1>11, <2>0, <2>1, <2>2, <2>4 DEF K
    <3> HIDE DEF M, L
    <3> QED
      BY <1>1, <1>5, <1>6, <1>8, <1>11, <2>1, <3>1 DEF lost
  <2> QED
    BY <2>3, <2>4
<1> QED
  BY <1>9, <1>10, <1>11

(* The streams of a direction are finitely many; a packet adds its own.    *)
LEMMA StreamsOfType ==
  ASSUME NetworkInv, NEW d
  PROVE  /\ StreamsOf(d) \subseteq Ssrcs /\ IsFiniteSet(StreamsOf(d))
         /\ StreamsOf(d) \subseteq DOMAIN first
<1>1. StreamsOf(d) \in SUBSET Ssrcs /\ IsFiniteSet(Ssrcs)
  BY NetworkAssumption DEF NetworkInv, StreamsOf
<1> QED
  BY <1>1, FS_Subset DEF StreamsOf

LEMMA StreamsOfGrow ==
  ASSUME NetworkInv, NEW s \in Ssrcs, NEW i \in Index[s], ProcessPacket(s, i),
         NEW d \in Direction
  PROVE  /\ d = DirectionOf(s) =>
              /\ StreamsOf(d)' = StreamsOf(d) \cup {s}
              /\ s \in StreamsOf(d) <=> s \in DOMAIN first
         /\ d # DirectionOf(s) =>
              /\ StreamsOf(d)' = StreamsOf(d)
              /\ s \notin StreamsOf(d)
<1>1. DOMAIN first' = DOMAIN first \cup {s}
  BY ArrivalStreams
<1>2. (("dst" \in Servers[s]) <=> (d = "uplink")) <=> d = DirectionOf(s)
  BY DEF DirectionOf, Direction
<1> QED
  BY <1>1, <1>2 DEF StreamsOf

(* A packet is counted once among the packets of any set of streams that   *)
(* its stream belongs to from now on.                                      *)
LEMMA CountStep ==
  ASSUME NetworkInv, NEW s \in Ssrcs, NEW i \in Index[s], ProcessPacket(s, i),
         NEW S \in SUBSET Ssrcs
  PROVE  s \in S \/ received[s] = {} =>
           CountSum(received', S \cup {s}) = CountSum(received, S) + 1
<1> DEFINE h == Counted(received)
           k == Counted(received')
           W == S \cup {s}
<1>1. S \in SUBSET Ssrcs /\ IsFiniteSet(S) /\ W \in SUBSET Ssrcs
  BY NetworkAssumption, FS_Subset
<1>2. \A y \in Ssrcs : IsFiniteSet(received[y]) /\ h[y] = Cardinality(received[y])
                        /\ k[y] = Cardinality(received'[y])
  BY DEF NetworkInv, StreamInv, Counted
<1>3. \A y \in S : h[y] \in Int
  BY <1>2, FS_CardinalityType
<1>4. \A y \in S \ {s} : k[y] = h[y]
  <2>1. \A t \in Ssrcs \ {s} : received'[t] = received[t]
    BY ArrivalStreams
  <2> QED
    BY <1>2, <2>1
<1>5. k[s] = h[s] + 1 /\ h[s] \in Nat
  <2>1. received'[s] = received[s] \cup {i} /\ i \notin received[s]
    BY Arrival, ArrivalStreams
  <2> QED
    BY <1>2, <2>1, FS_AddElement, FS_CardinalityType
<1>6. received[s] = {} => h[s] = 0
  BY <1>2, FS_EmptySet
<1> HIDE DEF h, k, W
<1>7. k[s] \in Int
  BY <1>5
<1>8. /\ SumOf(h, S) \in Int
      /\ s \in S => SumOf(k, W) = SumOf(h, S) + (k[s] - h[s])
      /\ s \notin S => SumOf(k, W) = SumOf(h, S) + k[s]
  <2>1. W = S \cup {s}
    BY DEF W
  <2> QED
    BY <1>1, <1>3, <1>4, <1>7, <2>1, SumChange
<1>9. CountSum(received, S) = SumOf(h, S)
  BY CountIsSum DEF h
<1>10. CountSum(received', W) = SumOf(k, W)
  BY <1>1, CountIsSum DEF k
<1> QED
  BY <1>5, <1>6, <1>8, <1>9, <1>10 DEF W

(* Nothing changes for streams that the packet is not of.                  *)
LEMMA CountOthers ==
  ASSUME NetworkInv, NEW s \in Ssrcs, NEW i \in Index[s], ProcessPacket(s, i),
         NEW S \in SUBSET Ssrcs, s \notin S
  PROVE  CountSum(received', S) = CountSum(received, S)
<1> DEFINE h == Counted(received)
           k == Counted(received')
<1>1. IsFiniteSet(S)
  BY NetworkAssumption, FS_Subset
<1>2. \A y \in Ssrcs : IsFiniteSet(received[y]) /\ h[y] = Cardinality(received[y])
                        /\ k[y] = Cardinality(received'[y])
  BY DEF NetworkInv, StreamInv, Counted
<1>3. \A y \in S : h[y] \in Int
  BY <1>2, FS_CardinalityType
<1>4. \A y \in S : k[y] = h[y]
  <2>1. \A t \in Ssrcs \ {s} : received'[t] = received[t]
    BY ArrivalStreams
  <2> QED
    BY <1>2, <2>1
<1> HIDE DEF h, k
<1>5. SumOf(k, S) = SumOf(h, S)
  BY <1>1, <1>3, <1>4, SumSame
<1> QED
  BY <1>5, CountIsSum DEF h, k

(* The same for the gaps.                                                  *)
LEMMA GapStep ==
  ASSUME NetworkInv, NEW s \in Ssrcs, NEW i \in Index[s], ProcessPacket(s, i),
         NEW S \in SUBSET DOMAIN first, s \in S <=> s \in DOMAIN first
  PROVE  GapSum(first', received', overtaken', S \cup {s})
           = GapSum(first, received, overtaken, S) + LostThisPacket(s, Seq16(i))
<1> DEFINE h == Gaps(first, received, overtaken)
           k == Gaps(first', received', overtaken')
           W == S \cup {s}
           e == LostThisPacket(s, Seq16(i))
<1>1. S \in SUBSET Ssrcs /\ IsFiniteSet(S) /\ W \in SUBSET Ssrcs
  BY NetworkAssumption, FS_Subset DEF NetworkInv
<1>2. \A y \in Ssrcs : h[y] = Opened(first, received, overtaken, y)
                        /\ k[y] = Opened(first', received', overtaken', y)
  BY DEF Gaps
<1>3. \A y \in S : h[y] \in Int
  BY <1>1, <1>2, OpenedType
<1>4. \A y \in S \ {s} : k[y] = h[y]
  <2> SUFFICES ASSUME NEW y \in S \ {s} PROVE k[y] = h[y]
    OBVIOUS
  <2>1. first'[y] = first[y] /\ received'[y] = received[y] /\ overtaken'[y] = overtaken[y]
    <3>1. /\ \A t \in DOMAIN first : first'[t] = first[t]
          /\ \A t \in Ssrcs \ {s} : /\ received'[t] = received[t]
                                    /\ overtaken'[t] = overtaken[t]
      BY ArrivalStreams
    <3> QED
      BY <1>1, <3>1
  <2>2. Opened(first, received, overtaken, y) = Opened(first', received', overtaken', y)
    BY <2>1 DEF Opened
  <2> QED
    BY <1>1, <1>2, <2>2
<1>5. e \in Int /\ (s \in S => k[s] = h[s] + e) /\ (s \notin S => k[s] = e)
  <2>1. /\ e \in Nat
        /\ k[s] = (IF s \in DOMAIN first THEN h[s] ELSE 0) + e
    BY <1>2, GapOpens
  <2> HIDE DEF h, k, e
  <2> QED
    BY <2>1
<1> HIDE DEF h, k, e, W
<1>6. SumOf(k, W) = SumOf(h, S) + e
  <2>1. k[s] \in Int /\ W = S \cup {s}
    BY <1>3, <1>5 DEF W
  <2>2. /\ SumOf(h, S) \in Int
        /\ s \in S => SumOf(k, W) = SumOf(h, S) + (k[s] - h[s])
        /\ s \notin S => SumOf(k, W) = SumOf(h, S) + k[s]
    BY <1>1, <1>3, <1>4, <2>1, SumChange
  <2> QED
    BY <1>3, <1>5, <2>1, <2>2
<1>7. GapSum(first, received, overtaken, S) = SumOf(h, S)
  BY <1>1, GapIsSum DEF h
<1>8. GapSum(first', received', overtaken', W) = SumOf(k, W)
  BY <1>1, GapIsSum DEF k
<1> QED
  BY <1>6, <1>7, <1>8 DEF e, W

LEMMA GapOthers ==
  ASSUME NetworkInv, NEW s \in Ssrcs, NEW i \in Index[s], ProcessPacket(s, i),
         NEW S \in SUBSET DOMAIN first, s \notin S
  PROVE  GapSum(first', received', overtaken', S) = GapSum(first, received, overtaken, S)
<1> DEFINE h == Gaps(first, received, overtaken)
           k == Gaps(first', received', overtaken')
<1>1. S \in SUBSET Ssrcs /\ IsFiniteSet(S)
  BY NetworkAssumption, FS_Subset DEF NetworkInv
<1>2. \A y \in Ssrcs : h[y] = Opened(first, received, overtaken, y)
                        /\ k[y] = Opened(first', received', overtaken', y)
  BY DEF Gaps
<1>3. \A y \in S : h[y] \in Int
  BY <1>1, <1>2, OpenedType
<1>4. \A y \in S : k[y] = h[y]
  <2> SUFFICES ASSUME NEW y \in S PROVE k[y] = h[y]
    OBVIOUS
  <2>1. first'[y] = first[y] /\ received'[y] = received[y] /\ overtaken'[y] = overtaken[y]
    <3>1. /\ \A t \in DOMAIN first : first'[t] = first[t]
          /\ \A t \in Ssrcs \ {s} : /\ received'[t] = received[t]
                                    /\ overtaken'[t] = overtaken[t]
      BY ArrivalStreams
    <3> QED
      BY <1>1, <3>1
  <2>2. Opened(first, received, overtaken, y) = Opened(first', received', overtaken', y)
    BY <2>1 DEF Opened
  <2> QED
    BY <1>1, <1>2, <2>2
<1> HIDE DEF h, k
<1>5. SumOf(k, S) = SumOf(h, S)
  BY <1>1, <1>3, <1>4, SumSame
<1> QED
  BY <1>1, <1>5, GapIsSum DEF h, k

-----------------------------------------------------------------------------
(* The two counts of a direction and the sums they are to equal.           *)

LEMMA PacketsAsSumsNext ==
  PacketsCountedOnce' <=>
    \A d \in Direction :
      exported'[d].packets + bin'[d].packets = CountSum(received', StreamsOf(d)')
BY DEF PacketsCountedOnce, CountSum, StreamsOf, MapThenSumSet, MapThenFoldSet

LEMMA LossAsSumsNext ==
  LossIsGapsOpened' <=>
    \A d \in Direction :
      exported'[d].lost + bin'[d].lost
        = GapSum(first', received', overtaken', StreamsOf(d)')
BY DEF LossIsGapsOpened, GapSum, Opened, Missing, Late, Newest, StreamsOf,
       MapThenSumSet, MapThenFoldSet

(* The counters of a direction are numbers.                                *)
LEMMA CountsType ==
  ASSUME NetworkInv, NEW d \in Direction
  PROVE  /\ bin[d].packets \in Nat /\ bin[d].lost \in Nat
         /\ exported[d].packets \in Nat /\ exported[d].lost \in Nat
BY DEF NetworkInv, Counts

LEMMA PacketsCountedPacket ==
  ASSUME NetworkInv, PacketsCountedOnce,
         NEW s \in Ssrcs, NEW i \in Index[s], ProcessPacket(s, i)
  PROVE  PacketsCountedOnce'
<1> SUFFICES ASSUME NEW d \in Direction
             PROVE  exported'[d].packets + bin'[d].packets = CountSum(received', StreamsOf(d)')
  BY PacketsAsSumsNext
<1> DEFINE S == StreamsOf(d)
           T == StreamsOf(d)'
<1>1. exported[d].packets + bin[d].packets = CountSum(received, S)
  BY PacketsAsSums
<1>2. exported' = exported
  BY DEF ProcessPacket
<1>3. bin[d].packets \in Nat /\ exported[d].packets \in Nat
  BY CountsType
<1>4. bin'[d].packets = bin[d].packets + (IF d = DirectionOf(s) THEN 1 ELSE 0)
  BY ArrivalBin
<1>5. S \in SUBSET Ssrcs /\ (s \in DOMAIN first <=> received[s] # {})
  BY StreamsOfType DEF NetworkInv, StreamInv
<1>6. CASE d = DirectionOf(s)
  <2>1. T = S \cup {s} /\ (s \in S <=> s \in DOMAIN first)
    BY <1>6, StreamsOfGrow
  <2> HIDE DEF S, T
  <2>2. CountSum(received', S \cup {s}) = CountSum(received, S) + 1
    BY <1>5, <2>1, CountStep
  <2>3. CountSum(received', T) = CountSum(received, S) + 1
    BY <2>1, <2>2
  <2> QED
    BY <1>1, <1>2, <1>3, <1>4, <1>6, <2>3 DEF T
<1>7. CASE d # DirectionOf(s)
  <2>1. T = S /\ s \notin S
    BY <1>7, StreamsOfGrow
  <2> HIDE DEF S, T
  <2>2. CountSum(received', S) = CountSum(received, S)
    BY <1>5, <2>1, CountOthers
  <2>3. CountSum(received', T) = CountSum(received, S)
    BY <2>1, <2>2
  <2> QED
    BY <1>1, <1>2, <1>3, <1>4, <1>7, <2>3 DEF T
<1> QED
  BY <1>6, <1>7

LEMMA LossPacket ==
  ASSUME NetworkInv, LossIsGapsOpened,
         NEW s \in Ssrcs, NEW i \in Index[s], ProcessPacket(s, i)
  PROVE  LossIsGapsOpened'
<1> SUFFICES ASSUME NEW d \in Direction
             PROVE  exported'[d].lost + bin'[d].lost
                      = GapSum(first', received', overtaken', StreamsOf(d)')
  BY LossAsSumsNext
<1> DEFINE S == StreamsOf(d)
           T == StreamsOf(d)'
           x == LostThisPacket(s, Seq16(i))
<1>1. exported[d].lost + bin[d].lost = GapSum(first, received, overtaken, S)
  BY LossAsSums
<1>2. exported' = exported
  BY DEF ProcessPacket
<1>3. bin[d].lost \in Nat /\ exported[d].lost \in Nat
  BY CountsType
<1>4. bin'[d].lost = bin[d].lost + (IF d = DirectionOf(s) THEN x ELSE 0)
  BY ArrivalBin
<1>5. S \in SUBSET DOMAIN first
  BY StreamsOfType
<1>6. x \in Nat
  BY GapOpens
<1>7. CASE d = DirectionOf(s)
  <2>1. T = S \cup {s} /\ (s \in S <=> s \in DOMAIN first)
    BY <1>7, StreamsOfGrow
  <2> HIDE DEF S, T
  <2>2. GapSum(first', received', overtaken', S \cup {s})
          = GapSum(first, received, overtaken, S) + x
    BY <1>5, <2>1, GapStep
  <2> HIDE DEF x
  <2>3. GapSum(first', received', overtaken', T) = GapSum(first, received, overtaken, S) + x
    BY <2>1, <2>2
  <2> QED
    BY <1>1, <1>2, <1>3, <1>4, <1>6, <1>7, <2>3 DEF T
<1>8. CASE d # DirectionOf(s)
  <2>1. T = S /\ s \notin S
    BY <1>8, StreamsOfGrow
  <2> HIDE DEF S, T, x
  <2>2. GapSum(first', received', overtaken', S) = GapSum(first, received, overtaken, S)
    BY <1>5, <2>1, GapOthers
  <2>3. GapSum(first', received', overtaken', T) = GapSum(first, received, overtaken, S)
    BY <2>1, <2>2
  <2> QED
    BY <1>1, <1>2, <1>3, <1>4, <1>8, <2>3 DEF T
<1> QED
  BY <1>7, <1>8

(* A flush changes neither the counts nor the sums.                        *)
LEMMA CountsReset ==
  ASSUME NetworkInv, ResetBin
  PROVE  /\ PacketsCountedOnce => PacketsCountedOnce'
         /\ LossIsGapsOpened => LossIsGapsOpened'
<1>1. UNCHANGED <<received, first, overtaken>>
  BY ResetCounts
<1>2. \A d : StreamsOf(d)' = StreamsOf(d)
  BY <1>1 DEF StreamsOf
<1>3. \A d \in Direction :
        /\ exported'[d].packets + bin'[d].packets = exported[d].packets + bin[d].packets
        /\ exported'[d].lost + bin'[d].lost = exported[d].lost + bin[d].lost
  BY ResetCounts
<1>4. ASSUME PacketsCountedOnce, NEW d \in Direction
      PROVE  exported'[d].packets + bin'[d].packets = CountSum(received', StreamsOf(d)')
  <2>1. exported[d].packets + bin[d].packets = CountSum(received, StreamsOf(d))
    BY <1>4, PacketsAsSums
  <2> QED
    BY <1>1, <1>2, <1>3, <2>1
<1>5. ASSUME LossIsGapsOpened, NEW d \in Direction
      PROVE  exported'[d].lost + bin'[d].lost
               = GapSum(first', received', overtaken', StreamsOf(d)')
  <2>1. exported[d].lost + bin[d].lost = GapSum(first, received, overtaken, StreamsOf(d))
    BY <1>5, LossAsSums
  <2> QED
    BY <1>1, <1>2, <1>3, <2>1
<1> QED
  BY <1>4, <1>5, PacketsAsSumsNext, LossAsSumsNext

LEMMA CountsInit ==
  ASSUME NetworkInit
  PROVE  PacketsCountedOnce /\ LossIsGapsOpened
<1>1. \A d \in Direction : StreamsOf(d) = {} /\ bin[d].packets = 0 /\ bin[d].lost = 0
                          /\ exported[d].packets = 0 /\ exported[d].lost = 0
  BY DEF NetworkInit, NoTraffic, StreamsOf
<1>2. CountSum(received, {}) = 0
  <2>1. {} \in SUBSET Ssrcs
    OBVIOUS
  <2> QED
    BY <2>1, CountIsSum, SumEmpty
<1>3. GapSum(first, received, overtaken, {}) = 0
  <2>1. {} \in SUBSET Ssrcs
    OBVIOUS
  <2> QED
    BY <2>1, GapIsSum, SumEmpty
<1>4. 0 + 0 = 0
  OBVIOUS
<1>5. PacketsCountedOnce
  BY <1>1, <1>2, <1>4, PacketsAsSums
<1>6. LossIsGapsOpened
  BY <1>1, <1>3, <1>4, LossAsSums
<1> QED
  BY <1>5, <1>6

\* What a step does to the network metrics.
LEMMA NetworkSteps ==
  ASSUME [Next]_vars
  PROVE  \/ \E s \in Ssrcs : \E i \in Index[s] : ProcessPacket(s, i)
         \/ ResetBin
         \/ UNCHANGED network
BY DEF Next, ProcessRecord, Flush, vars

\* The inductive invariant of the network metrics.
LossInv == NetworkInv /\ PacketsCountedOnce /\ LossIsGapsOpened

LEMMA LossInvCorrect == Spec => []LossInv
<1>1. Init => LossInv
  BY NetworkInvInit, CountsInit DEF Init, LossInv
<1>2. LossInv /\ [Next]_vars => LossInv'
  <2> SUFFICES ASSUME LossInv, [Next]_vars
               PROVE  LossInv'
    OBVIOUS
  <2>1. ASSUME NEW s \in Ssrcs, NEW i \in Index[s], ProcessPacket(s, i)
        PROVE  LossInv'
    BY <2>1, NetworkInvPacket, PacketsCountedPacket, LossPacket DEF LossInv
  <2>2. CASE ResetBin
    BY <2>2, NetworkInvReset, CountsReset DEF LossInv
  <2>3. CASE UNCHANGED network
    <3>1. UNCHANGED <<bin, exported, received, first, overtaken>>
      BY <2>3 DEF network, history
    <3>2. \A d : StreamsOf(d)' = StreamsOf(d)
      BY <3>1 DEF StreamsOf
    <3>3. PacketsCountedOnce'
      BY <3>1, <3>2, PacketsAsSums, PacketsAsSumsNext DEF LossInv
    <3>4. LossIsGapsOpened'
      BY <3>1, <3>2, LossAsSums, LossAsSumsNext DEF LossInv
    <3> QED
      BY <2>3, <3>3, <3>4, NetworkInvStutter DEF LossInv
  <2> QED
    BY <2>1, <2>2, <2>3, NetworkSteps
<1> QED
  BY <1>1, <1>2, PTL DEF Spec

(* Every packet with a server side counts in one direction and one bin,    *)
(* whatever streams interleave and wherever the flushes fall.              *)
THEOREM PacketsCounted == Spec => []PacketsCountedOnce
<1>1. LossInv => PacketsCountedOnce
  BY DEF LossInv
<1> QED
  BY <1>1, LossInvCorrect, PTL

(* The losses counted and exported are the gaps that opened: no bin, wrap  *)
(* or late packet counts a gap twice or forgets it.                        *)
THEOREM LossesAreGaps == Spec => []LossIsGapsOpened
<1>1. LossInv => LossIsGapsOpened
  BY DEF LossInv
<1> QED
  BY <1>1, LossInvCorrect, PTL

-----------------------------------------------------------------------------
(* The media metrics: what they hold is about the packets of the bin.      *)

\* Packets of the bin have arrived, before now; a video stream is entered with
\* its first packet, and only what comes from a server is.
MediaInv ==
  /\ MediaOfBin
  /\ IsFiniteSet(inBin) /\ inBin \subseteq [ssrc : Ssrcs, index : Int, arrival : Nat, video : BOOLEAN]
  /\ \A p \in inBin : p.index \in received[p.ssrc] /\ p.arrival < Now
  /\ \A s \in DOMAIN streams : s \in Ssrcs /\ Downlink(s)
  /\ audio_bytes \in Nat /\ video_bytes \in Nat

\* The arrivals of the packets of frame t of stream s.
Arrivals(s, t) == {p.arrival : p \in {q \in VideoPackets(s) : Timestamp(q.index) = t}}

StreamOfBin(s) ==
  /\ streams[s].total_bytes = Cardinality(VideoPackets(s))
  /\ DOMAIN streams[s].frames = {Timestamp(p.index) : p \in VideoPackets(s)}
  /\ \A t \in DOMAIN streams[s].frames : streams[s].frames[t] = Min(Arrivals(s, t))

\* Of the packets of the bin from a server, the small and the large ones.
SmallFromServer == {p \in FromServer : ~p.video}
LargeFromServer == {p \in FromServer : p.video}

LEMMA MediaParts ==
  MediaOfBin <=>
    /\ all_ssrcs = {p.ssrc : p \in FromServer}
    /\ audio_bytes = Cardinality(SmallFromServer)
    /\ video_bytes = Cardinality(LargeFromServer)
    /\ \A p \in LargeFromServer : p.ssrc \in DOMAIN streams
    /\ \A s \in DOMAIN streams : StreamOfBin(s)
BY DEF MediaOfBin, StreamOfBin, Arrivals, SmallFromServer, LargeFromServer

LEMMA MediaPartsNext ==
  MediaOfBin' <=>
    /\ all_ssrcs' = {p.ssrc : p \in FromServer'}
    /\ audio_bytes' = Cardinality(SmallFromServer')
    /\ video_bytes' = Cardinality(LargeFromServer')
    /\ \A p \in LargeFromServer' : p.ssrc \in DOMAIN streams'
    /\ \A s \in DOMAIN streams' : StreamOfBin(s)'
BY DEF MediaOfBin, StreamOfBin, Arrivals, SmallFromServer, LargeFromServer, FromServer,
       VideoPackets, Timestamp, Ticks, Downlink

(* The clock is a number, and every packet moves it on.                    *)
LEMMA NowType ==
  ASSUME NetworkInv
  PROVE  Now \in Nat
<1>1. \A s \in Ssrcs : Counted(received)[s] \in Nat
  BY FS_CardinalityType DEF Counted, NetworkInv, StreamInv
<1>2. SumOf(Counted(received), Ssrcs) \in Nat
  BY <1>1, NetworkAssumption, SumNat
<1> QED
  BY <1>2, NowAsSum, CountIsSum

LEMMA NowMoves ==
  ASSUME NetworkInv, NEW s \in Ssrcs, NEW i \in Index[s], ProcessPacket(s, i)
  PROVE  Now' = Now + 1
<1>1. Now' = CountSum(received', Ssrcs)
  BY DEF Now, CountSum, MapThenSumSet, MapThenFoldSet
<1>2. Ssrcs \cup {s} = Ssrcs /\ Ssrcs \in SUBSET Ssrcs
  OBVIOUS
<1>3. CountSum(received', Ssrcs \cup {s}) = CountSum(received, Ssrcs) + 1
  BY <1>2, CountStep
<1> QED
  BY <1>1, <1>2, <1>3, NowAsSum

(* A time stamp is on its circle.                                          *)
LEMMA TimestampType ==
  ASSUME NEW i \in Int
  PROVE  Ticks(i) \in Int /\ Timestamp(i) \in 0 .. TsMod - 1
<1>1. PerFrame \in Nat \ {0} /\ FrameTicks \in Nat
  BY SessionMetricsAssumption
<1>2. i \div PerFrame \in Int
  BY <1>1
<1>3. Ticks(i) \in Int
  BY <1>1, <1>2 DEF Ticks
<1>4. Ticks(i) % TsMod \in 0 .. TsMod - 1
  BY <1>3, MediaAssumption
<1> QED
  BY <1>3, <1>4 DEF Timestamp

\* The packet that ProcessRecord(s, i, video) adds to the bin.
NewPacket(s, i, video) == [ssrc |-> s, index |-> i, arrival |-> Now, video |-> video]

LEMMA BinGrows ==
  ASSUME NetworkInv, MediaInv,
         NEW s \in Ssrcs, NEW i \in Index[s], NEW video \in BOOLEAN,
         ProcessRecord(s, i, video), NEW e, e = NewPacket(s, i, video)
  PROVE  /\ e = [ssrc |-> s, index |-> i, arrival |-> Now, video |-> video]
         /\ e.ssrc = s /\ e.index = i /\ e.arrival = Now /\ e.video = video
         /\ Now \in Nat /\ i \in Int
         /\ e \notin inBin /\ inBin' = inBin \cup {e}
         /\ video => VideoPackets(s)' = VideoPackets(s) \cup {e}
         /\ ~video => VideoPackets(s)' = VideoPackets(s)
         /\ e \notin VideoPackets(s)
         /\ \A u \in Ssrcs \ {s} : VideoPackets(u)' = VideoPackets(u)
         /\ \A u \in Ssrcs : IsFiniteSet(VideoPackets(u)) /\ VideoPackets(u) \subseteq inBin
<1>1. e.ssrc = s /\ e.index = i /\ e.arrival = Now /\ e.video = video
  BY DEF NewPacket
<1>2. i \in Int \ received[s]
  BY Arrival DEF ProcessRecord
<1>3. e \notin inBin
  BY <1>1, <1>2 DEF MediaInv
<1>4. inBin' = inBin \cup {e}
  BY DEF ProcessRecord, NewPacket
<1>5. /\ video => VideoPackets(s)' = VideoPackets(s) \cup {e}
      /\ ~video => VideoPackets(s)' = VideoPackets(s)
      /\ e \notin VideoPackets(s)
  BY <1>1, <1>3, <1>4 DEF VideoPackets
<1>6. \A u \in Ssrcs \ {s} : VideoPackets(u)' = VideoPackets(u)
  BY <1>1, <1>4 DEF VideoPackets
<1>7. \A u \in Ssrcs : IsFiniteSet(VideoPackets(u)) /\ VideoPackets(u) \subseteq inBin
  BY FS_Subset DEF VideoPackets, MediaInv
<1> QED
  BY <1>1, <1>2, <1>3, <1>4, <1>5, <1>6, <1>7, NowType DEF NewPacket

(* A packet of video enters its stream and leaves the others alone.        *)
LEMMA OthersKept ==
  ASSUME NEW s, NEW t, NEW now, CountFrame(s, t, now)
  PROVE  /\ DOMAIN streams' = DOMAIN streams \cup {s}
         /\ \A u \in DOMAIN streams \ {s} : streams'[u] = streams[u]
<1> DEFINE w == WithEntry(streams, s, StreamState)
<1>1. /\ w = [u \in DOMAIN w |-> w[u]]
      /\ DOMAIN w = DOMAIN streams \cup {s}
      /\ \A u \in DOMAIN streams \ {s} : w[u] = streams[u]
  BY DEF WithEntry
<1>2. streams' = [w EXCEPT ![s] = [frames |-> WithEntry(w[s].frames, t, now),
                                  total_bytes |-> w[s].total_bytes + 1]]
  BY DEF CountFrame
<1> HIDE DEF w
<1> QED
  BY <1>1, <1>2

(* The arrivals of a frame are times before now.                           *)
LEMMA ArrivalsType ==
  ASSUME NetworkInv, MediaInv, NEW s, NEW t
  PROVE  /\ Arrivals(s, t) \in SUBSET Int /\ IsFiniteSet(Arrivals(s, t))
         /\ \A a \in Arrivals(s, t) : a < Now
<1>1. Now \in Nat
  BY NowType
<1>2. \A p \in inBin : p.arrival \in Nat /\ p.arrival < Now
  BY DEF MediaInv
<1>3. \A a \in Arrivals(s, t) : a \in Nat /\ a < Now
  BY <1>2 DEF Arrivals, VideoPackets
<1> DEFINE A == Arrivals(s, t)
<1> HIDE DEF A
<1>4. A \in SUBSET (0 .. Now)
  BY <1>1, <1>3 DEF A
<1>5. IsFiniteSet(0 .. Now)
  BY <1>1, FS_Interval
<1>6. IsFiniteSet(A)
  BY <1>4, <1>5, FS_Subset
<1> QED
  BY <1>3, <1>6 DEF A

(* The stream of a packet of video from a server, after that packet.       *)
LEMMA StreamOfBinPacket ==
  ASSUME NetworkInv, MediaInv,
         NEW s \in Ssrcs, NEW i \in Index[s], NEW video \in BOOLEAN,
         ProcessRecord(s, i, video),
         CountFrame(s, Timestamp(i), Now), video = TRUE, Downlink(s)
  PROVE  StreamOfBin(s)'
<1> DEFINE R == VideoPackets(s)
<1>a. PICK t : t = Timestamp(i)
  OBVIOUS
<1>b. PICK now : now = Now
  OBVIOUS
<1>0. PICK old : /\ s \in DOMAIN streams => old = streams[s]
                 /\ s \notin DOMAIN streams => old = StreamState
  OBVIOUS
<1>1. PICK e : e = NewPacket(s, i, video)
  OBVIOUS
<1>2. /\ e.ssrc = s /\ e.index = i /\ e.arrival = now /\ now \in Nat /\ i \in Int
      /\ VideoPackets(s)' = R \cup {e} /\ e \notin R /\ IsFiniteSet(R) /\ R \subseteq inBin
  <2>1. video => VideoPackets(s)' = VideoPackets(s) \cup {e}
    BY <1>1, BinGrows
  <2>2. VideoPackets(s)' = VideoPackets(s) \cup {e}
    BY <2>1, Zenon
  <2>3. /\ e.ssrc = s /\ e.index = i /\ e.arrival = Now /\ Now \in Nat /\ i \in Int
        /\ e \notin VideoPackets(s)
        /\ IsFiniteSet(VideoPackets(s)) /\ VideoPackets(s) \subseteq inBin
    <3>1. e.ssrc = s /\ e.index = i /\ e.arrival = Now /\ Now \in Nat
      BY <1>1, NowType DEF NewPacket
    <3>2. \A u \in Ssrcs : IsFiniteSet(VideoPackets(u)) /\ VideoPackets(u) \subseteq inBin
      BY <1>1, BinGrows, Zenon
    <3>3. i \in Int
      BY <1>1, BinGrows
    <3>4. e \notin VideoPackets(s)
      BY <1>1, BinGrows
    <3> QED
      BY <3>1, <3>2, <3>3, <3>4, Zenon
  <2> QED
    BY <1>b, <2>2, <2>3
<1>3. /\ old.total_bytes = Cardinality(R)
      /\ DOMAIN old.frames = {Timestamp(p.index) : p \in R}
      /\ \A w \in DOMAIN old.frames : old.frames[w] = Min(Arrivals(s, w))
  <2>1. CASE s \in DOMAIN streams
    <3>1. StreamOfBin(s)
      BY <2>1, MediaParts DEF MediaInv
    <3>2. old = streams[s]
      BY <1>0, <2>1
    <3> QED
      BY <3>1, <3>2 DEF StreamOfBin
  <2>2. CASE s \notin DOMAIN streams
    <3>1. R = {}
      <4>1. \A p \in LargeFromServer : p.ssrc \in DOMAIN streams
        BY MediaParts DEF MediaInv
      <4> QED
        BY <2>2, <4>1 DEF VideoPackets, LargeFromServer, FromServer
    <3>2. old.total_bytes = 0 /\ DOMAIN old.frames = {}
      BY <1>0, <2>2 DEF StreamState, NoFrames
    <3> QED
      BY <3>1, <3>2, FS_EmptySet
  <2> QED
    BY <2>1, <2>2
<1>4. streams'[s].frames = WithEntry(old.frames, t, now)
      /\ streams'[s].total_bytes = old.total_bytes + 1
  <2> DEFINE w == WithEntry(streams, s, StreamState)
  <2>1. w = [u \in DOMAIN w |-> w[u]] /\ s \in DOMAIN w /\ w[s] = old
    BY <1>0 DEF WithEntry
  <2>2. streams' = [w EXCEPT ![s] = [frames |-> WithEntry(w[s].frames, t, now),
                                    total_bytes |-> w[s].total_bytes + 1]]
    BY <1>a, <1>b DEF CountFrame
  <2> HIDE DEF w
  <2>3. streams'[s] = [frames |-> WithEntry(old.frames, t, now),
                       total_bytes |-> old.total_bytes + 1]
    BY <2>1, <2>2
  <2> QED
    BY <2>3
<1> HIDE DEF R
<1>5. streams'[s].total_bytes = Cardinality(VideoPackets(s)')
  <2>1. streams'[s].total_bytes = old.total_bytes + 1
    BY <1>4
  <2>2. Cardinality(R \cup {e}) = Cardinality(R) + 1
    BY <1>2, FS_AddElement
  <2> QED
    BY <1>2, <1>3, <2>1, <2>2
<1> DEFINE F == streams'[s].frames
<1>6. F = WithEntry(old.frames, t, now)
  BY <1>4
<1>7. DOMAIN F = DOMAIN old.frames \cup {t}
      /\ \A w \in DOMAIN F : F[w] = IF w \in DOMAIN old.frames THEN old.frames[w] ELSE now
  BY <1>6 DEF WithEntry
<1> HIDE DEF F
<1>8. DOMAIN F = {Timestamp(p.index) : p \in VideoPackets(s)'}
  BY <1>2, <1>3, <1>7, <1>a
<1>9. /\ \A w : Arrivals(s, w)' = {p.arrival : p \in {q \in VideoPackets(s)' : Timestamp(q.index) = w}}
      /\ \A w : Arrivals(s, w) = {p.arrival : p \in {q \in R : Timestamp(q.index) = w}}
  BY DEF Arrivals, R, Timestamp, Ticks
<1>10. ASSUME NEW w, w # t
       PROVE  Arrivals(s, w)' = Arrivals(s, w)
  <2>1. {q \in VideoPackets(s)' : Timestamp(q.index) = w} = {q \in R : Timestamp(q.index) = w}
    BY <1>2, <1>10, <1>a
  <2> QED
    BY <1>9, <2>1
<1>11. Arrivals(s, t)' = Arrivals(s, t) \cup {now}
  BY <1>2, <1>9, <1>a
<1>12. ASSUME NEW w \in DOMAIN F
       PROVE  F[w] = Min(Arrivals(s, w)')
  <2>1. CASE w # t
    <3>1. w \in DOMAIN old.frames
      BY <1>7, <2>1
    <3> QED
      BY <1>3, <1>7, <1>10, <2>1, <3>1
  <2>2. CASE w = t /\ t \in DOMAIN old.frames
    <3> DEFINE A == Arrivals(s, t)
               m == Min(A)
    <3>1. A # {}
      <4>1. PICK p \in R : Timestamp(p.index) = t
        BY <1>3, <2>2
      <4>2. p.arrival \in A
        BY <1>9, <4>1
      <4> QED
        BY <4>2
    <3>2. A \in SUBSET Int /\ IsFiniteSet(A) /\ \A a \in A : a < now
      BY <1>b, ArrivalsType
    <3> HIDE DEF A
    <3>3. m \in A /\ \A a \in A : m <= a
      BY <3>1, <3>2, MinOf
    <3> HIDE DEF m
    <3>4. m \in A \cup {now} /\ A \cup {now} \in SUBSET Int /\ \A a \in A \cup {now} : m <= a
      BY <1>2, <3>2, <3>3
    <3>5. Min(A \cup {now}) = m
      BY <3>4, MinIs
    <3> QED
      BY <1>3, <1>7, <1>11, <2>2, <3>5 DEF A, m
  <2>3. CASE w = t /\ t \notin DOMAIN old.frames
    <3>1. Arrivals(s, t)' = {now}
      BY <1>3, <1>9, <1>11, <1>a, <2>3
    <3>2. {now} \in SUBSET Int /\ now \in {now} /\ \A y \in {now} : now <= y
      BY <1>2
    <3>3. Min({now}) = now
      BY <3>2, MinIs
    <3> QED
      BY <1>7, <2>3, <3>1, <3>3
  <2> QED
    BY <2>1, <2>2, <2>3
<1>13. StreamOfBin(s)' <=>
         /\ streams'[s].total_bytes = Cardinality(VideoPackets(s)')
         /\ DOMAIN F = {Timestamp(p.index) : p \in VideoPackets(s)'}
         /\ \A w \in DOMAIN F : F[w] = Min(Arrivals(s, w)')
  BY DEF StreamOfBin, F, Timestamp, Ticks
<1> QED
  BY <1>5, <1>8, <1>12, <1>13

(* A stream with no new packet in the bin, and the same entry, stays right. *)
LEMMA StreamOfBinKept ==
  ASSUME NEW u, StreamOfBin(u), streams'[u] = streams[u], VideoPackets(u)' = VideoPackets(u)
  PROVE  StreamOfBin(u)'
<1>1. \A w : Arrivals(u, w)' = Arrivals(u, w)
  BY DEF Arrivals, Timestamp, Ticks
<1>2. StreamOfBin(u)' <=>
        /\ streams'[u].total_bytes = Cardinality(VideoPackets(u)')
        /\ DOMAIN streams'[u].frames = {Timestamp(p.index) : p \in VideoPackets(u)'}
        /\ \A w \in DOMAIN streams'[u].frames : streams'[u].frames[w] = Min(Arrivals(u, w)')
  BY DEF StreamOfBin, Timestamp, Ticks
<1> QED
  BY <1>1, <1>2 DEF StreamOfBin

(* The packets from a server grow by the new one if it comes from one, and *)
(* so do the small or the large ones of them.                              *)
LEMMA FromServerGrows ==
  ASSUME NetworkInv, MediaInv,
         NEW s \in Ssrcs, NEW i \in Index[s], NEW video \in BOOLEAN,
         ProcessRecord(s, i, video), NEW e, e = NewPacket(s, i, video)
  PROVE  /\ IsFiniteSet(SmallFromServer) /\ IsFiniteSet(LargeFromServer)
         /\ e \notin SmallFromServer /\ e \notin LargeFromServer
         /\ FromServer' = IF Downlink(s) THEN FromServer \cup {e} ELSE FromServer
         /\ SmallFromServer' = IF Downlink(s) /\ ~video THEN SmallFromServer \cup {e}
                                                      ELSE SmallFromServer
         /\ LargeFromServer' = IF Downlink(s) /\ video THEN LargeFromServer \cup {e}
                                                     ELSE LargeFromServer
<1>1. /\ e.ssrc = s /\ e.video = video /\ e \notin inBin /\ inBin' = inBin \cup {e}
  BY BinGrows
<1>2. SmallFromServer \subseteq inBin /\ LargeFromServer \subseteq inBin
  BY DEF SmallFromServer, LargeFromServer, FromServer
<1>3. /\ FromServer' = {p \in inBin' : Downlink(p.ssrc)}
      /\ SmallFromServer' = {p \in FromServer' : ~p.video}
      /\ LargeFromServer' = {p \in FromServer' : p.video}
  BY DEF FromServer, SmallFromServer, LargeFromServer, Downlink
<1>4. FromServer' = IF Downlink(s) THEN FromServer \cup {e} ELSE FromServer
  BY <1>1, <1>3 DEF FromServer
<1> QED
  BY <1>1, <1>2, <1>3, <1>4, FS_Subset DEF MediaInv, SmallFromServer, LargeFromServer

LEMMA MediaInvPacket ==
  ASSUME NetworkInv, MediaInv, NEW s \in Ssrcs, NEW i \in Index[s], NEW video \in BOOLEAN,
         ProcessRecord(s, i, video)
  PROVE  MediaInv'
<1>1. PICK e : e = NewPacket(s, i, video)
  OBVIOUS
<1>2. /\ e.ssrc = s /\ e.index = i /\ e.arrival = Now /\ Now \in Nat /\ i \in Int
      /\ inBin' = inBin \cup {e} /\ \A u \in Ssrcs \ {s} : VideoPackets(u)' = VideoPackets(u)
  BY <1>1, BinGrows
<1>3. CountPacket(s, Downlink(s), video, Timestamp(i), Now)
  BY DEF ProcessRecord
<1>4. Now' = Now + 1
  BY NowMoves DEF ProcessRecord
<1>5. /\ IsFiniteSet(SmallFromServer) /\ IsFiniteSet(LargeFromServer)
      /\ e \notin SmallFromServer /\ e \notin LargeFromServer
      /\ FromServer' = IF Downlink(s) THEN FromServer \cup {e} ELSE FromServer
      /\ SmallFromServer' = IF Downlink(s) /\ ~video THEN SmallFromServer \cup {e}
                                                   ELSE SmallFromServer
      /\ LargeFromServer' = IF Downlink(s) /\ video THEN LargeFromServer \cup {e}
                                                  ELSE LargeFromServer
  BY <1>1, FromServerGrows
<1>6. /\ Cardinality(SmallFromServer \cup {e}) = Cardinality(SmallFromServer) + 1
      /\ Cardinality(LargeFromServer \cup {e}) = Cardinality(LargeFromServer) + 1
  BY <1>5, FS_AddElement
<1>7. /\ all_ssrcs = {p.ssrc : p \in FromServer}
      /\ audio_bytes = Cardinality(SmallFromServer)
      /\ video_bytes = Cardinality(LargeFromServer)
      /\ \A p \in LargeFromServer : p.ssrc \in DOMAIN streams
      /\ \A u \in DOMAIN streams : StreamOfBin(u)
  BY MediaParts DEF MediaInv
<1>8. audio_bytes \in Nat /\ video_bytes \in Nat
  BY DEF MediaInv
<1>9. /\ all_ssrcs' = {p.ssrc : p \in FromServer'}
      /\ audio_bytes' = Cardinality(SmallFromServer')
      /\ video_bytes' = Cardinality(LargeFromServer')
      /\ audio_bytes' \in Nat /\ video_bytes' \in Nat
  <2>1. CASE ~Downlink(s)
    <3>1. UNCHANGED media
      BY <1>3, <2>1 DEF CountPacket
    <3> QED
      BY <1>5, <1>7, <1>8, <2>1, <3>1 DEF media
  <2>2. CASE Downlink(s)
    <3>1. all_ssrcs' = all_ssrcs \cup {s}
      BY <1>3, <2>2 DEF CountPacket
    <3>2. FromServer' = FromServer \cup {e}
      BY <1>5, <2>2
    <3>3. all_ssrcs' = {p.ssrc : p \in FromServer'}
      BY <1>2, <1>7, <3>1, <3>2
    <3>4. CASE video
      <4>1. video_bytes' = video_bytes + 1 /\ audio_bytes' = audio_bytes
        BY <1>3, <2>2, <3>4 DEF CountPacket
      <4>2. SmallFromServer' = SmallFromServer /\ LargeFromServer' = LargeFromServer \cup {e}
        BY <1>5, <2>2, <3>4
      <4> QED
        BY <1>6, <1>7, <1>8, <3>3, <4>1, <4>2
    <3>5. CASE ~video
      <4>1. audio_bytes' = audio_bytes + 1 /\ video_bytes' = video_bytes
        BY <1>3, <2>2, <3>5 DEF CountPacket
      <4>2. LargeFromServer' = LargeFromServer /\ SmallFromServer' = SmallFromServer \cup {e}
        BY <1>5, <2>2, <3>5
      <4> QED
        BY <1>6, <1>7, <1>8, <3>3, <4>1, <4>2
    <3> QED
      BY <3>4, <3>5
  <2> QED
    BY <2>1, <2>2
<1>10. /\ \A u \in DOMAIN streams' : u \in Ssrcs /\ Downlink(u)
       /\ DOMAIN streams \subseteq DOMAIN streams'
       /\ \A p \in LargeFromServer' : p.ssrc \in DOMAIN streams'
       /\ \A u \in DOMAIN streams' : StreamOfBin(u)'
  <2>0. \A u \in DOMAIN streams : u \in Ssrcs /\ Downlink(u)
    BY DEF MediaInv
  <2>1. CASE ~(Downlink(s) /\ video)
    <3>1. streams' = streams
      BY <1>3, <2>1 DEF CountPacket, media
    <3>2. ASSUME NEW u \in DOMAIN streams
          PROVE  StreamOfBin(u)'
      <4>1. VideoPackets(u)' = VideoPackets(u)
        <5>1. CASE u = s
          <6>1. ~video
            BY <2>0, <2>1, <5>1
          <6> QED
            BY <1>1, <5>1, <6>1, BinGrows
        <5>2. CASE u # s
          BY <1>2, <2>0, <5>2
        <5> QED
          BY <5>1, <5>2
      <4>2. StreamOfBin(u) /\ streams'[u] = streams[u]
        BY <1>7, <3>1
      <4> QED
        BY <4>1, <4>2, StreamOfBinKept
    <3>3. LargeFromServer' = LargeFromServer
      BY <1>5, <2>1
    <3> QED
      BY <1>7, <2>0, <3>1, <3>2, <3>3
  <2>2. CASE Downlink(s) /\ video
    <3>1. CountFrame(s, Timestamp(i), Now)
      BY <1>3, <2>2 DEF CountPacket
    <3>2. PICK t, now : t = Timestamp(i) /\ now = Now
      OBVIOUS
    <3>3. CountFrame(s, t, now)
      BY <3>1, <3>2 DEF CountFrame
    <3>4. /\ DOMAIN streams' = DOMAIN streams \cup {s}
          /\ \A u \in DOMAIN streams \ {s} : streams'[u] = streams[u]
      BY <3>3, OthersKept
    <3>5. StreamOfBin(s)'
      BY <2>2, <3>1, StreamOfBinPacket
    <3>6. ASSUME NEW u \in DOMAIN streams \ {s}
          PROVE  StreamOfBin(u)'
      <4>1. VideoPackets(u)' = VideoPackets(u) /\ StreamOfBin(u) /\ streams'[u] = streams[u]
        BY <1>2, <1>7, <2>0, <3>4
      <4> QED
        BY <4>1, StreamOfBinKept
    <3>7. \A p \in LargeFromServer' : p.ssrc \in DOMAIN streams'
      <4>1. LargeFromServer' = LargeFromServer \cup {e}
        BY <1>5, <2>2
      <4> QED
        BY <1>2, <1>7, <3>4, <4>1
    <3> QED
      BY <2>0, <2>2, <3>4, <3>5, <3>6, <3>7
  <2> QED
    BY <2>1, <2>2
<1>11. IsFiniteSet(inBin') /\ inBin' \subseteq [ssrc : Ssrcs, index : Int, arrival : Nat, video : BOOLEAN]
  <2>1. IsFiniteSet(inBin) /\ inBin \subseteq [ssrc : Ssrcs, index : Int, arrival : Nat, video : BOOLEAN]
    BY DEF MediaInv
  <2>2. e \in [ssrc : Ssrcs, index : Int, arrival : Nat, video : BOOLEAN]
    BY <1>1, <1>2 DEF NewPacket
  <2> QED
    BY <1>2, <2>1, <2>2, FS_AddElement
<1>12. ASSUME NEW p \in inBin'
       PROVE  p.index \in received'[p.ssrc] /\ p.arrival < Now'
  <2>1. received \in [Ssrcs -> SUBSET Int] /\ received' = [received EXCEPT ![s] = @ \cup {i}]
    BY DEF ProcessRecord, ProcessPacket, NetworkInv
  <2>2. CASE p = e
    BY <1>2, <1>4, <2>1, <2>2
  <2>3. CASE p \in inBin
    <3>1. /\ p.index \in received[p.ssrc] /\ p.arrival < Now
          /\ p.ssrc \in Ssrcs /\ p.arrival \in Nat
      BY <2>3 DEF MediaInv
    <3>2. p.arrival < Now'
      BY <1>2, <1>4, <3>1
    <3>3. p.index \in received'[p.ssrc]
      BY <2>1, <3>1
    <3> QED
      BY <3>2, <3>3
  <2> QED
    BY <1>2, <2>2, <2>3
<1>13. MediaOfBin'
  BY <1>9, <1>10, MediaPartsNext
<1> QED
  BY <1>9, <1>10, <1>11, <1>12, <1>13 DEF MediaInv, Downlink

\* The inductive invariant of the session's metrics.
MetricsInv == NetworkInv /\ MediaInv

LEMMA MediaInvInit == Init => MediaInv
<1> SUFFICES ASSUME Init
             PROVE  MediaInv
  OBVIOUS
<1>1. inBin = {} /\ all_ssrcs = {} /\ audio_bytes = 0 /\ video_bytes = 0 /\ DOMAIN streams = {}
  BY DEF Init, MediaInit
<1>2. /\ FromServer = {} /\ SmallFromServer = {} /\ LargeFromServer = {}
      /\ IsFiniteSet({}) /\ Cardinality({}) = 0
  BY <1>1, FS_EmptySet DEF FromServer, SmallFromServer, LargeFromServer
<1>3. MediaOfBin
  BY <1>1, <1>2, MediaParts
<1> QED
  BY <1>1, <1>2, <1>3 DEF MediaInv

LEMMA MediaInvFlush ==
  ASSUME MediaInv, Flush
  PROVE  MediaInv'
<1>1. /\ inBin' = {} /\ all_ssrcs' = {} /\ audio_bytes' = 0 /\ video_bytes' = 0
      /\ streams' = [s \in DOMAIN streams |-> StreamState]
  BY DEF Flush, ResetMedia
<1>2. IsFiniteSet({}) /\ Cardinality({}) = 0
  BY FS_EmptySet
<1>3. FromServer' = {} /\ SmallFromServer' = {} /\ LargeFromServer' = {}
  BY <1>1 DEF FromServer, SmallFromServer, LargeFromServer
<1>4. ASSUME NEW s \in DOMAIN streams'
      PROVE  StreamOfBin(s)'
  <2>1. VideoPackets(s)' = {}
    BY <1>1 DEF VideoPackets
  <2>2. streams'[s].total_bytes = 0 /\ DOMAIN streams'[s].frames = {}
    BY <1>1, <1>4 DEF StreamState, NoFrames
  <2>3. {Timestamp(p.index) : p \in VideoPackets(s)'} = {}
    BY <2>1
  <2>4. StreamOfBin(s)' <=>
          /\ streams'[s].total_bytes = Cardinality(VideoPackets(s)')
          /\ DOMAIN streams'[s].frames = {Timestamp(p.index) : p \in VideoPackets(s)'}
          /\ \A t \in DOMAIN streams'[s].frames : streams'[s].frames[t] = Min(Arrivals(s, t)')
    BY DEF StreamOfBin, Timestamp, Ticks
  <2> QED
    BY <1>2, <2>1, <2>2, <2>3, <2>4
<1>5. MediaOfBin'
  BY <1>1, <1>2, <1>3, <1>4, MediaPartsNext
<1>6. \A s \in DOMAIN streams' : s \in Ssrcs /\ Downlink(s)
  BY <1>1 DEF MediaInv
<1> QED
  BY <1>1, <1>2, <1>5, <1>6 DEF MediaInv, Downlink

LEMMA MediaInvStutter ==
  ASSUME MediaInv, UNCHANGED vars
  PROVE  MediaInv'
<1>1. UNCHANGED <<streams, all_ssrcs, audio_bytes, video_bytes, inBin, received>>
  BY DEF vars, media, network, history
<1>2. Now' = Now
  BY <1>1 DEF Now, MapThenSumSet, MapThenFoldSet
<1>3. MediaOfBin'
  BY <1>1 DEF MediaInv, MediaOfBin, FromServer, VideoPackets, Timestamp, Ticks, Downlink
<1> QED
  BY <1>1, <1>2, <1>3 DEF MediaInv, Downlink

LEMMA MetricsInvCorrect == Spec => []MetricsInv
<1>1. Init => MetricsInv
  BY NetworkInvInit, MediaInvInit DEF Init, MetricsInv
<1>2. MetricsInv /\ [Next]_vars => MetricsInv'
  <2> SUFFICES ASSUME MetricsInv, [Next]_vars
               PROVE  MetricsInv'
    OBVIOUS
  <2>1. ASSUME NEW s \in Ssrcs, NEW i \in Index[s], NEW video \in Sizes[s], ProcessRecord(s, i, video)
        PROVE  MetricsInv'
    <3>1. ProcessPacket(s, i)
      BY <2>1 DEF ProcessRecord
    <3>2. video \in BOOLEAN
      BY SessionMetricsAssumption
    <3> QED
      BY <2>1, <3>1, <3>2, NetworkInvPacket, MediaInvPacket DEF MetricsInv
  <2>2. CASE Flush
    <3>1. ResetBin
      BY <2>2 DEF Flush
    <3> QED
      BY <2>2, <3>1, NetworkInvReset, MediaInvFlush DEF MetricsInv
  <2>3. CASE UNCHANGED vars
    <3>1. UNCHANGED network
      BY <2>3 DEF vars
    <3> QED
      BY <2>3, <3>1, NetworkInvStutter, MediaInvStutter DEF MetricsInv
  <2> QED
    BY <2>1, <2>2, <2>3 DEF Next
<1> QED
  BY <1>1, <1>2, PTL DEF Spec

(* The media fields of a bin are about the packets of that bin, small and  *)
(* large ones of a stream told apart: a stream that lives on over the      *)
(* flush brings no frame and no byte along, and a frame arrives with the   *)
(* first of its large packets.                                             *)
THEOREM MediaIsOfBin == Spec => []MediaOfBin
<1>1. MetricsInv => MediaOfBin
  BY DEF MetricsInv, MediaInv
<1> QED
  BY <1>1, MetricsInvCorrect, PTL

(* The frames of a stream of the bin.                                      *)
LEMMA FramesType ==
  ASSUME MetricsInv, NEW s \in DOMAIN streams
  PROVE  /\ DOMAIN streams[s].frames = {Timestamp(p.index) : p \in VideoPackets(s)}
         /\ DOMAIN streams[s].frames \subseteq 0 .. TsMod - 1
<1>1. StreamOfBin(s)
  BY MediaParts DEF MetricsInv, MediaInv
<1>2. \A p \in VideoPackets(s) : p.index \in Int
  BY DEF VideoPackets, MetricsInv, MediaInv
<1>3. \A p \in VideoPackets(s) : Timestamp(p.index) \in 0 .. TsMod - 1
  BY <1>2, TimestampType
<1> QED
  BY <1>1, <1>3 DEF StreamOfBin

(* Every variable of the session's metrics holds a value of its type, and  *)
(* the losses of a bin are never negative.                                 *)
THEOREM MetricsTypeCorrect == Spec => []TypeOK
<1>1. MetricsInv => TypeOK
  <2> SUFFICES ASSUME MetricsInv
               PROVE  TypeOK
    OBVIOUS
  <2>1. ASSUME NEW d \in Direction
        PROVE  {bin[d].packets, bin[d].lost, exported[d].packets, exported[d].lost} \subseteq Nat
    <3>1. bin[d] \in Counts /\ exported[d] \in Counts
      BY DEF MetricsInv, NetworkInv
    <3> QED
      BY <3>1 DEF Counts
  <2>2. ASSUME NEW s \in DOMAIN seq_state
        PROVE  seq_state[s] \in 0 .. SeqMod - 1
    <3>1. s \in Ssrcs /\ s \in DOMAIN first /\ StreamInv(s) /\ received[s] \in SUBSET Int
      BY DEF MetricsInv, NetworkInv
    <3>2. IsFiniteSet(received[s]) /\ received[s] # {} /\ seq_state[s] = Seq16(Newest(s))
      BY <3>1 DEF StreamInv
    <3>3. Newest(s) \in Int
      BY <3>1, <3>2, MaxOf DEF Newest
    <3>4. SeqMod \in Nat \ {0}
      BY NetworkAssumption
    <3>5. Newest(s) % SeqMod \in 0 .. SeqMod - 1
      BY <3>3, <3>4
    <3> QED
      BY <3>2, <3>5 DEF Seq16
  <2>3. NetworkTypeOK
    BY <2>1, <2>2 DEF NetworkTypeOK, MetricsInv, NetworkInv
  <2>4. all_ssrcs \subseteq Ssrcs
    <3>1. all_ssrcs = {p.ssrc : p \in FromServer} /\ \A p \in inBin : p.ssrc \in Ssrcs
      BY MediaParts DEF MetricsInv, MediaInv
    <3> QED
      BY <3>1 DEF FromServer
  <2>5. DOMAIN streams \subseteq Ssrcs /\ {audio_bytes, video_bytes} \subseteq Nat
    BY DEF MetricsInv, MediaInv
  <2> QED
    BY <2>3, <2>4, <2>5, FramesType DEF TypeOK
<1> QED
  BY <1>1, MetricsInvCorrect, PTL

(* A stream counts as video only with a packet in the bin.                 *)
LEMMA VideoHasPackets ==
  ASSUME MetricsInv, NEW s \in VideoStreams
  PROVE  s \in DOMAIN streams /\ VideoPackets(s) # {}
<1>1. s \in DOMAIN streams /\ Cardinality(DOMAIN streams[s].frames) >= 2
  BY DEF VideoStreams, IsVideo
<1>2. DOMAIN streams[s].frames # {}
  BY <1>1, FS_EmptySet
<1> QED
  BY <1>1, <1>2, FramesType

(* The numbers of streams add up: every video stream is among the streams  *)
(* of the bin, so the subtraction that finds the audio streams never       *)
(* saturates.                                                              *)
THEOREM StreamNumbersAddUp == Spec => []StreamsAddUp
<1>1. MetricsInv => StreamsAddUp
  <2> SUFFICES ASSUME MetricsInv
               PROVE  StreamsAddUp
    OBVIOUS
  <2>1. all_ssrcs = {p.ssrc : p \in FromServer} /\ \A p \in inBin : p.ssrc \in Ssrcs
    BY MediaParts DEF MetricsInv, MediaInv
  <2>2. ASSUME NEW s \in VideoStreams
        PROVE  s \in all_ssrcs
    <3>1. PICK p \in inBin : p.ssrc = s
      BY VideoHasPackets DEF VideoPackets
    <3>2. Downlink(s)
      BY VideoHasPackets DEF MetricsInv, MediaInv
    <3> QED
      BY <2>1, <3>1, <3>2 DEF FromServer
  <2>3. IsFiniteSet(all_ssrcs)
    BY <2>1, NetworkAssumption, FS_Subset DEF FromServer
  <2>4. /\ IsFiniteSet(VideoStreams) /\ Cardinality(VideoStreams) <= Cardinality(all_ssrcs)
        /\ VideoStreams \subseteq all_ssrcs
    BY <2>2, <2>3, FS_Subset
  <2>5. Cardinality(VideoStreams) \in Nat /\ Cardinality(all_ssrcs) \in Nat
    BY <2>3, <2>4, FS_CardinalityType
  <2> QED
    BY <2>4, <2>5 DEF StreamsAddUp, ActiveAudio
<1> QED
  BY <1>1, MetricsInvCorrect, PTL

(* A number of ticks is its turns of the circle and its time stamp.        *)
LEMMA TicksSplit ==
  ASSUME NEW a \in Int
  PROVE  /\ a \div TsMod \in Int /\ a % TsMod \in 0 .. TsMod - 1
         /\ a = TsMod * (a \div TsMod) + (a % TsMod)
BY MediaAssumption, SMT

(* On one turn of the circle, time stamps are as far apart as the ticks.   *)
LEMMA SpanOfTurn ==
  ASSUME NEW P \in SUBSET Int, P # {}, \A t, u \in P : t \div TsMod = u \div TsMod,
         NEW T, T = {t % TsMod : t \in P}
  PROVE  Span(T) = Max(P) - Min(P)
<1>1. PICK x \in P : TRUE
  OBVIOUS
<1>2. PICK b : b = TsMod * (x \div TsMod)
  OBVIOUS
<1>3. TsMod \in Nat \ {0} /\ b \in Int
  <2>1. TsMod \in Nat \ {0} /\ x \div TsMod \in Int
    BY <1>1, TicksSplit, MediaAssumption
  <2> QED
    BY <1>2, <2>1
<1>4. \A t \in P : t = b + (t % TsMod) /\ t % TsMod \in 0 .. TsMod - 1
  <2>1. ASSUME NEW t \in P
        PROVE  t = TsMod * (x \div TsMod) + (t % TsMod) /\ t % TsMod \in 0 .. TsMod - 1
    <3>1. t \div TsMod = x \div TsMod
      OBVIOUS
    <3>2. t = TsMod * (t \div TsMod) + (t % TsMod) /\ t % TsMod \in 0 .. TsMod - 1
      BY TicksSplit
    <3> QED
      BY <3>1, <3>2
  <2> QED
    BY <1>2, <2>1
<1>5. IsFiniteSet(P)
  <2>1. P \subseteq b .. (b + TsMod)
    BY <1>3, <1>4
  <2>2. IsFiniteSet(b .. (b + TsMod))
    BY <1>3, FS_Interval
  <2> QED
    BY <2>1, <2>2, FS_Subset
<1>6. PICK hi, lo : hi = Max(P) /\ lo = Min(P)
  OBVIOUS
<1>7. hi \in P /\ lo \in P /\ \A t \in P : t <= hi /\ lo <= t
  BY <1>5, <1>6, MaxOf, MinOf
<1>8. T \in SUBSET Int
  BY <1>4
<1>9. hi % TsMod \in T /\ lo % TsMod \in T
  BY <1>7
<1>10. \A y \in T : y <= hi % TsMod /\ lo % TsMod <= y
  <2>1. ASSUME NEW t \in P
        PROVE  t % TsMod <= hi % TsMod /\ lo % TsMod <= t % TsMod
    <3>1. PICK v, h, l : v = t % TsMod /\ h = hi % TsMod /\ l = lo % TsMod
      OBVIOUS
    <3>2. /\ t = b + v /\ hi = b + h /\ lo = b + l
          /\ v \in Int /\ h \in Int /\ l \in Int
      BY <1>4, <1>7, <3>1
    <3>3. t <= hi /\ lo <= t
      BY <1>7
    <3>4. v <= h /\ l <= v
      BY ONLY <1>3, <3>2, <3>3
    <3> QED
      BY <3>1, <3>4
  <2> QED
    BY <2>1
<1>11. Max(T) = hi % TsMod /\ Min(T) = lo % TsMod
  BY <1>8, <1>9, <1>10, MaxIs, MinIs
<1>12. /\ hi = b + (hi % TsMod) /\ lo = b + (lo % TsMod)
       /\ hi % TsMod \in Int /\ lo % TsMod \in Int
  BY <1>4, <1>7
<1>13. hi - lo = (hi % TsMod) - (lo % TsMod)
  BY <1>3, <1>12
<1> QED
  BY <1>6, <1>11, <1>13 DEF Span

(* Ticks less than a circle apart lie on one turn or on two neighbours.    *)
LEMMA TurnOrNext ==
  ASSUME NEW a \in Int, NEW b \in Int, a <= b, b - a < TsMod
  PROVE  b \div TsMod = a \div TsMod \/ b \div TsMod = (a \div TsMod) + 1
<1>1. PICK m, x, y, u, v : /\ m = TsMod /\ x = a \div TsMod /\ y = b \div TsMod
                           /\ u = a % TsMod /\ v = b % TsMod
  OBVIOUS
<1>2. /\ m \in Nat \ {0} /\ x \in Int /\ y \in Int /\ u \in 0 .. m - 1 /\ v \in 0 .. m - 1
      /\ a = m * x + u /\ b = m * y + v /\ b - a < m
  BY <1>1, TicksSplit, MediaAssumption
<1>3. PICK k : k = y - x
  OBVIOUS
<1>4. k \in Int /\ m * k = m * y - m * x
  BY ONLY <1>2, <1>3
<1>5. 0 - m < m * k /\ m * k < m + m
  <2>1. PICK p, q, r : p = m * k /\ q = m * y /\ r = m * x
    OBVIOUS
  <2>2. p \in Int /\ q \in Int /\ r \in Int
    BY ONLY <1>2, <1>4, <2>1
  <2>3. p = q - r /\ a = r + u /\ b = q + v
    BY <1>2, <1>4, <2>1
  <2>4. 0 - m < p /\ p < m + m
    BY ONLY <1>2, <2>2, <2>3, a <= b
  <2> QED
    BY <2>1, <2>4
<1>6. k = 0 \/ k = 1
  <2>1. k <= -1 => m * k <= 0 - m
    BY ONLY <1>2, <1>4
  <2>2. k >= 2 => m * k >= m + m
    BY ONLY <1>2, <1>4
  <2>3. PICK p : p = m * k
    OBVIOUS
  <2>4. p \in Int
    BY ONLY <1>2, <1>4, <2>3
  <2> QED
    BY ONLY <1>2, <1>4, <1>5, <2>1, <2>2, <2>3, <2>4
<1> QED
  BY <1>1, <1>2, <1>3, <1>6

(* Over a wrap, time stamps span the circle without the gap at the wrap.   *)
LEMMA SpanOverWrap ==
  ASSUME NEW P \in SUBSET Int, IsFiniteSet(P), P # {},
         Max(P) - Min(P) < TsMod, FirstTurn(P) # P,
         NEW T, T = {t % TsMod : t \in P}
  PROVE  Span(T) = TsMod - (Min(P \ FirstTurn(P)) - Max(FirstTurn(P)))
<1>1. PICK m, lo, top, d : m = TsMod /\ lo = Min(P) /\ top = Max(P) /\ d = lo \div TsMod
  OBVIOUS
<1>2. lo \in P /\ top \in P /\ \A t \in P : lo <= t /\ t <= top
  BY <1>1, MaxOf, MinOf
<1>3. m \in Nat \ {0} /\ d \in Int /\ top - lo < m
  BY <1>1, <1>2, TicksSplit, MediaAssumption
<1>4. PICK A, B : A = FirstTurn(P) /\ B = P \ A
  OBVIOUS
<1>5. A = {t \in P : t \div TsMod = d} /\ lo \in A /\ B # {}
  <2>1. A = {t \in P : t \div TsMod = d}
    BY <1>1, <1>4 DEF FirstTurn
  <2> QED
    BY <1>1, <1>2, <1>4, <2>1
<1>6. PICK b : b = m * d
  OBVIOUS
<1>7. b \in Int
  BY ONLY <1>3, <1>6
<1>8. ASSUME NEW t \in A
      PROVE  t = b + (t % TsMod) /\ t % TsMod \in 0 .. m - 1
  BY <1>1, <1>5, <1>6, TicksSplit
<1>9. ASSUME NEW t \in B
      PROVE  t = b + m + (t % TsMod) /\ t % TsMod \in 0 .. m - 1
  <2>1. t \in P /\ t \div TsMod # d
    BY <1>4, <1>5
  <2>2. lo \in Int /\ t \in Int /\ top \in Int /\ lo <= t /\ t <= top
    BY <1>2, <2>1
  <2>3. lo <= t /\ t - lo < TsMod
    BY <1>1, <1>3, <2>2
  <2>4. t \div TsMod = d + 1
    BY <1>1, <2>1, <2>2, <2>3, TurnOrNext
  <2>5. t = TsMod * (t \div TsMod) + (t % TsMod) /\ t % TsMod \in 0 .. TsMod - 1
    BY <2>2, TicksSplit
  <2>6. t = m * (d + 1) + (t % TsMod)
    BY <1>1, <2>4, <2>5
  <2>7. m * (d + 1) = b + m
    BY ONLY <1>3, <1>6
  <2> QED
    BY <1>1, <2>5, <2>6, <2>7
<1>10. PICK hi, next : hi = Max(A) /\ next = Min(B)
  OBVIOUS
<1>11. A \in SUBSET Int /\ B \in SUBSET Int /\ IsFiniteSet(A) /\ IsFiniteSet(B)
  BY <1>4, <1>5, FS_Subset
<1>12. hi \in A /\ next \in B /\ (\A t \in A : t <= hi) /\ (\A t \in B : next <= t)
  <2>1. hi \in A /\ \A t \in A : t <= hi
    BY <1>5, <1>10, <1>11, MaxOf
  <2>2. next \in B /\ \A t \in B : next <= t
    BY <1>5, <1>10, <1>11, MinOf
  <2> QED
    BY <2>1, <2>2
<1>13. ASSUME NEW t \in P
       PROVE  t % TsMod <= hi % TsMod /\ next % TsMod <= t % TsMod
  <2>1. PICK v, h, n, l : /\ v = t % TsMod /\ h = hi % TsMod
                          /\ n = next % TsMod /\ l = lo % TsMod
    OBVIOUS
  <2>2. /\ hi = b + h /\ lo = b + l /\ next = b + m + n
        /\ h \in Int /\ l \in Int /\ n \in Int
    BY <1>5, <1>8, <1>9, <1>12, <2>1
  <2>3. lo <= hi /\ next <= top /\ top \in Int /\ t \in Int /\ lo <= t /\ t <= top
    BY <1>2, <1>4, <1>5, <1>12
  <2>4. CASE t \in A
    <3>1. t = b + v /\ v \in Int /\ t <= hi
      BY <1>8, <1>12, <2>1, <2>4
    <3>2. v <= h /\ n <= v
      BY ONLY <1>3, <1>7, <2>2, <2>3, <3>1
    <3> QED
      BY <2>1, <3>2
  <2>5. CASE t \in B
    <3>1. t = b + m + v /\ v \in Int /\ next <= t
      BY <1>9, <1>12, <2>1, <2>5
    <3>2. v <= h /\ n <= v
      BY ONLY <1>3, <1>7, <2>2, <2>3, <3>1
    <3> QED
      BY <2>1, <3>2
  <2> QED
    BY <1>4, <2>4, <2>5
<1>14. T \in SUBSET Int
  BY <1>4, <1>8, <1>9
<1>15. Max(T) = hi % TsMod /\ Min(T) = next % TsMod
  <2>1. hi % TsMod \in T /\ next % TsMod \in T
    BY <1>4, <1>5, <1>12
  <2>2. \A y \in T : y <= hi % TsMod /\ next % TsMod <= y
    BY <1>13
  <2> QED
    BY <1>14, <2>1, <2>2, MaxIs, MinIs
<1>16. (hi % TsMod) - (next % TsMod) = m - (next - hi)
  <2>1. PICK h, n : h = hi % TsMod /\ n = next % TsMod
    OBVIOUS
  <2>2. hi = b + h /\ next = b + m + n /\ h \in Int /\ n \in Int
    BY <1>8, <1>9, <1>12, <2>1
  <2>3. h - n = m - (next - hi)
    BY ONLY <1>3, <1>7, <2>2
  <2> QED
    BY <2>1, <2>3
<1> QED
  BY <1>1, <1>4, <1>10, <1>15, <1>16 DEF Span

(* The span that rates are divided by is the play time from the oldest to  *)
(* the newest frame of the bin, in whatever order the frames arrived, as   *)
(* long as the time stamps do not wrap within the bin; when they do, it is *)
(* the circle without the one gap between two frames that holds the wrap.  *)
THEOREM SpanIsTime == Spec => []SpanOfBin
<1>1. MetricsInv => SpanOfBin
  <2> SUFFICES ASSUME MetricsInv, NEW s \in VideoStreams,
                      NEW P, P = Played(s), Max(P) - Min(P) < TsMod
               PROVE  Span(DOMAIN streams[s].frames) =
                        IF FirstTurn(P) = P
                        THEN Max(P) - Min(P)
                        ELSE TsMod - (Min(P \ FirstTurn(P)) - Max(FirstTurn(P)))
    BY DEF SpanOfBin
  <2>1. PICK T : T = DOMAIN streams[s].frames
    OBVIOUS
  <2>2. s \in DOMAIN streams /\ VideoPackets(s) # {}
    BY VideoHasPackets
  <2>3. IsFiniteSet(VideoPackets(s)) /\ \A p \in VideoPackets(s) : p.index \in Int
    BY FS_Subset DEF VideoPackets, MetricsInv, MediaInv
  <2>4. P \in SUBSET Int /\ P # {} /\ IsFiniteSet(P)
    <3>1. P \in SUBSET Int /\ P # {}
      BY <2>2, <2>3, TimestampType DEF Played
    <3> DEFINE f == [p \in VideoPackets(s) |-> Ticks(p.index)]
    <3>2. f \in Surjection(VideoPackets(s), P)
      BY DEF Surjection, Played
    <3> QED
      BY <2>3, <3>1, <3>2, FS_Surjection
  <2>5. T = {t % TsMod : t \in P}
    BY <2>1, <2>2, FramesType DEF Played, Timestamp
  <2>6. CASE FirstTurn(P) = P
    <3>1. \A t, u \in P : t \div TsMod = u \div TsMod
      BY <2>6 DEF FirstTurn
    <3>2. Span(T) = Max(P) - Min(P)
      BY <2>4, <2>5, <3>1, SpanOfTurn
    <3> QED
      BY <2>1, <2>6, <3>2
  <2>7. CASE FirstTurn(P) # P
    <3>1. Span(T) = TsMod - (Min(P \ FirstTurn(P)) - Max(FirstTurn(P)))
      BY <2>4, <2>5, <2>7, SpanOverWrap
    <3> QED
      BY <2>1, <2>7, <3>1
  <2> QED
    BY <2>6, <2>7
<1> QED
  BY <1>1, MetricsInvCorrect, PTL
=============================================================================
