----------------------------- MODULE FiniteFolds -----------------------------
(***************************************************************************)
(* What the proofs about folds need: induction over the numbers, greatest  *)
(* and least elements, and that a fold over a finite set is defined and,   *)
(* for a sum, does not depend on the order it takes the elements in.       *)
(***************************************************************************)
EXTENDS Integers, FiniteSetsExt, FiniteSetTheorems, WellFoundedInduction, TLAPS

-----------------------------------------------------------------------------
(* Induction, maxima and minima. *)

(* What holds of 0, and of n + 1 when it holds of n, holds of every number: *)
(* of the intervals that end at a number left out, none would be minimal.   *)
LEMMA EveryNumber ==
  ASSUME NEW Good, 0 \in Good,
         \A n \in Nat : n \in Good => n + 1 \in Good
  PROVE  \A n \in Nat : n \in Good
<1> SUFFICES ASSUME NEW left \in Nat, left \notin Good
             PROVE  FALSE
  OBVIOUS
<1> DEFINE T == { 1..n : n \in { k \in Nat : k \notin Good } }
<1>1. T \subseteq FiniteSubsetsOf(Nat) /\ 1..left \in T
  <2>1. \A n \in Nat : 1..n \in SUBSET Nat /\ IsFiniteSet(1..n)
    BY FS_Interval
  <2> QED
    BY <2>1 DEF FiniteSubsetsOf
<1>2. IsWellFoundedOn(StrictSubsetOrdering(Nat), FiniteSubsetsOf(Nat))
  BY FS_StrictSubsetOrderingWellFounded
<1>3. PICK x \in T : \A y \in T : ~(<<y, x>> \in StrictSubsetOrdering(Nat))
  <2> HIDE DEF T
  <2> QED
    BY <1>1, <1>2, WFMin
<1>4. PICK n \in Nat : x = 1..n /\ n \notin Good
  BY <1>3
<1>5. n > 0 /\ n - 1 \in Nat
  BY <1>4
<1>6. n - 1 \notin Good
  BY <1>4, <1>5
<1>7. 1..(n - 1) \in T
  BY <1>5, <1>6
<1>8. 1..(n - 1) \subseteq 1..n /\ n \in 1..n /\ n \notin 1..(n - 1)
  BY <1>5
<1>9. <<1..(n - 1), x>> \in StrictSubsetOrdering(Nat)
  BY <1>4, <1>8 DEF StrictSubsetOrdering
<1> QED
  BY <1>3, <1>7, <1>9

HasGreatest(S) == Max(S) \in S /\ \A x \in S : Max(S) >= x

(* Of finitely many integers and one more, some is the greatest.           *)
LEMMA GreatestExists ==
  ASSUME NEW f, NEW first \in Int, NEW n \in Nat, \A j \in 1..n : f[j] \in Int
  PROVE  HasGreatest({first} \cup { f[j] : j \in 1..n })
<1> DEFINE S(k) == {first} \cup { f[j] : j \in 1..k }
           Good == { k \in Nat : k <= n => \E m \in S(k) : \A x \in S(k) : m >= x }
<1>1. 0 \in Good
  OBVIOUS
<1>2. ASSUME NEW k \in Nat, k \in Good
      PROVE  k + 1 \in Good
  <2> SUFFICES ASSUME k + 1 <= n
               PROVE  \E m \in S(k + 1) : \A x \in S(k + 1) : m >= x
    OBVIOUS
  <2>1. PICK m \in S(k) : \A x \in S(k) : m >= x
    BY <1>2
  <2>2. 1..(k + 1) = 1..k \cup {k + 1} /\ k + 1 \in 1..n /\ 1..k \subseteq 1..n
    OBVIOUS
  <2>3. S(k + 1) = S(k) \cup {f[k + 1]}
    BY <2>2
  <2>4. f[k + 1] \in Int /\ m \in Int /\ \A x \in S(k) : x \in Int
    BY <2>2
  <2> HIDE DEF S
  <2>5. CASE m >= f[k + 1]
    BY <2>1, <2>3, <2>5
  <2>6. CASE f[k + 1] >= m
    <3>1. \A x \in S(k) : f[k + 1] >= x
      BY <2>1, <2>4, <2>6
    <3> QED
      BY <2>3, <2>4, <3>1
  <2> QED
    BY <2>4, <2>5, <2>6
<1>3. \A k \in Nat : k \in Good
  <2> HIDE DEF Good
  <2> QED
    BY <1>1, <1>2, EveryNumber
<1>4. \E m \in S(n) : \A x \in S(n) : m >= x
  <2>1. n \in Good
    <3> HIDE DEF Good
    <3> QED
      BY <1>3
  <2>2. n <= n
    OBVIOUS
  <2> HIDE DEF S
  <2> QED
    BY <2>1, <2>2
<1> QED
  BY <1>4 DEF Max, HasGreatest
(* Among the positions of a sequence that qualify there is a first: of the *)
(* intervals that end at one of them, some is minimal.                     *)
LEMMA FirstPosition ==
  ASSUME NEW S \in SUBSET Nat, S # {}
  PROVE  Min(S) \in S /\ \A n \in S : Min(S) <= n
<1> DEFINE T == { 1..n : n \in S }
<1>1. T \subseteq FiniteSubsetsOf(Nat) /\ T # {}
  <2>1. \A n \in S : 1..n \in SUBSET Nat /\ IsFiniteSet(1..n)
    BY FS_Interval
  <2> QED
    BY <2>1 DEF FiniteSubsetsOf
<1>2. IsWellFoundedOn(StrictSubsetOrdering(Nat), FiniteSubsetsOf(Nat))
  BY FS_StrictSubsetOrderingWellFounded
<1>3. PICK x \in T : \A y \in T : ~(<<y, x>> \in StrictSubsetOrdering(Nat))
  <2> HIDE DEF T
  <2> QED
    BY <1>1, <1>2, WFMin
<1>4. PICK n \in S : x = 1..n
  BY <1>3
<1>5. \A m \in S : n <= m
  <2> SUFFICES ASSUME NEW m \in S, m < n
               PROVE  FALSE
    OBVIOUS
  <2>1. 1..m \subseteq 1..n /\ n \in 1..n /\ n \notin 1..m
    OBVIOUS
  <2>2. <<1..m, x>> \in StrictSubsetOrdering(Nat)
    BY <2>1, <1>4 DEF StrictSubsetOrdering
  <2> QED
    BY <2>2, <1>3
<1> QED
  BY <1>5 DEF Min

-----------------------------------------------------------------------------
(* Folds over finite sets, as the community modules compute them. *)

(* The three folds in use: a sum over a set, a sum over a sequence and an  *)
(* exponential average; the last two take the greatest position first.     *)
Combined(kind, w, v, r) ==
  CASE kind = "set" -> v + r
    [] kind = "sequence" -> r + v
    [] OTHER -> (2 * v + (w - 1) * r) \div (w + 1)
Chosen(kind, s) == IF kind = "set" THEN CHOOSE x \in s : TRUE ELSE Max(s)

(* g computes the fold of v from base on, for the subsets in X.            *)
Folds(kind, w, base, v, X, g) ==
  g = [ s \in X |->
          IF s = {} THEN base
          ELSE Combined(kind, w, v[Chosen(kind, s)], g[s \ {Chosen(kind, s)}]) ]

Chooses(kind, D) ==
  IsFiniteSet(D) /\ \A s \in SUBSET D : s # {} => Chosen(kind, s) \in s

Small(D, n) == { s \in SUBSET D : Cardinality(s) <= n }

LEMMA SmallerByOne ==
  ASSUME NEW D, IsFiniteSet(D), NEW s \in SUBSET D, NEW x \in s
  PROVE  /\ IsFiniteSet(s) /\ s \ {x} \in SUBSET D
         /\ Cardinality(s) \in Nat /\ Cardinality(s) > 0
         /\ Cardinality(s \ {x}) = Cardinality(s) - 1
<1>1. IsFiniteSet(s)
  BY FS_Subset
<1>2. Cardinality(s) \in Nat /\ IsFiniteSet(s \ {x})
  BY <1>1, FS_CardinalityType, FS_RemoveElement
<1>3. Cardinality(s \ {x}) = Cardinality(s) - 1
  BY <1>1, FS_RemoveElement
<1>4. Cardinality(s \ {x}) \in Nat
  BY <1>2, FS_CardinalityType
<1> QED
  BY <1>1, <1>2, <1>3, <1>4

(* The fold is defined: what it computes for the small subsets extends to  *)
(* those with one element more.                                            *)
LEMMA FoldExists ==
  ASSUME NEW kind, NEW w, NEW base, NEW v, NEW D, Chooses(kind, D)
  PROVE  \E g : Folds(kind, w, base, v, SUBSET D, g)
<1>0. IsFiniteSet(D)
  BY DEF Chooses
<1> DEFINE Good == { n \in Nat : \E g : Folds(kind, w, base, v, Small(D, n), g) }
<1>1. 0 \in Good
  <2>1. \A s \in Small(D, 0) : s = {}
    <3> SUFFICES ASSUME NEW s \in Small(D, 0), NEW x \in s
                 PROVE  FALSE
      OBVIOUS
    <3>1. s \in SUBSET D /\ Cardinality(s) <= 0
      BY DEF Small
    <3>2. Cardinality(s) \in Nat /\ Cardinality(s) > 0
      BY <1>0, <3>1, SmallerByOne
    <3> QED
      BY <3>1, <3>2
  <2> DEFINE g == [ s \in Small(D, 0) |-> base ]
  <2>2. Folds(kind, w, base, v, Small(D, 0), g)
    BY <2>1 DEF Folds
  <2> QED
    BY <2>2
<1>2. ASSUME NEW n \in Nat, n \in Good
      PROVE  n + 1 \in Good
  <2>1. PICK g : Folds(kind, w, base, v, Small(D, n), g)
    BY <1>2
  <2> DEFINE Value(s) == IF s = {} THEN base
                         ELSE Combined(kind, w, v[Chosen(kind, s)],
                                       g[s \ {Chosen(kind, s)}])
             h == [ s \in Small(D, n + 1) |-> Value(s) ]
  <2>2. \A s \in Small(D, n) : g[s] = Value(s)
    BY <2>1 DEF Folds
  <2>3. Small(D, n) \subseteq Small(D, n + 1)
    <3> SUFFICES ASSUME NEW s \in SUBSET D, Cardinality(s) <= n
                 PROVE  Cardinality(s) <= n + 1
      BY DEF Small
    <3>1. Cardinality(s) \in Nat
      BY <1>0, FS_Subset, FS_CardinalityType
    <3> QED
      BY <3>1
  <2>4. \A s \in Small(D, n) : h[s] = g[s]
    BY <2>2, <2>3
  <2>5. ASSUME NEW s \in Small(D, n + 1), s # {}
        PROVE  s \ {Chosen(kind, s)} \in Small(D, n)
    <3>1. s \in SUBSET D /\ Cardinality(s) <= n + 1 /\ Chosen(kind, s) \in s
      BY <2>5 DEF Small, Chooses
    <3>2. /\ s \ {Chosen(kind, s)} \in SUBSET D /\ Cardinality(s) \in Nat
          /\ Cardinality(s \ {Chosen(kind, s)}) = Cardinality(s) - 1
      BY <1>0, <3>1, SmallerByOne
    <3>3. Cardinality(s \ {Chosen(kind, s)}) <= n
      BY <3>1, <3>2
    <3> QED
      BY <3>2, <3>3 DEF Small
  <2>6. \A s \in Small(D, n + 1) :
          Value(s) = IF s = {} THEN base
                     ELSE Combined(kind, w, v[Chosen(kind, s)],
                                   h[s \ {Chosen(kind, s)}])
    BY <2>4, <2>5
  <2>7. h = [ s \in Small(D, n + 1) |->
                IF s = {} THEN base
                ELSE Combined(kind, w, v[Chosen(kind, s)],
                              h[s \ {Chosen(kind, s)}]) ]
    <3> HIDE DEF Value
    <3> QED
      BY <2>6
  <2>8. Folds(kind, w, base, v, Small(D, n + 1), h)
    <3> HIDE DEF h
    <3> QED
      BY <2>7 DEF Folds
  <2> QED
    BY <2>8
<1>3. \A n \in Nat : n \in Good
  <2> HIDE DEF Good
  <2> QED
    BY <1>1, <1>2, EveryNumber
<1>4. Small(D, Cardinality(D)) = SUBSET D /\ Cardinality(D) \in Nat
  BY <1>0, FS_CardinalityType, FS_Subset DEF Small
<1>5. PICK g : Folds(kind, w, base, v, Small(D, Cardinality(D)), g)
  BY <1>3, <1>4
<1> QED
  BY <1>4, <1>5

(* What a fold computes is of the type its steps keep.                     *)
LEMMA FoldType ==
  ASSUME NEW kind, NEW w, NEW v, NEW D, Chooses(kind, D),
         NEW T, NEW base \in T,
         \A x \in D : \A r \in T : Combined(kind, w, v[x], r) \in T,
         NEW g, Folds(kind, w, base, v, SUBSET D, g)
  PROVE  g[D] \in T
<1>0. IsFiniteSet(D)
  BY DEF Chooses
<1> DEFINE Good == { n \in Nat : \A s \in SUBSET D : Cardinality(s) <= n => g[s] \in T }
<1>1. \A s \in SUBSET D :
        g[s] = IF s = {} THEN base
               ELSE Combined(kind, w, v[Chosen(kind, s)], g[s \ {Chosen(kind, s)}])
  BY DEF Folds
<1>2. ASSUME NEW n \in Nat, NEW s \in SUBSET D, Cardinality(s) <= n,
             \A r \in SUBSET D : Cardinality(r) <= n - 1 => g[r] \in T
      PROVE  g[s] \in T
  <2>1. CASE s = {}
    BY <1>1, <2>1
  <2>2. CASE s # {}
    <3> DEFINE x == Chosen(kind, s)
    <3>1. x \in s /\ x \in D
      BY <2>2 DEF Chooses
    <3> HIDE DEF x
    <3>2. /\ s \ {x} \in SUBSET D /\ Cardinality(s) \in Nat
          /\ Cardinality(s \ {x}) = Cardinality(s) - 1
      BY <1>0, <3>1, SmallerByOne
    <3>3. Cardinality(s \ {x}) <= n - 1
      BY <1>2, <3>2
    <3>4. g[s \ {x}] \in T
      BY <1>2, <3>2, <3>3
    <3> QED
      BY <1>1, <2>2, <3>1, <3>4 DEF x
  <2> QED
    BY <2>1, <2>2
<1>3. \A s \in SUBSET D : Cardinality(s) \in Nat
  BY <1>0, FS_Subset, FS_CardinalityType
<1>4. 0 \in Good
  <2>1. \A r \in SUBSET D : ~(Cardinality(r) <= 0 - 1)
    BY <1>3
  <2>2. \A s \in SUBSET D : Cardinality(s) <= 0 => g[s] \in T
    BY <1>2, <2>1
  <2> QED
    BY <2>2
<1>5. ASSUME NEW n \in Nat, n \in Good
      PROVE  n + 1 \in Good
  <2>1. \A r \in SUBSET D : Cardinality(r) <= (n + 1) - 1 => g[r] \in T
    BY <1>3, <1>5
  <2>2. \A s \in SUBSET D : Cardinality(s) <= n + 1 => g[s] \in T
    BY <1>2, <2>1
  <2> QED
    BY <2>2
<1>6. \A n \in Nat : n \in Good
  <2> HIDE DEF Good
  <2> QED
    BY <1>4, <1>5, EveryNumber
<1>7. Cardinality(D) \in Nat /\ Cardinality(D) <= Cardinality(D)
  BY <1>0, FS_CardinalityType
<1>8. Cardinality(D) \in Good
  <2> HIDE DEF Good
  <2> QED
    BY <1>6, <1>7
<1> QED
  BY <1>7, <1>8

-----------------------------------------------------------------------------
(* Sums over sets. *)

Choice(s) == CHOOSE x \in s : TRUE
Sums(v, X, g) == Folds("set", 0, 0, v, X, g)

LEMMA ChoiceIsPart ==
  ASSUME NEW s, s # {}
  PROVE  Choice(s) \in s
BY DEF Choice

LEMMA SumsExist ==
  ASSUME NEW v, NEW D, IsFiniteSet(D)
  PROVE  \E g : Sums(v, SUBSET D, g)
<1>1. Chooses("set", D)
  BY DEF Chooses, Chosen
<1> QED
  BY <1>1, FoldExists DEF Sums

(* A sum adds a chosen element to the sum of the others.                   *)
LEMMA SumsRead ==
  ASSUME NEW v, NEW X, NEW g
  PROVE  Sums(v, X, g) <=>
           g = [ s \in X |-> IF s = {} THEN 0 ELSE v[Choice(s)] + g[s \ {Choice(s)}] ]
<1> DEFINE A(s) == IF s = {} THEN 0
                   ELSE Combined("set", 0, v[Chosen("set", s)], g[s \ {Chosen("set", s)}])
           B(s) == IF s = {} THEN 0 ELSE v[Choice(s)] + g[s \ {Choice(s)}]
<1>1. \A s : A(s) = B(s)
  BY DEF Combined, Chosen, Choice
<1>2. [ s \in X |-> A(s) ] = [ s \in X |-> B(s) ]
  <2> HIDE DEF A, B
  <2> QED
    BY <1>1
<1> QED
  BY <1>2 DEF Sums, Folds

Summable(v, D) == IsFiniteSet(D) /\ \A x \in D : v[x] \in Int

AddsUp(v, D, g) ==
  /\ g[{}] = 0
  /\ \A s \in SUBSET D : g[s] \in Int
  /\ \A s \in SUBSET D : \A x \in s : g[s] = v[x] + g[s \ {x}]

(* What the fold returns does not depend on the element it chooses.        *)
LEMMA SumsTakeAny ==
  ASSUME NEW D, NEW v, Summable(v, D), NEW g, Sums(v, SUBSET D, g)
  PROVE  AddsUp(v, D, g)
<1>0. IsFiniteSet(D) /\ \A x \in D : v[x] \in Int
  BY DEF Summable
<1>1. \A s \in SUBSET D :
        g[s] = IF s = {} THEN 0 ELSE v[Choice(s)] + g[s \ {Choice(s)}]
  BY SumsRead
<1>6. g[{}] = 0
  BY <1>1
<1> DEFINE Fine(s) == g[s] \in Int /\ \A x \in s : g[s] = v[x] + g[s \ {x}]
           Good == { n \in Nat : \A s \in SUBSET D : Cardinality(s) <= n => Fine(s) }
<1>2. 0 \in Good
  <2> SUFFICES ASSUME NEW s \in SUBSET D, Cardinality(s) <= 0
               PROVE  Fine(s)
    OBVIOUS
  <2>1. ASSUME NEW x \in s PROVE FALSE
    <3>1. Cardinality(s) \in Nat /\ Cardinality(s) > 0
      BY <1>0, SmallerByOne
    <3> QED
      BY <3>1
  <2>2. s = {}
    BY <2>1
  <2> QED
    BY <1>6, <2>2
<1>3. ASSUME NEW n \in Nat, n \in Good
      PROVE  n + 1 \in Good
  <2> SUFFICES ASSUME NEW s \in SUBSET D, Cardinality(s) <= n + 1
               PROVE  Fine(s)
    OBVIOUS
  <2>1. ASSUME NEW x \in s
        PROVE  s \ {x} \in SUBSET D /\ Fine(s \ {x})
    <3>1. /\ s \ {x} \in SUBSET D /\ Cardinality(s) \in Nat
          /\ Cardinality(s \ {x}) = Cardinality(s) - 1
      BY <1>0, SmallerByOne
    <3>2. Cardinality(s \ {x}) <= n
      BY <3>1
    <3> HIDE DEF Fine
    <3> QED
      BY <1>3, <3>1, <3>2
  <2>2. CASE s = {}
    BY <1>6, <2>2
  <2>3. CASE s # {}
    <3> DEFINE p == Choice(s)
    <3>1. p \in s /\ p \in D /\ g[s] = v[p] + g[s \ {p}]
      BY <1>1, <2>3, ChoiceIsPart
    <3> HIDE DEF p
    <3>2. g[s] \in Int
      <4>1. v[p] \in Int /\ g[s \ {p}] \in Int
        BY <1>0, <2>1, <3>1
      <4> QED
        BY <3>1, <4>1
    <3>3. ASSUME NEW x \in s
          PROVE  g[s] = v[x] + g[s \ {x}]
      <4>1. CASE x = p
        BY <3>1, <4>1
      <4>2. CASE x # p
        <5>1. x \in s \ {p} /\ p \in s \ {x} /\ x \in D
          BY <3>1, <4>2
        <5>2. g[s \ {p}] = v[x] + g[(s \ {p}) \ {x}]
          BY <2>1, <3>1, <5>1
        <5>3. g[s \ {x}] = v[p] + g[(s \ {x}) \ {p}]
          BY <2>1, <5>1
        <5>4. (s \ {p}) \ {x} = (s \ {x}) \ {p}
          OBVIOUS
        <5>5. PICK rest \in Int : rest = g[(s \ {p}) \ {x}]
          <6>1. (s \ {p}) \ {x} \in SUBSET D /\ Fine(s \ {p})
            BY <2>1, <3>1
          <6>2. Cardinality((s \ {p}) \ {x}) <= n
            <7>1. /\ IsFiniteSet(s) /\ Cardinality(s) \in Nat
                  /\ Cardinality(s \ {p}) = Cardinality(s) - 1
              BY <1>0, <3>1, SmallerByOne
            <7>2. s \ {p} \in SUBSET D
              OBVIOUS
            <7>3. Cardinality((s \ {p}) \ {x}) = Cardinality(s \ {p}) - 1
              BY <1>0, <5>1, <7>2, SmallerByOne
            <7> QED
              BY <7>1, <7>3
          <6> QED
            BY <1>3, <6>1, <6>2
        <5>6. PICK a \in Int, b \in Int : a = v[x] /\ b = v[p]
          BY <1>0, <3>1, <5>1
        <5>7. g[s] = b + (a + rest) /\ v[x] + g[s \ {x}] = a + (b + rest)
          BY <3>1, <5>2, <5>3, <5>4, <5>5, <5>6
        <5> QED
          BY <5>7
      <4> QED
        BY <4>1, <4>2
    <3> QED
      BY <3>2, <3>3
  <2> QED
    BY <2>2, <2>3
<1>4. \A n \in Nat : n \in Good
  <2> HIDE DEF Good
  <2> QED
    BY <1>2, <1>3, EveryNumber
<1>5. ASSUME NEW s \in SUBSET D
      PROVE  Fine(s)
  <2>1. Cardinality(s) \in Nat /\ Cardinality(s) <= Cardinality(s)
    BY <1>0, FS_Subset, FS_CardinalityType
  <2> HIDE DEF Fine
  <2>2. Cardinality(s) \in Good
    <3> HIDE DEF Good
    <3> QED
      BY <1>4, <2>1
  <2> QED
    BY <2>1, <2>2
<1> QED
  BY <1>5, <1>6 DEF AddsUp

(* Two functions that add up the same numbers agree.                       *)
LEMMA SumIsUnique ==
  ASSUME NEW D, NEW v, IsFiniteSet(D), NEW g, AddsUp(v, D, g),
         NEW h, AddsUp(v, D, h)
  PROVE  \A s \in SUBSET D : g[s] = h[s]
<1> DEFINE Good == { k \in Nat : \A s \in SUBSET D : Cardinality(s) <= k => g[s] = h[s] }
<1>1. ASSUME NEW k \in Nat, NEW s \in SUBSET D, Cardinality(s) <= k,
             \A r \in SUBSET D : Cardinality(r) <= k - 1 => g[r] = h[r]
      PROVE  g[s] = h[s]
  <2>1. CASE s = {}
    BY <2>1 DEF AddsUp
  <2>2. CASE s # {}
    <3>1. PICK x \in s : TRUE
      BY <2>2
    <3>2. g[s] = v[x] + g[s \ {x}] /\ h[s] = v[x] + h[s \ {x}]
      BY <3>1 DEF AddsUp
    <3>3. /\ s \ {x} \in SUBSET D /\ Cardinality(s) \in Nat
          /\ Cardinality(s \ {x}) = Cardinality(s) - 1
      BY <3>1, SmallerByOne
    <3>4. Cardinality(s \ {x}) <= k - 1
      BY <1>1, <3>3
    <3> QED
      BY <1>1, <3>2, <3>3, <3>4
  <2> QED
    BY <2>1, <2>2
<1>2. \A s \in SUBSET D : Cardinality(s) \in Nat
  BY FS_Subset, FS_CardinalityType
<1>3. 0 \in Good
  <2> SUFFICES ASSUME NEW s \in SUBSET D, Cardinality(s) <= 0
               PROVE  g[s] = h[s]
    OBVIOUS
  <2>1. \A r \in SUBSET D : ~(Cardinality(r) <= 0 - 1)
    BY <1>2
  <2> QED
    BY <1>1, <2>1
<1>4. ASSUME NEW k \in Nat, k \in Good
      PROVE  k + 1 \in Good
  <2>1. \A r \in SUBSET D : Cardinality(r) <= (k + 1) - 1 => g[r] = h[r]
    BY <1>2, <1>4
  <2>2. \A s \in SUBSET D : Cardinality(s) <= k + 1 => g[s] = h[s]
    BY <1>1, <2>1
  <2> QED
    BY <2>2
<1>5. \A k \in Nat : k \in Good
  <2> HIDE DEF Good
  <2> QED
    BY <1>3, <1>4, EveryNumber
<1> SUFFICES ASSUME NEW s \in SUBSET D
             PROVE  g[s] = h[s]
  OBVIOUS
<1>6. Cardinality(s) \in Nat /\ Cardinality(s) <= Cardinality(s)
  BY <1>2
<1>7. Cardinality(s) \in Good
  <2> HIDE DEF Good
  <2> QED
    BY <1>5, <1>6
<1> QED
  BY <1>6, <1>7

(* The elements of R of kind x, and those of a kind in s.                  *)
OfKind(R, f, x) == { r \in R : f[r] = x }
OfKinds(R, f, s) == { r \in R : f[r] \in s }

(* v counts R by kinds, of which there are finitely many.                  *)
Counts(R, f, D, v) ==
  /\ IsFiniteSet(R) /\ IsFiniteSet(D)
  /\ \A r \in R : f[r] \in D
  /\ \A x \in D : v[x] = Cardinality(OfKind(R, f, x))

(* Counting a finite set kind by kind counts each of its elements once.    *)
LEMMA CountsAddUp ==
  ASSUME NEW R, NEW f, NEW D, NEW v, Counts(R, f, D, v),
         NEW g, Sums(v, SUBSET D, g)
  PROVE  g[D] = Cardinality(R)
<1>0. /\ IsFiniteSet(R) /\ IsFiniteSet(D)
      /\ \A r \in R : f[r] \in D
      /\ \A x \in D : v[x] = Cardinality(OfKind(R, f, x))
  BY DEF Counts
<1> DEFINE h == [ s \in SUBSET D |-> Cardinality(OfKinds(R, f, s)) ]
<1>1. \A s : /\ OfKinds(R, f, s) \in SUBSET R /\ IsFiniteSet(OfKinds(R, f, s))
             /\ Cardinality(OfKinds(R, f, s)) \in Nat
  <2>1. \A s : OfKinds(R, f, s) \in SUBSET R
    BY DEF OfKinds
  <2>2. \A s : IsFiniteSet(OfKinds(R, f, s))
    BY <1>0, <2>1, FS_Subset
  <2> QED
    BY <2>1, <2>2, FS_CardinalityType
<1>2. \A x : /\ IsFiniteSet(OfKind(R, f, x))
             /\ Cardinality(OfKind(R, f, x)) \in Nat
  <2>1. \A x : OfKind(R, f, x) \in SUBSET R
    BY DEF OfKind
  <2>2. \A x : IsFiniteSet(OfKind(R, f, x))
    BY <1>0, <2>1, FS_Subset
  <2> QED
    BY <2>1, <2>2, FS_CardinalityType
<1>3. ASSUME NEW s \in SUBSET D, NEW x \in s
      PROVE  h[s] = v[x] + h[s \ {x}]
  <2>1. /\ OfKinds(R, f, s) = OfKind(R, f, x) \cup OfKinds(R, f, s \ {x})
        /\ OfKind(R, f, x) \cap OfKinds(R, f, s \ {x}) = {}
    BY DEF OfKind, OfKinds
  <2>2. Cardinality(OfKinds(R, f, s)) =
          Cardinality(OfKind(R, f, x)) + Cardinality(OfKinds(R, f, s \ {x}))
            - Cardinality({})
    BY <1>1, <1>2, <2>1, FS_Union
  <2>3. h[s] = Cardinality(OfKinds(R, f, s))
        /\ h[s \ {x}] = Cardinality(OfKinds(R, f, s \ {x}))
    OBVIOUS
  <2>4. v[x] = Cardinality(OfKind(R, f, x))
    BY <1>0
  <2> HIDE DEF h
  <2> QED
    BY <1>1, <1>2, <2>2, <2>3, <2>4, FS_EmptySet
<1>4. h[{}] = 0
  <2>1. OfKinds(R, f, {}) = {}
    BY DEF OfKinds
  <2> QED
    BY <2>1, FS_EmptySet
<1>5. AddsUp(v, D, h)
  <2>1. \A s \in SUBSET D : h[s] \in Int
    BY <1>1
  <2> HIDE DEF h
  <2> QED
    BY <1>3, <1>4, <2>1 DEF AddsUp
<1>6. AddsUp(v, D, g)
  <2>1. Summable(v, D)
    BY <1>0, <1>2 DEF Summable
  <2> QED
    BY <2>1, SumsTakeAny
<1>7. h[D] = Cardinality(R)
  <2>1. OfKinds(R, f, D) = R
    BY <1>0 DEF OfKinds
  <2> QED
    BY <2>1
<1> HIDE DEF h
<1>8. g[D] = h[D]
  BY <1>0, <1>5, <1>6, SumIsUnique
<1> QED
  BY <1>7, <1>8

=============================================================================
