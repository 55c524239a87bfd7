------------------------- MODULE UsageTablesProofs -------------------------
(***************************************************************************)
(* Theorems about the numbers in the tables of UsageTables, for any number *)
(* of workers, frames and emits.  The tables add up what the instances     *)
(* sent, so the first part is about sums over finite sets: MapThenSumSet   *)
(* takes the elements in an order of its own, which must not matter.       *)
(***************************************************************************)
EXTENDS UsageTables, FiniteSetTheorems, WellFoundedInduction, TLAPS

-----------------------------------------------------------------------------
(* Sums over a finite set.  h holds what is added up.                      *)

First(s) == CHOOSE x \in s : TRUE
Adding(h, S, v) ==
    [s \in SUBSET S |-> IF s = {} THEN 0 ELSE h[First(s)] + v[s \ {First(s)}]]
Adder(h, S) == CHOOSE v : v = Adding(h, S, v)
Sum(h, S) == Adder(h, S)[S]

\* A set T of numbers that has 0 and the successors of its members has them all.
LEMMA UpToAll ==
    ASSUME NEW T, 0 \in T, \A n \in Nat : n \in T => n + 1 \in T
    PROVE  Nat \subseteq T
  <1> DEFINE U == Nat \ T
             R == {ss \in Nat \X Nat : ss[1] < ss[2]}
  <1> SUFFICES ASSUME U # {} PROVE FALSE
    OBVIOUS
  <1>1. IsWellFoundedOn(R, Nat)
    BY NatLessThanWellFounded DEF OpToRel
  <1>2. U \subseteq Nat
    OBVIOUS
  <1>3. PICK x \in U : \A y \in U : ~ (<<y, x>> \in R)
    <2> HIDE DEF R, U
    <2> QED BY <1>1, <1>2, WFMin
  <1>4. x \in Nat /\ x # 0
    OBVIOUS
  <1>5. x - 1 \in Nat /\ <<x - 1, x>> \in R
    BY <1>4
  <1>6. x - 1 \in T
    BY <1>3, <1>5
  <1>7. (x - 1) + 1 \in T /\ (x - 1) + 1 = x
    BY <1>4, <1>5, <1>6
  <1> QED BY <1>7

\* A family T of subsets that has each set of which it has all that lack one
\* element has all subsets.
LEMMA SubsetsAll ==
    ASSUME NEW S, IsFiniteSet(S), NEW T,
           \A s \in SUBSET S : (\A x \in s : s \ {x} \in T) => s \in T
    PROVE  SUBSET S \subseteq T
  <1> DEFINE M == {n \in Nat : \A s \in SUBSET S : Cardinality(s) = n => s \in T}
  <1>1. \A s \in SUBSET S : IsFiniteSet(s) /\ Cardinality(s) \in Nat
    BY FS_Subset, FS_CardinalityType
  <1>2. 0 \in M
    <2> SUFFICES ASSUME NEW s \in SUBSET S, Cardinality(s) = 0 PROVE s \in T
      OBVIOUS
    <2>1. s = {}
      BY <1>1, FS_EmptySet
    <2> QED BY <2>1
  <1>3. ASSUME NEW n \in Nat, n \in M PROVE n + 1 \in M
    <2> SUFFICES ASSUME NEW s \in SUBSET S, Cardinality(s) = n + 1 PROVE s \in T
      OBVIOUS
    <2>1. ASSUME NEW x \in s PROVE s \ {x} \in T
      <3>1. IsFiniteSet(s)
        BY <1>1
      <3>2. Cardinality(s \ {x}) = Cardinality(s) - 1
        BY <3>1, FS_RemoveElement
      <3>3. s \ {x} \in SUBSET S /\ Cardinality(s \ {x}) = n
        BY <3>2
      <3> QED BY <3>3, <1>3
    <2> QED BY <2>1
  <1>4. Nat \subseteq M
    <2> HIDE DEF M
    <2> QED BY <1>2, <1>3, UpToAll
  <1> QED BY <1>1, <1>4

\* There is such a fold.
LEMMA AdderExists ==
    ASSUME NEW h, NEW S, IsFiniteSet(S)
    PROVE  Adder(h, S) = Adding(h, S, Adder(h, S))
  <1> DEFINE Good(v, n) == \A s \in SUBSET S : Cardinality(s) <= n =>
                              v[s] = Adding(h, S, v)[s]
             M == {n \in Nat : \E v : Good(v, n)}
  <1>1. \A s \in SUBSET S : IsFiniteSet(s) /\ Cardinality(s) \in Nat
                               /\ Cardinality(s) <= Cardinality(S)
    BY FS_Subset, FS_CardinalityType
  <1>2. 0 \in M
    <2> DEFINE v == [s \in SUBSET S |-> 0]
    <2>1. ASSUME NEW s \in SUBSET S, Cardinality(s) <= 0 PROVE v[s] = Adding(h, S, v)[s]
      <3>1. s = {}
        BY <1>1, <2>1, FS_EmptySet
      <3> QED BY <3>1 DEF Adding
    <2>2. Good(v, 0)
      <3> HIDE DEF v
      <3> QED BY <2>1
    <2> HIDE DEF Good
    <2> QED BY <2>2
  <1>3. ASSUME NEW n \in Nat, n \in M PROVE n + 1 \in M
    <2>1. PICK v : Good(v, n)
      BY <1>3
    <2> DEFINE u == Adding(h, S, v)
    <2>2. ASSUME NEW s \in SUBSET S, Cardinality(s) <= n + 1
          PROVE  u[s] = Adding(h, S, u)[s]
      <3>1. CASE s = {}
        BY <3>1 DEF Adding
      <3>2. CASE s # {}
        <4> DEFINE r == s \ {First(s)}
        <4>1. First(s) \in s
          BY <3>2 DEF First
        <4>2. r \in SUBSET S /\ Cardinality(r) <= n
          <5>1. Cardinality(r) = Cardinality(s) - 1
            BY <4>1, <1>1, FS_RemoveElement
          <5> QED BY <5>1, <1>1, <2>2
        <4>3. v[r] = u[r]
          <5> HIDE DEF r, u
          <5> QED BY <2>1, <4>2 DEF u
        <4>4. u[s] = h[First(s)] + v[r]
          BY <3>2 DEF Adding
        <4>5. Adding(h, S, u)[s] = h[First(s)] + u[r]
          <5> HIDE DEF u
          <5> QED BY <3>2 DEF Adding
        <4> HIDE DEF r, u
        <4> QED BY <4>3, <4>4, <4>5
      <3> QED BY <3>1, <3>2
    <2>3. Good(u, n + 1)
      <3> HIDE DEF u
      <3> QED BY <2>2
    <2> HIDE DEF Good
    <2> QED BY <2>3
  <1>4. Nat \subseteq M
    <2> HIDE DEF M
    <2> QED BY <1>2, <1>3, UpToAll
  <1>5. PICK v : Good(v, Cardinality(S))
    <2>1. Cardinality(S) \in Nat
      BY FS_CardinalityType
    <2> HIDE DEF Good
    <2> QED BY <2>1, <1>4
  <1> DEFINE u == Adding(h, S, v)
  <1>6. u = Adding(h, S, u)
    <2>1. \A s \in SUBSET S : v[s] = u[s]
      BY <1>1, <1>5
    <2>2. \A s \in SUBSET S : s # {} => s \ {First(s)} \in SUBSET S
      OBVIOUS
    <2>3. Adding(h, S, v) = Adding(h, S, u)
      <3> HIDE DEF u
      <3> QED BY <2>1, <2>2 DEF Adding
    <2> QED BY <2>3
  <1> HIDE DEF u
  <1> QED BY <1>6 DEF Adder

\* The sum of a subset is what the fold of the set has for it.
LEMMA AdderRestricts ==
    ASSUME NEW h, NEW S, IsFiniteSet(S), NEW R \in SUBSET S
    PROVE  Sum(h, R) = Adder(h, S)[R]
  <1> DEFINE T == {s \in SUBSET R : Adder(h, R)[s] = Adder(h, S)[s]}
  <1>1. IsFiniteSet(R)
    BY FS_Subset
  <1>2. /\ Adder(h, R) = Adding(h, R, Adder(h, R))
        /\ Adder(h, S) = Adding(h, S, Adder(h, S))
    BY <1>1, AdderExists
  <1>3. ASSUME NEW s \in SUBSET R, \A x \in s : s \ {x} \in T PROVE s \in T
    <2>1. s \in SUBSET S
      OBVIOUS
    <2>2. /\ Adder(h, R)[s] = IF s = {} THEN 0 ELSE h[First(s)] + Adder(h, R)[s \ {First(s)}]
          /\ Adder(h, S)[s] = IF s = {} THEN 0 ELSE h[First(s)] + Adder(h, S)[s \ {First(s)}]
      BY <1>2, <2>1 DEF Adding
    <2>3. s # {} => s \ {First(s)} \in T
      BY <1>3 DEF First
    <2> QED BY <2>2, <2>3
  <1>4. SUBSET R \subseteq T
    <2> HIDE DEF T
    <2> QED BY <1>1, <1>3, SubsetsAll
  <1> QED BY <1>4 DEF Sum

LEMMA SumUnfolds ==
    ASSUME NEW h, NEW S, IsFiniteSet(S)
    PROVE  Sum(h, S) = IF S = {} THEN 0 ELSE h[First(S)] + Sum(h, S \ {First(S)})
  <1>1. Adder(h, S)[S] = IF S = {} THEN 0
                         ELSE h[First(S)] + Adder(h, S)[S \ {First(S)}]
    <2> DEFINE a == Adder(h, S)
    <2>1. a = Adding(h, S, a) /\ S \in SUBSET S
      BY AdderExists
    <2> HIDE DEF a
    <2>2. a[S] = IF S = {} THEN 0 ELSE h[First(S)] + a[S \ {First(S)}]
      BY <2>1 DEF Adding
    <2> QED BY <2>2 DEF a
  <1>2. Adder(h, S)[S \ {First(S)}] = Sum(h, S \ {First(S)})
    BY AdderRestricts
  <1> QED BY <1>1, <1>2 DEF Sum

LEMMA SumType ==
    ASSUME NEW S, IsFiniteSet(S), NEW h, \A x \in S : h[x] \in Nat
    PROVE  Sum(h, S) \in Nat
  <1> DEFINE T == {s \in SUBSET S : Sum(h, s) \in Nat}
  <1>1. ASSUME NEW s \in SUBSET S, \A x \in s : s \ {x} \in T PROVE s \in T
    <2>1. IsFiniteSet(s)
      BY FS_Subset
    <2>2. Sum(h, s) = IF s = {} THEN 0 ELSE h[First(s)] + Sum(h, s \ {First(s)})
      BY <2>1, SumUnfolds
    <2>3. s # {} => First(s) \in s
      BY DEF First
    <2>4. s # {} => h[First(s)] \in Nat /\ Sum(h, s \ {First(s)}) \in Nat
      BY <2>3, <1>1
    <2> QED BY <2>2, <2>4
  <1>2. SUBSET S \subseteq T
    <2> HIDE DEF T
    <2> QED BY <1>1, SubsetsAll
  <1> QED BY <1>2

\* Any element may be the one that is added last.
LEMMA SumWithout ==
    ASSUME NEW S, IsFiniteSet(S), NEW h, \A x \in S : h[x] \in Nat
    PROVE  \A x \in S : Sum(h, S) = h[x] + Sum(h, S \ {x})
  <1> DEFINE T == {s \in SUBSET S : \A x \in s : Sum(h, s) = h[x] + Sum(h, s \ {x})}
  <1>1. ASSUME NEW s \in SUBSET S, \A x \in s : s \ {x} \in T PROVE s \in T
    <2> SUFFICES ASSUME NEW x \in s PROVE Sum(h, s) = h[x] + Sum(h, s \ {x})
      OBVIOUS
    <2> DEFINE y == First(s)
    <2>1. y \in s
      BY DEF First
    <2> HIDE DEF y
    <2>2. IsFiniteSet(s)
      BY FS_Subset
    <2>3. Sum(h, s) = h[y] + Sum(h, s \ {y})
      BY <2>2, SumUnfolds DEF y
    <2>4. CASE x = y
      BY <2>3, <2>4
    <2>5. CASE x # y
      <3>1. s \ {y} \in T /\ s \ {x} \in T
        BY <1>1, <2>1
      <3>2. Sum(h, s \ {y}) = h[x] + Sum(h, (s \ {y}) \ {x})
        <4>1. x \in s \ {y}
          BY <2>5
        <4> QED BY <4>1, <3>1
      <3>3. Sum(h, s \ {x}) = h[y] + Sum(h, (s \ {x}) \ {y})
        <4>1. y \in s \ {x}
          BY <2>1, <2>5
        <4> QED BY <4>1, <3>1
      <3> DEFINE r == (s \ {x}) \ {y}
      <3>4. (s \ {y}) \ {x} = r
        OBVIOUS
      <3>5. Sum(h, r) \in Nat
        <4>1. IsFiniteSet(r) /\ \A z \in r : h[z] \in Nat
          BY <2>2, FS_Subset
        <4> HIDE DEF r
        <4> QED BY <4>1, SumType
      <3>6. h[x] \in Nat /\ h[y] \in Nat
        BY <2>1
      <3> HIDE DEF r
      <3>7. Sum(h, s \ {y}) = h[x] + Sum(h, r) /\ Sum(h, s \ {x}) = h[y] + Sum(h, r)
        BY <3>2, <3>3, <3>4 DEF r
      <3> QED BY <2>3, <3>5, <3>6, <3>7
    <2> QED BY <2>4, <2>5
  <1>2. SUBSET S \subseteq T
    <2> HIDE DEF T
    <2> QED BY <1>1, SubsetsAll
  <1>3. S \in T
    BY <1>2
  <1> QED BY <1>3

LEMMA SumSame ==
    ASSUME NEW S, NEW g, NEW h, \A x \in S : g[x] = h[x]
    PROVE  Sum(g, S) = Sum(h, S)
  <1>1. \A s \in SUBSET S : s # {} => First(s) \in S
    BY DEF First
  <1>2. \A v : Adding(g, S, v) = Adding(h, S, v)
    BY <1>1 DEF Adding
  <1>3. Adder(g, S) = Adder(h, S)
    BY <1>2 DEF Adder
  <1> QED BY <1>3 DEF Sum

\* One more at one of them is one more in all.
LEMMA SumCounts ==
    ASSUME NEW S, IsFiniteSet(S), NEW g, NEW h,
           \A x \in S : g[x] \in Nat /\ h[x] \in Nat,
           NEW w \in S, g[w] = h[w] + 1, \A x \in S \ {w} : g[x] = h[x]
    PROVE  Sum(g, S) = Sum(h, S) + 1
  <1>1. Sum(g, S) = g[w] + Sum(g, S \ {w}) /\ Sum(h, S) = h[w] + Sum(h, S \ {w})
    BY SumWithout
  <1>2. Sum(g, S \ {w}) = Sum(h, S \ {w})
    BY SumSame
  <1>3. IsFiniteSet(S \ {w})
    BY FS_Subset
  <1>4. Sum(h, S \ {w}) \in Nat
    BY <1>3, SumType
  <1>5. h[w] \in Nat
    OBVIOUS
  <1> QED BY <1>1, <1>2, <1>4, <1>5

LEMMA SumOfPart ==
    ASSUME NEW S, IsFiniteSet(S), NEW h, \A x \in S : h[x] \in Nat, NEW R \in SUBSET S
    PROVE  Sum(h, R) <= Sum(h, S)
  <1> DEFINE T == {s \in SUBSET S : \A r \in SUBSET s : Sum(h, r) <= Sum(h, s)}
  <1>0. \A s \in SUBSET S : IsFiniteSet(s) /\ Sum(h, s) \in Nat
    <2> TAKE s \in SUBSET S
    <2>1. IsFiniteSet(s)
      BY FS_Subset
    <2> QED BY <2>1, SumType
  <1>1. ASSUME NEW s \in SUBSET S, \A x \in s : s \ {x} \in T PROVE s \in T
    <2> SUFFICES ASSUME NEW r \in SUBSET s PROVE Sum(h, r) <= Sum(h, s)
      OBVIOUS
    <2>1. CASE r = s
      BY <1>0, <2>1
    <2>2. CASE r # s
      <3>1. PICK x \in s : x \notin r
        BY <2>2
      <3>2. Sum(h, r) <= Sum(h, s \ {x})
        <4>1. r \in SUBSET (s \ {x})
          BY <3>1
        <4> QED BY <4>1, <1>1
      <3>3. Sum(h, s) = h[x] + Sum(h, s \ {x})
        <4>1. IsFiniteSet(s) /\ \A y \in s : h[y] \in Nat
          BY <1>0
        <4> QED BY <4>1, SumWithout
      <3>4. r \in SUBSET S /\ s \ {x} \in SUBSET S
        OBVIOUS
      <3>5. Sum(h, r) \in Nat /\ Sum(h, s \ {x}) \in Nat /\ h[x] \in Nat
        BY <1>0, <3>4
      <3> QED BY <3>2, <3>3, <3>5
    <2> QED BY <2>1, <2>2
  <1>2. SUBSET S \subseteq T
    <2> HIDE DEF T
    <2> QED BY <1>1, SubsetsAll
  <1>3. S \in T
    BY <1>2
  <1> QED BY <1>3

\* A sum of parts of different numbers is not above the sum of the numbers.
LEMMA SumOfLess ==
    ASSUME NEW S, IsFiniteSet(S), NEW R, IsFiniteSet(R), NEW g, NEW h,
           \A x \in S : g[x] \in Nat, \A y \in R : h[y] \in Nat,
           NEW m \in [S -> R], \A x \in S : g[x] <= h[m[x]],
           \A x, y \in S : m[x] = m[y] => x = y
    PROVE  Sum(g, S) <= Sum(h, R)
  <1> DEFINE Image(s) == {m[x] : x \in s}
             T == {s \in SUBSET S : Sum(g, s) <= Sum(h, Image(s))}
  <1>1. \A s \in SUBSET S : IsFiniteSet(s) /\ Sum(g, s) \in Nat
    <2> TAKE s \in SUBSET S
    <2>1. IsFiniteSet(s)
      BY FS_Subset
    <2> QED BY <2>1, SumType
  <1>2. \A r \in SUBSET R : IsFiniteSet(r) /\ Sum(h, r) \in Nat
    <2> TAKE r \in SUBSET R
    <2>1. IsFiniteSet(r)
      BY FS_Subset
    <2> QED BY <2>1, SumType
  <1>3. \A s \in SUBSET S : Image(s) \in SUBSET R
    OBVIOUS
  <1>4. ASSUME NEW s \in SUBSET S, \A x \in s : s \ {x} \in T PROVE s \in T
    <2>1. CASE s = {}
      <3>1. Image(s) = {}
        BY <2>1
      <3>2. Sum(g, s) = 0 /\ Sum(h, Image(s)) = 0
        <4> HIDE DEF Image
        <4> QED BY <2>1, <3>1, FS_EmptySet, SumUnfolds
      <3> QED BY <3>2
    <2>2. CASE s # {}
      <3>1. PICK x \in s : TRUE
        BY <2>2
      <3>2. Sum(g, s) = g[x] + Sum(g, s \ {x})
        <4>1. IsFiniteSet(s) /\ \A y \in s : g[y] \in Nat
          BY <1>1
        <4> QED BY <4>1, SumWithout
      <3>3. Sum(h, Image(s)) = h[m[x]] + Sum(h, Image(s) \ {m[x]})
        <4>1. m[x] \in Image(s) /\ Image(s) \in SUBSET R
          OBVIOUS
        <4>2. IsFiniteSet(Image(s)) /\ \A y \in Image(s) : h[y] \in Nat
          BY <1>2, <4>1
        <4> HIDE DEF Image
        <4> QED BY <4>1, <4>2, SumWithout
      <3>4. Image(s) \ {m[x]} = Image(s \ {x})
        OBVIOUS
      <3>5. Sum(g, s \ {x}) <= Sum(h, Image(s \ {x}))
        BY <1>4
      <3>6. g[x] \in Nat /\ h[m[x]] \in Nat /\ g[x] <= h[m[x]]
        OBVIOUS
      <3>7. Sum(g, s \ {x}) \in Nat /\ Sum(h, Image(s \ {x})) \in Nat
        <4>1. s \ {x} \in SUBSET S /\ Image(s \ {x}) \in SUBSET R
          OBVIOUS
        <4> HIDE DEF Image
        <4> QED BY <4>1, <1>1, <1>2
      <3> DEFINE a == Sum(g, s \ {x})
                 b == Sum(h, Image(s \ {x}))
      <3>8. Sum(h, Image(s)) = h[m[x]] + b
        <4> HIDE DEF Image
        <4> QED BY <3>3, <3>4, Zenon
      <3>9. Sum(g, s) = g[x] + a
        BY <3>2
      <3>10. a \in Nat /\ b \in Nat /\ a <= b
        BY <3>5, <3>7
      <3> HIDE DEF Image, a, b
      <3>11. Sum(g, s) <= Sum(h, Image(s))
        BY <3>6, <3>8, <3>9, <3>10
      <3> QED BY <3>11
    <2> QED BY <2>1, <2>2
  <1>5. SUBSET S \subseteq T
    <2> HIDE DEF T
    <2> QED BY <1>4, SubsetsAll
  <1>6. Sum(g, S) <= Sum(h, Image(S)) /\ Image(S) \in SUBSET R
    BY <1>5
  <1>7. Sum(h, Image(S)) <= Sum(h, R)
    <2> HIDE DEF Image
    <2> QED BY <1>6, SumOfPart
  <1>8. Sum(g, S) \in Nat /\ Sum(h, Image(S)) \in Nat /\ Sum(h, R) \in Nat
    <2> HIDE DEF Image
    <2> QED BY <1>1, <1>2, <1>6
  <1> HIDE DEF Image
  <1> QED BY <1>6, <1>7, <1>8

\* The sums of the module.
LEMMA SumOfFunction ==
    ASSUME NEW h, NEW S
    PROVE  MapThenSumSet(LAMBDA w : h[w], S) = Sum(h, S)
  BY DEF MapThenSumSet, MapThenFoldSet, Sum, Adder, Adding, First

LEMMA SumsOfStats ==
    ASSUME NEW S
    PROVE  /\ ProcessorStats(S).received_counter = Sum([i \in S |-> i.received_counter], S)
           /\ ProcessorStats(S).processed_counter = Sum([i \in S |-> i.processed_counter], S)
  <1>1. \A s \in SUBSET S : s # {} => First(s) \in S
    BY DEF First
  <1> DEFINE g == [i \in S |-> i.received_counter]
             h == [i \in S |-> i.processed_counter]
             G(v) == [s \in SUBSET S |-> IF s = {} THEN 0
                         ELSE First(s).received_counter + v[s \ {First(s)}]]
             H(v) == [s \in SUBSET S |-> IF s = {} THEN 0
                         ELSE First(s).processed_counter + v[s \ {First(s)}]]
  <1>2. \A v : G(v) = Adding(g, S, v) /\ H(v) = Adding(h, S, v)
    <2>1. \A s \in SUBSET S : s # {} => /\ g[First(s)] = First(s).received_counter
                                        /\ h[First(s)] = First(s).processed_counter
      BY <1>1
    <2> HIDE DEF g, h
    <2> QED BY <2>1 DEF Adding
  <1>3. /\ MapThenSumSet(LAMBDA i : i.received_counter, S) = (CHOOSE v : v = G(v))[S]
        /\ MapThenSumSet(LAMBDA i : i.processed_counter, S) = (CHOOSE v : v = H(v))[S]
    BY DEF MapThenSumSet, MapThenFoldSet, First
  <1>4. /\ (CHOOSE v : v = G(v)) = Adder(g, S)
        /\ (CHOOSE v : v = H(v)) = Adder(h, S)
    <2> HIDE DEF g, h, G, H
    <2> QED BY <1>2 DEF Adder
  <1> QED BY <1>3, <1>4 DEF ProcessorStats, Sum

-----------------------------------------------------------------------------
Reports == [pid : Workers, received_counter : Nat, processed_counter : Nat]

Types ==
    /\ alloc_counter \in Nat /\ exe_counter \in Nat
    /\ place \in [Workers -> {"idle", "got", "holds", "ended"}]
    /\ received \in [Workers -> Nat] /\ processed \in [Workers -> Nat]
    /\ halfRead \in [Workers -> Nat \cup {NotRead}]
    /\ instances \subseteq Workers /\ stats \in [Workers -> SUBSET Reports]
    /\ halfReport \in Nat \cup {NotRead}
    /\ lastStats \subseteq Reports
    /\ queueStats \in [allocation_counter : Nat, exe_counter : Nat]

\* A report that its worker could have sent by now.
Sent(i) == /\ i.received_counter <= received[i.pid]
           /\ i.processed_counter <= processed[i.pid]

\* What a monitor thread has read, and what the node has of a worker.
KeptInv ==
    \A w \in Workers :
        /\ halfRead[w] <= received[w]
        /\ \A i \in stats[w] : i.pid = w /\ Sent(i)
        /\ \A i, j \in stats[w] : i = j

\* What the page has of the workers.
ShownInv ==
    /\ \A i \in lastStats : Sent(i)
    /\ \A i, j \in lastStats : i.pid = j.pid => i = j

\* What the node has read of the queue, and what the page has of it.
QueueInv ==
    /\ halfReport <= alloc_counter
    /\ queueStats.allocation_counter <= alloc_counter
    /\ queueStats.exe_counter <= exe_counter

\* A frame that was dequeued is counted by the worker that has it, or will be.
handed == [w \in Workers |-> IF place[w] = "got" THEN received[w] + 1 ELSE received[w]]
HandedInv == exe_counter = Sum(handed, Workers)

\* The last report held what the workers had sent before the queue was read.
ReportInv ==
    queueStats # DefaultQueuePerformanceStats =>
        Sum([i \in lastStats |-> i.received_counter], lastStats) <= queueStats.exe_counter

IInv == Types /\ KeptInv /\ ShownInv /\ QueueInv /\ HandedInv /\ ReportInv

\* The instances that are shown add up to no more than the workers.
LEMMA ReportsAddUp ==
    ASSUME NEW S \in SUBSET Reports, NEW r \in [Workers -> Nat], NEW p \in [Workers -> Nat],
           \A i \in S : /\ i.received_counter <= r[i.pid]
                        /\ i.processed_counter <= p[i.pid],
           \A i, j \in S : i.pid = j.pid => i = j
    PROVE  /\ Sum([i \in S |-> i.received_counter], S) <= Sum(r, Workers)
           /\ Sum([i \in S |-> i.processed_counter], S) <= Sum(p, Workers)
  <1> DEFINE m == [i \in S |-> i.pid]
             g == [i \in S |-> i.received_counter]
             h == [i \in S |-> i.processed_counter]
  <1>1. m \in [S -> Workers] /\ \A i, j \in S : m[i] = m[j] => i = j
    BY DEF Reports
  <1>2. /\ \A i \in S : g[i] \in Nat /\ g[i] <= r[m[i]]
        /\ \A i \in S : h[i] \in Nat /\ h[i] <= p[m[i]]
    BY DEF Reports
  <1>3. /\ \A w \in Workers : r[w] \in Nat
        /\ \A w \in Workers : p[w] \in Nat
    OBVIOUS
  <1> HIDE DEF m, g, h
  <1>4. IsFiniteSet(Workers)
    BY ConstantsAssumption
  <1>5. IsFiniteSet(S)
    <2>1. m \in Injection(S, Workers)
      BY <1>1 DEF Injection, IsInjective
    <2> QED BY <2>1, <1>4, FS_Injection
  <1>6. Sum(g, S) <= Sum(r, Workers)
    BY <1>1, <1>2, <1>3, <1>4, <1>5, SumOfLess
  <1>7. Sum(h, S) <= Sum(p, Workers)
    BY <1>1, <1>2, <1>3, <1>4, <1>5, SumOfLess
  <1> QED BY <1>6, <1>7 DEF g, h

LEMMA SumOfNone == \A h : Sum(h, {}) = 0
  BY FS_EmptySet, SumUnfolds

LEMMA HandedType ==
    ASSUME Types
    PROVE  \A w \in Workers : handed[w] \in Nat /\ received[w] \in Nat /\ received[w] <= handed[w]
  BY DEF Types, handed

\* What the workers have counted does not exceed what the queue has handed out.
LEMMA ReceivedHanded ==
    ASSUME Types
    PROVE  Sum(received, Workers) <= Sum(handed, Workers)
  <1> DEFINE m == [w \in Workers |-> w]
  <1>1. m \in [Workers -> Workers] /\ \A x, y \in Workers : m[x] = m[y] => x = y
    OBVIOUS
  <1>2. \A w \in Workers : handed[w] \in Nat /\ received[w] \in Nat /\ received[w] <= handed[m[w]]
    BY HandedType
  <1>3. IsFiniteSet(Workers)
    BY ConstantsAssumption
  <1> HIDE DEF m
  <1> QED BY <1>1, <1>2, <1>3, SumOfLess

LEMMA Initially == Init => IInv
  <1> SUFFICES ASSUME Init PROVE IInv
    OBVIOUS
  <1>1. Types
    BY DEF Init, Types, None, DefaultQueuePerformanceStats, QueuePerformanceStats
  <1>2. KeptInv /\ ShownInv /\ QueueInv
    BY DEF Init, KeptInv, ShownInv, QueueInv, NotRead, None, DefaultQueuePerformanceStats,
           QueuePerformanceStats
  <1>3. ReportInv
    BY DEF Init, ReportInv
  <1>4. HandedInv
    <2> DEFINE T == {s \in SUBSET Workers : Sum(handed, s) = 0}
    <2>0. \A w \in Workers : handed[w] = 0
      BY DEF Init, handed
    <2>1. ASSUME NEW s \in SUBSET Workers, \A x \in s : s \ {x} \in T PROVE s \in T
      <3>1. IsFiniteSet(s)
        BY FS_Subset, ConstantsAssumption
      <3>2. Sum(handed, s) = IF s = {} THEN 0 ELSE handed[First(s)] + Sum(handed, s \ {First(s)})
        BY <3>1, SumUnfolds
      <3>3. s # {} => First(s) \in s
        BY DEF First
      <3> QED BY <2>0, <2>1, <3>2, <3>3
    <2>2. SUBSET Workers \subseteq T
      <3> HIDE DEF T
      <3> QED BY <2>1, SubsetsAll, ConstantsAssumption
    <2>3. Sum(handed, Workers) = 0
      BY <2>2
    <2> QED BY <2>3 DEF Init, HandedInv
  <1> QED BY <1>1, <1>2, <1>3, <1>4 DEF IInv

LEMMA TypesKept ==
    ASSUME Types, [Next]_vars
    PROVE  Types'
  <1>1. CASE put
    BY <1>1 DEF put, Types, workerVars, nodeVars, pageVars
  <1>2. ASSUME NEW w \in Workers, WorkerStep(w) PROVE Types'
    <2>1. CASE Dequeue(w)
      BY <2>1 DEF Dequeue, Goes, Types, nodeVars, pageVars
    <2>2. CASE CountReceived(w)
      BY <2>2 DEF CountReceived, Goes, Types, queueVars, nodeVars, pageVars
    <2>3. CASE emit(w)
      BY <2>3 DEF emit, Goes, Types, queueVars, nodeVars, pageVars
    <2> QED BY <1>2, <2>1, <2>2, <2>3 DEF WorkerStep
  <1>3. ASSUME NEW w \in Workers, End(w) PROVE Types'
    BY <1>3 DEF End, Goes, Types, queueVars, nodeVars, pageVars
  <1>4. ASSUME NEW w \in Workers, ReadReceived(w) PROVE Types'
    BY <1>4 DEF ReadReceived, Types, queueVars, nodeVars, pageVars
  <1>5. ASSUME NEW w \in Workers, update_stats(w) PROVE Types'
    <2> DEFINE i == ProcessPerformanceStats(w, halfRead[w], processed[w])
    <2>1. i \in Reports
      BY <1>5 DEF update_stats, Types, ProcessPerformanceStats, Reports
    <2>2. stats' = [stats EXCEPT ![w] = {i}]
      BY <1>5 DEF update_stats, Kept
    <2> HIDE DEF i
    <2> QED BY <1>5, <2>1, <2>2 DEF update_stats, Types, queueVars, pageVars
  <1>6. ASSUME NEW w \in Workers, remove_instance(w) PROVE Types'
    BY <1>6 DEF remove_instance, Types, queueVars, workerVars, pageVars
  <1>7. CASE queue_stats
    BY <1>7 DEF queue_stats, Types, queueVars, workerVars, pageVars
  <1>8. CASE log_node_utilization
    <2>1. /\ lastStats' = UNION {stats[w] : w \in instances}
          /\ queueStats' = [allocation_counter |-> halfReport, exe_counter |-> exe_counter]
          /\ halfReport' = NotRead /\ UNCHANGED <<queueVars, workerVars, instances, stats>>
          /\ halfReport # NotRead
      BY <1>8 DEF log_node_utilization, onUsageStats, queueUpdateStats, processorUpdateStats,
                  APINodeUsageMessage, NodePerformanceStats, QueuesUsage,
                  QueuePerformanceStats, InstancesStats
    <2>2. lastStats' \subseteq Reports
      BY <2>1 DEF Types
    <2> QED BY <2>1, <2>2 DEF Types, queueVars, workerVars
  <1>9. CASE fetch
    BY <1>9 DEF fetch, Types, queueVars, workerVars, nodeVars, None,
                DefaultQueuePerformanceStats, QueuePerformanceStats
  <1>10. CASE UNCHANGED vars
    BY <1>10 DEF vars, queueVars, workerVars, nodeVars, pageVars, Types
  <1> QED BY <1>1, <1>2, <1>3, <1>4, <1>5, <1>6, <1>7, <1>8, <1>9, <1>10
        DEF Next, ThreadStep, ReportStep

\* Counters of workers never fall, so what was sent stays sent.
LEMMA CountersGrow ==
    ASSUME Types, [Next]_vars
    PROVE  /\ \A w \in Workers : received[w] <= received'[w] /\ processed[w] <= processed'[w]
           /\ alloc_counter <= alloc_counter' /\ exe_counter <= exe_counter'
  <1>1. CASE put
    BY <1>1 DEF put, workerVars, Types
  <1>2. ASSUME NEW w \in Workers, WorkerStep(w)
        PROVE  /\ \A v \in Workers : received[v] <= received'[v] /\ processed[v] <= processed'[v]
               /\ alloc_counter <= alloc_counter' /\ exe_counter <= exe_counter'
    <2>1. CASE Dequeue(w)
      BY <2>1 DEF Dequeue, Types
    <2>2. CASE CountReceived(w)
      BY <2>2 DEF CountReceived, queueVars, Types
    <2>3. CASE emit(w)
      BY <2>3 DEF emit, queueVars, Types
    <2> QED BY <1>2, <2>1, <2>2, <2>3 DEF WorkerStep
  <1>3. CASE UNCHANGED <<queueVars, received, processed>>
    BY <1>3 DEF queueVars, Types
  <1>4. ASSUME NEW w \in Workers, End(w) \/ ThreadStep(w) \/ remove_instance(w)
        PROVE  UNCHANGED <<queueVars, received, processed>>
    BY <1>4 DEF End, ThreadStep, ReadReceived, update_stats, remove_instance, workerVars
  <1>5. CASE ReportStep \/ fetch \/ UNCHANGED vars
    BY <1>5, <1>3 DEF ReportStep, queue_stats, log_node_utilization, fetch, vars, workerVars
  <1> QED BY <1>1, <1>2, <1>3, <1>4, <1>5 DEF Next

LEMMA SentStays ==
    ASSUME Types, [Next]_vars
    PROVE  \A i \in Reports : Sent(i) => Sent(i)'
  <1>1. \A w \in Workers : received[w] <= received'[w] /\ processed[w] <= processed'[w]
    BY CountersGrow
  <1>2. \A w \in Workers : /\ received[w] \in Nat /\ received'[w] \in Nat
                           /\ processed[w] \in Nat /\ processed'[w] \in Nat
    BY TypesKept DEF Types
  <1>3. \A i \in Reports : /\ i.pid \in Workers
                           /\ i.received_counter \in Nat /\ i.processed_counter \in Nat
    BY DEF Reports
  <1> QED BY <1>1, <1>2, <1>3 DEF Sent

LEMMA KeptKept ==
    ASSUME Types, KeptInv, [Next]_vars
    PROVE  KeptInv'
  <1>0. /\ \A i \in Reports : Sent(i) => Sent(i)'
        /\ \A w \in Workers : /\ received[w] <= received'[w]
                              /\ received[w] \in Nat /\ received'[w] \in Nat
                              /\ processed[w] \in Nat
                              /\ halfRead[w] \in Nat \cup {NotRead}
                              /\ stats[w] \subseteq Reports
    BY SentStays, CountersGrow, TypesKept DEF Types
  <1>1. ASSUME UNCHANGED stats,
               \A w \in Workers : halfRead'[w] <= received'[w]
        PROVE  KeptInv'
    BY <1>0, <1>1 DEF KeptInv
  <1>2. CASE UNCHANGED <<stats, halfRead>>
    BY <1>0, <1>1, <1>2 DEF KeptInv, NotRead
  <1>3. ASSUME NEW w \in Workers, End(w) \/ ReadReceived(w) PROVE KeptInv'
    <2>1. UNCHANGED stats /\ received' = received
      BY <1>3 DEF End, ReadReceived, nodeVars
    <2>2. /\ halfRead' = [halfRead EXCEPT ![w] = NotRead]
          \/ halfRead' = [halfRead EXCEPT ![w] = received[w]]
      BY <1>3 DEF End, ReadReceived
    <2>3. \A v \in Workers : halfRead'[v] <= received'[v]
      <3> TAKE v \in Workers
      <3>1. halfRead \in [Workers -> Nat \cup {NotRead}]
        BY DEF Types
      <3>2. halfRead'[v] = halfRead[v] \/ halfRead'[v] = NotRead \/ halfRead'[v] = received[v]
        BY <2>2, <3>1
      <3> QED BY <2>1, <3>2, <1>0 DEF KeptInv, NotRead
    <2> QED BY <1>1, <2>1, <2>3
  <1>4. ASSUME NEW w \in Workers, update_stats(w) PROVE KeptInv'
    <2>0. PICK i : i = ProcessPerformanceStats(w, halfRead[w], processed[w])
      OBVIOUS
    <2>1. /\ i.pid = w /\ i.received_counter = halfRead[w] /\ i.processed_counter = processed[w]
      BY <2>0 DEF ProcessPerformanceStats
    <2>2. /\ stats' = [stats EXCEPT ![w] = {i}] /\ halfRead' = [halfRead EXCEPT ![w] = NotRead]
          /\ received' = received /\ processed' = processed
      BY <1>4, <2>0 DEF update_stats, Kept
    <2>3. Sent(i)'
      BY <2>1, <2>2, <1>0 DEF Sent, KeptInv
    <2>4. stats \in [Workers -> SUBSET Reports] /\ halfRead \in [Workers -> Nat \cup {NotRead}]
      BY DEF Types
    <2>5. ASSUME NEW v \in Workers
          PROVE  /\ halfRead'[v] <= received'[v]
                 /\ \A j \in stats'[v] : j.pid = v /\ Sent(j)'
                 /\ \A j, k \in stats'[v] : j = k
      <3>1. CASE v = w
        <4>1. stats'[v] = {i} /\ halfRead'[v] = NotRead
          BY <2>2, <2>4, <3>1
        <4>2. halfRead'[v] <= received'[v]
          BY <4>1, <1>0 DEF NotRead
        <4>3. \A j \in {i} : j.pid = v /\ Sent(j)'
          BY <2>1, <2>3, <3>1
        <4>4. \A j, k \in {i} : j = k
          OBVIOUS
        <4> QED BY <4>1, <4>2, <4>3, <4>4
      <3>2. CASE v # w
        <4>1. stats'[v] = stats[v] /\ halfRead'[v] = halfRead[v]
          BY <2>2, <2>4, <3>2
        <4>2. halfRead'[v] <= received'[v]
          BY <4>1, <2>2 DEF KeptInv
        <4>3. \A j \in stats[v] : j.pid = v /\ Sent(j)'
          BY <1>0 DEF KeptInv
        <4>4. \A j, k \in stats[v] : j = k
          BY DEF KeptInv
        <4> QED BY <4>1, <4>2, <4>3, <4>4
      <3> QED BY <3>1, <3>2
    <2> QED BY <2>5 DEF KeptInv
  <1>5. CASE put \/ queue_stats \/ log_node_utilization \/ fetch \/ UNCHANGED vars
    BY <1>2, <1>5 DEF put, queue_stats, log_node_utilization, fetch, vars, workerVars, nodeVars
  <1>6. ASSUME NEW w \in Workers, WorkerStep(w) \/ remove_instance(w) PROVE KeptInv'
    BY <1>2, <1>6 DEF WorkerStep, Dequeue, CountReceived, emit, remove_instance,
                      workerVars, nodeVars
  <1> QED BY <1>3, <1>4, <1>5, <1>6 DEF Next, ThreadStep, ReportStep

\* What log_node_utilization shows.
LEMMA Reported ==
    ASSUME Types, KeptInv, log_node_utilization
    PROVE  /\ lastStats' = UNION {stats[w] : w \in instances}
           /\ queueStats' = [allocation_counter |-> halfReport, exe_counter |-> exe_counter]
           /\ halfReport' = NotRead /\ UNCHANGED <<queueVars, workerVars>>
           /\ \A i \in lastStats' : i \in Reports /\ Sent(i)
           /\ \A i, j \in lastStats' : i.pid = j.pid => i = j
  <1>1. /\ lastStats' = UNION {stats[w] : w \in instances}
        /\ queueStats' = [allocation_counter |-> halfReport, exe_counter |-> exe_counter]
        /\ halfReport' = NotRead /\ UNCHANGED <<queueVars, workerVars>>
    BY DEF log_node_utilization, onUsageStats, queueUpdateStats, processorUpdateStats,
           APINodeUsageMessage, NodePerformanceStats, QueuesUsage, QueuePerformanceStats,
           InstancesStats
  <1>2. \A i \in lastStats' : \E w \in Workers : i \in stats[w] /\ i.pid = w
    BY <1>1 DEF Types, KeptInv
  <1>3. \A i \in lastStats' : i \in Reports /\ Sent(i)
    BY <1>2 DEF Types, KeptInv
  <1>4. \A i, j \in lastStats' : i.pid = j.pid => i = j
    BY <1>2 DEF KeptInv
  <1> QED BY <1>1, <1>3, <1>4

LEMMA ShownKept ==
    ASSUME Types, KeptInv, ShownInv, [Next]_vars
    PROVE  ShownInv'
  <1>0. \A i \in Reports : Sent(i) => Sent(i)'
    BY SentStays
  <1>1. CASE UNCHANGED lastStats
    BY <1>0, <1>1 DEF ShownInv, Types
  <1>2. CASE log_node_utilization
    <2>1. \A i \in lastStats' : Sent(i)'
      BY <1>0, <1>2, Reported
    <2> QED BY <2>1, <1>2, Reported DEF ShownInv
  <1>3. CASE fetch
    <2>1. CASE lastStats' = None
      BY <2>1 DEF None, ShownInv
    <2> QED BY <1>3, <1>1, <2>1 DEF fetch
  <1>4. CASE put \/ queue_stats \/ UNCHANGED vars
    BY <1>1, <1>4 DEF put, queue_stats, vars, pageVars
  <1>5. ASSUME NEW w \in Workers, WorkerStep(w) \/ End(w) \/ ThreadStep(w) \/ remove_instance(w)
        PROVE  UNCHANGED lastStats
    BY <1>5 DEF WorkerStep, Dequeue, CountReceived, emit, End, ThreadStep, ReadReceived,
                update_stats, remove_instance, pageVars
  <1> QED BY <1>1, <1>2, <1>3, <1>4, <1>5 DEF Next, ReportStep

LEMMA QueueKept ==
    ASSUME Types, KeptInv, QueueInv, [Next]_vars
    PROVE  QueueInv'
  <1>0. /\ alloc_counter <= alloc_counter' /\ exe_counter <= exe_counter'
        /\ alloc_counter \in Nat /\ exe_counter \in Nat
        /\ alloc_counter' \in Nat /\ exe_counter' \in Nat
        /\ halfReport \in Nat \cup {NotRead}
        /\ queueStats.allocation_counter \in Nat /\ queueStats.exe_counter \in Nat
    BY CountersGrow, TypesKept DEF Types
  <1>1. CASE UNCHANGED <<halfReport, queueStats>>
    BY <1>0, <1>1 DEF QueueInv, NotRead
  <1>2. CASE log_node_utilization
    <2>1. /\ queueStats' = [allocation_counter |-> halfReport, exe_counter |-> exe_counter]
          /\ halfReport' = NotRead /\ UNCHANGED queueVars
      BY <1>2, Reported
    <2>2. queueStats'.allocation_counter = halfReport /\ queueStats'.exe_counter = exe_counter
      BY <2>1
    <2> QED BY <1>0, <2>1, <2>2 DEF QueueInv, NotRead, queueVars
  <1>3. CASE queue_stats
    BY <1>0, <1>3 DEF queue_stats, QueueInv, queueVars, pageVars
  <1>4. CASE fetch
    <2>1. UNCHANGED halfReport
      BY <1>4 DEF fetch, nodeVars
    <2>2. CASE queueStats' = DefaultQueuePerformanceStats
      <3>1. queueStats'.allocation_counter = 0 /\ queueStats'.exe_counter = 0
        BY <2>2 DEF DefaultQueuePerformanceStats, QueuePerformanceStats
      <3> QED BY <1>0, <2>1, <3>1 DEF QueueInv, NotRead
    <2> QED BY <1>1, <1>4, <2>1, <2>2 DEF fetch
  <1>5. CASE put \/ UNCHANGED vars
    BY <1>1, <1>5 DEF put, vars, nodeVars, pageVars
  <1>6. ASSUME NEW w \in Workers, WorkerStep(w) \/ End(w) \/ ThreadStep(w) \/ remove_instance(w)
        PROVE  UNCHANGED <<halfReport, queueStats>>
    BY <1>6 DEF WorkerStep, Dequeue, CountReceived, emit, End, ThreadStep, ReadReceived,
                update_stats, remove_instance, nodeVars, pageVars
  <1> QED BY <1>1, <1>2, <1>3, <1>4, <1>5, <1>6 DEF Next, ReportStep

LEMMA HandedKept ==
    ASSUME Types, HandedInv, [Next]_vars
    PROVE  HandedInv'
  <1>0. /\ IsFiniteSet(Workers)
        /\ \A w \in Workers : handed[w] \in Nat /\ handed'[w] \in Nat
    BY ConstantsAssumption, TypesKept, HandedType DEF Types, handed
  <1>1. ASSUME exe_counter' = exe_counter,
               \A w \in Workers : handed'[w] = handed[w]
        PROVE  HandedInv'
    <2>1. Sum(handed', Workers) = Sum(handed, Workers)
      <3> DEFINE g == handed'
      <3>1. \A w \in Workers : g[w] = handed[w]
        BY <1>1
      <3> HIDE DEF g
      <3>2. Sum(g, Workers) = Sum(handed, Workers)
        BY <3>1, SumSame
      <3> QED BY <3>2 DEF g
    <2>2. exe_counter' = Sum(handed', Workers)
      BY <2>1, <1>1 DEF HandedInv
    <2> QED BY <2>2 DEF HandedInv
  <1>2. ASSUME NEW w \in Workers, Dequeue(w) PROVE HandedInv'
    <2> DEFINE g == handed'
    <2>1. place[w] = "idle" /\ place' = [place EXCEPT ![w] = "got"] /\ received' = received
          /\ exe_counter' = exe_counter + 1
      BY <1>2 DEF Dequeue, Goes
    <2>2. /\ g[w] = handed[w] + 1
          /\ \A v \in Workers \ {w} : g[v] = handed[v]
      BY <2>1 DEF Types, handed
    <2>3. \A v \in Workers : g[v] \in Nat /\ handed[v] \in Nat
      BY <1>0
    <2> HIDE DEF g
    <2>4. Sum(g, Workers) = Sum(handed, Workers) + 1
      BY <1>0, <2>2, <2>3, SumCounts
    <2>5. exe_counter' = Sum(handed', Workers)
      BY <2>1, <2>4 DEF HandedInv, g
    <2> QED BY <2>5 DEF HandedInv
  <1>3. ASSUME NEW w \in Workers, CountReceived(w) PROVE HandedInv'
    <2>1. \A v \in Workers : handed'[v] = handed[v]
      BY <1>3 DEF CountReceived, Goes, Types, handed
    <2>2. exe_counter' = exe_counter
      BY <1>3 DEF CountReceived, queueVars
    <2> QED BY <1>1, <2>1, <2>2
  <1>4. ASSUME NEW w \in Workers, emit(w) \/ End(w) PROVE HandedInv'
    <2>1. /\ place[w] # "got" /\ received' = received
          /\ place' = place \/ place' = [place EXCEPT ![w] = "idle"]
                            \/ place' = [place EXCEPT ![w] = "ended"]
      BY <1>4 DEF emit, End, Goes
    <2>2. \A v \in Workers : handed'[v] = handed[v]
      BY <2>1 DEF Types, handed
    <2>3. exe_counter' = exe_counter
      BY <1>4 DEF emit, End, queueVars
    <2> QED BY <1>1, <2>2, <2>3
  <1>5. CASE UNCHANGED <<exe_counter, place, received>>
    <2>1. \A v \in Workers : handed'[v] = handed[v]
      BY <1>5 DEF handed
    <2> QED BY <1>1, <1>5, <2>1
  <1>6. ASSUME NEW w \in Workers, ThreadStep(w) \/ remove_instance(w)
        PROVE  UNCHANGED <<exe_counter, place, received>>
    BY <1>6 DEF ThreadStep, ReadReceived, update_stats, remove_instance, queueVars, workerVars
  <1>7. CASE put \/ ReportStep \/ fetch \/ UNCHANGED vars
    BY <1>5, <1>7 DEF put, ReportStep, queue_stats, log_node_utilization, fetch, vars,
                      queueVars, workerVars
  <1> QED BY <1>2, <1>3, <1>4, <1>5, <1>6, <1>7 DEF Next, WorkerStep

LEMMA ReportKept ==
    ASSUME Types, KeptInv, HandedInv, ReportInv, [Next]_vars
    PROVE  ReportInv'
  <1>1. CASE UNCHANGED <<lastStats, queueStats>>
    BY <1>1 DEF ReportInv
  <1>2. CASE log_node_utilization
    <2> DEFINE S == lastStats'
    <2>1. /\ queueStats'.exe_counter = exe_counter
          /\ \A i \in S : i \in Reports /\ Sent(i)
          /\ \A i, j \in S : i.pid = j.pid => i = j
      BY <1>2, Reported
    <2>2. S \in SUBSET Reports
      BY <2>1
    <2>3. received \in [Workers -> Nat] /\ processed \in [Workers -> Nat]
      BY DEF Types
    <2>4. \A i \in S : /\ i.received_counter <= received[i.pid]
                       /\ i.processed_counter <= processed[i.pid]
      BY <2>1 DEF Sent
    <2> HIDE DEF S
    <2>5. Sum([i \in S |-> i.received_counter], S) <= Sum(received, Workers)
      BY <2>1, <2>2, <2>3, <2>4, ReportsAddUp
    <2>6. Sum(received, Workers) <= Sum(handed, Workers)
      BY ReceivedHanded
    <2>7. /\ Sum([i \in S |-> i.received_counter], S) \in Nat
          /\ Sum(received, Workers) \in Nat /\ Sum(handed, Workers) \in Nat
      <3>1. IsFiniteSet(S)
        <4> DEFINE m == [i \in S |-> i.pid]
        <4>1. m \in Injection(S, Workers)
          <5>1. m \in [S -> Workers]
            BY <2>2 DEF Reports
          <5>2. \A i, j \in S : m[i] = m[j] => i = j
            BY <2>1
          <5> HIDE DEF m
          <5> QED BY <5>1, <5>2 DEF Injection, IsInjective
        <4> HIDE DEF m
        <4> QED BY <4>1, ConstantsAssumption, FS_Injection
      <3>2. Sum([i \in S |-> i.received_counter], S) \in Nat
        <4> DEFINE g == [i \in S |-> i.received_counter]
        <4>1. \A i \in S : g[i] \in Nat
          BY <2>2 DEF Reports
        <4> HIDE DEF g
        <4>2. Sum(g, S) \in Nat
          BY <3>1, <4>1, SumType
        <4> QED BY <4>2 DEF g
      <3>3. Sum(received, Workers) \in Nat /\ Sum(handed, Workers) \in Nat
        BY ConstantsAssumption, HandedType, SumType
      <3> QED BY <3>2, <3>3
    <2>8. Sum([i \in S |-> i.received_counter], S) <= exe_counter
      BY <2>5, <2>6, <2>7 DEF HandedInv
    <2> QED BY <2>1, <2>8 DEF ReportInv, S
  <1>3. CASE fetch
    <2>1. CASE lastStats' = None /\ UNCHANGED queueStats
      <3>1. Sum([i \in lastStats' |-> i.received_counter], lastStats') = 0
        BY <2>1, SumOfNone DEF None
      <3>2. queueStats'.exe_counter \in Nat
        BY TypesKept DEF Types
      <3> QED BY <3>1, <3>2 DEF ReportInv
    <2>2. CASE queueStats' = DefaultQueuePerformanceStats
      BY <2>2 DEF ReportInv, DefaultQueuePerformanceStats
    <2> QED BY <1>3, <2>1, <2>2 DEF fetch
  <1>4. CASE put \/ queue_stats \/ UNCHANGED vars
    BY <1>1, <1>4 DEF put, queue_stats, vars, pageVars
  <1>5. ASSUME NEW w \in Workers, WorkerStep(w) \/ End(w) \/ ThreadStep(w) \/ remove_instance(w)
        PROVE  UNCHANGED <<lastStats, queueStats>>
    BY <1>5 DEF WorkerStep, Dequeue, CountReceived, emit, End, ThreadStep, ReadReceived,
                update_stats, remove_instance, pageVars
  <1> QED BY <1>1, <1>2, <1>3, <1>4, <1>5 DEF Next, ReportStep

LEMMA Invariance == Spec => []IInv
  <1>1. IInv /\ [Next]_vars => IInv'
    BY TypesKept, KeptKept, ShownKept, QueueKept, HandedKept, ReportKept DEF IInv
  <1> QED BY <1>1, Initially, PTL DEF Spec

\* No table of the page (ProcessorsList.vue, QueuesList.vue) is ahead of the
\* counters, whatever the threads, the node and the fetches do between the
\* readings of which a report is made.
THEOREM TablesNeverAhead == Spec => []NeverOverstated
  <1>1. IInv => NeverOverstated
    <2> SUFFICES ASSUME IInv PROVE NeverOverstated
      OBVIOUS
    <2>1. columns.enqueues <= alloc_counter /\ columns.dequeues <= exe_counter
      BY DEF columns, IInv, QueueInv
    <2>2. /\ lastStats \in SUBSET Reports
          /\ received \in [Workers -> Nat] /\ processed \in [Workers -> Nat]
          /\ \A i \in lastStats : /\ i.received_counter <= received[i.pid]
                                  /\ i.processed_counter <= processed[i.pid]
          /\ \A i, j \in lastStats : i.pid = j.pid => i = j
      BY DEF IInv, Types, ShownInv, Sent
    <2>3. /\ Sum([i \in lastStats |-> i.received_counter], lastStats) <= Sum(received, Workers)
          /\ Sum([i \in lastStats |-> i.processed_counter], lastStats) <= Sum(processed, Workers)
      BY <2>2, ReportsAddUp
    <2>4. /\ processorsColumns.received <= Sum(received, Workers)
          /\ processorsColumns.processed <= Sum(processed, Workers)
      BY <2>3, SumsOfStats DEF processorsColumns
    <2>5. \A row \in instancesColumns :
             row.processed <= received[row.pid] /\ row.received <= processed[row.pid]
      <3> TAKE row \in instancesColumns
      <3>1. PICK i \in lastStats :
               row = [pid |-> i.pid, received |-> i.processed_counter,
                      processed |-> i.received_counter]
        BY DEF instancesColumns, Instances
      <3> QED BY <3>1, <2>2
    <2>6. /\ MapThenSumSet(LAMBDA w : received[w], Workers) = Sum(received, Workers)
          /\ MapThenSumSet(LAMBDA w : processed[w], Workers) = Sum(processed, Workers)
      BY SumOfFunction
    <2> QED BY <2>1, <2>4, <2>5, <2>6 DEF NeverOverstated
  <1> QED BY <1>1, Invariance, PTL

\* The tables never show more frames received than dequeued: the node reads the
\* queue last, and a worker counts a frame only after the queue has.
THEOREM TablesInOrder == Spec => []ReceivedWereDequeued
  <1>1. IInv => ReceivedWereDequeued
    BY SumsOfStats DEF IInv, ReportInv, ReceivedWereDequeued, processorsColumns, columns
  <1> QED BY <1>1, Invariance, PTL
=============================================================================
