---------------------------- MODULE ConsoleProofs ----------------------------
(***************************************************************************)
(* What the operator sees, for every number of calls, suites, submissions, *)
(* runs and seeds.                                                         *)
(***************************************************************************)
EXTENDS Console, EntProofs, SequenceTheorems, WellFoundedInduction

-----------------------------------------------------------------------------
(* Induction over data.  The library's induction theorems take the         *)
(* property as an operator; here it is a set, of numbers or of sets.       *)

\* A set of numbers with 0 and the successor of each member has them all.
LEMMA NumbersInduct ==
    ASSUME NEW T \in SUBSET Nat, 0 \in T, \A n \in T : n + 1 \in T
    PROVE  T = Nat
<1> DEFINE R == OpToRel(<, Nat)
<1>1. \A x, y \in Nat : <<x, y>> \in R <=> x < y
  BY DEF OpToRel
<1>2. IsWellFoundedOn(R, Nat)
  BY NatLessThanWellFounded
<1> HIDE DEF R
<1>3. SUFFICES ASSUME Nat \ T # {} PROVE FALSE
  OBVIOUS
<1>4. PICK n \in Nat \ T : \A m \in Nat \ T : <<m, n>> \notin R
  BY <1>2, <1>3, WFMin
<1>5. n # 0 /\ n - 1 \in Nat /\ n - 1 < n
  BY <1>4
<1>6. <<n - 1, n>> \in R
  BY <1>1, <1>5
<1>7. n - 1 \in T
  BY <1>4, <1>5, <1>6
<1>8. n = (n - 1) + 1
  BY <1>4
<1> QED
  BY <1>4, <1>7, <1>8

\* A family with the empty set and, with a set, that set and one element more
\* has every finite set of these elements.
LEMMA SetsInduct ==
    ASSUME NEW S, IsFiniteSet(S), NEW F, {} \in F,
           \A T \in SUBSET S : \A x \in S \ T : T \in F => T \cup {x} \in F
    PROVE  S \in F
<1> DEFINE N == {n \in Nat : \A T \in SUBSET S : Cardinality(T) = n => T \in F}
<1>1. 0 \in N
  BY FS_Subset, FS_EmptySet
<1>2. ASSUME NEW n \in N PROVE n + 1 \in N
  <2> SUFFICES ASSUME NEW T \in SUBSET S, Cardinality(T) = n + 1 PROVE T \in F
    OBVIOUS
  <2>1. IsFiniteSet(T) /\ n \in Nat /\ T # {}
    BY FS_Subset, FS_EmptySet
  <2>2. PICK x : x \in T
    BY <2>1
  <2>3. Cardinality(T \ {x}) = n
    <3>1. Cardinality(T \ {x}) = Cardinality(T) - 1
      BY <2>1, <2>2, FS_RemoveElement
    <3> QED
      BY <2>1, <3>1
  <2>4. T \ {x} \in F
    BY <2>3
  <2>5. T = (T \ {x}) \cup {x} /\ x \in S \ (T \ {x})
    BY <2>2
  <2> QED
    BY <2>4, <2>5
<1>3. N = Nat
  <2> HIDE DEF N
  <2> QED
    BY <1>1, <1>2, NumbersInduct, N \subseteq Nat DEF N
<1>4. Cardinality(S) \in N
  BY <1>3, FS_CardinalityType
<1> QED
  BY <1>4

\* A finite set of integers that is not empty has a greatest element.
LEMMA GreatestElement ==
    ASSUME NEW S \in SUBSET Int, IsFiniteSet(S), S # {}
    PROVE  \E m \in S : \A x \in S : x <= m
<1> DEFINE F == {T \in SUBSET S : T # {} => \E m \in T : \A x \in T : x <= m}
<1>1. {} \in F
  OBVIOUS
<1>2. ASSUME NEW T \in SUBSET S, NEW x \in S \ T, T \in F
      PROVE  T \cup {x} \in F
  <2>1. CASE T = {}
    BY <2>1
  <2>2. CASE T # {}
    <3>1. PICK m \in T : \A y \in T : y <= m
      BY <1>2, <2>2
    <3>2. CASE x <= m
      <4> SUFFICES \E n \in T \cup {x} : \A y \in T \cup {x} : y <= n
        OBVIOUS
      <4> QED
        BY <3>1, <3>2
    <3>3. CASE ~(x <= m)
      <4> SUFFICES \A y \in T \cup {x} : y <= x
        OBVIOUS
      <4>1. \A y \in T : y \in Int /\ m \in Int /\ x \in Int
        BY <3>1
      <4> QED
        BY <3>1, <3>3, <4>1
    <3> QED
      BY <3>2, <3>3
  <2> QED
    BY <2>1, <2>2
<1>3. S \in F
  <2> HIDE DEF F
  <2> QED
    BY <1>1, <1>2, SetsInduct
<1> QED
  BY <1>3

-----------------------------------------------------------------------------
(* Rows in the order of their ids.                                         *)

Increasing(f) == \A i, j \in DOMAIN f : i < j => f[i] < f[j]

\* Every finite set of numbers can be listed in order.
LEMMA ListExists ==
    ASSUME NEW S \in SUBSET Int, IsFiniteSet(S)
    PROVE  \E f \in [1..Cardinality(S) -> S] : Increasing(f)
<1> DEFINE N == {n \in Nat : \A T \in SUBSET S :
                    Cardinality(T) = n => \E f \in [1..n -> T] : Increasing(f)}
<1>1. 0 \in N
  <2> SUFFICES ASSUME NEW T \in SUBSET S, Cardinality(T) = 0
               PROVE  \E f \in [1..0 -> T] : Increasing(f)
    OBVIOUS
  <2>1. [i \in 1..0 |-> i] \in [1..0 -> T] /\ Increasing([i \in 1..0 |-> i])
    BY DEF Increasing
  <2> QED
    BY <2>1
<1>2. ASSUME NEW n \in N PROVE n + 1 \in N
  <2> SUFFICES ASSUME NEW T \in SUBSET S, Cardinality(T) = n + 1
               PROVE  \E f \in [1..n + 1 -> T] : Increasing(f)
    OBVIOUS
  <2>1. IsFiniteSet(T) /\ n \in Nat /\ T # {} /\ T \subseteq Int
    <3>1. IsFiniteSet(T) /\ n \in Nat
      BY FS_Subset
    <3>2. T # {}
      BY <3>1, FS_EmptySet
    <3> QED
      BY <3>1, <3>2
  <2>2. PICK m \in T : \A x \in T : x <= m
    BY <2>1, GreatestElement
  <2>3. Cardinality(T \ {m}) = n
    <3>1. Cardinality(T \ {m}) = Cardinality(T) - 1
      BY <2>1, <2>2, FS_RemoveElement
    <3> QED
      BY <2>1, <3>1
  <2>4. PICK f \in [1..n -> T \ {m}] : Increasing(f)
    BY <2>3
  <2> DEFINE g == [i \in 1..n + 1 |-> IF i = n + 1 THEN m ELSE f[i]]
  <2>5. ASSUME NEW i \in 1..n PROVE f[i] \in T /\ f[i] < m
    <3>1. f[i] \in T /\ f[i] # m
      BY <2>4
    <3>2. f[i] \in Int /\ m \in Int /\ f[i] <= m
      BY <2>1, <2>2, <3>1
    <3> QED
      BY <3>1, <3>2
  <2>6. g \in [1..n + 1 -> T]
    <3>1. \A i \in 1..n + 1 : i # n + 1 => i \in 1..n
      BY <2>1
    <3> QED
      BY <2>2, <2>5, <3>1
  <2>7. Increasing(g)
    BY <2>1, <2>4, <2>5 DEF Increasing
  <2> QED
    BY <2>6, <2>7
<1>3. N = Nat
  <2> HIDE DEF N
  <2> QED
    BY <1>1, <1>2, NumbersInduct, N \subseteq Nat DEF N
<1>4. Cardinality(S) \in N
  BY <1>3, FS_CardinalityType
<1> QED
  BY <1>4

\* A list in order names each of its members once.
LEMMA IncreasingOnce ==
    ASSUME NEW S \in SUBSET Int, IsFiniteSet(S), NEW f \in [1..Cardinality(S) -> S], Increasing(f)
    PROVE  /\ \A i, j \in 1..Cardinality(S) : f[i] = f[j] => i = j
           /\ \A x \in S : \E i \in 1..Cardinality(S) : f[i] = x
<1> DEFINE n == Cardinality(S)
<1>0. n \in Nat
  BY FS_CardinalityType
<1>1. \A i, j \in 1..n : f[i] = f[j] => i = j
  <2> SUFFICES ASSUME NEW i \in 1..n, NEW j \in 1..n, f[i] = f[j], i # j
               PROVE  FALSE
    OBVIOUS
  <2> HIDE DEF n
  <2>1. f[i] \in Int /\ f[j] \in Int
    BY DEF n
  <2>2. (i < j \/ j < i) /\ DOMAIN f = 1..n
    BY <1>0 DEF n
  <2> QED
    BY <2>1, <2>2 DEF Increasing
<1>2. IsFiniteSet(1..n) /\ Cardinality(1..n) = n
  BY <1>0, FS_Interval
<1>3. f \in Injection(1..n, S)
  BY <1>1 DEF Injection, IsInjective
<1>4. f \in Surjection(1..n, S)
  BY <1>2, <1>3, FS_Injection
<1> QED
  BY <1>1, <1>4 DEF Surjection

\* ByID lists each member of the set once, in order.
LEMMA ByIDOf ==
    ASSUME NEW S \in SUBSET Int, IsFiniteSet(S)
    PROVE  /\ ByID(S) \in [1..Cardinality(S) -> S]
           /\ Increasing(ByID(S))
           /\ \A x \in S : \E i \in 1..Cardinality(S) : ByID(S)[i] = x
<1> DEFINE n == Cardinality(S)
           Before(x) == {y \in S : y < x}
<1>0. n \in Nat
  BY FS_CardinalityType
<1>1. PICK f \in [1..n -> S] : Increasing(f)
  BY ListExists
<1>2. /\ \A i, j \in 1..n : f[i] = f[j] => i = j
      /\ \A x \in S : \E i \in 1..n : f[i] = x
  BY <1>1, IncreasingOnce
<1>3. ByID(S) = [k \in 1..n |-> CHOOSE x \in S : Cardinality(Before(x)) = k - 1]
  BY DEF ByID
<1> HIDE DEF n
<1>4. \A i, j \in 1..n : f[i] < f[j] <=> i < j
  <2> SUFFICES ASSUME NEW i \in 1..n, NEW j \in 1..n PROVE f[i] < f[j] <=> i < j
    OBVIOUS
  <2>1. f[i] \in Int /\ f[j] \in Int /\ DOMAIN f = 1..n
    BY <1>1
  <2>2. i = j \/ i < j \/ j < i
    BY <1>0
  <2>3. (i < j => f[i] < f[j]) /\ (j < i => f[j] < f[i])
    BY <1>1, <2>1 DEF Increasing
  <2> QED
    BY <1>0, <2>1, <2>2, <2>3
<1>5. ASSUME NEW k \in 1..n PROVE Cardinality(Before(f[k])) = k - 1
  <2> DEFINE g == [i \in 1 .. k - 1 |-> f[i]]
  <2>1. /\ IsFiniteSet(1 .. k - 1) /\ Cardinality(1 .. k - 1) = k - 1
        /\ \A i \in 1 .. k - 1 : i \in 1..n /\ i < k
        /\ \A i \in 1..n : i < k => i \in 1 .. k - 1
    <3>1. k - 1 \in Nat /\ \A i \in 1 .. k - 1 : i \in 1..n /\ i < k
      BY <1>0
    <3> QED
      BY <1>0, <3>1, FS_Interval
  <2>2. \A i \in 1 .. k - 1 : g[i] \in Before(f[k])
    BY <1>1, <1>4, <2>1
  <2>3. \A x \in Before(f[k]) : \E i \in 1 .. k - 1 : g[i] = x
    <3> SUFFICES ASSUME NEW x \in S, x < f[k] PROVE \E i \in 1 .. k - 1 : g[i] = x
      OBVIOUS
    <3>1. PICK i \in 1..n : f[i] = x
      BY <1>2
    <3> QED
      BY <1>4, <2>1, <3>1
  <2>4. \A i, j \in 1 .. k - 1 : g[i] = g[j] => i = j
    BY <1>2, <2>1
  <2> HIDE DEF Before
  <2>5. g \in Surjection(1 .. k - 1, Before(f[k])) /\ g \in Injection(1 .. k - 1, Before(f[k]))
    <3>1. g \in [1 .. k - 1 -> Before(f[k])]
      BY <2>2
    <3> HIDE DEF g
    <3> QED
      BY <2>3, <2>4, <3>1 DEF Surjection, Injection, IsInjective
  <2> QED
    BY <2>1, <2>5, FS_Surjection
<1>6. ASSUME NEW k \in 1..n PROVE ByID(S)[k] = f[k]
  <2>1. f[k] \in S /\ Cardinality(Before(f[k])) = k - 1
    BY <1>1, <1>5
  <2>2. ASSUME NEW x \in S, Cardinality(Before(x)) = k - 1 PROVE x = f[k]
    <3>1. PICK i \in 1..n : f[i] = x
      BY <1>2
    <3>2. i - 1 = k - 1
      BY <1>5, <2>2, <3>1
    <3>3. i = k
      BY <1>0, <3>2
    <3> QED
      BY <3>1, <3>3
  <2> HIDE DEF Before
  <2> QED
    BY <1>3, <2>1, <2>2
<1>7. ByID(S) = f
  <2>1. DOMAIN ByID(S) = 1..n /\ ByID(S) = [k \in 1..n |-> ByID(S)[k]]
    BY <1>3
  <2>2. f = [k \in 1..n |-> f[k]]
    BY <1>1
  <2> QED
    BY <1>6, <2>1, <2>2
<1> QED
  BY <1>1, <1>2, <1>7 DEF n

-----------------------------------------------------------------------------
(* Sums.                                                                   *)

\* A family that has a set whenever it has that set without any one element
\* has every subset of a finite set.
LEMMA SubsetsInduct ==
    ASSUME NEW D, IsFiniteSet(D), NEW F,
           \A s \in SUBSET D : (\A x \in s : s \ {x} \in F) => s \in F
    PROVE  \A s \in SUBSET D : s \in F
<1> DEFINE N == {n \in Nat : \A s \in SUBSET D : Cardinality(s) = n => s \in F}
<1>0. \A s \in SUBSET D : IsFiniteSet(s) /\ Cardinality(s) \in Nat
  BY FS_Subset, FS_CardinalityType
<1>1. 0 \in N
  <2> SUFFICES ASSUME NEW s \in SUBSET D, Cardinality(s) = 0 PROVE s \in F
    OBVIOUS
  <2>1. s = {}
    BY <1>0, FS_EmptySet
  <2> QED
    BY <2>1
<1>2. ASSUME NEW n \in N PROVE n + 1 \in N
  <2> SUFFICES ASSUME NEW s \in SUBSET D, Cardinality(s) = n + 1 PROVE s \in F
    OBVIOUS
  <2>1. ASSUME NEW x \in s PROVE s \ {x} \in F
    <3>1. Cardinality(s \ {x}) = Cardinality(s) - 1
      BY <1>0, FS_RemoveElement
    <3>2. Cardinality(s \ {x}) = n
      BY <3>1
    <3> QED
      BY <3>2
  <2> QED
    BY <2>1
<1>3. N = Nat
  <2> HIDE DEF N
  <2> QED
    BY <1>1, <1>2, NumbersInduct, N \subseteq Nat DEF N
<1> SUFFICES ASSUME NEW s \in SUBSET D PROVE s \in F
  OBVIOUS
<1>4. Cardinality(s) \in N
  BY <1>0, <1>3
<1> QED
  BY <1>4

Pick(s) == CHOOSE x \in s : TRUE

\* One step of a sum.
AddUp(f, g, s) == IF s = {} THEN 0 ELSE f[Pick(s)] + g[s \ {Pick(s)}]

\* The recursion that adds up a function has a solution.
LEMMA SumExists ==
    ASSUME NEW D, IsFiniteSet(D), NEW f \in [D -> Int]
    PROVE  \E g : g = [s \in SUBSET D |-> AddUp(f, g, s)]
<1> DEFINE Upto(n, g) == \A s \in SUBSET D : Cardinality(s) <= n => g[s] = AddUp(f, g, s)
           N == {n \in Nat : \E g \in [SUBSET D -> Int] : Upto(n, g)}
<1>0. \A s \in SUBSET D : IsFiniteSet(s) /\ Cardinality(s) \in Nat
  BY FS_Subset, FS_CardinalityType
<1>1. \A s \in SUBSET D : s # {} => Pick(s) \in s
  BY DEF Pick
<1>2. 0 \in N
  <2> DEFINE g == [s \in SUBSET D |-> 0]
  <2>1. ASSUME NEW s \in SUBSET D, Cardinality(s) <= 0 PROVE g[s] = AddUp(f, g, s)
    <3>1. s = {}
      BY <1>0, <2>1, FS_EmptySet
    <3> QED
      BY <3>1 DEF AddUp
  <2>2. g \in [SUBSET D -> Int] /\ Upto(0, g)
    BY <2>1
  <2> QED
    BY <2>2
<1>3. ASSUME NEW n \in N PROVE n + 1 \in N
  <2>1. PICK g \in [SUBSET D -> Int] : Upto(n, g)
    OBVIOUS
  <2> DEFINE h == [s \in SUBSET D |-> IF Cardinality(s) = n + 1 THEN AddUp(f, g, s) ELSE g[s]]
  <2>2. \A s \in SUBSET D : AddUp(f, g, s) \in Int
    BY <1>1 DEF AddUp
  <2>3. h \in [SUBSET D -> Int]
    BY <2>2
  <2>4. ASSUME NEW s \in SUBSET D, Cardinality(s) <= n + 1 PROVE h[s] = AddUp(f, h, s)
    <3>1. h[s] = AddUp(f, g, s)
      <4>1. CASE Cardinality(s) = n + 1
        BY <4>1
      <4>2. CASE Cardinality(s) # n + 1
        <5>1. Cardinality(s) <= n
          BY <1>0, <2>4, <4>2
        <5> QED
          BY <2>1, <4>2, <5>1
      <4> QED
        BY <4>1, <4>2
    <3>2. ASSUME s # {} PROVE h[s \ {Pick(s)}] = g[s \ {Pick(s)}]
      <4>1. Cardinality(s \ {Pick(s)}) = Cardinality(s) - 1
        BY <1>0, <1>1, <3>2, FS_RemoveElement
      <4>2. Cardinality(s \ {Pick(s)}) # n + 1
        BY <1>0, <2>4, <4>1
      <4> QED
        BY <4>2
    <3> QED
      BY <3>1, <3>2 DEF AddUp
  <2>5. Upto(n + 1, h)
    BY <2>4
  <2> HIDE DEF h
  <2> QED
    BY <2>3, <2>5
<1>4. N = Nat
  <2> HIDE DEF N
  <2> QED
    BY <1>2, <1>3, NumbersInduct, N \subseteq Nat DEF N
<1>5. Cardinality(D) \in N
  BY <1>0, <1>4
<1>6. PICK g \in [SUBSET D -> Int] : Upto(Cardinality(D), g)
  BY <1>5
<1>7. \A s \in SUBSET D : g[s] = AddUp(f, g, s)
  BY <1>6, FS_Subset
<1> QED
  BY <1>7

\* The sums g of f over the subsets of D.
IsSum(g, f, D) ==
    /\ g \in [SUBSET D -> Int] /\ g[{}] = 0
    /\ \A X \in SUBSET D : \A x \in D \ X : g[X \cup {x}] = f[x] + g[X]

\* SumFunction adds up, and whichever element it takes first makes no difference.
LEMMA SumFunctionOf ==
    ASSUME NEW f, IsFiniteSet(DOMAIN f), f \in [DOMAIN f -> Int]
    PROVE  \E g : IsSum(g, f, DOMAIN f) /\ SumFunction(f) = g[DOMAIN f]
<1> DEFINE D == DOMAIN f
           g == CHOOSE g : g = [s \in SUBSET D |-> AddUp(f, g, s)]
<1>1. SumFunction(f) = g[D]
  BY DEF SumFunction, SumFunctionOnSet, FoldFunctionOnSet, MapThenFoldSet, AddUp, Pick
<1>2. g = [s \in SUBSET D |-> AddUp(f, g, s)]
  <2> HIDE DEF D
  <2> QED
    BY SumExists DEF D
<1> HIDE DEF g
<1>3. \A s \in SUBSET D : g[s] = AddUp(f, g, s) /\ (s # {} => Pick(s) \in s)
  BY <1>2 DEF Pick
<1>4. \A s \in SUBSET D : g[s] \in Int
  <2> DEFINE F == {s \in SUBSET D : g[s] \in Int}
  <2>1. ASSUME NEW s \in SUBSET D, \A x \in s : s \ {x} \in F PROVE s \in F
    <3>1. CASE s = {}
      BY <1>3, <3>1 DEF AddUp
    <3>2. CASE s # {}
      <4>1. g[s] = f[Pick(s)] + g[s \ {Pick(s)}] /\ Pick(s) \in s
        BY <1>3, <3>2 DEF AddUp
      <4>2. g[s \ {Pick(s)}] \in Int /\ f[Pick(s)] \in Int
        BY <2>1, <4>1
      <4> QED
        BY <4>1, <4>2
    <3> QED
      BY <3>1, <3>2
  <2> HIDE DEF F
  <2>2. \A s \in SUBSET D : s \in F
    BY <2>1, SubsetsInduct
  <2> QED
    BY <2>2 DEF F
<1>5. g[{}] = 0
  BY <1>3 DEF AddUp
<1>6. \A s \in SUBSET D : \A x \in s : g[s] = f[x] + g[s \ {x}]
  <2> DEFINE F == {s \in SUBSET D : \A x \in s : g[s] = f[x] + g[s \ {x}]}
  <2>1. ASSUME NEW s \in SUBSET D, \A x \in s : s \ {x} \in F PROVE s \in F
    <3> SUFFICES ASSUME NEW x \in s PROVE g[s] = f[x] + g[s \ {x}]
      OBVIOUS
    <3>1. PICK y \in s : g[s] = f[y] + g[s \ {y}]
      BY <1>3 DEF AddUp
    <3>2. CASE x = y
      BY <3>1, <3>2
    <3>3. CASE x # y
      <4>1. g[s \ {y}] = f[x] + g[(s \ {y}) \ {x}]
        BY <2>1, <3>3
      <4>2. g[s \ {x}] = f[y] + g[(s \ {x}) \ {y}]
        BY <2>1, <3>3
      <4>3. (s \ {y}) \ {x} = (s \ {x}) \ {y}
        OBVIOUS
      <4> DEFINE i == f[x]
                 j == f[y]
                 k == g[(s \ {x}) \ {y}]
      <4>4. i \in Int /\ j \in Int /\ k \in Int
        BY <1>4
      <4>5. g[s] = j + (i + k) /\ g[s \ {x}] = j + k
        BY <3>1, <4>1, <4>2, <4>3
      <4> HIDE DEF i, j, k
      <4>6. g[s] = i + g[s \ {x}]
        BY <4>4, <4>5
      <4> QED
        BY <4>6 DEF i
    <3> QED
      BY <3>2, <3>3
  <2> HIDE DEF F
  <2>2. \A s \in SUBSET D : s \in F
    BY <2>1, SubsetsInduct
  <2> QED
    BY <2>2 DEF F
<1>7. IsSum(g, f, D)
  <2>1. ASSUME NEW X \in SUBSET D, NEW x \in D \ X PROVE g[X \cup {x}] = f[x] + g[X]
    <3>1. (X \cup {x}) \ {x} = X /\ X \cup {x} \in SUBSET D
      OBVIOUS
    <3> QED
      BY <1>6, <3>1
  <2>2. g \in [SUBSET D -> Int]
    BY <1>2, <1>4
  <2> QED
    BY <1>5, <2>1, <2>2 DEF IsSum
<1> QED
  BY <1>1, <1>7

\* Terms that are zero add nothing.
LEMMA ZerosAddNothing ==
    ASSUME NEW f, NEW h, IsFiniteSet(DOMAIN h), DOMAIN f \subseteq DOMAIN h,
           f \in [DOMAIN f -> Int], \A x \in DOMAIN f : h[x] = f[x],
           \A x \in DOMAIN h \ DOMAIN f : h[x] = 0, h = [x \in DOMAIN h |-> h[x]]
    PROVE  SumFunction(f) = SumFunction(h)
<1> DEFINE S == DOMAIN f
           T == DOMAIN h
<1>1. h \in [T -> Int] /\ IsFiniteSet(S)
  BY FS_Subset
<1>2. PICK a : IsSum(a, f, S) /\ SumFunction(f) = a[S]
  BY <1>1, SumFunctionOf
<1>3. PICK b : IsSum(b, h, T) /\ SumFunction(h) = b[T]
  BY <1>1, SumFunctionOf
<1> DEFINE F == {X \in SUBSET T : b[X] = a[X \cap S]}
<1>4. {} \in F
  <2>1. {} \cap S = {}
    OBVIOUS
  <2> QED
    BY <1>2, <1>3, <2>1 DEF IsSum
<1>5. ASSUME NEW X \in SUBSET T, NEW x \in T \ X, X \in F
      PROVE  X \cup {x} \in F
  <2>1. b[X \cup {x}] = h[x] + b[X] /\ b[X] = a[X \cap S]
    BY <1>3, <1>5 DEF IsSum
  <2>2. a[X \cap S] \in Int
    BY <1>2 DEF IsSum
  <2>3. CASE x \in S
    <3>1. (X \cup {x}) \cap S = (X \cap S) \cup {x} /\ x \in S \ (X \cap S)
      BY <2>3
    <3>2. a[(X \cup {x}) \cap S] = f[x] + a[X \cap S]
      BY <1>2, <3>1 DEF IsSum
    <3> QED
      BY <2>1, <2>3, <3>2
  <2>4. CASE x \notin S
    <3>1. (X \cup {x}) \cap S = X \cap S /\ h[x] = 0
      BY <2>4
    <3>2. b[X \cup {x}] = 0 + b[X] /\ b[X] \in Int
      BY <2>1, <2>2, <3>1
    <3>3. b[X \cup {x}] = b[X]
      BY <3>2
    <3>4. b[X \cup {x}] = a[(X \cup {x}) \cap S]
      BY <2>1, <3>1, <3>3
    <3> QED
      BY <3>4
  <2> QED
    BY <2>3, <2>4
<1>6. T \in F
  <2> HIDE DEF F
  <2> QED
    BY <1>4, <1>5, SetsInduct
<1>7. T \cap S = S
  OBVIOUS
<1> QED
  BY <1>2, <1>3, <1>6, <1>7

\* The differences of two functions add up to the difference of their sums.
LEMMA SumOfDifferences ==
    ASSUME NEW D, IsFiniteSet(D), NEW f \in [D -> Int], NEW h \in [D -> Int]
    PROVE  SumFunction([x \in D |-> f[x] - h[x]]) = SumFunction(f) - SumFunction(h)
<1> DEFINE d == [x \in D |-> f[x] - h[x]]
<1>1. d \in [D -> Int] /\ DOMAIN d = D /\ DOMAIN f = D /\ DOMAIN h = D
  OBVIOUS
<1>2. \A x \in D : d[x] = f[x] - h[x]
  OBVIOUS
<1> HIDE DEF d
<1>3. PICK a : IsSum(a, f, D) /\ SumFunction(f) = a[D]
  BY <1>1, SumFunctionOf
<1>4. PICK b : IsSum(b, h, D) /\ SumFunction(h) = b[D]
  BY <1>1, SumFunctionOf
<1>5. PICK c : IsSum(c, d, D) /\ SumFunction(d) = c[D]
  BY <1>1, SumFunctionOf
<1> DEFINE F == {X \in SUBSET D : c[X] = a[X] - b[X]}
<1>6. {} \in F
  BY <1>3, <1>4, <1>5 DEF IsSum
<1>7. ASSUME NEW X \in SUBSET D, NEW x \in D \ X, X \in F
      PROVE  X \cup {x} \in F
  <2>1. /\ a[X \cup {x}] = f[x] + a[X] /\ b[X \cup {x}] = h[x] + b[X]
        /\ c[X \cup {x}] = d[x] + c[X] /\ c[X] = a[X] - b[X]
    BY <1>3, <1>4, <1>5, <1>7 DEF IsSum
  <2>2. a[X] \in Int /\ b[X] \in Int /\ f[x] \in Int /\ h[x] \in Int
    BY <1>3, <1>4 DEF IsSum
  <2>3. c[X \cup {x}] = a[X \cup {x}] - b[X \cup {x}]
    BY <1>2, <2>1, <2>2
  <2> QED
    BY <2>3
<1>8. D \in F
  <2> HIDE DEF F
  <2> QED
    BY <1>6, <1>7, SetsInduct
<1>9. SumFunction(d) = SumFunction(f) - SumFunction(h)
  BY <1>3, <1>4, <1>5, <1>8
<1> QED
  BY <1>9 DEF d

-----------------------------------------------------------------------------
(* Folds over sequences, insertion and order.                             *)

\* The first k numbers, the last of which a fold takes last.
LEMMA FirstNumbers ==
    ASSUME NEW n \in Nat, NEW k \in 1..n
    PROVE  /\ 1..k # {} /\ 1..k \in SUBSET (1..n) /\ k \in 0..n /\ k - 1 \in 0..n
           /\ Max(1..k) = k /\ (1..k) \ {Max(1..k)} = 1 .. k - 1
<1>1. k \in Int /\ k \in 1..k /\ \A x \in 1..k : k >= x
  OBVIOUS
<1>2. Max(1..k) = k
  BY <1>1 DEF Max
<1> QED
  BY <1>1, <1>2

\* The greatest of some of the first n numbers.
LEMMA LastIn ==
    ASSUME NEW n \in Nat, NEW S \in SUBSET (1..n), S # {}
    PROVE  Max(S) \in S /\ Max(S) \in 1..n /\ \A x \in S : Max(S) >= x
<1>1. IsFiniteSet(1..n)
  BY FS_Interval
<1>2. IsFiniteSet(S)
  BY <1>1, FS_Subset
<1>3. S \in SUBSET Int
  OBVIOUS
<1>4. \E m \in S : \A x \in S : x <= m
  BY <1>2, <1>3, GreatestElement
<1>5. \E m \in S : \A x \in S : m >= x
  BY <1>3, <1>4
<1> QED
  BY <1>5 DEF Max

\* g folds the numbers up to n with F, the last one last.
FoldsWith(g, F, d, n) ==
    \A S \in SUBSET (1..n) : g[S] = IF S = {} THEN d ELSE F[<<g[S \ {Max(S)}], Max(S)>>]

\* A fold by a function has a solution, and its values are where the function's are.
LEMMA FoldSolved ==
    ASSUME NEW V, NEW d \in V, NEW n \in Nat, NEW F \in [V \X (1..n) -> V]
    PROVE  \E g \in [SUBSET (1..n) -> V] : FoldsWith(g, F, d, n)
<1> DEFINE D == 1..n
           Next1(g, S) == IF S = {} THEN d ELSE F[<<g[S \ {Max(S)}], Max(S)>>]
           Upto(k, g) == \A S \in SUBSET D : Cardinality(S) <= k => g[S] = Next1(g, S)
           N == {k \in Nat : \E g \in [SUBSET D -> V] : Upto(k, g)}
<1>0. IsFiniteSet(D) /\ \A S \in SUBSET D : IsFiniteSet(S) /\ Cardinality(S) \in Nat
  <2>1. IsFiniteSet(D)
    BY FS_Interval
  <2> QED
    BY <2>1, FS_Subset, FS_CardinalityType
<1>1. ASSUME NEW S \in SUBSET D, S # {} PROVE Max(S) \in S
  BY <1>1, LastIn
<1>2. 0 \in N
  <2> DEFINE g == [S \in SUBSET D |-> d]
  <2>1. ASSUME NEW S \in SUBSET D, Cardinality(S) <= 0 PROVE g[S] = Next1(g, S)
    <3>1. S = {}
      BY <1>0, <2>1, FS_EmptySet
    <3> QED
      BY <3>1
  <2>2. g \in [SUBSET D -> V] /\ Upto(0, g)
    BY <2>1
  <2> HIDE DEF g
  <2> QED
    BY <2>2
<1>3. ASSUME NEW k \in N PROVE k + 1 \in N
  <2>1. PICK g \in [SUBSET D -> V] : Upto(k, g)
    OBVIOUS
  <2> DEFINE h == [S \in SUBSET D |-> Next1(g, S)]
  <2>2. ASSUME NEW S \in SUBSET D PROVE Next1(g, S) \in V
    <3>1. CASE S # {}
      <4>1. Max(S) \in D /\ S \ {Max(S)} \in SUBSET D
        BY <1>1, <3>1
      <4>2. g[S \ {Max(S)}] \in V
        BY <4>1
      <4> HIDE DEF D
      <4> QED
        BY <3>1, <4>1, <4>2 DEF D
    <3> QED
      BY <3>1
  <2>3. h \in [SUBSET D -> V]
    <3> HIDE DEF Next1
    <3> QED
      BY <2>2
  <2>4. ASSUME NEW S \in SUBSET D, Cardinality(S) <= k + 1 PROVE h[S] = Next1(h, S)
    <3>1. CASE S = {}
      BY <3>1
    <3>2. CASE S # {}
      <4> DEFINE T == S \ {Max(S)}
      <4>1. Cardinality(T) = Cardinality(S) - 1 /\ T \in SUBSET D
        BY <1>0, <1>1, <3>2, FS_RemoveElement
      <4>2. Cardinality(T) <= k
        BY <1>0, <2>4, <4>1
      <4>3. g[T] = Next1(g, T)
        BY <2>1, <4>1, <4>2
      <4>4. h[T] = g[T]
        BY <4>1, <4>3
      <4>5. h[S] = Next1(g, S)
        OBVIOUS
      <4> HIDE DEF h
      <4> QED
        BY <3>2, <4>4, <4>5
    <3> QED
      BY <3>1, <3>2
  <2>5. Upto(k + 1, h)
    BY <2>4
  <2> HIDE DEF h, Upto
  <2> QED
    BY <2>3, <2>5
<1>4. N = Nat
  <2> HIDE DEF N
  <2> QED
    BY <1>2, <1>3, NumbersInduct, N \subseteq Nat DEF N
<1>5. Cardinality(D) \in N
  BY <1>0, <1>4
<1>6. PICK g \in [SUBSET D -> V] : Upto(Cardinality(D), g)
  BY <1>5
<1>7. \A S \in SUBSET D : Cardinality(S) <= Cardinality(D)
  BY <1>0, FS_Subset
<1>8. \A S \in SUBSET D : g[S] = Next1(g, S)
  BY <1>6, <1>7
<1> QED
  BY <1>8 DEF FoldsWith

\* The last number in I, or 0.
LEMMA LastAmong ==
    ASSUME NEW n \in Nat, NEW I \in SUBSET (1..n), NEW p, p = IF I # {} THEN Max(I) ELSE 0
    PROVE  p \in 0..n /\ (\A i \in p + 1 .. n : i \notin I) /\ (p > 0 => p \in I)
<1>1. CASE I = {}
  BY <1>1
<1>2. CASE I # {}
  <2>1. p \in I /\ p \in 1..n /\ \A x \in I : p >= x
    BY <1>2, LastIn
  <2> QED
    BY <2>1
<1> QED
  BY <1>1, <1>2

\* InsertAt makes room at one place and keeps the rest in order.
LEMMA InsertAtOf ==
    ASSUME NEW E, NEW s \in Seq(E), NEW x \in E, NEW p \in 0..Len(s)
    PROVE  LET t == InsertAt(s, p + 1, x) IN
           /\ t \in Seq(E) /\ Len(t) = Len(s) + 1 /\ DOMAIN t = 1..Len(s) + 1
           /\ \A i \in 1..Len(s) + 1 :
                 t[i] = IF i <= p THEN s[i] ELSE IF i = p + 1 THEN x ELSE s[i - 1]
<1> DEFINE a == SubSeq(s, 1, p)
           b == SubSeq(s, p + 1, Len(s))
           c == a \o <<x>>
           t == InsertAt(s, p + 1, x)
<1>0. Len(s) \in Nat /\ p \in Int /\ 0 <= p /\ p <= Len(s) /\ (p + 1) - 1 = p
  OBVIOUS
<1>1. t = c \o b
  BY <1>0 DEF InsertAt
<1>2. a \in Seq(E) /\ Len(a) = p /\ \A i \in 1..p : a[i] = s[i]
  <2>1. \A i \in 1..p : s[i] \in E
    BY <1>0
  <2>2. a \in Seq(E) /\ Len(a) = (IF 1 <= p THEN p - 1 + 1 ELSE 0)
        /\ \A i \in 1..p - 1 + 1 : a[i] = s[1 + i - 1]
    BY <1>0, <2>1, SubSeqProperties
  <2> QED
    BY <1>0, <2>2
<1>3. b \in Seq(E) /\ Len(b) = Len(s) - p /\ \A i \in 1..Len(s) - p : b[i] = s[p + i]
  <2>1. \A i \in p + 1 .. Len(s) : s[i] \in E
    BY <1>0
  <2>2. b \in Seq(E) /\ Len(b) = (IF p + 1 <= Len(s) THEN Len(s) - (p + 1) + 1 ELSE 0)
        /\ \A i \in 1..Len(s) - (p + 1) + 1 : b[i] = s[(p + 1) + i - 1]
    BY <1>0, <2>1, SubSeqProperties
  <2> QED
    BY <1>0, <2>2
<1> HIDE DEF a, b
<1>4. c \in Seq(E) /\ Len(c) = p + 1 /\ \A i \in 1..p + 1 : c[i] = IF i <= p THEN s[i] ELSE x
  <2>1. <<x>> \in Seq(E) /\ Len(<<x>>) = 1 /\ <<x>>[1] = x
    OBVIOUS
  <2>2. c \in Seq(E) /\ Len(c) = p + 1
        /\ \A i \in 1..p + 1 : c[i] = IF i <= p THEN a[i] ELSE <<x>>[i - p]
    BY <1>2, <2>1, ConcatProperties
  <2>3. \A i \in 1..p + 1 : ~(i <= p) => i - p = 1
    BY <1>0
  <2> QED
    BY <1>0, <1>2, <2>1, <2>2, <2>3
<1> HIDE DEF c
<1>5. t \in Seq(E) /\ Len(t) = (p + 1) + (Len(s) - p)
      /\ \A i \in 1 .. (p + 1) + (Len(s) - p) : t[i] = IF i <= p + 1 THEN c[i] ELSE b[i - (p + 1)]
  <2>1. /\ c \o b \in Seq(E) /\ Len(c \o b) = Len(c) + Len(b)
        /\ \A i \in 1..Len(c) + Len(b) : (c \o b)[i] = IF i <= Len(c) THEN c[i] ELSE b[i - Len(c)]
    BY <1>3, <1>4, ConcatProperties
  <2> QED
    BY <1>1, <1>3, <1>4, <2>1
<1> HIDE DEF t
<1>6. ASSUME NEW i \in 1..Len(s) + 1
      PROVE  t[i] = IF i <= p THEN s[i] ELSE IF i = p + 1 THEN x ELSE s[i - 1]
  <2>1. i <= p + 1 => t[i] = c[i] /\ i \in 1..p + 1
    BY SMTT(30), <1>0, <1>5
  <2>2. ~(i <= p + 1) => t[i] = s[i - 1]
    <3> SUFFICES ASSUME ~(i <= p + 1) PROVE t[i] = s[i - 1]
      OBVIOUS
    <3>0. /\ i \in 1 .. (p + 1) + (Len(s) - p)
          /\ i - (p + 1) \in 1..Len(s) - p /\ p + (i - (p + 1)) = i - 1
      BY <1>0
    <3>1. t[i] = b[i - (p + 1)] /\ i - (p + 1) \in 1..Len(s) - p /\ p + (i - (p + 1)) = i - 1
      BY <1>5, <3>0
    <3> QED
      BY <1>3, <3>1
  <2> QED
    BY <1>0, <1>4, <2>1, <2>2
<1>7. Len(t) = Len(s) + 1 /\ DOMAIN t = 1..Len(s) + 1
  BY <1>0, <1>5
<1> QED
  BY <1>5, <1>6, <1>7 DEF t

SortedBy(R, s) == \A i, j \in DOMAIN s : i < j => <<s[i], s[j]>> \in R

\* R is a strict total order of E.
Orders(R, E) ==
    /\ \A a, b, c \in E : <<a, b>> \in R /\ <<b, c>> \in R => <<a, c>> \in R
    /\ \A a \in E : <<a, a>> \notin R
    /\ \A a, b \in E : a # b => <<a, b>> \in R \/ <<b, a>> \in R

\* An element inserted in front of those it precedes.
LEMMA InsertionSorts ==
    ASSUME NEW E, NEW R, Orders(R, E), NEW s \in Seq(E), SortedBy(R, s), NEW x \in E,
           x \notin ToSet(s), NEW p \in 0..Len(s),
           \A i \in p + 1 .. Len(s) : <<x, s[i]>> \in R, p > 0 => <<x, s[p]>> \notin R
    PROVE  LET t == InsertAt(s, p + 1, x) IN
           /\ t \in Seq(E) /\ Len(t) = Len(s) + 1
           /\ SortedBy(R, t) /\ ToSet(t) = ToSet(s) \cup {x}
<1> DEFINE t == InsertAt(s, p + 1, x)
           n == Len(s)
<1>0. n \in Nat /\ DOMAIN s = 1..n /\ p \in 0..n /\ \A i \in 1..n : s[i] \in E
  OBVIOUS
<1>1. /\ t \in Seq(E) /\ Len(t) = n + 1 /\ DOMAIN t = 1..n + 1
      /\ \A i \in 1..n + 1 : t[i] = IF i <= p THEN s[i] ELSE IF i = p + 1 THEN x ELSE s[i - 1]
  BY InsertAtOf
<1> HIDE DEF t, n
<1>2. ASSUME NEW i \in 1..p PROVE <<s[i], x>> \in R
  <2>1. p \in 1..n /\ s[p] \in E /\ s[p] # x /\ p > 0 /\ i \in 1..n
    BY <1>0 DEF ToSet, n
  <2>2. <<s[p], x>> \in R
    BY <2>1 DEF Orders
  <2>3. CASE i = p
    BY <2>2, <2>3
  <2>4. CASE i # p
    <3>1. <<s[i], s[p]>> \in R
      BY <1>0, <2>1, <2>4 DEF SortedBy
    <3> QED
      BY <1>0, <2>1, <2>2, <3>1 DEF Orders
  <2> QED
    BY <2>3, <2>4
<1>3. SortedBy(R, t)
  <2> SUFFICES ASSUME NEW i \in 1..n + 1, NEW j \in 1..n + 1, i < j
               PROVE  <<t[i], t[j]>> \in R
    BY <1>1 DEF SortedBy
  <2>1. CASE j <= p
    <3>1. t[i] = s[i] /\ t[j] = s[j] /\ i \in 1..n /\ j \in 1..n
      BY <1>0, <1>1, <2>1
    <3> QED
      BY <1>0, <3>1 DEF SortedBy
  <2>2. CASE j = p + 1
    <3>1. t[i] = s[i] /\ t[j] = x /\ i \in 1..p
      BY <1>0, <1>1, <2>2
    <3> QED
      BY <1>2, <3>1
  <2>3. CASE j > p + 1
    <3>1. t[j] = s[j - 1] /\ j - 1 \in p + 1 .. n /\ j - 1 \in 1..n
      BY <1>0, <1>1, <2>3
    <3>2. CASE i = p + 1
      <4>1. t[i] = x
        BY <1>0, <1>1, <3>2
      <4> QED
        BY <3>1, <4>1 DEF n
    <3>3. CASE i <= p
      <4>1. t[i] = s[i] /\ i \in 1..n /\ i < j - 1
        BY <1>0, <1>1, <2>3, <3>3
      <4> QED
        BY <1>0, <3>1, <4>1 DEF SortedBy
    <3>4. CASE i > p + 1
      <4>1. t[i] = s[i - 1] /\ i - 1 \in 1..n /\ i - 1 < j - 1
        BY <1>0, <1>1, <3>4
      <4> QED
        BY <1>0, <3>1, <4>1 DEF SortedBy
    <3> QED
      BY <1>0, <3>2, <3>3, <3>4
  <2> QED
    BY <1>0, <2>1, <2>2, <2>3
<1>4. ToSet(t) = ToSet(s) \cup {x}
  <2>1. ASSUME NEW i \in 1..n + 1 PROVE t[i] \in ToSet(s) \cup {x}
    <3>1. i <= p \/ i = p + 1 \/ (i > p + 1 /\ i - 1 \in 1..n)
      BY <1>0
    <3>2. i <= p => i \in 1..n
      BY <1>0
    <3> QED
      BY <1>0, <1>1, <3>1, <3>2 DEF ToSet
  <2>2. ASSUME NEW i \in 1..n PROVE s[i] \in ToSet(t)
    <3>1. i <= p => t[i] = s[i] /\ i \in DOMAIN t
      BY <1>0, <1>1
    <3>2. ~(i <= p) => t[i + 1] = s[i] /\ i + 1 \in DOMAIN t
      <4> SUFFICES ASSUME ~(i <= p) PROVE t[i + 1] = s[i] /\ i + 1 \in DOMAIN t
        OBVIOUS
      <4>1. i + 1 \in 1..n + 1 /\ ~(i + 1 <= p) /\ i + 1 # p + 1 /\ (i + 1) - 1 = i
        BY <1>0
      <4> QED
        BY <1>1, <4>1
    <3> QED
      BY <3>1, <3>2 DEF ToSet
  <2>3. x \in ToSet(t)
    <3>1. t[p + 1] = x /\ p + 1 \in DOMAIN t
      <4>1. p + 1 \in 1..n + 1 /\ ~(p + 1 <= p)
        BY <1>0
      <4> QED
        BY <1>1, <4>1
    <3> QED
      BY <3>1 DEF ToSet
  <2> QED
    BY <1>0, <1>1, <2>1, <2>2, <2>3 DEF ToSet
<1> QED
  BY <1>1, <1>3, <1>4 DEF t, n

\* A list of all members of S in the order R.
Lists(f, n, R, S) ==
    /\ n \in Nat /\ f \in [1..n -> S]
    /\ \A i, j \in 1..n : i < j => <<f[i], f[j]>> \in R
    /\ \A x \in S : \E i \in 1..n : f[i] = x

\* A listing in a strict order has no entry twice, and as many entries as there are members.
LEMMA ListsOnce ==
    ASSUME NEW S, NEW R, Orders(R, S), NEW f, NEW n, Lists(f, n, R, S)
    PROVE  /\ \A i, j \in 1..n : f[i] = f[j] => i = j
           /\ IsFiniteSet(S) /\ Cardinality(S) = n
<1>1. ASSUME NEW i \in 1..n, NEW j \in 1..n, i < j PROVE f[i] # f[j]
  <2>1. <<f[i], f[j]>> \in R /\ f[i] \in S
    BY <1>1 DEF Lists
  <2> QED
    BY <2>1 DEF Orders
<1>2. n \in Nat /\ \A i, j \in 1..n : i = j \/ i < j \/ j < i
  BY DEF Lists
<1>3. \A i, j \in 1..n : f[i] = f[j] => i = j
  BY <1>1, <1>2
<1>4. IsFiniteSet(1..n) /\ Cardinality(1..n) = n
  BY <1>2, FS_Interval
<1>5. f \in Surjection(1..n, S)
  BY DEF Lists, Surjection
<1>6. f \in Injection(1..n, S)
  BY <1>3, <1>5 DEF Lists, Injection, IsInjective
<1>7. IsFiniteSet(S)
  BY <1>4, <1>5, FS_Surjection
<1>8. Cardinality(1..n) = Cardinality(S)
  BY <1>5, <1>6, <1>7, FS_Injection
<1> QED
  BY <1>3, <1>4, <1>7, <1>8

\* There is only one.
LEMMA OneList ==
    ASSUME NEW S, NEW R, Orders(R, S), NEW f, NEW m, Lists(f, m, R, S),
           NEW g, NEW n, Lists(g, n, R, S)
    PROVE  f = g
<1>1. /\ m = n /\ n \in Nat
      /\ \A i, j \in 1..n : f[i] = f[j] => i = j
      /\ \A i, j \in 1..n : g[i] = g[j] => i = j
  <2>1. \A i, j \in 1..m : f[i] = f[j] => i = j
    BY ListsOnce
  <2>2. \A i, j \in 1..n : g[i] = g[j] => i = j
    BY ListsOnce
  <2>3. Cardinality(S) = m /\ Cardinality(S) = n
    BY ListsOnce
  <2> QED
    BY <2>1, <2>2, <2>3 DEF Lists
<1>2. /\ f \in [1..n -> S] /\ g \in [1..n -> S]
      /\ \A i, j \in 1..n : i < j => <<f[i], f[j]>> \in R
      /\ \A i, j \in 1..n : i < j => <<g[i], g[j]>> \in R
      /\ \A x \in S : \E i \in 1..n : f[i] = x
      /\ \A x \in S : \E i \in 1..n : g[i] = x
  BY <1>1 DEF Lists
<1> DEFINE N == {k \in Nat : \A i \in 1..n : i <= k => f[i] = g[i]}
<1>3. 0 \in N
  OBVIOUS
<1>4. ASSUME NEW k \in N PROVE k + 1 \in N
  <2> SUFFICES ASSUME NEW c \in 1..n, c = k + 1, f[c] # g[c] PROVE FALSE
    <3>1. k \in Nat /\ \A i \in 1..n : i <= k + 1 => i <= k \/ i = k + 1
      OBVIOUS
    <3> QED
      BY <3>1
  <2>0. \A i \in 1..n : i < c => f[i] = g[i]
    BY <1>1
  <2>1. PICK j \in 1..n : g[j] = f[c]
    BY <1>2
  <2>2. PICK l \in 1..n : f[l] = g[c]
    BY <1>2
  <2>3. c < j
    <3>1. j # c /\ ~(j < c)
      BY <1>1, <2>0, <2>1
    <3> QED
      BY <1>1, <3>1
  <2>4. c < l
    <3>1. l # c /\ ~(l < c)
      BY <1>1, <2>0, <2>2
    <3> QED
      BY <1>1, <3>1
  <2>5. <<g[c], f[c]>> \in R /\ <<f[c], g[c]>> \in R /\ f[c] \in S /\ g[c] \in S
    BY <1>2, <2>1, <2>2, <2>3, <2>4
  <2> QED
    BY <2>5 DEF Orders
<1>5. N = Nat
  <2> HIDE DEF N
  <2> QED
    BY <1>3, <1>4, NumbersInduct, N \subseteq Nat DEF N
<1>6. \A i \in 1..n : f[i] = g[i]
  <2>1. n \in N /\ \A i \in 1..n : i <= n
    BY <1>1, <1>5
  <2> QED
    BY <2>1
<1>7. f = [i \in 1..n |-> f[i]] /\ g = [i \in 1..n |-> g[i]]
  BY <1>2
<1> QED
  BY <1>6, <1>7

\* An order of the map's keys names each of them once.
LEMMA OrdersAll ==
    ASSUME NEW S, IsFiniteSet(S), NEW f \in SetToSeqs(S)
    PROVE  /\ Cardinality(S) \in Nat /\ f \in [1..Cardinality(S) -> S]
           /\ \A i, j \in 1..Cardinality(S) : i # j => f[i] # f[j]
           /\ \A x \in S : \E i \in 1..Cardinality(S) : f[i] = x
<1> DEFINE n == Cardinality(S)
<1>0. n \in Nat
  BY FS_CardinalityType
<1>1. f \in [1..n -> S] /\ \A i, j \in 1..n : i # j => f[i] # f[j]
  BY DEF SetToSeqs
<1>2. IsFiniteSet(1..n) /\ Cardinality(1..n) = n
  BY <1>0, FS_Interval
<1>3. f \in Injection(1..n, S)
  BY <1>1 DEF Injection, IsInjective
<1>4. f \in Surjection(1..n, S)
  BY <1>2, <1>3, FS_Injection
<1> QED
  BY <1>0, <1>1, <1>4 DEF Surjection

\* ByID orders a finite set of ids: each of them once.
LEMMA ByIDOrders ==
    ASSUME NEW S \in SUBSET Int, IsFiniteSet(S)
    PROVE  ByID(S) \in SetToSeqs(S)
<1> DEFINE n == Cardinality(S)
<1>1. n \in Nat
  BY FS_CardinalityType
<1>2. ByID(S) \in [1..n -> S] /\ Increasing(ByID(S))
  BY ByIDOf
<1>3. \A i, j \in 1..n : i # j => i < j \/ j < i
  BY <1>1
<1>4. ASSUME NEW i \in 1..n, NEW j \in 1..n, i < j PROVE ByID(S)[i] # ByID(S)[j]
  <2>1. ByID(S)[i] < ByID(S)[j] /\ ByID(S)[i] \in Int
    BY <1>2, <1>4 DEF Increasing
  <2> QED
    BY <2>1
<1> HIDE DEF n
<1>5. \A i, j \in 1..n : i # j => ByID(S)[i] # ByID(S)[j]
  BY <1>3, <1>4
<1> QED
  BY <1>2, <1>5 DEF SetToSeqs, n

\* Computed is the sequence itself.
LEMMA ComputedIs ==
    ASSUME NEW X, NEW s \in Seq(X)
    PROVE  Computed(s) = s
BY SubSeqFull DEF Computed

\* What Among picks.
LEMMA AmongOf ==
    ASSUME NEW X, NEW s \in Seq(X), NEW I \in SUBSET DOMAIN s
    PROVE  /\ IsFiniteSet(I) /\ Cardinality(I) \in Nat
           /\ Among(s, I) \in Seq(X) /\ Len(Among(s, I)) = Cardinality(I)
           /\ DOMAIN Among(s, I) = 1..Cardinality(I)
           /\ ByID(I) \in [1..Cardinality(I) -> I]
           /\ Increasing(ByID(I)) /\ \A x \in I : \E k \in 1..Cardinality(I) : ByID(I)[k] = x
           /\ \A k \in 1..Cardinality(I) : Among(s, I)[k] = s[ByID(I)[k]]
<1> DEFINE n == Cardinality(I)
           ids == ByID(I)
           t == [k \in DOMAIN ids |-> s[ids[k]]]
<1>1. DOMAIN s = 1..Len(s) /\ Len(s) \in Nat
  OBVIOUS
<1>2. I \in SUBSET Int /\ IsFiniteSet(I) /\ n \in Nat
  <2>1. IsFiniteSet(1..Len(s)) /\ I \in SUBSET (1..Len(s))
    BY <1>1, FS_Interval
  <2> QED
    BY <2>1, FS_Subset, FS_CardinalityType
<1>3. ids \in [1..n -> I] /\ Increasing(ids) /\ \A x \in I : \E k \in 1..n : ids[k] = x
  BY <1>2, ByIDOf
<1>4. Among(s, I) = Computed(t)
  BY DEF Among
<1> HIDE DEF ids, n
<1>5. ids \in Seq(I) /\ Len(ids) = n
  BY <1>2, <1>3
<1>6. t \in [1..n -> X] /\ \A k \in 1..n : t[k] = s[ids[k]]
  <2>1. \A k \in 1..n : ids[k] \in DOMAIN s
    BY <1>3
  <2>2. \A k \in 1..n : s[ids[k]] \in X
    BY <2>1
  <2> QED
    BY <1>3, <2>2
<1> HIDE DEF t
<1>7. t \in Seq(X) /\ Len(t) = n
  BY <1>2, <1>6
<1>8. Among(s, I) = t
  BY <1>4, <1>7, ComputedIs
<1> QED
  BY <1>2, <1>3, <1>6, <1>7, <1>8 DEF ids, n

-----------------------------------------------------------------------------
(* The tables.                                                             *)

Dense(S) == \E n \in Nat : S = 1..n

\* What the committed tables always are: ids without gaps, statuses and scores that are
\* such, and suites with seeds that are sealed if they have been used.
Good(d) ==
    /\ IsDatabase(d)
    /\ \A t \in {"challenges", "runs", "submissions", "suites"} : Dense(DOMAIN d[t])
    /\ \A r \in DOMAIN d.runs : d.runs[r].status \in RunStatuses /\ d.runs[r].score \in Int \cup {NULL}
    /\ \A u \in DOMAIN d.suites : /\ d.suites[u].seeds \in Seq(STRING) \ {<<>>}
                                  /\ d.suites[u].sealed <=> HasSuite(d, u) # {}

\* The next ids are those that follow the last one.
LEMMA DenseNext ==
    ASSUME NEW S, Dense(S)
    PROVE  /\ IsFiniteSet(S) /\ Cardinality(S) \in Nat /\ S = 1..Cardinality(S)
           /\ \A k \in Nat : LET new == Cardinality(S) + 1 .. Cardinality(S) + k IN
                 new \cap S = {} /\ Dense(S \cup new)
<1>1. PICK n \in Nat : S = 1..n
  BY DEF Dense
<1>2. IsFiniteSet(S) /\ Cardinality(S) = n
  BY <1>1, FS_Interval
<1>3. ASSUME NEW k \in Nat
      PROVE  (n + 1 .. n + k) \cap S = {} /\ S \cup (n + 1 .. n + k) = 1 .. n + k
  BY <1>1
<1> QED
  BY <1>1, <1>2, <1>3 DEF Dense

\* Every run belongs to a submission and a suite.
LEMMA RunsBelong ==
    ASSUME NEW d, IsDatabase(d), NEW r \in DOMAIN d.runs
    PROVE  d.runs[r].submission_runs \in DOMAIN d.submissions
           /\ d.runs[r].suite_runs \in DOMAIN d.suites
<1>1. LegalRow(d, "runs", r)
  BY TableNames DEF IsDatabase, Legal
<1>2. /\ {"submission_runs", "suite_runs"} \subseteq Tables["runs"].notNull
      /\ DOMAIN Tables["runs"].refs = {"submission_runs", "suite_runs"}
      /\ Tables["runs"].refs["submission_runs"] = "submissions"
      /\ Tables["runs"].refs["suite_runs"] = "suites"
  BY TableNames DEF RunsTable
<1> QED
  BY <1>1, <1>2 DEF LegalRow

\* An update of runs keeps whose they are, and what is written as a status is one.
LEMMA RunUpdateKeeps ==
    ASSUME NEW d, NEW ids, NEW m,
           Good(d), ids \subseteq DOMAIN d.runs, m.add = <<>>, RunUpdate(d, ids, m) # NULL,
           "score" \in DOMAIN m.set => m.set.score \in Int
    PROVE  LET e == RunUpdate(d, ids, m) IN
           /\ Good(e)
           /\ e.submissions = d.submissions /\ e.suites = d.suites
           /\ DOMAIN e.runs = DOMAIN d.runs
           /\ \A r \in DOMAIN d.runs : e.runs[r].submission_runs = d.runs[r].submission_runs
<1> DEFINE e == RunUpdate(d, ids, m)
<1>1. /\ IsDatabase(e)
      /\ \A t \in DOMAIN Tables \ {"runs"} : e[t] = d[t]
      /\ DOMAIN e.runs = DOMAIN d.runs
      /\ \A i \in DOMAIN d.runs \ ids : e.runs[i] = d.runs[i]
      /\ \A i \in ids : e.runs[i] = Changed(d.runs[i], m)
  BY RunUpdateOf DEF Good
<1>2. "status" \in DOMAIN m.set => m.set.status \in RunStatuses
  BY DEF RunUpdate, RunUpdateCheck
<1> HIDE DEF e
<1>3. /\ {"status", "score", "submission_runs", "suite_runs"} \subseteq RunColumns
      /\ {"submission_runs", "suite_runs"} \cap RunSettable = {}
      /\ {"status", "submission_runs", "suite_runs"} \cap RunOptional = {}
  BY TableNames DEF RunColumns, RunsTable, RunFields, RunQueueing, RunOptional, RunOutcome,
     RunText, RunClaim, RunTimes, RunSettable, RunContentSettable, RunProgressSettable
<1>4. ASSUME NEW r \in DOMAIN d.runs
      PROVE  /\ e.runs[r].status \in RunStatuses /\ e.runs[r].score \in Int \cup {NULL}
             /\ e.runs[r].submission_runs = d.runs[r].submission_runs
             /\ e.runs[r].suite_runs = d.runs[r].suite_runs
  <2>1. CASE r \notin ids
    BY <1>1, <2>1 DEF Good
  <2>2. CASE r \in ids
    <3>1. /\ Changed(d.runs[r], m).submission_runs = d.runs[r].submission_runs
          /\ Changed(d.runs[r], m).suite_runs = d.runs[r].suite_runs
      BY <1>3 DEF Changed
    <3>2. Changed(d.runs[r], m).status \in RunStatuses
      <4>1. d.runs[r].status \in RunStatuses
        BY DEF Good
      <4> QED
        BY <1>2, <1>3, <4>1 DEF Changed
    <3>3. Changed(d.runs[r], m).score \in Int \cup {NULL}
      <4>1. d.runs[r].score \in Int \cup {NULL}
        BY DEF Good
      <4> QED
        BY <1>3, <4>1 DEF Changed
    <3> QED
      BY <1>1, <2>2, <3>1, <3>2, <3>3
  <2> QED
    BY <2>1, <2>2
<1>5. e.submissions = d.submissions /\ e.suites = d.suites /\ e.challenges = d.challenges
  BY <1>1, TableNames
<1>6. \A u : HasSuite(e, u) = HasSuite(d, u)
  BY <1>1, <1>4 DEF HasSuite
<1>7. Good(e)
  BY <1>1, <1>4, <1>5, <1>6 DEF Good
<1> QED
  BY <1>1, <1>4, <1>5, <1>7 DEF e

\* What a fan-out over further suites leaves as it is.
Grown(d, e) ==
    /\ Good(e) /\ e.challenges = d.challenges /\ DOMAIN e.submissions = DOMAIN d.submissions
    /\ DOMAIN d.runs \subseteq DOMAIN e.runs
    /\ \A r \in DOMAIN d.runs : e.runs[r] = d.runs[r]
    /\ DOMAIN e.suites = DOMAIN d.suites
    /\ \A u \in DOMAIN d.suites : /\ e.suites[u].seeds = d.suites[u].seeds
                                  /\ d.suites[u].sealed => e.suites[u].sealed

\* One suite of a fan-out, which follows the suite as it was read: the suite has runs
\* then and is sealed, whether this fan-out sealed it or an earlier one.
LEMMA FanOutOf ==
    ASSUME NEW d, NEW s, NEW u \in DOMAIN db.suites, Good(d), d # NULL,
           DOMAIN d.suites = DOMAIN db.suites, d.suites[u].seeds = db.suites[u].seeds,
           db.suites[u].sealed => d.suites[u].sealed,
           FanOut(d, s, u) # NULL
    PROVE  Grown(d, FanOut(d, s, u)) /\ LoadRuns(FanOut(d, s, u), s) # {}
<1> DEFINE first == Cardinality(DOMAIN d.runs)
           seeds == db.suites[u].seeds
           ids == first + 1 .. first + Len(seeds)
           seedOf == [r \in ids |-> seeds[r - first]]
           rows == InsertRuns(d, s, u, seedOf, "now")
           e == Seal(rows, u, db.suites[u])
<1>1. FanOut(d, s, u) = e /\ DOMAIN seedOf = ids
  BY DEF FanOut
<1>2. seeds \in Seq(STRING) /\ Len(seeds) \in Nat /\ Len(seeds) > 0
  BY DEF Good
<1>3. Dense(DOMAIN d.runs)
  BY DEF Good
<1>4. /\ ids \cap DOMAIN d.runs = {} /\ Dense(DOMAIN d.runs \cup ids)
      /\ first \in Nat
  BY <1>2, <1>3, DenseNext
<1>5. first + 1 \in ids
  BY <1>2, <1>4
<1> HIDE DEF seedOf, ids, first
<1>6. rows # NULL
  BY <1>1 DEF Seal
<1>7. /\ IsDatabase(rows)
      /\ \A t \in DOMAIN Tables \ {"runs"} : rows[t] = d[t]
      /\ DOMAIN rows.runs = DOMAIN d.runs \cup ids
      /\ \A r \in DOMAIN d.runs : rows.runs[r] = d.runs[r]
      /\ \A r \in ids :
            LET v == RunSpec(RunDefaults(NewRun(s, u, seedOf[r]), "now")) IN
            rows.runs[r] = NewRow("runs", v)
  BY <1>1, <1>4, <1>6, InsertRunsOf DEF Good
<1>8. ASSUME NEW r \in ids
      PROVE  /\ rows.runs[r].status = "pending" /\ rows.runs[r].score = NULL
             /\ rows.runs[r].submission_runs = s /\ rows.runs[r].suite_runs = u
  <2> DEFINE v == RunSpec(RunDefaults(NewRun(s, u, seedOf[r]), "now"))
  <2>1. rows.runs[r] = NewRow("runs", v)
    BY <1>7
  <2>2. IsNewRow(NewRow("runs", v), s, "now")
    BY NewRunIs
  <2>3. {"submission_runs", "suite_runs"} \subseteq DOMAIN v /\ v.suite_runs = u
    BY NewRunEdges
  <2> HIDE DEF v, rows
  <2>4. "suite_runs" \in Tables["runs"].columns
    BY TableNames DEF RunsTable
  <2>5. NewRow("runs", v).suite_runs = u
    BY <2>3, <2>4 DEF NewRow
  <2>6. "score" \in RunOptional
    BY DEF RunOptional, RunOutcome
  <2> QED
    BY <2>1, <2>2, <2>5, <2>6 DEF IsNewRow
<1>9. rows.suites = d.suites /\ rows.submissions = d.submissions /\ rows.challenges = d.challenges
  BY <1>7, TableNames
<1> HIDE DEF rows
<1>10. /\ IsDatabase(e)
       /\ \A t \in DOMAIN Tables \ {"suites"} : e[t] = rows[t]
       /\ DOMAIN e.suites = DOMAIN rows.suites
       /\ \A i \in DOMAIN rows.suites :
             /\ e.suites[i].seeds = rows.suites[i].seeds
             /\ e.suites[i].sealed <=> (rows.suites[i].sealed \/ i = u)
  BY <1>1, <1>6, <1>7, <1>9, SealOf
<1> HIDE DEF e
<1>11. e.runs = rows.runs /\ e.submissions = d.submissions /\ e.challenges = d.challenges
  BY <1>9, <1>10, TableNames
<1>12. ASSUME NEW i \in DOMAIN e.suites
       PROVE  e.suites[i].sealed <=> HasSuite(e, i) # {}
  <2>1. d.suites[i].sealed <=> HasSuite(d, i) # {}
    BY <1>9, <1>10 DEF Good
  <2>2. HasSuite(e, i) = HasSuite(d, i) \cup {r \in ids : u = i}
    BY <1>7, <1>8, <1>11, <1>4 DEF HasSuite
  <2>3. HasSuite(e, i) # {} <=> HasSuite(d, i) # {} \/ i = u
    BY <1>5, <2>2
  <2> QED
    BY <1>9, <1>10, <2>1, <2>3
<1>13. \A r \in DOMAIN e.runs : e.runs[r].status \in RunStatuses /\ e.runs[r].score \in Int \cup {NULL}
  BY <1>7, <1>8, <1>11 DEF Good, RunStatuses
<1>14. Good(e)
  <2>1. \A i \in DOMAIN e.suites : e.suites[i].seeds \in Seq(STRING) \ {<<>>}
    BY <1>9, <1>10 DEF Good
  <2>2. \A t \in {"challenges", "runs", "submissions", "suites"} : Dense(DOMAIN e[t])
    <3>1. DOMAIN e["runs"] = DOMAIN d["runs"] \cup ids /\ Dense(DOMAIN d["runs"] \cup ids)
      BY <1>4, <1>7, <1>11
    <3>2. /\ DOMAIN e["challenges"] = DOMAIN d["challenges"]
          /\ DOMAIN e["submissions"] = DOMAIN d["submissions"]
          /\ DOMAIN e["suites"] = DOMAIN d["suites"]
      BY <1>9, <1>10, <1>11
    <3>3. \A t \in {"challenges", "submissions", "suites"} : Dense(DOMAIN d[t])
      BY DEF Good
    <3> QED
      BY <3>1, <3>2, <3>3
  <2> QED
    BY <1>10, <1>12, <1>13, <2>1, <2>2 DEF Good
<1>15. Grown(d, e)
  BY <1>7, <1>9, <1>10, <1>11, <1>14 DEF Grown
<1>16. LoadRuns(e, s) # {}
  BY <1>5, <1>7, <1>8, <1>11 DEF LoadRuns
<1> QED
  BY <1>1, <1>15, <1>16

\* A fan-out over several suites goes from one to the next in their order.
Steps(a, d, s, f, n) ==
    /\ a[0] = d
    /\ \A k \in 1..n : a[k] = FanOut(a[k - 1], s, f[k])

\* One step of the fold: the suites with the numbers in S, the last one last.
FanOutStep(d, s, f, g, S) ==
    IF S = {} THEN d ELSE FanOut(g[S \ {Max(S)}], s, f[Max(S)])

\* The recursion that folds a fan-out over numbered suites has a solution.
LEMMA FoldExists ==
    ASSUME NEW D, IsFiniteSet(D), NEW d, NEW s, NEW f, D \subseteq Int
    PROVE  \E g : g = [S \in SUBSET D |-> FanOutStep(d, s, f, g, S)]
<1> DEFINE Upto(n, g) == g = [S \in SUBSET D |-> IF Cardinality(S) <= n
                                                 THEN FanOutStep(d, s, f, g, S) ELSE d]
           N == {n \in Nat : \E g : Upto(n, g)}
<1>0. \A S \in SUBSET D : IsFiniteSet(S) /\ Cardinality(S) \in Nat
  BY FS_Subset, FS_CardinalityType
<1>1. \A S \in SUBSET D : S # {} => Max(S) \in S
  <2> SUFFICES ASSUME NEW S \in SUBSET D, S # {} PROVE Max(S) \in S
    OBVIOUS
  <2>1. \E m \in S : \A x \in S : x <= m
    BY <1>0, GreatestElement
  <2>2. \E m \in S : \A x \in S : m >= x
    BY <2>1
  <2> QED
    BY <2>2 DEF Max
<1>2. 0 \in N
  <2> DEFINE g == [S \in SUBSET D |-> d]
  <2>1. ASSUME NEW S \in SUBSET D, Cardinality(S) <= 0 PROVE FanOutStep(d, s, f, g, S) = d
    <3>1. S = {}
      BY <1>0, <2>1, FS_EmptySet
    <3> QED
      BY <3>1 DEF FanOutStep
  <2>2. Upto(0, g)
    BY <2>1
  <2> QED
    BY <2>2
<1>3. ASSUME NEW n \in N PROVE n + 1 \in N
  <2>1. PICK g : Upto(n, g)
    OBVIOUS
  <2> DEFINE h == [S \in SUBSET D |-> IF Cardinality(S) <= n + 1
                                      THEN FanOutStep(d, s, f, g, S) ELSE d]
  <2>2. ASSUME NEW S \in SUBSET D, Cardinality(S) <= n PROVE h[S] = g[S]
    BY <1>0, <2>1, <2>2
  <2>3. ASSUME NEW S \in SUBSET D, Cardinality(S) <= n + 1
        PROVE  FanOutStep(d, s, f, g, S) = FanOutStep(d, s, f, h, S)
    <3>1. CASE S = {}
      BY <3>1 DEF FanOutStep
    <3>2. CASE S # {}
      <4>1. Cardinality(S \ {Max(S)}) = Cardinality(S) - 1
        BY <1>0, <1>1, <3>2, FS_RemoveElement
      <4>2. Cardinality(S \ {Max(S)}) <= n
        BY <1>0, <2>3, <4>1
      <4>3. h[S \ {Max(S)}] = g[S \ {Max(S)}]
        BY <2>2, <4>2
      <4> QED
        BY <4>3 DEF FanOutStep
    <3> QED
      BY <3>1, <3>2
  <2>4. Upto(n + 1, h)
    BY <2>3
  <2> HIDE DEF h
  <2> QED
    BY <2>4
<1>4. N = Nat
  <2> HIDE DEF N
  <2> QED
    BY <1>2, <1>3, NumbersInduct, N \subseteq Nat DEF N
<1>5. Cardinality(D) \in N
  BY <1>0, <1>4
<1>6. PICK g : Upto(Cardinality(D), g)
  BY <1>5
<1>7. \A S \in SUBSET D : Cardinality(S) <= Cardinality(D)
  BY FS_Subset
<1>8. g = [S \in SUBSET D |-> FanOutStep(d, s, f, g, S)]
  BY <1>6, <1>7
<1> QED
  BY <1>8

\* What FanOutOver computes, as a sequence of databases.
LEMMA FanOutSteps ==
    ASSUME NEW d, NEW s, NEW U \in SUBSET Int, IsFiniteSet(U)
    PROVE  \E a : /\ Steps(a, d, s, ByID(U), Cardinality(U))
                  /\ FanOutOver(d, s, U) = a[Cardinality(U)]
<1> DEFINE f == ByID(U)
           n == Cardinality(U)
           g == CHOOSE g : g = [S \in SUBSET DOMAIN f |-> FanOutStep(d, s, f, g, S)]
           a == [k \in 0..n |-> g[1..k]]
<1>1. DOMAIN f = 1..n /\ n \in Nat
  BY ByIDOf, FS_CardinalityType
<1>2. FanOutOver(d, s, U) = g[DOMAIN f]
  BY DEF FanOutOver, FoldLeft, MapThenFoldSet, FanOutStep
<1>3. g = [S \in SUBSET DOMAIN f |-> FanOutStep(d, s, f, g, S)]
  <2>1. IsFiniteSet(DOMAIN f) /\ DOMAIN f \subseteq Int
    BY <1>1, FS_Interval
  <2> HIDE DEF f
  <2> QED
    BY <2>1, FoldExists
<1> HIDE DEF g, f, n
<1>4. \A k \in 0..n : a[k] = FanOutStep(d, s, f, g, 1..k)
  <2>1. \A k \in 0..n : 1..k \in SUBSET DOMAIN f
    BY <1>1
  <2> QED
    BY <1>3, <2>1
<1>5. a[0] = d
  <2>1. 1..0 = {} /\ 0 \in 0..n
    BY <1>1
  <2> QED
    BY <1>4, <2>1 DEF FanOutStep
<1>6. ASSUME NEW k \in 1..n PROVE a[k] = FanOut(a[k - 1], s, f[k])
  <2>1. k \in Int /\ k \in 1..k /\ 1..k # {} /\ \A x \in 1..k : k >= x
    <3>1. k \in Int /\ k >= 1
      BY <1>1
    <3>2. k \in 1..k /\ \A x \in 1..k : k >= x
      BY <3>1
    <3> QED
      BY <3>1, <3>2
  <2>2. Max(1..k) = k
    BY <2>1 DEF Max
  <2>3. (1..k) \ {k} = 1 .. k - 1 /\ k - 1 \in 0..n /\ k \in 0..n
    BY <1>1
  <2>4. a[k] = FanOut(g[(1..k) \ {Max(1..k)}], s, f[Max(1..k)])
    BY <1>4, <2>1, <2>3 DEF FanOutStep
  <2> QED
    BY <2>2, <2>3, <2>4
<1>7. FanOutOver(d, s, U) = a[n]
  BY <1>1, <1>2
<1> QED
  BY <1>5, <1>6, <1>7 DEF Steps, f, n

\* A fan-out that succeeds leaves the tables good and has given the submission runs.
LEMMA FanOutOverOf ==
    ASSUME NEW d, NEW s, NEW U \in SUBSET DOMAIN db.suites, Good(db), Good(d),
           d.suites = db.suites, U # {}, FanOutOver(d, s, U) # NULL
    PROVE  Grown(d, FanOutOver(d, s, U)) /\ LoadRuns(FanOutOver(d, s, U), s) # {}
<1> DEFINE f == ByID(U)
           n == Cardinality(U)
<1>1. U \in SUBSET Int /\ IsFiniteSet(U) /\ n \in Nat /\ n # 0
  <2>1. Dense(DOMAIN db.suites)
    BY DEF Good
  <2>2. IsFiniteSet(DOMAIN db.suites) /\ DOMAIN db.suites \subseteq Int
    BY <2>1, DenseNext DEF Dense
  <2>3. IsFiniteSet(U) /\ n \in Nat
    BY <2>2, FS_Subset, FS_CardinalityType
  <2> QED
    BY <2>2, <2>3, FS_EmptySet
<1>2. PICK a : Steps(a, d, s, f, n) /\ FanOutOver(d, s, U) = a[n]
  BY <1>1, FanOutSteps
<1>3. f \in [1..n -> U]
  BY <1>1, ByIDOf
<1> HIDE DEF f, n
<1>4. \A k \in 1..n : a[k - 1] = NULL => a[k] = NULL
  <2> SUFFICES ASSUME NEW k \in 1..n, a[k - 1] = NULL PROVE a[k] = NULL
    OBVIOUS
  <2>1. a[k] = FanOut(NULL, s, f[k])
    BY <1>2 DEF Steps
  <2> QED
    BY <2>1 DEF FanOut, InsertRuns, Seal
<1>5. \A k \in 0..n : a[k] # NULL
  <2> DEFINE N == {k \in Nat : k <= n => a[n - k] # NULL}
  <2>1. 0 \in N
    BY <1>1, <1>2
  <2>2. ASSUME NEW k \in N PROVE k + 1 \in N
    <3> SUFFICES ASSUME k + 1 <= n PROVE a[n - (k + 1)] # NULL
      OBVIOUS
    <3>1. n - k \in 1..n /\ (n - k) - 1 = n - (k + 1) /\ a[n - k] # NULL
      BY <1>1
    <3> QED
      BY <1>4, <3>1
  <2>3. N = Nat
    <3> HIDE DEF N
    <3> QED
      BY <2>1, <2>2, NumbersInduct, N \subseteq Nat DEF N
  <2> SUFFICES ASSUME NEW k \in 0..n PROVE a[k] # NULL
    OBVIOUS
  <2>4. n - k \in Nat /\ n - k <= n /\ n - (n - k) = k
    BY <1>1
  <2>5. n - k \in N
    BY <2>3, <2>4
  <2> QED
    BY <2>4, <2>5
<1>6. Grown(d, d)
  BY DEF Grown
<1>7. ASSUME NEW k \in 1..n, Grown(d, a[k - 1])
      PROVE  Grown(d, a[k]) /\ LoadRuns(a[k], s) # {}
  <2> DEFINE e == a[k - 1]
             u == f[k]
  <2>1. a[k] = FanOut(e, s, u) /\ u \in U /\ u \in DOMAIN db.suites
    BY <1>2, <1>3 DEF Steps
  <2>2. e # NULL /\ a[k] # NULL
    BY <1>1, <1>5
  <2> HIDE DEF e, u
  <2>3. /\ Good(e) /\ DOMAIN e.suites = DOMAIN db.suites
        /\ e.suites[u].seeds = db.suites[u].seeds
        /\ db.suites[u].sealed => e.suites[u].sealed
    BY <1>7, <2>1 DEF Grown, e
  <2>4. Grown(e, a[k]) /\ LoadRuns(a[k], s) # {}
    BY <2>1, <2>2, <2>3, FanOutOf
  <2>5. Grown(d, a[k])
    BY <1>7, <2>4 DEF Grown, e
  <2> QED
    BY <2>4, <2>5
<1>8. ASSUME NEW k \in 0..n PROVE Grown(d, a[k])
  <2> DEFINE N == {j \in Nat : j <= n => Grown(d, a[j])}
  <2>1. 0 \in N
    BY <1>2, <1>6 DEF Steps
  <2>2. ASSUME NEW j \in N PROVE j + 1 \in N
    <3> SUFFICES ASSUME j + 1 <= n PROVE Grown(d, a[j + 1])
      OBVIOUS
    <3>1. j + 1 \in 1..n /\ (j + 1) - 1 = j /\ Grown(d, a[j])
      BY <1>1
    <3> QED
      BY <1>7, <3>1
  <2>3. N = Nat
    <3> HIDE DEF N
    <3> QED
      BY <2>1, <2>2, NumbersInduct, N \subseteq Nat DEF N
  <2> QED
    BY <1>1, <2>3
<1>9. n \in 1..n /\ n - 1 \in 0..n
  BY <1>1
<1> QED
  BY <1>2, <1>7, <1>8, <1>9

\* A fan-out after a refused statement is refused.
LEMMA FanOutOverNull ==
    ASSUME NEW s, NEW U \in SUBSET Int, IsFiniteSet(U)
    PROVE  FanOutOver(NULL, s, U) = NULL
<1> DEFINE n == Cardinality(U)
<1>1. PICK a : Steps(a, NULL, s, ByID(U), n) /\ FanOutOver(NULL, s, U) = a[n]
  BY FanOutSteps
<1>2. n \in Nat
  BY FS_CardinalityType
<1> HIDE DEF n
<1> DEFINE N == {k \in Nat : k <= n => a[k] = NULL}
<1>3. 0 \in N
  BY <1>1 DEF Steps
<1>4. ASSUME NEW k \in N PROVE k + 1 \in N
  <2> SUFFICES ASSUME k + 1 <= n PROVE a[k + 1] = NULL
    OBVIOUS
  <2>1. k + 1 \in 1..n /\ (k + 1) - 1 = k /\ a[k] = NULL
    BY <1>2
  <2>2. a[k + 1] = FanOut(NULL, s, ByID(U)[k + 1])
    BY <1>1, <2>1 DEF Steps
  <2> QED
    BY <2>2 DEF FanOut, InsertRuns, Seal
<1>5. N = Nat
  <2> HIDE DEF N
  <2> QED
    BY <1>3, <1>4, NumbersInduct, N \subseteq Nat DEF N
<1>6. a[n] = NULL
  BY <1>2, <1>5
<1> QED
  BY <1>1, <1>6

-----------------------------------------------------------------------------
(* The inductive invariant.                                                *)

\* Besides, every submission has runs.
Fine(d) == Good(d) /\ \A s \in DOMAIN d.submissions : LoadRuns(d, s) # {}

\* What a reader has kept of its first statement stays true in one direction: rows are
\* never deleted.
QueueRead(v, d) ==
    /\ v = [u \in DOMAIN v |-> v[u]] /\ DOMAIN v \subseteq DOMAIN d.suites
    /\ \A u \in DOMAIN v : v[u] \in Nat \ {0}
ListingRead(v, d) == DOMAIN v \subseteq DOMAIN d.submissions

CallOK(k, d) ==
    \/ k = Idle
    \/ k = [op |-> "register", seen |-> <<>>]
    \/ k = [op |-> "queue", seen |-> <<k.seen[1]>>] /\ QueueRead(k.seen[1], d)
    \/ k = [op |-> "listing", seen |-> <<k.seen[1]>>] /\ ListingRead(k.seen[1], d)

ConsoleInv ==
    /\ Fine(db)
    /\ DOMAIN calls = Call /\ calls = [c \in Call |-> calls[c]]
    /\ \A c \in Call : CallOK(calls[c], db)

Later(d, e) ==
    /\ Fine(e) /\ DOMAIN d.submissions \subseteq DOMAIN e.submissions
    /\ DOMAIN d.suites \subseteq DOMAIN e.suites

\* A commit leaves the calls under way as they should be.
LEMMA CallsKeep ==
    ASSUME NEW d, NEW e, Later(d, e), NEW k, CallOK(k, d)
    PROVE  CallOK(k, e)
  BY DEF CallOK, Later, QueueRead, ListingRead

\* It starts so.
LEMMA ConsoleStarts == Init => ConsoleInv
<1> SUFFICES ASSUME Init PROVE ConsoleInv
  OBVIOUS
<1>1. DOMAIN db = DOMAIN Tables /\ \A t \in DOMAIN Tables : DOMAIN db[t] = {}
  BY DEF Init, EmptyDatabase
<1>2. IsDatabase(db)
  BY <1>1 DEF IsDatabase, Legal
<1>3. Dense({})
  <2>1. {} = 1..0
    OBVIOUS
  <2> QED
    BY <2>1 DEF Dense
<1>4. Good(db) /\ Fine(db)
  BY <1>1, <1>2, <1>3, TableNames DEF Good, Fine
<1> QED
  BY <1>4 DEF ConsoleInv, Init, CallOK

\* A new suite has seeds and no runs.
LEMMA SuiteLater ==
    ASSUME NEW d, NEW m, Fine(d), "seeds" \in DOMAIN m.set, "sealed" \notin DOMAIN m.set,
           m.set.seeds \in Seq(STRING) \ {<<>>},
           SuiteCreate(d, Cardinality(DOMAIN d.suites) + 1, m, "now") # NULL
    PROVE  Later(d, SuiteCreate(d, Cardinality(DOMAIN d.suites) + 1, m, "now"))
<1> DEFINE n == Cardinality(DOMAIN d.suites)
           id == n + 1
           e == SuiteCreate(d, id, m, "now")
<1>1. Dense(DOMAIN d.suites) /\ IsDatabase(d)
  BY DEF Fine, Good
<1>2. n \in Nat /\ (n + 1 .. n + 1) \cap DOMAIN d.suites = {}
      /\ Dense(DOMAIN d.suites \cup (n + 1 .. n + 1))
  BY <1>1, DenseNext
<1>3. n + 1 .. n + 1 = {id}
  BY <1>2
<1>4. id \notin DOMAIN d.suites /\ Dense(DOMAIN d.suites \cup {id})
  BY <1>2, <1>3
<1> HIDE DEF id, n
<1>5. /\ IsDatabase(e)
      /\ \A t \in DOMAIN Tables \ {"suites"} : e[t] = d[t]
      /\ DOMAIN e.suites = DOMAIN d.suites \cup {id}
      /\ \A u \in DOMAIN d.suites : e.suites[u] = d.suites[u]
      /\ e.suites[id].seeds = m.set.seeds /\ ~e.suites[id].sealed
  BY <1>1, <1>4, SuiteCreateOf DEF id, n
<1> HIDE DEF e
<1>6. e.runs = d.runs /\ e.submissions = d.submissions /\ e.challenges = d.challenges
  BY <1>5, TableNames
<1>7. HasSuite(e, id) = {} /\ \A u : HasSuite(e, u) = HasSuite(d, u)
  BY <1>1, <1>4, <1>6, RunsBelong DEF HasSuite
<1>8. Good(e)
  <2>1. \A t \in {"challenges", "runs", "submissions", "suites"} : Dense(DOMAIN e[t])
    BY <1>4, <1>5, <1>6 DEF Fine, Good
  <2>2. \A u \in DOMAIN e.suites : /\ e.suites[u].seeds \in Seq(STRING) \ {<<>>}
                                   /\ e.suites[u].sealed <=> HasSuite(e, u) # {}
    BY <1>5, <1>7 DEF Fine, Good
  <2> QED
    BY <1>5, <1>6, <2>1, <2>2 DEF Fine, Good
<1> QED
  BY <1>5, <1>6, <1>8 DEF Later, Fine, LoadRuns, e, id, n

\* A change of runs.
LEMMA RunsLater ==
    ASSUME NEW d, NEW ids, NEW m,
           Fine(d), ids \subseteq DOMAIN d.runs, m.add = <<>>, RunUpdate(d, ids, m) # NULL,
           "score" \in DOMAIN m.set => m.set.score \in Int
    PROVE  Later(d, RunUpdate(d, ids, m))
<1> DEFINE e == RunUpdate(d, ids, m)
<1>1. /\ Good(e)
      /\ e.submissions = d.submissions /\ e.suites = d.suites
      /\ DOMAIN e.runs = DOMAIN d.runs
      /\ \A r \in DOMAIN d.runs : e.runs[r].submission_runs = d.runs[r].submission_runs
  BY RunUpdateKeeps DEF Fine
<1> HIDE DEF e
<1>2. \A s : LoadRuns(e, s) = LoadRuns(d, s)
  BY <1>1 DEF LoadRuns
<1>3. Later(d, e)
  BY <1>1, <1>2 DEF Later, Fine
<1> QED
  BY <1>3 DEF e

\* Runs that are added.
LEMMA GrownLater ==
    ASSUME NEW d, NEW e, Fine(d), Grown(d, e)
    PROVE  Later(d, e)
<1>1. \A s : LoadRuns(d, s) \subseteq LoadRuns(e, s)
  BY DEF LoadRuns, Grown
<1> QED
  BY <1>1 DEF Later, Grown, Fine

\* A registration that was not refused.
LEMMA ChallengeLater ==
    ASSUME NEW d, NEW m, Fine(d),
           ChallengeCreate(d, Cardinality(DOMAIN d.challenges) + 1, m, "now") # NULL
    PROVE  Later(d, ChallengeCreate(d, Cardinality(DOMAIN d.challenges) + 1, m, "now"))
<1> DEFINE n == Cardinality(DOMAIN d.challenges)
           id == n + 1
           e == ChallengeCreate(d, id, m, "now")
<1>1. Dense(DOMAIN d.challenges) /\ IsDatabase(d)
  BY DEF Fine, Good
<1>2. n \in Nat /\ Dense(DOMAIN d.challenges \cup (n + 1 .. n + 1))
  BY <1>1, DenseNext
<1>3. n + 1 .. n + 1 = {id}
  BY <1>2
<1>4. Dense(DOMAIN d.challenges \cup {id})
  BY <1>2, <1>3
<1> HIDE DEF id, n
<1>5. /\ IsDatabase(e)
      /\ \A t \in DOMAIN Tables \ {"challenges"} : e[t] = d[t]
      /\ DOMAIN e.challenges = DOMAIN d.challenges \cup {id}
  BY <1>1, ChallengeCreateOf DEF id, n
<1> HIDE DEF e
<1>6. e.runs = d.runs /\ e.submissions = d.submissions /\ e.suites = d.suites
  BY <1>5, TableNames
<1>7. Good(e)
  <2>1. \A t \in {"challenges", "runs", "submissions", "suites"} : Dense(DOMAIN e[t])
    BY <1>4, <1>5, <1>6 DEF Fine, Good
  <2>2. \A u : HasSuite(e, u) = HasSuite(d, u)
    BY <1>6 DEF HasSuite
  <2> QED
    BY <1>5, <1>6, <2>1, <2>2 DEF Fine, Good
<1> QED
  BY <1>6, <1>7 DEF Later, Fine, LoadRuns, e, id, n

\* A submission inserted; it has no runs yet, which is why the fan-out that follows is
\* in the same transaction.
LEMMA SubmissionGood ==
    ASSUME NEW d, NEW m, Good(d),
           SubmissionCreate(d, Cardinality(DOMAIN d.submissions) + 1, m, "now") # NULL
    PROVE  LET id == Cardinality(DOMAIN d.submissions) + 1
               e == SubmissionCreate(d, id, m, "now")
           IN /\ Good(e) /\ e.runs = d.runs /\ e.suites = d.suites
              /\ DOMAIN e.submissions = DOMAIN d.submissions \cup {id}
<1> DEFINE n == Cardinality(DOMAIN d.submissions)
           id == n + 1
           e == SubmissionCreate(d, id, m, "now")
<1>1. Dense(DOMAIN d.submissions) /\ IsDatabase(d)
  BY DEF Good
<1>2. n \in Nat /\ Dense(DOMAIN d.submissions \cup (n + 1 .. n + 1))
  BY <1>1, DenseNext
<1>3. n + 1 .. n + 1 = {id}
  BY <1>2
<1>4. Dense(DOMAIN d.submissions \cup {id})
  BY <1>2, <1>3
<1> HIDE DEF id, n
<1>5. IsDatabase(e) /\ DOMAIN e.submissions = DOMAIN d.submissions \cup {id}
  BY <1>1, SubmissionCreateOf DEF id, n
<1>6. e.runs = d.runs /\ e.suites = d.suites /\ e.challenges = d.challenges
  BY <1>1, SubmissionCreateOf DEF id, n
<1> HIDE DEF e
<1>7. Good(e)
  <2>1. \A t \in {"challenges", "runs", "submissions", "suites"} : Dense(DOMAIN e[t])
    BY <1>4, <1>5, <1>6 DEF Good
  <2>2. \A u : HasSuite(e, u) = HasSuite(d, u)
    BY <1>6 DEF HasSuite
  <2> QED
    BY <1>5, <1>6, <2>1, <2>2 DEF Good
<1> QED
  BY <1>5, <1>6, <1>7 DEF e, id, n

-----------------------------------------------------------------------------
(* The actions that commit.                                                *)

\* A create of a suite only adds: the suite, sealed by no submission, and its seeds.
LEMMA CreateSuiteLater ==
    ASSUME Fine(db), NEW k \in DOMAIN db.challenges, NEW body \in Bodies, CreateSuite(k, body)
    PROVE  Later(db, db') /\ calls' = calls
<1> DEFINE m == Linking(Setting(NoChange, SuiteRequest(body)), [challenge |-> k])
<1>1. m.set = SuiteRequest(body)
  <2> DEFINE x == SuiteRequest(body)
             e == [challenge |-> k]
  <2>1. x = [c \in DOMAIN x |-> x[c]]
    <3> DEFINE t == IF body.timeout_seconds = 0 THEN 3600 ELSE body.timeout_seconds
               y == [name |-> body.name, description |-> "", seeds |-> body.seeds,
                     timeout_seconds |-> t]
    <3>1. x = y
      BY DEF SuiteRequest
    <3>2. y = [c \in DOMAIN y |-> y[c]]
      <4> HIDE DEF t
      <4> QED
        OBVIOUS
    <3> HIDE DEF x, y
    <3> QED
      BY <3>1, <3>2
  <2>2. e = [c \in DOMAIN e |-> e[c]]
    OBVIOUS
  <2> HIDE DEF x, e
  <2>3. Linking(Setting(NoChange, x), e).set = x
    BY <2>1, <2>2, LinkingOf
  <2> QED
    BY <2>3 DEF x, e
<1>2. /\ DOMAIN m.set = {"name", "description", "seeds", "timeout_seconds"}
      /\ m.set.seeds = body.seeds
  <2> HIDE DEF m
  <2>1. /\ DOMAIN SuiteRequest(body) = {"name", "description", "seeds", "timeout_seconds"}
        /\ SuiteRequest(body).seeds = body.seeds
    BY DEF SuiteRequest
  <2> QED
    BY <1>1, <2>1
<1>3. body.seeds \in Seq(STRING) \ {<<>>}
  BY SeedListsAssumption DEF CreateSuite, Bodies
<1> HIDE DEF m
<1>4. /\ SuiteCreate(db, Cardinality(DOMAIN db.suites) + 1, m, "now") # NULL
      /\ db' = SuiteCreate(db, Cardinality(DOMAIN db.suites) + 1, m, "now")
      /\ calls' = calls
  BY DEF CreateSuite, Commit, NextID, m
<1> QED
  BY <1>2, <1>3, <1>4, SuiteLater

\* So does a clone, with the seeds of the suite it copies.
LEMMA CloneSuiteLater ==
    ASSUME Fine(db), NEW u \in DOMAIN db.suites, CloneSuite(u)
    PROVE  Later(db, db') /\ calls' = calls
<1> DEFINE src == SuiteWithChallenge(db, u)
           m == Linking(Setting(NoChange, CloneRequest(src)),
                        [challenge |-> db.suites[u].challenge_suites, parent |-> u])
<1>1. m.set = CloneRequest(src)
  <2> DEFINE x == CloneRequest(src)
             e == [challenge |-> db.suites[u].challenge_suites, parent |-> u]
  <2>1. x = [c \in DOMAIN x |-> x[c]]
    BY DEF CloneRequest, ++
  <2>2. e = [c \in DOMAIN e |-> e[c]]
    OBVIOUS
  <2> HIDE DEF x, e
  <2>3. Linking(Setting(NoChange, x), e).set = x
    BY <2>1, <2>2, LinkingOf
  <2> QED
    BY <2>3 DEF x, e
<1>2. "seeds" \in SuiteFields /\ "seeds" \notin SuiteNaming
  BY DEF SuiteFields, SuiteInputs, SuiteNaming
<1>3. src.seeds = db.suites[u].seeds
  BY <1>2 DEF SuiteWithChallenge, SuiteScan, Scan, ++
<1> HIDE DEF src
<1>4. /\ DOMAIN CloneRequest(src) = {"description", "seeds", "timeout_seconds", "name"}
      /\ CloneRequest(src).seeds = src.seeds
  BY DEF CloneRequest, ++
<1>5. src.seeds \in Seq(STRING) \ {<<>>}
  BY <1>3 DEF Fine, Good
<1>6. /\ SuiteCreate(db, Cardinality(DOMAIN db.suites) + 1, m, "now") # NULL
      /\ db' = SuiteCreate(db, Cardinality(DOMAIN db.suites) + 1, m, "now")
      /\ calls' = calls
  BY DEF CloneSuite, Commit, NextID, src
<1> HIDE DEF m
<1> QED
  BY <1>1, <1>4, <1>5, <1>6, SuiteLater

\* A submission adds itself and its pending runs, and seals the suites they are of.
LEMMA CreateSubmissionLater ==
    ASSUME Fine(db), NEW U \in SUBSET DOMAIN db.suites, CreateSubmission(U)
    PROVE  Later(db, db') /\ calls' = calls
<1> DEFINE s == Cardinality(DOMAIN db.submissions) + 1
           d == SubmissionCreate(db, s, UploadedArtifact, "now")
           e == FanOutOver(d, s, U)
<1>1. e # NULL /\ db' = e /\ calls' = calls /\ U # {}
  BY DEF CreateSubmission, Commit, NextID
<1>2. U \in SUBSET Int /\ IsFiniteSet(U)
  <2>1. Dense(DOMAIN db.suites)
    BY DEF Fine, Good
  <2>2. IsFiniteSet(DOMAIN db.suites) /\ DOMAIN db.suites \subseteq Int
    BY <2>1, DenseNext DEF Dense
  <2> QED
    BY <2>2, FS_Subset
<1>3. d # NULL
  BY <1>1, <1>2, FanOutOverNull
<1>4. /\ Good(d) /\ d.runs = db.runs /\ d.suites = db.suites
      /\ DOMAIN d.submissions = DOMAIN db.submissions \cup {s}
  BY <1>3, SubmissionGood DEF Fine
<1> HIDE DEF d, s
<1>5. Grown(d, e) /\ LoadRuns(e, s) # {}
  BY <1>1, <1>4, FanOutOverOf DEF Fine
<1> HIDE DEF e
<1>6. \A x : LoadRuns(db, x) \subseteq LoadRuns(e, x)
  BY <1>4, <1>5 DEF LoadRuns, Grown
<1>7. Later(db, e)
  BY <1>4, <1>5, <1>6 DEF Later, Grown, Fine
<1> QED
  BY <1>1, <1>7

\* A re-evaluation adds pending runs and seals their suites.
LEMMA ReevaluateLater ==
    ASSUME Fine(db), NEW s \in DOMAIN db.submissions, NEW U \in SUBSET DOMAIN db.suites,
           Reevaluate(s, U)
    PROVE  Later(db, db') /\ calls' = calls
<1>1. /\ FanOutOver(db, s, U) # NULL /\ db' = FanOutOver(db, s, U) /\ calls' = calls
      /\ U # {}
  BY DEF Reevaluate, Commit
<1>2. Grown(db, FanOutOver(db, s, U))
  BY <1>1, FanOutOverOf DEF Fine
<1> QED
  BY <1>1, <1>2, GrownLater

\* Of the handlers' changes of runs only a result sets a score: the one that was posted.
LEMMA ResultChanges ==
    ASSUME NEW b
    PROVE  /\ ResultChange(b).add = <<>>
           /\ "score" \in DOMAIN ResultChange(b).set =>
                 b.score # NoScore /\ ResultChange(b).set.score = b.score
<1> DEFINE given(present, columns) == IF present THEN columns ELSE <<>>
           base == [status |-> b.status, finished_at |-> "now"]
           score == given(b.score # NoScore, [score |-> b.score, result |-> "json"])
           error == given(b.error, [error |-> "text"])
           started == given(b.started, [started_at |-> "now"])
           logs == given(b.logs, [stdout |-> "text", stderr |-> "text"])
<1>1. /\ ResultChange(b).set = base ++ score ++ error ++ started ++ logs
      /\ ResultChange(b).add = <<>>
  BY ResultChangeIs
<1>2. "score" \notin DOMAIN base /\ "score" \notin DOMAIN error
      /\ "score" \notin DOMAIN started /\ "score" \notin DOMAIN logs
  OBVIOUS
<1>3. "score" \in DOMAIN score => b.score # NoScore /\ score["score"] = b.score
  OBVIOUS
<1> HIDE DEF base, score, error, started, logs
<1> QED
  BY <1>1, <1>2, <1>3 DEF ++

\* What a claim, a cancel and a retry write names no score and adds no edge.
LEMMA OtherChanges ==
    /\ \A w : ClaimChange(w).add = <<>> /\ "score" \notin DOMAIN ClaimChange(w).set
    /\ CancelChange.add = <<>> /\ "score" \notin DOMAIN CancelChange.set
    /\ RetryChange.add = <<>> /\ "score" \notin DOMAIN RetryChange.set
<1>1. ASSUME NEW w
      PROVE  ClaimChange(w).add = <<>> /\ "score" \notin DOMAIN ClaimChange(w).set
  <2>1. /\ ClaimChange(w).add = <<>>
        /\ DOMAIN ClaimChange(w).set = {"status", "worker_id", "claimed_at"}
    BY ClaimChangeIs
  <2> QED
    BY <2>1
<1>2. CancelChange.add = <<>> /\ "score" \notin DOMAIN CancelChange.set
  BY CancelChangeIs
<1>3. RetryChange.add = <<>> /\ "score" \notin DOMAIN RetryChange.set
  BY RetryChangeIs
<1> QED
  BY <1>1, <1>2, <1>3

\* A claim and the result after it write run rows only.
LEMMA JudgeLater ==
    ASSUME Fine(db), NEW r \in DOMAIN db.runs, NEW b \in Posted, Judge(r, b)
    PROVE  Later(db, db') /\ calls' = calls
<1> DEFINE d == RunUpdateOne(db, r, ClaimChange("worker"))
<1>1. /\ d # NULL /\ calls' = calls
      /\ RunUpdateOne(d, r, ResultChange(b)) # NULL
      /\ db' = RunUpdateOne(d, r, ResultChange(b))
  BY DEF Judge, Commit
<1>2. d = RunUpdate(db, {r}, ClaimChange("worker"))
  BY DEF RunUpdateOne
<1>3. Later(db, d)
  BY <1>1, <1>2, OtherChanges, RunsLater
<1> HIDE DEF d
<1>4. r \in DOMAIN d.runs /\ db' = RunUpdate(d, {r}, ResultChange(b))
  BY <1>1 DEF RunUpdateOne
<1>5. Later(d, db')
  <2>1. /\ Fine(d) /\ {r} \subseteq DOMAIN d.runs
        /\ RunUpdate(d, {r}, ResultChange(b)) # NULL
    BY <1>1, <1>3, <1>4 DEF Later
  <2>2. "score" \in DOMAIN ResultChange(b).set => ResultChange(b).set.score \in Int
    BY ResultChanges, PostedAssumption
  <2>3. Later(d, RunUpdate(d, {r}, ResultChange(b)))
    BY <2>1, <2>2, ResultChanges, RunsLater
  <2> QED
    BY <1>4, <2>3
<1> QED
  BY <1>1, <1>3, <1>5 DEF Later

\* A cancel writes run rows only.
LEMMA CancelLater ==
    ASSUME Fine(db), NEW s, Cancel(s)
    PROVE  Later(db, db') /\ calls' = calls
<1>1. Cancellable(db, s) \subseteq DOMAIN db.runs
  BY DEF Cancellable, HasSubmission, LoadRuns
<1> QED
  BY <1>1, OtherChanges, RunsLater DEF Cancel, Commit

\* A retry writes run rows only.
LEMMA RetryLater ==
    ASSUME Fine(db), NEW s, Retry(s)
    PROVE  Later(db, db') /\ calls' = calls
<1>1. Retryable(db, s) \subseteq DOMAIN db.runs
  BY DEF Retryable, HasSubmission, LoadRuns
<1> QED
  BY <1>1, OtherChanges, RunsLater DEF Retry, Commit

-----------------------------------------------------------------------------
(* The calls.                                                              *)

\* What the statements of a reader return.
LEMMA Results ==
    /\ Result("in_flight") =
          [u \in {db.runs[r].suite_runs : r \in StatusIn(db, InFlight)} |->
              Cardinality(OfSuite(u) \cap StatusIn(db, InFlight))]
    /\ Result("suites") =
          [u \in DOMAIN db.suites |-> OfSuite(u) \cap StatusIn(db, {"succeeded"}) # {}]
    /\ Result("submissions") = AllSubmissions(db)
    /\ Result("counts") =
          [s \in {db.runs[r].submission_runs : r \in DOMAIN db.runs} |->
              Counts([r \in LoadRuns(db, s) |-> RunScan(db.runs[r])])]
  BY DEF Result

\* The first statement of the queue counts at least one run of each suite it names, of
\* the listing it names every submission.
LEMMA FirstResults ==
    ASSUME Fine(db)
    PROVE  QueueRead(Result("in_flight"), db) /\ ListingRead(Result("submissions"), db)
<1> DEFINE v == Result("in_flight")
           busy == StatusIn(db, InFlight)
<1>1. v = [u \in {db.runs[r].suite_runs : r \in busy} |-> Cardinality(OfSuite(u) \cap busy)]
  BY Results
<1>2. busy \subseteq DOMAIN db.runs /\ IsFiniteSet(DOMAIN db.runs) /\ IsDatabase(db)
  <2>1. Dense(DOMAIN db.runs) /\ IsDatabase(db)
    BY DEF Fine, Good
  <2> QED
    BY <2>1, DenseNext DEF StatusIn
<1> HIDE DEF busy
<1>3. \A r \in busy : db.runs[r].suite_runs \in DOMAIN db.suites
  BY <1>2, RunsBelong
<1>4. ASSUME NEW r \in busy
      PROVE  Cardinality(OfSuite(db.runs[r].suite_runs) \cap busy) \in Nat \ {0}
  <2> DEFINE S == OfSuite(db.runs[r].suite_runs) \cap busy
  <2>1. r \in S /\ S \subseteq DOMAIN db.runs
    BY <1>2 DEF OfSuite, HasSuite
  <2> HIDE DEF S
  <2>2. IsFiniteSet(S) /\ S # {}
    BY <1>2, <2>1, FS_Subset
  <2>3. Cardinality(S) \in Nat \ {0}
    BY <2>2, FS_EmptySet, FS_CardinalityType
  <2> QED
    BY <2>3 DEF S
<1> HIDE DEF v
<1>5. QueueRead(v, db)
  BY <1>1, <1>3, <1>4 DEF QueueRead
<1>6. ListingRead(Result("submissions"), db)
  BY Results DEF AllSubmissions, ListingRead
<1> QED
  BY <1>5, <1>6 DEF v

\* A commit, with the calls as they are.
LEMMA CommitKeeps ==
    ASSUME ConsoleInv, Later(db, db'), calls' = calls
    PROVE  ConsoleInv'
<1>1. Fine(db')
  BY DEF Later
<1>2. \A c \in Call : CallOK(calls'[c], db')
  BY CallsKeep DEF ConsoleInv
<1>3. DOMAIN calls' = Call /\ calls' = [c \in Call |-> calls'[c]]
  BY DEF ConsoleInv
<1> QED
  BY <1>1, <1>2, <1>3 DEF ConsoleInv

\* A step of one call, with or without a commit.
LEMMA CallKeeps ==
    ASSUME ConsoleInv, Later(db, db') \/ db' = db, NEW c \in Call, NEW k,
           CallOK(k, db'), calls' = [calls EXCEPT ![c] = k]
    PROVE  ConsoleInv'
<1>1. Fine(db')
  BY DEF Later, ConsoleInv
<1>2. DOMAIN calls = Call
  BY DEF ConsoleInv
<1>3. calls'[c] = k /\ \A b \in Call \ {c} : calls'[b] = calls[b]
  BY <1>2
<1>4. ASSUME NEW b \in Call PROVE CallOK(calls'[b], db')
  <2>1. CASE b = c
    BY <1>3, <2>1
  <2>2. CASE b # c
    <3>1. CallOK(calls[b], db')
      BY CallsKeep DEF ConsoleInv
    <3> QED
      BY <1>3, <2>2, <3>1
  <2> QED
    BY <2>1, <2>2
<1>5. DOMAIN calls' = Call /\ calls' = [x \in Call |-> calls'[x]]
  BY <1>2
<1> QED
  BY <1>1, <1>4, <1>5 DEF ConsoleInv

\* A reader reads one statement and answers with the next: it begins when idle.
LEMMA ReadFromIdle ==
    ASSUME ConsoleInv, NEW c \in Call, NEW op \in {"queue", "listing"}, Read(c, op)
    PROVE  calls[c] = Idle
<1>1. CallOK(calls[c], db)
  BY DEF ConsoleInv
<1>2. SUFFICES ASSUME calls[c] # Idle PROVE FALSE
  OBVIOUS
<1>3. calls[c].op = op /\ ~Answers(c)
  BY <1>2 DEF Read
<1>4. calls[c].seen = <<calls[c].seen[1]>>
  BY <1>1, <1>2, <1>3 DEF CallOK
<1>5. Len(calls[c].seen) + 1 = 2
  <2>1. \A v : Len(<<v>>) + 1 = 2
    OBVIOUS
  <2> QED
    BY <1>4, <2>1
<1>6. Len(Statements(op)) = 2
  BY DEF Statements, QueueStatements, ListingStatements
<1> QED
  BY <1>3, <1>5, <1>6 DEF Answers

\* One more statement of a reading call keeps the invariant: what it read is true of this database.
LEMMA ReadKeeps ==
    ASSUME ConsoleInv, NEW c \in Call, NEW op \in {"queue", "listing"}, Read(c, op)
    PROVE  ConsoleInv'
<1>1. calls[c] = Idle
  BY ReadFromIdle
<1>2. calls[c].seen = <<>> /\ Len(calls[c].seen) + 1 = 1
  BY <1>1 DEF Idle
<1> DEFINE v == Result(Statements(op)[1])
           k == [op |-> op, seen |-> <<v>>]
<1>3. calls' = [calls EXCEPT ![c] = k] /\ db' = db
  <2>1. /\ calls' = [calls EXCEPT ![c] =
                       [op |-> op, seen |-> Append(calls[c].seen,
                                       Result(Statements(op)[Len(calls[c].seen) + 1]))]]
        /\ db' = db
    BY DEF Read
  <2>2. Append(<<>>, v) = <<v>>
    OBVIOUS
  <2> QED
    BY <1>2, <2>1, <2>2
<1>4. v = IF op = "queue" THEN Result("in_flight") ELSE Result("submissions")
  BY DEF Statements, QueueStatements, ListingStatements
<1> HIDE DEF v
<1>5. k.seen[1] = v /\ k = [op |-> op, seen |-> <<k.seen[1]>>]
  OBVIOUS
<1>6. CallOK(k, db)
  BY <1>4, <1>5, FirstResults DEF CallOK, ConsoleInv
<1> HIDE DEF k
<1> QED
  BY <1>3, <1>6, CallKeeps

\* The look-up and the insert of a registration keep it: the index lets one of two inserts through.
LEMMA RegisterKeeps ==
    ASSUME ConsoleInv, NEW c \in Call, LookupChallenge(c) \/ InsertChallenge(c)
    PROVE  ConsoleInv'
<1>1. CASE LookupChallenge(c)
  <2> DEFINE k == [op |-> "register", seen |-> <<>>]
  <2>1. calls' = [calls EXCEPT ![c] = k] /\ db' = db
    <3>1. calls' = [calls EXCEPT ![c].op = "register"] /\ calls[c] = Idle /\ db' = db
      BY <1>1 DEF LookupChallenge
    <3>2. [Idle EXCEPT !.op = "register"] = k
      BY DEF Idle
    <3> HIDE DEF k
    <3> QED
      BY <3>1, <3>2
  <2>2. CallOK(k, db)
    BY DEF CallOK
  <2> HIDE DEF k
  <2> QED
    BY <2>1, <2>2, CallKeeps
<1>2. CASE InsertChallenge(c)
  <2> DEFINE new == ChallengeCreate(db, Cardinality(DOMAIN db.challenges) + 1, ChallengeRow, "now")
  <2>1. db' = (IF new = NULL THEN db ELSE new) /\ calls' = [calls EXCEPT ![c] = Idle]
    BY <1>2 DEF InsertChallenge, NextID, Return
  <2>2. new # NULL => Later(db, new)
    BY ChallengeLater DEF ConsoleInv
  <2> HIDE DEF new
  <2>3. Later(db, db') \/ db' = db
    BY <2>1, <2>2
  <2>4. CallOK(Idle, db')
    BY DEF CallOK
  <2> QED
    BY <2>1, <2>3, <2>4, CallKeeps
<1> QED
  BY <1>1, <1>2

\* An answer only ends its call.
LEMMA AnswerKeeps ==
    ASSUME ConsoleInv, NEW c \in Call, Answer(c)
    PROVE  ConsoleInv'
<1>1. calls' = [calls EXCEPT ![c] = Idle] /\ db' = db
  BY DEF Answer, Return
<1>2. CallOK(Idle, db')
  BY DEF CallOK
<1> QED
  BY <1>1, <1>2, CallKeeps

\* Every step keeps it.
LEMMA ConsoleKeeps ==
    ASSUME ConsoleInv, [Next]_cvars
    PROVE  ConsoleInv'
<1>0. Fine(db)
  BY DEF ConsoleInv
<1>1. CASE UNCHANGED cvars
  BY <1>1 DEF cvars, ConsoleInv
<1>2. CASE \E c \in Call : LookupChallenge(c) \/ InsertChallenge(c)
  BY <1>2, RegisterKeeps
<1>3. CASE \E k \in DOMAIN db.challenges, body \in Bodies : CreateSuite(k, body)
  BY <1>0, <1>3, CreateSuiteLater, CommitKeeps
<1>4. CASE \E u \in DOMAIN db.suites : CloneSuite(u)
  BY <1>0, <1>4, CloneSuiteLater, CommitKeeps
<1>5. CASE \E U \in SUBSET DOMAIN db.suites : CreateSubmission(U)
  BY <1>0, <1>5, CreateSubmissionLater, CommitKeeps
<1>6. CASE \E s \in DOMAIN db.submissions, U \in SUBSET DOMAIN db.suites : Reevaluate(s, U)
  BY <1>0, <1>6, ReevaluateLater, CommitKeeps
<1>7. CASE \E r \in DOMAIN db.runs, b \in Posted : Judge(r, b)
  BY <1>0, <1>7, JudgeLater, CommitKeeps
<1>8. CASE \E s \in DOMAIN db.submissions : Cancel(s) \/ Retry(s)
  BY <1>0, <1>8, CancelLater, RetryLater, CommitKeeps
<1>9. CASE \E c \in Call : Answer(c) \/ \E op \in {"queue", "listing"} : Read(c, op)
  BY <1>9, AnswerKeeps, ReadKeeps
<1> QED
  BY <1>1, <1>2, <1>3, <1>4, <1>5, <1>6, <1>7, <1>8, <1>9 DEF Next

\* Every state of the console's specification satisfies the invariant.
LEMMA ConsoleInvariant == Spec => []ConsoleInv
  BY ConsoleStarts, ConsoleKeeps, PTL DEF Spec

-----------------------------------------------------------------------------
(* What follows from it.                                                   *)

\* The tables keep their constraints and a call reads one statement before its answer,
\* for any number of calls, whatever is committed in between.
THEOREM ConsoleTyped == Spec => []ConsoleTypeOK
<1>1. ASSUME ConsoleInv PROVE ConsoleTypeOK
  <2>1. DOMAIN db = DOMAIN Tables /\ Legal(db)
    BY <1>1 DEF ConsoleInv, Fine, Good, IsDatabase
  <2>2. ASSUME NEW c \in Call
        PROVE  /\ calls[c].op \in {"idle", "register", "queue", "listing"}
               /\ Len(calls[c].seen) = (IF calls[c].op \in {"queue", "listing"} THEN 1 ELSE 0)
    <3>1. CallOK(calls[c], db)
      BY <1>1 DEF ConsoleInv
    <3>2. CASE calls[c] = Idle \/ calls[c] = [op |-> "register", seen |-> <<>>]
      BY <3>2 DEF Idle
    <3>3. ASSUME NEW v, calls[c] = [op |-> "queue", seen |-> <<v>>]
                        \/ calls[c] = [op |-> "listing", seen |-> <<v>>]
          PROVE  calls[c].op \in {"queue", "listing"} /\ Len(calls[c].seen) = 1
      BY <3>3
    <3> QED
      BY <3>1, <3>2, <3>3 DEF CallOK
  <2> QED
    BY <2>1, <2>2 DEF ConsoleTypeOK
<1> QED
  BY <1>1, ConsoleInvariant, PTL

\* A challenge is registered once, however many processes register it at once.
THEOREM RegisteredOnce == Spec => []OneChallengePerVersion
<1>1. ASSUME ConsoleInv PROVE OneChallengePerVersion
  <2> DEFINE ids == ChallengesOf(db, "name", "hash")
  <2>1. ASSUME NEW i \in ids, NEW j \in ids PROVE i = j
    <3>1. /\ i \in DOMAIN db["challenges"] /\ j \in DOMAIN db["challenges"]
          /\ \A c \in ChallengeKey : db["challenges"][i][c] = db["challenges"][j][c]
      BY DEF ChallengesOf, ChallengeKey
    <3>2. LegalRow(db, "challenges", i)
      BY <1>1, <3>1, TableNames DEF ConsoleInv, Fine, Good, IsDatabase, Legal
    <3>3. ChallengeKey \in Tables["challenges"].unique
      BY TableNames DEF ChallengesTable
    <3> QED
      BY <3>1, <3>2, <3>3 DEF LegalRow
  <2>2. CASE ids = {}
    BY <2>2 DEF OneChallengePerVersion, ChallengeOnly
  <2>3. CASE ids # {}
    <3>1. PICK i : ids = {i}
      BY <2>1, <2>3
    <3>2. Cardinality(ids) = 1
      BY <3>1, FS_Singleton
    <3> HIDE DEF ids
    <3>3. ChallengeOnly(db, "name", "hash") = "found"
      BY <2>3, <3>2 DEF ChallengeOnly, ids
    <3> QED
      BY <3>3 DEF OneChallengePerVersion
  <2> QED
    BY <2>2, <2>3
<1> QED
  BY <1>1, ConsoleInvariant, PTL

\* A suite is sealed exactly if it has runs: a clone starts open, and every fan-out over
\* a suite, the first or a later one, leaves it sealed.
THEOREM SealedIsUsed == Spec => []SealedIffUsed
<1>1. ConsoleInv => SealedIffUsed
  BY DEF ConsoleInv, Fine, Good, SealedIffUsed, OfSuite
<1> QED
  BY <1>1, ConsoleInvariant, PTL

\* Six heads count the rows of a submission once.
LEMMA CountsAddUp ==
    ASSUME NEW rows, IsFiniteSet(DOMAIN rows), DOMAIN rows # {},
           \A i \in DOMAIN rows : rows[i].status \in RunStatuses
    PROVE  LET n == Counts(rows) IN
           n.total > 0 /\ n.total = n.succeeded + n.failed + n.timed_out + n.cancelled + n.pending
<1> DEFINE At(S) == {i \in DOMAIN rows : rows[i].status \in S}
           A == At({"succeeded"})
           B == At({"failed"})
           C == At({"timed_out"})
           D == At({"cancelled"})
           E == At({"pending", "claimed", "running"})
<1>1. /\ IsFiniteSet(A) /\ IsFiniteSet(B) /\ IsFiniteSet(C) /\ IsFiniteSet(D) /\ IsFiniteSet(E)
      /\ A \cap B = {} /\ (A \cup B) \cap C = {} /\ (A \cup B \cup C) \cap D = {}
      /\ (A \cup B \cup C \cup D) \cap E = {}
  BY FS_Subset
<1>2. DOMAIN rows = A \cup B \cup C \cup D \cup E
  BY DEF RunStatuses
<1>3. /\ Counts(rows).total = Cardinality(DOMAIN rows)
      /\ Counts(rows).succeeded = Cardinality(A) /\ Counts(rows).failed = Cardinality(B)
      /\ Counts(rows).timed_out = Cardinality(C) /\ Counts(rows).cancelled = Cardinality(D)
      /\ Counts(rows).pending = Cardinality(E)
  BY DEF Counts
<1> HIDE DEF A, B, C, D, E
<1>4. \A S, T : IsFiniteSet(S) /\ IsFiniteSet(T) /\ S \cap T = {} =>
                   IsFiniteSet(S \cup T) /\ Cardinality(S \cup T) = Cardinality(S) + Cardinality(T)
  <2> SUFFICES ASSUME NEW S, NEW T, IsFiniteSet(S), IsFiniteSet(T), S \cap T = {}
               PROVE  IsFiniteSet(S \cup T) /\ Cardinality(S \cup T) = Cardinality(S) + Cardinality(T)
    OBVIOUS
  <2>1. /\ IsFiniteSet(S \cup T)
        /\ Cardinality(S \cup T) = Cardinality(S) + Cardinality(T) - Cardinality(S \cap T)
    BY FS_Union
  <2>2. Cardinality(S \cap T) = 0
    BY FS_EmptySet
  <2>3. Cardinality(S) \in Nat /\ Cardinality(T) \in Nat
    BY FS_CardinalityType
  <2> QED
    BY <2>1, <2>2, <2>3
<1>5. IsFiniteSet(A \cup B) /\ Cardinality(A \cup B) = Cardinality(A) + Cardinality(B)
  BY <1>1, <1>4
<1>6. /\ IsFiniteSet(A \cup B \cup C)
      /\ Cardinality(A \cup B \cup C) = Cardinality(A \cup B) + Cardinality(C)
  BY <1>1, <1>4, <1>5
<1>7. /\ IsFiniteSet(A \cup B \cup C \cup D)
      /\ Cardinality(A \cup B \cup C \cup D) = Cardinality(A \cup B \cup C) + Cardinality(D)
  BY <1>1, <1>4, <1>6
<1>8. Cardinality(A \cup B \cup C \cup D \cup E)
         = Cardinality(A \cup B \cup C \cup D) + Cardinality(E)
  BY <1>1, <1>4, <1>7
<1>9. Cardinality(DOMAIN rows) \in Nat /\ Cardinality(DOMAIN rows) # 0
  BY FS_CardinalityType, FS_EmptySet
<1>10. Cardinality(DOMAIN rows)
          = Cardinality(A) + Cardinality(B) + Cardinality(C) + Cardinality(D) + Cardinality(E)
  BY <1>2, <1>5, <1>6, <1>7, <1>8
<1> QED
  BY <1>3, <1>9, <1>10

\* What a reader that answers has read, and what it reads now.
LEMMA SeenByQueue ==
    ASSUME NEW c, NEW v, calls[c] = [op |-> "queue", seen |-> <<v>>]
    PROVE  Seen(c, "in_flight") = v /\ Seen(c, "suites") = Result("suites")
<1>1. /\ Statements(calls[c].op) = <<"in_flight", "suites">>
      /\ calls[c].seen = <<v>> /\ DOMAIN calls[c].seen = {1}
  BY DEF Statements, QueueStatements
<1>2. /\ {i \in 1..2 : <<"in_flight", "suites">>[i] = "in_flight"} = {1}
      /\ {i \in 1..2 : <<"in_flight", "suites">>[i] = "suites"} = {2}
      /\ Len(<<"in_flight", "suites">>) = 2
  OBVIOUS
<1>3. Min({1}) = 1 /\ Min({2}) = 2
  BY DEF Min
<1>4. SelectInSeq(<<"in_flight", "suites">>, LAMBDA x : x = "in_flight") = 1
  BY <1>2, <1>3 DEF SelectInSeq
<1>5. SelectInSeq(<<"in_flight", "suites">>, LAMBDA x : x = "suites") = 2
  BY <1>2, <1>3 DEF SelectInSeq
<1> QED
  BY <1>1, <1>4, <1>5 DEF Seen

\* The listing that has read one statement, its submissions, reads its counts now.
LEMMA SeenByListing ==
    ASSUME NEW c, NEW v, calls[c] = [op |-> "listing", seen |-> <<v>>]
    PROVE  Seen(c, "submissions") = v /\ Seen(c, "counts") = Result("counts")
<1>1. /\ Statements(calls[c].op) = <<"submissions", "counts">>
      /\ calls[c].seen = <<v>> /\ DOMAIN calls[c].seen = {1}
  BY DEF Statements, ListingStatements
<1>2. /\ {i \in 1..2 : <<"submissions", "counts">>[i] = "submissions"} = {1}
      /\ {i \in 1..2 : <<"submissions", "counts">>[i] = "counts"} = {2}
      /\ Len(<<"submissions", "counts">>) = 2
  OBVIOUS
<1>3. Min({1}) = 1 /\ Min({2}) = 2
  BY DEF Min
<1>4. SelectInSeq(<<"submissions", "counts">>, LAMBDA x : x = "submissions") = 1
  BY <1>2, <1>3 DEF SelectInSeq
<1>5. SelectInSeq(<<"submissions", "counts">>, LAMBDA x : x = "counts") = 2
  BY <1>2, <1>3 DEF SelectInSeq
<1> QED
  BY <1>1, <1>4, <1>5 DEF Seen

\* /submissions: each submission listed has runs, counted once each, although they are
\* counted by a later statement than the one that listed it.
THEOREM ListingComplete == Spec => []ListingIsWhole
<1>1. ASSUME ConsoleInv PROVE ListingIsWhole
  <2> SUFFICES ASSUME NEW c \in Call, calls[c].op = "listing",
                      NEW s \in DOMAIN ListingAnswer(c)
               PROVE  LET n == ListingAnswer(c)[s] IN
                      /\ n.total > 0
                      /\ n.total = n.succeeded + n.failed + n.timed_out + n.cancelled + n.pending
    BY DEF ListingIsWhole
  <2>1. CallOK(calls[c], db)
    BY <1>1 DEF ConsoleInv
  <2>2. PICK v : calls[c] = [op |-> "listing", seen |-> <<v>>] /\ ListingRead(v, db)
    <3>1. /\ calls[c] # Idle
          /\ \A x : calls[c] # [op |-> "register", seen |-> x]
          /\ \A x : calls[c] # [op |-> "queue", seen |-> x]
      BY DEF Idle
    <3> QED
      BY <2>1, <3>1 DEF CallOK
  <2>3. Seen(c, "submissions") = v /\ Seen(c, "counts") = Result("counts")
    BY <2>2, SeenByListing
  <2>4. s \in DOMAIN v /\ s \in DOMAIN db.submissions
    BY <2>2, <2>3 DEF ListingAnswer, ListingRead
  <2>5. LoadRuns(db, s) # {} /\ LoadRuns(db, s) \subseteq DOMAIN db.runs
    BY <1>1, <2>4 DEF ConsoleInv, Fine, LoadRuns
  <2> DEFINE rows == [r \in LoadRuns(db, s) |-> RunScan(db.runs[r])]
  <2>6. s \in DOMAIN Result("counts") /\ Result("counts")[s] = Counts(rows)
    <3>1. s \in {db.runs[r].submission_runs : r \in DOMAIN db.runs}
      BY <2>5 DEF LoadRuns
    <3> QED
      BY <3>1, Results
  <2>7. ListingAnswer(c)[s] = Counts(rows)
    BY <2>3, <2>4, <2>6 DEF ListingAnswer
  <2>8. IsFiniteSet(DOMAIN rows) /\ DOMAIN rows # {}
    <3>1. Dense(DOMAIN db.runs)
      BY <1>1 DEF ConsoleInv, Fine, Good
    <3>2. IsFiniteSet(DOMAIN db.runs)
      BY <3>1, DenseNext
    <3> QED
      BY <2>5, <3>2, FS_Subset
  <2>9. ASSUME NEW r \in DOMAIN rows PROVE rows[r].status \in RunStatuses
    <3>1. db.runs[r].status \in RunStatuses
      BY <1>1, <2>5 DEF ConsoleInv, Fine, Good
    <3>2. "status" \in RunFields /\ "status" \notin {"seed", "worker_id"} \cup RunText
      BY DEF RunFields, RunQueueing, RunText
    <3>3. RunScan(db.runs[r]).status = db.runs[r].status
      BY <3>2 DEF RunScan, Scan
    <3> QED
      BY <3>1, <3>3
  <2> HIDE DEF rows
  <2> QED
    BY <2>7, <2>8, <2>9, CountsAddUp
<1> QED
  BY <1>1, ConsoleInvariant, PTL

\* GET /api/queue: what the suites shown have pending adds up to the total, although the
\* suites are read later; a suite left out, or one that is new, has nothing in the total.
THEOREM QueueTotals == Spec => []QueueAddsUp
<1>1. ASSUME ConsoleInv PROVE QueueAddsUp
  <2> SUFFICES ASSUME NEW c \in Call, calls[c].op = "queue"
               PROVE  SumFunction(QueueAnswer(c).by_suite) = QueueAnswer(c).pending_total
    BY DEF QueueAddsUp
  <2>1. CallOK(calls[c], db)
    BY <1>1 DEF ConsoleInv
  <2>2. PICK v : calls[c] = [op |-> "queue", seen |-> <<v>>] /\ QueueRead(v, db)
    <3>1. /\ calls[c] # Idle
          /\ \A x : calls[c] # [op |-> "register", seen |-> x]
          /\ \A x : calls[c] # [op |-> "listing", seen |-> x]
      BY DEF Idle
    <3> QED
      BY <2>1, <3>1 DEF CallOK
  <2>3. Seen(c, "in_flight") = v /\ Seen(c, "suites") = Result("suites")
    BY <2>2, SeenByQueue
  <2> DEFINE suites == Result("suites")
             shown == {u \in DOMAIN suites : PendingOf(v, u) # 0 \/ suites[u]}
             h == [u \in shown |-> PendingOf(v, u)]
  <2>4. QueueAnswer(c).by_suite = h /\ QueueAnswer(c).pending_total = SumFunction(v)
    BY <2>3 DEF QueueAnswer
  <2>5. DOMAIN suites = DOMAIN db.suites
    BY Results
  <2> HIDE DEF suites
  <2>6. DOMAIN v \subseteq shown
    <3>1. \A u \in DOMAIN v : u \in DOMAIN suites /\ PendingOf(v, u) = v[u] /\ v[u] \in Nat \ {0}
      BY <2>2, <2>5 DEF QueueRead, PendingOf
    <3> QED
      BY <3>1
  <2>7. IsFiniteSet(shown)
    <3>1. Dense(DOMAIN db.suites) /\ shown \subseteq DOMAIN db.suites
      BY <1>1, <2>5 DEF ConsoleInv, Fine, Good
    <3> HIDE DEF shown
    <3> QED
      BY <3>1, DenseNext, FS_Subset
  <2> HIDE DEF shown
  <2>8. /\ DOMAIN h = shown /\ h = [u \in DOMAIN h |-> h[u]]
        /\ \A u \in DOMAIN v : h[u] = v[u]
        /\ \A u \in shown \ DOMAIN v : h[u] = 0
    BY <2>6 DEF PendingOf
  <2>9. v \in [DOMAIN v -> Int]
    BY <2>2 DEF QueueRead
  <2> HIDE DEF h
  <2> QED
    BY <2>4, <2>6, <2>7, <2>8, <2>9, ZerosAddNothing
<1> QED
  BY <1>1, ConsoleInvariant, PTL

-----------------------------------------------------------------------------
(* The leaderboard.                                                       *)

\* A sum over a list of integers.
LEMMA SumOfIs ==
    ASSUME NEW xs \in Seq(Int)
    PROVE  \E g : IsSum(g, xs, DOMAIN xs) /\ SumOf(xs) = g[DOMAIN xs] /\ SumOf(xs) \in Int
<1>1. SumOf(xs) = SumFunction(xs)
  BY DEF SumOf, FoldSeq, FoldFunction, FoldFunctionOnSet, SumFunction, SumFunctionOnSet
<1>2. IsFiniteSet(DOMAIN xs) /\ xs \in [DOMAIN xs -> Int]
  <2>1. DOMAIN xs = 1..Len(xs) /\ Len(xs) \in Nat
    OBVIOUS
  <2>2. IsFiniteSet(1..Len(xs))
    BY <2>1, FS_Interval
  <2> QED
    BY <2>1, <2>2
<1>3. PICK g : IsSum(g, xs, DOMAIN xs) /\ SumFunction(xs) = g[DOMAIN xs]
  BY <1>2, SumFunctionOf
<1>4. g[DOMAIN xs] \in Int
  BY <1>3 DEF IsSum
<1> QED
  BY <1>1, <1>3, <1>4

\* The mean of some integers is an integer, on the scale of the module.
LEMMA MeanIs ==
    ASSUME NEW xs \in Seq(Int), xs # <<>>
    PROVE  Mean(xs) \in Int
<1>1. SumOf(xs) \in Int
  BY SumOfIs
<1>2. Len(xs) \in Nat \ {0}
  OBVIOUS
<1>3. \A a \in Int, b \in Nat \ {0} : a \div b \in Int
  OBVIOUS
<1>4. Scale * SumOf(xs) \in Int
  BY <1>1, ScaleAssumption
<1> QED
  BY <1>2, <1>3, <1>4 DEF Mean

\* Rows as a reader has them.
IsRows(rows) ==
    /\ rows \in Seq(ToSet(rows))
    /\ \A r \in ToSet(rows) : r.submission \in Int /\ r.score \in Int \cup {NULL}

\* A submission's rows, its scored rows and its scores are sequences of what their names say.
LEMMA ScoresAre ==
    ASSUME NEW rows, IsRows(rows), NEW s
    PROVE  /\ Of(rows, s) \in Seq(ToSet(rows))
           /\ Scored(Of(rows, s)) \in Seq({r \in ToSet(rows) : r.score \in Int})
           /\ ScoresOf(Of(rows, s)) \in Seq(Int)
<1> DEFINE X == ToSet(rows)
           own == Of(rows, s)
           I == {i \in DOMAIN own : own[i].status = "succeeded" /\ own[i].score # NULL}
           scored == Scored(own)
<1>1. own \in Seq(X)
  <2> DEFINE J == {i \in DOMAIN rows : rows[i].submission = s}
  <2>1. J \in SUBSET DOMAIN rows /\ rows \in Seq(X) /\ own = Among(rows, J)
    BY DEF IsRows, Of
  <2> HIDE DEF J, X, own
  <2> QED
    BY <2>1, AmongOf
<1>2. \A r \in X : r.score \in Int \cup {NULL}
  BY DEF IsRows
<1> HIDE DEF X, own
<1>3. scored = Among(own, I)
  BY DEF Scored
<1>4. I \in SUBSET DOMAIN own
  OBVIOUS
<1>5. /\ Cardinality(I) \in Nat /\ DOMAIN Among(own, I) = 1..Cardinality(I)
      /\ ByID(I) \in [1..Cardinality(I) -> I]
      /\ \A k \in 1..Cardinality(I) : Among(own, I)[k] = own[ByID(I)[k]]
      /\ Among(own, I) \in Seq(X)
  <2> HIDE DEF I
  <2> QED
    BY <1>1, <1>4, AmongOf
<1>6. ASSUME NEW k \in 1..Cardinality(I) PROVE scored[k] \in X /\ scored[k].score \in Int
  <2>1. ByID(I)[k] \in I /\ scored[k] = own[ByID(I)[k]]
    BY <1>3, <1>5
  <2>2. own[ByID(I)[k]] \in X /\ own[ByID(I)[k]].score # NULL
    BY <1>1, <2>1
  <2> QED
    BY <1>2, <2>1, <2>2
<1> HIDE DEF I
<1>7. scored \in Seq({r \in X : r.score \in Int})
  <2> DEFINE Y == {r \in X : r.score \in Int}
  <2>1. scored \in Seq(X) /\ DOMAIN scored = 1..Len(scored) /\ \A k \in DOMAIN scored : scored[k] \in Y
    BY <1>3, <1>5, <1>6
  <2> HIDE DEF Y, scored
  <2>2. PICK n \in Nat : scored = [k \in 1..n |-> scored[k]] /\ n = Len(scored)
    BY <2>1
  <2>3. scored \in [1..n -> Y]
    BY <2>1, <2>2
  <2>4. scored \in Seq(Y)
    BY <2>3
  <2> QED
    BY <2>4 DEF Y
<1>8. ScoresOf(own) \in Seq(Int)
  <2>1. ScoresOf(own) = [i \in DOMAIN scored |-> scored[i].score]
    BY DEF ScoresOf
  <2>2. DOMAIN scored = 1..Len(scored) /\ Len(scored) \in Nat
    BY <1>7
  <2>3. \A i \in DOMAIN scored : scored[i].score \in Int
    BY <1>3, <1>5, <1>6
  <2> HIDE DEF scored
  <2> QED
    BY <2>1, <2>2, <2>3
<1> QED
  BY <1>1, <1>7, <1>8 DEF X, own

\* What an entry shows of its submission.
LEMMA EntryOf ==
    ASSUME NEW rows, IsRows(rows), NEW s
    PROVE  LET e == Entry(rows, s)
               xs == ScoresOf(Of(rows, s))
           IN /\ e.submission = s /\ e.submitted_at = s /\ e.runs = Counts(Of(rows, s)) /\ e.p = NaN
              /\ e = [submission |-> e.submission, submitted_at |-> e.submitted_at, runs |-> e.runs,
                      metrics |-> e.metrics, p |-> e.p]
              /\ Ranked(e) <=> xs # <<>>
              /\ Ranked(e) => Metric(e, "mean") = Mean(xs) /\ Mean(xs) \in Int
<1> DEFINE e == Entry(rows, s)
           xs == ScoresOf(Of(rows, s))
           m == Metrics(xs, SetToSeq(ToSet(xs)))
<1>1. e = [submission |-> s, submitted_at |-> s, runs |-> Counts(Of(rows, s)),
           metrics |-> IF xs = <<>> THEN <<>> ELSE <<m>>, p |-> NaN]
  BY DEF Entry
<1>2. m.mean = Mean(xs)
  BY DEF Metrics
<1>3. xs \in Seq(Int)
  BY ScoresAre
<1> HIDE DEF m, xs, e
<1>4. e.metrics = IF xs = <<>> THEN <<>> ELSE <<m>>
  BY <1>1
<1>5. <<m>> # <<>> /\ <<m>>[1] = m
  OBVIOUS
<1>6. (Ranked(e) <=> xs # <<>>) /\ (Ranked(e) => Metric(e, "mean") = Mean(xs))
  BY <1>2, <1>4, <1>5 DEF Ranked, Metric
<1>7. xs # <<>> => Mean(xs) \in Int
  BY <1>3, MeanIs
<1>8. /\ e.submission = s /\ e.submitted_at = s /\ e.runs = Counts(Of(rows, s)) /\ e.p = NaN
      /\ e = [submission |-> e.submission, submitted_at |-> e.submitted_at, runs |-> e.runs,
              metrics |-> e.metrics, p |-> e.p]
  BY <1>1
<1> QED
  BY <1>6, <1>7, <1>8 DEF e, xs

\* The insertion of one entry into the leaderboard.
Placed(acc, x) ==
    LET I == {i \in 1..Len(acc) : ~Less(x, acc[i])}
    IN InsertAt(acc, 1 + (IF I # {} THEN Max(I) ELSE 0), x)

\* Placing an entry adds no other.
LEMMA PlacedIn ==
    ASSUME NEW E, NEW acc \in Seq(E), NEW x \in E
    PROVE  Placed(acc, x) \in Seq(E)
<1> DEFINE I == {i \in 1..Len(acc) : ~Less(x, acc[i])}
           p == IF I # {} THEN Max(I) ELSE 0
<1>1. p \in 0..Len(acc)
  <2>1. I \in SUBSET (1..Len(acc)) /\ Len(acc) \in Nat
    OBVIOUS
  <2> HIDE DEF I
  <2> QED
    BY <2>1, LastAmong
<1>2. Placed(acc, x) = InsertAt(acc, 1 + p, x)
  BY DEF Placed
<1> HIDE DEF p
<1>3. 1 + p = p + 1
  BY <1>1
<1> QED
  BY <1>1, <1>2, <1>3, InsertAtOf

\* sortLeaderboard, entry by entry.
LEMMA SortSteps ==
    ASSUME NEW E, NEW s \in Seq(E)
    PROVE  \E a : /\ a[0] = <<>> /\ \A k \in 1..Len(s) : a[k] = Placed(a[k - 1], s[k])
                  /\ SortLeaderboard(s) = a[Len(s)]
<1> DEFINE n == Len(s)
           V == Seq(E)
           F == [z \in V \X (1..n) |-> Placed(z[1], s[z[2]])]
           Solves(g) == g = [S \in SUBSET DOMAIN s |->
                               IF S = {} THEN <<>> ELSE Placed(g[S \ {Max(S)}], s[Max(S)])]
           g == CHOOSE g : Solves(g)
           a == [k \in 0..n |-> g[1..k]]
<1>0. n \in Nat /\ DOMAIN s = 1..n /\ \A k \in 1..n : s[k] \in E
  OBVIOUS
<1>1. SortLeaderboard(s) = g[DOMAIN s]
  BY DEF SortLeaderboard, StableSort, FoldLeft, MapThenFoldSet, Insertion, SelectLastInSeq, Placed
<1>2. F \in [V \X (1..n) -> V]
  <2>1. \A acc \in V, k \in 1..n : Placed(acc, s[k]) \in V
    BY <1>0, PlacedIn
  <2> HIDE DEF V, n
  <2> QED
    BY <2>1
<1>3. <<>> \in V
  OBVIOUS
<1>4. Solves(g)
  <2>1. PICK h \in [SUBSET (1..n) -> V] : FoldsWith(h, F, <<>>, n)
    <3> HIDE DEF F, V, n
    <3> QED
      BY <1>0, <1>2, <1>3, FoldSolved
  <2>2. ASSUME NEW S \in SUBSET (1..n), S # {}
        PROVE  F[<<h[S \ {Max(S)}], Max(S)>>] = Placed(h[S \ {Max(S)}], s[Max(S)])
    <3>1. Max(S) \in 1..n
      BY <1>0, <2>2, LastIn
    <3>2. h[S \ {Max(S)}] \in V
      OBVIOUS
    <3> HIDE DEF V, n
    <3> QED
      BY <3>1, <3>2
  <2>3. Solves(h)
    <3> HIDE DEF F, V, n
    <3> QED
      BY <1>0, <2>1, <2>2 DEF FoldsWith
  <2> HIDE DEF Solves
  <2> QED
    BY <2>3
<1> HIDE DEF g, F, V, n
<1>5. a[0] = <<>>
  <2>1. 1..0 = {} /\ 0 \in 0..n /\ {} \in SUBSET DOMAIN s
    BY <1>0
  <2> QED
    BY <1>4, <2>1
<1>6. ASSUME NEW k \in 1..n PROVE a[k] = Placed(a[k - 1], s[k])
  <2>1. /\ 1..k # {} /\ 1..k \in SUBSET (1..n) /\ k \in 0..n /\ k - 1 \in 0..n
        /\ Max(1..k) = k /\ (1..k) \ {Max(1..k)} = 1 .. k - 1
    BY <1>0, FirstNumbers
  <2>2. g[1..k] = Placed(g[(1..k) \ {Max(1..k)}], s[Max(1..k)])
    BY <1>0, <1>4, <2>1
  <2> QED
    BY <2>1, <2>2
<1>7. SortLeaderboard(s) = a[n]
  BY <1>0, <1>1
<1> QED
  BY <1>5, <1>6, <1>7 DEF n

\* With a strict total order the result is the list of the entries in that order.
LEMMA SortSorts ==
    ASSUME NEW E, NEW R, Orders(R, E), \A x, y \in E : <<x, y>> \in R <=> Less(x, y),
           NEW s \in Seq(E), \A i, j \in DOMAIN s : i # j => s[i] # s[j]
    PROVE  LET t == SortLeaderboard(s) IN
           /\ t \in Seq(E) /\ Len(t) = Len(s) /\ SortedBy(R, t) /\ ToSet(t) = ToSet(s)
<1> DEFINE n == Len(s)
<1>0. n \in Nat /\ DOMAIN s = 1..n /\ \A k \in 1..n : s[k] \in E
  OBVIOUS
<1>1. PICK a : /\ a[0] = <<>> /\ \A k \in 1..n : a[k] = Placed(a[k - 1], s[k])
               /\ SortLeaderboard(s) = a[n]
  BY SortSteps
<1> HIDE DEF n
<1> DEFINE Good1(k) == /\ a[k] \in Seq(E) /\ Len(a[k]) = k /\ SortedBy(R, a[k])
                       /\ ToSet(a[k]) = {s[i] : i \in 1..k}
           N == {k \in Nat : k <= n => Good1(k)}
<1>2. 0 \in N
  <2>1. <<>> \in Seq(E) /\ Len(<<>>) = 0 /\ SortedBy(R, <<>>) /\ ToSet(<<>>) = {} /\ 1..0 = {}
    BY DEF SortedBy, ToSet
  <2> QED
    BY <1>1, <2>1
<1>3. ASSUME NEW k \in N PROVE k + 1 \in N
  <2> SUFFICES ASSUME k + 1 <= n PROVE Good1(k + 1)
    OBVIOUS
  <2> DEFINE acc == a[k]
             x == s[k + 1]
             I == {i \in 1..Len(acc) : ~Less(x, acc[i])}
             p == IF I # {} THEN Max(I) ELSE 0
             t == InsertAt(acc, p + 1, x)
  <2>1. k \in Nat /\ k + 1 \in 1..n /\ (k + 1) - 1 = k /\ Good1(k) /\ x \in E
    BY <1>0
  <2>2. p \in 0..Len(acc) /\ (\A i \in p + 1 .. Len(acc) : i \notin I) /\ (p > 0 => p \in I)
    <3>1. I \in SUBSET (1..Len(acc)) /\ Len(acc) \in Nat
      BY <2>1
    <3> HIDE DEF I
    <3> QED
      BY <3>1, LastAmong
  <2>3. a[k + 1] = t
    <3>1. a[k + 1] = Placed(acc, x)
      BY <1>1, <2>1
    <3>2. Placed(acc, x) = InsertAt(acc, 1 + p, x)
      BY DEF Placed
    <3> HIDE DEF p
    <3>3. 1 + p = p + 1
      BY <2>2
    <3> QED
      BY <3>1, <3>2, <3>3
  <2>4. x \notin ToSet(acc)
    <3>1. \A i \in 1..k : i \in 1..n /\ i # k + 1
      BY <1>0, <2>1
    <3> QED
      BY <1>0, <2>1, <3>1
  <2>5. acc \in Seq(E) /\ SortedBy(R, acc) /\ Len(acc) = k
    BY <2>1
  <2> HIDE DEF p, x, acc
  <2>6. \A i \in p + 1 .. Len(acc) : <<x, acc[i]>> \in R
    <3> SUFFICES ASSUME NEW i \in p + 1 .. Len(acc) PROVE <<x, acc[i]>> \in R
      OBVIOUS
    <3>1. i \in 1..Len(acc) /\ i \notin I
      BY <2>2, <2>5
    <3>2. acc[i] \in E /\ Less(x, acc[i])
      BY <2>5, <3>1
    <3> QED
      BY <2>1, <3>2
  <2>7. p > 0 => <<x, acc[p]>> \notin R
    <3> SUFFICES ASSUME p > 0 PROVE <<x, acc[p]>> \notin R
      OBVIOUS
    <3>1. p \in 1..Len(acc) /\ ~Less(x, acc[p])
      BY <2>2
    <3>2. acc[p] \in E
      BY <2>5, <3>1
    <3> QED
      BY <2>1, <3>1, <3>2
  <2>8. /\ t \in Seq(E) /\ Len(t) = Len(acc) + 1
        /\ SortedBy(R, t) /\ ToSet(t) = ToSet(acc) \cup {x}
    <3>1. x \in E /\ p \in 0..Len(acc)
      BY <2>1, <2>2, <2>5
    <3> HIDE DEF I, N
    <3>2. \A S \in Seq(E) :
             /\ SortedBy(R, S) /\ x \notin ToSet(S) /\ p \in 0..Len(S)
             /\ (\A i \in p + 1 .. Len(S) : <<x, S[i]>> \in R) /\ (p > 0 => <<x, S[p]>> \notin R)
             => LET u == InsertAt(S, p + 1, x) IN
                /\ u \in Seq(E) /\ Len(u) = Len(S) + 1
                /\ SortedBy(R, u) /\ ToSet(u) = ToSet(S) \cup {x}
      BY <3>1, InsertionSorts
    <3> QED
      BY <2>4, <2>5, <2>6, <2>7, <3>1, <3>2
  <2> HIDE DEF t
  <2>9. ToSet(t) = {s[i] : i \in 1..k + 1}
    <3>1. 1..k + 1 = (1..k) \cup {k + 1} /\ ToSet(acc) = {s[i] : i \in 1..k}
      BY <2>1 DEF acc
    <3> QED
      BY <2>8, <3>1 DEF x
  <2> QED
    BY <2>3, <2>5, <2>8, <2>9
<1>4. N = Nat
  <2> HIDE DEF N
  <2> QED
    BY <1>2, <1>3, NumbersInduct, N \subseteq Nat DEF N
<1>5. Good1(n)
  <2> HIDE DEF Good1
  <2> QED
    BY <1>0, <1>4
<1>6. ToSet(s) = {s[i] : i \in 1..n}
  BY <1>0 DEF ToSet
<1> QED
  BY <1>1, <1>5, <1>6 DEF n

\* Entries that the ranking can tell apart.
Comparable(E) ==
    /\ \A e \in E : e.submitted_at \in Int /\ (Ranked(e) => Metric(e, "mean") \in Int)
    /\ \A a, b \in E : a # b => a.submitted_at # b.submitted_at

\* less is a strict total order of them.
LEMMA LessOrders ==
    ASSUME NEW E, Comparable(E)
    PROVE  Orders({z \in E \X E : Less(z[1], z[2])}, E)
<1> DEFINE R == {z \in E \X E : Less(z[1], z[2])}
<1>1. \A a, b \in E : <<a, b>> \in R <=> Less(a, b)
  OBVIOUS
<1>2. ASSUME NEW a \in E, NEW b \in E
      PROVE  Less(a, b) <=>
                \/ Ranked(a) /\ ~Ranked(b)
                \/ ~Ranked(a) /\ ~Ranked(b) /\ a.submitted_at < b.submitted_at
                \/ /\ Ranked(a) /\ Ranked(b)
                   /\ \/ Metric(a, "mean") > Metric(b, "mean")
                      \/ Metric(a, "mean") = Metric(b, "mean") /\ a.submitted_at < b.submitted_at
  BY DEF Less
<1> HIDE DEF R
<1>3. ASSUME NEW a \in E, NEW b \in E, NEW c \in E, Less(a, b), Less(b, c)
      PROVE  Less(a, c)
  BY <1>2, <1>3 DEF Comparable
<1>4. ASSUME NEW a \in E PROVE ~Less(a, a)
  BY <1>2 DEF Comparable
<1>5. ASSUME NEW a \in E, NEW b \in E, a # b PROVE Less(a, b) \/ Less(b, a)
  BY <1>2, <1>5 DEF Comparable
<1> QED
  BY <1>1, <1>3, <1>4, <1>5 DEF Orders, R

\* An entry of the answer is the submission's, but for its p-value.
IsEntry(e, rows) ==
    LET s == e.submission
        xs == ScoresOf(Of(rows, s))
    IN /\ s \in Int /\ e.submitted_at = s /\ e.runs = Counts(Of(rows, s))
       /\ Ranked(e) <=> xs # <<>>
       /\ Ranked(e) => Metric(e, "mean") = Mean(xs) /\ Mean(xs) \in Int

\* The answer: every submission once, in the order of less, and compared with the first.
LEMMA BoardIs ==
    ASSUME NEW rows, IsRows(rows), NEW S \in SUBSET Int, IsFiniteSet(S), NEW order \in SetToSeqs(S)
    PROVE  LET out == Leaderboard(rows, order)
               seeds(i) == ScoresBySeed(Of(rows, out[i].submission))
           IN /\ Cardinality(S) \in Nat /\ DOMAIN out = 1..Cardinality(S) /\ Len(out) = Cardinality(S)
              /\ out \in Seq(ToSet(out))
              /\ {out[i].submission : i \in DOMAIN out} = S
              /\ \A i \in DOMAIN out : IsEntry(out[i], rows)
              /\ \A i, j \in DOMAIN out : i < j => Less(out[i], out[j])
              /\ \A i \in DOMAIN out :
                    out[i].p = IF i > 1 /\ Ranked(out[i]) THEN PairedPValue(seeds(1), seeds(i)) ELSE NaN
<1> DEFINE n == Cardinality(S)
           E == {Entry(rows, s) : s \in S}
           R == {z \in E \X E : Less(z[1], z[2])}
           entries == [i \in DOMAIN order |-> Entry(rows, order[i])]
           sorted == SortLeaderboard(entries)
           out == Leaderboard(rows, order)
           leader == SelectInSeq(sorted, LAMBDA e : Ranked(e))
           bySeed(i) == ScoresBySeed(Of(rows, sorted[i].submission))
           Rest(e) == e = [submission |-> e.submission, submitted_at |-> e.submitted_at,
                           runs |-> e.runs, metrics |-> e.metrics, p |-> e.p]
<1>0. /\ n \in Nat /\ order \in [1..n -> S]
      /\ \A i, j \in 1..n : i # j => order[i] # order[j]
      /\ \A x \in S : \E i \in 1..n : order[i] = x
  BY OrdersAll
<1>1. ASSUME NEW e \in E
      PROVE  IsEntry(e, rows) /\ e.submission \in S /\ e.p = NaN /\ Rest(e)
  <2>1. PICK s \in S : e = Entry(rows, s)
    OBVIOUS
  <2> HIDE DEF E
  <2> QED
    BY <2>1, EntryOf DEF IsEntry
<1>2. Comparable(E)
  <2>1. ASSUME NEW a \in E, NEW b \in E, a # b PROVE a.submitted_at # b.submitted_at
    <3>1. PICK s \in S : a = Entry(rows, s)
      OBVIOUS
    <3>2. PICK t \in S : b = Entry(rows, t)
      OBVIOUS
    <3>3. s # t
      BY <2>1, <3>1, <3>2
    <3> HIDE DEF E
    <3> QED
      BY <3>1, <3>2, <3>3, EntryOf
  <2> HIDE DEF E
  <2> QED
    BY <1>1, <2>1 DEF Comparable, IsEntry
<1>3. Orders(R, E)
  BY <1>2, LessOrders
<1>4. /\ entries \in Seq(E) /\ Len(entries) = n /\ DOMAIN entries = 1..n
      /\ \A i, j \in DOMAIN entries : i # j => entries[i] # entries[j]
  <2>1. entries \in [1..n -> E] /\ DOMAIN entries = 1..n
    BY <1>0
  <2>2. ASSUME NEW i \in 1..n, NEW j \in 1..n, i # j PROVE entries[i] # entries[j]
    <3>1. entries[i] = Entry(rows, order[i]) /\ entries[j] = Entry(rows, order[j])
      BY <1>0
    <3>2. order[i] # order[j]
      BY <1>0, <2>2
    <3> HIDE DEF entries
    <3> QED
      BY <3>1, <3>2, EntryOf
  <2> HIDE DEF E, entries, n
  <2> QED
    BY <1>0, <2>1, <2>2
<1>5. ToSet(entries) = E
  <2>1. \A i \in 1..n : entries[i] \in E
    BY <1>0
  <2>2. ASSUME NEW s \in S PROVE \E i \in 1..n : entries[i] = Entry(rows, s)
    <3>1. PICK i \in 1..n : order[i] = s
      BY <1>0
    <3> QED
      BY <1>0, <3>1
  <2> HIDE DEF entries, n
  <2> QED
    BY <1>4, <2>1, <2>2 DEF ToSet
<1>6. sorted \in Seq(E) /\ Len(sorted) = n /\ SortedBy(R, sorted) /\ ToSet(sorted) = E
  <2>1. \A x, y \in E : <<x, y>> \in R <=> Less(x, y)
    OBVIOUS
  <2> HIDE DEF E, R, entries
  <2> QED
    BY <1>3, <1>4, <1>5, <2>1, SortSorts
<1>7. DOMAIN sorted = 1..n /\ \A i \in 1..n : sorted[i] \in E
  <2> HIDE DEF sorted, E, n, R
  <2> QED
    BY <1>6
<1>8. \A i, j \in 1..n : i < j => Less(sorted[i], sorted[j])
  <2> HIDE DEF sorted, n
  <2> QED
    BY <1>6, <1>7 DEF SortedBy
<1>9. out = [i \in DOMAIN sorted |->
               IF leader > 0 /\ Compared(i, leader, sorted)
               THEN [sorted[i] EXCEPT !.p = PairedPValue(bySeed(leader), bySeed(i))] ELSE sorted[i]]
  <2> DEFINE t == [i \in DOMAIN sorted |->
                     IF leader > 0 /\ Compared(i, leader, sorted)
                     THEN [sorted[i] EXCEPT !.p = PairedPValue(bySeed(leader), bySeed(i))] ELSE sorted[i]]
  <2>1. out = Computed(t)
    BY DEF Leaderboard
  <2>2. DOMAIN t = 1..n
    BY <1>7
  <2> HIDE DEF t, n
  <2>3. t \in Seq({t[i] : i \in 1..n})
    <3>1. t = [i \in 1..n |-> t[i]]
      BY <2>2 DEF t
    <3> QED
      BY <1>0, <3>1
  <2> QED
    BY <2>1, <2>3, ComputedIs DEF t
<1>10. /\ leader \in Int
       /\ \A i \in 1..n : leader > 0 /\ Compared(i, leader, sorted) <=> i > 1 /\ Ranked(sorted[i])
       /\ \A i \in 1..n : leader > 0 /\ Compared(i, leader, sorted) => leader = 1
  <2> DEFINE I == {i \in 1..n : Ranked(sorted[i])}
  <2>1. leader = IF I # {} THEN Min(I) ELSE 0
    BY <1>6 DEF SelectInSeq
  <2> HIDE DEF leader, E, sorted, n
  <2>2. CASE I = {}
    BY <2>1, <2>2
  <2>3. CASE I # {}
    <3>1. PICK i \in 1..n : Ranked(sorted[i])
      BY <2>3
    <3>2. 1 \in 1..n /\ Ranked(sorted[1])
      <4>1. 1 \in 1..n /\ (i = 1 \/ 1 < i)
        BY <1>0
      <4>2. 1 < i => Less(sorted[1], sorted[i])
        BY <1>8, <4>1
      <4> QED
        BY <3>1, <4>1, <4>2 DEF Less
    <3>3. 1 \in I /\ \A y \in I : 1 =< y
      BY <1>0, <3>2
    <3>4. Min(I) = 1
      <4>1. \A x \in I : (\A y \in I : x =< y) => x = 1
        BY <1>0, <3>3
      <4> QED
        BY <3>3, <4>1 DEF Min
    <3> QED
      <4>1. leader = 1
        BY <2>1, <2>3, <3>4
      <4> HIDE DEF I
      <4> QED
        BY <1>0, <4>1 DEF Compared
  <2> QED
    BY <2>2, <2>3
<1> HIDE DEF sorted, E, n, out, leader, entries
<1>11. ASSUME NEW i \in 1..n
       PROVE  /\ out[i].submission = sorted[i].submission /\ out[i].submitted_at = sorted[i].submitted_at
              /\ out[i].runs = sorted[i].runs /\ out[i].metrics = sorted[i].metrics
              /\ out[i].p = IF i > 1 /\ Ranked(sorted[i]) THEN PairedPValue(bySeed(1), bySeed(i)) ELSE NaN
  <2> DEFINE e == sorted[i]
             v == PairedPValue(bySeed(leader), bySeed(i))
  <2>1. e.p = NaN /\ Rest(e)
    BY <1>1, <1>7
  <2>2. out[i] = IF i > 1 /\ Ranked(e) THEN [e EXCEPT !.p = v] ELSE e
    BY <1>7, <1>9, <1>10
  <2>3. i > 1 /\ Ranked(e) => leader = 1
    BY <1>10
  <2>4. LET f == [e EXCEPT !.p = v] IN
        /\ f.submission = e.submission /\ f.submitted_at = e.submitted_at
        /\ f.runs = e.runs /\ f.metrics = e.metrics /\ f.p = v
    <3> HIDE DEF e, v
    <3>1. DOMAIN e = {"submission", "submitted_at", "runs", "metrics", "p"}
      BY <2>1
    <3> QED
      BY <3>1
  <2>5. i > 1 /\ Ranked(e) => v = PairedPValue(bySeed(1), bySeed(i))
    BY <2>3
  <2> HIDE DEF v, bySeed
  <2> QED
    BY <2>1, <2>2, <2>4, <2>5
<1>12. DOMAIN out = 1..n
  BY <1>7, <1>9
<1>13. out \in Seq(ToSet(out)) /\ Len(out) = n
  <2>1. out = [i \in 1..n |-> out[i]]
    BY <1>7, <1>9, <1>12
  <2>2. \A i \in 1..n : out[i] \in ToSet(out)
    BY <1>12 DEF ToSet
  <2> HIDE DEF bySeed
  <2>3. out \in [1..n -> ToSet(out)]
    BY <2>1, <2>2
  <2> QED
    BY <1>0, <2>3
<1>14. ASSUME NEW i \in 1..n
       PROVE  IsEntry(out[i], rows) /\ (Ranked(out[i]) <=> Ranked(sorted[i])) /\ out[i].submission \in S
  <2>1. IsEntry(sorted[i], rows) /\ sorted[i].submission \in S
    BY <1>1, <1>7
  <2>2. (Ranked(out[i]) <=> Ranked(sorted[i])) /\ Metric(out[i], "mean") = Metric(sorted[i], "mean")
    BY <1>11 DEF Ranked, Metric
  <2> QED
    BY <1>11, <2>1, <2>2 DEF IsEntry
<1>15. ASSUME NEW i \in 1..n, NEW j \in 1..n, i < j PROVE Less(out[i], out[j])
  <2>1. Less(sorted[i], sorted[j])
    BY <1>8, <1>15
  <2>2. \A k \in 1..n : out[k].submitted_at = sorted[k].submitted_at /\ out[k].metrics = sorted[k].metrics
    BY <1>11
  <2> QED
    BY <2>1, <2>2 DEF Less, Ranked, Metric
<1>16. {out[i].submission : i \in 1..n} = S
  <2>1. ASSUME NEW s \in S PROVE \E i \in 1..n : out[i].submission = s
    <3>1. Entry(rows, s) \in ToSet(sorted)
      BY <1>6 DEF E
    <3>2. PICK i \in 1..n : sorted[i] = Entry(rows, s)
      BY <1>7, <3>1 DEF ToSet
    <3>3. Entry(rows, s).submission = s
      BY EntryOf
    <3> QED
      BY <1>11, <3>2, <3>3
  <2> QED
    BY <1>14, <2>1
<1>17. ASSUME NEW i \in 1..n
       PROVE  LET seeds(k) == ScoresBySeed(Of(rows, out[k].submission)) IN
              out[i].p = IF i > 1 /\ Ranked(out[i]) THEN PairedPValue(seeds(1), seeds(i)) ELSE NaN
  <2>1. i > 1 => 1 \in 1..n
    BY <1>0
  <2> QED
    BY <1>11, <1>14, <2>1
<1> QED
  BY <1>0, <1>12, <1>13, <1>14, <1>15, <1>16, <1>17 DEF n, out

\* The rows of a suite, as a reader has them, are those of the submissions that have
\* runs in it.
LEMMA RowsAre ==
    ASSUME Good(db), NEW u
    PROVE  /\ IsRows(RowsOf(OfSuite(u)))
           /\ {RowsOf(OfSuite(u))[i].submission : i \in DOMAIN RowsOf(OfSuite(u))} = Submitted(u)
           /\ Submitted(u) \in SUBSET Int /\ IsFiniteSet(Submitted(u))
<1> DEFINE ids == OfSuite(u)
           sorted == ByID(ids)
           rows == RowsOf(ids)
           n == Cardinality(ids)
<1>1. ids \in SUBSET DOMAIN db.runs /\ ids \in SUBSET Int /\ IsFiniteSet(ids)
  <2>1. Dense(DOMAIN db.runs)
    BY DEF Good
  <2>2. IsFiniteSet(DOMAIN db.runs) /\ DOMAIN db.runs \in SUBSET Int
    BY <2>1, DenseNext DEF Dense
  <2>3. ids \in SUBSET DOMAIN db.runs
    BY DEF OfSuite, HasSuite
  <2> HIDE DEF ids
  <2> QED
    BY <2>2, <2>3, FS_Subset
<1>2. /\ n \in Nat /\ sorted \in [1..n -> ids] /\ \A r \in ids : \E i \in 1..n : sorted[i] = r
  <2> HIDE DEF ids
  <2> QED
    BY <1>1, ByIDOf, FS_CardinalityType
<1>3. IsDatabase(db) /\ Dense(DOMAIN db.submissions)
  BY DEF Good
<1>4. ASSUME NEW r \in ids
      PROVE  /\ db.runs[r].submission_runs \in DOMAIN db.submissions
             /\ db.runs[r].submission_runs \in Int
             /\ RunScan(db.runs[r]).score \in Int \cup {NULL}
  <2>1. db.runs[r].submission_runs \in DOMAIN db.submissions
    BY <1>1, <1>3, RunsBelong
  <2>2. db.runs[r].score \in Int \cup {NULL}
    BY <1>1 DEF Good
  <2>3. "score" \in RunFields /\ "score" \notin {"seed", "worker_id"} \cup RunText
    BY DEF RunFields, RunOptional, RunOutcome, RunText
  <2> HIDE DEF ids
  <2>4. RunScan(db.runs[r]).score = db.runs[r].score
    BY <2>3 DEF RunScan, Scan
  <2> QED
    BY <1>3, <2>1, <2>2, <2>4 DEF Dense
<1> DEFINE row(r) == LET run == RunScan(db.runs[r]) IN
                     [id |-> r, submission |-> db.runs[r].submission_runs,
                      seed |-> run.seed, status |-> run.status, score |-> run.score]
<1>5. rows = [i \in DOMAIN sorted |-> row(sorted[i])]
  <2> DEFINE t == [i \in DOMAIN sorted |-> row(sorted[i])]
  <2>1. rows = Computed(t)
    BY DEF RowsOf
  <2>2. DOMAIN t = 1..n
    BY <1>2
  <2> HIDE DEF t, n
  <2>3. t \in Seq({t[i] : i \in 1..n})
    <3>1. t = [i \in 1..n |-> t[i]]
      BY <2>2 DEF t
    <3> QED
      BY <1>2, <3>1
  <2> QED
    BY <2>1, <2>3, ComputedIs DEF t
<1> HIDE DEF sorted, ids, n
<1>6. /\ DOMAIN rows = 1..n
      /\ \A i \in 1..n : /\ sorted[i] \in ids /\ rows[i] = row(sorted[i])
                         /\ rows[i].submission = db.runs[sorted[i]].submission_runs
                         /\ rows[i].score = RunScan(db.runs[sorted[i]]).score
  BY <1>2, <1>5
<1>7. IsRows(rows)
  <2>1. \A i \in 1..n : rows[i] \in ToSet(rows)
    BY <1>6 DEF ToSet
  <2>2. rows \in [1..n -> ToSet(rows)]
    BY <1>2, <1>5, <2>1
  <2> HIDE DEF rows
  <2>3. rows \in Seq(ToSet(rows))
    BY <1>2, <2>2
  <2>4. ASSUME NEW r \in ToSet(rows) PROVE r.submission \in Int /\ r.score \in Int \cup {NULL}
    <3>1. PICK i \in 1..n : r = rows[i]
      BY <1>6 DEF ToSet
    <3> QED
      BY <1>4, <1>6, <3>1
  <2> QED
    BY <2>3, <2>4 DEF IsRows
<1>8. {rows[i].submission : i \in 1..n} = {db.runs[r].submission_runs : r \in ids}
  <2> HIDE DEF rows, row
  <2>1. ASSUME NEW r \in ids
        PROVE  \E i \in 1..n : rows[i].submission = db.runs[r].submission_runs
    BY <1>2, <1>6
  <2> QED
    BY <1>6, <2>1
<1>9. Submitted(u) = {db.runs[r].submission_runs : r \in ids}
  BY DEF Submitted, ids
<1>10. Submitted(u) \in SUBSET Int /\ IsFiniteSet(Submitted(u))
  <2>1. IsFiniteSet(DOMAIN db.submissions)
    BY <1>3, DenseNext
  <2>2. Submitted(u) \in SUBSET DOMAIN db.submissions
    BY <1>4, <1>9
  <2> QED
    BY <1>4, <1>9, <2>1, <2>2, FS_Subset
<1> QED
  BY <1>6, <1>7, <1>8, <1>9, <1>10 DEF ids

\* The leaderboard has every submission with runs in the suite, by mean, those without a
\* score last, ties to the earlier one, however Go walks its maps.
THEOREM LeaderboardRanked == Spec => []BoardIsRanked
<1>1. ASSUME ConsoleInv PROVE BoardIsRanked
  <2> SUFFICES ASSUME NEW u \in DOMAIN db.suites, NEW order \in SetToSeqs(Submitted(u))
               PROVE  LET out == Leaderboard(RowsOf(OfSuite(u)), order)
                          mean(i) == Metric(out[i], "mean")
                      IN /\ {out[i].submission : i \in DOMAIN out} = Submitted(u)
                         /\ \A i, j \in DOMAIN out : i < j =>
                               \/ Ranked(out[i]) /\ ~Ranked(out[j])
                               \/ Ranked(out[i]) /\ Ranked(out[j]) /\ mean(i) > mean(j)
                               \/ /\ Ranked(out[i]) <=> Ranked(out[j])
                                  /\ Ranked(out[i]) => mean(i) = mean(j)
                                  /\ out[i].submission < out[j].submission
    BY DEF BoardIsRanked
  <2> DEFINE rows == RowsOf(OfSuite(u))
             out == Leaderboard(rows, order)
  <2>1. IsRows(rows) /\ Submitted(u) \in SUBSET Int /\ IsFiniteSet(Submitted(u))
    BY <1>1, RowsAre DEF ConsoleInv, Fine
  <2> HIDE DEF rows
  <2>2. /\ {out[i].submission : i \in DOMAIN out} = Submitted(u)
        /\ \A i \in DOMAIN out : IsEntry(out[i], rows)
        /\ \A i, j \in DOMAIN out : i < j => Less(out[i], out[j])
    BY <2>1, BoardIs
  <2> HIDE DEF out
  <2>3. ASSUME NEW i \in DOMAIN out, NEW j \in DOMAIN out, i < j
        PROVE  \/ Ranked(out[i]) /\ ~Ranked(out[j])
               \/ Ranked(out[i]) /\ Ranked(out[j]) /\ Metric(out[i], "mean") > Metric(out[j], "mean")
               \/ /\ Ranked(out[i]) <=> Ranked(out[j])
                  /\ Ranked(out[i]) => Metric(out[i], "mean") = Metric(out[j], "mean")
                  /\ out[i].submission < out[j].submission
    <3>1. Less(out[i], out[j])
      BY <2>2, <2>3
    <3>2. out[i].submitted_at = out[i].submission /\ out[j].submitted_at = out[j].submission
      BY <2>2 DEF IsEntry
    <3> QED
      BY <3>1, <3>2 DEF Less
  <2> QED
    BY <2>2, <2>3 DEF rows, out
<1> QED
  BY <1>1, ConsoleInvariant, PTL

\* The map from seeds to scores has integers at the seeds, and is empty without scores.
LEMMA BySeedIs ==
    ASSUME NEW rows, NEW X, Scored(rows) \in Seq({r \in X : r.score \in Int})
    PROVE  /\ \A x \in DOMAIN ScoresBySeed(rows) : ScoresBySeed(rows)[x] \in Int
           /\ IsFiniteSet(DOMAIN ScoresBySeed(rows))
           /\ ScoresOf(rows) = <<>> => DOMAIN ScoresBySeed(rows) = {}
<1> DEFINE s == Scored(rows)
           n == Len(s)
           D == {s[i].seed : i \in 1..n}
           V == UNION {[P -> Int] : P \in SUBSET D}
           one(i) == [x \in {s[i].seed} |-> s[i].score]
           F == [z \in V \X (1..n) |-> one(z[2]) ++ z[1]]
           Solves(g) == g = [S \in SUBSET DOMAIN s |->
                               IF S = {} THEN <<>> ELSE one(Max(S)) ++ g[S \ {Max(S)}]]
           g == CHOOSE g : Solves(g)
<1>0. n \in Nat /\ DOMAIN s = 1..n /\ \A k \in 1..n : s[k].score \in Int
  OBVIOUS
<1>1. ScoresBySeed(rows) = g[DOMAIN s]
  BY DEF ScoresBySeed, FoldLeft, MapThenFoldSet
<1>2. ASSUME NEW acc \in V, NEW k \in 1..n PROVE one(k) ++ acc \in V
  <2>1. PICK P \in SUBSET D : acc \in [P -> Int]
    OBVIOUS
  <2>2. s[k].seed \in D /\ s[k].score \in Int
    BY <1>0
  <2>3. P \cup {s[k].seed} \in SUBSET D
    BY <2>2
  <2>4. one(k) ++ acc \in [P \cup {s[k].seed} -> Int]
    <3> HIDE DEF D, n, s
    <3> QED
      BY <2>1, <2>2 DEF ++
  <2> HIDE DEF D
  <2> QED
    BY <2>3, <2>4
<1>3. F \in [V \X (1..n) -> V]
  <2> HIDE DEF V, n, one
  <2> QED
    BY <1>2
<1>4. <<>> \in V
  <2>1. <<>> \in [{} -> Int]
    OBVIOUS
  <2> QED
    BY <2>1
<1>5. PICK h \in [SUBSET (1..n) -> V] : FoldsWith(h, F, <<>>, n)
  <2> HIDE DEF F, V, n
  <2> QED
    BY <1>0, <1>3, <1>4, FoldSolved
<1>6. Solves(h)
  <2>1. ASSUME NEW S \in SUBSET (1..n), S # {}
        PROVE  F[<<h[S \ {Max(S)}], Max(S)>>] = one(Max(S)) ++ h[S \ {Max(S)}]
    <3>1. Max(S) \in 1..n
      BY <1>0, <2>1, LastIn
    <3>2. h[S \ {Max(S)}] \in V
      OBVIOUS
    <3> HIDE DEF V, n, one
    <3> QED
      BY <3>1, <3>2
  <2> HIDE DEF F, V, n, one
  <2> QED
    BY <1>0, <1>5, <2>1 DEF FoldsWith
<1>7. Solves(g)
  <2> HIDE DEF Solves
  <2> QED
    BY <1>6
<1> HIDE DEF g, F, V, n, one, s
<1>8. \A k \in Nat : k <= n => g[1..k] \in V
  <2> DEFINE N == {k \in Nat : k <= n => g[1..k] \in V}
  <2>1. 0 \in N /\ (n = 0 => g[DOMAIN s] = <<>>)
    <3>1. 1..0 = {} /\ {} \in SUBSET DOMAIN s /\ (n = 0 => DOMAIN s = {})
      BY <1>0
    <3> QED
      BY <1>4, <1>7, <3>1
  <2>2. ASSUME NEW k \in N PROVE k + 1 \in N
    <3> SUFFICES ASSUME k + 1 <= n PROVE g[1..k + 1] \in V
      OBVIOUS
    <3>1. k \in Nat /\ k + 1 \in 1..n /\ k <= n /\ (k + 1) - 1 = k
      BY <1>0
    <3>2. /\ 1..k + 1 # {} /\ 1..k + 1 \in SUBSET (1..n)
          /\ Max(1..k + 1) = k + 1 /\ (1..k + 1) \ {Max(1..k + 1)} = 1 .. (k + 1) - 1
      BY <1>0, <3>1, FirstNumbers
    <3>3. g[1..k + 1] = one(k + 1) ++ g[1..k]
      BY <1>0, <1>7, <3>1, <3>2
    <3> QED
      BY <1>2, <3>1, <3>3
  <2>3. N = Nat
    <3> HIDE DEF N
    <3> QED
      BY <2>1, <2>2, NumbersInduct, N \subseteq Nat DEF N
  <2> QED
    BY <2>3
<1>9. ScoresBySeed(rows) \in V
  BY <1>0, <1>1, <1>8
<1>10. \A x \in DOMAIN ScoresBySeed(rows) : ScoresBySeed(rows)[x] \in Int
  BY <1>9 DEF V
<1>11. ASSUME ScoresOf(rows) = <<>> PROVE DOMAIN ScoresBySeed(rows) = {}
  <2>1. ScoresOf(rows) = [i \in DOMAIN s |-> s[i].score]
    BY DEF ScoresOf, s
  <2>2. DOMAIN s = {}
    BY <1>11, <2>1
  <2>3. g[DOMAIN s] = <<>>
    BY <1>7, <2>2
  <2> QED
    BY <1>1, <2>3
<1>12. IsFiniteSet(DOMAIN ScoresBySeed(rows))
  <2> DEFINE f == [i \in 1..n |-> s[i].seed]
  <2>1. f \in Surjection(1..n, D)
    BY DEF Surjection, D
  <2>2. IsFiniteSet(1..n)
    BY <1>0, FS_Interval
  <2>3. IsFiniteSet(D)
    BY <2>1, <2>2, FS_Surjection
  <2>4. DOMAIN ScoresBySeed(rows) \in SUBSET D
    BY <1>9 DEF V
  <2> QED
    BY <2>3, <2>4, FS_Subset
<1> QED
  BY <1>10, <1>11, <1>12

\* What a p-value says.
LEMMA PairedPValueIs ==
    ASSUME NEW a, NEW b, \A x \in DOMAIN a : a[x] \in Int, \A x \in DOMAIN b : b[x] \in Int,
           IsFiniteSet(Common(a, b))
    PROVE  /\ PairedPValue(a, b) # NaN <=> Cardinality(Common(a, b)) >= 2
           /\ PairedPValue(a, b) = "1" <=>
                 /\ PairedPValue(a, b) # NaN
                 /\ SumFunction([x \in Common(a, b) |-> a[x]])
                       = SumFunction([x \in Common(a, b) |-> b[x]])
<1> DEFINE D == Common(a, b)
           f == [x \in D |-> a[x]]
           h == [x \in D |-> b[x]]
           diff == Differences(a, b)
<1>1. f \in [D -> Int] /\ h \in [D -> Int] /\ diff = [x \in D |-> f[x] - h[x]]
  BY DEF Common, Differences
<1>2. DOMAIN diff = D /\ DOMAIN f = D /\ DOMAIN h = D
  BY <1>1
<1> HIDE DEF D, f, h, diff
<1>3. SumFunction(diff) = SumFunction(f) - SumFunction(h)
  BY <1>1, SumOfDifferences DEF D
<1>4. SumFunction(f) \in Int /\ SumFunction(h) \in Int /\ Cardinality(D) \in Nat
  <2>1. IsFiniteSet(D)
    BY DEF D
  <2>2. PICK g : IsSum(g, f, D) /\ SumFunction(f) = g[D]
    BY <1>1, <1>2, <2>1, SumFunctionOf
  <2>3. PICK k : IsSum(k, h, D) /\ SumFunction(h) = k[D]
    BY <1>1, <1>2, <2>1, SumFunctionOf
  <2> QED
    BY <2>1, <2>2, <2>3, FS_CardinalityType DEF IsSum
<1>5. PairedPValue(a, b) = IF Cardinality(D) < 2 THEN NaN
                           ELSE IF SumFunction(diff) = 0 THEN "1"
                           ELSE IF Cardinality(Range(diff)) = 1 THEN "0" ELSE "between"
  BY <1>2 DEF PairedPValue, diff
<1>6. SumFunction(diff) = 0 <=> SumFunction(f) = SumFunction(h)
  BY <1>3, <1>4
<1> DEFINE zero == SumFunction(diff) = 0
           flat == Cardinality(Range(diff)) = 1
<1>7. PairedPValue(a, b) = IF Cardinality(D) < 2 THEN NaN
                           ELSE IF zero THEN "1" ELSE IF flat THEN "0" ELSE "between"
  BY <1>5
<1> HIDE DEF zero, flat
<1>8. /\ PairedPValue(a, b) # NaN <=> Cardinality(D) >= 2
      /\ PairedPValue(a, b) = "1" <=> PairedPValue(a, b) # NaN /\ zero
  BY <1>4, <1>7 DEF NaN
<1> QED
  BY <1>6, <1>8 DEF zero, D, f, h

\* The p-values compare with the leader: two seeds to pair make a p-value, and
\* equal totals of the paired scores, and only those, make it 1.
THEOREM ComparedWithLeader == Spec => []LeaderIsCompared
<1>1. ASSUME ConsoleInv PROVE LeaderIsCompared
  <2> SUFFICES ASSUME NEW u \in DOMAIN db.suites
               PROVE  LET rows == RowsOf(OfSuite(u))
                          out == BoardOf(u)
                          seeds(i) == ScoresBySeed(Of(rows, out[i].submission))
                          common(i) == Common(seeds(1), seeds(i))
                          total(k, i) == SumFunction([x \in common(i) |-> seeds(k)[x]])
                      IN \A i \in DOMAIN out :
                            /\ out[i].p # NaN <=> i > 1 /\ Cardinality(common(i)) >= 2
                            /\ out[i].p = "1" <=> out[i].p # NaN /\ total(1, i) = total(i, i)
    BY DEF LeaderIsCompared
  <2> DEFINE rows == RowsOf(OfSuite(u))
             out == BoardOf(u)
             own(i) == Of(rows, out[i].submission)
             seeds(i) == ScoresBySeed(own(i))
             common(i) == Common(seeds(1), seeds(i))
             total(k, i) == SumFunction([x \in common(i) |-> seeds(k)[x]])
  <2>1. IsRows(rows) /\ Submitted(u) \in SUBSET Int /\ IsFiniteSet(Submitted(u))
    BY <1>1, RowsAre DEF ConsoleInv, Fine
  <2>2. out = Leaderboard(rows, ByID(Submitted(u)))
    BY DEF BoardOf
  <2> HIDE DEF rows, out
  <2>3. ByID(Submitted(u)) \in SetToSeqs(Submitted(u))
    BY <2>1, ByIDOrders
  <2>4. /\ DOMAIN out = 1..Cardinality(Submitted(u)) /\ Cardinality(Submitted(u)) \in Nat
        /\ \A i \in DOMAIN out : IsEntry(out[i], rows)
        /\ \A i \in DOMAIN out :
              out[i].p = IF i > 1 /\ Ranked(out[i]) THEN PairedPValue(seeds(1), seeds(i)) ELSE NaN
    BY <2>1, <2>2, <2>3, BoardIs
  <2>5. ASSUME NEW i \in DOMAIN out
        PROVE  /\ \A x \in DOMAIN seeds(i) : seeds(i)[x] \in Int
               /\ IsFiniteSet(DOMAIN seeds(i))
               /\ ~Ranked(out[i]) => DOMAIN seeds(i) = {}
    <3>1. Scored(own(i)) \in Seq({r \in ToSet(rows) : r.score \in Int})
      BY <2>1, ScoresAre
    <3>2. ~Ranked(out[i]) => ScoresOf(own(i)) = <<>>
      BY <2>4 DEF IsEntry
    <3> QED
      BY <3>1, <3>2, BySeedIs
  <2> HIDE DEF own, seeds
  <2>6. ASSUME NEW i \in DOMAIN out
        PROVE  /\ out[i].p # NaN <=> i > 1 /\ Cardinality(common(i)) >= 2
               /\ out[i].p = "1" <=> out[i].p # NaN /\ total(1, i) = total(i, i)
    <3>1. 1 \in DOMAIN out /\ i \in Int
      BY <2>4
    <3>2. IsFiniteSet(common(i)) /\ Cardinality(common(i)) \in Nat
      BY <2>5, FS_Subset, FS_CardinalityType DEF Common
    <3>3. /\ PairedPValue(seeds(1), seeds(i)) # NaN <=> Cardinality(common(i)) >= 2
          /\ PairedPValue(seeds(1), seeds(i)) = "1" <=>
                PairedPValue(seeds(1), seeds(i)) # NaN /\ total(1, i) = total(i, i)
      BY ZenonT(40), <2>5, <3>1, <3>2, PairedPValueIs
    <3>4. ~Ranked(out[i]) => ~(Cardinality(common(i)) >= 2)
      <4>1. ~Ranked(out[i]) => common(i) = {}
        BY <2>5 DEF Common
      <4> QED
        BY <4>1, FS_EmptySet
    <3>5. "1" # NaN
      BY DEF NaN
    <3> HIDE DEF total, common
    <3>6. CASE i > 1 /\ Ranked(out[i])
      BY <2>4, <3>3, <3>6
    <3>7. CASE ~(i > 1 /\ Ranked(out[i]))
      BY <2>4, <3>4, <3>5, <3>7
    <3> QED
      BY <3>6, <3>7
  <2> QED
    BY <2>6 DEF rows, out, own, seeds
<1> QED
  BY <1>1, ConsoleInvariant, PTL

-----------------------------------------------------------------------------
(* The distributions and the page's table.                                *)

MeanIn(rows, s) == Mean(ScoresOf(Of(rows, s)))

SubmissionsIn(rows) == {rows[i].submission : i \in DOMAIN rows}

\* The submissions that have a score.
ScoredIn(rows) ==
    {s \in {rows[i].submission : i \in DOMAIN rows} : ScoresOf(Of(rows, s)) # <<>>}

MeanOrder(rows) ==
    {z \in ScoredIn(rows) \X ScoredIn(rows) :
        \/ MeanIn(rows, z[1]) > MeanIn(rows, z[2])
        \/ MeanIn(rows, z[1]) = MeanIn(rows, z[2]) /\ z[1] < z[2]}

\* The order of the distributions is a strict total order of the scored submissions.
LEMMA MeanOrders ==
    ASSUME NEW rows, IsRows(rows)
    PROVE  /\ ScoredIn(rows) \in SUBSET Int
           /\ \A s \in ScoredIn(rows) : MeanIn(rows, s) \in Int
           /\ Orders(MeanOrder(rows), ScoredIn(rows))
<1> DEFINE S == ScoredIn(rows)
           R == MeanOrder(rows)
           mean(s) == MeanIn(rows, s)
<1>1. ASSUME NEW s \in S PROVE s \in Int /\ mean(s) \in Int
  <2>1. PICK i \in DOMAIN rows : rows[i].submission = s
    BY DEF ScoredIn
  <2>2. rows[i] \in ToSet(rows)
    BY DEF ToSet
  <2>3. s \in Int
    BY <2>1, <2>2 DEF IsRows
  <2>4. ScoresOf(Of(rows, s)) \in Seq(Int) /\ ScoresOf(Of(rows, s)) # <<>>
    BY ScoresAre DEF ScoredIn
  <2> QED
    BY <2>3, <2>4, MeanIs DEF MeanIn
<1>2. ASSUME NEW a \in S, NEW b \in S
      PROVE  <<a, b>> \in R <=> mean(a) > mean(b) \/ (mean(a) = mean(b) /\ a < b)
  <2> HIDE DEF S
  <2>1. R = {z \in S \X S : mean(z[1]) > mean(z[2]) \/ (mean(z[1]) = mean(z[2]) /\ z[1] < z[2])}
    BY DEF MeanOrder, S
  <2> HIDE DEF R, mean
  <2> QED
    BY <2>1
<1> HIDE DEF S, R, mean
<1>3. Orders(R, S)
  <2>1. ASSUME NEW a \in S, NEW b \in S, NEW c \in S, <<a, b>> \in R, <<b, c>> \in R
        PROVE  <<a, c>> \in R
    BY <1>1, <1>2, <2>1
  <2>2. ASSUME NEW a \in S PROVE <<a, a>> \notin R
    BY <1>1, <1>2
  <2>3. ASSUME NEW a \in S, NEW b \in S, a # b PROVE <<a, b>> \in R \/ <<b, a>> \in R
    <3>1. /\ a \in Int /\ b \in Int /\ mean(a) \in Int /\ mean(b) \in Int
          /\ (<<a, b>> \in R <=> mean(a) > mean(b) \/ (mean(a) = mean(b) /\ a < b))
          /\ (<<b, a>> \in R <=> mean(b) > mean(a) \/ (mean(b) = mean(a) /\ b < a))
      BY <1>1, <1>2
    <3> QED
      BY <2>3, <3>1
  <2> QED
    BY <2>1, <2>2, <2>3 DEF Orders
<1> QED
  BY <1>1, <1>3 DEF S, R, mean

\* The distributions getDistributions has to list.
DistributionsIn(rows) == {Distribution(rows, s) : s \in ScoredIn(rows)}

\* An answer of getDistributions has the distribution of every scored submission once.
LEMMA DistributionsOf ==
    ASSUME NEW rows, IsRows(rows), NEW out \in Distributions(rows)
    PROVE  \E n \in Nat :
              /\ out \in [1..n -> DistributionsIn(rows)]
              /\ \A i, j \in 1..n : i # j => out[i] # out[j]
              /\ \A x \in DistributionsIn(rows) : \E i \in 1..n : out[i] = x
              /\ \A i, j \in 1..n : i < j => ~DistributionLess(out[j], out[i])
<1> DEFINE S == ScoredIn(rows)
           D == {Distribution(rows, s) : s \in S}
           n == Cardinality(D)
<1>0. IsFiniteSet(D)
  <2> DEFINE f == [i \in DOMAIN rows |-> rows[i].submission]
             T == {rows[i].submission : i \in DOMAIN rows}
             h == [s \in S |-> Distribution(rows, s)]
  <2>1. DOMAIN rows = 1..Len(rows) /\ Len(rows) \in Nat
    BY DEF IsRows
  <2>2. IsFiniteSet(DOMAIN rows)
    BY <2>1, FS_Interval
  <2>3. f \in Surjection(DOMAIN rows, T)
    BY DEF Surjection
  <2>4. IsFiniteSet(T)
    BY <2>2, <2>3, FS_Surjection
  <2>5. S \in SUBSET T
    BY DEF ScoredIn
  <2>6. IsFiniteSet(S)
    BY <2>4, <2>5, FS_Subset
  <2>7. h \in Surjection(S, D)
    BY DEF Surjection
  <2> QED
    BY <2>6, <2>7, FS_Surjection
<1>1. out \in SetToSeqs(D) /\ \A i, j \in DOMAIN out : i < j => ~DistributionLess(out[j], out[i])
  BY DEF Distributions, SomeSort, ScoredIn
<1>2. /\ n \in Nat /\ out \in [1..n -> D]
      /\ \A i, j \in 1..n : i # j => out[i] # out[j]
      /\ \A x \in D : \E i \in 1..n : out[i] = x
  <2> HIDE DEF D
  <2> QED
    BY <1>0, <1>1, OrdersAll
<1> HIDE DEF n
<1>3. D = DistributionsIn(rows)
  BY DEF DistributionsIn
<1> HIDE DEF D
<1>4. DOMAIN out = 1..n
  BY <1>2
<1> QED
  BY <1>1, <1>2, <1>3, <1>4

\* Each of them carries its submission's own scores.
LEMMA DistributionsHave ==
    ASSUME NEW rows, IsRows(rows), NEW out \in Distributions(rows)
    PROVE  \E n \in Nat : /\ DOMAIN out = 1..n
                         /\ \A k \in 1..n : out[k].scores = ScoresOf(Of(rows, out[k].submission))
<1> DEFINE D == DistributionsIn(rows)
<1>1. PICK n \in Nat : out \in [1..n -> D]
  BY DistributionsOf
<1>2. \A e \in D : e.scores = ScoresOf(Of(rows, e.submission))
  BY DEF Distribution, DistributionsIn
<1> HIDE DEF D
<1>3. DOMAIN out = 1..n /\ \A k \in 1..n : out[k] \in D
  BY <1>1
<1> QED
  BY <1>1, <1>2, <1>3

\* Any answer of getDistributions lists them in that order.
LEMMA DistributionsAre ==
    ASSUME NEW rows, IsRows(rows), NEW out \in Distributions(rows)
    PROVE  \E n : Lists(IDs(out), n, MeanOrder(rows), ScoredIn(rows))
<1> DEFINE S == ScoredIn(rows)
           D == {Distribution(rows, s) : s \in S}
           ids == IDs(out)
<1>0. PICK n \in Nat : /\ out \in [1..n -> D]
                       /\ \A i, j \in 1..n : i # j => out[i] # out[j]
                       /\ \A x \in D : \E i \in 1..n : out[i] = x
                       /\ \A i, j \in 1..n : i < j => ~DistributionLess(out[j], out[i])
  BY DistributionsOf DEF DistributionsIn
<1>1. \A i, j \in 1..n : i < j => ~DistributionLess(out[j], out[i])
  BY <1>0
<1>2. /\ n \in Nat /\ out \in [1..n -> D]
      /\ \A i, j \in 1..n : i # j => out[i] # out[j]
      /\ \A x \in D : \E i \in 1..n : out[i] = x
  BY <1>0
<1>3. \A e \in D : /\ e.submission \in S /\ e = Distribution(rows, e.submission)
                   /\ e.submitted_at = e.submission /\ Mean(e.scores) = MeanIn(rows, e.submission)
  BY DEF Distribution, MeanIn
<1>4. \A s \in S : Distribution(rows, s) \in D /\ Distribution(rows, s).submission = s
  BY DEF Distribution
<1>5. ids = [i \in DOMAIN out |-> out[i].submission]
  BY DEF IDs
<1> HIDE DEF ids, D
<1>6. DOMAIN out = 1..n /\ DOMAIN ids = 1..n /\ \A i \in 1..n : out[i] \in D /\ ids[i] = out[i].submission
  BY <1>2, <1>5
<1>7. ids \in [1..n -> S] /\ \A x \in S : \E i \in 1..n : ids[i] = x
  <2>1. ASSUME NEW x \in S PROVE \E i \in 1..n : ids[i] = x
    BY <1>2, <1>4, <1>6
  <2>2. \A i \in 1..n : ids[i] \in S
    BY <1>3, <1>6
  <2>3. ids = [i \in 1..n |-> ids[i]]
    BY <1>5, <1>6
  <2> HIDE DEF S
  <2> QED
    BY <2>1, <2>2, <2>3
<1>8. ASSUME NEW i \in 1..n, NEW j \in 1..n, i < j PROVE <<ids[i], ids[j]>> \in MeanOrder(rows)
  <2>1. out[i] # out[j]
    BY <1>2, <1>8
  <2>2. ids[i] # ids[j] /\ ids[i] \in S /\ ids[j] \in S
    BY <1>3, <1>6, <2>1
  <2>3. ~DistributionLess(out[j], out[i])
    BY <1>1, <1>6, <1>8
  <2>4. <<ids[j], ids[i]>> \notin MeanOrder(rows)
    BY <1>3, <1>6, <2>3 DEF DistributionLess, MeanOrder
  <2>5. Orders(MeanOrder(rows), S)
    BY MeanOrders
  <2> HIDE DEF S
  <2> QED
    BY <2>2, <2>4, <2>5 DEF Orders
<1> QED
  BY <1>2, <1>7, <1>8 DEF Lists, ids

\* And so do the scored entries of the leaderboard.
LEMMA ScoredEntriesAre ==
    ASSUME NEW rows, IsRows(rows), NEW S \in SUBSET Int, IsFiniteSet(S),
           NEW order \in SetToSeqs(S), SubmissionsIn(rows) = S
    PROVE  LET board == Leaderboard(rows, order)
               scored == Among(board, {i \in DOMAIN board : Ranked(board[i])})
           IN \E n : Lists(IDs(scored), n, MeanOrder(rows), ScoredIn(rows))
<1> DEFINE board == Leaderboard(rows, order)
           I == {i \in DOMAIN board : Ranked(board[i])}
           scored == Among(board, I)
           E == ToSet(board)
           n == Cardinality(I)
           ids == IDs(scored)
<1>1. /\ board \in Seq(E)
      /\ {board[i].submission : i \in DOMAIN board} = S
      /\ \A i \in DOMAIN board : IsEntry(board[i], rows)
      /\ \A i, j \in DOMAIN board : i < j => Less(board[i], board[j])
  <2>1. IsRows(rows) /\ S \in SUBSET Int /\ IsFiniteSet(S) /\ order \in SetToSeqs(S)
    OBVIOUS
  <2> QED
    BY <2>1, BoardIs
<1> HIDE DEF board
<1>2. /\ n \in Nat /\ DOMAIN scored = 1..n
      /\ ByID(I) \in [1..n -> I] /\ Increasing(ByID(I))
      /\ \A x \in I : \E k \in 1..n : ByID(I)[k] = x
      /\ \A k \in 1..n : scored[k] = board[ByID(I)[k]]
  <2>1. I \in SUBSET DOMAIN board
    OBVIOUS
  <2> HIDE DEF I, E
  <2> QED
    BY <1>1, <2>1, AmongOf
<1>3. ASSUME NEW i \in I
      PROVE  /\ i \in DOMAIN board /\ Ranked(board[i]) /\ board[i].submission \in ScoredIn(rows)
             /\ board[i].submitted_at = board[i].submission
             /\ Metric(board[i], "mean") = MeanIn(rows, board[i].submission)
  <2>1. i \in DOMAIN board /\ Ranked(board[i]) /\ IsEntry(board[i], rows)
    BY <1>1
  <2>2. board[i].submission \in {rows[j].submission : j \in DOMAIN rows}
    BY <1>1, <2>1 DEF SubmissionsIn
  <2> QED
    BY <2>1, <2>2 DEF IsEntry, ScoredIn, MeanIn
<1>4. ASSUME NEW s \in ScoredIn(rows) PROVE \E i \in I : board[i].submission = s
  <2>1. s \in S /\ ScoresOf(Of(rows, s)) # <<>>
    BY DEF ScoredIn, SubmissionsIn
  <2>2. PICK i \in DOMAIN board : board[i].submission = s
    BY <1>1, <2>1
  <2> QED
    BY <1>1, <2>1, <2>2 DEF IsEntry
<1>5. ids = [i \in DOMAIN scored |-> scored[i].submission]
  BY DEF IDs
<1> HIDE DEF n, ids, scored, I, E
<1>6. \A k \in 1..n : ByID(I)[k] \in I /\ ids[k] = board[ByID(I)[k]].submission
  BY <1>2, <1>5
<1>7. ids \in [1..n -> ScoredIn(rows)]
  BY <1>2, <1>3, <1>5, <1>6
<1>8. ASSUME NEW s \in ScoredIn(rows) PROVE \E k \in 1..n : ids[k] = s
  BY <1>2, <1>4, <1>6
<1>9. ASSUME NEW k \in 1..n, NEW l \in 1..n, k < l PROVE <<ids[k], ids[l]>> \in MeanOrder(rows)
  <2> DEFINE x == ByID(I)[k]
             y == ByID(I)[l]
  <2>1. x \in I /\ y \in I /\ x < y /\ ids[k] = board[x].submission /\ ids[l] = board[y].submission
    BY <1>2, <1>6, <1>9 DEF Increasing
  <2> HIDE DEF x, y
  <2>2. Less(board[x], board[y])
    BY <1>1, <1>3, <2>1
  <2> QED
    BY <1>3, <2>1, <2>2 DEF Less, MeanOrder
<1> QED
  BY <1>2, <1>7, <1>8, <1>9 DEF Lists, board, scored, ids, I

\* /distributions lists what the leaderboard ranks, in its order.
THEOREM DistributionsFollow == Spec => []DistributionsLineUp
<1>1. ASSUME ConsoleInv PROVE DistributionsLineUp
  <2> SUFFICES ASSUME NEW u \in DOMAIN db.suites, NEW out \in Distributions(RowsOf(OfSuite(u)))
               PROVE  LET board == BoardOf(u)
                          scored == Among(board, {i \in DOMAIN board : Ranked(board[i])})
                      IN IDs(out) = IDs(scored)
    BY DEF DistributionsLineUp
  <2> DEFINE rows == RowsOf(OfSuite(u))
             S == Submitted(u)
             board == Leaderboard(rows, ByID(S))
             scored == Among(board, {i \in DOMAIN board : Ranked(board[i])})
  <2>1. /\ IsRows(rows) /\ S \in SUBSET Int /\ IsFiniteSet(S)
        /\ SubmissionsIn(rows) = S
    BY <1>1, RowsAre DEF ConsoleInv, Fine, SubmissionsIn
  <2>2. BoardOf(u) = board
    BY DEF BoardOf
  <2>3. ByID(S) \in SetToSeqs(S)
    BY <2>1, ByIDOrders
  <2> HIDE DEF rows, S
  <2>4. \E n : Lists(IDs(scored), n, MeanOrder(rows), ScoredIn(rows))
    BY <2>1, <2>3, ScoredEntriesAre
  <2>5. \E n : Lists(IDs(out), n, MeanOrder(rows), ScoredIn(rows))
    BY <2>1, DistributionsAre DEF rows
  <2> HIDE DEF scored, board
  <2>6. Orders(MeanOrder(rows), ScoredIn(rows))
    BY <2>1, MeanOrders
  <2>7. IDs(out) = IDs(scored)
    BY <2>4, <2>5, <2>6, OneList
  <2> QED
    BY <2>2, <2>7 DEF scored, board
<1> QED
  BY <1>1, ConsoleInvariant, PTL

RowLess(a, b) == ColumnLess(a, b, "mean", "desc")

\* The insertion of one entry into the table.
PlacedRow(acc, x) ==
    LET I == {i \in 1..Len(acc) : ~RowLess(x, acc[i])}
    IN InsertAt(acc, 1 + (IF I # {} THEN Max(I) ELSE 0), x)

\* Placing a row adds no other.
LEMMA PlacedRowIn ==
    ASSUME NEW E, NEW acc \in Seq(E), NEW x \in E
    PROVE  PlacedRow(acc, x) \in Seq(E)
<1> DEFINE I == {i \in 1..Len(acc) : ~RowLess(x, acc[i])}
           p == IF I # {} THEN Max(I) ELSE 0
<1>1. p \in 0..Len(acc)
  <2>1. I \in SUBSET (1..Len(acc)) /\ Len(acc) \in Nat
    OBVIOUS
  <2> HIDE DEF I
  <2> QED
    BY <2>1, LastAmong
<1>2. PlacedRow(acc, x) = InsertAt(acc, 1 + p, x)
  BY DEF PlacedRow
<1> HIDE DEF p
<1>3. 1 + p = p + 1
  BY <1>1
<1> QED
  BY <1>1, <1>2, <1>3, InsertAtOf

\* An entry that precedes none of those in front of it goes to the end.
LEMMA PlacedLast ==
    ASSUME NEW E, NEW acc \in Seq(E), NEW x \in E,
           \A i \in 1..Len(acc) : ~RowLess(x, acc[i])
    PROVE  /\ PlacedRow(acc, x) \in Seq(E) /\ Len(PlacedRow(acc, x)) = Len(acc) + 1
           /\ \A i \in 1..Len(acc) + 1 :
                 PlacedRow(acc, x)[i] = IF i <= Len(acc) THEN acc[i] ELSE x
<1> DEFINE n == Len(acc)
           I == {i \in 1..n : ~RowLess(x, acc[i])}
           p == IF I # {} THEN Max(I) ELSE 0
<1>0. n \in Nat
  OBVIOUS
<1>1. I = 1..n
  OBVIOUS
<1>2. p = n
  <2>1. CASE n = 0
    BY <1>1, <2>1
  <2>2. CASE n # 0
    <3>1. n \in 1..n /\ 1..n # {} /\ Max(1..n) = n
      BY <1>0, <2>2, FirstNumbers
    <3> HIDE DEF I, n
    <3> QED
      BY <1>1, <3>1
  <2> QED
    BY <2>1, <2>2
<1>3. PlacedRow(acc, x) = InsertAt(acc, 1 + p, x)
  BY DEF PlacedRow
<1> HIDE DEF p
<1>4. PlacedRow(acc, x) = InsertAt(acc, n + 1, x) /\ n \in 0..Len(acc)
  BY <1>0, <1>2, <1>3
<1> HIDE DEF n
<1> DEFINE t == InsertAt(acc, n + 1, x)
<1>5. /\ t \in Seq(E) /\ Len(t) = Len(acc) + 1
      /\ \A i \in 1..Len(acc) + 1 :
            t[i] = IF i <= n THEN acc[i] ELSE IF i = n + 1 THEN x ELSE acc[i - 1]
  <2>1. \A p1 \in 0..Len(acc) : LET u == InsertAt(acc, p1 + 1, x) IN
           /\ u \in Seq(E) /\ Len(u) = Len(acc) + 1
           /\ \A i \in 1..Len(acc) + 1 :
                 u[i] = IF i <= p1 THEN acc[i] ELSE IF i = p1 + 1 THEN x ELSE acc[i - 1]
    BY InsertAtOf
  <2> QED
    BY <1>4, <2>1
<1> HIDE DEF t
<1>6. \A i \in 1..n + 1 : ~(i <= n) => i = n + 1
  BY <1>0
<1> QED
  BY <1>4, <1>5, <1>6 DEF n, t

\* The table's sort, row by row.
LEMMA RowSteps ==
    ASSUME NEW E, NEW s \in Seq(E), NEW board, Settled(board) = s
    PROVE  \E a : /\ a[0] = <<>> /\ \A k \in 1..Len(s) : a[k] = PlacedRow(a[k - 1], s[k])
                  /\ RankedRows(board, "mean", "desc") = a[Len(s)]
<1> DEFINE n == Len(s)
           V == Seq(E)
           F == [z \in V \X (1..n) |-> PlacedRow(z[1], s[z[2]])]
           Solves(g) == g = [S \in SUBSET DOMAIN s |->
                               IF S = {} THEN <<>> ELSE PlacedRow(g[S \ {Max(S)}], s[Max(S)])]
           g == CHOOSE g : Solves(g)
           a == [k \in 0..n |-> g[1..k]]
<1>0. n \in Nat /\ DOMAIN s = 1..n /\ \A k \in 1..n : s[k] \in E
  OBVIOUS
<1>1. RankedRows(board, "mean", "desc") = g[DOMAIN s]
  BY DEF RankedRows, StableSort, FoldLeft, MapThenFoldSet, Insertion, SelectLastInSeq, PlacedRow,
         RowLess
<1>2. F \in [V \X (1..n) -> V]
  <2>1. \A acc \in V, k \in 1..n : PlacedRow(acc, s[k]) \in V
    BY <1>0, PlacedRowIn
  <2> HIDE DEF V, n
  <2> QED
    BY <2>1
<1>3. <<>> \in V
  OBVIOUS
<1>4. Solves(g)
  <2>1. PICK h \in [SUBSET (1..n) -> V] : FoldsWith(h, F, <<>>, n)
    <3> HIDE DEF F, V, n
    <3> QED
      BY <1>0, <1>2, <1>3, FoldSolved
  <2>2. ASSUME NEW S \in SUBSET (1..n), S # {}
        PROVE  F[<<h[S \ {Max(S)}], Max(S)>>] = PlacedRow(h[S \ {Max(S)}], s[Max(S)])
    <3>1. Max(S) \in 1..n
      BY <1>0, <2>2, LastIn
    <3>2. h[S \ {Max(S)}] \in V
      OBVIOUS
    <3> HIDE DEF V, n
    <3> QED
      BY <3>1, <3>2
  <2>3. Solves(h)
    <3> HIDE DEF F, V, n
    <3> QED
      BY <1>0, <2>1, <2>2 DEF FoldsWith
  <2> HIDE DEF Solves
  <2> QED
    BY <2>3
<1> HIDE DEF g, F, V, n
<1>5. a[0] = <<>>
  <2>1. 1..0 = {} /\ 0 \in 0..n /\ {} \in SUBSET DOMAIN s
    BY <1>0
  <2> QED
    BY <1>4, <2>1
<1>6. ASSUME NEW k \in 1..n PROVE a[k] = PlacedRow(a[k - 1], s[k])
  <2>1. /\ 1..k # {} /\ 1..k \in SUBSET (1..n) /\ k \in 0..n /\ k - 1 \in 0..n
        /\ Max(1..k) = k /\ (1..k) \ {Max(1..k)} = 1 .. k - 1
    BY <1>0, FirstNumbers
  <2>2. g[1..k] = PlacedRow(g[(1..k) \ {Max(1..k)}], s[Max(1..k)])
    BY <1>0, <1>4, <2>1
  <2> QED
    BY <2>1, <2>2
<1>7. RankedRows(board, "mean", "desc") = a[n]
  BY <1>0, <1>1
<1> QED
  BY <1>5, <1>6, <1>7 DEF n

\* Rows that are in order already stay where they are.
LEMMA RowsStay ==
    ASSUME NEW E, NEW s \in Seq(E), NEW board, Settled(board) = s,
           \A i, j \in DOMAIN s : i < j => ~RowLess(s[j], s[i])
    PROVE  RankedRows(board, "mean", "desc") = s
<1> DEFINE n == Len(s)
<1>0. n \in Nat /\ DOMAIN s = 1..n /\ \A k \in 1..n : s[k] \in E
  OBVIOUS
<1>1. PICK a : /\ a[0] = <<>> /\ \A k \in 1..n : a[k] = PlacedRow(a[k - 1], s[k])
               /\ RankedRows(board, "mean", "desc") = a[n]
  BY RowSteps
<1> HIDE DEF n
<1> DEFINE Good1(k) == /\ a[k] \in Seq(E) /\ Len(a[k]) = k /\ \A i \in 1..k : a[k][i] = s[i]
           N == {k \in Nat : k <= n => Good1(k)}
<1>2. 0 \in N
  <2>1. <<>> \in Seq(E) /\ Len(<<>>) = 0 /\ 1..0 = {}
    OBVIOUS
  <2> QED
    BY <1>1, <2>1
<1>3. ASSUME NEW k \in N PROVE k + 1 \in N
  <2> SUFFICES ASSUME k + 1 <= n PROVE Good1(k + 1)
    OBVIOUS
  <2> DEFINE acc == a[k]
             x == s[k + 1]
  <2>1. k \in Nat /\ k + 1 \in 1..n /\ (k + 1) - 1 = k /\ Good1(k) /\ x \in E
    BY <1>0
  <2>2. \A i \in 1..k : i \in DOMAIN s /\ k + 1 \in DOMAIN s /\ i < k + 1
    BY <1>0, <2>1
  <2>3. \A i \in 1..Len(acc) : ~RowLess(x, acc[i])
    BY <2>1, <2>2
  <2>4. a[k + 1] = PlacedRow(acc, x)
    BY <1>1, <2>1
  <2>5. acc \in Seq(E) /\ Len(acc) = k /\ \A i \in 1..k : acc[i] = s[i]
    BY <2>1
  <2> HIDE DEF x, acc
  <2>6. /\ PlacedRow(acc, x) \in Seq(E) /\ Len(PlacedRow(acc, x)) = k + 1
        /\ \A i \in 1..k + 1 : PlacedRow(acc, x)[i] = IF i <= k THEN acc[i] ELSE x
    <3>1. /\ PlacedRow(acc, x) \in Seq(E) /\ Len(PlacedRow(acc, x)) = Len(acc) + 1
          /\ \A i \in 1..Len(acc) + 1 :
                PlacedRow(acc, x)[i] = IF i <= Len(acc) THEN acc[i] ELSE x
      <4>1. acc \in Seq(E) /\ x \in E
        BY <2>1, <2>5
      <4> QED
        BY <2>3, <4>1, PlacedLast
    <3> QED
      BY <2>5, <3>1
  <2>7. \A i \in 1..k + 1 : ~(i <= k) => i = k + 1
    BY <2>1
  <2>8. \A i \in 1..k + 1 : i <= k => i \in 1..k
    BY <2>1
  <2> QED
    BY <2>4, <2>5, <2>6, <2>7, <2>8 DEF x
<1>4. N = Nat
  <2> HIDE DEF N
  <2> QED
    BY <1>2, <1>3, NumbersInduct, N \subseteq Nat DEF N
<1>5. Good1(n)
  <2> HIDE DEF Good1
  <2> QED
    BY <1>0, <1>4
<1>6. a[n] = s
  <2>1. DOMAIN a[n] = 1..n /\ a[n] = [i \in 1..n |-> a[n][i]]
    BY <1>5
  <2>2. s = [i \in 1..n |-> s[i]]
    BY <1>0
  <2> QED
    BY <1>5, <2>1, <2>2
<1> QED
  BY <1>1, <1>6

\* The table opens with the server's ranking.
THEOREM RankingKept == Spec => []PageKeepsRanking
<1>1. ASSUME ConsoleInv PROVE PageKeepsRanking
  <2> SUFFICES ASSUME NEW u \in DOMAIN db.suites
               PROVE  RankedRows(BoardOf(u), "mean", "desc") = Settled(BoardOf(u))
    BY DEF PageKeepsRanking
  <2> DEFINE rows == RowsOf(OfSuite(u))
             out == BoardOf(u)
             I == {i \in DOMAIN out : ~IsInFlight(out[i])}
             s == Settled(out)
             E == ToSet(out)
  <2>1. IsRows(rows) /\ Submitted(u) \in SUBSET Int /\ IsFiniteSet(Submitted(u))
    BY <1>1, RowsAre DEF ConsoleInv, Fine
  <2>2. out = Leaderboard(rows, ByID(Submitted(u))) /\ s = Among(out, I)
    BY DEF BoardOf, Settled
  <2> HIDE DEF rows, out, s
  <2>3. ByID(Submitted(u)) \in SetToSeqs(Submitted(u))
    BY <2>1, ByIDOrders
  <2>4. /\ DOMAIN out = 1..Cardinality(Submitted(u)) /\ out \in Seq(E)
        /\ \A i \in DOMAIN out : IsEntry(out[i], rows)
        /\ \A i, j \in DOMAIN out : i < j => Less(out[i], out[j])
    BY <2>1, <2>2, <2>3, BoardIs
  <2>5. /\ Cardinality(I) \in Nat /\ s \in Seq(E) /\ DOMAIN s = 1..Cardinality(I)
        /\ ByID(I) \in [1..Cardinality(I) -> I] /\ Increasing(ByID(I))
        /\ \A k \in 1..Cardinality(I) : s[k] = out[ByID(I)[k]]
    <3>1. I \in SUBSET DOMAIN out
      OBVIOUS
    <3> HIDE DEF I, E
    <3>2. /\ Cardinality(I) \in Nat /\ Among(out, I) \in Seq(E)
          /\ DOMAIN Among(out, I) = 1..Cardinality(I)
          /\ ByID(I) \in [1..Cardinality(I) -> I] /\ Increasing(ByID(I))
          /\ \A k \in 1..Cardinality(I) : Among(out, I)[k] = out[ByID(I)[k]]
      BY ZenonT(40), <2>4, <3>1, AmongOf
    <3> QED
      BY <2>2, <3>2
  <2>6. ASSUME NEW i \in DOMAIN s, NEW j \in DOMAIN s, i < j PROVE ~RowLess(s[j], s[i])
    <3> DEFINE x == ByID(I)[i]
               y == ByID(I)[j]
    <3>1. x \in DOMAIN out /\ y \in DOMAIN out /\ x < y /\ s[i] = out[x] /\ s[j] = out[y]
          /\ Ranked(out[x]) /\ Ranked(out[y])
      BY <2>5, <2>6 DEF Increasing, IsInFlight
    <3> HIDE DEF x, y
    <3>2. Less(out[x], out[y])
      BY <2>4, <3>1
    <3>3. /\ Metric(out[x], "mean") \in Int /\ Metric(out[y], "mean") \in Int
          /\ out[x].submitted_at \in Int /\ out[y].submitted_at \in Int
      BY <2>4, <3>1 DEF IsEntry
    <3> QED
      BY <3>1, <3>2, <3>3 DEF Less, RowLess, ColumnLess
  <2> HIDE DEF E, I
  <2>7. RankedRows(out, "mean", "desc") = s
    BY <2>5, <2>6, RowsStay DEF s
  <2> QED
    BY <2>7 DEF out, s
<1> QED
  BY <1>1, ConsoleInvariant, PTL

-----------------------------------------------------------------------------
(* Numbers in order, percentiles, histograms: the page's statistics.      *)

\* A finite set of integers that is not empty has a least element.
LEMMA LeastElement ==
    ASSUME NEW S \in SUBSET Int, IsFiniteSet(S), S # {}
    PROVE  \E m \in S : \A x \in S : m <= x
<1> DEFINE T == {-x : x \in S}
           f == [x \in S |-> -x]
<1>1. f \in Surjection(S, T)
  BY DEF Surjection
<1>2. IsFiniteSet(T)
  BY <1>1, FS_Surjection
<1>3. T \in SUBSET Int /\ T # {}
  OBVIOUS
<1> HIDE DEF T
<1>4. PICK t \in T : \A x \in T : x <= t
  BY <1>2, <1>3, GreatestElement
<1>5. PICK m \in S : t = -m
  BY DEF T
<1>6. ASSUME NEW x \in S PROVE m <= x
  <2>1. -x \in T /\ x \in Int /\ m \in Int
    BY DEF T
  <2>2. -x <= -m
    BY <1>4, <1>5, <2>1
  <2> QED
    BY <2>1, <2>2
<1> QED
  BY <1>6

\* Min and Max of a finite set of integers are its bounds, and members of it.
LEMMA MinMaxOf ==
    ASSUME NEW S \in SUBSET Int, IsFiniteSet(S), S # {}
    PROVE  /\ Min(S) \in S /\ \A x \in S : Min(S) <= x
           /\ Max(S) \in S /\ \A x \in S : x <= Max(S)
<1>1. \E m \in S : \A x \in S : m <= x
  BY LeastElement
<1>2. \E m \in S : \A x \in S : x <= m
  BY GreatestElement
<1>3. \E m \in S : \A x \in S : m >= x
  BY <1>2
<1> QED
  BY <1>1, <1>3 DEF Min, Max

\* The members of a list of integers.
LEMMA MembersOf ==
    ASSUME NEW xs \in Seq(Int)
    PROVE  /\ Len(xs) \in Nat /\ DOMAIN xs = 1..Len(xs)
           /\ IsFiniteSet(DOMAIN xs) /\ Cardinality(DOMAIN xs) = Len(xs)
           /\ ToSet(xs) \in SUBSET Int /\ IsFiniteSet(ToSet(xs))
           /\ xs # <<>> => ToSet(xs) # {} /\ Len(xs) > 0
<1>1. Len(xs) \in Nat /\ DOMAIN xs = 1..Len(xs)
  OBVIOUS
<1>2. IsFiniteSet(DOMAIN xs) /\ Cardinality(DOMAIN xs) = Len(xs)
  BY SMTT(30), <1>1, FS_Interval
<1>3. xs \in Surjection(DOMAIN xs, ToSet(xs))
  BY DEF Surjection, ToSet
<1>4. IsFiniteSet(ToSet(xs))
  BY <1>2, <1>3, FS_Surjection
<1>5. ToSet(xs) \in SUBSET Int
  BY DEF ToSet
<1>6. xs # <<>> => Len(xs) > 0
  BY <1>1
<1>7. Len(xs) > 0 => xs[1] \in ToSet(xs)
  BY <1>1 DEF ToSet
<1> QED
  BY <1>1, <1>2, <1>4, <1>5, <1>6, <1>7

\* The least and the greatest of a list.
LEMMA ExtremesOf ==
    ASSUME NEW xs \in Seq(Int), xs # <<>>
    PROVE  /\ Least(xs) \in ToSet(xs) /\ Greatest(xs) \in ToSet(xs)
           /\ Least(xs) \in Int /\ Greatest(xs) \in Int
           /\ \A v \in ToSet(xs) : Least(xs) <= v /\ v <= Greatest(xs)
BY MembersOf, MinMaxOf DEF Least, Greatest

\* The numbers of the elements less than v, and of those not greater.
Below(xs, v) == {i \in DOMAIN xs : xs[i] < v}
AtMost(xs, v) == {i \in DOMAIN xs : xs[i] <= v}

\* The element in the k-th place of the order.
Kth(xs, k, v) == Cardinality(Below(xs, v)) < k /\ Cardinality(AtMost(xs, v)) >= k

\* Among n numbers there is a k-th smallest for every k up to n.
LEMMA KthExists ==
    ASSUME NEW xs \in Seq(Int), NEW k \in 1..Len(xs)
    PROVE  \E v \in ToSet(xs) : Kth(xs, k, v)
<1> DEFINE D == DOMAIN xs
           X == ToSet(xs)
           T == {v \in X : Cardinality(AtMost(xs, v)) >= k}
<1>0. /\ IsFiniteSet(D) /\ Cardinality(D) = Len(xs) /\ X \in SUBSET Int /\ IsFiniteSet(X)
      /\ Len(xs) \in Nat /\ k \in Nat /\ k >= 1 /\ k <= Len(xs) /\ X # {}
  <2>1. Len(xs) \in Nat /\ k \in Nat /\ k >= 1 /\ k <= Len(xs) /\ xs # <<>>
    OBVIOUS
  <2> QED
    BY <2>1, MembersOf
<1>1. ASSUME NEW v
      PROVE  /\ IsFiniteSet(AtMost(xs, v)) /\ Cardinality(AtMost(xs, v)) \in Nat
             /\ IsFiniteSet(Below(xs, v)) /\ Cardinality(Below(xs, v)) \in Nat
  BY <1>0, FS_Subset, FS_CardinalityType DEF AtMost, Below
<1>2. T \in SUBSET Int /\ IsFiniteSet(T)
  BY <1>0, FS_Subset
<1>3. T # {}
  <2>1. PICK g \in X : \A x \in X : x <= g
    BY <1>0, GreatestElement
  <2>2. AtMost(xs, g) = D
    BY <2>1 DEF AtMost, ToSet
  <2>3. g \in T
    BY <1>0, <2>2
  <2> QED
    BY <2>3
<1>4. PICK v \in T : \A w \in T : v <= w
  <2> HIDE DEF T
  <2> QED
    BY <1>2, <1>3, LeastElement
<1>5. v \in X /\ v \in Int /\ Cardinality(AtMost(xs, v)) >= k
  BY <1>2
<1>6. ~(Cardinality(Below(xs, v)) >= k)
  <2> SUFFICES ASSUME Cardinality(Below(xs, v)) >= k PROVE FALSE
    OBVIOUS
  <2> DEFINE W == {w \in X : w < v}
  <2>1. W \in SUBSET Int /\ IsFiniteSet(W)
    BY <1>0, FS_Subset
  <2>2. W # {}
    <3>0. Cardinality({}) = 0
      BY FS_EmptySet
    <3>1. Below(xs, v) # {}
      <4> SUFFICES ASSUME Below(xs, v) = {} PROVE FALSE
        OBVIOUS
      <4>1. Cardinality(Below(xs, v)) = 0
        BY <3>0
      <4> QED
        BY <1>0, <4>1
    <3> QED
      BY <3>1 DEF Below, ToSet
  <2>3. PICK w \in W : \A x \in W : x <= w
    <3> HIDE DEF W
    <3> QED
      BY <2>1, <2>2, GreatestElement
  <2>4. \A i \in D : xs[i] \in X /\ xs[i] \in Int
    BY <1>0 DEF ToSet
  <2>5. w \in X /\ w < v /\ w \in Int
    BY <2>1
  <2>6. \A i \in D : xs[i] < v <=> xs[i] <= w
    <3> SUFFICES ASSUME NEW i \in D PROVE xs[i] < v <=> xs[i] <= w
      OBVIOUS
    <3>1. xs[i] < v => xs[i] \in W
      BY <2>4
    <3>2. xs[i] < v => xs[i] <= w
      BY <2>3, <3>1
    <3>3. xs[i] \in Int
      BY <2>4
    <3> QED
      BY <1>5, <2>5, <3>2, <3>3
  <2>7. Below(xs, v) = AtMost(xs, w)
    BY <2>6 DEF Below, AtMost
  <2>8. w \in T
    BY <2>5, <2>7
  <2>9. v <= w
    BY <1>4, <2>8
  <2> QED
    BY <1>5, <2>5, <2>9
<1>7. Kth(xs, k, v)
  <2>1. Cardinality(Below(xs, v)) \in Nat
    BY <1>1
  <2> QED
    BY <1>0, <1>5, <1>6, <2>1 DEF Kth
<1> QED
  BY <1>5, <1>7

\* The sorted list goes from the least to the greatest element and never down.
LEMMA AscendingIs ==
    ASSUME NEW xs \in Seq(Int), xs # <<>>
    PROVE  /\ \A k \in 1..Len(xs) : Ascending(xs)[k] \in Int
           /\ \A k, l \in 1..Len(xs) : k <= l => Ascending(xs)[k] <= Ascending(xs)[l]
           /\ Ascending(xs)[1] = Least(xs) /\ Ascending(xs)[Len(xs)] = Greatest(xs)
<1> DEFINE D == DOMAIN xs
           X == ToSet(xs)
           n == Len(xs)
           s == Ascending(xs)
<1>0. /\ IsFiniteSet(D) /\ Cardinality(D) = n /\ X \in SUBSET Int /\ IsFiniteSet(X)
      /\ n \in Nat /\ n > 0 /\ D = 1..n /\ \A i \in D : xs[i] \in X
  BY MembersOf DEF ToSet
<1>1. ASSUME NEW v
      PROVE  /\ IsFiniteSet(AtMost(xs, v)) /\ Cardinality(AtMost(xs, v)) \in Nat
             /\ IsFiniteSet(Below(xs, v)) /\ Cardinality(Below(xs, v)) \in Nat
             /\ Cardinality(AtMost(xs, v)) <= n
  BY <1>0, FS_Subset, FS_CardinalityType DEF AtMost, Below
<1>2. s = [k \in D |-> CHOOSE v \in X : Kth(xs, k, v)]
  BY DEF Ascending, Kth, Below, AtMost
<1> HIDE DEF s, X, D, n
<1>3. ASSUME NEW k \in 1..n PROVE s[k] \in X /\ s[k] \in Int /\ Kth(xs, k, s[k])
  <2>1. \E v \in X : Kth(xs, k, v)
    BY KthExists DEF X, n
  <2>2. s[k] \in X /\ Kth(xs, k, s[k])
    BY <1>0, <1>2, <2>1
  <2> QED
    BY <1>0, <2>2
<1>4. ASSUME NEW k \in 1..n, NEW l \in 1..n, k <= l PROVE s[k] <= s[l]
  <2> SUFFICES ASSUME ~(s[k] <= s[l]) PROVE FALSE
    OBVIOUS
  <2>1. s[k] \in Int /\ s[l] \in Int /\ s[l] < s[k] /\ k \in Int /\ l \in Int
    BY <1>0, <1>3
  <2>2. AtMost(xs, s[l]) \subseteq Below(xs, s[k])
    <3>1. \A i \in D : xs[i] \in Int
      BY <1>0
    <3> QED
      BY <2>1, <3>1 DEF AtMost, Below, D
  <2>3. Cardinality(AtMost(xs, s[l])) <= Cardinality(Below(xs, s[k]))
    BY <1>1, <2>2, FS_Subset
  <2>4. Cardinality(Below(xs, s[k])) < k /\ Cardinality(AtMost(xs, s[l])) >= l
    BY <1>3 DEF Kth
  <2>5. Cardinality(Below(xs, s[k])) \in Nat /\ Cardinality(AtMost(xs, s[l])) \in Nat
    BY <1>1
  <2> QED
    BY <1>4, <2>1, <2>3, <2>4, <2>5
<1>5. /\ Least(xs) \in X /\ Greatest(xs) \in X /\ Least(xs) \in Int /\ Greatest(xs) \in Int
      /\ \A v \in X : Least(xs) <= v /\ v <= Greatest(xs)
  BY ExtremesOf DEF X
<1>6. s[1] = Least(xs)
  <2>0. 1 \in 1..n
    BY <1>0
  <2>1. /\ s[1] \in X /\ s[1] \in Int /\ Cardinality(Below(xs, s[1])) < 1
        /\ Cardinality(Below(xs, s[1])) \in Nat
    BY <1>1, <1>3, <2>0 DEF Kth
  <2>2. Below(xs, s[1]) = {}
    BY <1>1, <2>1, FS_EmptySet
  <2>3. PICK i \in D : xs[i] = Least(xs)
    BY <1>5 DEF ToSet, X, D
  <2>4. ~(Least(xs) < s[1])
    BY <2>2, <2>3 DEF Below, D
  <2> QED
    BY <1>5, <2>1, <2>4
<1>7. s[n] = Greatest(xs)
  <2>0. n \in 1..n
    BY <1>0
  <2>1. /\ s[n] \in X /\ s[n] \in Int /\ Cardinality(AtMost(xs, s[n])) >= n
        /\ Cardinality(AtMost(xs, s[n])) \in Nat /\ Cardinality(AtMost(xs, s[n])) <= n
    BY <1>1, <1>3, <2>0 DEF Kth
  <2>2. AtMost(xs, s[n]) \subseteq D /\ Cardinality(AtMost(xs, s[n])) = Cardinality(D)
    BY <1>0, <2>1 DEF AtMost, D
  <2>3. AtMost(xs, s[n]) = D
    BY <1>0, <2>2, FS_Subset
  <2>4. PICK i \in D : xs[i] = Greatest(xs)
    BY <1>5 DEF ToSet, X, D
  <2>5. Greatest(xs) <= s[n]
    BY <2>3, <2>4 DEF AtMost
  <2> QED
    BY <1>5, <2>1, <2>5
<1> QED
  BY <1>3, <1>4, <1>6, <1>7 DEF s, n

\* The value at a rank of the sorted list s; ranks are given times 100, and so is the value.
AtRank(s, r) ==
    LET lo == r \div 100
        hi == IF r % 100 = 0 THEN lo ELSE lo + 1
    IN 100 * s[lo + 1] + (s[hi + 1] - s[lo + 1]) * (r % 100)

\* A percentile is what the ordered numbers have at its rank.
LEMMA PercentileAt ==
    ASSUME NEW xs, NEW p
    PROVE  Percentile(xs, p) = AtRank(Ascending(xs), p * (Len(xs) - 1))
BY DEF Percentile, AtRank

\* A product with a factor that grows.
LEMMA Grows ==
    ASSUME NEW d \in Int, 0 <= d, NEW a \in Int, NEW b \in Int, 0 <= a, a <= b
    PROVE  d * a \in Int /\ d * b \in Int /\ 0 <= d * a /\ d * a <= d * b
<1>1. PICK c \in Int : c >= 0 /\ b = a + c
  <2>1. b - a \in Int /\ b - a >= 0 /\ b = a + (b - a)
    OBVIOUS
  <2> QED
    BY <2>1
<1>2. d * (a + c) = d * a + d * c
  OBVIOUS
<1>3. d * a >= 0 /\ d * c >= 0
  <2> DEFINE T == {x \in Nat : d * x >= 0}
  <2>1. 0 \in T
    OBVIOUS
  <2>2. ASSUME NEW x \in T PROVE x + 1 \in T
    <3>1. d * (x + 1) = d * x + d /\ d * x \in Int
      OBVIOUS
    <3> QED
      BY <3>1
  <2>3. T = Nat
    <3> HIDE DEF T
    <3> QED
      BY <2>1, <2>2, NumbersInduct, T \subseteq Nat DEF T
  <2>4. a \in T /\ c \in T
    BY <1>1, <2>3
  <2> QED
    BY <2>4
<1>4. d * a \in Int /\ d * c \in Int
  OBVIOUS
<1> QED
  BY <1>1, <1>2, <1>3, <1>4

\* The value never falls as the rank rises.
LEMMA RanksGrow ==
    ASSUME NEW n \in Nat, n > 0, NEW s, \A k \in 1..n : s[k] \in Int,
           \A k, l \in 1..n : k <= l => s[k] <= s[l],
           NEW r \in Nat, NEW q \in Nat, r <= q, q <= 100 * (n - 1)
    PROVE  AtRank(s, r) <= AtRank(s, q)
<1> DEFINE lo(x) == x \div 100
           fr(x) == x % 100
           hi(x) == IF fr(x) = 0 THEN lo(x) ELSE lo(x) + 1
           d(x) == s[hi(x) + 1] - s[lo(x) + 1]
           v(x) == 100 * s[lo(x) + 1] + d(x) * fr(x)
<1>1. AtRank(s, r) = v(r) /\ AtRank(s, q) = v(q)
  BY DEF AtRank
<1>2. ASSUME NEW x \in Nat, x <= 100 * (n - 1)
      PROVE  /\ lo(x) \in Nat /\ fr(x) \in Nat /\ fr(x) < 100 /\ x = 100 * lo(x) + fr(x)
             /\ lo(x) + 1 \in 1..n /\ hi(x) + 1 \in 1..n /\ lo(x) + 1 <= hi(x) + 1
  <2>1. lo(x) \in Nat /\ fr(x) \in Nat /\ fr(x) < 100 /\ x = 100 * lo(x) + fr(x)
    OBVIOUS
  <2> HIDE DEF lo, fr
  <2> QED
    BY <1>2, <2>1
<1>3. r <= 100 * (n - 1)
  OBVIOUS
<1> HIDE DEF lo, fr, hi
<1>4. ASSUME NEW x \in Nat, x <= 100 * (n - 1)
      PROVE  /\ d(x) \in Int /\ d(x) >= 0 /\ s[lo(x) + 1] \in Int /\ s[hi(x) + 1] \in Int
             /\ d(x) * fr(x) \in Int /\ 0 <= d(x) * fr(x) /\ d(x) * fr(x) <= d(x) * 100
             /\ 100 * s[lo(x) + 1] <= v(x) /\ v(x) <= 100 * s[hi(x) + 1] /\ v(x) \in Int
  <2>1. d(x) \in Int /\ d(x) >= 0 /\ s[lo(x) + 1] \in Int /\ s[hi(x) + 1] \in Int
    <3>1. s[lo(x) + 1] \in Int /\ s[hi(x) + 1] \in Int /\ s[lo(x) + 1] <= s[hi(x) + 1]
      BY <1>2, <1>4
    <3> QED
      BY <3>1
  <2>2. d(x) * fr(x) \in Int /\ 0 <= d(x) * fr(x) /\ d(x) * fr(x) <= d(x) * 100
    <3>1. fr(x) \in Int /\ 0 <= fr(x) /\ fr(x) <= 100 /\ 100 \in Int
      BY <1>2, <1>4
    <3> HIDE DEF d
    <3> QED
      BY <2>1, <3>1, Grows
  <2> DEFINE a == s[lo(x) + 1]
             b == s[hi(x) + 1]
             p == d(x) * fr(x)
  <2>3. a \in Int /\ b \in Int /\ p \in Int /\ 0 <= p /\ p <= (b - a) * 100
    BY <2>1, <2>2
  <2>4. v(x) = 100 * a + p
    OBVIOUS
  <2> HIDE DEF a, b, p, v
  <2>5. 100 * a <= v(x) /\ v(x) <= 100 * b /\ v(x) \in Int
    BY <2>3, <2>4
  <2> QED
    BY <2>1, <2>2, <2>5 DEF a, b
<1> DEFINE i == lo(r)
           j == lo(q)
<1>5. /\ i \in Nat /\ j \in Nat /\ r = 100 * i + fr(r) /\ q = 100 * j + fr(q)
      /\ fr(r) \in Nat /\ fr(r) < 100 /\ fr(q) \in Nat /\ fr(q) < 100
      /\ i + 1 \in 1..n /\ j + 1 \in 1..n /\ hi(r) + 1 \in 1..n
  BY <1>2, <1>3
<1>6. CASE i = j
  <2>1. hi(q) = hi(r) \/ fr(r) = 0
    BY <1>5, <1>6 DEF hi
  <2>2. CASE fr(r) = 0
    <3>1. v(r) <= 100 * s[i + 1]
      <4>1. hi(r) = i
        BY <2>2 DEF hi
      <4> QED
        BY <1>3, <1>4, <4>1
    <3>2. 100 * s[j + 1] <= v(q) /\ v(q) \in Int /\ v(r) \in Int
      BY <1>3, <1>4
    <3>3. s[i + 1] \in Int
      BY <1>5
    <3> HIDE DEF v, i, j
    <3>4. v(r) <= v(q)
      BY <1>6, <3>1, <3>2, <3>3
    <3> QED
      BY <1>1, <3>4
  <2>3. CASE hi(q) = hi(r)
    <3>1. d(q) = d(r) /\ s[lo(q) + 1] = s[lo(r) + 1]
      BY <1>6, <2>3
    <3>2. fr(r) <= fr(q) /\ fr(r) \in Int /\ fr(q) \in Int /\ 0 <= fr(r)
      BY <1>5, <1>6
    <3>3. d(r) \in Int /\ 0 <= d(r) /\ s[lo(r) + 1] \in Int
      BY <1>3, <1>4
    <3> HIDE DEF d
    <3>4. d(r) * fr(r) \in Int /\ d(r) * fr(q) \in Int /\ d(r) * fr(r) <= d(r) * fr(q)
      BY <3>2, <3>3, Grows
    <3>5. v(r) <= v(q)
      BY <3>1, <3>3, <3>4
    <3> QED
      BY <1>1, <3>5
  <2> QED
    BY <2>1, <2>2, <2>3
<1>7. CASE i # j
  <2>1. i + 1 <= j
    BY <1>5, <1>7
  <2>2. hi(r) + 1 <= j + 1
    BY <1>5, <2>1 DEF hi
  <2>3. s[hi(r) + 1] <= s[j + 1] /\ s[hi(r) + 1] \in Int /\ s[j + 1] \in Int
    BY <1>5, <2>2
  <2>4. v(r) <= 100 * s[hi(r) + 1] /\ 100 * s[j + 1] <= v(q) /\ v(r) \in Int /\ v(q) \in Int
    BY <1>3, <1>4
  <2> HIDE DEF v, j
  <2>5. v(r) <= v(q)
    BY <2>3, <2>4
  <2> QED
    BY <1>1, <2>5
<1> QED
  BY <1>6, <1>7

\* The percentiles the page shows: the median is the server's, the ends are the least
\* and the greatest score, and they do not fall.
LEMMA PercentilesAre ==
    ASSUME NEW xs \in Seq(Int), xs # <<>>
    PROVE  /\ Scale * Percentile(xs, 50) = 100 * Median(xs)
           /\ Percentile(xs, 0) = 100 * Least(xs) /\ Percentile(xs, 100) = 100 * Greatest(xs)
           /\ Percentile(xs, 10) <= Percentile(xs, 50) /\ Percentile(xs, 50) <= Percentile(xs, 90)
<1> DEFINE n == Len(xs)
           s == Ascending(xs)
<1>0. n \in Nat /\ n > 0
  BY MembersOf
<1>1. /\ \A k \in 1..n : s[k] \in Int
      /\ \A k, l \in 1..n : k <= l => s[k] <= s[l]
      /\ s[1] = Least(xs) /\ s[n] = Greatest(xs)
  BY AscendingIs
<1>2. \A p : Percentile(xs, p) = AtRank(s, p * (n - 1))
  BY PercentileAt
<1>3. Median(xs) = IF n % 2 = 1 THEN Scale * s[(n \div 2) + 1]
                   ELSE (Scale * (s[n \div 2] + s[(n \div 2) + 1])) \div 2
  BY DEF Median
<1> HIDE DEF n, s
<1>4. Percentile(xs, 0) = 100 * Least(xs)
  <2>1. 0 * (n - 1) = 0 /\ 0 \div 100 = 0 /\ 0 % 100 = 0 /\ 1 \in 1..n
    BY <1>0
  <2>2. AtRank(s, 0) = 100 * s[1] + (s[1] - s[1]) * 0
    BY <2>1 DEF AtRank
  <2>3. s[1] \in Int
    BY <1>1, <2>1
  <2> QED
    BY <1>1, <1>2, <2>1, <2>2, <2>3
<1>5. Percentile(xs, 100) = 100 * Greatest(xs)
  <2>1. (100 * (n - 1)) \div 100 = n - 1 /\ (100 * (n - 1)) % 100 = 0 /\ n \in 1..n /\ (n - 1) + 1 = n
    BY <1>0
  <2>2. AtRank(s, 100 * (n - 1)) = 100 * s[n] + (s[n] - s[n]) * 0
    BY <2>1 DEF AtRank
  <2>3. s[n] \in Int
    BY <1>1, <2>1
  <2> QED
    BY <1>1, <1>2, <2>2, <2>3
<1>6. ASSUME NEW p \in 0..100, NEW q \in 0..100, p <= q
      PROVE  Percentile(xs, p) <= Percentile(xs, q)
  <2>1. /\ p * (n - 1) \in Nat /\ q * (n - 1) \in Nat /\ p * (n - 1) <= q * (n - 1)
        /\ q * (n - 1) <= 100 * (n - 1)
    <3>1. n - 1 \in Int /\ 0 <= n - 1
      BY <1>0
    <3>2. (n - 1) * p \in Int /\ (n - 1) * q \in Int /\ 0 <= (n - 1) * p /\ (n - 1) * p <= (n - 1) * q
      BY SMTT(30), <1>6, <3>1, Grows
    <3>3. (n - 1) * q <= (n - 1) * 100
      BY <3>1, Grows
    <3>4. (n - 1) * p = p * (n - 1) /\ (n - 1) * q = q * (n - 1) /\ (n - 1) * 100 = 100 * (n - 1)
      BY <3>1
    <3> QED
      BY <3>2, <3>3, <3>4
  <2> QED
    BY <1>0, <1>1, <1>2, <2>1, RanksGrow
<1>7. Scale * Percentile(xs, 50) = 100 * Median(xs)
  <2> DEFINE m == n \div 2
  <2>0. m \in Nat /\ (n % 2 = 1 => n = 2 * m + 1) /\ (n % 2 # 1 => n = 2 * m)
    BY <1>0
  <2> HIDE DEF m
  <2>1. CASE n % 2 = 1
    <3>1. 50 * (n - 1) = 100 * m
      BY <2>0, <2>1
    <3>2. (100 * m) \div 100 = m /\ (100 * m) % 100 = 0 /\ m + 1 \in 1..n
      BY <1>0, <2>0, <2>1
    <3>3. AtRank(s, 100 * m) = 100 * s[m + 1] + (s[m + 1] - s[m + 1]) * 0
      BY <3>2 DEF AtRank
    <3>4. s[m + 1] \in Int
      BY <1>1, <3>2
    <3>5. Percentile(xs, 50) = 100 * s[m + 1]
      BY <1>2, <3>1, <3>3, <3>4
    <3>6. Median(xs) = Scale * s[m + 1]
      BY <1>3, <2>1 DEF m
    <3>7. \A a, x \in Int : a * (100 * x) = 100 * (a * x)
      OBVIOUS
    <3> QED
      BY SMTT(30), <3>4, <3>5, <3>6, <3>7, ScaleAssumption
  <2>2. CASE n % 2 # 1
    <3>1. m - 1 \in Nat /\ 50 * (n - 1) = 100 * (m - 1) + 50
      BY <1>0, <2>0, <2>2
    <3>2. /\ (100 * (m - 1) + 50) \div 100 = m - 1 /\ (100 * (m - 1) + 50) % 100 = 50
          /\ m + 1 \in 1..n /\ m \in 1..n /\ (m - 1) + 1 = m
      BY <1>0, <2>0, <2>2, <3>1
    <3>3. AtRank(s, 100 * (m - 1) + 50) = 100 * s[m] + (s[m + 1] - s[m]) * 50
      BY <3>2 DEF AtRank
    <3>4. s[m + 1] \in Int /\ s[m] \in Int
      BY <1>1, <3>2
    <3>5. Percentile(xs, 50) = 50 * (s[m] + s[m + 1])
      BY <1>2, <3>1, <3>3, <3>4
    <3> DEFINE x == s[m] + s[m + 1]
               h == Scale \div 2
    <3>6. Median(xs) = (Scale * x) \div 2
      BY <1>3, <2>2 DEF m
    <3>7. x \in Int /\ h \in Int /\ Scale = 2 * h
      BY <3>4, ScaleAssumption
    <3> HIDE DEF x, h
    <3>8. h * x \in Int /\ (2 * h) * x = 2 * (h * x) /\ (2 * h) * (50 * x) = 100 * (h * x)
      BY <3>7
    <3>9. \A y \in Int : (2 * y) \div 2 = y
      OBVIOUS
    <3>10. Median(xs) = h * x
      BY <3>6, <3>7, <3>8, <3>9
    <3>11. Scale * Percentile(xs, 50) = (2 * h) * (50 * x)
      BY <3>5, <3>7 DEF x
    <3> QED
      BY <3>8, <3>10, <3>11
  <2> QED
    BY <2>1, <2>2
<1>8. Percentile(xs, 10) <= Percentile(xs, 50) /\ Percentile(xs, 50) <= Percentile(xs, 90)
  BY <1>6
<1> QED
  BY <1>4, <1>5, <1>7, <1>8

\* m occurs more often than v, or as often and is not greater.
Modal(xs, m, v) ==
    \/ Count(xs, m) > Count(xs, v)
    \/ Count(xs, m) = Count(xs, v) /\ m <= v

Better(xs, best, v) ==
    IF \/ Count(xs, v) > Count(xs, best)
       \/ Count(xs, v) = Count(xs, best) /\ v < best
    THEN v ELSE best

\* The mode is the least of the most frequent values, in whatever order they come.
LEMMA ModeIs ==
    ASSUME NEW xs \in Seq(Int), xs # <<>>, NEW order \in SetToSeqs(ToSet(xs))
    PROVE  Mode(xs, order) \in ToSet(xs) /\ \A v \in ToSet(xs) : Modal(xs, Mode(xs, order), v)
<1> DEFINE V == ToSet(xs)
           n == Cardinality(V)
           F == [z \in V \X (1..n) |-> Better(xs, z[1], order[z[2]])]
           Solves(g) == g = [S \in SUBSET DOMAIN order |->
                               IF S = {} THEN order[1]
                               ELSE Better(xs, g[S \ {Max(S)}], order[Max(S)])]
           g == CHOOSE g : Solves(g)
           a == [k \in 0..n |-> g[1..k]]
<1>0. /\ n \in Nat /\ order \in [1..n -> V] /\ DOMAIN order = 1..n
      /\ \A x \in V : \E i \in 1..n : order[i] = x
      /\ V \in SUBSET Int /\ V # {} /\ n > 0
  <2>1. V \in SUBSET Int /\ IsFiniteSet(V) /\ V # {}
    BY MembersOf
  <2>2. n \in Nat /\ order \in [1..n -> V] /\ \A x \in V : \E i \in 1..n : order[i] = x
    BY <2>1, OrdersAll
  <2>3. n # 0
    BY <2>1, FS_EmptySet
  <2> HIDE DEF n, V
  <2> QED
    BY <2>1, <2>2, <2>3
<1>c. ASSUME NEW v PROVE Count(xs, v) \in Nat
  <2>1. IsFiniteSet(DOMAIN xs)
    BY MembersOf
  <2>2. IsFiniteSet({i \in DOMAIN xs : xs[i] = v})
    BY <2>1, FS_Subset
  <2> QED
    BY <2>2, FS_CardinalityType DEF Count
<1>1. Mode(xs, order) = g[DOMAIN order]
  BY DEF Mode, FoldLeft, MapThenFoldSet, Better
<1> HIDE DEF V, n
<1>2. F \in [V \X (1..n) -> V]
  <2>1. \A b \in V, k \in 1..n : Better(xs, b, order[k]) \in V
    BY <1>0 DEF Better
  <2> QED
    BY <2>1
<1>3. order[1] \in V
  BY <1>0
<1>4. Solves(g)
  <2>1. PICK h \in [SUBSET (1..n) -> V] : FoldsWith(h, F, order[1], n)
    <3> HIDE DEF F
    <3> QED
      BY <1>0, <1>2, <1>3, FoldSolved
  <2>2. ASSUME NEW S \in SUBSET (1..n), S # {}
        PROVE  F[<<h[S \ {Max(S)}], Max(S)>>] = Better(xs, h[S \ {Max(S)}], order[Max(S)])
    <3>1. Max(S) \in 1..n
      BY <1>0, <2>2, LastIn
    <3>2. h[S \ {Max(S)}] \in V
      OBVIOUS
    <3> QED
      BY <3>1, <3>2
  <2>3. Solves(h)
    <3> HIDE DEF F
    <3> QED
      BY <1>0, <2>1, <2>2 DEF FoldsWith
  <2> HIDE DEF Solves
  <2> QED
    BY <2>3
<1> HIDE DEF g, F
<1>5. a[0] = order[1]
  <2>1. 1..0 = {} /\ 0 \in 0..n /\ {} \in SUBSET DOMAIN order
    BY <1>0
  <2> QED
    BY <1>4, <2>1
<1>6. ASSUME NEW k \in 1..n PROVE a[k] = Better(xs, a[k - 1], order[k])
  <2>1. /\ 1..k # {} /\ 1..k \in SUBSET (1..n) /\ k \in 0..n /\ k - 1 \in 0..n
        /\ Max(1..k) = k /\ (1..k) \ {Max(1..k)} = 1 .. k - 1
    BY <1>0, FirstNumbers
  <2>2. g[1..k] = Better(xs, g[(1..k) \ {Max(1..k)}], order[Max(1..k)])
    BY <1>0, <1>4, <2>1
  <2> QED
    BY <2>1, <2>2
<1>7. Mode(xs, order) = a[n]
  BY <1>0, <1>1
<1> HIDE DEF a
<1> DEFINE Best(k) == a[k] \in V /\ \A i \in 1..k : Modal(xs, a[k], order[i])
           N == {k \in Nat : k <= n => Best(k)}
<1>8. 0 \in N
  BY <1>0, <1>3, <1>5
<1>9. ASSUME NEW k \in N PROVE k + 1 \in N
  <2> SUFFICES ASSUME k + 1 <= n PROVE Best(k + 1)
    OBVIOUS
  <2>1. k \in Nat /\ k + 1 \in 1..n /\ (k + 1) - 1 = k /\ Best(k)
    BY <1>0
  <2> DEFINE b == a[k]
             v == order[k + 1]
             c == a[k + 1]
  <2>2. c = Better(xs, b, v) /\ b \in V /\ v \in V
    BY <1>0, <1>6, <2>1
  <2>3. \A i \in 1..k : Modal(xs, b, order[i]) /\ order[i] \in V
    <3>1. \A i \in 1..k : i \in 1..n
      BY <1>0, <2>1
    <3> QED
      BY <1>0, <2>1, <3>1
  <2> HIDE DEF b, v, c
  <2>4. c \in V /\ Modal(xs, c, v) /\ Modal(xs, c, b)
    BY <1>0, <1>c, <2>2 DEF Better, Modal
  <2>5. ASSUME NEW x \in V, Modal(xs, b, x) PROVE Modal(xs, c, x)
    BY <1>0, <1>c, <2>2, <2>4, <2>5 DEF Modal
  <2>6. \A i \in 1..k + 1 : i \in 1..k \/ i = k + 1
    BY <2>1
  <2> QED
    BY <2>3, <2>4, <2>5, <2>6 DEF v, c
<1>10. N = Nat
  <2> HIDE DEF N
  <2> QED
    BY <1>8, <1>9, NumbersInduct, N \subseteq Nat DEF N
<1>11. Best(n)
  <2> HIDE DEF Best
  <2> QED
    BY <1>0, <1>10
<1> QED
  BY <1>0, <1>7, <1>11 DEF V

\* The mode does not depend on the order in which a map happens to be walked.
LEMMA OneMode ==
    ASSUME NEW xs \in Seq(Int), xs # <<>>,
           NEW o1 \in SetToSeqs(ToSet(xs)), NEW o2 \in SetToSeqs(ToSet(xs))
    PROVE  Mode(xs, o1) = Mode(xs, o2)
<1> DEFINE a == Mode(xs, o1)
           b == Mode(xs, o2)
<1>1. a \in ToSet(xs) /\ \A v \in ToSet(xs) : Modal(xs, a, v)
  BY ModeIs
<1>2. b \in ToSet(xs) /\ \A v \in ToSet(xs) : Modal(xs, b, v)
  BY ModeIs
<1>3. \A v : Count(xs, v) \in Nat
  <2> SUFFICES ASSUME NEW v PROVE Count(xs, v) \in Nat
    OBVIOUS
  <2>1. IsFiniteSet(DOMAIN xs)
    BY MembersOf
  <2>2. IsFiniteSet({i \in DOMAIN xs : xs[i] = v})
    BY <2>1, FS_Subset
  <2> QED
    BY <2>2, FS_CardinalityType DEF Count
<1> HIDE DEF a, b
<1>4. a \in Int /\ b \in Int /\ Count(xs, a) \in Int /\ Count(xs, b) \in Int
  BY <1>1, <1>2, <1>3, MembersOf
<1> QED
  BY <1>1, <1>2, <1>4 DEF Modal, a, b

\* Every element is in one bin.
LEMMA BinsAddUp ==
    ASSUME NEW xs \in Seq(Int), NEW lo \in Int, NEW hi \in Int, lo < hi, NEW bins \in Nat, bins > 0
    PROVE  SumOf(BinCounts(xs, lo, hi, bins)) = Len(xs)
<1> DEFINE D == DOMAIN xs
           c == BinCounts(xs, lo, hi, bins)
           B == 1..bins
           at(i) == Bin(xs[i], lo, hi, bins) + 1
           In(X) == {i \in D : at(i) \in X}
<1>0. IsFiniteSet(D) /\ Cardinality(D) = Len(xs) /\ IsFiniteSet(B)
  BY MembersOf, FS_Interval
<1>1. ASSUME NEW i \in D PROVE at(i) \in B
  <2> DEFINE q == ((xs[i] - lo) * bins) \div (hi - lo)
  <2>1. q \in Int
    <3>1. (xs[i] - lo) * bins \in Int /\ hi - lo \in Nat /\ hi - lo > 0
      OBVIOUS
    <3>2. \A x \in Int, y \in Nat : y > 0 => x \div y \in Int
      OBVIOUS
    <3> QED
      BY <3>1, <3>2
  <2>2. Bin(xs[i], lo, hi, bins) = IF q >= bins THEN bins - 1 ELSE IF q < 0 THEN 0 ELSE q
    BY DEF Bin
  <2> HIDE DEF q
  <2> QED
    BY <2>1, <2>2
<1>2. \A X : IsFiniteSet(In(X)) /\ Cardinality(In(X)) \in Nat
  BY <1>0, FS_Subset, FS_CardinalityType
<1>3. c = [b \in B |-> Cardinality({i \in D : Bin(xs[i], lo, hi, bins) = b - 1})]
  BY DEF BinCounts
<1>4. ASSUME NEW b \in B PROVE c[b] = Cardinality(In({b})) /\ c[b] \in Int
  <2>1. \A i \in D : Bin(xs[i], lo, hi, bins) \in Int
    <3> SUFFICES ASSUME NEW i \in D PROVE Bin(xs[i], lo, hi, bins) \in Int
      OBVIOUS
    <3>0. ((xs[i] - lo) * bins) \div (hi - lo) \in Int
      <4>1. (xs[i] - lo) * bins \in Int /\ hi - lo \in Nat /\ hi - lo > 0
        OBVIOUS
      <4>2. \A x \in Int, y \in Nat : y > 0 => x \div y \in Int
        OBVIOUS
      <4> QED
        BY <4>1, <4>2
    <3> QED
      BY <3>0 DEF Bin
  <2>2. {i \in D : Bin(xs[i], lo, hi, bins) = b - 1} = In({b})
    <3>1. ASSUME NEW i \in D PROVE Bin(xs[i], lo, hi, bins) = b - 1 <=> at(i) \in {b}
      <4>1. Bin(xs[i], lo, hi, bins) \in Int /\ b \in Int
        BY <2>1
      <4> QED
        BY <4>1
    <3> HIDE DEF at, D
    <3> QED
      BY <3>1
  <2>3. c[b] = Cardinality({i \in D : Bin(xs[i], lo, hi, bins) = b - 1})
    <3> HIDE DEF c, B, D
    <3> QED
      BY <1>3
  <2>4. c[b] = Cardinality(In({b})) /\ Cardinality(In({b})) \in Nat
    <3> HIDE DEF In, c
    <3> QED
      BY <1>2, <2>2, <2>3
  <2> HIDE DEF In, c
  <2> QED
    BY <2>4
<1>5. c \in Seq(Int) /\ DOMAIN c = B
  <2>1. c = [b \in 1..bins |-> c[b]] /\ DOMAIN c = B
    BY <1>3
  <2> HIDE DEF c
  <2>2. \A b \in 1..bins : c[b] \in Int
    BY <1>4
  <2>3. c \in [1..bins -> Int]
    BY <2>1, <2>2
  <2> QED
    BY <2>1, <2>3
<1> HIDE DEF c, B, D
<1>6. PICK g : IsSum(g, c, B) /\ SumOf(c) = g[B]
  BY <1>5, SumOfIs
<1> DEFINE F == {X \in SUBSET B : g[X] = Cardinality(In(X))}
<1>7. {} \in F
  <2>1. In({}) = {}
    OBVIOUS
  <2>2. g[{}] = 0 /\ Cardinality({}) = 0
    BY <1>6, FS_EmptySet DEF IsSum
  <2> QED
    BY <2>1, <2>2
<1>8. ASSUME NEW X \in SUBSET B, NEW b \in B \ X, X \in F PROVE X \cup {b} \in F
  <2>1. g[X \cup {b}] = c[b] + g[X]
    BY <1>6 DEF IsSum
  <2>2. In(X \cup {b}) = In(X) \cup In({b}) /\ In(X) \cap In({b}) = {}
    OBVIOUS
  <2>3. g[X] = Cardinality(In(X)) /\ c[b] = Cardinality(In({b}))
    BY <1>4, <1>8
  <2> HIDE DEF In, at
  <2>4. Cardinality(In(X) \cup In({b}))
           = Cardinality(In(X)) + Cardinality(In({b})) - Cardinality(In(X) \cap In({b}))
    BY <1>2, FS_Union
  <2>5. Cardinality(In(X) \cap In({b})) = 0
    BY <2>2, FS_EmptySet
  <2>6. Cardinality(In(X)) \in Nat /\ Cardinality(In({b})) \in Nat
    BY <1>2
  <2>7. Cardinality(In(X \cup {b})) = Cardinality(In({b})) + Cardinality(In(X))
    <3> DEFINE p == Cardinality(In(X))
               q == Cardinality(In({b}))
               r == Cardinality(In(X) \cup In({b}))
    <3>1. p \in Nat /\ q \in Nat /\ r = p + q - 0
      BY <2>4, <2>5, <2>6
    <3>2. Cardinality(In(X \cup {b})) = r
      BY <2>2
    <3> HIDE DEF p, q, r
    <3>3. r = q + p
      BY <3>1
    <3> QED
      BY <3>2, <3>3 DEF p, q
  <2> QED
    BY <2>1, <2>3, <2>7
<1>9. B \in F
  <2> HIDE DEF F
  <2> QED
    BY <1>0, <1>7, <1>8, SetsInduct
<1>10. In(B) = D
  BY <1>1
<1> QED
  BY <1>0, <1>6, <1>9, <1>10 DEF c, D

\* The bins of a histogram hold every number once.
LEMMA HistogramAddsUp ==
    ASSUME NEW xs \in Seq(Int), xs # <<>>, NEW bins \in Nat, bins > 0
    PROVE  SumOf(Histogram(xs, bins)) = Len(xs)
<1>1. /\ Least(xs) \in Int /\ Greatest(xs) \in Int /\ Least(xs) <= Greatest(xs) /\ Len(xs) \in Int
  <2>1. Least(xs) \in ToSet(xs)
    BY ExtremesOf
  <2> QED
    BY <2>1, ExtremesOf
<1>2. CASE Least(xs) = Greatest(xs)
  <2> DEFINE c == <<Len(xs)>>
  <2>1. Histogram(xs, bins) = c
    BY <1>2 DEF Histogram
  <2>2. c \in Seq(Int) /\ DOMAIN c = {1} /\ c[1] = Len(xs)
    BY <1>1
  <2> HIDE DEF c
  <2>3. PICK g : IsSum(g, c, {1}) /\ SumOf(c) = g[{1}]
    BY <2>2, SumOfIs
  <2>4. g[{} \cup {1}] = c[1] + g[{}] /\ g[{}] = 0
    BY <2>3 DEF IsSum
  <2>5. {} \cup {1} = {1}
    OBVIOUS
  <2> QED
    BY <1>1, <2>1, <2>2, <2>3, <2>4, <2>5
<1>3. CASE Least(xs) # Greatest(xs)
  <2>1. Least(xs) < Greatest(xs)
    BY <1>1, <1>3
  <2>2. Histogram(xs, bins) = BinCounts(xs, Least(xs), Greatest(xs), bins)
    BY <1>3 DEF Histogram
  <2> QED
    BY <1>1, <2>1, <2>2, BinsAddUp
<1> QED
  BY <1>2, <1>3

\* And in one bin of its own line, though the bins are shared.
LEMMA OverlayAddsUp ==
    ASSUME NEW series, NEW n \in Nat, DOMAIN series = 1..n,
           \A i \in 1..n : series[i] \in Seq(Int), NEW bins \in Nat, bins > 0,
           NEW i \in DOMAIN Overlay(series, bins)
    PROVE  SumOf(Overlay(series, bins)[i]) = Len(series[i])
<1> DEFINE all == UNION {ToSet(series[k]) : k \in DOMAIN series}
<1>1. /\ Overlay(series, bins) = [k \in DOMAIN series |-> BinCounts(series[k], Min(all), Max(all), bins)]
      /\ all # {} /\ Min(all) # Max(all)
  <2>1. DOMAIN <<>> = {}
    OBVIOUS
  <2> QED
    BY <2>1 DEF Overlay
<1>2. all \in SUBSET Int
  <2>1. \A k \in 1..n : ToSet(series[k]) \in SUBSET Int
    BY MembersOf
  <2> QED
    BY <2>1
<1>3. IsFiniteSet(all)
  <2> DEFINE U(k) == UNION {ToSet(series[m]) : m \in 1..k}
             N == {k \in Nat : k <= n => IsFiniteSet(U(k))}
  <2>1. 0 \in N
    <3>1. U(0) = {}
      OBVIOUS
    <3> QED
      BY <3>1, FS_EmptySet
  <2>2. ASSUME NEW k \in N PROVE k + 1 \in N
    <3> SUFFICES ASSUME k + 1 <= n PROVE IsFiniteSet(U(k + 1))
      OBVIOUS
    <3>1. k \in Nat /\ k + 1 \in 1..n /\ IsFiniteSet(U(k))
      OBVIOUS
    <3>2. IsFiniteSet(ToSet(series[k + 1]))
      BY <3>1, MembersOf
    <3>3. 1..k + 1 = (1..k) \cup {k + 1}
      BY SMTT(30), <3>1
    <3>4. U(k + 1) = U(k) \cup ToSet(series[k + 1])
      BY <3>3
    <3>5. IsFiniteSet(U(k) \cup ToSet(series[k + 1]))
      <4> HIDE DEF U
      <4> QED
        BY <3>1, <3>2, FS_Union
    <3> HIDE DEF U
    <3> QED
      BY <3>4, <3>5
  <2>3. N = Nat
    <3> HIDE DEF N
    <3> QED
      BY <2>1, <2>2, NumbersInduct, N \subseteq Nat DEF N
  <2>4. IsFiniteSet(U(n))
    <3> HIDE DEF U
    <3> QED
      BY <2>3
  <2> QED
    BY <2>4
<1> HIDE DEF all
<1>4. Min(all) \in Int /\ Max(all) \in Int /\ Min(all) <= Max(all)
  <2>1. Min(all) \in all /\ Max(all) \in all /\ \A x \in all : Min(all) <= x
    BY <1>1, <1>2, <1>3, MinMaxOf
  <2> QED
    BY <1>2, <2>1
<1>5. Min(all) < Max(all)
  BY <1>1, <1>4
<1>6. i \in 1..n /\ Overlay(series, bins)[i] = BinCounts(series[i], Min(all), Max(all), bins)
  BY <1>1
<1> QED
  BY <1>4, <1>5, <1>6, BinsAddUp

\* What the page shows of one list of scores.
StatsOf(xs) ==
    /\ \A o1, o2 \in SetToSeqs(ToSet(xs)) : Mode(xs, o1) = Mode(xs, o2)
    /\ Scale * Percentile(xs, 50) = 100 * Median(xs)
    /\ Percentile(xs, 0) = 100 * Least(xs) /\ Percentile(xs, 100) = 100 * Greatest(xs)
    /\ Percentile(xs, 10) <= Percentile(xs, 50) /\ Percentile(xs, 50) <= Percentile(xs, 90)
    /\ \A bins \in {1, 2, 14} : SumOf(Histogram(xs, bins)) = Len(xs)

\* The page's statistics agree with the server's and with the scores.
THEOREM StatisticsAgree == Spec => []StatsAgree
<1>1. ASSUME ConsoleInv PROVE StatsAgree
  <2>0. \A u : IsRows(RowsOf(OfSuite(u)))
    <3> SUFFICES ASSUME NEW u PROVE IsRows(RowsOf(OfSuite(u)))
      OBVIOUS
    <3> QED
      BY <1>1, RowsAre DEF ConsoleInv, Fine
  <2>1. ASSUME NEW xs \in ScoreLists PROVE StatsOf(xs)
    <3>1. PICK u \in DOMAIN db.suites, s \in DOMAIN db.submissions :
             xs = ScoresOf(Of(RowsOf(OfSuite(u)), s))
      BY <2>1 DEF ScoreLists
    <3>2. xs \in Seq(Int)
      BY <2>0, <3>1, ScoresAre
    <3>3. xs # <<>>
      BY <2>1 DEF ScoreLists
    <3>4. \A o1, o2 \in SetToSeqs(ToSet(xs)) : Mode(xs, o1) = Mode(xs, o2)
      BY <3>2, <3>3, OneMode
    <3>5. \A bins \in {1, 2, 14} : SumOf(Histogram(xs, bins)) = Len(xs)
      BY <3>2, <3>3, HistogramAddsUp
    <3>6. /\ Scale * Percentile(xs, 50) = 100 * Median(xs)
          /\ Percentile(xs, 0) = 100 * Least(xs) /\ Percentile(xs, 100) = 100 * Greatest(xs)
          /\ Percentile(xs, 10) <= Percentile(xs, 50) /\ Percentile(xs, 50) <= Percentile(xs, 90)
      BY <3>2, <3>3, PercentilesAre
    <3> QED
      BY <3>4, <3>5, <3>6 DEF StatsOf
  <2>2. ASSUME NEW u \in DOMAIN db.suites, NEW out \in Distributions(RowsOf(OfSuite(u))),
               NEW bins \in {1, 2, 14},
               NEW i \in DOMAIN Overlay([k \in DOMAIN out |-> out[k].scores], bins)
        PROVE  SumOf(Overlay([k \in DOMAIN out |-> out[k].scores], bins)[i]) = Len(out[i].scores)
    <3> DEFINE rows == RowsOf(OfSuite(u))
               series == [k \in DOMAIN out |-> out[k].scores]
    <3>1. \E n \in Nat : /\ DOMAIN out = 1..n
                         /\ \A k \in 1..n : out[k].scores = ScoresOf(Of(rows, out[k].submission))
      BY <2>0, DistributionsHave
    <3>2. PICK n \in Nat : /\ DOMAIN out = 1..n
                           /\ \A k \in 1..n : out[k].scores = ScoresOf(Of(rows, out[k].submission))
      BY <3>1
    <3>3. DOMAIN series = 1..n /\ \A k \in 1..n : series[k] = out[k].scores /\ series[k] \in Seq(Int)
      <4>1. ASSUME NEW k \in 1..n PROVE ScoresOf(Of(rows, out[k].submission)) \in Seq(Int)
        <5> DEFINE s == out[k].submission
        <5>1. IsRows(rows)
          BY <2>0
        <5> HIDE DEF rows, s
        <5>2. ScoresOf(Of(rows, s)) \in Seq(Int)
          BY <5>1, ScoresAre
        <5> QED
          BY <5>2 DEF s
      <4> HIDE DEF rows
      <4>2. DOMAIN series = 1..n /\ \A k \in 1..n : series[k] = out[k].scores
        BY <3>2
      <4> QED
        BY <3>2, <4>1, <4>2
    <3>4. i \in 1..n
      <4>1. DOMAIN Overlay(series, bins) \subseteq DOMAIN series
        <5>1. DOMAIN <<>> = {}
          OBVIOUS
        <5> HIDE DEF series
        <5> QED
          BY <5>1 DEF Overlay
      <4> HIDE DEF series
      <4> QED
        BY <3>3, <4>1 DEF series
    <3>5. bins \in Nat /\ bins > 0
      OBVIOUS
    <3>6. SumOf(Overlay(series, bins)[i]) = Len(series[i])
      <4>1. i \in DOMAIN Overlay(series, bins)
        OBVIOUS
      <4> HIDE DEF series
      <4> QED
        BY <3>3, <3>5, <4>1, OverlayAddsUp
    <3> QED
      BY <3>3, <3>4, <3>6
  <2> QED
    BY <2>1, <2>2 DEF StatsAgree, StatsOf
<1> QED
  BY <1>1, ConsoleInvariant, PTL
=============================================================================
