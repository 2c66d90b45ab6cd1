----------------------------- MODULE FiniteFacts -----------------------------
(***************************************************************************)
(* Facts about finite sets and functions over rows that the proofs of     *)
(* several components need. Induction is spelt out by least counterexamples*)
(***************************************************************************)
EXTENDS Integers, FiniteSetsExt, FiniteSetTheorems, WellFoundedInduction, TLAPS

\* Of the finite subsets of a set that some property fails for, one is minimal.
LEMMA MinimalCounterexample ==
    ASSUME NEW S, NEW Bad, Bad \subseteq FiniteSubsetsOf(S), Bad # {}
    PROVE  \E T \in Bad : \A U \in Bad : U \subseteq T => U = T
<1>1. PICK T \in Bad : \A U \in Bad : ~(<<U, T>> \in StrictSubsetOrdering(S))
  <2> DEFINE R == StrictSubsetOrdering(S)
             F == FiniteSubsetsOf(S)
  <2>1. IsWellFoundedOn(R, F)  BY FS_StrictSubsetOrderingWellFounded
  <2> HIDE DEF R, F
  <2>2. Bad \subseteq F  BY DEF F
  <2>3. \E T \in Bad : \A U \in Bad : ~(<<U, T>> \in R)
    BY <2>1, <2>2, WFMin
  <2> QED  BY <2>3 DEF R
<1>2. T \in SUBSET S /\ \A U \in Bad : U \in SUBSET S  BY DEF FiniteSubsetsOf
<1> QED  BY <1>1, <1>2 DEF StrictSubsetOrdering

\* A finite set of numbers that is not empty has a greatest member.
LEMMA MaxOfFinite ==
    ASSUME NEW S \in SUBSET Int, IsFiniteSet(S), S # {}
    PROVE  Max(S) \in S /\ \A y \in S : y <= Max(S)
<1> DEFINE Greatest(T) == \E x \in T : \A y \in T : x >= y
           Bad == {T \in FiniteSubsetsOf(S) : T # {} /\ ~Greatest(T)}
<1>1. Bad = {}
  <2> SUFFICES ASSUME Bad # {}  PROVE FALSE  OBVIOUS
  <2>1. Bad \subseteq FiniteSubsetsOf(S)  OBVIOUS
  <2>2. PICK T \in Bad : \A U \in Bad : U \subseteq T => U = T
    <3> HIDE DEF Bad
    <3> QED  BY <2>1, MinimalCounterexample
  <2>3. T \in SUBSET S /\ IsFiniteSet(T) /\ T # {} /\ ~Greatest(T)  BY DEF FiniteSubsetsOf
  <2>4. PICK x \in T : TRUE  BY <2>3
  <2>5. IsFiniteSet(T \ {x}) /\ T \ {x} \in SUBSET S  BY <2>3, FS_RemoveElement
  <2>6. T \ {x} \notin Bad  BY <2>2, <2>4
  <2>7. CASE T \ {x} = {}
    <3>1. T = {x} /\ x \in Int  BY <2>3, <2>4, <2>7
    <3> QED  BY <2>3, <3>1
  <2>8. CASE T \ {x} # {}
    <3>1. Greatest(T \ {x})  BY <2>5, <2>6, <2>8 DEF FiniteSubsetsOf
    <3>2. PICK m \in T \ {x} : \A y \in T \ {x} : m >= y  BY <3>1
    <3>3. m \in Int /\ x \in Int /\ T \subseteq Int  BY <2>3, <2>4, <3>2
    <3>4. CASE m >= x  BY <2>3, <3>2, <3>3, <3>4
    <3>5. CASE ~(m >= x)
      <4>1. \A y \in T : x >= y  BY <3>2, <3>3, <3>5
      <4> QED  BY <2>3, <2>4, <4>1
    <3> QED  BY <3>4, <3>5
  <2> QED  BY <2>7, <2>8
<1>2. S \in FiniteSubsetsOf(S)  BY DEF FiniteSubsetsOf
<1>3. \E x \in S : \A y \in S : x >= y  BY <1>1, <1>2
<1>4. Max(S) \in S /\ \A y \in S : Max(S) >= y  BY <1>3 DEF Max
<1> QED  BY <1>4

\* A member that no other exceeds is the greatest.
LEMMA MaxIs ==
    ASSUME NEW S \in SUBSET Int, NEW x \in S, \A y \in S : y <= x
    PROVE  Max(S) = x
<1>1. \A y \in S : x >= y  OBVIOUS
<1>2. Max(S) \in S /\ \A y \in S : Max(S) >= y
  <2> DEFINE IsGreatest(z) == \A y \in S : z >= y
  <2>1. x \in S /\ IsGreatest(x)  BY <1>1
  <2> HIDE DEF IsGreatest
  <2>2. (CHOOSE z \in S : IsGreatest(z)) \in S /\ IsGreatest(CHOOSE z \in S : IsGreatest(z))
    BY <2>1
  <2> QED  BY <2>2 DEF Max, IsGreatest
<1>3. Max(S) >= x /\ Max(S) <= x /\ Max(S) \in Int /\ x \in Int  BY <1>2
<1> QED  BY <1>3

\* And one that exceeds no other is the least.
LEMMA MinIs ==
    ASSUME NEW S \in SUBSET Int, NEW x \in S, \A y \in S : x <= y
    PROVE  Min(S) = x
<1>1. Min(S) \in S /\ \A y \in S : Min(S) <= y
  <2> DEFINE IsLeast(z) == \A y \in S : z <= y
  <2>1. x \in S /\ IsLeast(x)  OBVIOUS
  <2> HIDE DEF IsLeast
  <2>2. (CHOOSE z \in S : IsLeast(z)) \in S /\ IsLeast(CHOOSE z \in S : IsLeast(z))
    BY <2>1
  <2> QED  BY <2>2 DEF Min, IsLeast
<1>2. Min(S) >= x /\ Min(S) <= x /\ Min(S) \in Int /\ x \in Int  BY <1>1
<1> QED  BY <1>2

\* A finite set of numbers that is not empty has a least member.
LEMMA MinOfFinite ==
    ASSUME NEW S \in SUBSET Int, IsFiniteSet(S), S # {}
    PROVE  Min(S) \in S /\ \A y \in S : Min(S) <= y
<1> DEFINE N == {0 - x : x \in S}
<1>1. N \in SUBSET Int /\ N # {}
  <2>1. ASSUME NEW x \in S  PROVE 0 - x \in Int
    <3>1. x \in Int  OBVIOUS
    <3> QED  BY <3>1
  <2>2. PICK x \in S : TRUE  OBVIOUS
  <2>3. 0 - x \in N  OBVIOUS
  <2> QED  BY <2>1, <2>3
<1>2. IsFiniteSet(N)
  <2> DEFINE f == [x \in S |-> 0 - x]
  <2>1. f \in Surjection(S, N)  BY DEF Surjection
  <2> QED  BY <2>1, FS_Surjection
<1>3. Max(N) \in N /\ \A y \in N : y <= Max(N)
  <2> HIDE DEF N
  <2> QED  BY <1>1, <1>2, MaxOfFinite
<1>4. PICK x \in S : Max(N) = 0 - x  BY <1>3
<1>5. \A y \in S : x <= y
  <2> SUFFICES ASSUME NEW y \in S  PROVE x <= y  OBVIOUS
  <2>1. 0 - y \in N  OBVIOUS
  <2>2. 0 - y <= 0 - x  BY <1>3, <1>4, <2>1
  <2>3. x \in Int /\ y \in Int  OBVIOUS
  <2> QED  BY <2>2, <2>3
<1>6. Min(S) = x  BY <1>5, MinIs
<1> QED  BY <1>5, <1>6

-----------------------------------------------------------------------------
(* Quotients *)

LEMMA Quotient ==
    ASSUME NEW x \in Int, NEW d \in Nat \ {0}
    PROVE  /\ x \div d \in Int /\ d * (x \div d) <= x /\ x < (d * (x \div d)) + d
           /\ x >= 0 => x \div d \in Nat
  BY SMT

\* Of two numbers d apart the quotients differ; else they keep their order.
LEMMA QuotientOrder ==
    ASSUME NEW x \in Int, NEW y \in Int, NEW d \in Nat \ {0}
    PROVE  /\ x <= y => x \div d <= y \div d
           /\ x + d <= y => x \div d < y \div d
<1> DEFINE p == x \div d
           q == y \div d
<1>1. /\ p \in Int /\ d * p <= x /\ x < (d * p) + d
      /\ q \in Int /\ d * q <= y /\ y < (d * q) + d
  BY Quotient
<1> HIDE DEF p, q
<1>2. ASSUME x <= y, ~(p <= q)  PROVE FALSE
  <2>1. q + 1 <= p  BY <1>1, <1>2
  <2>2. d * (q + 1) <= d * p  BY <1>1, <2>1
  <2>3. d * (q + 1) = (d * q) + d  BY <1>1
  <2>4. d * q \in Int /\ d * p \in Int  BY <1>1
  <2> QED  BY <1>1, <1>2, <2>2, <2>3, <2>4
<1>3. ASSUME x + d <= y, ~(p < q)  PROVE FALSE
  <2>1. q <= p  BY <1>1, <1>3
  <2>2. d * q <= d * p  BY <1>1, <2>1
  <2>3. d * q \in Int /\ d * p \in Int  BY <1>1
  <2> QED  BY <1>1, <1>3, <2>2, <2>3
<1> QED  BY <1>2, <1>3 DEF p, q

\* A set of naturals that is not empty has a least member.
LEMMA LeastNatural ==
    ASSUME NEW S, S \subseteq Nat, S # {}
    PROVE  \E n \in S : \A m \in S : n <= m
<1>1. PICK n \in S : \A m \in S : ~(<<m, n>> \in OpToRel(<, Nat))
  BY NatLessThanWellFounded, WFMin
<1>2. \A m \in S : ~(m < n)  BY <1>1 DEF OpToRel
<1>3. \A m \in S : m \in Int /\ n \in Int  OBVIOUS
<1>4. \A m \in S : n <= m  BY <1>2, <1>3
<1> QED  BY <1>4

-----------------------------------------------------------------------------
(* Sums.  SumFunctionOnSet takes the members of a set in some order; the sum *)
(* is the same for all.                                                      *)

Some(s) == CHOOSE x \in s : TRUE

\* g is the recursive function of the sum of f, on the sets of D.
Sums(g, f, D) ==
    /\ DOMAIN g = D
    /\ \A s \in D : g[s] = IF s = {} THEN 0 ELSE f[Some(s)] + g[s \ {Some(s)}]

LEMMA SomeMember ==
    ASSUME NEW s, s # {}
    PROVE  Some(s) \in s
  BY DEF Some

AllSums(g, f, S) == Sums(g, f, SUBSET S)

\* The same, as the library writes it.
Recursive(g, f, S) ==
    g = [s \in SUBSET S |-> IF s = {} THEN 0 ELSE f[Some(s)] + g[s \ {Some(s)}]]

\* There is one, for the subsets of a finite set.
LEMMA SumsExist ==
    ASSUME NEW f, NEW S, IsFiniteSet(S)
    PROVE  \E g : Recursive(g, f, S)
<1> DEFINE Level(n) == {s \in SUBSET S : Cardinality(s) <= n}
           Bad == {n \in Nat : ~ \E g : Sums(g, f, Level(n))}
<1>1. \A s \in SUBSET S : IsFiniteSet(s) /\ Cardinality(s) \in Nat /\ Cardinality(s) <= Cardinality(S)
  BY FS_Subset, FS_CardinalityType
<1>2. \A s \in SUBSET S : s # {} =>
         /\ s \ {Some(s)} \in SUBSET S
         /\ Cardinality(s \ {Some(s)}) = Cardinality(s) - 1
  BY <1>1, SomeMember, FS_RemoveElement
<1>3. \A s \in SUBSET S : Cardinality(s) = 0 <=> s = {}
  BY <1>1, FS_EmptySet
<1>4. 0 \notin Bad
  <2> DEFINE g == [s \in Level(0) |-> 0]
  <2>1. \A s \in Level(0) : s = {}  BY <1>1, <1>3
  <2>2. Sums(g, f, Level(0))  BY <2>1 DEF Sums
  <2> QED  BY <2>2
<1>5. ASSUME NEW n \in Nat, n \notin Bad  PROVE n + 1 \notin Bad
  <2>1. PICK g : Sums(g, f, Level(n))  BY <1>5
  <2> DEFINE h == [s \in Level(n + 1) |->
                      IF s = {} THEN 0 ELSE f[Some(s)] + g[s \ {Some(s)}]]
  <2>2. Level(n) \subseteq Level(n + 1)  BY <1>1
  <2>3. \A s \in Level(n) : h[s] = g[s]  BY <2>1, <2>2 DEF Sums
  <2>4. \A s \in Level(n + 1) : s # {} => s \ {Some(s)} \in Level(n)  BY <1>1, <1>2
  <2>5. Sums(h, f, Level(n + 1))
    <3>1. DOMAIN h = Level(n + 1)
          /\ \A s \in Level(n + 1) : h[s] = IF s = {} THEN 0 ELSE f[Some(s)] + g[s \ {Some(s)}]
      OBVIOUS
    <3> HIDE DEF h, Level
    <3> QED  BY <2>3, <2>4, <3>1 DEF Sums
  <2> QED  BY <2>5
<1>6. Bad = {}
  <2> SUFFICES ASSUME Bad # {}  PROVE FALSE  OBVIOUS
  <2>1. Bad \subseteq Nat  OBVIOUS
  <2> HIDE DEF Bad
  <2>2. PICK n \in Bad : \A m \in Bad : n <= m  BY <2>1, LeastNatural
  <2>3. n \in Nat /\ n # 0  BY <1>4, <2>1, <2>2
  <2>4. n - 1 \in Nat /\ n - 1 \notin Bad /\ (n - 1) + 1 = n  BY <2>1, <2>2, <2>3
  <2> QED  BY <1>5, <2>2, <2>4
<1>7. Cardinality(S) \in Nat /\ Level(Cardinality(S)) = SUBSET S
  BY <1>1
<1>8. PICK g : Sums(g, f, SUBSET S)
  BY <1>6, <1>7
<1> DEFINE h == [s \in SUBSET S |-> IF s = {} THEN 0 ELSE f[Some(s)] + g[s \ {Some(s)}]]
<1>9. \A s \in SUBSET S : h[s] = g[s]  BY <1>8 DEF Sums
<1>10. \A s \in SUBSET S : s \ {Some(s)} \in SUBSET S  OBVIOUS
<1>11. Recursive(h, f, S)
  <2> HIDE DEF h
  <2>1. h = [s \in SUBSET S |-> IF s = {} THEN 0 ELSE f[Some(s)] + g[s \ {Some(s)}]]  BY DEF h
  <2>2. h = [s \in SUBSET S |-> IF s = {} THEN 0 ELSE f[Some(s)] + h[s \ {Some(s)}]]
    BY <1>9, <1>10, <2>1
  <2> QED  BY <2>2 DEF Recursive
<1> HIDE DEF h
<1> QED  BY <1>11

LEMMA SumIsOne ==
    ASSUME NEW f, NEW S, IsFiniteSet(S)
    PROVE  \E g : AllSums(g, f, S) /\ SumFunctionOnSet(f, S) = g[S]
<1> DEFINE iter == CHOOSE g : Recursive(g, f, S)
<1>1. SumFunctionOnSet(f, S) = iter[S]
  BY Zenon DEF SumFunctionOnSet, FoldFunctionOnSet, MapThenFoldSet, Some, Recursive
<1>2. Recursive(iter, f, S)  BY SumsExist
<1> HIDE DEF iter
<1>3. AllSums(iter, f, S)  BY <1>2 DEF AllSums, Sums, Recursive
<1> QED  BY <1>1, <1>3

\* Two such functions agree where both are defined.
LEMMA SumsAgree ==
    ASSUME NEW f, NEW S, IsFiniteSet(S), NEW T, T \subseteq S,
           NEW g, AllSums(g, f, S), NEW h, AllSums(h, f, T)
    PROVE  g[T] = h[T]
<1> DEFINE Bad == {s \in SUBSET T : g[s] # h[s]}
<1>1. Bad = {}
  <2> SUFFICES ASSUME Bad # {}  PROVE FALSE  OBVIOUS
  <2>1. Bad \subseteq FiniteSubsetsOf(S)
    <3>1. \A s \in SUBSET T : s \in SUBSET S /\ IsFiniteSet(s)  BY FS_Subset
    <3> QED  BY <3>1 DEF FiniteSubsetsOf
  <2>2. PICK s \in Bad : \A t \in Bad : t \subseteq s => s = t
    <3> HIDE DEF Bad
    <3> QED  BY <2>1, MinimalCounterexample
  <2>3. s \in SUBSET T /\ s \in SUBSET S /\ g[s] # h[s]  OBVIOUS
  <2>4. s # {}  BY <2>3 DEF AllSums, Sums
  <2>5. Some(s) \in s /\ s \ {Some(s)} \in SUBSET T /\ s \ {Some(s)} # s
    BY <2>3, <2>4, SomeMember
  <2>6. g[s \ {Some(s)}] = h[s \ {Some(s)}]  BY <2>2, <2>5
  <2> QED  BY <2>3, <2>4, <2>6 DEF AllSums, Sums
<1>2. T \in SUBSET T  OBVIOUS
<1> QED  BY <1>1, <1>2

\* What the library's definition computes.
LEMMA SumUnfolded ==
    ASSUME NEW f, NEW S, IsFiniteSet(S)
    PROVE  SumFunctionOnSet(f, S) =
              IF S = {} THEN 0 ELSE f[Some(S)] + SumFunctionOnSet(f, S \ {Some(S)})
<1> DEFINE T == S \ {Some(S)}
<1>1. PICK g : AllSums(g, f, S) /\ SumFunctionOnSet(f, S) = g[S]  BY SumIsOne
<1>2. IsFiniteSet(T) /\ T \subseteq S  BY FS_Subset
<1> HIDE DEF T
<1>3. PICK h : AllSums(h, f, T) /\ SumFunctionOnSet(f, T) = h[T]  BY <1>2, SumIsOne
<1>4. g[T] = h[T]  BY <1>1, <1>2, <1>3, SumsAgree
<1>5. S \in SUBSET S  OBVIOUS
<1> QED  BY <1>1, <1>3, <1>4, <1>5 DEF AllSums, Sums, T

\* Any member can be taken out first.
LEMMA SumWithout ==
    ASSUME NEW f, NEW S, IsFiniteSet(S), \A y \in S : f[y] \in Int
    PROVE  /\ SumFunctionOnSet(f, S) \in Int
           /\ \A x \in S : SumFunctionOnSet(f, S) = f[x] + SumFunctionOnSet(f, S \ {x})
<1> DEFINE Sum(s) == SumFunctionOnSet(f, s)
           Good(s) == Sum(s) \in Int /\ \A x \in s : Sum(s) = f[x] + Sum(s \ {x})
           Bad == {s \in FiniteSubsetsOf(S) : ~Good(s)}
<1>1. \A s \in FiniteSubsetsOf(S) : /\ IsFiniteSet(s) /\ s \subseteq S
                                   /\ \A x \in s : s \ {x} \in FiniteSubsetsOf(S)
  <2> SUFFICES ASSUME NEW s \in FiniteSubsetsOf(S)
               PROVE  /\ IsFiniteSet(s) /\ s \subseteq S
                      /\ \A x \in s : s \ {x} \in FiniteSubsetsOf(S)
    OBVIOUS
  <2>1. IsFiniteSet(s) /\ s \subseteq S  BY DEF FiniteSubsetsOf
  <2>2. \A x : IsFiniteSet(s \ {x})  BY <2>1, FS_Subset
  <2> QED  BY <2>1, <2>2 DEF FiniteSubsetsOf
<1>2. Bad = {}
  <2> SUFFICES ASSUME Bad # {}  PROVE FALSE  OBVIOUS
  <2>1. Bad \subseteq FiniteSubsetsOf(S)  OBVIOUS
  <2>2. PICK s \in Bad : \A t \in Bad : t \subseteq s => s = t
    <3> HIDE DEF Bad
    <3> QED  BY <2>1, MinimalCounterexample
  <2>3. s \in FiniteSubsetsOf(S) /\ IsFiniteSet(s) /\ s \subseteq S /\ ~Good(s)  BY <1>1
  <2>4. \A x \in s : Good(s \ {x})
    <3> TAKE x \in s
    <3>1. s \ {x} \in FiniteSubsetsOf(S) /\ s \ {x} \subseteq s /\ s \ {x} # s  BY <1>1, <2>3
    <3> QED  BY <2>2, <3>1
  <2> DEFINE y == Some(s)
  <2>5. Sum(s) = IF s = {} THEN 0 ELSE f[y] + Sum(s \ {y})  BY <2>3, SumUnfolded
  <2> HIDE DEF y, Sum
  <2>6. s # {} /\ y \in s
    <3>1. s = {} => Good(s)  BY <2>5
    <3> QED  BY <2>3, <3>1, SomeMember DEF y
  <2>7. Sum(s) = f[y] + Sum(s \ {y})  BY <2>5, <2>6
  <2>8. \A x \in s : f[x] \in Int /\ Sum(s \ {x}) \in Int  BY <2>3, <2>4
  <2>9. ASSUME NEW x \in s  PROVE Sum(s) = f[x] + Sum(s \ {x})
    <3>1. CASE x = y  BY <2>7, <3>1
    <3>2. CASE x # y
      <4>1. x \in s \ {y} /\ y \in s \ {x}  BY <2>6, <3>2
      <4>2. (s \ {y}) \ {x} = (s \ {x}) \ {y}  OBVIOUS
      <4> DEFINE a == Sum((s \ {y}) \ {x})
      <4>3. Sum(s \ {y}) = f[x] + a  BY <2>4, <2>6, <4>1
      <4>4. Sum(s \ {x}) = f[y] + a  BY <2>4, <4>1, <4>2
      <4>5. a \in Int
        <5>1. Sum(s \ {y}) = f[x] + a /\ Good(s \ {y}) /\ (s \ {y}) \ {x} \in FiniteSubsetsOf(S)
          BY <1>1, <2>3, <2>4, <2>6, <4>1, <4>3
        <5>2. (s \ {y}) \ {x} \notin Bad
          <6>1. (s \ {y}) \ {x} \subseteq s /\ (s \ {y}) \ {x} # s  BY <2>6
          <6> QED  BY <2>2, <6>1
        <5> QED  BY <5>1, <5>2
      <4>6. f[x] \in Int /\ f[y] \in Int  BY <2>6, <2>8
      <4> HIDE DEF a
      <4> QED  BY <2>7, <4>3, <4>4, <4>5, <4>6
    <3> QED  BY <3>1, <3>2
  <2>10. Sum(s) \in Int  BY <2>6, <2>7, <2>8
  <2>11. Good(s)  BY <2>9, <2>10
  <2> QED  BY <2>3, <2>11
<1>3. S \in FiniteSubsetsOf(S)  BY DEF FiniteSubsetsOf
<1>4. Good(S)  BY <1>2, <1>3
<1> QED  BY <1>4

\* The sum depends on the values on the set alone.
LEMMA SumSame ==
    ASSUME NEW f, NEW g, NEW S, IsFiniteSet(S), \A y \in S : f[y] = g[y]
    PROVE  SumFunctionOnSet(f, S) = SumFunctionOnSet(g, S)
<1> DEFINE Bad == {s \in FiniteSubsetsOf(S) : SumFunctionOnSet(f, s) # SumFunctionOnSet(g, s)}
<1>1. Bad = {}
  <2> SUFFICES ASSUME Bad # {}  PROVE FALSE  OBVIOUS
  <2>1. Bad \subseteq FiniteSubsetsOf(S)  OBVIOUS
  <2>2. PICK s \in Bad : \A t \in Bad : t \subseteq s => s = t
    <3> HIDE DEF Bad
    <3> QED  BY <2>1, MinimalCounterexample
  <2>3. IsFiniteSet(s) /\ s \subseteq S /\ SumFunctionOnSet(f, s) # SumFunctionOnSet(g, s)
    BY DEF FiniteSubsetsOf
  <2>4. s # {} => Some(s) \in s /\ IsFiniteSet(s \ {Some(s)})  BY <2>3, SomeMember, FS_Subset
  <2>5. s # {} => SumFunctionOnSet(f, s \ {Some(s)}) = SumFunctionOnSet(g, s \ {Some(s)})
    <3> SUFFICES ASSUME s # {}
                 PROVE  SumFunctionOnSet(f, s \ {Some(s)}) = SumFunctionOnSet(g, s \ {Some(s)})
      OBVIOUS
    <3>1. s \ {Some(s)} \in FiniteSubsetsOf(S)  BY <2>3, <2>4 DEF FiniteSubsetsOf
    <3>2. s \ {Some(s)} \subseteq s /\ s \ {Some(s)} # s  BY <2>4
    <3> QED  BY <2>2, <3>1, <3>2
  <2>6. /\ SumFunctionOnSet(f, s) =
             IF s = {} THEN 0 ELSE f[Some(s)] + SumFunctionOnSet(f, s \ {Some(s)})
        /\ SumFunctionOnSet(g, s) =
             IF s = {} THEN 0 ELSE g[Some(s)] + SumFunctionOnSet(g, s \ {Some(s)})
    BY <2>3, SumUnfolded
  <2>7. s # {} => f[Some(s)] = g[Some(s)]  BY <2>3, <2>4
  <2> QED  BY <2>3, <2>5, <2>6, <2>7
<1>2. S \in FiniteSubsetsOf(S)  BY DEF FiniteSubsetsOf
<1> QED  BY <1>1, <1>2

\* A function on a finite set that changes in one place.
LEMMA SumChanged ==
    ASSUME NEW S, IsFiniteSet(S), NEW f \in [S -> Int], NEW x \in S, NEW v \in Int
    PROVE  /\ SumFunction(f) \in Int
           /\ SumFunction([f EXCEPT ![x] = v]) = SumFunction(f) + (v - f[x])
<1> DEFINE g == [f EXCEPT ![x] = v]
           T == S \ {x}
<1>1. g \in [S -> Int] /\ g[x] = v /\ (\A y \in T : f[y] = g[y]) /\ IsFiniteSet(T)
  BY FS_Subset
<1> HIDE DEF g
<1>2. SumFunction(f) = SumFunctionOnSet(f, S) /\ SumFunction(g) = SumFunctionOnSet(g, S)
  BY <1>1 DEF SumFunction
<1>3. SumFunctionOnSet(f, T) = SumFunctionOnSet(g, T)  BY <1>1, SumSame
<1>4. /\ SumFunctionOnSet(f, S) \in Int /\ SumFunctionOnSet(g, S) \in Int
      /\ SumFunctionOnSet(f, S) = f[x] + SumFunctionOnSet(f, T)
      /\ SumFunctionOnSet(g, S) = g[x] + SumFunctionOnSet(g, T)
  BY <1>1, SumWithout
<1>5. SumFunctionOnSet(f, T) \in Int
  <2>1. \A y \in T : f[y] \in Int  OBVIOUS
  <2> QED  BY <1>1, <2>1, SumWithout
<1>6. f[x] \in Int  OBVIOUS
<1> HIDE DEF T
<1>7. SumFunction(g) = SumFunction(f) + (v - f[x])  BY <1>1, <1>2, <1>3, <1>4, <1>5, <1>6
<1> QED  BY <1>2, <1>4, <1>7 DEF g

\* And one that gets one more value.
LEMMA SumExtended ==
    ASSUME NEW f, NEW g, NEW S, NEW x, IsFiniteSet(S), x \notin S,
           DOMAIN f = S, \A y \in S : f[y] \in Int,
           DOMAIN g = S \cup {x}, \A y \in S : g[y] = f[y], g[x] \in Int
    PROVE  SumFunction(f) \in Int /\ SumFunction(g) = SumFunction(f) + g[x]
<1> DEFINE T == S \cup {x}
<1>1. IsFiniteSet(T) /\ x \in T /\ T \ {x} = S  BY FS_AddElement
<1>2. /\ \A y \in T : g[y] \in Int
      /\ \A y \in S : f[y] \in Int
  OBVIOUS
<1>3. DOMAIN g = T /\ DOMAIN f = S  OBVIOUS
<1> HIDE DEF T
<1>4. SumFunctionOnSet(g, T) = g[x] + SumFunctionOnSet(g, S)  BY <1>1, <1>2, SumWithout
<1>5. SumFunctionOnSet(g, S) = SumFunctionOnSet(f, S)  BY SumSame
<1>6. SumFunctionOnSet(f, S) \in Int  BY <1>2, SumWithout
<1>7. g[x] \in Int  BY <1>1, <1>2
<1> QED  BY <1>3, <1>4, <1>5, <1>6, <1>7 DEF SumFunction

\* Naturals add up to a natural.
LEMMA SumNatural ==
    ASSUME NEW S, IsFiniteSet(S), NEW f \in [S -> Nat]
    PROVE  SumFunction(f) \in Nat
<1> DEFINE Bad == {s \in FiniteSubsetsOf(S) : SumFunctionOnSet(f, s) \notin Nat}
<1>1. Bad = {}
  <2> SUFFICES ASSUME Bad # {}  PROVE FALSE  OBVIOUS
  <2>1. Bad \subseteq FiniteSubsetsOf(S)  OBVIOUS
  <2>2. PICK s \in Bad : \A t \in Bad : t \subseteq s => s = t
    <3> HIDE DEF Bad
    <3> QED  BY <2>1, MinimalCounterexample
  <2>3. IsFiniteSet(s) /\ s \subseteq S /\ SumFunctionOnSet(f, s) \notin Nat
    BY DEF FiniteSubsetsOf
  <2>4. SumFunctionOnSet(f, s) =
           IF s = {} THEN 0 ELSE f[Some(s)] + SumFunctionOnSet(f, s \ {Some(s)})
    BY <2>3, SumUnfolded
  <2>5. CASE s = {}  BY <2>3, <2>4, <2>5
  <2>6. CASE s # {}
    <3>1. Some(s) \in s /\ IsFiniteSet(s \ {Some(s)})  BY <2>3, <2>6, SomeMember, FS_Subset
    <3>2. s \ {Some(s)} \in FiniteSubsetsOf(S)  BY <2>3, <3>1 DEF FiniteSubsetsOf
    <3>3. s \ {Some(s)} \subseteq s /\ s \ {Some(s)} # s  BY <3>1
    <3>4. SumFunctionOnSet(f, s \ {Some(s)}) \in Nat  BY <2>2, <3>2, <3>3
    <3>5. f[Some(s)] \in Nat  BY <2>3, <3>1
    <3> QED  BY <2>3, <2>4, <2>6, <3>4, <3>5
  <2> QED  BY <2>5, <2>6
<1>2. S \in FiniteSubsetsOf(S)  BY DEF FiniteSubsetsOf
<1>3. DOMAIN f = S  OBVIOUS
<1> QED  BY <1>1, <1>2, <1>3 DEF SumFunction
-----------------------------------------------------------------------------
\* States that follow each other from a on, by the functions of T.
Stepping(g, n, S, a, T) ==
    g \in [0 .. n -> S] /\ g[0] = a /\ \A i \in 1 .. n : g[i] = T[i][g[i - 1]]

LEMMA StepsExist ==
    ASSUME NEW n \in Nat, NEW S, NEW a \in S, NEW T \in [1 .. n -> [S -> S]]
    PROVE  \E g : Stepping(g, n, S, a, T)
<1> DEFINE Follows(g, k) == /\ g \in [0 .. k -> S] /\ g[0] = a
                            /\ \A i \in 1 .. k : g[i] = T[i][g[i - 1]]
           Bad == {k \in 0 .. n : ~ \E g : Follows(g, k)}
<1>1. 0 \notin Bad
  <2> DEFINE g == [i \in 0 .. 0 |-> a]
  <2>1. g \in [0 .. 0 -> S] /\ g[0] = a  OBVIOUS
  <2>2. 1 .. 0 = {}  OBVIOUS
  <2>3. Follows(g, 0)  BY <2>1, <2>2
  <2> QED  BY <2>3
<1>2. ASSUME NEW k \in 0 .. n, k + 1 \in 0 .. n, NEW g, Follows(g, k)
      PROVE  \E h : Follows(h, k + 1)
  <2> DEFINE h == [i \in 0 .. k + 1 |-> IF i = k + 1 THEN T[k + 1][g[k]] ELSE g[i]]
  <2>1. k \in Nat /\ k + 1 \in 1 .. n /\ k \in 0 .. k  BY <1>2
  <2>2. T[k + 1][g[k]] \in S  BY <1>2, <2>1
  <2>3. h \in [0 .. k + 1 -> S]
    <3>1. \A i \in 0 .. k + 1 : i # k + 1 => i \in 0 .. k  BY <2>1
    <3> QED  BY <1>2, <2>2, <3>1
  <2>4. h[0] = a  BY <1>2, <2>1
  <2>5. \A i \in 1 .. k + 1 : h[i] = T[i][h[i - 1]]
    <3> TAKE i \in 1 .. k + 1
    <3>1. CASE i = k + 1
      <4>1. i - 1 = k /\ k \in 0 .. k + 1 /\ k # k + 1 /\ i \in 0 .. k + 1  BY <2>1, <3>1
      <4>2. h[k] = g[k] /\ h[i] = T[k + 1][g[k]]  BY <3>1, <4>1
      <4> HIDE DEF h
      <4> QED  BY <3>1, <4>1, <4>2
    <3>2. CASE i # k + 1
      <4>1. i \in 1 .. k /\ i \in 0 .. k + 1 /\ i - 1 \in 0 .. k + 1 /\ i - 1 # k + 1  BY <2>1, <3>2
      <4>2. h[i] = g[i] /\ h[i - 1] = g[i - 1]  BY <3>2, <4>1
      <4> HIDE DEF h
      <4> QED  BY <1>2, <4>1, <4>2
    <3> QED  BY <3>1, <3>2
  <2> HIDE DEF h
  <2>6. Follows(h, k + 1)  BY <2>3, <2>4, <2>5
  <2> QED  BY <2>6
<1> HIDE DEF Follows
<1>3. Bad = {}
  <2> SUFFICES ASSUME Bad # {}  PROVE FALSE  OBVIOUS
  <2>1. Bad \subseteq Nat  OBVIOUS
  <2>2. PICK k \in Bad : \A j \in Bad : k <= j
    <3> HIDE DEF Bad
    <3> QED  BY <2>1, LeastNatural
  <2>3. k \in 0 .. n /\ k # 0 /\ ~ \E g : Follows(g, k)  BY <1>1, <2>2
  <2>4. k - 1 \in 0 .. n /\ (k - 1) + 1 = k /\ ~(k <= k - 1)  BY <2>3
  <2>5. k - 1 \notin Bad  BY <2>2, <2>4
  <2>6. PICK g : Follows(g, k - 1)  BY <2>4, <2>5
  <2> QED  BY <1>2, <2>3, <2>4, <2>6
<1>4. n \in 0 .. n  OBVIOUS
<1>5. PICK g : Follows(g, n)  BY <1>3, <1>4
<1> QED  BY <1>5 DEF Follows, Stepping

\* And a function that is so made, as long as its values are in S, is one.
LEMMA StepsTyped ==
    ASSUME NEW n \in Nat, NEW S, NEW a \in S, NEW T \in [1 .. n -> [S -> S]], NEW g,
           g = [i \in 0 .. n |-> g[i]], g[0] = a,
           \A i \in 1 .. n : g[i - 1] \in S => g[i] = T[i][g[i - 1]]
    PROVE  Stepping(g, n, S, a, T)
<1> DEFINE Bad == {i \in 0 .. n : g[i] \notin S}
<1>1. Bad = {}
  <2> SUFFICES ASSUME Bad # {}  PROVE FALSE  OBVIOUS
  <2>1. Bad \subseteq Nat  OBVIOUS
  <2>2. PICK i \in Bad : \A j \in Bad : i <= j
    <3> HIDE DEF Bad
    <3> QED  BY <2>1, LeastNatural
  <2>3. i \in 0 .. n /\ i # 0 /\ g[i] \notin S  BY <2>2
  <2>4. i - 1 \in 0 .. n /\ i \in 1 .. n /\ ~(i <= i - 1)  BY <2>3
  <2>5. g[i - 1] \in S  BY <2>2, <2>4
  <2>6. g[i] = T[i][g[i - 1]] /\ T[i] \in [S -> S]  BY <2>4, <2>5
  <2> QED  BY <2>3, <2>5, <2>6
<1>2. g \in [0 .. n -> S]  BY <1>1
<1>3. \A i \in 1 .. n : g[i - 1] \in S
  <2> TAKE i \in 1 .. n
  <2>1. i - 1 \in 0 .. n  OBVIOUS
  <2> QED  BY <1>2, <2>1
<1> QED  BY <1>2, <1>3 DEF Stepping

=============================================================================
