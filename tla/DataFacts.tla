------------------------------ MODULE DataFacts ------------------------------
(***************************************************************************)
(* What the components' proofs need of the data they share.                *)
(*                                                                         *)
(* Sums: the recursion behind the community modules' SumFunctionOnSet has  *)
(* a solution, and it does not depend on the order in which elements are   *)
(* taken.  Sorting: everything has its place in a strict total order, so   *)
(* that what Sorting defines is a permutation in order.                    *)
(*                                                                         *)
(* Induction is done by hand, on the least number with a property.         *)
(***************************************************************************)
EXTENDS InvertedList, Functions, FiniteSetTheorems, FunctionTheorems,
        SequenceTheorems, WellFoundedInduction, TLAPS

\* A set of natural numbers that is not empty has a least one.
LEMMA LeastNumber ==
  ASSUME NEW T \in SUBSET Nat, T # {}
  PROVE  \E n \in T : \A m \in T : n <= m
<1> DEFINE R == OpToRel(<, Nat)
<1>1. IsWellFoundedOn(R, Nat)
  BY NatLessThanWellFounded
<1>2. \A m, n \in Nat : m < n => <<m, n>> \in R
  BY DEF OpToRel
<1> HIDE DEF R
<1>3. PICK n \in T : \A m \in T : <<m, n>> \notin R
  BY <1>1, WFMin
<1>4. \A m \in T : ~(m < n)
  BY <1>2, <1>3
<1>5. n \in Nat /\ \A m \in T : m \in Nat
  OBVIOUS
<1>. QED BY <1>4, <1>5

\* Induction: what holds of 0, and of n + 1 if of n, holds of every number.
LEMMA EveryNumber ==
  ASSUME NEW P, 0 \in P, \A n \in Nat : n \in P => n + 1 \in P
  PROVE  Nat \subseteq P
<1> SUFFICES ASSUME Nat \ P # {} PROVE FALSE
  OBVIOUS
<1>1. PICK n \in Nat \ P : \A m \in Nat \ P : n <= m
  BY LeastNumber
<1>2. n # 0 /\ n - 1 \in Nat
  BY <1>1
<1>3. n - 1 \in P
  BY <1>1, <1>2
<1>. QED BY <1>1, <1>2, <1>3

\* A set of n + 1 elements less one.
LEMMA OneTaken ==
  ASSUME NEW s, IsFiniteSet(s), NEW n \in Nat, Cardinality(s) = n + 1, NEW x \in s
  PROVE  Cardinality(s \ {x}) = n
<1>1. Cardinality(s \ {x}) = Cardinality(s) - 1
  BY FS_RemoveElement
<1>. QED BY <1>1

\* The largest of finitely many numbers.
LEMMA LargestOf ==
  ASSUME NEW S, IsFiniteSet(S), S # {}, S \subseteq Int
  PROVE  \E p \in S : \A q \in S : q <= p
<1> DEFINE HasLargest(s) == \E p \in s : \A q \in s : q <= p
           P == {n \in Nat : \A s \in SUBSET S : Cardinality(s) = n + 1 => HasLargest(s)}
<1>0. \A t \in SUBSET S : IsFiniteSet(t) /\ Cardinality(t) \in Nat
  BY FS_Subset, FS_CardinalityType
<1>1. 0 \in P
  <2>1. \A s \in SUBSET S : Cardinality(s) = 1 => \E x : s = {x}
    BY <1>0, FS_Singleton
  <2>2. ASSUME NEW s \in SUBSET S, Cardinality(s) = 1 PROVE HasLargest(s)
    <3>1. PICK x : s = {x}
      BY <2>1, <2>2
    <3>2. x \in Int
      BY <3>1
    <3>. QED BY <3>1, <3>2
  <2>3. 0 + 1 = 1
    OBVIOUS
  <2>. QED BY <2>2, <2>3
<1>2. ASSUME NEW n \in Nat, n \in P PROVE n + 1 \in P
  <2> SUFFICES ASSUME NEW s \in SUBSET S, Cardinality(s) = n + 1 + 1 PROVE HasLargest(s)
    OBVIOUS
  <2>0. Cardinality(s) # 0
    OBVIOUS
  <2>1. PICK x \in s : TRUE
    BY <2>0, FS_EmptySet
  <2>2. Cardinality(s \ {x}) = n + 1
    BY <1>0, <2>1, OneTaken
  <2>3. PICK p \in s \ {x} : \A q \in s \ {x} : q <= p
    BY <1>2, <2>2
  <2>4. p \in Int /\ x \in Int
    OBVIOUS
  <2>5. CASE x <= p
    BY <2>3, <2>5
  <2>6. CASE p <= x
    <3>1. \A q \in s : q <= x
      BY <2>3, <2>4, <2>6
    <3>. QED BY <2>1, <3>1
  <2>. QED BY <2>4, <2>5, <2>6
<1> HIDE DEF P
<1>3. Cardinality(S) - 1 \in Nat /\ S \in SUBSET S
  BY <1>0, FS_EmptySet
<1>4. Cardinality(S) - 1 \in P
  BY <1>1, <1>2, <1>3, EveryNumber
<1>5. Cardinality(S) = (Cardinality(S) - 1) + 1
  BY <1>0
<1>. QED BY <1>3, <1>4, <1>5 DEF P

\* What a function makes of finitely many values.
LEMMA ImageFinite ==
  ASSUME NEW S, IsFiniteSet(S), NEW f
  PROVE  IsFiniteSet({f[x] : x \in S})
<1> DEFINE T == {f[x] : x \in S}
           g == [x \in S |-> f[x]]
<1>1. g \in Surjection(S, T)
  BY DEF Surjection
<1>. QED BY <1>1, FS_Surjection

\* The smallest of finitely many numbers.
LEMMA SmallestOf ==
  ASSUME NEW S, IsFiniteSet(S), S # {}, S \subseteq Int
  PROVE  \E p \in S : \A q \in S : p <= q
<1> DEFINE f == [x \in Int |-> 0 - x]
           T == {f[x] : x \in S}
<1>1. \A x \in S : x \in Int /\ f[x] = 0 - x
  OBVIOUS
<1>2. T # {} /\ T \subseteq Int
  <2>1. \A x \in S : f[x] \in Int
    BY <1>1
  <2> HIDE DEF f
  <2>. QED BY <2>1
<1>3. IsFiniteSet(T)
  <2> HIDE DEF f
  <2>. QED BY ImageFinite
<1>4. PICK p \in T : \A q \in T : q <= p
  BY <1>2, <1>3, LargestOf
<1>5. PICK x \in S : p = f[x]
  BY <1>4
<1>6. \A y \in S : f[y] <= p
  BY <1>4
<1>. QED BY <1>1, <1>5, <1>6

-------------------------------------------------------------------------------
\* The element the fold takes next, and the recursion of the sum.
First(s) == CHOOSE x \in s : TRUE
Sums(f, S, iter) ==
  iter = [s \in SUBSET S |-> IF s = {} THEN 0 ELSE f[First(s)] + iter[s \ {First(s)}]]

LEMMA FirstOf == ASSUME NEW s, s # {} PROVE First(s) \in s
BY DEF First

\* The part of the sum over sets of at most n elements.
SumsUpTo(f, S, n, iter) ==
  iter = [s \in {t \in SUBSET S : Cardinality(t) <= n} |->
            IF s = {} THEN 0 ELSE f[First(s)] + iter[s \ {First(s)}]]

\* The recursion has a solution.
LEMMA SumExists ==
  ASSUME NEW f, NEW S, IsFiniteSet(S)
  PROVE  \E iter : Sums(f, S, iter)
<1> DEFINE Small(n) == {t \in SUBSET S : Cardinality(t) <= n}
           P == {n \in Nat : \E iter : SumsUpTo(f, S, n, iter)}
<1>0. \A t \in SUBSET S : IsFiniteSet(t) /\ Cardinality(t) \in Nat
                          /\ Cardinality(t) <= Cardinality(S)
  BY FS_Subset, FS_CardinalityType
<1>1. 0 \in P
  <2> DEFINE g == [s \in Small(0) |-> 0]
  <2>1. \A s \in Small(0) : s = {}
    BY <1>0, FS_EmptySet
  <2>2. SumsUpTo(f, S, 0, g)
    BY <2>1 DEF SumsUpTo
  <2>. QED BY <2>2
<1>2. ASSUME NEW n \in Nat, n \in P PROVE n + 1 \in P
  <2>1. PICK g : SumsUpTo(f, S, n, g)
    BY <1>2
  <2> DEFINE h == [s \in Small(n + 1) |->
                     IF s = {} THEN 0 ELSE f[First(s)] + g[s \ {First(s)}]]
  <2>2. ASSUME NEW s \in Small(n) PROVE s \in Small(n + 1) /\ h[s] = g[s]
    <3>1. s \in Small(n + 1)
      BY <1>0
    <3>2. g[s] = IF s = {} THEN 0 ELSE f[First(s)] + g[s \ {First(s)}]
      <4>1. g = [t \in Small(n) |->
                   IF t = {} THEN 0 ELSE f[First(t)] + g[t \ {First(t)}]]
        BY <2>1 DEF SumsUpTo
      <4> HIDE DEF Small
      <4>. QED BY <4>1
    <3> HIDE DEF Small
    <3>. QED BY <3>1, <3>2
  <2>3. ASSUME NEW s \in Small(n + 1), s # {} PROVE s \ {First(s)} \in Small(n)
    BY <1>0, <2>3, FirstOf, FS_RemoveElement
  <2>4. \A s \in Small(n + 1) :
          h[s] = IF s = {} THEN 0 ELSE f[First(s)] + h[s \ {First(s)}]
    BY <2>2, <2>3
  <2> HIDE DEF Small
  <2>5. h = [s \in Small(n + 1) |-> IF s = {} THEN 0 ELSE f[First(s)] + h[s \ {First(s)}]]
    BY <2>4
  <2>6. SumsUpTo(f, S, n + 1, h)
    BY <2>5 DEF SumsUpTo, Small
  <2>. QED BY <2>6
<1> HIDE DEF P
<1>3. Cardinality(S) \in P
  BY <1>0, <1>1, <1>2, EveryNumber
<1>4. PICK g : SumsUpTo(f, S, Cardinality(S), g)
  BY <1>3 DEF P
<1>5. Small(Cardinality(S)) = SUBSET S
  BY <1>0
<1>6. Sums(f, S, g)
  BY <1>4, <1>5 DEF Sums, SumsUpTo
<1>. QED BY <1>6

\* A sum of numbers of a set that is closed under addition is in that set.
LEMMA PartIn ==
  ASSUME NEW N, 0 \in N, \A a, b \in N : a + b \in N,
         NEW f, NEW S, IsFiniteSet(S), \A x \in S : f[x] \in N, NEW iter, Sums(f, S, iter)
  PROVE  /\ \A s \in SUBSET S : iter[s] \in N
         /\ iter[{}] = 0
<1> DEFINE P == {n \in Nat : \A s \in SUBSET S : Cardinality(s) = n => iter[s] \in N}
<1>0. \A t \in SUBSET S : IsFiniteSet(t) /\ Cardinality(t) \in Nat
  BY FS_Subset, FS_CardinalityType
<1>1. \A s \in SUBSET S : iter[s] = IF s = {} THEN 0 ELSE f[First(s)] + iter[s \ {First(s)}]
  BY DEF Sums
<1>2. 0 \in P
  <2>1. \A s \in SUBSET S : Cardinality(s) = 0 => s = {}
    BY <1>0, FS_EmptySet
  <2>2. iter[{}] = 0
    BY <1>1
  <2>. QED BY <2>1, <2>2
<1>3. ASSUME NEW n \in Nat, n \in P PROVE n + 1 \in P
  <2> SUFFICES ASSUME NEW s \in SUBSET S, Cardinality(s) = n + 1 PROVE iter[s] \in N
    OBVIOUS
  <2>1. s # {}
    BY FS_EmptySet
  <2>2. First(s) \in s /\ iter[s] = f[First(s)] + iter[s \ {First(s)}]
    BY <1>1, <2>1, FirstOf
  <2>3. Cardinality(s \ {First(s)}) = n
    BY <1>0, <2>2, OneTaken
  <2>4. s \ {First(s)} \in SUBSET S
    OBVIOUS
  <2>5. iter[s \ {First(s)}] \in N
    BY <1>3, <2>3, <2>4
  <2>6. f[First(s)] \in N
    BY <2>2
  <2>. QED BY <2>2, <2>5, <2>6
<1> HIDE DEF P
<1>4. \A s \in SUBSET S : Cardinality(s) \in P
  BY <1>0, <1>2, <1>3, EveryNumber
<1>. QED BY <1>1, <1>4 DEF P

LEMMA PartType ==
  ASSUME NEW f, NEW S, IsFiniteSet(S), \A x \in S : f[x] \in Nat, NEW iter, Sums(f, S, iter)
  PROVE  /\ \A s \in SUBSET S : iter[s] \in Nat
         /\ iter[{}] = 0
<1>1. 0 \in Nat /\ \A a, b \in Nat : a + b \in Nat
  OBVIOUS
<1>. QED BY <1>1, PartIn

\* Every element may be taken first.
LEMMA AnyFirst ==
  ASSUME NEW f, NEW S, IsFiniteSet(S), \A x \in S : f[x] \in Nat, NEW iter, Sums(f, S, iter),
         NEW part \in SUBSET S, NEW e \in part
  PROVE  iter[part] = f[e] + iter[part \ {e}]
<1> DEFINE Good(s) == \A x \in s : iter[s] = f[x] + iter[s \ {x}]
           P == {n \in Nat : \A s \in SUBSET S : Cardinality(s) = n => Good(s)}
<1>0. \A t \in SUBSET S : IsFiniteSet(t) /\ Cardinality(t) \in Nat
  BY FS_Subset, FS_CardinalityType
<1>1. \A s \in SUBSET S : iter[s] \in Nat
  BY PartType
<1>2. 0 \in P
  <2>1. \A s \in SUBSET S : Cardinality(s) = 0 => s = {}
    BY <1>0, FS_EmptySet
  <2>. QED BY <2>1
<1>3. ASSUME NEW n \in Nat, n \in P PROVE n + 1 \in P
  <2> SUFFICES ASSUME NEW s \in SUBSET S, Cardinality(s) = n + 1, NEW x \in s
               PROVE  iter[s] = f[x] + iter[s \ {x}]
    OBVIOUS
  <2> DEFINE c == First(s)
             rest == (s \ {x}) \ {c}
  <2>1. c \in s /\ iter[s] = f[c] + iter[s \ {c}]
    BY FirstOf DEF Sums
  <2> HIDE DEF c
  <2>2. IsFiniteSet(s)
    BY <1>0
  <2>3. /\ Cardinality(s \ {x}) = n
        /\ Cardinality(s \ {c}) = n
    BY <2>1, <2>2, OneTaken
  <2>4. Good(s \ {x}) /\ Good(s \ {c})
    <3>1. \A t \in SUBSET S : Cardinality(t) = n => Good(t)
      BY <1>3
    <3>2. s \ {x} \in SUBSET S /\ s \ {c} \in SUBSET S
      OBVIOUS
    <3> HIDE DEF Good
    <3>. QED BY <2>3, <3>1, <3>2
  <2>5. CASE x = c
    BY <2>1, <2>5
  <2>6. CASE x # c
    <3>1. iter[s \ {x}] = f[c] + iter[rest]
      BY <2>1, <2>4, <2>6
    <3>2. iter[s \ {c}] = f[x] + iter[rest]
      <4>1. (s \ {c}) \ {x} = rest
        OBVIOUS
      <4>. QED BY <2>4, <2>6, <4>1
    <3>3. f[x] \in Nat /\ f[c] \in Nat
      BY <2>1
    <3>4. iter[rest] \in Nat
      BY <1>1
    <3> HIDE DEF rest
    <3>. QED BY <2>1, <3>1, <3>2, <3>3, <3>4
  <2>. QED BY <2>5, <2>6
<1> HIDE DEF P
<1>4. \A s \in SUBSET S : Cardinality(s) \in P
  BY <1>0, <1>2, <1>3, EveryNumber
<1>. QED BY <1>4 DEF P

\* Sums of the same numbers are the same, whatever else could be summed.
LEMMA SameParts ==
  ASSUME NEW f, NEW S, NEW iter, Sums(f, S, iter),
         NEW g, NEW T, NEW jter, Sums(g, T, jter),
         IsFiniteSet(S), S \subseteq T, \A x \in S : f[x] = g[x]
  PROVE  \A s \in SUBSET S : iter[s] = jter[s]
<1> DEFINE P == {n \in Nat : \A s \in SUBSET S : Cardinality(s) = n => iter[s] = jter[s]}
<1>0. \A t \in SUBSET S : IsFiniteSet(t) /\ Cardinality(t) \in Nat
  BY FS_Subset, FS_CardinalityType
<1>1. /\ \A s \in SUBSET S : iter[s] = IF s = {} THEN 0 ELSE f[First(s)] + iter[s \ {First(s)}]
      /\ \A s \in SUBSET S : jter[s] = IF s = {} THEN 0 ELSE g[First(s)] + jter[s \ {First(s)}]
  BY DEF Sums
<1>2. 0 \in P
  <2>1. \A s \in SUBSET S : Cardinality(s) = 0 => s = {}
    BY <1>0, FS_EmptySet
  <2>2. iter[{}] = 0 /\ jter[{}] = 0
    BY <1>1
  <2>. QED BY <2>1, <2>2
<1>3. ASSUME NEW n \in Nat, n \in P PROVE n + 1 \in P
  <2> SUFFICES ASSUME NEW s \in SUBSET S, Cardinality(s) = n + 1 PROVE iter[s] = jter[s]
    OBVIOUS
  <2>1. s # {}
    BY FS_EmptySet
  <2>2. First(s) \in s
    BY <2>1, FirstOf
  <2>3. Cardinality(s \ {First(s)}) = n /\ s \ {First(s)} \in SUBSET S
    BY <1>0, <2>2, OneTaken
  <2>4. iter[s \ {First(s)}] = jter[s \ {First(s)}]
    BY <1>3, <2>3
  <2>. QED BY <1>1, <2>1, <2>2, <2>4
<1> HIDE DEF P
<1>4. \A s \in SUBSET S : Cardinality(s) \in P
  BY <1>0, <1>2, <1>3, EveryNumber
<1>. QED BY <1>4 DEF P

-------------------------------------------------------------------------------
\* The sums of the community modules are these.
LEMMA SumSolves ==
  ASSUME NEW f, NEW S, IsFiniteSet(S)
  PROVE  \E iter : Sums(f, S, iter) /\ SumFunctionOnSet(f, S) = iter[S]
<1> DEFINE solution == CHOOSE iter : Sums(f, S, iter)
<1>1. Sums(f, S, solution)
  BY SumExists
<1>2. SumFunctionOnSet(f, S) = solution[S]
  BY DEF SumFunctionOnSet, FoldFunctionOnSet, MapThenFoldSet, Sums, First
<1>. QED BY <1>1, <1>2

LEMMA SumType ==
  ASSUME NEW f, NEW S, IsFiniteSet(S), \A x \in S : f[x] \in Nat
  PROVE  SumFunctionOnSet(f, S) \in Nat
<1>1. PICK iter : Sums(f, S, iter) /\ SumFunctionOnSet(f, S) = iter[S]
  BY SumSolves
<1>2. \A s \in SUBSET S : iter[s] \in Nat
  BY <1>1, PartType
<1>. QED BY <1>1, <1>2

LEMMA SumInteger ==
  ASSUME NEW f, NEW S, IsFiniteSet(S), \A x \in S : f[x] \in Int
  PROVE  SumFunctionOnSet(f, S) \in Int
<1>1. PICK iter : Sums(f, S, iter) /\ SumFunctionOnSet(f, S) = iter[S]
  BY SumSolves
<1>2. 0 \in Int /\ \A a, b \in Int : a + b \in Int
  OBVIOUS
<1>3. \A s \in SUBSET S : iter[s] \in Int
  BY <1>1, <1>2, PartIn
<1>. QED BY <1>1, <1>3

LEMMA SumOfNone == ASSUME NEW f PROVE SumFunctionOnSet(f, {}) = 0
<1>0. IsFiniteSet({})
  BY FS_EmptySet
<1>1. PICK iter : Sums(f, {}, iter) /\ SumFunctionOnSet(f, {}) = iter[{}]
  BY <1>0, SumSolves
<1>2. iter[{}] = 0
  BY <1>0, <1>1, PartType
<1>. QED BY <1>1, <1>2

\* Sums over one set of functions that agree on it are equal.
LEMMA SumSame ==
  ASSUME NEW f, NEW g, NEW S, IsFiniteSet(S), \A x \in S : f[x] = g[x]
  PROVE  SumFunctionOnSet(f, S) = SumFunctionOnSet(g, S)
<1>1. PICK iter : Sums(f, S, iter) /\ SumFunctionOnSet(f, S) = iter[S]
  BY SumSolves
<1>2. PICK jter : Sums(g, S, jter) /\ SumFunctionOnSet(g, S) = jter[S]
  BY SumSolves
<1>3. \A s \in SUBSET S : iter[s] = jter[s]
  BY <1>1, <1>2, SameParts
<1>. QED BY <1>1, <1>2, <1>3

\* One summand taken out.
LEMMA SumWithout ==
  ASSUME NEW f, NEW S, IsFiniteSet(S), \A x \in S : f[x] \in Nat, NEW x \in S
  PROVE  SumFunctionOnSet(f, S) = f[x] + SumFunctionOnSet(f, S \ {x})
<1>0. IsFiniteSet(S \ {x}) /\ S \ {x} \subseteq S
  BY FS_RemoveElement
<1>1. PICK iter : Sums(f, S, iter) /\ SumFunctionOnSet(f, S) = iter[S]
  BY SumSolves
<1>2. PICK jter : Sums(f, S \ {x}, jter) /\ SumFunctionOnSet(f, S \ {x}) = jter[S \ {x}]
  BY <1>0, SumSolves
<1>3. \A s \in SUBSET (S \ {x}) : jter[s] = iter[s]
  BY <1>0, <1>1, <1>2, SameParts
<1>4. S \in SUBSET S
  OBVIOUS
<1>5. iter[S] = f[x] + iter[S \ {x}]
  BY <1>1, <1>4, AnyFirst
<1>6. jter[S \ {x}] = iter[S \ {x}]
  BY <1>3
<1>. QED BY <1>1, <1>2, <1>5, <1>6

\* A sum of numbers none of which is larger is not larger.
LEMMA SumNoMore ==
  ASSUME NEW f, NEW g, NEW S, IsFiniteSet(S),
         \A x \in S : f[x] \in Nat /\ g[x] \in Nat /\ f[x] <= g[x]
  PROVE  SumFunctionOnSet(f, S) <= SumFunctionOnSet(g, S)
<1> DEFINE Good(s) == SumFunctionOnSet(f, s) <= SumFunctionOnSet(g, s)
           P == {n \in Nat : \A s \in SUBSET S : Cardinality(s) = n => Good(s)}
<1>0. \A t \in SUBSET S : IsFiniteSet(t) /\ Cardinality(t) \in Nat
  BY FS_Subset, FS_CardinalityType
<1>1. 0 \in P
  <2>1. \A s \in SUBSET S : Cardinality(s) = 0 => s = {}
    BY <1>0, FS_EmptySet
  <2>2. SumFunctionOnSet(f, {}) = 0 /\ SumFunctionOnSet(g, {}) = 0
    BY SumOfNone
  <2>. QED BY <2>1, <2>2
<1>2. ASSUME NEW n \in Nat, n \in P PROVE n + 1 \in P
  <2> SUFFICES ASSUME NEW s \in SUBSET S, Cardinality(s) = n + 1 PROVE Good(s)
    OBVIOUS
  <2>1. PICK x \in s : TRUE
    BY FS_EmptySet
  <2>2. IsFiniteSet(s) /\ s \ {x} \in SUBSET S /\ IsFiniteSet(s \ {x})
    BY <1>0
  <2>3. Cardinality(s \ {x}) = n
    BY <2>1, <2>2, OneTaken
  <2>4. Good(s \ {x})
    BY <1>2, <2>2, <2>3
  <2>5. SumFunctionOnSet(f, s) = f[x] + SumFunctionOnSet(f, s \ {x})
    BY <2>1, <2>2, SumWithout
  <2>6. SumFunctionOnSet(g, s) = g[x] + SumFunctionOnSet(g, s \ {x})
    BY <2>1, <2>2, SumWithout
  <2>7. SumFunctionOnSet(f, s \ {x}) \in Nat /\ SumFunctionOnSet(g, s \ {x}) \in Nat
    BY <2>2, SumType
  <2>8. f[x] \in Nat /\ g[x] \in Nat /\ f[x] <= g[x]
    BY <2>1
  <2>. QED BY <2>4, <2>5, <2>6, <2>7, <2>8
<1> HIDE DEF P
<1>3. Cardinality(S) \in P
  BY <1>0, <1>1, <1>2, EveryNumber
<1>. QED BY <1>3 DEF P

\* One smaller summand makes the sum smaller.
LEMMA SumLess ==
  ASSUME NEW S, IsFiniteSet(S), NEW f \in [S -> Nat], NEW g \in [S -> Nat],
         \A y \in S : f[y] <= g[y], NEW x \in S, f[x] < g[x]
  PROVE  SumFunction(f) < SumFunction(g)
<1>1. f[x] \in Nat /\ g[x] \in Nat
  OBVIOUS
<1>2. SumFunctionOnSet(f, S) = f[x] + SumFunctionOnSet(f, S \ {x})
  BY SumWithout
<1>3. SumFunctionOnSet(g, S) = g[x] + SumFunctionOnSet(g, S \ {x})
  BY SumWithout
<1>4. IsFiniteSet(S \ {x})
  BY FS_RemoveElement
<1>5. \A y \in S \ {x} : f[y] \in Nat /\ g[y] \in Nat /\ f[y] <= g[y]
  OBVIOUS
<1>6. SumFunctionOnSet(f, S \ {x}) <= SumFunctionOnSet(g, S \ {x})
  BY <1>4, <1>5, SumNoMore
<1>7. SumFunctionOnSet(f, S \ {x}) \in Nat /\ SumFunctionOnSet(g, S \ {x}) \in Nat
  BY <1>4, <1>5, SumType
<1>8. SumFunction(f) = SumFunctionOnSet(f, S) /\ SumFunction(g) = SumFunctionOnSet(g, S)
  BY DEF SumFunction
<1>. QED BY <1>1, <1>2, <1>3, <1>6, <1>7, <1>8

\* The sums of two functions that differ at one place.
LEMMA SumChange ==
  ASSUME NEW S, IsFiniteSet(S), NEW f \in [S -> Nat], NEW g \in [S -> Nat], NEW x \in S,
         \A y \in S \ {x} : g[y] = f[y]
  PROVE  /\ SumFunction(g) = SumFunction(f) - f[x] + g[x]
         /\ SumFunction(f) \in Nat /\ SumFunction(g) \in Nat
<1>1. f[x] \in Nat /\ g[x] \in Nat
  OBVIOUS
<1>2. SumFunctionOnSet(f, S) = f[x] + SumFunctionOnSet(f, S \ {x})
  BY SumWithout
<1>3. SumFunctionOnSet(g, S) = g[x] + SumFunctionOnSet(g, S \ {x})
  BY SumWithout
<1>4. IsFiniteSet(S \ {x})
  BY FS_RemoveElement
<1>5. SumFunctionOnSet(g, S \ {x}) = SumFunctionOnSet(f, S \ {x})
  BY <1>4, SumSame
<1>6. SumFunctionOnSet(f, S \ {x}) \in Nat
  BY <1>4, SumType
<1>7. SumFunction(f) = SumFunctionOnSet(f, S) /\ SumFunction(g) = SumFunctionOnSet(g, S)
  BY DEF SumFunction
<1>. QED BY <1>1, <1>2, <1>3, <1>5, <1>6, <1>7

\* The sum of the function that is 0 everywhere.
LEMMA SumOfZeros ==
  ASSUME NEW f, IsFiniteSet(DOMAIN f), \A x \in DOMAIN f : f[x] = 0
  PROVE  SumFunction(f) = 0
<1> DEFINE P == {n \in Nat : \A s \in SUBSET DOMAIN f :
                               Cardinality(s) = n => SumFunctionOnSet(f, s) = 0}
<1>0. \A t \in SUBSET DOMAIN f : IsFiniteSet(t) /\ Cardinality(t) \in Nat
  BY FS_Subset, FS_CardinalityType
<1>1. 0 \in P
  <2>1. \A s \in SUBSET DOMAIN f : Cardinality(s) = 0 => s = {}
    BY <1>0, FS_EmptySet
  <2>. QED BY <2>1, SumOfNone
<1>2. ASSUME NEW n \in Nat, n \in P PROVE n + 1 \in P
  <2> SUFFICES ASSUME NEW s \in SUBSET DOMAIN f, Cardinality(s) = n + 1
               PROVE  SumFunctionOnSet(f, s) = 0
    OBVIOUS
  <2>1. PICK x \in s : TRUE
    BY FS_EmptySet
  <2>2. IsFiniteSet(s) /\ s \ {x} \in SUBSET DOMAIN f
    BY <1>0
  <2>3. Cardinality(s \ {x}) = n
    BY <2>1, <2>2, OneTaken
  <2>4. SumFunctionOnSet(f, s \ {x}) = 0
    BY <1>2, <2>2, <2>3
  <2>5. SumFunctionOnSet(f, s) = f[x] + SumFunctionOnSet(f, s \ {x})
    BY <2>1, <2>2, SumWithout
  <2>. QED BY <2>1, <2>4, <2>5
<1> HIDE DEF P
<1>3. Cardinality(DOMAIN f) \in P
  BY <1>0, <1>1, <1>2, EveryNumber
<1>. QED BY <1>3 DEF P, SumFunction

-------------------------------------------------------------------------------
(* Lining 1..n up by a strict total order: everything has its place.         *)
IsOrder(n, R) ==
    /\ \A i \in 1..n : <<i, i>> \notin R
    /\ \A i, j \in 1..n : i # j => <<i, j>> \in R \/ <<j, i>> \in R
    /\ \A i, j, k \in 1..n : <<i, j>> \in R /\ <<j, k>> \in R => <<i, k>> \in R

LEMMA Proper ==
    ASSUME NEW T, IsFiniteSet(T), NEW S \in SUBSET T, NEW x \in T, x \notin S
    PROVE  /\ Cardinality(S) \in Nat /\ Cardinality(T) \in Nat
           /\ Cardinality(S) < Cardinality(T)
<1>1. IsFiniteSet(S) /\ Cardinality(S) <= Cardinality(T)
  BY FS_Subset
<1>2. Cardinality(S) # Cardinality(T)
  BY FS_Subset
<1>3. Cardinality(S) \in Nat /\ Cardinality(T) \in Nat
  BY <1>1, FS_CardinalityType
<1>. QED BY <1>1, <1>2, <1>3

LEMMA OrderTwo ==
    ASSUME NEW n \in Nat, NEW R, IsOrder(n, R), NEW i \in 1..n, NEW j \in 1..n, <<i, j>> \in R
    PROVE  <<j, i>> \notin R
  BY DEF IsOrder

LEMMA ArrangeFacts ==
    ASSUME NEW n \in Nat, NEW R, IsOrder(n, R)
    PROVE  /\ Arrange(n, R) \in [1..n -> 1..n]
           /\ \A i \in 1..n : \E k \in 1..n : Arrange(n, R)[k] = i
           /\ \A k, l \in 1..n : k < l => <<Arrange(n, R)[k], Arrange(n, R)[l]>> \in R
<1> DEFINE S == 1..n
           Ahead(i) == {j \in S : <<j, i>> \in R}
           place == [i \in S |-> Cardinality(Ahead(i)) + 1]
           Spot(k) == CHOOSE i \in S : Cardinality(Ahead(i)) = k - 1
           A == Arrange(n, R)
<1>0. IsFiniteSet(S) /\ Cardinality(S) = n
  BY FS_Interval
<1>1. ASSUME NEW i \in S, NEW j \in S, <<i, j>> \in R
      PROVE  place[i] < place[j]
  <2>1. Ahead(i) \subseteq Ahead(j) /\ i \in Ahead(j) /\ i \notin Ahead(i)
    BY <1>1 DEF IsOrder
  <2>2. IsFiniteSet(Ahead(j))
    BY <1>0, FS_Subset
  <2> HIDE DEF Ahead
  <2>3. /\ Cardinality(Ahead(i)) \in Nat /\ Cardinality(Ahead(j)) \in Nat
        /\ Cardinality(Ahead(i)) < Cardinality(Ahead(j))
    BY <2>1, <2>2, Proper
  <2>. QED BY <2>3
<1>2. ASSUME NEW i \in S PROVE place[i] \in S
  <2>1. Ahead(i) \in SUBSET S /\ i \notin Ahead(i)
    BY DEF IsOrder
  <2> HIDE DEF Ahead
  <2>2. Cardinality(Ahead(i)) \in Nat /\ Cardinality(Ahead(i)) < n
    BY <1>0, <2>1, Proper
  <2> HIDE DEF S
  <2>3. place[i] = Cardinality(Ahead(i)) + 1
    OBVIOUS
  <2>. QED BY <2>2, <2>3 DEF S
<1>3. A = [k \in S |-> Spot(k)]
  BY DEF Arrange
<1>31. \A k \in S, i \in S : Cardinality(Ahead(i)) = k - 1 <=> place[i] = k
  <2> TAKE k \in S, i \in S
  <2>1. IsFiniteSet(Ahead(i))
    BY <1>0, FS_Subset
  <2> HIDE DEF Ahead
  <2>2. Cardinality(Ahead(i)) \in Nat /\ k \in Nat
    BY <2>1, FS_CardinalityType
  <2>3. place[i] = Cardinality(Ahead(i)) + 1
    OBVIOUS
  <2> HIDE DEF S, place
  <2>. QED BY <2>2, <2>3
<1>4. \A i, j \in S : i # j => place[i] # place[j]
  <2> TAKE i \in S, j \in S
  <2>1. i # j => <<i, j>> \in R \/ <<j, i>> \in R
    BY DEF IsOrder
  <2>2. place[i] \in S /\ place[j] \in S
    BY <1>2
  <2> HIDE DEF place
  <2>. QED BY <1>1, <2>1, <2>2
<1>5. place \in Surjection(S, S)
  <2>1. DOMAIN place = S /\ place = [i \in S |-> place[i]]
    OBVIOUS
  <2> HIDE DEF place, S
  <2>2. place \in [S -> S]
    BY <1>2, <2>1
  <2>3. place \in Injection(S, S)
    BY <1>4, <2>2, Fun_IsInj
  <2>. QED BY <1>0, <2>3, FS_Injection
<1>6. \A k \in S : \E i \in S : place[i] = k
  <2> HIDE DEF place, S
  <2>. QED BY <1>5, Fun_SurjectionProperties
<1> HIDE DEF A, place, Ahead, Spot
<1>7. \A k \in S : A[k] \in S /\ place[A[k]] = k
  <2> HIDE DEF S
  <2> TAKE k \in S
  <2>1. PICK i \in S : Cardinality(Ahead(i)) = k - 1
    BY <1>31, <1>6
  <2>2. A[k] \in S /\ Cardinality(Ahead(A[k])) = k - 1
    <3>1. Spot(k) \in S /\ Cardinality(Ahead(Spot(k))) = k - 1
      BY <2>1 DEF Spot
    <3>. QED BY <1>3, <3>1
  <2>. QED BY <1>31, <2>2
<1>8. A \in [S -> S]
  <2> HIDE DEF S
  <2>. QED BY <1>3, <1>7
<1>9. \A i \in S : \E k \in S : A[k] = i
  <2> TAKE i \in S
  <2>1. place[i] \in S /\ place[A[place[i]]] = place[i]
    BY <1>2, <1>7
  <2>2. A[place[i]] = i
    BY <1>4, <1>7, <2>1
  <2>. QED BY <2>1, <2>2
<1>10. ASSUME NEW k \in S, NEW l \in S, k < l PROVE <<A[k], A[l]>> \in R
  <2>1. A[k] \in S /\ A[l] \in S /\ place[A[k]] = k /\ place[A[l]] = l
    BY <1>7
  <2>2. A[k] # A[l]
    BY <1>10, <2>1
  <2>3. <<A[l], A[k]>> \notin R
    BY <1>1, <1>10, <2>1
  <2>. QED BY <2>1, <2>2, <2>3 DEF IsOrder
<1>. QED BY <1>8, <1>9, <1>10 DEF A

\* Numbers are lined up by value, equal ones by place.
LEMMA NumbersInOrder ==
    ASSUME NEW s \in Seq(Int)
    PROVE  /\ Len(s) \in Nat /\ DOMAIN s = 1..Len(s)
           /\ IsOrder(Len(s), NumberOrder(s))
<1>1. Len(s) \in Nat /\ DOMAIN s = 1..Len(s) /\ \A i \in 1..Len(s) : s[i] \in Int
  OBVIOUS
<1>2. \A i, j \in 1..Len(s) :
          <<i, j>> \in NumberOrder(s) <=> (s[i] < s[j] \/ (s[i] = s[j] /\ i < j))
  BY <1>1 DEF NumberOrder
<1>. QED BY <1>1, <1>2 DEF IsOrder

LEMMA SortedNumbersFacts ==
    ASSUME NEW s \in Seq(Int)
    PROVE  /\ SortedNumbers(s) \in Seq(Int)
           /\ Len(SortedNumbers(s)) = Len(s)
           /\ ToSet(SortedNumbers(s)) = ToSet(s)
           /\ (\A i, j \in DOMAIN s : i # j => s[i] # s[j]) => Ascending(SortedNumbers(s))
<1> DEFINE n == Len(s)
           A == Arrange(n, NumberOrder(s))
           t == SortedNumbers(s)
<1>1. n \in Nat /\ DOMAIN s = 1..n /\ \A i \in 1..n : s[i] \in Int
  OBVIOUS
<1>2. /\ A \in [1..n -> 1..n]
      /\ \A i \in 1..n : \E k \in 1..n : A[k] = i
      /\ \A k, l \in 1..n : k < l => <<A[k], A[l]>> \in NumberOrder(s)
  BY <1>1, NumbersInOrder, ArrangeFacts
<1>3. t = [k \in 1..n |-> s[A[k]]]
  BY <1>1 DEF SortedNumbers
<1> HIDE DEF A, t
<1>4. \A k \in 1..n : s[A[k]] \in Int
  BY <1>1, <1>2
<1>5. t \in Seq(Int) /\ Len(t) = n /\ DOMAIN t = 1..n /\ \A k \in 1..n : t[k] = s[A[k]]
  BY <1>1, <1>3, <1>4
<1>6. ToSet(t) = ToSet(s)
  <2>1. \A x : x \in ToSet(t) <=> \E k \in 1..n : t[k] = x
    BY <1>5, Zenon DEF ToSet
  <2>2. \A x : x \in ToSet(s) <=> \E k \in 1..n : s[k] = x
    BY <1>1, Zenon DEF ToSet
  <2>3. \A k \in 1..n : A[k] \in 1..n
    BY <1>2
  <2>4. ASSUME NEW x, NEW k \in 1..n, t[k] = x PROVE \E l \in 1..n : s[l] = x
    BY <1>5, <2>3, <2>4, Zenon
  <2>5. ASSUME NEW x, NEW k \in 1..n, s[k] = x PROVE \E l \in 1..n : t[l] = x
    <3>1. PICK l \in 1..n : A[l] = k
      BY <1>2
    <3>2. t[l] = x
      BY <1>5, <2>5, <3>1, Zenon
    <3>. QED BY <3>2, Zenon
  <2>. QED BY <2>1, <2>2, <2>4, <2>5, Zenon
<1>7. ASSUME \A i, j \in DOMAIN s : i # j => s[i] # s[j], NEW k \in 1..n, NEW l \in 1..n, k < l
      PROVE  t[k] < t[l]
  <2>1. A[k] \in 1..n /\ A[l] \in 1..n /\ <<A[k], A[l]>> \in NumberOrder(s)
    BY <1>2, <1>7
  <2>2. \/ s[A[k]] < s[A[l]]
        \/ s[A[k]] = s[A[l]] /\ A[k] < A[l]
    BY <2>1 DEF NumberOrder
  <2>3. s[A[k]] < s[A[l]]
    BY <1>1, <1>7, <2>1, <2>2
  <2>. QED BY <1>5, <2>3
<1>. QED BY <1>5, <1>6, <1>7 DEF Ascending, t

\* What ascends is sorted already.
LEMMA SortedAlready ==
    ASSUME NEW s \in Seq(Int), Ascending(s)
    PROVE  SortedNumbers(s) = s
<1> DEFINE n == Len(s)
           R == NumberOrder(s)
<1>1. n \in Nat /\ DOMAIN s = 1..n /\ s = [k \in 1..n |-> s[k]] /\ \A i \in 1..n : s[i] \in Int
  OBVIOUS
<1>2. \A i, j \in 1..n : <<j, i>> \in R <=> j < i
  BY <1>1 DEF NumberOrder, Ascending
<1>3. ASSUME NEW i \in 1..n PROVE Cardinality({j \in 1..n : <<j, i>> \in R}) = i - 1
  <2>1. {j \in 1..n : <<j, i>> \in R} = 1..(i - 1)
    BY <1>1, <1>2
  <2>2. 1 \in Int /\ i - 1 \in Int /\ i >= 1
    OBVIOUS
  <2>3. Cardinality(1..(i - 1)) = IF 1 > i - 1 THEN 0 ELSE (i - 1) - 1 + 1
    BY <2>2, FS_Interval, Zenon
  <2>4. (IF 1 > i - 1 THEN 0 ELSE (i - 1) - 1 + 1) = i - 1
    BY <2>2
  <2>. QED BY <2>1, <2>3, <2>4, Zenon
<1> HIDE DEF R
<1>4. ASSUME NEW k \in 1..n PROVE Arrange(n, R)[k] = k
  <2>1. \A i \in 1..n : Cardinality({j \in 1..n : <<j, i>> \in R}) = k - 1 <=> i = k
    BY <1>1, <1>3
  <2>2. (CHOOSE i \in 1..n : Cardinality({j \in 1..n : <<j, i>> \in R}) = k - 1) = k
    BY <2>1
  <2>. QED BY <2>2 DEF Arrange
<1>. QED BY <1>1, <1>4 DEF SortedNumbers, R

\* The elements of a finite set of numbers, in ascending order.
LEMMA SortedSetFacts ==
    ASSUME NEW S, IsFiniteSet(S), S \subseteq Int
    PROVE  LET t == SortedNumbers(SetToSeq(S))
           IN  /\ t \in Seq(Int)
               /\ ToSet(t) = S
               /\ Ascending(t)
<1> DEFINE c == Cardinality(S)
           s == SetToSeq(S)
<1>1. c \in Nat
  BY FS_CardinalityType
<1>2. PICK f \in Bijection(1..c, S) : TRUE
  BY FS_CardinalityType, Zenon DEF ExistsBijection
<1>3. f \in [1..c -> S] /\ IsInjective(f)
  BY <1>2 DEF Bijection, Injection, IsInjective
<1>4. s \in [1..c -> S] /\ IsInjective(s)
  BY <1>3 DEF SetToSeq
<1> HIDE DEF s
<1>5. s \in Seq(Int) /\ DOMAIN s = 1..c
  <2>1. s \in [1..c -> Int]
    BY <1>4
  <2>. QED BY <1>1, <2>1
<1>6. \A i, j \in DOMAIN s : i # j => s[i] # s[j]
  BY <1>4, <1>5 DEF IsInjective
<1>7. s \in Injection(1..c, S)
  BY <1>4, <1>5, <1>6, Fun_IsInj
<1>8. s \in Surjection(1..c, S)
  <2>1. IsFiniteSet(1..c) /\ Cardinality(1..c) = c
    BY <1>1, FS_Interval
  <2>. QED BY <1>7, <2>1, FS_Injection
<1>9. ToSet(s) = S
  <2>1. \A x \in S : \E k \in 1..c : s[k] = x
    BY <1>8 DEF Surjection
  <2>2. \A k \in 1..c : s[k] \in S
    BY <1>4
  <2>. QED BY <1>5, <2>1, <2>2, Zenon DEF ToSet
<1>. QED BY <1>5, <1>6, <1>9, SortedNumbersFacts DEF s

-----------------------------------------------------------------------------
(* The smallest of a set of numbers, and inverted lists.                     *)
\* The least of a set of numbers that is not empty.
LEMMA LeastIsMin ==
    ASSUME NEW S \in SUBSET Nat, S # {}
    PROVE  Min(S) \in S /\ \A x \in S : Min(S) <= x
<1>1. \E x \in S : \A y \in S : x <= y
  BY LeastNumber
<1>2. Min(S) = CHOOSE x \in S : \A y \in S : x <= y
  BY DEF Min
<1>. QED BY <1>1, <1>2

LEMMA MinOfTwo ==
    ASSUME NEW a \in Int, NEW b \in Int
    PROVE  Min({a, b}) = IF a <= b THEN a ELSE b
<1>1. CASE a <= b
  <2>1. \A x \in {a, b} : (\A y \in {a, b} : x <= y) <=> x = a
    BY <1>1
  <2>2. Min({a, b}) = CHOOSE x \in {a, b} : \A y \in {a, b} : x <= y
    BY DEF Min
  <2>3. Min({a, b}) = a
    BY <2>1, <2>2
  <2>. QED BY <1>1, <2>3
<1>2. CASE ~(a <= b)
  <2>1. \A x \in {a, b} : (\A y \in {a, b} : x <= y) <=> x = b
    BY <1>2
  <2>2. Min({a, b}) = CHOOSE x \in {a, b} : \A y \in {a, b} : x <= y
    BY DEF Min
  <2>3. Min({a, b}) = b
    BY <2>1, <2>2
  <2>. QED BY <1>2, <2>3
<1>. QED BY <1>1, <1>2

LEMMA IsSequence ==
    ASSUME NEW S, NEW m \in Nat, NEW f \in [1..m -> S]
    PROVE  f \in Seq(S)
  OBVIOUS

Postings == [doc : Int, pos : Seq(Int)]

LEMMA PostingFacts ==
    ASSUME NEW l, IsInvertedList(l)
    PROVE  /\ l \in Seq(Postings) /\ Len(l) \in Nat /\ DOMAIN l = 1..Len(l)
           /\ \A k \in 1..Len(l) : /\ l[k].doc \in Int
                                    /\ l[k].pos \in Seq(Int)
                                    /\ l[k].pos # <<>>
                                    /\ Ascending(l[k].pos)
           /\ \A a, b \in 1..Len(l) : a < b => l[a].doc < l[b].doc
<1>1. l \in Seq(Postings) /\ Len(l) \in Nat /\ DOMAIN l = 1..Len(l)
  BY DEF IsInvertedList, Postings
<1>2. ASSUME NEW k \in 1..Len(l) PROVE l[k].doc \in Int /\ l[k].pos \in Seq(Int)
  <2>1. l[k] \in Postings
    BY <1>1
  <2>. QED BY <2>1 DEF Postings
<1>. QED BY <1>1, <1>2 DEF IsInvertedList

\* Advancing stops at the first document that is not below the one asked for.
LEMMA FirstFromFacts ==
    ASSUME NEW l, IsInvertedList(l), NEW k \in 1..(Len(l) + 1), NEW d \in Int
    PROVE  /\ FirstFrom(l, k, d) \in k..(Len(l) + 1)
           /\ \A j \in k..Len(l) : l[j].doc >= d <=> FirstFrom(l, k, d) <= j
<1> DEFINE S == {j \in k..(Len(l) + 1) : j = Len(l) + 1 \/ l[j].doc >= d}
           f == FirstFrom(l, k, d)
<1>1. Len(l) \in Nat /\ \A j \in 1..Len(l) : l[j].doc \in Int
  BY PostingFacts
<1>2. S \in SUBSET Nat /\ S # {}
  <2>1. Len(l) + 1 \in S
    BY <1>1
  <2>. QED BY <1>1, <2>1
<1>3. f = Min(S)
  BY DEF FirstFrom
<1>4. f \in S /\ \A x \in S : f <= x
  <2> HIDE DEF S, f
  <2>. QED BY <1>2, <1>3, LeastIsMin
<1> HIDE DEF f
<1>5. f \in k..(Len(l) + 1)
  BY <1>4
<1>6. ASSUME NEW j \in k..Len(l), l[j].doc >= d PROVE f <= j
  <2>1. j \in S
    BY <1>1, <1>6
  <2>. QED BY <1>4, <2>1
<1>7. ASSUME NEW j \in k..Len(l), f <= j PROVE l[j].doc >= d
  <2>1. f \in 1..Len(l) /\ j \in 1..Len(l) /\ l[f].doc >= d
    BY <1>1, <1>4, <1>7
  <2>2. f = j \/ l[f].doc < l[j].doc
    BY <1>7, <2>1, PostingFacts
  <2>. QED BY <1>1, <2>1, <2>2
<1>. QED BY <1>5, <1>6, <1>7 DEF f
===============================================================================
