------------------------ MODULE DocumentAtATimeProofs ------------------------
(* The ranker's loop finds exactly the documents that match, each with the score
   its operators define, for every query tree, lists of any length and every
   retrieval model.                                                          *)
EXTENDS DocumentAtATime, DataFacts

-----------------------------------------------------------------------------
(* Trees.                                                                    *)
LEMMA TreeFacts ==
    ASSUME NEW t, IsTree(t)
    PROVE  /\ Len(t) \in Nat \ {0} /\ DOMAIN t = 1..Len(t)
           /\ t[1].up = 0 /\ t[1].last = Len(t)
           /\ \A n \in 1..Len(t) :
                 /\ t[n].kind \in Sops
                 /\ t[n].last \in n..Len(t)
                 /\ t[n].args \in Seq(Nat) /\ Len(t[n].args) \in Nat
                 /\ DOMAIN t[n].args = 1..Len(t[n].args)
                 /\ t[n].weights \in Seq(Int)
                 /\ IsInvertedList(t[n].list)
                 /\ Len(t[n].list) \in Nat
                 /\ \A k \in 1..Len(t[n].list) : t[n].list[k].doc \in Nat
                 /\ t[n].kind # "score" => Len(t[n].args) > 0
                 /\ t[n].kind = "score" => t[n].args = <<>> /\ t[n].last = n
                 /\ t[n].kind = "wsum" => Len(t[n].weights) >= Len(t[n].args)
<1> DEFINE Node == [kind : Sops, args : Seq(Nat), weights : Seq(Int), up : Nat, last : Nat,
                    list : Seq([doc : Nat, pos : Seq(Int)])]
<1>1. t \in Seq(Node) /\ t # <<>>
  BY DEF IsTree
<1>2. Len(t) \in Nat \ {0} /\ DOMAIN t = 1..Len(t)
  <2> HIDE DEF Node
  <2>. QED BY <1>1
<1>3. ASSUME NEW n \in 1..Len(t)
      PROVE  /\ t[n].kind \in Sops
             /\ t[n].last \in n..Len(t)
             /\ t[n].args \in Seq(Nat) /\ Len(t[n].args) \in Nat
             /\ DOMAIN t[n].args = 1..Len(t[n].args)
             /\ t[n].weights \in Seq(Int)
             /\ IsInvertedList(t[n].list)
             /\ Len(t[n].list) \in Nat
             /\ \A k \in 1..Len(t[n].list) : t[n].list[k].doc \in Nat
             /\ t[n].kind # "score" => Len(t[n].args) > 0
             /\ t[n].kind = "score" => t[n].args = <<>> /\ t[n].last = n
             /\ t[n].kind = "wsum" => Len(t[n].weights) >= Len(t[n].args)
  <2>1. t[n] \in Node
    <3> HIDE DEF Node
    <3>. QED BY <1>1, <1>2
  <2>2. /\ t[n].kind \in Sops /\ t[n].args \in Seq(Nat) /\ t[n].weights \in Seq(Int)
        /\ t[n].last \in Nat /\ t[n].list \in Seq([doc : Nat, pos : Seq(Int)])
    BY <2>1
  <2>3. /\ n <= t[n].last /\ t[n].last <= Len(t)
        /\ IsInvertedList(t[n].list)
        /\ t[n].kind = "score" => t[n].args = <<>> /\ t[n].last = n
        /\ t[n].kind # "score" => t[n].args # <<>>
        /\ t[n].kind = "wsum" => Len(t[n].weights) >= Len(t[n].args)
    BY <1>2 DEF IsTree
  <2>4. Len(t[n].args) \in Nat /\ DOMAIN t[n].args = 1..Len(t[n].args)
    BY <2>2
  <2>5. t[n].kind # "score" => Len(t[n].args) > 0
    BY <2>2, <2>3, <2>4
  <2>6. ASSUME NEW k \in 1..Len(t[n].list) PROVE t[n].list[k].doc \in Nat
    <3> DEFINE Kind == [doc : Nat, pos : Seq(Int)]
    <3>1. t[n].list \in Seq(Kind)
      BY <2>2
    <3>2. t[n].list[k] \in Kind
      <4> HIDE DEF Kind
      <4>. QED BY <3>1
    <3>. QED BY <3>2
  <2>7. Len(t[n].list) \in Nat
    BY <2>2
  <2>8. t[n].last \in n..Len(t)
    BY <1>2, <2>2, <2>3
  <2>. QED BY <2>2, <2>3, <2>4, <2>5, <2>6, <2>7, <2>8
<1>4. t[1].up = 0 /\ t[1].last = Len(t)
  BY DEF IsTree
<1>. QED BY <1>2, <1>3, <1>4

\* The nodes below n, and who called them.
Under(t, n) == n..t[n].last

LEMMA BelowFacts ==
    ASSUME NEW t, IsTree(t), NEW n \in DOMAIN t, NEW m \in Under(t, n)
    PROVE  /\ m \in DOMAIN t /\ m \in Nat /\ n \in Nat /\ n \in Under(t, n)
           /\ Under(t, m) \subseteq Under(t, n)
           /\ m # n => t[m].up \in Under(t, n)
<1>1. /\ Len(t) \in Nat /\ DOMAIN t = 1..Len(t) /\ n \in 1..Len(t) /\ t[n].last \in n..Len(t)
  BY TreeFacts
<1>2. m \in 1..Len(t) /\ n <= m /\ n \in Under(t, n)
  BY <1>1 DEF Under
<1>3. m # n => t[m].up \in n..t[n].last /\ t[m].last <= t[n].last
  <2>1. m # n => m \in (n + 1)..t[n].last
    BY <1>1, <1>2 DEF Under
  <2>. QED BY <1>1, <2>1 DEF IsTree
<1>4. t[m].last \in m..Len(t)
  BY <1>2, TreeFacts
<1>. QED BY <1>1, <1>2, <1>3, <1>4 DEF Under

LEMMA ArgFacts ==
    ASSUME NEW t, IsTree(t), NEW n \in DOMAIN t, NEW i \in DOMAIN t[n].args
    PROVE  LET c == t[n].args[i]
           IN  /\ c \in DOMAIN t /\ c > n /\ c \in Under(t, n) /\ t[c].up = n
               /\ n \notin Under(t, c)
               /\ \A j \in DOMAIN t[n].args :
                     j # i => /\ t[n].args[j] # c
                              /\ t[n].args[j] \notin Under(t, c)
                              /\ \A m \in Under(t, t[n].args[j]) : m \notin Under(t, c)
<1> DEFINE c == t[n].args[i]
<1>1. /\ Len(t) \in Nat /\ DOMAIN t = 1..Len(t) /\ n \in 1..Len(t) /\ t[n].last \in n..Len(t)
  BY TreeFacts
<1>2. \A j \in DOMAIN t[n].args : t[n].args[j] \in (n + 1)..t[n].last /\ t[t[n].args[j]].up = n
  BY DEF IsTree
<1>3. \A j, k \in DOMAIN t[n].args : j < k => t[t[n].args[j]].last < t[n].args[k]
  BY DEF IsTree
<1>4. c \in DOMAIN t /\ c > n /\ c \in Under(t, n) /\ n \notin Under(t, c)
  BY <1>1, <1>2 DEF Under
<1>5. DOMAIN t[n].args \subseteq Nat
  BY <1>1, TreeFacts
<1>6. ASSUME NEW j \in DOMAIN t[n].args, j # i
      PROVE  /\ t[n].args[j] # c
             /\ t[n].args[j] \notin Under(t, c)
             /\ \A m \in Under(t, t[n].args[j]) : m \notin Under(t, c)
  <2> DEFINE b == t[n].args[j]
  <2>1. b \in 1..Len(t) /\ c \in 1..Len(t)
    BY <1>1, <1>2
  <2>2. t[b].last \in b..Len(t) /\ t[c].last \in c..Len(t)
    BY <2>1, TreeFacts
  <2>3. t[b].last < c \/ t[c].last < b
    BY <1>3, <1>5, <1>6
  <2>. QED BY <1>1, <2>1, <2>2, <2>3 DEF Under
<1>. QED BY <1>2, <1>4, <1>6

\* A node is the argument of the one above it, and only the root is of none.
LEMMA UpFacts ==
    ASSUME NEW t, IsTree(t), NEW n \in DOMAIN t
    PROVE  /\ t[n].up = 0 <=> n = 1
           /\ n # 1 => /\ t[n].up \in DOMAIN t
                       /\ n \in Under(t, t[n].up) /\ t[n].up \notin Under(t, n)
                       /\ t[n].up # n
                       /\ \E i \in DOMAIN t[t[n].up].args : t[t[n].up].args[i] = n
<1>1. /\ Len(t) \in Nat \ {0} /\ DOMAIN t = 1..Len(t) /\ t[1].up = 0 /\ t[1].last = Len(t)
  BY TreeFacts
<1>2. ASSUME n # 1 PROVE /\ t[n].up \in DOMAIN t
                         /\ \E i \in DOMAIN t[t[n].up].args : t[t[n].up].args[i] = n
  <2>1. 1 \in DOMAIN t /\ n \in (1 + 1)..t[1].last
    BY <1>1, <1>2
  <2>2. t[n].up \in 1..t[1].last
    BY <2>1 DEF IsTree
  <2>3. \E i \in DOMAIN t[t[n].up].args : t[t[n].up].args[i] = n
    BY <2>1 DEF IsTree
  <2>. QED BY <1>1, <2>2, <2>3
<1>3. ASSUME n # 1
      PROVE  n \in Under(t, t[n].up) /\ t[n].up \notin Under(t, n) /\ t[n].up # n /\ t[n].up # 0
  <2>1. PICK i \in DOMAIN t[t[n].up].args : t[t[n].up].args[i] = n
    BY <1>2, <1>3
  <2>2. n > t[n].up /\ n \in Under(t, t[n].up) /\ t[n].up \notin Under(t, n)
    BY <1>2, <1>3, <2>1, ArgFacts
  <2>. QED BY <1>1, <1>2, <1>3, <2>2
<1>. QED BY <1>1, <1>2, <1>3

\* Induction: what a node has when all its arguments have it, all have.
LEMMA TreeInduction ==
    ASSUME NEW t, IsTree(t), NEW S,
           \A n \in DOMAIN t : (\A i \in DOMAIN t[n].args : t[n].args[i] \in S) => n \in S
    PROVE  DOMAIN t \subseteq S
<1>1. Len(t) \in Nat /\ DOMAIN t = 1..Len(t)
  BY TreeFacts
<1> SUFFICES ASSUME DOMAIN t \ S # {} PROVE FALSE
  OBVIOUS
<1>2. DOMAIN t \ S \in SUBSET (1..Len(t))
  BY <1>1
<1>3. IsFiniteSet(1..Len(t))
  BY <1>1, FS_Interval
<1>4. IsFiniteSet(DOMAIN t \ S) /\ DOMAIN t \ S \subseteq Int
  BY <1>1, <1>2, <1>3, FS_Subset
<1>5. PICK n \in DOMAIN t \ S : \A m \in DOMAIN t \ S : m <= n
  BY <1>4, LargestOf
<1>6. ASSUME NEW i \in DOMAIN t[n].args PROVE t[n].args[i] \in S
  <2>1. t[n].args[i] \in DOMAIN t /\ t[n].args[i] > n
    BY ArgFacts
  <2>. QED BY <1>1, <1>5, <2>1
<1>. QED BY <1>5, <1>6

-----------------------------------------------------------------------------
(* What matches: the recursion of MatchesFrom has a solution, and moving some of
   the iterators changes it below them only.                                 *)
MatchedBy(t, pos, docs, n) ==
    CASE t[n].kind = "score" -> {t[n].list[k].doc : k \in pos[n]..Len(t[n].list)}
      [] t[n].kind = "and"   -> {d \in docs[t[n].args[1]] :
                                   \A i \in DOMAIN t[n].args : d \in docs[t[n].args[i]]}
      [] OTHER -> UNION {docs[t[n].args[i]] : i \in DOMAIN t[n].args}

LEMMA MatchedAlike ==
    ASSUME NEW t, IsTree(t), NEW pos, NEW f, NEW g, NEW n \in DOMAIN t,
           \A i \in DOMAIN t[n].args : f[t[n].args[i]] = g[t[n].args[i]]
    PROVE  MatchedBy(t, pos, f, n) = MatchedBy(t, pos, g, n)
<1>1. t[n].kind # "score" => 1 \in DOMAIN t[n].args
  BY TreeFacts
<1>2. UNION {f[t[n].args[i]] : i \in DOMAIN t[n].args} =
      UNION {g[t[n].args[i]] : i \in DOMAIN t[n].args}
  OBVIOUS
<1>3. CASE t[n].kind = "score"
  BY <1>3 DEF MatchedBy
<1>4. CASE t[n].kind = "and"
  BY <1>1, <1>4 DEF MatchedBy
<1>5. CASE t[n].kind \notin {"score", "and"}
  BY <1>2, <1>5 DEF MatchedBy
<1>. QED BY <1>3, <1>4, <1>5

LEMMA MatchesExist ==
    ASSUME NEW t, IsTree(t), NEW pos
    PROVE  \E f : f = [n \in DOMAIN t |-> MatchedBy(t, pos, f, n)]
<1>1. Len(t) \in Nat /\ DOMAIN t = 1..Len(t)
  BY TreeFacts
<1> DEFINE Good(k, f) == \A n \in DOMAIN t : n > k => f[n] = MatchedBy(t, pos, f, n)
           P == {j \in Nat : \E f : f = [n \in DOMAIN t |-> f[n]] /\ Good(Len(t) - j, f)}
<1>2. 0 \in P
  <2> DEFINE f == [n \in DOMAIN t |-> 0]
  <2>1. f = [n \in DOMAIN t |-> f[n]] /\ Good(Len(t) - 0, f)
    BY <1>1
  <2>. QED BY <2>1
<1>3. ASSUME NEW j \in Nat, j \in P PROVE j + 1 \in P
  <2>1. PICK f : f = [n \in DOMAIN t |-> f[n]] /\ Good(Len(t) - j, f)
    BY <1>3
  <2> DEFINE k == Len(t) - j
             g == [n \in DOMAIN t |-> IF n = k THEN MatchedBy(t, pos, f, n) ELSE f[n]]
  <2>2. ASSUME NEW n \in DOMAIN t, n > k - 1 PROVE g[n] = MatchedBy(t, pos, g, n)
    <3>1. \A i \in DOMAIN t[n].args : t[n].args[i] \in DOMAIN t /\ t[n].args[i] > n
      BY ArgFacts
    <3>2. \A i \in DOMAIN t[n].args : g[t[n].args[i]] = f[t[n].args[i]]
      BY <1>1, <2>2, <3>1
    <3>3. MatchedBy(t, pos, f, n) = MatchedBy(t, pos, g, n)
      <4> HIDE DEF g
      <4>. QED BY <3>2, MatchedAlike
    <3>4. g[n] = MatchedBy(t, pos, f, n)
      BY <1>1, <2>1, <2>2
    <3>. QED BY <3>3, <3>4
  <2>3. g = [n \in DOMAIN t |-> g[n]] /\ Len(t) - (j + 1) = k - 1
    BY <1>1
  <2> HIDE DEF g
  <2>4. Good(Len(t) - (j + 1), g)
    BY <2>2, <2>3
  <2>. QED BY <2>3, <2>4
<1>4. Len(t) \in P
  <2> HIDE DEF P
  <2>. QED BY <1>1, <1>2, <1>3, EveryNumber
<1>5. PICK f : f = [n \in DOMAIN t |-> f[n]] /\ Good(Len(t) - Len(t), f)
  BY <1>4
<1>6. \A n \in DOMAIN t : f[n] = MatchedBy(t, pos, f, n)
  BY <1>1, <1>5
<1>. QED BY <1>5, <1>6

LEMMA MatchesByKind ==
    ASSUME NEW t, IsTree(t), NEW pos, NEW n \in DOMAIN t
    PROVE  LET M == MatchesFrom(t, pos)
           IN  /\ t[n].kind = "score" => M[n] = {t[n].list[k].doc : k \in pos[n]..Len(t[n].list)}
               /\ t[n].kind = "and" => \A d : d \in M[n] <=> \A i \in DOMAIN t[n].args :
                                                                d \in M[t[n].args[i]]
               /\ t[n].kind \in AnyOf => \A d : d \in M[n] <=> \E i \in DOMAIN t[n].args :
                                                                d \in M[t[n].args[i]]
<1> DEFINE M == MatchesFrom(t, pos)
<1>1. \E f : f = [m \in DOMAIN t |-> MatchedBy(t, pos, f, m)]
  BY MatchesExist
<1>2. M = CHOOSE f : f = [m \in DOMAIN t |-> MatchedBy(t, pos, f, m)]
  BY DEF MatchesFrom, MatchedBy
<1>3. M = [m \in DOMAIN t |-> MatchedBy(t, pos, M, m)]
  <2> HIDE DEF M
  <2>. QED BY <1>1, <1>2
<1>4. M[n] = MatchedBy(t, pos, M, n)
  <2> HIDE DEF M
  <2>. QED BY <1>3
<1>5. t[n].kind # "score" => 1 \in DOMAIN t[n].args
  BY TreeFacts
<1> HIDE DEF M
<1>6. CASE t[n].kind = "score"
  BY <1>4, <1>6 DEF MatchedBy, M, AnyOf
<1>7. CASE t[n].kind = "and"
  BY <1>4, <1>5, <1>7 DEF MatchedBy, M, AnyOf
<1>8. CASE t[n].kind \notin {"score", "and"}
  BY <1>4, <1>8 DEF MatchedBy, M, AnyOf
<1>. QED BY <1>6, <1>7, <1>8

LEMMA MatchesAreNumbers ==
    ASSUME NEW t, IsTree(t), NEW pos, \A n \in DOMAIN t : pos[n] \in Nat \ {0}
    PROVE  \A n \in DOMAIN t : MatchesFrom(t, pos)[n] \subseteq Nat
<1> DEFINE M == MatchesFrom(t, pos)
           S == {n \in DOMAIN t : M[n] \subseteq Nat}
<1>1. ASSUME NEW n \in DOMAIN t, \A i \in DOMAIN t[n].args : t[n].args[i] \in S PROVE n \in S
  <2>1. CASE t[n].kind = "score"
    <3>1. n \in 1..Len(t) /\ pos[n] \in Nat \ {0}
      BY TreeFacts
    <3>2. Len(t[n].list) \in Nat /\ \A k \in 1..Len(t[n].list) : t[n].list[k].doc \in Nat
      BY <3>1, TreeFacts
    <3>3. \A k \in pos[n]..Len(t[n].list) : t[n].list[k].doc \in Nat
      BY <3>1, <3>2
    <3>4. M[n] = {t[n].list[k].doc : k \in pos[n]..Len(t[n].list)}
      BY <2>1, MatchesByKind
    <3>. QED BY <3>3, <3>4
  <2>2. CASE t[n].kind = "and"
    <3>1. 1 \in DOMAIN t[n].args
      BY <2>2, TreeFacts
    <3>2. \A d \in M[n] : d \in M[t[n].args[1]]
      BY <2>2, <3>1, MatchesByKind
    <3>. QED BY <1>1, <3>1, <3>2
  <2>3. CASE t[n].kind \in AnyOf
    <3>1. \A d \in M[n] : \E i \in DOMAIN t[n].args : d \in M[t[n].args[i]]
      BY <2>3, MatchesByKind
    <3>. QED BY <1>1, <3>1
  <2>. QED BY <2>1, <2>2, <2>3, TreeFacts DEF Sops, AnyOf
<1>2. DOMAIN t \subseteq S
  <2> HIDE DEF S
  <2>. QED BY <1>1, TreeInduction
<1>. QED BY <1>2

\* Iterators stand on a posting or one past the last.
AreIterators(t, pos) == \A n \in DOMAIN t : pos[n] \in 1..(Len(t[n].list) + 1)

\* pos with the iterators below c advanced to d.
Advanced(t, pos, c, d) ==
    [m \in DOMAIN t |->
        IF m \in Under(t, c) THEN FirstFrom(t[m].list, pos[m], d) ELSE pos[m]]

LEMMA IteratorsStay ==
    ASSUME NEW t, IsTree(t), NEW pos, AreIterators(t, pos), NEW c \in DOMAIN t, NEW d \in Int
    PROVE  /\ AreIterators(t, Advanced(t, pos, c, d))
           /\ \A m \in DOMAIN t : pos[m] <= Advanced(t, pos, c, d)[m]
<1> DEFINE q == Advanced(t, pos, c, d)
<1>1. ASSUME NEW m \in DOMAIN t PROVE q[m] \in 1..(Len(t[m].list) + 1) /\ pos[m] <= q[m]
  <2>1. m \in 1..Len(t)
    BY TreeFacts
  <2>2. IsInvertedList(t[m].list) /\ Len(t[m].list) \in Nat
    BY <2>1, TreeFacts
  <2>3. pos[m] \in 1..(Len(t[m].list) + 1)
    BY DEF AreIterators
  <2>4. FirstFrom(t[m].list, pos[m], d) \in pos[m]..(Len(t[m].list) + 1)
    BY <2>2, <2>3, FirstFromFacts
  <2>5. q[m] \in {FirstFrom(t[m].list, pos[m], d), pos[m]}
    BY DEF Advanced
  <2>. QED BY <2>2, <2>3, <2>4, <2>5
<1>. QED BY <1>1 DEF AreIterators

\* Where the iterator of a leaf stands is what it matches first.
LEMMA LeafFacts ==
    ASSUME NEW t, IsTree(t), NEW pos, AreIterators(t, pos), NEW n \in DOMAIN t,
           t[n].kind = "score"
    PROVE  LET M == MatchesFrom(t, pos)
               l == t[n].list
           IN  /\ pos[n] > Len(l) => M[n] = {}
               /\ pos[n] <= Len(l) => /\ l[pos[n]].doc \in M[n] /\ pos[n] \in DOMAIN l
                                      /\ \A e \in M[n] : l[pos[n]].doc <= e
<1> DEFINE l == t[n].list
<1>1. n \in 1..Len(t) /\ IsInvertedList(l) /\ pos[n] \in 1..(Len(l) + 1) /\ Len(l) \in Nat
  BY TreeFacts DEF AreIterators
<1>2. MatchesFrom(t, pos)[n] = {l[k].doc : k \in pos[n]..Len(l)}
  BY MatchesByKind
<1>3. ASSUME pos[n] <= Len(l), NEW k \in pos[n]..Len(l) PROVE l[pos[n]].doc <= l[k].doc
  <2>1. pos[n] \in 1..Len(l) /\ k \in 1..Len(l)
    BY <1>1, <1>3
  <2>2. l[pos[n]].doc \in Int /\ l[k].doc \in Int
    BY <1>1, <2>1, PostingFacts
  <2>3. pos[n] = k \/ l[pos[n]].doc < l[k].doc
    BY <1>1, <1>3, <2>1, PostingFacts
  <2>. QED BY <2>2, <2>3
<1>4. DOMAIN l = 1..Len(l)
  BY <1>1, PostingFacts
<1> HIDE DEF l
<1>5. pos[n] > Len(l) => pos[n]..Len(l) = {}
  BY <1>1
<1>6. pos[n] <= Len(l) => pos[n] \in pos[n]..Len(l) /\ pos[n] \in DOMAIN l
  BY <1>1, <1>4
<1>. QED BY <1>1, <1>2, <1>3, <1>5, <1>6 DEF l

LEMMA AdvancedBelow ==
    ASSUME NEW t, IsTree(t), NEW pos, AreIterators(t, pos), NEW c \in DOMAIN t, NEW d \in Int
    PROVE  \A m \in Under(t, c) : \A e :
              e \in MatchesFrom(t, Advanced(t, pos, c, d))[m] <=>
                 e \in MatchesFrom(t, pos)[m] /\ e >= d
<1> DEFINE q == Advanced(t, pos, c, d)
           M == MatchesFrom(t, pos)
           N == MatchesFrom(t, q)
           Good(m) == \A e : e \in N[m] <=> e \in M[m] /\ e >= d
           S == {m \in DOMAIN t : m \in Under(t, c) => Good(m)}
<1>1. ASSUME NEW n \in DOMAIN t, \A i \in DOMAIN t[n].args : t[n].args[i] \in S,
             n \in Under(t, c)
      PROVE  Good(n)
  <2>1. \A i \in DOMAIN t[n].args : t[n].args[i] \in Under(t, c)
    BY <1>1, ArgFacts, BelowFacts
  <2>2. \A i \in DOMAIN t[n].args : Good(t[n].args[i])
    BY <1>1, <2>1
  <2>3. n \in 1..Len(t)
    BY TreeFacts
  <2>4. CASE t[n].kind = "score"
    <3> DEFINE l == t[n].list
    <3>1. IsInvertedList(l) /\ pos[n] \in 1..(Len(l) + 1) /\ Len(l) \in Nat
      BY <2>3, TreeFacts DEF AreIterators
    <3>2. q[n] = FirstFrom(l, pos[n], d)
      BY <1>1 DEF Advanced
    <3>3. /\ q[n] \in pos[n]..(Len(l) + 1)
          /\ \A j \in pos[n]..Len(l) : l[j].doc >= d <=> q[n] <= j
      BY <3>1, <3>2, FirstFromFacts
    <3>4. M[n] = {l[k].doc : k \in pos[n]..Len(l)} /\ N[n] = {l[k].doc : k \in q[n]..Len(l)}
      BY <2>4, MatchesByKind
    <3> HIDE DEF l, q, M, N
    <3>5. \A k : k \in q[n]..Len(l) <=> k \in pos[n]..Len(l) /\ l[k].doc >= d
      BY <3>1, <3>3
    <3>. QED BY <3>4, <3>5
  <2>5. CASE t[n].kind = "and"
    <3>1. \A e : e \in M[n] <=> \A i \in DOMAIN t[n].args : e \in M[t[n].args[i]]
      BY <2>5, MatchesByKind
    <3>2. \A e : e \in N[n] <=> \A i \in DOMAIN t[n].args : e \in N[t[n].args[i]]
      BY <2>5, MatchesByKind
    <3>3. 1 \in DOMAIN t[n].args
      BY <2>3, <2>5, TreeFacts
    <3> HIDE DEF q, M, N
    <3>. QED BY <2>2, <3>1, <3>2, <3>3
  <2>6. CASE t[n].kind \in AnyOf
    <3>1. \A e : e \in M[n] <=> \E i \in DOMAIN t[n].args : e \in M[t[n].args[i]]
      BY <2>6, MatchesByKind
    <3>2. \A e : e \in N[n] <=> \E i \in DOMAIN t[n].args : e \in N[t[n].args[i]]
      BY <2>6, MatchesByKind
    <3> HIDE DEF q, M, N
    <3>. QED BY <2>2, <3>1, <3>2
  <2>. QED BY <2>3, <2>4, <2>5, <2>6, TreeFacts DEF Sops, AnyOf
<1>2. DOMAIN t \subseteq S
  <2>1. \A n \in DOMAIN t : (\A i \in DOMAIN t[n].args : t[n].args[i] \in S) => n \in S
    BY <1>1
  <2> HIDE DEF S
  <2>. QED BY <2>1, TreeInduction
<1>3. \A m \in Under(t, c) : m \in DOMAIN t
  BY BelowFacts
<1>. QED BY <1>2, <1>3

\* An argument of AND that is advanced no further than AND's own matches leaves
\* what all other operators match as it was.
LEMMA AdvancedBeside ==
    ASSUME NEW t, IsTree(t), NEW pos, AreIterators(t, pos), NEW c \in DOMAIN t, NEW d \in Int,
           c # 1, t[t[c].up].kind = "and", \A e \in MatchesFrom(t, pos)[t[c].up] : e >= d
    PROVE  \A m \in DOMAIN t \ Under(t, c) :
              \A e : e \in MatchesFrom(t, Advanced(t, pos, c, d))[m] <=>
                     e \in MatchesFrom(t, pos)[m]
<1> DEFINE q == Advanced(t, pos, c, d)
           M == MatchesFrom(t, pos)
           N == MatchesFrom(t, q)
           Good(m) == \A e : e \in N[m] <=> e \in M[m]
           S == {m \in DOMAIN t : m \notin Under(t, c) => Good(m)}
<1>1. ASSUME NEW n \in DOMAIN t, \A i \in DOMAIN t[n].args : t[n].args[i] \in S,
             n \notin Under(t, c)
      PROVE  Good(n)
  <2>1. ASSUME NEW i \in DOMAIN t[n].args, t[n].args[i] \in Under(t, c)
        PROVE  t[n].args[i] = c /\ n = t[c].up
    <3>1. t[t[n].args[i]].up = n
      BY ArgFacts
    <3>2. t[n].args[i] # c => t[t[n].args[i]].up \in Under(t, c)
      BY <2>1, BelowFacts
    <3>. QED BY <1>1, <3>1, <3>2
  <2>2. ASSUME NEW i \in DOMAIN t[n].args, t[n].args[i] # c PROVE Good(t[n].args[i])
    BY <1>1, <2>1, <2>2
  <2>3. ASSUME NEW i \in DOMAIN t[n].args, t[n].args[i] = c
        PROVE  t[n].kind = "and" /\ \A e : e \in N[c] <=> e \in M[c] /\ e >= d
    <3>1. t[c].up = n
      BY <2>3, ArgFacts
    <3>2. c \in Under(t, c)
      BY UpFacts, TreeFacts DEF Under
    <3>. QED BY <3>1, <3>2, AdvancedBelow
  <2>4. n \in 1..Len(t)
    BY TreeFacts
  <2>5. CASE t[n].kind = "score"
    <3>1. q[n] = pos[n]
      BY <1>1 DEF Advanced
    <3>2. M[n] = {t[n].list[k].doc : k \in pos[n]..Len(t[n].list)}
      BY <2>5, MatchesByKind
    <3>3. N[n] = {t[n].list[k].doc : k \in q[n]..Len(t[n].list)}
      BY <2>5, MatchesByKind
    <3> HIDE DEF q, M, N
    <3>. QED BY <3>1, <3>2, <3>3
  <2>6. CASE t[n].kind = "and"
    <3>1. \A e : e \in M[n] <=> \A i \in DOMAIN t[n].args : e \in M[t[n].args[i]]
      BY <2>6, MatchesByKind
    <3>2. \A e : e \in N[n] <=> \A i \in DOMAIN t[n].args : e \in N[t[n].args[i]]
      BY <2>6, MatchesByKind
    <3>3. \A i \in DOMAIN t[n].args : t[n].args[i] = c => \A e \in M[n] : e >= d
      BY ArgFacts
    <3> HIDE DEF q, M, N
    <3>. QED BY <2>2, <2>3, <3>1, <3>2, <3>3
  <2>7. CASE t[n].kind \in AnyOf
    <3>1. \A e : e \in M[n] <=> \E i \in DOMAIN t[n].args : e \in M[t[n].args[i]]
      BY <2>7, MatchesByKind
    <3>2. \A e : e \in N[n] <=> \E i \in DOMAIN t[n].args : e \in N[t[n].args[i]]
      BY <2>7, MatchesByKind
    <3>3. t[n].kind # "and"
      BY <2>7 DEF AnyOf
    <3> HIDE DEF q, M, N
    <3>. QED BY <2>2, <2>3, <3>1, <3>2, <3>3
  <2>. QED BY <2>4, <2>5, <2>6, <2>7, TreeFacts DEF Sops, AnyOf
<1>2. DOMAIN t \subseteq S
  <2>1. \A n \in DOMAIN t : (\A i \in DOMAIN t[n].args : t[n].args[i] \in S) => n \in S
    BY <1>1
  <2> HIDE DEF S
  <2>. QED BY <2>1, TreeInduction
<1>. QED BY <1>2

-----------------------------------------------------------------------------
(* What a match scores: the recursion of ScoresOf has a solution, of numbers. *)
Visited(t, d, n) == {i \in DOMAIN t[n].args : d \in MatchesOf(t)[t[n].args[i]]}

ScoredBy(t, m, d, score, n) ==
    CASE m = "UnrankedBoolean" -> 1
      [] m # "UnrankedBoolean" /\ t[n].kind = "score" ->
            ScorePosting(t[n].list, CHOOSE k \in DOMAIN t[n].list : t[n].list[k].doc = d, m)
      [] OTHER -> Combined(t[n], [i \in Visited(t, d, n) |-> score[t[n].args[i]]])

LEMMA ScoredAlike ==
    ASSUME NEW t, IsTree(t), NEW m, NEW d, NEW f, NEW g, NEW n \in DOMAIN t,
           \A i \in DOMAIN t[n].args : f[t[n].args[i]] = g[t[n].args[i]]
    PROVE  ScoredBy(t, m, d, f, n) = ScoredBy(t, m, d, g, n)
<1>1. [i \in Visited(t, d, n) |-> f[t[n].args[i]]] = [i \in Visited(t, d, n) |-> g[t[n].args[i]]]
  BY DEF Visited
<1>. QED BY <1>1 DEF ScoredBy

LEMMA ScoresExist ==
    ASSUME NEW t, IsTree(t), NEW m, NEW d
    PROVE  \E f : f = [n \in DOMAIN t |-> ScoredBy(t, m, d, f, n)]
<1>1. Len(t) \in Nat /\ DOMAIN t = 1..Len(t)
  BY TreeFacts
<1> DEFINE Good(k, f) == \A n \in DOMAIN t : n > k => f[n] = ScoredBy(t, m, d, f, n)
           P == {j \in Nat : \E f : f = [n \in DOMAIN t |-> f[n]] /\ Good(Len(t) - j, f)}
<1>2. 0 \in P
  <2> DEFINE f == [n \in DOMAIN t |-> 0]
  <2>1. f = [n \in DOMAIN t |-> f[n]] /\ Good(Len(t) - 0, f)
    BY <1>1
  <2>. QED BY <2>1
<1>3. ASSUME NEW j \in Nat, j \in P PROVE j + 1 \in P
  <2>1. PICK f : f = [n \in DOMAIN t |-> f[n]] /\ Good(Len(t) - j, f)
    BY <1>3
  <2> DEFINE k == Len(t) - j
             g == [n \in DOMAIN t |-> IF n = k THEN ScoredBy(t, m, d, f, n) ELSE f[n]]
  <2>2. ASSUME NEW n \in DOMAIN t, n > k - 1 PROVE g[n] = ScoredBy(t, m, d, g, n)
    <3>1. \A i \in DOMAIN t[n].args : t[n].args[i] \in DOMAIN t /\ t[n].args[i] > n
      BY ArgFacts
    <3>2. \A i \in DOMAIN t[n].args : g[t[n].args[i]] = f[t[n].args[i]]
      BY <1>1, <2>2, <3>1
    <3>3. ScoredBy(t, m, d, f, n) = ScoredBy(t, m, d, g, n)
      <4> HIDE DEF g
      <4>. QED BY <3>2, ScoredAlike
    <3>4. g[n] = ScoredBy(t, m, d, f, n)
      BY <1>1, <2>1, <2>2
    <3>. QED BY <3>3, <3>4
  <2>3. g = [n \in DOMAIN t |-> g[n]] /\ Len(t) - (j + 1) = k - 1
    BY <1>1
  <2> HIDE DEF g
  <2>4. Good(Len(t) - (j + 1), g)
    BY <2>2, <2>3
  <2>. QED BY <2>3, <2>4
<1>4. Len(t) \in P
  <2> HIDE DEF P
  <2>. QED BY <1>1, <1>2, <1>3, EveryNumber
<1>5. PICK f : f = [n \in DOMAIN t |-> f[n]] /\ Good(Len(t) - Len(t), f)
  BY <1>4
<1>6. \A n \in DOMAIN t : f[n] = ScoredBy(t, m, d, f, n)
  BY <1>1, <1>5
<1>. QED BY <1>5, <1>6

LEMMA ScoresByKind ==
    ASSUME NEW t, IsTree(t), NEW m, NEW d, NEW n \in DOMAIN t
    PROVE  ScoresOf(t, m, d)[n] = ScoredBy(t, m, d, ScoresOf(t, m, d), n)
<1> DEFINE score == ScoresOf(t, m, d)
<1>1. \E f : f = [k \in DOMAIN t |-> ScoredBy(t, m, d, f, k)]
  BY ScoresExist
<1>2. score = CHOOSE f : f = [k \in DOMAIN t |-> ScoredBy(t, m, d, f, k)]
  BY DEF ScoresOf, ScoredBy, Visited
<1>3. score = [k \in DOMAIN t |-> ScoredBy(t, m, d, score, k)]
  <2> HIDE DEF score
  <2>. QED BY <1>1, <1>2
<1>4. score[n] = ScoredBy(t, m, d, score, n)
  <2> HIDE DEF score
  <2>. QED BY <1>3
<1>. QED BY <1>4

\* The extremes of numbers, and what an operator makes of its arguments' scores.
LEMMA MinIsOne ==
    ASSUME NEW S, IsFiniteSet(S), S # {}, S \subseteq Int
    PROVE  Min(S) \in Int
<1>1. \E x \in S : \A y \in S : x <= y
  BY SmallestOf
<1>2. Min(S) = CHOOSE x \in S : \A y \in S : x <= y
  BY DEF Min
<1>. QED BY <1>1, <1>2

LEMMA MaxIsOne ==
    ASSUME NEW S, IsFiniteSet(S), S # {}, S \subseteq Int
    PROVE  Max(S) \in Int
<1>1. \E x \in S : \A y \in S : y <= x
  BY LargestOf
<1>2. Max(S) = CHOOSE x \in S : \A y \in S : x >= y
  BY DEF Max
<1>3. \A x, y \in S : x >= y <=> y <= x
  OBVIOUS
<1>. QED BY <1>1, <1>2, <1>3

LEMMA CombinedType ==
    ASSUME NEW t, IsTree(t), NEW n \in DOMAIN t, t[n].kind # "score",
           NEW parts, DOMAIN parts \subseteq DOMAIN t[n].args,
           \A i \in DOMAIN parts : parts[i] \in Int,
           t[n].kind = "and" => DOMAIN parts # {}
    PROVE  Combined(t[n], parts) \in Int
<1> DEFINE scores == {parts[i] : i \in DOMAIN parts}
           weighted == [i \in DOMAIN parts |-> t[n].weights[i] * parts[i]]
           weight == WeightSum(t[n])
<1>1. /\ n \in 1..Len(t) /\ t[n].kind \in Sops
      /\ Len(t[n].args) \in Nat /\ DOMAIN t[n].args = 1..Len(t[n].args)
      /\ t[n].weights \in Seq(Int)
      /\ t[n].kind = "wsum" => Len(t[n].weights) >= Len(t[n].args)
  BY TreeFacts
<1>2. IsFiniteSet(DOMAIN parts)
  <2>1. Len(t[n].args) \in Int
    BY <1>1
  <2>2. IsFiniteSet(1..Len(t[n].args))
    BY <2>1, FS_Interval
  <2>. QED BY <1>1, <2>2, FS_Subset
<1>3. IsFiniteSet(scores) /\ scores \subseteq Int
  BY <1>2, ImageFinite
<1>4. Combined(t[n], parts) =
        CASE t[n].kind = "and"  -> Min(scores)
          [] t[n].kind = "or"   -> Max(scores \cup {0})
          [] t[n].kind = "sum"  -> SumFunction(parts)
          [] t[n].kind = "wsum" -> IF weight > 0 THEN SumFunction(weighted) \div weight ELSE 0
  BY DEF Combined
<1>5. SumFunction(parts) \in Int
  BY <1>2, SumInteger DEF SumFunction
<1>6. weight \in Int
  <2>1. Len(t[n].weights) \in Nat /\ DOMAIN t[n].weights = 1..Len(t[n].weights)
    BY <1>1
  <2>2. IsFiniteSet(DOMAIN t[n].weights)
    BY <2>1, FS_Interval
  <2>3. \A i \in DOMAIN t[n].weights : t[n].weights[i] \in Int
    BY <1>1
  <2>. QED BY <2>2, <2>3, SumInteger DEF SumFunction, WeightSum
<1>7. t[n].kind = "wsum" => SumFunction(weighted) \in Int
  <2>1. ASSUME t[n].kind = "wsum" PROVE \A i \in DOMAIN weighted : weighted[i] \in Int
    <3>1. \A i \in DOMAIN parts : i \in 1..Len(t[n].weights)
      BY <1>1, <2>1
    <3>2. \A i \in DOMAIN parts : t[n].weights[i] \in Int
      BY <1>1, <3>1
    <3>. QED BY <3>2
  <2>2. IsFiniteSet(DOMAIN weighted)
    BY <1>2
  <2> HIDE DEF weighted
  <2>. QED BY <2>1, <2>2, SumInteger DEF SumFunction
<1>8. CASE t[n].kind = "and"
  <2>1. scores # {}
    BY <1>8
  <2>2. Combined(t[n], parts) = Min(scores)
    BY <1>4, <1>8
  <2> HIDE DEF scores
  <2>. QED BY <1>3, <2>1, <2>2, MinIsOne
<1>9. CASE t[n].kind = "or"
  <2>1. IsFiniteSet(scores \cup {0})
    BY <1>3, FS_AddElement
  <2>2. Combined(t[n], parts) = Max(scores \cup {0})
    BY <1>4, <1>9
  <2>3. scores \cup {0} # {} /\ scores \cup {0} \subseteq Int
    BY <1>3
  <2> HIDE DEF scores
  <2>4. Max(scores \cup {0}) \in Int
    BY <2>1, <2>3, MaxIsOne
  <2>. QED BY <2>2, <2>4
<1>10. CASE t[n].kind = "sum"
  <2>1. Combined(t[n], parts) = SumFunction(parts)
    BY <1>4, <1>10
  <2>. QED BY <1>5, <2>1
<1>11. CASE t[n].kind = "wsum"
  <2>1. Combined(t[n], parts) =
           IF weight > 0 THEN SumFunction(weighted) \div weight ELSE 0
    BY <1>4, <1>11
  <2> HIDE DEF weight, weighted
  <2>. QED BY <1>6, <1>7, <1>11, <2>1
<1>. QED BY <1>1, <1>8, <1>9, <1>10, <1>11 DEF Sops

LEMMA ScoresAreNumbers ==
    ASSUME NEW t, IsTree(t), NEW m, NEW d
    PROVE  \A n \in DOMAIN t : d \in MatchesOf(t)[n] => ScoresOf(t, m, d)[n] \in Int
<1> DEFINE score == ScoresOf(t, m, d)
           S == {n \in DOMAIN t : d \in MatchesOf(t)[n] => score[n] \in Int}
<1>1. ASSUME NEW n \in DOMAIN t, \A i \in DOMAIN t[n].args : t[n].args[i] \in S,
             d \in MatchesOf(t)[n]
      PROVE  score[n] \in Int
  <2>1. n \in 1..Len(t)
    BY TreeFacts
  <2>5. score[n] = ScoredBy(t, m, d, score, n)
    BY ScoresByKind
  <2>2. CASE m = "UnrankedBoolean"
    <3>1. score[n] = 1
      BY <2>2, <2>5 DEF ScoredBy
    <3>. QED BY <3>1
  <2>3. CASE m # "UnrankedBoolean" /\ t[n].kind = "score"
    <3> DEFINE l == t[n].list
               k == CHOOSE j \in DOMAIN l : l[j].doc = d
    <3>1. IsInvertedList(l) /\ Len(l) \in Nat
      BY <2>1, TreeFacts
    <3>2. MatchesOf(t)[n] = {l[j].doc : j \in 1..Len(l)}
      BY <2>3, MatchesByKind DEF MatchesOf
    <3>3. DOMAIN l = 1..Len(l)
      BY <3>1, PostingFacts
    <3>4. k \in 1..Len(l)
      BY <1>1, <3>2, <3>3
    <3>5. score[n] = ScorePosting(l, k, m)
      BY <2>3, <2>5 DEF ScoredBy
    <3> HIDE DEF k, l
    <3>6. l[k].pos \in Seq(Int)
      BY <3>1, <3>4, PostingFacts
    <3>7. Len(l[k].pos) \in Nat
      BY <3>6
    <3>8. Scale \in Int /\ NumDocs \in Int
      BY RankerAssumption
    <3>. QED BY <3>1, <3>5, <3>7, <3>8 DEF ScorePosting, BM25, Tf
  <2>4. CASE m # "UnrankedBoolean" /\ t[n].kind # "score"
    <3> DEFINE parts == [i \in Visited(t, d, n) |-> score[t[n].args[i]]]
    <3>1. DOMAIN parts = Visited(t, d, n) /\ DOMAIN parts \subseteq DOMAIN t[n].args
      BY DEF Visited
    <3>2. \A i \in DOMAIN parts : parts[i] \in Int
      BY <1>1 DEF Visited
    <3>3. t[n].kind = "and" => DOMAIN parts # {}
      <4>1. 1 \in DOMAIN t[n].args
        BY <2>1, <2>4, TreeFacts
      <4>2. t[n].kind = "and" => d \in MatchesOf(t)[t[n].args[1]]
        BY <1>1, <4>1, MatchesByKind DEF MatchesOf
      <4>. QED BY <4>1, <4>2 DEF Visited
    <3>4. score[n] = Combined(t[n], parts)
      BY <2>4, <2>5 DEF ScoredBy
    <3> HIDE DEF parts
    <3>. QED BY <2>4, <3>1, <3>2, <3>3, <3>4, CombinedType
  <2>. QED BY <2>2, <2>3, <2>4
<1>2. DOMAIN t \subseteq S
  <2>1. \A n \in DOMAIN t : (\A i \in DOMAIN t[n].args : t[n].args[i] \in S) => n \in S
    BY <1>1
  <2> HIDE DEF S
  <2>. QED BY <2>1, TreeInduction
<1>. QED BY <1>2

-----------------------------------------------------------------------------
(* The invariant.                                                            *)
\* What the operators still match from where the iterators stand.
Reach == MatchesFrom(nodes, at)

\* A method of n is running; while it waits, one of its argument is.
Active(n) == here \in Under(nodes, n)

Callee(n) == ArgsOf(n)[call[n].arg]

Waits(n) ==
    here # n =>
        /\ call[n].arg \in DOMAIN ArgsOf(n)
        /\ here \in Under(nodes, Callee(n))
        /\ call[Callee(n)].method = "match" => call[n].method = "match" \/ nodes[n].kind \in AnyOf
        /\ call[Callee(n)].method = "score" => call[n].method = "score" /\ cache[Callee(n)] = cache[n]

\* The arguments AND has tried agree, and the one that it asks is not behind.
TriesAll(n) ==
    call[n].method = "match" /\ nodes[n].kind = "and" /\ call[n].arg > 1 =>
        /\ call[n].doc # NoMatch
        /\ \A j \in 1..(call[n].arg - 1) : cache[ArgsOf(n)[j]] = call[n].doc
        /\ (here # n \/ reply # "none") => \A e \in Reach[Callee(n)] : e >= call[n].doc

\* The smallest match of the arguments that have been asked.
TakesMin(n) ==
    call[n].method = "match" /\ nodes[n].kind \in AnyOf =>
        /\ call[n].doc = NoMatch =>
              \A j \in 1..(call[n].arg - 1) : \A e : e \notin Reach[ArgsOf(n)[j]]
        /\ call[n].doc # NoMatch =>
              /\ \E j \in 1..(call[n].arg - 1) : call[n].doc \in Reach[ArgsOf(n)[j]]
              /\ \A j \in 1..(call[n].arg - 1) : \A e \in Reach[ArgsOf(n)[j]] : call[n].doc <= e

\* The scores of the arguments that have been visited.
Scores(n) ==
    call[n].method = "score" =>
        /\ cache[n] # NoMatch
        /\ call[n].parts =
              [j \in {k \in 1..(call[n].arg - 1) : cache[n] \in MatchesOf(nodes)[ArgsOf(n)[k]]} |->
                  ScoresOf(nodes, retrievalModel, cache[n])[ArgsOf(n)[j]]]

Frame(n) == Waits(n) /\ TriesAll(n) /\ TakesMin(n) /\ Scores(n)

FramesHold == \A n \in DOMAIN nodes : Active(n) => Frame(n)

Control ==
    /\ ranker \in {"done", "raised"} => here = 0 /\ reply = "none"
    /\ here # 0 => (call[1].method = "match" <=> ranker = "match")
    /\ ranker = "score" => cache[1] # NoMatch

\* The operator a reply comes from, and what it means.
Answerer == IF here = 0 THEN 1 ELSE Arg

RepliesHold ==
    /\ reply = "yes" => cache[Answerer] # NoMatch
    /\ reply = "no" => \A e : e \notin Reach[Answerer]
    /\ reply = "score" => returned = ScoresOf(nodes, retrievalModel, cache[Answerer])[Answerer]
    /\ here = 0 => /\ reply \in {"yes", "no"} => ranker = "match"
                   /\ reply = "score" => ranker = "score"
    /\ here # 0 /\ reply # "none" =>
          /\ call[here].arg \in DOMAIN ArgsOf(here)
          /\ reply \in {"yes", "no"} => call[here].method = "match" \/ nodes[here].kind \in AnyOf
          /\ reply = "score" => call[here].method = "score" /\ cache[Arg] = cache[here]

\* A cached match is the first that is left.
Fresh ==
    \A n \in DOMAIN nodes :
        cache[n] # NoMatch => cache[n] \in Reach[n] /\ \A e \in Reach[n] : cache[n] <= e

\* Where AND has cached a match, unless it is looking for another, so have its
\* arguments.
Aligned ==
    \A n \in DOMAIN nodes :
        (/\ ranker \in {"match", "score"}
         /\ nodes[n].kind = "and" /\ cache[n] # NoMatch
         /\ ~(Active(n) /\ call[n].method = "match")) =>
            \A i \in DOMAIN ArgsOf(n) : cache[ArgsOf(n)[i]] = cache[n]

\* No operator has left a match behind that the one above it still counts on.
Kept ==
    \A n \in DOMAIN nodes \ {1} : \A e :
        e \in Reach[nodes[n].up] /\ e \in MatchesOf(nodes)[n] => e \in Reach[n]

\* The matches are those that have been found and those that are left.
Found ==
    /\ \A d : d \in MatchesOf(nodes)[1] <=>
                 d \in Reach[1] \/ \E k \in DOMAIN hits : hits[k].doc = d
    /\ \A k \in DOMAIN hits : \A e \in Reach[1] : hits[k].doc < e
    /\ \A k \in DOMAIN hits :
          hits[k].score = ScoresOf(nodes, retrievalModel, hits[k].doc)[1]
    /\ Ascending([k \in DOMAIN hits |-> hits[k].doc])
    /\ ranker = "done" => \A e : e \notin Reach[1]

RankerInv ==
    /\ RankerTypeOK
    /\ FramesHold
    /\ Control
    /\ RepliesHold
    /\ Fresh
    /\ Aligned
    /\ Kept
    /\ Found

-----------------------------------------------------------------------------
(* What the type invariant says, said for the provers.                       *)
LEMMA StateFacts ==
    ASSUME RankerTypeOK
    PROVE  /\ IsTree(nodes) /\ AreIterators(nodes, at)
           /\ DOMAIN nodes = 1..Len(nodes) /\ Len(nodes) \in Nat /\ 1 \in DOMAIN nodes
           /\ \A n \in DOMAIN nodes :
                 /\ n \in Nat /\ n # 0
                 /\ \A e \in Reach[n] : e \in Nat
                 /\ cache[n] \in Nat \cup {NoMatch}
                 /\ call[n].doc \in Nat \cup {NoMatch}
                 /\ call[n].arg \in Nat /\ call[n].arg >= 1
                 /\ call[n].arg <= Len(ArgsOf(n)) + 1
                 /\ call[n].method \in {"match", "score"}
                 /\ Len(ArgsOf(n)) \in Nat /\ DOMAIN ArgsOf(n) = 1..Len(ArgsOf(n))
                 /\ nodes[n].kind \in Sops
                 /\ n \in Under(nodes, n)
<1>1. IsTree(nodes)
  BY DEF RankerTypeOK
<1>2. DOMAIN nodes = 1..Len(nodes) /\ Len(nodes) \in Nat \ {0}
  BY <1>1, TreeFacts
<1>3. AreIterators(nodes, at)
  <2> SUFFICES ASSUME NEW n \in DOMAIN nodes PROVE at[n] \in 1..(Len(nodes[n].list) + 1)
    BY DEF AreIterators
  <2>1. at[n] \in Nat \ {0} /\ at[n] <= Len(nodes[n].list) + 1
    BY DEF RankerTypeOK, List
  <2>2. Len(nodes[n].list) \in Nat
    BY <1>1, <1>2, TreeFacts
  <2>. QED BY <2>1, <2>2
<1>4. \A n \in DOMAIN nodes : \A e \in Reach[n] : e \in Nat
  <2>1. \A n \in DOMAIN nodes : at[n] \in Nat \ {0}
    BY DEF RankerTypeOK
  <2>2. \A n \in DOMAIN nodes : MatchesFrom(nodes, at)[n] \subseteq Nat
    BY <1>1, <2>1, MatchesAreNumbers
  <2>. QED BY <2>2 DEF Reach
<1>5. ASSUME NEW n \in DOMAIN nodes
      PROVE  /\ cache[n] \in Nat \cup {NoMatch}
             /\ call[n].doc \in Nat \cup {NoMatch}
             /\ call[n].arg \in Nat /\ call[n].arg >= 1
             /\ call[n].arg <= Len(ArgsOf(n)) + 1
             /\ call[n].method \in {"match", "score"}
             /\ Len(ArgsOf(n)) \in Nat /\ DOMAIN ArgsOf(n) = 1..Len(ArgsOf(n))
             /\ nodes[n].kind \in Sops
             /\ n \in Under(nodes, n)
  <2>1. n \in 1..Len(nodes)
    BY <1>2
  <2>2. /\ Len(ArgsOf(n)) \in Nat /\ DOMAIN ArgsOf(n) = 1..Len(ArgsOf(n))
        /\ nodes[n].kind \in Sops /\ nodes[n].last \in n..Len(nodes)
    BY <1>1, <2>1, TreeFacts DEF ArgsOf
  <2>3. /\ cache[n] \in Nat \cup {NoMatch} /\ call[n].doc \in Nat \cup {NoMatch}
        /\ call[n].arg \in 1..(Len(ArgsOf(n)) + 1) /\ call[n].method \in {"match", "score"}
    BY DEF RankerTypeOK
  <2>4. n \in Under(nodes, n)
    BY <1>2, <2>2 DEF Under
  <2>. QED BY <2>2, <2>3, <2>4
<1>6. \A n \in DOMAIN nodes : n \in Nat /\ n # 0
  BY <1>2
<1>. QED BY <1>1, <1>2, <1>3, <1>4, <1>5, <1>6

\* The operator in control and those that wait for it.
LEMMA ActiveFacts ==
    ASSUME RankerTypeOK, here # 0
    PROVE  /\ here \in DOMAIN nodes /\ Active(here)
           /\ Active(1)
           /\ \A n \in DOMAIN nodes : Active(n) => n <= here
<1>1. here \in DOMAIN nodes
  BY DEF RankerTypeOK
<1>2. here \in Nat /\ Active(here)
  BY <1>1, StateFacts DEF Active
<1>3. /\ IsTree(nodes) /\ Len(nodes) \in Nat /\ DOMAIN nodes = 1..Len(nodes)
      /\ nodes[1].last = Len(nodes)
  BY StateFacts, TreeFacts
<1>4. Active(1)
  BY <1>1, <1>3 DEF Active, Under
<1>5. ASSUME NEW n \in DOMAIN nodes, Active(n) PROVE n <= here
  <2>1. here \in n..nodes[n].last
    BY <1>5 DEF Active, Under
  <2>2. n \in 1..Len(nodes)
    BY <1>3
  <2>3. nodes[n].last \in n..Len(nodes)
    BY <1>3, <2>2, TreeFacts
  <2>. QED BY <1>2, <1>3, <2>1, <2>2, <2>3
<1>. QED BY <1>1, <1>2, <1>4, <1>5

\* The argument that an operator in control asks or hears.
LEMMA ArgOfHere ==
    ASSUME RankerTypeOK, here # 0, call[here].arg \in DOMAIN ArgsOf(here)
    PROVE  /\ Arg = Callee(here) /\ Arg = ArgsOf(here)[call[here].arg]
           /\ Arg \in DOMAIN nodes /\ Arg # 1 /\ Arg # here /\ nodes[Arg].up = here
           /\ Arg \in Under(nodes, here) /\ here \notin Under(nodes, Arg)
           /\ Under(nodes, Arg) \subseteq Under(nodes, here)
           /\ \A j \in DOMAIN ArgsOf(here) :
                 j # call[here].arg => /\ ArgsOf(here)[j] # Arg
                                       /\ ArgsOf(here)[j] \notin Under(nodes, Arg)
<1>1. here \in DOMAIN nodes /\ IsTree(nodes) /\ here \in Nat /\ here # 0
  BY ActiveFacts, StateFacts
<1>2. call[here].arg \in DOMAIN nodes[here].args
  BY DEF ArgsOf
<1>3. Arg = nodes[here].args[call[here].arg]
  BY DEF Arg, ArgsOf
<1>4. /\ Arg \in DOMAIN nodes /\ Arg > here /\ Arg \in Under(nodes, here) /\ nodes[Arg].up = here
      /\ here \notin Under(nodes, Arg)
      /\ \A j \in DOMAIN nodes[here].args :
            j # call[here].arg => /\ nodes[here].args[j] # Arg
                                  /\ nodes[here].args[j] \notin Under(nodes, Arg)
  BY <1>1, <1>2, <1>3, ArgFacts
<1>5. Under(nodes, Arg) \subseteq Under(nodes, here)
  BY <1>1, <1>4, BelowFacts
<1>6. Arg # 1 /\ Arg # here
  BY <1>1, <1>4, StateFacts
<1>. QED BY <1>3, <1>4, <1>5, <1>6 DEF Callee, ArgsOf

-----------------------------------------------------------------------------
(* A step leaves most of the tree alone: caches and matches change in T only,
   and no operator gets a match it did not have.                             *)
Touches(T) ==
    /\ UNCHANGED <<nodes, retrievalModel>>
    /\ \A m \in DOMAIN nodes \ T :
          /\ cache'[m] = cache[m]
          /\ \A e : e \in Reach'[m] <=> e \in Reach[m]
    /\ \A m \in DOMAIN nodes : \A e : e \in Reach'[m] => e \in Reach[m]

\* The arguments of n other than the one that runs.
LEMMA OtherArgs ==
    ASSUME RankerTypeOK, NEW n \in DOMAIN nodes, call[n].arg \in DOMAIN ArgsOf(n)
    PROVE  /\ Callee(n) \in DOMAIN nodes /\ Callee(n) > n /\ n \notin Under(nodes, Callee(n))
           /\ Callee(n) \in Under(nodes, n) /\ nodes[Callee(n)].up = n
           /\ \A j \in 1..(call[n].arg - 1) :
                 /\ j \in DOMAIN ArgsOf(n) /\ ArgsOf(n)[j] \in DOMAIN nodes
                 /\ ArgsOf(n)[j] \notin Under(nodes, Callee(n))
<1>1. /\ DOMAIN ArgsOf(n) = 1..Len(ArgsOf(n)) /\ Len(ArgsOf(n)) \in Nat
      /\ call[n].arg \in Nat /\ IsTree(nodes)
  BY StateFacts
<1>2. /\ Callee(n) \in DOMAIN nodes /\ Callee(n) > n /\ n \notin Under(nodes, Callee(n))
      /\ Callee(n) \in Under(nodes, n) /\ nodes[Callee(n)].up = n
  BY <1>1, ArgFacts DEF ArgsOf, Callee
<1>3. ASSUME NEW j \in 1..(call[n].arg - 1)
      PROVE  /\ j \in DOMAIN ArgsOf(n) /\ ArgsOf(n)[j] \in DOMAIN nodes
             /\ ArgsOf(n)[j] \notin Under(nodes, Callee(n))
  <2>1. j \in DOMAIN ArgsOf(n) /\ j # call[n].arg
    BY <1>1
  <2>. QED BY <1>1, <2>1, ArgFacts DEF ArgsOf, Callee
<1>. QED BY <1>2, <1>3

\* What an operator knows of its arguments stays when the step is below the one
\* that runs.
LEMMA LocalsStay ==
    ASSUME RankerTypeOK, NEW T, Touches(T),
           NEW n \in DOMAIN nodes, call[n].arg \in DOMAIN ArgsOf(n),
           T \subseteq Under(nodes, Callee(n)), call'[n] = call[n],
           TriesAll(n), TakesMin(n), Scores(n),
           call[n].method = "match" /\ nodes[n].kind = "and" /\ call[n].arg > 1 =>
              \A e \in Reach'[Callee(n)] : e >= call[n].doc
    PROVE  TriesAll(n)' /\ TakesMin(n)' /\ Scores(n)'
<1>1. nodes' = nodes /\ retrievalModel' = retrievalModel
  BY DEF Touches
<1>2. Callee(n) \in DOMAIN nodes /\ n \notin T
  BY OtherArgs
<1>3. ArgsOf(n)' = ArgsOf(n) /\ Callee(n)' = Callee(n) /\ cache'[n] = cache[n]
  BY <1>1, <1>2 DEF ArgsOf, Callee, Touches
<1>4. \A j \in 1..(call[n].arg - 1) :
         /\ cache'[ArgsOf(n)[j]] = cache[ArgsOf(n)[j]]
         /\ \A e : e \in Reach'[ArgsOf(n)[j]] <=> e \in Reach[ArgsOf(n)[j]]
  BY OtherArgs DEF Touches
<1>5. TriesAll(n)'
  BY <1>1, <1>3, <1>4 DEF TriesAll
<1>6. TakesMin(n)'
  BY <1>1, <1>3, <1>4 DEF TakesMin
<1>7. Scores(n)'
  BY <1>1, <1>3 DEF Scores
<1>. QED BY <1>5, <1>6, <1>7

\* An operator that waits before the step and after it.
LEMMA FrameStays ==
    ASSUME RankerTypeOK, here # 0, NEW T, Touches(T), T \subseteq Under(nodes, here),
           NEW n \in DOMAIN nodes, Active(n), Frame(n), n # here,
           here' # n => /\ here' \in Under(nodes, Callee(n)) /\ Callee(n) \notin T
                        /\ call'[Callee(n)].method = call[Callee(n)].method,
           call'[n] = call[n]
    PROVE  Frame(n)'
<1>1. nodes' = nodes /\ IsTree(nodes) /\ here \in DOMAIN nodes
  BY StateFacts, ActiveFacts DEF Touches
<1>2. call[n].arg \in DOMAIN ArgsOf(n) /\ here \in Under(nodes, Callee(n))
  BY DEF Frame, Waits
<1>3. Callee(n) \in DOMAIN nodes /\ n \notin Under(nodes, Callee(n))
  BY <1>2, OtherArgs
<1>4. T \subseteq Under(nodes, Callee(n))
  BY <1>1, <1>2, <1>3, BelowFacts
<1>5. /\ ArgsOf(n)' = ArgsOf(n) /\ Callee(n)' = Callee(n) /\ cache'[n] = cache[n]
      /\ Callee(n) \notin T => cache'[Callee(n)] = cache[Callee(n)]
  BY <1>1, <1>3, <1>4 DEF ArgsOf, Callee, Touches
<1>6. Waits(n)'
  BY <1>1, <1>2, <1>5 DEF Frame, Waits, Under
<1>7. \A e \in Reach'[Callee(n)] : e \in Reach[Callee(n)]
  BY <1>3 DEF Touches
<1>8. TriesAll(n) /\ TakesMin(n) /\ Scores(n)
  BY DEF Frame
<1>9. call[n].method = "match" /\ nodes[n].kind = "and" /\ call[n].arg > 1 =>
         \A e \in Reach'[Callee(n)] : e >= call[n].doc
  BY <1>7, <1>8 DEF TriesAll
<1>10. TriesAll(n)' /\ TakesMin(n)' /\ Scores(n)'
  BY <1>2, <1>4, <1>8, <1>9, LocalsStay
<1>. QED BY <1>6, <1>10 DEF Frame

\* The frame of a method that has just been called.
LEMMA NewFrame ==
    ASSUME NEW c, here' = c, NEW method, call'[c] = Locals(method),
           method = "score" => cache'[c] # NoMatch
    PROVE  Frame(c)'
<1>1. Waits(c)'
  BY DEF Waits
<1>2. TriesAll(c)'
  BY DEF TriesAll, Locals
<1>3. TakesMin(c)'
  <2>1. call'[c].doc = NoMatch /\ 1..(call'[c].arg - 1) = {}
    BY DEF Locals
  <2>. QED BY <2>1 DEF TakesMin
<1>4. Scores(c)'
  <2>1. call'[c].parts = <<>> /\ 1..(call'[c].arg - 1) = {} /\ call'[c].method = method
    BY DEF Locals
  <2>2. \A f, S : S = {} => <<>> = [j \in S |-> f[j]]
    OBVIOUS
  <2> DEFINE S == {k \in 1..(call[c].arg - 1) : cache[c] \in MatchesOf(nodes)[ArgsOf(c)[k]]}
  <2>3. S' = {}
    BY <2>1
  <2>4. <<>> = [j \in S |-> ScoresOf(nodes, retrievalModel, cache[c])[ArgsOf(c)[j]]]'
    <3> HIDE DEF S
    <3>. QED BY <2>3
  <2>. QED BY <2>1, <2>4 DEF Scores
<1>. QED BY <1>1, <1>2, <1>3, <1>4 DEF Frame

\* A call of an argument.
LEMMA CallKeepsFrames ==
    ASSUME RankerTypeOK, FramesHold, here # 0, call[here].arg \in DOMAIN ArgsOf(here),
           NEW h, h = here, NEW c, c = Arg,
           NEW method, Enter(c, method), NEW T, Touches(T), T \subseteq Under(nodes, c),
           method = "match" => call[h].method = "match" \/ nodes[h].kind \in AnyOf,
           method = "score" => /\ call[h].method = "score" /\ cache'[c] = cache'[h]
                               /\ cache[h] # NoMatch,
           call[h].method = "match" /\ nodes[h].kind = "and" /\ call[h].arg > 1 =>
              \A e \in Reach'[c] : e >= call[h].doc
    PROVE  FramesHold'
<1>1. nodes' = nodes /\ retrievalModel' = retrievalModel
  BY DEF Touches
<1>2. /\ c = Callee(h) /\ c \in DOMAIN nodes /\ c # h /\ nodes[c].up = h
      /\ c \in Under(nodes, h) /\ h \notin Under(nodes, c) /\ Under(nodes, c) \subseteq Under(nodes, h)
  BY ArgOfHere
<1>3. /\ IsTree(nodes) /\ h \in DOMAIN nodes /\ Active(h) /\ DOMAIN call = DOMAIN nodes
      /\ c \in Under(nodes, c)
  BY <1>2, StateFacts, ActiveFacts DEF RankerTypeOK
<1>4. here' = c /\ reply' = "none" /\ call' = [call EXCEPT ![c] = Locals(method)]
  BY DEF Enter
<1>5. call'[c] = Locals(method) /\ \A n \in DOMAIN nodes : n # c => call'[n] = call[n]
  BY <1>2, <1>3, <1>4
<1>6. h \notin T /\ cache'[h] = cache[h]
  BY <1>2, <1>3 DEF Touches
<1>7. Frame(c)'
  <2>1. method = "score" => cache'[c] # NoMatch
    BY <1>6
  <2>. QED BY <1>4, <1>5, <2>1, NewFrame
<1>8. Frame(h) /\ call'[h] = call[h]
  BY <1>2, <1>3, <1>5 DEF FramesHold
<1>9. Frame(h)'
  <2>1. TriesAll(h)' /\ TakesMin(h)' /\ Scores(h)'
    BY <1>2, <1>3, <1>8, LocalsStay DEF Frame
  <2>2. ArgsOf(h)' = ArgsOf(h) /\ Callee(h)' = c
    BY <1>1, <1>2, <1>8 DEF ArgsOf, Callee
  <2>3. Waits(h)'
    BY <1>1, <1>3, <1>4, <1>5, <1>8, <2>2 DEF Waits, Locals, Under
  <2>. QED BY <2>1, <2>3 DEF Frame
<1>10. ASSUME NEW n \in DOMAIN nodes, c \in Under(nodes, n), n # c, n # h PROVE Frame(n)'
  <2>1. h \in Under(nodes, n)
    BY <1>2, <1>3, <1>10, BelowFacts
  <2>2. Active(n) /\ Frame(n)
    BY <2>1 DEF Active, FramesHold
  <2>3. h \in Under(nodes, Callee(n)) /\ call[n].arg \in DOMAIN ArgsOf(n)
    BY <1>10, <2>2 DEF Frame, Waits
  <2>4. Callee(n) \in DOMAIN nodes
    BY <2>3, OtherArgs
  <2>5. c \in Under(nodes, Callee(n))
    BY <1>2, <1>3, <2>3, <2>4, BelowFacts
  <2>6. Callee(n) # c
    BY <1>2, <2>3
  <2>7. Callee(n) \notin T
    <3>1. Active(Callee(n))
      BY <2>3 DEF Active
    <3>2. Callee(n) <= h /\ h < c
      BY <1>2, <1>3, <2>4, <3>1, ActiveFacts, OtherArgs
    <3>3. h \in Nat /\ c \in Nat /\ Callee(n) \in Nat
      BY <1>2, <1>3, <2>4, StateFacts
    <3>. QED BY <3>2, <3>3 DEF Under
  <2>8. call'[n] = call[n] /\ call'[Callee(n)].method = call[Callee(n)].method
    BY <1>5, <1>10, <2>4, <2>6
  <2>9. T \subseteq Under(nodes, here)
    BY <1>2
  <2>. QED BY <1>4, <1>10, <2>2, <2>5, <2>7, <2>8, <2>9, FrameStays
<1>11. \A n \in DOMAIN nodes : Active(n)' <=> c \in Under(nodes, n)
  BY <1>1, <1>4 DEF Active, Under
<1>. QED BY <1>1, <1>7, <1>9, <1>10, <1>11 DEF FramesHold

\* A return.
LEMMA ReturnKeepsFrames ==
    ASSUME RankerTypeOK, FramesHold, here # 0, NEW h, h = here, NEW answer, Return(answer),
           Touches({h})
    PROVE  FramesHold'
<1>1. /\ nodes' = nodes /\ IsTree(nodes) /\ h \in DOMAIN nodes /\ h \in Under(nodes, h)
      /\ here' = nodes[h].up /\ call' = call
  BY StateFacts, ActiveFacts DEF Touches, Return
<1>2. ASSUME NEW n \in DOMAIN nodes, here' \in Under(nodes, n) PROVE Frame(n)'
  <2>1. h # 1
    <3>1. n \in Nat /\ n # 0
      BY StateFacts
    <3>2. here' # 0
      BY <1>2, <3>1 DEF Under
    <3>. QED BY <1>1, <3>2, UpFacts
  <2>2. here' \in DOMAIN nodes /\ h \in Under(nodes, here') /\ here' \notin Under(nodes, h)
    BY <1>1, <2>1, UpFacts
  <2>3. h \in Under(nodes, n) /\ n # h
    BY <1>1, <1>2, <2>2, BelowFacts
  <2>4. Active(n) /\ Frame(n)
    BY <2>3 DEF Active, FramesHold
  <2>5. call[n].arg \in DOMAIN ArgsOf(n) /\ h \in Under(nodes, Callee(n))
    BY <2>3, <2>4 DEF Frame, Waits
  <2>6. Callee(n) \in DOMAIN nodes /\ nodes[Callee(n)].up = n
    BY <2>5, OtherArgs
  <2>7. ASSUME here' # n PROVE here' \in Under(nodes, Callee(n)) /\ Callee(n) # h
    <3>1. Callee(n) # h
      BY <1>1, <2>6, <2>7
    <3>. QED BY <1>1, <2>5, <2>6, <3>1, BelowFacts
  <2>. QED BY <1>1, <2>3, <2>4, <2>7, FrameStays
<1>3. \A n \in DOMAIN nodes : Active(n)' <=> here' \in Under(nodes, n)
  BY <1>1 DEF Active, Under
<1>. QED BY <1>1, <1>2, <1>3 DEF FramesHold

\* The operator in control goes on in its method.
LEMMA StepKeepsFrames ==
    ASSUME RankerTypeOK, FramesHold, here # 0, NEW h, h = here, here' = h,
           NEW T, Touches(T), T \subseteq Under(nodes, h), h \notin T,
           NEW r, call' = [call EXCEPT ![h] = r], r.method = call[h].method,
           TriesAll(h)', TakesMin(h)', Scores(h)'
    PROVE  FramesHold'
<1>1. /\ nodes' = nodes /\ IsTree(nodes) /\ h \in DOMAIN nodes /\ h \in Under(nodes, h)
      /\ DOMAIN call = DOMAIN nodes
  BY StateFacts, ActiveFacts DEF Touches, RankerTypeOK
<1>2. call'[h] = r /\ \A n \in DOMAIN nodes : n # h => call'[n] = call[n]
  BY <1>1
<1>3. Frame(h)'
  <2>1. Waits(h)'
    BY DEF Waits
  <2>. QED BY <2>1 DEF Frame
<1>4. ASSUME NEW n \in DOMAIN nodes, h \in Under(nodes, n), n # h PROVE Frame(n)'
  <2>1. Active(n) /\ Frame(n)
    BY <1>4 DEF Active, FramesHold
  <2>2. call[n].arg \in DOMAIN ArgsOf(n) /\ h \in Under(nodes, Callee(n))
    BY <1>4, <2>1 DEF Frame, Waits
  <2>3. Callee(n) \in DOMAIN nodes
    BY <2>2, OtherArgs
  <2>4. call'[Callee(n)].method = call[Callee(n)].method
    BY <1>2, <2>3
  <2>5. Callee(n) \notin T
    <3>1. Active(Callee(n))
      BY <2>2 DEF Active
    <3>2. Callee(n) <= h /\ h \in Nat /\ Callee(n) \in Nat
      BY <1>1, <2>3, <3>1, ActiveFacts, StateFacts
    <3>. QED BY <3>2 DEF Under
  <2>. QED BY <1>2, <1>4, <2>1, <2>2, <2>4, <2>5, FrameStays
<1>5. \A n \in DOMAIN nodes : Active(n)' <=> h \in Under(nodes, n)
  BY <1>1 DEF Active, Under
<1>. QED BY <1>1, <1>3, <1>4, <1>5 DEF FramesHold

-----------------------------------------------------------------------------
(* Types.                                                                    *)
CallsTyped ==
    /\ DOMAIN call = DOMAIN nodes
    /\ \A n \in DOMAIN nodes :
          /\ call[n].method \in {"match", "score"} /\ call[n].doc \in Nat \cup {NoMatch}
          /\ call[n].arg \in 1..(Len(ArgsOf(n)) + 1)
          /\ DOMAIN call[n].parts \subseteq DOMAIN ArgsOf(n)
          /\ \A i \in DOMAIN call[n].parts : call[n].parts[i] \in Int

LEMMA CallTypes ==
    ASSUME RankerTypeOK, nodes' = nodes, NEW c \in DOMAIN nodes,
           NEW r, call' = [call EXCEPT ![c] = r],
           r.method \in {"match", "score"}, r.doc \in Nat \cup {NoMatch},
           r.arg \in 1..(Len(ArgsOf(c)) + 1), DOMAIN r.parts \subseteq DOMAIN ArgsOf(c),
           \A i \in DOMAIN r.parts : r.parts[i] \in Int
    PROVE  CallsTyped'
<1>1. CallsTyped /\ DOMAIN call = DOMAIN nodes
  BY DEF CallsTyped, RankerTypeOK
<1>2. DOMAIN call' = DOMAIN nodes' /\ \A n \in DOMAIN nodes : ArgsOf(n)' = ArgsOf(n)
  BY <1>1 DEF ArgsOf
<1>3. ASSUME NEW n \in DOMAIN nodes, n # c PROVE call'[n] = call[n]
  BY <1>1, <1>3
<1>4. call'[c] = r
  BY <1>1
<1>. QED BY <1>1, <1>2, <1>3, <1>4 DEF CallsTyped

LEMMA EnterTypes ==
    ASSUME RankerTypeOK, nodes' = nodes, NEW c \in DOMAIN nodes,
           NEW method \in {"match", "score"}, Enter(c, method)
    PROVE  CallsTyped'
<1>1. Len(ArgsOf(c)) \in Nat
  BY StateFacts
<1>2. 1 \in 1..(Len(ArgsOf(c)) + 1)
  BY <1>1
<1>3. DOMAIN Locals(method).parts = {}
  BY DEF Locals
<1>. QED BY <1>2, <1>3, CallTypes DEF Enter, Locals

LEMMA TypesStay ==
    ASSUME RankerTypeOK, UNCHANGED <<nodes, retrievalModel, at, hits>>,
           cache' \in [DOMAIN nodes -> Nat \cup {NoMatch}], CallsTyped',
           here' \in {0} \cup DOMAIN nodes, reply' \in {"none", "yes", "no", "score"},
           returned' \in Int, ranker' \in {"match", "score", "done", "raised"}
    PROVE  RankerTypeOK'
  BY DEF RankerTypeOK, CallsTyped, List, ArgsOf

-----------------------------------------------------------------------------
(* Steps that move no iterator and forget no match.                          *)
Still == UNCHANGED <<nodes, retrievalModel, at, cache, hits>>

LEMMA StillKeeps ==
    ASSUME Fresh, Kept, Found, Still, ranker' = "done" => ranker = "done" \/ \A e : e \notin Reach[1]
    PROVE  /\ Fresh' /\ Kept' /\ Found'
           /\ Reach' = Reach
           /\ Touches({})
<1>1. Reach' = Reach /\ cache' = cache /\ nodes' = nodes /\ retrievalModel' = retrievalModel /\ hits' = hits
  BY DEF Still, Reach
<1>2. Fresh'
  BY <1>1 DEF Fresh
<1>3. Kept'
  BY <1>1 DEF Kept
<1>4. Found'
  BY <1>1 DEF Found
<1>. QED BY <1>1, <1>2, <1>3, <1>4 DEF Touches

LEMMA StillAligned ==
    ASSUME Aligned, Still,
           ranker' \in {"match", "score"} => ranker \in {"match", "score"},
           \A n \in DOMAIN nodes :
              Active(n) /\ call[n].method = "match" /\ cache[n] # NoMatch =>
                 Active(n)' /\ call'[n].method = "match"
    PROVE  Aligned'
<1>1. cache' = cache /\ nodes' = nodes
  BY DEF Still
<1>. QED BY <1>1 DEF Aligned, ArgsOf

\* An argument is called.
LEMMA AskKeeps ==
    ASSUME RankerInv, here # 0, call[here].arg \in DOMAIN ArgsOf(here),
           NEW h, h = here, NEW c, c = Arg,
           NEW method \in {"match", "score"}, Enter(c, method), Still, UNCHANGED <<returned, ranker>>,
           method = "match" => call[h].method = "match" \/ nodes[h].kind \in AnyOf,
           method = "score" => /\ call[h].method = "score" /\ cache[c] = cache[h]
                               /\ cache[h] # NoMatch,
           ~(call[h].method = "match" /\ nodes[h].kind = "and" /\ call[h].arg > 1)
    PROVE  RankerInv'
<1>1. Fresh' /\ Kept' /\ Found' /\ Touches({})
  BY StillKeeps DEF RankerInv
<1>2. cache' = cache /\ nodes' = nodes /\ retrievalModel' = retrievalModel /\ at' = at /\ hits' = hits
  BY DEF Still
<1>3. FramesHold'
  BY <1>1, <1>2, CallKeepsFrames DEF RankerInv
<1>4. c \in DOMAIN nodes /\ c # 1 /\ h \notin Under(nodes, c) /\ c \in Under(nodes, h) /\ h \in DOMAIN nodes
  BY ArgOfHere, ActiveFacts DEF RankerInv
<1>5. /\ here' = c /\ reply' = "none" /\ call' = [call EXCEPT ![c] = Locals(method)]
      /\ DOMAIN call = DOMAIN nodes /\ IsTree(nodes) /\ 1 \in DOMAIN nodes
  BY StateFacts DEF Enter, RankerInv, RankerTypeOK
<1>6. RankerTypeOK'
  <2>1. CallsTyped'
    BY <1>2, <1>4, EnterTypes DEF RankerInv
  <2>. QED BY <1>2, <1>4, <1>5, <2>1, TypesStay DEF RankerInv, RankerTypeOK
<1>7. Control'
  BY <1>2, <1>4, <1>5 DEF RankerInv, Control
<1>8. RepliesHold'
  BY <1>5 DEF RepliesHold
<1>9. ASSUME NEW n \in DOMAIN nodes, Active(n), call[n].method = "match"
      PROVE  Active(n)' /\ call'[n].method = "match"
  <2>1. c \in Under(nodes, n)
    BY <1>4, <1>5, <1>9, BelowFacts DEF Active
  <2>2. n # c
    BY <1>4, <1>9 DEF Active
  <2>. QED BY <1>2, <1>5, <1>9, <2>1, <2>2 DEF Active, Under
<1>10. Aligned'
  BY <1>9, StillAligned DEF RankerInv
<1>. QED BY <1>1, <1>3, <1>6, <1>7, <1>8, <1>10 DEF RankerInv

\* The caller hears the answer of the operator that it has called.
LEMMA AnswerHeard ==
    ASSUME RankerInv, here # 0, NEW h, h = here, here' = nodes[h].up, call' = call, nodes' = nodes
    PROVE  /\ Answerer' = h
           /\ h = 1 <=> here' = 0
           /\ here' # 0 =>
                 /\ here' \in DOMAIN nodes
                 /\ call[here'].arg \in DOMAIN ArgsOf(here') /\ Callee(here') = h
                 /\ Active(here') /\ Frame(here') /\ here # here'
<1>1. IsTree(nodes) /\ h \in DOMAIN nodes /\ RankerTypeOK
  BY ActiveFacts, StateFacts DEF RankerInv
<1>2. h = 1 <=> here' = 0
  BY <1>1, UpFacts
<1>3. ASSUME NEW u, u = here', u # 0
      PROVE  /\ u \in DOMAIN nodes /\ call[u].arg \in DOMAIN ArgsOf(u) /\ Callee(u) = h
             /\ Active(u) /\ Frame(u) /\ here # u
  <2>1. u \in DOMAIN nodes /\ h \in Under(nodes, u) /\ u \notin Under(nodes, h) /\ u # h
    BY <1>1, <1>2, <1>3, UpFacts
  <2>2. Active(u) /\ Frame(u)
    BY <2>1 DEF Active, FramesHold, RankerInv
  <2>3. call[u].arg \in DOMAIN ArgsOf(u) /\ h \in Under(nodes, Callee(u))
    BY <2>1, <2>2 DEF Frame, Waits
  <2>4. Callee(u) \in DOMAIN nodes /\ u \notin Under(nodes, Callee(u))
    BY <1>1, <2>1, <2>3, OtherArgs
  <2>5. Callee(u) = h
    BY <1>1, <1>3, <2>3, <2>4, BelowFacts
  <2>. QED BY <2>1, <2>2, <2>3, <2>5
<1>4. Answerer' = h
  <2>1. CASE here' = 0
    BY <1>2, <2>1 DEF Answerer
  <2>2. CASE here' # 0
    <3>1. Callee(here') = h
      BY <1>3, <2>2
    <3>2. Arg' = Callee(here')
      BY DEF Arg, Callee, ArgsOf
    <3>. QED BY <2>2, <3>1, <3>2 DEF Answerer
  <2>. QED BY <2>1, <2>2
<1>. QED BY <1>2, <1>3, <1>4

LEMMA ReturnKeepsReplies ==
    ASSUME RankerInv, here # 0, NEW h, h = here, NEW answer \in {"yes", "no", "score"},
           Return(answer), UNCHANGED <<nodes, retrievalModel, ranker>>,
           answer = "score" <=> call[h].method = "score",
           answer = "yes" => cache'[h] # NoMatch,
           answer = "no" => \A e : e \notin Reach'[h],
           answer = "score" => /\ returned' = ScoresOf(nodes, retrievalModel, cache[h])[h]
                               /\ cache' = cache
    PROVE  RepliesHold'
<1>1. here' = nodes[h].up /\ call' = call /\ nodes' = nodes /\ reply' = answer /\ ranker' = ranker
      /\ retrievalModel' = retrievalModel
  BY DEF Return
<1>2. /\ Answerer' = h /\ (h = 1 <=> here' = 0)
      /\ here' # 0 =>
                 /\ here' \in DOMAIN nodes
                 /\ call[here'].arg \in DOMAIN ArgsOf(here') /\ Callee(here') = h
                 /\ Frame(here') /\ here # here'
  BY <1>1, AnswerHeard
<1>3. call[h].method \in {"match", "score"}
  BY ActiveFacts, StateFacts DEF RankerInv
<1>4. ASSUME here' = 0
      PROVE  ranker' = IF answer = "score" THEN "score" ELSE "match"
  <2>1. call[1].method = "match" <=> ranker = "match"
    BY DEF RankerInv, Control
  <2>2. ranker \in {"match", "score"}
    BY DEF RankerInv, Control, RankerTypeOK
  <2>. QED BY <1>1, <1>2, <1>3, <1>4, <2>1, <2>2
<1>5. ASSUME NEW u, u = here', u # 0
      PROVE  /\ call'[u].arg \in DOMAIN ArgsOf(u)'
             /\ answer \in {"yes", "no"} => call'[u].method = "match" \/ nodes'[u].kind \in AnyOf
             /\ answer = "score" => call'[u].method = "score" /\ cache'[h] = cache'[u]
  <2>1. /\ call[u].arg \in DOMAIN ArgsOf(u) /\ Callee(u) = h /\ Waits(u) /\ here # u
    BY <1>2, <1>5 DEF Frame
  <2>2. ArgsOf(u)' = ArgsOf(u)
    BY <1>1 DEF ArgsOf
  <2>. QED BY <1>1, <1>3, <2>1, <2>2 DEF Waits
<1>6. here' # 0 => Arg' = h
  BY <1>2 DEF Answerer
<1>7. here' # 0 => /\ call'[here'].arg \in DOMAIN ArgsOf(here)'
                   /\ reply' \in {"yes", "no"} => call'[here'].method = "match" \/ nodes'[here'].kind \in AnyOf
                   /\ reply' = "score" => call'[here'].method = "score" /\ cache'[Arg'] = cache'[here']
  <2>1. ArgsOf(here)' = nodes'[here'].args
    BY DEF ArgsOf
  <2>2. \A u : ArgsOf(u)' = nodes'[u].args
    BY DEF ArgsOf
  <2>. QED BY <1>1, <1>5, <1>6, <2>1, <2>2
<1>8. here' = 0 => /\ reply' \in {"yes", "no"} => ranker' = "match"
                   /\ reply' = "score" => ranker' = "score"
  BY <1>1, <1>4
<1>9. /\ reply' = "yes" => cache'[Answerer'] # NoMatch
      /\ reply' = "no" => \A e : e \notin Reach'[Answerer']
      /\ reply' = "score" => returned' = ScoresOf(nodes', retrievalModel', cache'[Answerer'])[Answerer']
  BY <1>1, <1>2
<1>. QED BY <1>7, <1>8, <1>9 DEF RepliesHold

\* An operator answers that it has no match, or with the score of its match.
LEMMA AnswerKeeps ==
    ASSUME RankerInv, here # 0, NEW h, h = here, NEW answer \in {"no", "score"},
           Return(answer), Still, UNCHANGED ranker, returned' \in Int,
           answer = "score" <=> call[h].method = "score",
           answer = "no" => \A e : e \notin Reach[h],
           answer = "score" => returned' = ScoresOf(nodes, retrievalModel, cache[h])[h]
    PROVE  RankerInv'
<1>1. ranker # "done"
  BY DEF RankerInv, Control
<1>2. Fresh' /\ Kept' /\ Found' /\ Touches({}) /\ Reach' = Reach
  BY <1>1, StillKeeps DEF RankerInv
<1>3. cache' = cache /\ nodes' = nodes /\ retrievalModel' = retrievalModel /\ at' = at /\ hits' = hits
  BY DEF Still
<1>4. here' = nodes[h].up /\ call' = call /\ reply' = answer
  BY DEF Return
<1>5. Touches({h})
  BY <1>2 DEF Touches
<1>6. FramesHold'
  BY <1>5, ReturnKeepsFrames DEF RankerInv
<1>7. RepliesHold'
  BY <1>2, <1>3, ReturnKeepsReplies
<1>8. IsTree(nodes) /\ h \in DOMAIN nodes /\ call[h].method \in {"match", "score"}
  BY ActiveFacts, StateFacts DEF RankerInv
<1>9. h = 1 <=> here' = 0
  BY <1>3, <1>4, AnswerHeard
<1>10. here' \in {0} \cup DOMAIN nodes
  BY <1>4, <1>8, <1>9, UpFacts
<1>11. RankerTypeOK'
  <2>1. CallsTyped'
    BY <1>3, <1>4 DEF RankerInv, RankerTypeOK, CallsTyped, ArgsOf
  <2>. QED BY <1>3, <1>4, <1>10, <2>1, TypesStay DEF RankerInv, RankerTypeOK
<1>12. Control'
  BY <1>1, <1>3, <1>4 DEF RankerInv, Control
<1>13. ASSUME NEW n \in DOMAIN nodes, Active(n), call[n].method = "match", cache[n] # NoMatch
       PROVE  Active(n)' /\ call'[n].method = "match"
  <2>1. n # h
    BY <1>8, <1>13 DEF RankerInv, Fresh
  <2>2. here' \in Under(nodes, n)
    BY <1>4, <1>8, <1>13, <2>1, BelowFacts DEF Active
  <2>. QED BY <1>3, <1>4, <1>13, <2>2 DEF Active, Under
<1>14. Aligned'
  BY <1>13, StillAligned DEF RankerInv
<1>. QED BY <1>2, <1>6, <1>7, <1>11, <1>12, <1>14 DEF RankerInv

\* An operator answers that it has a match.
LEMMA YesKeeps ==
    ASSUME RankerInv, here # 0, NEW h, h = here, NEW d, SetMatchCache(d), Return("yes"),
           UNCHANGED <<nodes, retrievalModel, at, returned, hits, ranker>>,
           call[h].method = "match", d \in Reach[h], \A e \in Reach[h] : d <= e,
           nodes[h].kind = "and" => \A i \in DOMAIN ArgsOf(h) : cache[ArgsOf(h)[i]] = d
    PROVE  RankerInv'
<1>1. /\ IsTree(nodes) /\ h \in DOMAIN nodes /\ DOMAIN cache = DOMAIN nodes
      /\ cache \in [DOMAIN nodes -> Nat \cup {NoMatch}]
  BY ActiveFacts, StateFacts DEF RankerInv, RankerTypeOK
<1>2. d \in Nat /\ d # NoMatch
  <2>1. d \in Nat
    BY <1>1, StateFacts DEF RankerInv
  <2>. QED BY <2>1 DEF NoMatch
<1>3. /\ cache' = [cache EXCEPT ![h] = d] /\ cache'[h] = d
      /\ \A n \in DOMAIN nodes : n # h => cache'[n] = cache[n]
  BY <1>1 DEF SetMatchCache
<1>4. /\ nodes' = nodes /\ retrievalModel' = retrievalModel /\ at' = at /\ hits' = hits
      /\ ranker' = ranker /\ Reach' = Reach
      /\ here' = nodes[h].up /\ call' = call /\ reply' = "yes"
  BY DEF Return, Reach
<1>5. Fresh'
  BY <1>3, <1>4 DEF RankerInv, Fresh
<1>6. Kept' /\ Found'
  BY <1>4 DEF RankerInv, Kept, Found
<1>7. Touches({h})
  BY <1>3, <1>4 DEF Touches
<1>8. FramesHold'
  BY <1>7, ReturnKeepsFrames DEF RankerInv
<1>9. RepliesHold'
  BY <1>2, <1>3, <1>4, ReturnKeepsReplies
<1>10. /\ h = 1 <=> here' = 0
       /\ here' # 0 => Frame(here') /\ here # here'
  BY <1>4, AnswerHeard
<1>11. here' \in {0} \cup DOMAIN nodes
  BY <1>1, <1>4, <1>10, UpFacts
<1>12. RankerTypeOK'
  <2>1. CallsTyped'
    BY <1>4 DEF RankerInv, RankerTypeOK, CallsTyped, ArgsOf
  <2>2. cache' \in [DOMAIN nodes -> Nat \cup {NoMatch}]
    BY <1>1, <1>2, <1>3
  <2>. QED BY <1>4, <1>11, <2>1, <2>2, TypesStay DEF RankerInv, RankerTypeOK
<1>13. Control'
  <2>1. cache[1] # NoMatch => cache'[1] # NoMatch
    BY <1>1, <1>2, <1>3, StateFacts DEF RankerInv
  <2>2. ranker \notin {"done", "raised"}
    BY DEF RankerInv, Control
  <2>. QED BY <1>4, <2>1, <2>2 DEF RankerInv, Control
<1>14. ASSUME NEW n \in DOMAIN nodes, ranker \in {"match", "score"}, nodes[n].kind = "and",
              cache'[n] # NoMatch, ~(Active(n)' /\ call[n].method = "match"),
              NEW i \in DOMAIN ArgsOf(n)
       PROVE  cache'[ArgsOf(n)[i]] = cache'[n]
  <2>1. ArgsOf(n)[i] \in DOMAIN nodes /\ ArgsOf(n)[i] # n /\ nodes[ArgsOf(n)[i]].up = n
    <3>1. n \in Nat
      BY StateFacts DEF RankerInv
    <3>2. ArgsOf(n)[i] \in DOMAIN nodes /\ ArgsOf(n)[i] > n /\ nodes[ArgsOf(n)[i]].up = n
      BY <1>1, ArgFacts DEF ArgsOf
    <3>3. ArgsOf(n)[i] \in Nat
      BY <3>2, StateFacts DEF RankerInv
    <3>. QED BY <3>1, <3>2, <3>3
  <2>2. CASE n = h
    BY <1>3, <1>14, <2>1, <2>2
  <2>3. CASE n # h
    <3>1. ~(Active(n) /\ call[n].method = "match")
      <4>1. Active(n) => here' \in Under(nodes, n)
        BY <1>1, <1>4, <2>3, BelowFacts DEF Active
      <4>. QED BY <1>4, <1>14, <4>1 DEF Active, Under
    <3>2. cache[ArgsOf(n)[i]] = cache[n] /\ cache'[n] = cache[n]
      BY <1>3, <1>14, <2>3, <3>1 DEF RankerInv, Aligned
    <3>3. ArgsOf(n)[i] # h
      <4> SUFFICES ASSUME ArgsOf(n)[i] = h PROVE FALSE
        OBVIOUS
      <4>1. here' = n /\ n # 0
        BY <1>4, <2>1, StateFacts DEF RankerInv
      <4>2. Waits(n) /\ here # n
        BY <1>10, <4>1 DEF Frame
      <4>3. Callee(n) = h
        <5>1. here' # 0 => Callee(here') = h
          BY <1>4, AnswerHeard
        <5>. QED BY <4>1, <5>1
      <4>4. call[n].method = "match"
        BY <1>14, <4>2, <4>3 DEF Waits, AnyOf
      <4>5. Active(n)'
        <5>1. n \in Under(nodes, n)
          BY StateFacts DEF RankerInv
        <5>. QED BY <1>4, <4>1, <5>1 DEF Active, Under
      <4>. QED BY <1>14, <4>4, <4>5
    <3>. QED BY <1>3, <2>1, <3>2, <3>3
  <2>. QED BY <2>2, <2>3
<1>15. Aligned'
  BY <1>4, <1>14 DEF Aligned, ArgsOf
<1>. QED BY <1>5, <1>6, <1>8, <1>9, <1>12, <1>13, <1>15 DEF RankerInv

\* The loop over the arguments goes on.
LEMMA GoOnKeeps ==
    ASSUME RankerInv, here # 0, NEW h, h = here, call[h].arg \in DOMAIN ArgsOf(h),
           NEW doc \in Nat \cup {NoMatch}, NEW parts, NextArg(doc, parts),
           Still, UNCHANGED <<returned, ranker>>,
           DOMAIN parts \subseteq DOMAIN ArgsOf(h), \A i \in DOMAIN parts : parts[i] \in Int,
           TriesAll(h)', TakesMin(h)', Scores(h)'
    PROVE  RankerInv'
<1>1. ranker # "done"
  BY DEF RankerInv, Control
<1>2. Fresh' /\ Kept' /\ Found' /\ Touches({}) /\ Reach' = Reach
  BY <1>1, StillKeeps DEF RankerInv
<1>3. cache' = cache /\ nodes' = nodes /\ retrievalModel' = retrievalModel /\ at' = at /\ hits' = hits
  BY DEF Still
<1> DEFINE r == [method |-> call[h].method, arg |-> call[h].arg + 1, doc |-> doc, parts |-> parts]
<1>4. /\ h \in DOMAIN nodes /\ DOMAIN call = DOMAIN nodes
      /\ call[h].method \in {"match", "score"}
  BY ActiveFacts, StateFacts DEF RankerInv, RankerTypeOK
<1>5. here' = h /\ reply' = "none" /\ call' = [call EXCEPT ![h] = r]
  BY DEF NextArg
<1>6. r.method = call[h].method /\ r.arg = call[h].arg + 1 /\ r.doc = doc /\ r.parts = parts
  OBVIOUS
<1> HIDE DEF r
<1>7. /\ call'[h].method = call[h].method
      /\ \A n \in DOMAIN nodes : call'[n].method = call[n].method
  BY <1>4, <1>5, <1>6
<1>8. FramesHold'
  BY <1>2, <1>5, <1>6, StepKeepsFrames DEF RankerInv
<1>9. RankerTypeOK'
  <2>1. r.arg \in 1..(Len(ArgsOf(h)) + 1)
    <3>1. Len(ArgsOf(h)) \in Nat /\ DOMAIN ArgsOf(h) = 1..Len(ArgsOf(h))
      BY <1>4, StateFacts DEF RankerInv
    <3>. QED BY <1>6, <3>1
  <2>2. CallsTyped'
    BY <1>3, <1>4, <1>5, <1>6, <2>1, CallTypes DEF RankerInv
  <2>. QED BY <1>3, <1>4, <1>5, <2>2, TypesStay DEF RankerInv, RankerTypeOK
<1>10. Control'
  <2>1. 1 \in DOMAIN nodes
    BY StateFacts DEF RankerInv
  <2>. QED BY <1>1, <1>3, <1>5, <1>7, <2>1 DEF RankerInv, Control
<1>11. RepliesHold'
  BY <1>5 DEF RepliesHold
<1>12. Aligned'
  <2>1. \A n \in DOMAIN nodes : Active(n)' <=> Active(n)
    BY <1>3, <1>5 DEF Active, Under
  <2>. QED BY <1>7, <2>1, StillAligned DEF RankerInv
<1>. QED BY <1>2, <1>8, <1>9, <1>10, <1>11, <1>12 DEF RankerInv

-----------------------------------------------------------------------------
(* The actions that ask and answer.                                          *)
LEMMA InControl ==
    ASSUME RankerInv, here # 0, NEW h, h = here
    PROVE  /\ RankerTypeOK /\ IsTree(nodes) /\ AreIterators(nodes, at)
           /\ h \in DOMAIN nodes /\ Frame(h)
           /\ DOMAIN ArgsOf(h) = 1..Len(ArgsOf(h)) /\ Len(ArgsOf(h)) \in Nat
           /\ call[h].arg \in Nat /\ call[h].arg >= 1 /\ call[h].arg <= Len(ArgsOf(h)) + 1
           /\ call[h].doc \in Nat \cup {NoMatch} /\ call[h].method \in {"match", "score"}
           /\ ArgsLeft <=> call[h].arg \in DOMAIN ArgsOf(h)
           /\ reply # "none" => call[h].arg \in DOMAIN ArgsOf(h)
           /\ nodes[h].kind # "score" => 1 \in DOMAIN ArgsOf(h)
           /\ returned \in Int /\ cache[h] \in Nat \cup {NoMatch}
           /\ ranker \in {"match", "score"}
<1>1. /\ RankerTypeOK /\ IsTree(nodes) /\ AreIterators(nodes, at)
      /\ h \in DOMAIN nodes /\ Frame(h)
  BY ActiveFacts, StateFacts DEF RankerInv, FramesHold
<1>2. /\ DOMAIN ArgsOf(h) = 1..Len(ArgsOf(h)) /\ Len(ArgsOf(h)) \in Nat
      /\ call[h].arg \in Nat /\ call[h].arg >= 1 /\ call[h].arg <= Len(ArgsOf(h)) + 1
      /\ call[h].doc \in Nat \cup {NoMatch} /\ call[h].method \in {"match", "score"}
      /\ cache[h] \in Nat \cup {NoMatch}
  BY <1>1, StateFacts
<1>3. ArgsLeft <=> call[h].arg \in DOMAIN ArgsOf(h)
  BY <1>2 DEF ArgsLeft
<1>4. reply # "none" => call[h].arg \in DOMAIN ArgsOf(h)
  BY DEF RankerInv, RepliesHold
<1>5. nodes[h].kind # "score" => 1 \in DOMAIN ArgsOf(h)
  <2>1. h \in 1..Len(nodes)
    BY <1>1, TreeFacts
  <2>2. nodes[h].kind # "score" => Len(ArgsOf(h)) > 0
    BY <1>1, <2>1, TreeFacts DEF ArgsOf
  <2>. QED BY <1>2, <2>2
<1>6. returned \in Int /\ ranker \in {"match", "score"}
  BY <1>1 DEF RankerTypeOK, RankerInv, Control
<1>. QED BY <1>1, <1>2, <1>3, <1>4, <1>5, <1>6

\* What an operator matches, by its arguments.
LEMMA ReachByKind ==
    ASSUME RankerTypeOK, NEW n \in DOMAIN nodes
    PROVE  /\ nodes[n].kind = "and" => \A d : d \in Reach[n] <=> \A i \in DOMAIN ArgsOf(n) :
                                                                  d \in Reach[ArgsOf(n)[i]]
           /\ nodes[n].kind \in AnyOf => \A d : d \in Reach[n] <=> \E i \in DOMAIN ArgsOf(n) :
                                                                  d \in Reach[ArgsOf(n)[i]]
  BY StateFacts, MatchesByKind DEF Reach, ArgsOf

LEMMA FirstHasMatchKeeps == ASSUME RankerInv, FirstHasMatch PROVE RankerInv'
<1> DEFINE l == List(here)
<1>1. here # 0 /\ call[here].method = "match" /\ nodes[here].kind = "score"
  BY DEF FirstHasMatch, Running
<1>2. UNCHANGED <<nodes, retrievalModel, at, returned, hits, ranker>>
  BY DEF FirstHasMatch, Running
<1>3. /\ RankerTypeOK /\ IsTree(nodes) /\ AreIterators(nodes, at) /\ here \in DOMAIN nodes
      /\ at[here] > Len(l) => Reach[here] = {}
      /\ at[here] <= Len(l) => l[at[here]].doc \in Reach[here] /\ \A e \in Reach[here] : l[at[here]].doc <= e
  BY <1>1, InControl, LeafFacts DEF Reach, List
<1>4. CASE at[here] <= Len(l) /\ SetMatchCache(l[at[here]].doc) /\ Return("yes")
  BY <1>1, <1>2, <1>3, <1>4, YesKeeps
<1>5. CASE at[here] > Len(l) /\ Return("no") /\ cache' = cache
  <2>1. Still
    BY <1>2, <1>5 DEF Still
  <2>. QED BY <1>1, <1>2, <1>3, <1>5, <2>1, InControl, AnswerKeeps
<1>. QED BY <1>4, <1>5 DEF FirstHasMatch

LEMMA AllMissKeeps == ASSUME RankerInv, AllMiss PROVE RankerInv'
<1>1. /\ here # 0 /\ call[here].method = "match" /\ nodes[here].kind = "and"
      /\ reply = "no" /\ Return("no") /\ UNCHANGED <<returned, ranker>>
  BY DEF AllMiss, Running
<1>2. Still
  BY DEF AllMiss, Running, Still
<1>3. \A e : e \notin Reach[Arg]
  BY <1>1 DEF RankerInv, RepliesHold, Answerer
<1>4. Arg = ArgsOf(here)[call[here].arg] /\ call[here].arg \in DOMAIN ArgsOf(here)
  BY <1>1, InControl DEF Arg
<1>5. \A e : e \notin Reach[here]
  BY <1>1, <1>3, <1>4, InControl, ReachByKind
<1>. QED BY <1>1, <1>2, <1>5, InControl, AnswerKeeps

LEMMA AllAgreesKeeps == ASSUME RankerInv, AllAgrees PROVE RankerInv'
<1> SUFFICES ASSUME NEW h, h = here PROVE RankerInv'
  OBVIOUS
<1>1. /\ h # 0 /\ call[h].method = "match" /\ nodes[h].kind = "and"
      /\ reply = "yes" /\ NextArg(cache[Arg], <<>>) /\ UNCHANGED <<returned, ranker>>
      /\ call[h].arg = 1 \/ cache[Arg] = call[h].doc
  BY DEF AllAgrees, Running
<1>2. Still /\ nodes' = nodes
  BY DEF AllAgrees, Running, Still
<1>3. /\ RankerTypeOK /\ h \in DOMAIN nodes /\ Frame(h) /\ call[h].arg \in DOMAIN ArgsOf(h)
      /\ call[h].arg \in Nat /\ call[h].arg >= 1
      /\ Arg = ArgsOf(h)[call[h].arg]
  BY <1>1, InControl DEF Arg
<1>4. cache[Arg] # NoMatch /\ cache[Arg] \in Nat \cup {NoMatch}
  <2>1. Arg \in DOMAIN nodes
    BY <1>1, <1>3, ArgOfHere
  <2>. QED BY <1>1, <1>3, <2>1, StateFacts DEF RankerInv, RepliesHold, Answerer
<1>5. /\ call'[h].method = "match" /\ call'[h].arg = call[h].arg + 1 /\ call'[h].doc = cache[Arg]
      /\ here' = h /\ reply' = "none" /\ ArgsOf(h)' = ArgsOf(h) /\ cache' = cache
  BY <1>1, <1>2, <1>3 DEF NextArg, RankerTypeOK, ArgsOf, Still
<1>6. TriesAll(h)'
  <2>1. \A j \in 1..call[h].arg : cache[ArgsOf(h)[j]] = cache[Arg]
    <3> SUFFICES ASSUME NEW j \in 1..call[h].arg PROVE cache[ArgsOf(h)[j]] = cache[Arg]
      OBVIOUS
    <3>1. CASE j = call[h].arg
      BY <1>3, <3>1
    <3>2. CASE j # call[h].arg
      <4>1. j \in 1..(call[h].arg - 1) /\ call[h].arg > 1
        BY <1>3, <3>2
      <4>2. cache[ArgsOf(h)[j]] = call[h].doc
        BY <1>1, <1>3, <4>1 DEF Frame, TriesAll
      <4>. QED BY <1>1, <1>3, <4>1, <4>2
    <3>. QED BY <3>1, <3>2
  <2>2. call'[h].arg - 1 = call[h].arg
    BY <1>3, <1>5
  <2>. QED BY <1>4, <1>5, <2>1, <2>2 DEF TriesAll
<1>7. TakesMin(h)'
  BY <1>1, <1>2 DEF TakesMin, AnyOf
<1>8. Scores(h)'
  BY <1>5 DEF Scores
<1>. QED BY <1>1, <1>2, <1>3, <1>4, <1>6, <1>7, <1>8, GoOnKeeps

LEMMA AllEndKeeps == ASSUME RankerInv, AllEnd PROVE RankerInv'
<1> SUFFICES ASSUME NEW h, h = here PROVE RankerInv'
  OBVIOUS
<1>1. /\ h # 0 /\ call[h].method = "match" /\ nodes[h].kind = "and"
      /\ SetMatchCache(call[h].doc) /\ Return("yes") /\ ~ArgsLeft
      /\ UNCHANGED <<nodes, retrievalModel, at, returned, hits, ranker>>
  BY DEF AllEnd, Running
<1>2. /\ RankerTypeOK /\ IsTree(nodes) /\ h \in DOMAIN nodes /\ Frame(h)
      /\ DOMAIN ArgsOf(h) = 1..(call[h].arg - 1) /\ 1 \in DOMAIN ArgsOf(h) /\ call[h].arg > 1
  <2>1. /\ RankerTypeOK /\ IsTree(nodes) /\ h \in DOMAIN nodes /\ Frame(h)
        /\ DOMAIN ArgsOf(h) = 1..Len(ArgsOf(h)) /\ Len(ArgsOf(h)) \in Nat
        /\ call[h].arg \in Nat /\ call[h].arg <= Len(ArgsOf(h)) + 1
        /\ call[h].arg \notin DOMAIN ArgsOf(h) /\ 1 \in DOMAIN ArgsOf(h) /\ call[h].arg >= 1
    BY <1>1, InControl
  <2>2. call[h].arg = Len(ArgsOf(h)) + 1
    BY <2>1
  <2>. QED BY <2>1, <2>2
<1>3. /\ call[h].doc # NoMatch
      /\ \A i \in DOMAIN ArgsOf(h) : cache[ArgsOf(h)[i]] = call[h].doc
  BY <1>1, <1>2 DEF Frame, TriesAll
<1>4. \A i \in DOMAIN ArgsOf(h) : /\ call[h].doc \in Reach[ArgsOf(h)[i]]
                                  /\ \A e \in Reach[ArgsOf(h)[i]] : call[h].doc <= e
  <2>1. \A i \in DOMAIN ArgsOf(h) : ArgsOf(h)[i] \in DOMAIN nodes
    BY <1>2, ArgFacts DEF ArgsOf
  <2>. QED BY <1>3, <2>1 DEF RankerInv, Fresh
<1>5. call[h].doc \in Reach[h] /\ \A e \in Reach[h] : call[h].doc <= e
  BY <1>1, <1>2, <1>4, ReachByKind
<1>. QED BY <1>1, <1>3, <1>5, YesKeeps

LEMMA MinAskKeeps == ASSUME RankerInv, MinAsk PROVE RankerInv'
<1>1. /\ here # 0 /\ call[here].method = "match" /\ nodes[here].kind \in AnyOf
      /\ ArgsLeft /\ Enter(Arg, "match") /\ UNCHANGED <<returned, ranker>>
  BY DEF MinAsk, Running
<1>2. Still
  BY DEF MinAsk, Running, Still
<1>3. call[here].arg \in DOMAIN ArgsOf(here) /\ nodes[here].kind # "and"
  BY <1>1, InControl DEF AnyOf
<1>. QED BY <1>1, <1>2, <1>3, AskKeeps

\* What the arguments that have answered leave for the smallest match.
LEMMA TakesOneMore ==
    ASSUME RankerInv, here # 0, NEW h, h = here,
           call[h].method = "match", nodes[h].kind \in AnyOf, reply \in {"yes", "no"},
           NEW doc, NextArg(doc, <<>>), Still, UNCHANGED <<returned, ranker>>,
           reply = "no" => doc = call[h].doc,
           reply = "yes" => /\ call[h].doc = NoMatch => doc = cache[Arg]
                            /\ call[h].doc # NoMatch => doc = Min({call[h].doc, cache[Arg]})
    PROVE  RankerInv'
<1>1. /\ RankerTypeOK /\ h \in DOMAIN nodes /\ Frame(h) /\ call[h].arg \in DOMAIN ArgsOf(h)
      /\ call[h].arg \in Nat /\ call[h].arg >= 1
      /\ Arg = ArgsOf(h)[call[h].arg] /\ call[h].doc \in Nat \cup {NoMatch}
  BY InControl DEF Arg
<1>2. Arg \in DOMAIN nodes /\ cache[Arg] \in Nat \cup {NoMatch}
  BY <1>1, ArgOfHere, StateFacts
<1>3. reply = "yes" => /\ cache[Arg] # NoMatch /\ cache[Arg] \in Reach[Arg]
                       /\ \A e \in Reach[Arg] : cache[Arg] <= e
  BY <1>2 DEF RankerInv, RepliesHold, Answerer, Fresh
<1>4. reply = "no" => \A e : e \notin Reach[Arg]
  BY DEF RankerInv, RepliesHold, Answerer
<1>5. /\ call[h].doc = NoMatch =>
            \A j \in 1..(call[h].arg - 1) : \A e : e \notin Reach[ArgsOf(h)[j]]
      /\ call[h].doc # NoMatch =>
            /\ \E j \in 1..(call[h].arg - 1) : call[h].doc \in Reach[ArgsOf(h)[j]]
            /\ \A j \in 1..(call[h].arg - 1) : \A e \in Reach[ArgsOf(h)[j]] : call[h].doc <= e
  BY <1>1 DEF Frame, TakesMin
<1>6. \A j \in 1..call[h].arg : j \in 1..(call[h].arg - 1) \/ j = call[h].arg
  BY <1>1
<1>7. 1..(call[h].arg - 1) \subseteq 1..call[h].arg /\ call[h].arg \in 1..call[h].arg
  BY <1>1
<1>8. \A j \in 1..call[h].arg : ArgsOf(h)[j] \in DOMAIN nodes
  <2>1. \A j \in 1..(call[h].arg - 1) : ArgsOf(h)[j] \in DOMAIN nodes
    BY <1>1, OtherArgs
  <2>. QED BY <1>1, <1>2, <1>6, <2>1
<1>9. \A j \in 1..call[h].arg : \A e \in Reach[ArgsOf(h)[j]] : e \in Nat
  BY <1>1, <1>8, StateFacts
<1>10. /\ doc \in Nat \cup {NoMatch}
       /\ doc = NoMatch => \A j \in 1..call[h].arg : \A e : e \notin Reach[ArgsOf(h)[j]]
       /\ doc # NoMatch =>
            /\ \E j \in 1..call[h].arg : doc \in Reach[ArgsOf(h)[j]]
            /\ \A j \in 1..call[h].arg : \A e \in Reach[ArgsOf(h)[j]] : doc <= e
  <2>1. CASE reply = "no"
    <3>1. doc = call[h].doc /\ \A e : e \notin Reach[Arg]
      BY <1>4, <2>1
    <3>2. CASE doc = NoMatch
      BY <1>1, <1>5, <1>6, <3>1, <3>2
    <3>3. CASE doc # NoMatch
      <4>1. \E j \in 1..call[h].arg : doc \in Reach[ArgsOf(h)[j]]
        BY <1>5, <1>7, <3>1, <3>3
      <4>2. \A j \in 1..call[h].arg : \A e \in Reach[ArgsOf(h)[j]] : doc <= e
        BY <1>1, <1>5, <1>6, <3>1, <3>3
      <4>. QED BY <1>1, <3>1, <3>3, <4>1, <4>2
    <3>. QED BY <3>2, <3>3
  <2>2. CASE reply = "yes" /\ call[h].doc = NoMatch
    BY <1>1, <1>2, <1>3, <1>5, <1>6, <1>7, <2>2
  <2>3. CASE reply = "yes" /\ call[h].doc # NoMatch
    <3>1. call[h].doc \in Nat /\ cache[Arg] \in Nat
      BY <1>1, <1>2, <1>3, <2>3
    <3>2. doc = IF call[h].doc <= cache[Arg] THEN call[h].doc ELSE cache[Arg]
      BY <2>3, <3>1, MinOfTwo
    <3>3. doc \in Nat /\ doc <= call[h].doc /\ doc <= cache[Arg] /\ doc # NoMatch
      BY <3>1, <3>2 DEF NoMatch
    <3>4. \E j \in 1..call[h].arg : doc \in Reach[ArgsOf(h)[j]]
      BY <1>1, <1>3, <1>5, <1>7, <2>3, <3>2
    <3>5. ASSUME NEW j \in 1..call[h].arg, NEW e \in Reach[ArgsOf(h)[j]] PROVE doc <= e
      <4>1. e \in Nat
        BY <1>9, <3>5
      <4>2. call[h].doc <= e \/ cache[Arg] <= e
        BY <1>1, <1>3, <1>5, <1>6, <2>3, <3>5
      <4>. QED BY <3>1, <3>3, <4>1, <4>2
    <3>. QED BY <3>3, <3>4, <3>5
  <2>. QED BY <2>1, <2>2, <2>3
<1>11. /\ call'[h].method = "match" /\ call'[h].arg = call[h].arg + 1 /\ call'[h].doc = doc
       /\ nodes' = nodes /\ ArgsOf(h)' = ArgsOf(h) /\ Reach' = Reach
  BY <1>1 DEF NextArg, RankerTypeOK, ArgsOf, Still, Reach
<1>12. TakesMin(h)'
  <2>1. call'[h].arg - 1 = call[h].arg
    BY <1>1, <1>11
  <2>. QED BY <1>10, <1>11, <2>1 DEF TakesMin
<1>13. TriesAll(h)' /\ Scores(h)'
  BY <1>11 DEF TriesAll, Scores, AnyOf
<1>14. DOMAIN <<>> = {}
  OBVIOUS
<1>. QED BY <1>1, <1>10, <1>12, <1>13, <1>14, GoOnKeeps

LEMMA MinTakeKeeps == ASSUME RankerInv, MinTake PROVE RankerInv'
<1>1. /\ here # 0 /\ call[here].method = "match" /\ nodes[here].kind \in AnyOf /\ reply = "yes"
      /\ NextArg(IF call[here].doc = NoMatch THEN cache[Arg] ELSE Min({call[here].doc, cache[Arg]}),
                 <<>>)
      /\ UNCHANGED <<returned, ranker>>
  BY DEF MinTake, Running
<1>2. Still
  BY DEF MinTake, Running, Still
<1>. QED BY <1>1, <1>2, TakesOneMore

LEMMA MinMissKeeps == ASSUME RankerInv, MinMiss PROVE RankerInv'
<1>1. /\ here # 0 /\ call[here].method = "match" /\ nodes[here].kind \in AnyOf /\ reply = "no"
      /\ NextArg(call[here].doc, <<>>) /\ UNCHANGED <<returned, ranker>>
  BY DEF MinMiss, Running
<1>2. Still
  BY DEF MinMiss, Running, Still
<1>. QED BY <1>1, <1>2, TakesOneMore

LEMMA MinEndKeeps == ASSUME RankerInv, MinEnd PROVE RankerInv'
<1> SUFFICES ASSUME NEW h, h = here PROVE RankerInv'
  OBVIOUS
<1>1. /\ h # 0 /\ call[h].method = "match" /\ nodes[h].kind \in AnyOf /\ ~ArgsLeft
      /\ UNCHANGED <<nodes, retrievalModel, at, returned, hits, ranker>>
  BY DEF MinEnd, Running
<1>2. /\ RankerTypeOK /\ h \in DOMAIN nodes /\ Frame(h) /\ returned \in Int
      /\ DOMAIN ArgsOf(h) = 1..(call[h].arg - 1)
  <2>1. /\ RankerTypeOK /\ h \in DOMAIN nodes /\ Frame(h) /\ returned \in Int
        /\ DOMAIN ArgsOf(h) = 1..Len(ArgsOf(h)) /\ Len(ArgsOf(h)) \in Nat
        /\ call[h].arg \in Nat /\ call[h].arg <= Len(ArgsOf(h)) + 1 /\ call[h].arg >= 1
        /\ call[h].arg \notin DOMAIN ArgsOf(h)
    BY <1>1, InControl
  <2>2. call[h].arg = Len(ArgsOf(h)) + 1
    BY <2>1
  <2>. QED BY <2>1, <2>2
<1>3. \A d : d \in Reach[h] <=> \E i \in DOMAIN ArgsOf(h) : d \in Reach[ArgsOf(h)[i]]
  BY <1>1, <1>2, ReachByKind
<1>4. nodes[h].kind # "and"
  BY <1>1 DEF AnyOf
<1>5. CASE call[h].doc = NoMatch /\ Return("no") /\ cache' = cache
  <2>1. \A e : e \notin Reach[h]
    BY <1>1, <1>2, <1>3, <1>5 DEF Frame, TakesMin
  <2>2. Still
    BY <1>1, <1>5 DEF Still
  <2>. QED BY <1>1, <1>2, <1>5, <2>1, <2>2, AnswerKeeps
<1>6. CASE call[h].doc # NoMatch /\ SetMatchCache(call[h].doc) /\ Return("yes")
  <2>1. call[h].doc \in Reach[h] /\ \A e \in Reach[h] : call[h].doc <= e
    BY <1>1, <1>2, <1>3, <1>6 DEF Frame, TakesMin
  <2>. QED BY <1>1, <1>4, <1>6, <2>1, YesKeeps
<1>. QED BY <1>1, <1>5, <1>6 DEF MinEnd

-----------------------------------------------------------------------------
(* The actions that score.                                                   *)
LEMMA ReachIsMatched ==
    ASSUME RankerTypeOK
    PROVE  \A n \in DOMAIN nodes : \A e \in Reach[n] : e \in MatchesOf(nodes)[n]
<1> DEFINE M == MatchesOf(nodes)
           S == {n \in DOMAIN nodes : \A e \in Reach[n] : e \in M[n]}
           ones == [n \in DOMAIN nodes |-> 1]
<1>0. IsTree(nodes) /\ M = MatchesFrom(nodes, ones)
  BY StateFacts DEF MatchesOf
<1>1. ASSUME NEW n \in DOMAIN nodes, \A i \in DOMAIN nodes[n].args : nodes[n].args[i] \in S
      PROVE  n \in S
  <2>1. CASE nodes[n].kind = "score"
    <3> DEFINE l == nodes[n].list
    <3>1. Reach[n] = {l[k].doc : k \in at[n]..Len(l)}
      BY <1>0, <2>1, MatchesByKind DEF Reach
    <3>2. M[n] = {l[k].doc : k \in ones[n]..Len(l)}
      BY <1>0, <2>1, MatchesByKind
    <3>3. at[n] \in Nat \ {0} /\ ones[n] = 1 /\ Len(l) \in Nat
      BY <1>0, TreeFacts DEF RankerTypeOK
    <3>4. \A k \in at[n]..Len(l) : k \in ones[n]..Len(l)
      BY <3>3
    <3> HIDE DEF l, M, ones
    <3>. QED BY <3>1, <3>2, <3>4
  <2>2. CASE nodes[n].kind = "and"
    <3>1. \A e : e \in Reach[n] => \A i \in DOMAIN nodes[n].args : e \in Reach[nodes[n].args[i]]
      BY <2>2, ReachByKind DEF ArgsOf
    <3>2. \A e : (\A i \in DOMAIN nodes[n].args : e \in M[nodes[n].args[i]]) => e \in M[n]
      BY <1>0, <2>2, MatchesByKind
    <3> HIDE DEF M
    <3>. QED BY <1>1, <3>1, <3>2
  <2>3. CASE nodes[n].kind \in AnyOf
    <3>1. \A e : e \in Reach[n] => \E i \in DOMAIN nodes[n].args : e \in Reach[nodes[n].args[i]]
      BY <2>3, ReachByKind DEF ArgsOf
    <3>2. \A e : (\E i \in DOMAIN nodes[n].args : e \in M[nodes[n].args[i]]) => e \in M[n]
      BY <1>0, <2>3, MatchesByKind
    <3> HIDE DEF M
    <3>. QED BY <1>1, <3>1, <3>2
  <2>. QED BY <2>1, <2>2, <2>3, StateFacts DEF Sops, AnyOf
<1>2. DOMAIN nodes \subseteq S
  <2> HIDE DEF S
  <2>. QED BY <1>0, <1>1, TreeInduction
<1>. QED BY <1>2

\* An operator that scores has a match, the first that is left, and deserves a
\* number for it.
LEMMA ScoringFacts ==
    ASSUME RankerInv, here # 0, NEW h, h = here, call[h].method = "score"
    PROVE  /\ cache[h] # NoMatch /\ cache[h] \in Reach[h] /\ \A e \in Reach[h] : cache[h] <= e
           /\ cache[h] \in MatchesOf(nodes)[h]
           /\ ScoresOf(nodes, retrievalModel, cache[h])[h] \in Int
           /\ nodes[h].kind = "and" => \A i \in DOMAIN ArgsOf(h) : cache[ArgsOf(h)[i]] = cache[h]
           /\ call[h].parts =
                 [j \in {k \in 1..(call[h].arg - 1) : cache[h] \in MatchesOf(nodes)[ArgsOf(h)[k]]} |->
                     ScoresOf(nodes, retrievalModel, cache[h])[ArgsOf(h)[j]]]
<1>1. RankerTypeOK /\ IsTree(nodes) /\ h \in DOMAIN nodes /\ Frame(h) /\ ranker \in {"match", "score"}
  BY InControl
<1>2. /\ cache[h] # NoMatch
      /\ call[h].parts =
            [j \in {k \in 1..(call[h].arg - 1) : cache[h] \in MatchesOf(nodes)[ArgsOf(h)[k]]} |->
                ScoresOf(nodes, retrievalModel, cache[h])[ArgsOf(h)[j]]]
  BY <1>1 DEF Frame, Scores
<1>3. cache[h] \in Reach[h] /\ \A e \in Reach[h] : cache[h] <= e
  BY <1>1, <1>2 DEF RankerInv, Fresh
<1>4. cache[h] \in MatchesOf(nodes)[h]
  BY <1>1, <1>3, ReachIsMatched
<1>5. ScoresOf(nodes, retrievalModel, cache[h])[h] \in Int
  BY <1>1, <1>4, ScoresAreNumbers
<1>6. nodes[h].kind = "and" => \A i \in DOMAIN ArgsOf(h) : cache[ArgsOf(h)[i]] = cache[h]
  BY <1>1, <1>2 DEF RankerInv, Aligned
<1>. QED BY <1>2, <1>3, <1>4, <1>5, <1>6

LEMMA RaiseKeeps == ASSUME RankerInv, Raise PROVE RankerInv'
<1>1. /\ ranker' = "raised" /\ here' = 0 /\ reply' = "none" /\ call' = call /\ returned' = returned
      /\ nodes' = nodes
  BY DEF Raise, Running
<1>2. Still
  BY DEF Raise, Running, Still
<1>3. Fresh' /\ Kept' /\ Found'
  BY <1>1, <1>2, StillKeeps DEF RankerInv
<1>4. RankerTypeOK'
  <2>1. CallsTyped'
    BY <1>1 DEF RankerInv, RankerTypeOK, CallsTyped, ArgsOf
  <2>. QED BY <1>1, <1>2, <2>1, TypesStay DEF RankerInv, RankerTypeOK, Still
<1>5. FramesHold'
  <2>1. \A n \in DOMAIN nodes : n \in Nat /\ n # 0
    BY StateFacts DEF RankerInv
  <2>. QED BY <1>1, <2>1 DEF FramesHold, Active, Under
<1>6. Control' /\ RepliesHold'
  BY <1>1 DEF Control, RepliesHold
<1>7. Aligned'
  BY <1>1 DEF Aligned
<1>. QED BY <1>3, <1>4, <1>5, <1>6, <1>7 DEF RankerInv

LEMMA ScoreUnrankedKeeps == ASSUME RankerInv, ScoreUnranked PROVE RankerInv'
<1>1. /\ here # 0 /\ call[here].method = "score" /\ retrievalModel = "UnrankedBoolean"
      /\ returned' = 1 /\ Return("score") /\ ranker' = ranker
  <2>1. here # 0 /\ call[here].method = "score"
    BY DEF ScoreUnranked, Scoring, Running
  <2>2. HasMatchCache
    BY <2>1, ScoringFacts DEF HasMatchCache
  <2>. QED BY <2>1, <2>2 DEF ScoreUnranked, Scoring, Running
<1>2. Still
  BY DEF ScoreUnranked, Scoring, Running, Still
<1>3. here \in DOMAIN nodes /\ IsTree(nodes)
  BY <1>1, InControl
<1>4. ScoresOf(nodes, retrievalModel, cache[here])[here] = 1
  <2>1. \A d, f, n : ScoredBy(nodes, "UnrankedBoolean", d, f, n) = 1
    BY DEF ScoredBy
  <2>. QED BY <1>1, <1>3, <2>1, ScoresByKind
<1>. QED BY <1>1, <1>2, <1>4, AnswerKeeps

LEMMA ScoreLeafKeeps == ASSUME RankerInv, ScoreLeaf PROVE RankerInv'
<1> SUFFICES ASSUME NEW h, h = here PROVE RankerInv'
  OBVIOUS
<1> DEFINE l == nodes[h].list
           d == cache[h]
<1>1. /\ h # 0 /\ call[h].method = "score" /\ nodes[h].kind = "score"
      /\ retrievalModel # "UnrankedBoolean"
      /\ returned' = ScorePosting(l, at[h], retrievalModel) /\ Return("score") /\ ranker' = ranker
  <2>1. here # 0 /\ call[here].method = "score"
    BY DEF ScoreLeaf, Scoring, Running
  <2>2. HasMatchCache
    BY <2>1, ScoringFacts DEF HasMatchCache
  <2>. QED BY <2>1, <2>2 DEF ScoreLeaf, Scoring, Running, List
<1>2. Still
  BY DEF ScoreLeaf, Scoring, Running, Still
<1>3. h \in DOMAIN nodes /\ IsTree(nodes) /\ AreIterators(nodes, at) /\ h \in 1..Len(nodes)
  BY <1>1, InControl, TreeFacts
<1>4. d \in Reach[h] /\ (\A e \in Reach[h] : d <= e) /\ ScoresOf(nodes, retrievalModel, d)[h] \in Int
  BY <1>1, ScoringFacts
<1>5. IsInvertedList(l) /\ Len(l) \in Nat /\ at[h] \in 1..(Len(l) + 1)
  BY <1>3, TreeFacts DEF AreIterators
<1>6. at[h] <= Len(l) /\ at[h] \in DOMAIN l /\ l[at[h]].doc \in Reach[h] /\ l[at[h]].doc <= d
  BY <1>1, <1>3, <1>4, <1>5, LeafFacts DEF Reach
<1>7. l[at[h]].doc = d
  <2>1. l[at[h]].doc \in Nat /\ d \in Nat
    BY <1>1, <1>3, <1>4, <1>6, InControl, StateFacts
  <2>. QED BY <1>4, <1>6, <2>1
<1>8. \A j \in DOMAIN l : l[j].doc = d => j = at[h]
  <2>1. \A j \in DOMAIN l : j \in 1..Len(l) /\ l[j].doc \in Int
    BY <1>5, PostingFacts
  <2>2. \A j, k \in DOMAIN l : j < k => l[j].doc < l[k].doc
    BY <1>5 DEF IsInvertedList
  <2> HIDE DEF l, d
  <2>. QED BY <1>5, <1>6, <1>7, <2>1, <2>2
<1>9. (CHOOSE k \in DOMAIN l : l[k].doc = d) = at[h]
  <2> HIDE DEF l, d
  <2>. QED BY <1>6, <1>7, <1>8
<1>10. ScoresOf(nodes, retrievalModel, d)[h] = ScorePosting(l, at[h], retrievalModel)
  <2>1. ScoresOf(nodes, retrievalModel, d)[h] =
           ScoredBy(nodes, retrievalModel, d, ScoresOf(nodes, retrievalModel, d), h)
    BY <1>3, ScoresByKind
  <2>2. \A f : ScoredBy(nodes, retrievalModel, d, f, h) =
                  ScorePosting(l, CHOOSE k \in DOMAIN l : l[k].doc = d, retrievalModel)
    BY <1>1 DEF ScoredBy
  <2>. QED BY <1>9, <2>1, <2>2
<1>. QED BY <1>1, <1>2, <1>4, <1>10, AnswerKeeps

LEMMA ScoreAskKeeps == ASSUME RankerInv, ScoreAsk PROVE RankerInv'
<1>1. /\ here # 0 /\ call[here].method = "score" /\ nodes[here].kind \in AnyOf
      /\ ArgsLeft /\ Enter(Arg, "match") /\ UNCHANGED <<returned, ranker>>
  BY DEF ScoreAsk, Scoring, Running
<1>2. Still
  BY DEF ScoreAsk, Scoring, Running, Still
<1>3. call[here].arg \in DOMAIN ArgsOf(here)
  BY <1>1, InControl
<1>. QED BY <1>1, <1>2, <1>3, AskKeeps

LEMMA ScoreVisitKeeps == ASSUME RankerInv, ScoreVisit PROVE RankerInv'
<1>1. /\ here # 0 /\ call[here].method = "score" /\ ArgsLeft /\ cache[Arg] = cache[here]
      /\ Enter(Arg, "score") /\ UNCHANGED <<returned, ranker>>
  BY DEF ScoreVisit, Scoring, Running, Present, Asked
<1>2. Still
  BY DEF ScoreVisit, Scoring, Running, Still
<1>3. call[here].arg \in DOMAIN ArgsOf(here)
  BY <1>1, InControl
<1>4. cache[here] # NoMatch
  BY <1>1, ScoringFacts
<1>. QED BY <1>1, <1>2, <1>3, <1>4, AskKeeps

\* One more argument is visited, or need not be.
LEMMA VisitsOneMore ==
    ASSUME RankerInv, here # 0, NEW h, h = here, call[h].method = "score",
           call[h].arg \in DOMAIN ArgsOf(h),
           NEW parts, NextArg(NoMatch, parts), Still, UNCHANGED <<returned, ranker>>,
           parts = [j \in {k \in 1..call[h].arg : cache[h] \in MatchesOf(nodes)[ArgsOf(h)[k]]} |->
                      ScoresOf(nodes, retrievalModel, cache[h])[ArgsOf(h)[j]]]
    PROVE  RankerInv'
<1>1. /\ RankerTypeOK /\ IsTree(nodes) /\ h \in DOMAIN nodes /\ Frame(h) /\ cache[h] # NoMatch
      /\ call[h].arg \in Nat /\ DOMAIN ArgsOf(h) = 1..Len(ArgsOf(h)) /\ Len(ArgsOf(h)) \in Nat
  BY InControl, ScoringFacts
<1>2. /\ call'[h].method = "score" /\ call'[h].arg = call[h].arg + 1 /\ call'[h].parts = parts
      /\ nodes' = nodes /\ retrievalModel' = retrievalModel /\ cache' = cache
      /\ ArgsOf(h)' = ArgsOf(h)
  BY <1>1 DEF NextArg, RankerTypeOK, ArgsOf, Still
<1>3. call'[h].arg - 1 = call[h].arg
  BY <1>1, <1>2
<1>4. Scores(h)'
  BY <1>1, <1>2, <1>3 DEF Scores
<1>5. TriesAll(h)' /\ TakesMin(h)'
  BY <1>2 DEF TriesAll, TakesMin
<1>6. \A k \in 1..call[h].arg : k \in DOMAIN ArgsOf(h) /\ ArgsOf(h)[k] \in DOMAIN nodes
  <2>1. \A k \in 1..call[h].arg : k \in DOMAIN ArgsOf(h)
    BY <1>1
  <2>. QED BY <1>1, <2>1, ArgFacts DEF ArgsOf
<1>7. DOMAIN parts \subseteq DOMAIN ArgsOf(h) /\ \A i \in DOMAIN parts : parts[i] \in Int
  BY <1>1, <1>6, ScoresAreNumbers
<1>8. NoMatch \in Nat \cup {NoMatch}
  OBVIOUS
<1>. QED BY <1>4, <1>5, <1>7, <1>8, GoOnKeeps

LEMMA ScoreSkipKeeps == ASSUME RankerInv, ScoreSkip PROVE RankerInv'
<1> SUFFICES ASSUME NEW h, h = here PROVE RankerInv'
  OBVIOUS
<1>1. /\ h # 0 /\ call[h].method = "score" /\ nodes[h].kind \in {"and"} \cup AnyOf
      /\ reply = "no" \/ (Asked /\ ~Present)
      /\ NextArg(NoMatch, call[h].parts) /\ UNCHANGED <<returned, ranker>>
  BY DEF ScoreSkip, Scoring, Running
<1>2. Still
  BY DEF ScoreSkip, Scoring, Running, Still
<1>3. /\ RankerTypeOK /\ h \in DOMAIN nodes /\ call[h].arg \in Nat /\ call[h].arg >= 1
      /\ call[h].arg \in DOMAIN ArgsOf(h) /\ Arg = ArgsOf(h)[call[h].arg]
  BY <1>1, InControl DEF Asked, Arg
<1>4. Arg \in DOMAIN nodes /\ Arg # 1 /\ nodes[Arg].up = h
  BY <1>1, <1>3, ArgOfHere
<1>5. /\ cache[h] \in Reach[h] /\ \A e \in Reach[h] : cache[h] <= e
      /\ nodes[h].kind = "and" => cache[Arg] = cache[h]
  BY <1>1, <1>3, ScoringFacts
<1>6. cache[h] \in MatchesOf(nodes)[Arg] => cache[h] \in Reach[Arg]
  BY <1>4, <1>5 DEF RankerInv, Kept
<1>7. cache[h] \notin MatchesOf(nodes)[Arg]
  <2>1. CASE reply = "no"
    BY <1>1, <1>6, <2>1 DEF RankerInv, RepliesHold, Answerer
  <2>2. CASE reply # "no" /\ nodes[h].kind = "and"
    BY <1>1, <1>5, <2>2 DEF Asked, Present
  <2>3. CASE reply # "no" /\ nodes[h].kind \in AnyOf
    <3>1. reply = "yes" /\ cache[Arg] # cache[h]
      BY <1>1, <2>3 DEF Asked, Present, AnyOf
    <3>2. cache[Arg] \in Reach[Arg] /\ \A e \in Reach[Arg] : cache[Arg] <= e
      BY <1>1, <1>4, <3>1 DEF RankerInv, RepliesHold, Answerer, Fresh
    <3>3. cache[Arg] \in Reach[h]
      BY <1>3, <2>3, <3>2, ReachByKind
    <3>4. cache[h] \in Nat /\ cache[Arg] \in Nat
      BY <1>3, <1>5, <3>3, StateFacts
    <3>. QED BY <1>5, <1>6, <3>1, <3>2, <3>3, <3>4
  <2>. QED BY <1>1, <2>1, <2>2, <2>3
<1>8. {k \in 1..call[h].arg : cache[h] \in MatchesOf(nodes)[ArgsOf(h)[k]]} =
      {k \in 1..(call[h].arg - 1) : cache[h] \in MatchesOf(nodes)[ArgsOf(h)[k]]}
  <2>1. \A k : k \in 1..call[h].arg <=> k \in 1..(call[h].arg - 1) \/ k = call[h].arg
    BY <1>3
  <2>. QED BY <1>3, <1>7, <2>1
<1>9. call[h].parts =
         [j \in {k \in 1..call[h].arg : cache[h] \in MatchesOf(nodes)[ArgsOf(h)[k]]} |->
             ScoresOf(nodes, retrievalModel, cache[h])[ArgsOf(h)[j]]]
  <2>1. call[h].parts =
         [j \in {k \in 1..(call[h].arg - 1) : cache[h] \in MatchesOf(nodes)[ArgsOf(h)[k]]} |->
             ScoresOf(nodes, retrievalModel, cache[h])[ArgsOf(h)[j]]]
    BY <1>1, ScoringFacts
  <2>. QED BY <1>8, <2>1
<1>. QED BY <1>1, <1>2, <1>3, <1>9, VisitsOneMore

LEMMA ScoreAddKeeps == ASSUME RankerInv, ScoreAdd PROVE RankerInv'
<1> SUFFICES ASSUME NEW h, h = here PROVE RankerInv'
  OBVIOUS
<1> DEFINE S(n) == {k \in 1..n : cache[h] \in MatchesOf(nodes)[ArgsOf(h)[k]]}
           score(j) == ScoresOf(nodes, retrievalModel, cache[h])[ArgsOf(h)[j]]
           parts == [j \in DOMAIN call[h].parts \cup {call[h].arg} |->
                        IF j = call[h].arg THEN returned ELSE call[h].parts[j]]
<1>1. /\ h # 0 /\ call[h].method = "score" /\ reply = "score"
      /\ NextArg(NoMatch, parts) /\ UNCHANGED <<returned, ranker>>
  BY DEF ScoreAdd, Scoring, Running
<1>2. Still
  BY DEF ScoreAdd, Scoring, Running, Still
<1>3. /\ RankerTypeOK /\ h \in DOMAIN nodes /\ call[h].arg \in Nat /\ call[h].arg >= 1
      /\ call[h].arg \in DOMAIN ArgsOf(h) /\ Arg = ArgsOf(h)[call[h].arg]
  BY <1>1, InControl DEF Arg
<1>4. Arg \in DOMAIN nodes
  BY <1>1, <1>3, ArgOfHere
<1>5. cache[Arg] = cache[h] /\ returned = score(call[h].arg)
  BY <1>1, <1>3 DEF RankerInv, RepliesHold, Answerer
<1>6. cache[h] # NoMatch
  BY <1>1, ScoringFacts
<1>7. cache[h] \in MatchesOf(nodes)[Arg]
  BY <1>3, <1>4, <1>5, <1>6, ReachIsMatched DEF RankerInv, Fresh
<1>8. call[h].parts = [j \in S(call[h].arg - 1) |-> score(j)]
  BY <1>1, ScoringFacts
<1>9. S(call[h].arg) = S(call[h].arg - 1) \cup {call[h].arg} /\ call[h].arg \notin S(call[h].arg - 1)
  <2>1. \A k : k \in 1..call[h].arg <=> k \in 1..(call[h].arg - 1) \/ k = call[h].arg
    BY <1>3
  <2>2. call[h].arg \notin 1..(call[h].arg - 1)
    BY <1>3
  <2>. QED BY <1>3, <1>7, <2>1, <2>2
<1>10. parts = [j \in S(call[h].arg) |-> score(j)]
  <2> HIDE DEF S, score
  <2>1. DOMAIN call[h].parts = S(call[h].arg - 1) /\ \A j \in S(call[h].arg - 1) : call[h].parts[j] = score(j)
    BY <1>8
  <2>. QED BY <1>5, <1>9, <2>1
<1> HIDE DEF parts
<1>. QED BY <1>1, <1>2, <1>3, <1>10, VisitsOneMore

LEMMA ScoreEndKeeps == ASSUME RankerInv, ScoreEnd PROVE RankerInv'
<1> SUFFICES ASSUME NEW h, h = here PROVE RankerInv'
  OBVIOUS
<1> DEFINE d == cache[h]
           score == ScoresOf(nodes, retrievalModel, d)
<1>1. /\ h # 0 /\ call[h].method = "score" /\ nodes[h].kind \in {"and"} \cup AnyOf /\ ~ArgsLeft
      /\ retrievalModel # "UnrankedBoolean"
      /\ returned' = Combined(nodes[h], call[h].parts) /\ Return("score") /\ ranker' = ranker
  BY DEF ScoreEnd, Scoring, Running
<1>2. Still
  BY DEF ScoreEnd, Scoring, Running, Still
<1>3. /\ RankerTypeOK /\ IsTree(nodes) /\ h \in DOMAIN nodes
      /\ DOMAIN ArgsOf(h) = 1..(call[h].arg - 1)
  <2>1. /\ RankerTypeOK /\ IsTree(nodes) /\ h \in DOMAIN nodes
        /\ DOMAIN ArgsOf(h) = 1..Len(ArgsOf(h)) /\ Len(ArgsOf(h)) \in Nat
        /\ call[h].arg \in Nat /\ call[h].arg <= Len(ArgsOf(h)) + 1 /\ call[h].arg >= 1
        /\ call[h].arg \notin DOMAIN ArgsOf(h)
    BY <1>1, InControl
  <2>2. call[h].arg = Len(ArgsOf(h)) + 1
    BY <2>1
  <2>. QED BY <2>1, <2>2
<1>4. score[h] \in Int
  BY <1>1, ScoringFacts
<1>5. call[h].parts =
         [j \in {k \in 1..(call[h].arg - 1) : d \in MatchesOf(nodes)[ArgsOf(h)[k]]} |->
             score[ArgsOf(h)[j]]]
  BY <1>1, ScoringFacts
<1>6. call[h].parts = [j \in Visited(nodes, d, h) |-> score[nodes[h].args[j]]]
  BY <1>3, <1>5 DEF Visited, ArgsOf
<1>7. score[h] = Combined(nodes[h], call[h].parts)
  <2>1. score[h] = ScoredBy(nodes, retrievalModel, d, score, h)
    BY <1>3, ScoresByKind
  <2>2. nodes[h].kind # "score"
    BY <1>1 DEF AnyOf
  <2>3. \A f : ScoredBy(nodes, retrievalModel, d, f, h) =
                  Combined(nodes[h], [i \in Visited(nodes, d, h) |-> f[nodes[h].args[i]]])
    BY <1>1, <2>2 DEF ScoredBy
  <2> HIDE DEF score
  <2>. QED BY <1>6, <2>1, <2>3
<1>. QED BY <1>1, <1>2, <1>4, <1>7, AnswerKeeps

-----------------------------------------------------------------------------
(* AND moves its arguments, no further than its own matches.                 *)
LEMMA AdvanceKeeps ==
    ASSUME RankerInv, here # 0, NEW h, h = here, call[h].method = "match", nodes[h].kind = "and",
           NEW i \in DOMAIN ArgsOf(h), NEW c, c = ArgsOf(h)[i],
           NEW d \in Nat, \A e \in Reach[h] : e >= d,
           AdvanceTo(c, d), UNCHANGED <<nodes, retrievalModel, hits, ranker>>,
           \A n \in DOMAIN nodes : Active(n) /\ call[n].method = "match" =>
                                      Active(n)' /\ call'[n].method = "match"
    PROVE  /\ Touches(Under(nodes, c)) /\ Fresh' /\ Aligned' /\ Kept' /\ Found'
           /\ at' = Advanced(nodes, at, c, d)
           /\ at' \in [DOMAIN nodes -> Nat \ {0}]
           /\ \A n \in DOMAIN nodes : at'[n] <= Len(List(n)) + 1 /\ at[n] <= at'[n]
           /\ cache' \in [DOMAIN nodes -> Nat \cup {NoMatch}]
           /\ \A e \in Reach'[c] : e >= d
           /\ c \in DOMAIN nodes /\ h \notin Under(nodes, c) /\ c # 1
           /\ c \in Under(nodes, h) /\ Under(nodes, c) \subseteq Under(nodes, h)
           /\ cache'[1] = cache[1]
<1>1. /\ RankerTypeOK /\ IsTree(nodes) /\ AreIterators(nodes, at) /\ h \in DOMAIN nodes
      /\ ranker \in {"match", "score"} /\ 1 \in DOMAIN nodes
  BY InControl, StateFacts
<1>2. /\ c \in DOMAIN nodes /\ c > h /\ nodes[c].up = h /\ h \notin Under(nodes, c)
      /\ c \in Under(nodes, h) /\ h \in Nat /\ h # 0 /\ c \in Nat /\ c \in Under(nodes, c)
  BY <1>1, ArgFacts, StateFacts DEF ArgsOf
<1>3. c # 1 /\ 1 \notin Under(nodes, c) /\ Under(nodes, c) \subseteq Under(nodes, h)
  <2>1. c > 1
    BY <1>2
  <2>2. 1 \notin Under(nodes, c)
    BY <1>2, <2>1 DEF Under
  <2>. QED BY <1>1, <1>2, <2>1, <2>2, BelowFacts
<1>4. at' = Advanced(nodes, at, c, d)
  BY DEF AdvanceTo, Advanced, Below, Under, List
<1>5. /\ AreIterators(nodes, at')
      /\ \A n \in DOMAIN nodes : at[n] <= at'[n]
  <2>1. /\ AreIterators(nodes, Advanced(nodes, at, c, d))
        /\ \A n \in DOMAIN nodes : at[n] <= Advanced(nodes, at, c, d)[n]
    <3>1. d \in Int
      OBVIOUS
    <3>. QED BY <1>1, <1>2, <3>1, IteratorsStay
  <2>. QED BY <1>4, <2>1
<1>6. Reach' = MatchesFrom(nodes, at')
  BY DEF Reach
<1>7. \A m \in Under(nodes, c) : \A e : e \in Reach'[m] <=> e \in Reach[m] /\ e >= d
  BY <1>1, <1>2, <1>4, <1>6, AdvancedBelow DEF Reach
<1>8. \A m \in DOMAIN nodes \ Under(nodes, c) : \A e : e \in Reach'[m] <=> e \in Reach[m]
  BY <1>1, <1>2, <1>3, <1>4, <1>6, AdvancedBeside DEF Reach
<1>9. /\ \A m \in DOMAIN nodes \ Under(nodes, c) : cache'[m] = cache[m]
      /\ \A m \in Under(nodes, c) : cache'[m] = NoMatch
      /\ cache' \in [DOMAIN nodes -> Nat \cup {NoMatch}]
  <2>1. \A m \in Under(nodes, c) : m \in DOMAIN nodes
    BY <1>1, <1>2, BelowFacts
  <2>2. \A m \in DOMAIN nodes : cache[m] \in Nat \cup {NoMatch}
    BY <1>1, StateFacts
  <2>3. cache' = [m \in DOMAIN nodes |-> IF m \in Under(nodes, c) THEN NoMatch ELSE cache[m]]
    BY DEF AdvanceTo, Below, Under
  <2>. QED BY <2>1, <2>2, <2>3
<1>10. Touches(Under(nodes, c))
  BY <1>7, <1>8, <1>9 DEF Touches
<1>11. Fresh'
  BY <1>8, <1>9 DEF RankerInv, Fresh
<1>12. Kept'
  <2> SUFFICES ASSUME NEW n \in DOMAIN nodes \ {1}, NEW e, e \in Reach'[nodes[n].up],
                      e \in MatchesOf(nodes)[n]
               PROVE  e \in Reach'[n]
    BY DEF Kept
  <2>1. nodes[n].up \in DOMAIN nodes
    BY <1>1, UpFacts
  <2>2. e \in Reach[nodes[n].up]
    BY <1>7, <1>8, <2>1
  <2>3. e \in Reach[n]
    BY <2>2 DEF RankerInv, Kept
  <2>4. CASE n \notin Under(nodes, c)
    BY <1>8, <2>3, <2>4
  <2>5. CASE n = c
    BY <1>2, <1>7, <2>2, <2>3, <2>5
  <2>6. CASE n \in Under(nodes, c) /\ n # c
    <3>1. nodes[n].up \in Under(nodes, c)
      BY <1>1, <1>2, <2>6, BelowFacts
    <3>. QED BY <1>7, <2>3, <2>6, <3>1
  <2>. QED BY <2>4, <2>5, <2>6
<1>13. Found'
  <2>1. \A e : e \in Reach'[1] <=> e \in Reach[1]
    BY <1>1, <1>3, <1>8
  <2>. QED BY <2>1 DEF RankerInv, Found
<1>14. Aligned'
  <2> SUFFICES ASSUME NEW n \in DOMAIN nodes, nodes[n].kind = "and", cache'[n] # NoMatch,
                      ~(Active(n)' /\ call'[n].method = "match"), NEW j \in DOMAIN ArgsOf(n)
               PROVE  cache'[ArgsOf(n)[j]] = cache'[n]
    BY DEF Aligned, ArgsOf
  <2>1. n \notin Under(nodes, c) /\ cache'[n] = cache[n]
    BY <1>9
  <2>2. ~(Active(n) /\ call[n].method = "match")
    OBVIOUS
  <2>3. cache[ArgsOf(n)[j]] = cache[n]
    BY <1>1, <2>1, <2>2 DEF RankerInv, Aligned
  <2>4. ArgsOf(n)[j] \in DOMAIN nodes /\ nodes[ArgsOf(n)[j]].up = n
    BY <1>1, ArgFacts DEF ArgsOf
  <2>5. n # h
    BY <1>1, <2>2, ActiveFacts
  <2>6. ArgsOf(n)[j] \notin Under(nodes, c)
    BY <1>1, <1>2, <2>1, <2>4, <2>5, BelowFacts
  <2>. QED BY <1>9, <2>1, <2>3, <2>4, <2>6
<1>15. \A n \in DOMAIN nodes : at'[n] \in 1..(Len(List(n)) + 1) /\ Len(List(n)) \in Nat
  BY <1>1, <1>5, TreeFacts DEF AreIterators, List
<1>16. at' \in [DOMAIN nodes -> Nat \ {0}] /\ \A n \in DOMAIN nodes : at'[n] <= Len(List(n)) + 1
  <2>1. \A n \in DOMAIN nodes : at'[n] \in Nat \ {0} /\ at'[n] <= Len(List(n)) + 1
    BY <1>15
  <2>2. at' = [n \in DOMAIN nodes |-> at'[n]]
    BY <1>4 DEF Advanced
  <2>. QED BY <2>1, <2>2
<1>. QED BY <1>1, <1>2, <1>3, <1>4, <1>5, <1>7, <1>9, <1>10, <1>11, <1>12, <1>13, <1>14, <1>16

LEMMA AdvanceTypes ==
    ASSUME RankerTypeOK, UNCHANGED <<nodes, retrievalModel, returned, hits, ranker>>,
           at' \in [DOMAIN nodes -> Nat \ {0}],
           \A n \in DOMAIN nodes : at'[n] <= Len(List(n)) + 1,
           cache' \in [DOMAIN nodes -> Nat \cup {NoMatch}], CallsTyped',
           here' \in DOMAIN nodes, reply' = "none"
    PROVE  RankerTypeOK'
  BY DEF RankerTypeOK, CallsTyped, List, ArgsOf

LEMMA AllAskKeeps == ASSUME RankerInv, AllAsk PROVE RankerInv'
<1> SUFFICES ASSUME NEW h, h = here, NEW c, c = Arg PROVE RankerInv'
  OBVIOUS
<1>1. /\ h # 0 /\ call[h].method = "match" /\ nodes[h].kind = "and" /\ reply = "none" /\ ArgsLeft
      /\ Enter(c, "match") /\ UNCHANGED <<nodes, retrievalModel, returned, hits, ranker>>
  BY DEF AllAsk, Running
<1>2. /\ RankerTypeOK /\ IsTree(nodes) /\ h \in DOMAIN nodes /\ Frame(h)
      /\ call[h].arg \in DOMAIN ArgsOf(h) /\ call[h].arg \in Nat
      /\ 1 \in DOMAIN ArgsOf(h) /\ c = ArgsOf(h)[call[h].arg]
      /\ call[h].doc \in Nat \cup {NoMatch} /\ DOMAIN call = DOMAIN nodes
  BY <1>1, InControl DEF Arg, RankerTypeOK
<1>3. CASE call[h].arg = 1 /\ UNCHANGED <<at, cache>>
  <2>1. Still
    BY <1>1, <1>3 DEF Still
  <2>. QED BY <1>1, <1>2, <1>3, <2>1, AskKeeps
<1>4. CASE call[h].arg > 1 /\ AdvanceTo(c, call[h].doc)
  <2> DEFINE d == call[h].doc
  <2>1. /\ d \in Nat /\ d # NoMatch
        /\ \A j \in 1..(call[h].arg - 1) : cache[ArgsOf(h)[j]] = d
    BY <1>1, <1>2, <1>4 DEF Frame, TriesAll
  <2>2. cache[ArgsOf(h)[1]] = d
    BY <1>2, <1>4, <2>1
  <2>3. ArgsOf(h)[1] \in DOMAIN nodes
    BY <1>2, ArgFacts DEF ArgsOf
  <2>4. \A e \in Reach[ArgsOf(h)[1]] : d <= e
    BY <2>1, <2>2, <2>3 DEF RankerInv, Fresh
  <2>5. \A e \in Reach[h] : e \in Reach[ArgsOf(h)[1]]
    BY <1>1, <1>2, ReachByKind
  <2>6. \A e \in Reach[h] : e >= d
    <3>1. \A e \in Reach[h] : e \in Nat
      BY <1>2, StateFacts
    <3>. QED BY <2>1, <2>4, <2>5, <3>1
  <2>7. c \in DOMAIN nodes /\ c \in Under(nodes, h) /\ h \notin Under(nodes, c)
    BY <1>1, <1>2, ArgOfHere
  <2>8. ASSUME NEW n \in DOMAIN nodes, Active(n), call[n].method = "match"
        PROVE  Active(n)' /\ call'[n].method = "match"
    <3>1. c \in Under(nodes, n) /\ n # c
      BY <1>2, <2>7, <2>8, BelowFacts DEF Active
    <3>. QED BY <1>1, <1>2, <2>8, <3>1 DEF Active, Under, Enter
  <2> HIDE DEF d
  <2>9. /\ Touches(Under(nodes, c)) /\ Fresh' /\ Aligned' /\ Kept' /\ Found'
        /\ at' \in [DOMAIN nodes -> Nat \ {0}]
        /\ \A n \in DOMAIN nodes : at'[n] <= Len(List(n)) + 1
        /\ cache' \in [DOMAIN nodes -> Nat \cup {NoMatch}]
        /\ \A e \in Reach'[c] : e >= d
        /\ c # 1 /\ cache'[1] = cache[1]
    BY <1>1, <1>2, <1>4, <2>1, <2>6, <2>8, AdvanceKeeps DEF d
  <2>10. FramesHold'
    BY <1>1, <1>2, <2>9, CallKeepsFrames DEF RankerInv, d
  <2>11. CallsTyped'
    BY <1>1, <1>2, <2>7, EnterTypes
  <2>12. here' = c /\ reply' = "none" /\ call' = [call EXCEPT ![c] = Locals("match")]
    BY <1>1 DEF Enter
  <2>13. RankerTypeOK'
    BY <1>1, <1>2, <2>7, <2>9, <2>11, <2>12, AdvanceTypes
  <2>14. Control'
    <3>1. 1 \in DOMAIN nodes
      BY <1>2, StateFacts
    <3>. QED BY <1>1, <1>2, <2>9, <2>12, <3>1 DEF RankerInv, Control
  <2>15. RepliesHold'
    BY <2>7, <2>12, StateFacts, <1>2 DEF RepliesHold
  <2>. QED BY <2>9, <2>10, <2>13, <2>14, <2>15 DEF RankerInv
<1>. QED BY <1>3, <1>4 DEF AllAsk

LEMMA AllRetryKeeps == ASSUME RankerInv, AllRetry PROVE RankerInv'
<1> SUFFICES ASSUME NEW h, h = here, NEW c, c = ArgsOf(h)[1], NEW d, d = cache[Arg] PROVE RankerInv'
  OBVIOUS
<1>1. /\ h # 0 /\ call[h].method = "match" /\ nodes[h].kind = "and" /\ reply = "yes"
      /\ AdvanceTo(c, d) /\ call' = [call EXCEPT ![h] = Locals("match")]
      /\ reply' = "none" /\ here' = h
      /\ UNCHANGED <<nodes, retrievalModel, returned, hits, ranker>>
  BY DEF AllRetry, Running
<1>2. /\ RankerTypeOK /\ IsTree(nodes) /\ h \in DOMAIN nodes
      /\ call[h].arg \in DOMAIN ArgsOf(h) /\ 1 \in DOMAIN ArgsOf(h)
      /\ Arg = ArgsOf(h)[call[h].arg] /\ DOMAIN call = DOMAIN nodes
  BY <1>1, InControl DEF Arg, RankerTypeOK
<1>3. Arg \in DOMAIN nodes
  BY <1>1, <1>2, ArgOfHere
<1>4. d \in Nat /\ \A e \in Reach[Arg] : d <= e
  <2>1. d # NoMatch
    BY <1>1 DEF RankerInv, RepliesHold, Answerer
  <2>. QED BY <1>2, <1>3, <2>1, StateFacts DEF RankerInv, Fresh
<1>5. \A e \in Reach[h] : e >= d
  <2>1. \A e \in Reach[h] : e \in Nat /\ e \in Reach[Arg]
    BY <1>1, <1>2, StateFacts, ReachByKind
  <2>. QED BY <1>4, <2>1
<1>6. /\ call'[h] = Locals("match")
      /\ \A n \in DOMAIN nodes : n # h => call'[n] = call[n]
  BY <1>1, <1>2
<1>7. ASSUME NEW n \in DOMAIN nodes, Active(n), call[n].method = "match"
      PROVE  Active(n)' /\ call'[n].method = "match"
  BY <1>1, <1>6, <1>7 DEF Active, Under, Locals
<1>8. /\ Touches(Under(nodes, c)) /\ Fresh' /\ Aligned' /\ Kept' /\ Found'
      /\ at' \in [DOMAIN nodes -> Nat \ {0}]
      /\ \A n \in DOMAIN nodes : at'[n] <= Len(List(n)) + 1
      /\ cache' \in [DOMAIN nodes -> Nat \cup {NoMatch}]
      /\ c \in DOMAIN nodes /\ h \notin Under(nodes, c) /\ Under(nodes, c) \subseteq Under(nodes, h)
      /\ cache'[1] = cache[1]
  BY <1>1, <1>2, <1>4, <1>5, <1>7, AdvanceKeeps
<1>9. TriesAll(h)' /\ TakesMin(h)' /\ Scores(h)'
  BY <1>1, <1>6 DEF TriesAll, TakesMin, Scores, Locals, AnyOf
<1>10. Locals("match").method = call[h].method
  BY <1>1 DEF Locals
<1>11. FramesHold'
  BY <1>1, <1>2, <1>8, <1>9, <1>10, StepKeepsFrames DEF RankerInv
<1>12. CallsTyped'
  <2>1. Len(ArgsOf(h)) \in Nat
    BY <1>1, InControl
  <2>2. 1 \in 1..(Len(ArgsOf(h)) + 1) /\ DOMAIN <<>> = {}
    BY <2>1
  <2>. QED BY <1>1, <1>2, <2>2, CallTypes DEF Locals
<1>13. RankerTypeOK'
  BY <1>1, <1>2, <1>8, <1>12, AdvanceTypes
<1>14. Control'
  <2>1. 1 \in DOMAIN nodes
    BY <1>2, StateFacts
  <2>2. call'[1].method = call[1].method
    BY <1>6, <1>10, <2>1
  <2>. QED BY <1>1, <1>8, <2>2 DEF RankerInv, Control
<1>15. RepliesHold'
  BY <1>1, <1>2, StateFacts DEF RepliesHold
<1>. QED BY <1>8, <1>11, <1>13, <1>14, <1>15 DEF RankerInv

-----------------------------------------------------------------------------
(* The ranker's own actions.                                                 *)
LEMMA AtTheTop ==
    ASSUME RankerInv, here = 0, ranker \in {"match", "score"}
    PROVE  /\ RankerTypeOK /\ IsTree(nodes) /\ AreIterators(nodes, at) /\ 1 \in DOMAIN nodes
           /\ DOMAIN call = DOMAIN nodes
           /\ \A n \in DOMAIN nodes : 1 \in Under(nodes, n) <=> n = 1
           /\ \A n \in DOMAIN nodes : n \in Under(nodes, 1)
           /\ \A n \in DOMAIN nodes : ~Active(n)
           /\ Answerer = 1
<1>1. /\ RankerTypeOK /\ IsTree(nodes) /\ AreIterators(nodes, at) /\ 1 \in DOMAIN nodes
      /\ DOMAIN call = DOMAIN nodes
  BY StateFacts DEF RankerInv, RankerTypeOK
<1>2. /\ DOMAIN nodes = 1..Len(nodes) /\ Len(nodes) \in Nat \ {0} /\ nodes[1].last = Len(nodes)
      /\ \A n \in DOMAIN nodes : nodes[n].last \in n..Len(nodes)
  BY <1>1, TreeFacts
<1>3. \A n \in DOMAIN nodes : 1 \in Under(nodes, n) <=> n = 1
  BY <1>2 DEF Under
<1>4. \A n \in DOMAIN nodes : n \in Under(nodes, 1) /\ ~Active(n)
  BY <1>2 DEF Under, Active
<1>. QED BY <1>1, <1>3, <1>4 DEF Answerer

\* The root is called.
LEMMA RankCallKeeps ==
    ASSUME RankerInv, here = 0, ranker \in {"match", "score"}, NEW method \in {"match", "score"},
           Enter(1, method), Still, UNCHANGED returned, ranker' = method,
           method = "score" => cache[1] # NoMatch
    PROVE  RankerInv'
<1>1. Fresh' /\ Kept' /\ Found'
  BY StillKeeps DEF RankerInv
<1>2. cache' = cache /\ nodes' = nodes /\ retrievalModel' = retrievalModel /\ at' = at /\ hits' = hits
  BY DEF Still
<1>3. /\ here' = 1 /\ reply' = "none" /\ call' = [call EXCEPT ![1] = Locals(method)]
      /\ call'[1] = Locals(method) /\ Locals(method).method = method
  BY AtTheTop DEF Enter, Locals
<1>4. FramesHold'
  <2>1. Frame(1)'
    BY <1>2, <1>3, NewFrame
  <2>2. \A n \in DOMAIN nodes : Active(n)' => n = 1
    BY <1>2, <1>3, AtTheTop DEF Active, Under
  <2>3. \A n : n = 1 => Frame(n)' <=> Frame(1)'
    OBVIOUS
  <2>. QED BY <1>2, <2>1, <2>2 DEF FramesHold
<1>5. RankerTypeOK'
  <2>1. CallsTyped'
    BY <1>2, AtTheTop, EnterTypes
  <2>. QED BY <1>2, <1>3, <2>1, AtTheTop, TypesStay DEF RankerTypeOK
<1>6. Control'
  BY <1>2, <1>3 DEF Control
<1>7. RepliesHold'
  BY <1>3 DEF RepliesHold
<1>8. Aligned'
  BY AtTheTop, StillAligned DEF RankerInv
<1>. QED BY <1>1, <1>4, <1>5, <1>6, <1>7, <1>8 DEF RankerInv

LEMMA RankMatchKeeps == ASSUME RankerInv, RankMatch PROVE RankerInv'
<1>1. /\ here = 0 /\ ranker = "match" /\ Enter(1, "match") /\ UNCHANGED returned
      /\ ranker' = "match"
  BY DEF RankMatch, Ranking
<1>2. Still
  BY DEF RankMatch, Ranking, Still
<1>. QED BY <1>1, <1>2, RankCallKeeps

LEMMA RankScoreKeeps == ASSUME RankerInv, RankScore PROVE RankerInv'
<1>1. /\ here = 0 /\ ranker = "match" /\ reply = "yes" /\ Enter(1, "score") /\ UNCHANGED returned
      /\ ranker' = "score"
  BY DEF RankScore, Ranking
<1>2. Still
  BY DEF RankScore, Ranking, Still
<1>3. cache[1] # NoMatch
  BY <1>1 DEF RankerInv, RepliesHold, Answerer
<1>. QED BY <1>1, <1>2, <1>3, RankCallKeeps

LEMMA RankEndKeeps == ASSUME RankerInv, RankEnd PROVE RankerInv'
<1>1. /\ here = 0 /\ ranker = "match" /\ reply = "no" /\ ranker' = "done" /\ reply' = "none"
      /\ here' = here /\ call' = call /\ returned' = returned /\ nodes' = nodes
  BY DEF RankEnd, Ranking
<1>2. Still
  BY DEF RankEnd, Ranking, Still
<1>3. \A e : e \notin Reach[1]
  BY <1>1 DEF RankerInv, RepliesHold, Answerer
<1>4. Fresh' /\ Kept' /\ Found'
  BY <1>2, <1>3, StillKeeps DEF RankerInv
<1>5. RankerTypeOK'
  <2>1. CallsTyped'
    BY <1>1 DEF RankerInv, RankerTypeOK, CallsTyped, ArgsOf
  <2>. QED BY <1>1, <1>2, <2>1, TypesStay DEF RankerInv, RankerTypeOK, Still
<1>6. FramesHold'
  BY <1>1, AtTheTop DEF FramesHold, Active, Under
<1>7. Control' /\ RepliesHold' /\ Aligned'
  BY <1>1 DEF Control, RepliesHold, Aligned
<1>. QED BY <1>4, <1>5, <1>6, <1>7 DEF RankerInv

LEMMA RankAddKeeps == ASSUME RankerInv, RankAdd PROVE RankerInv'
<1> SUFFICES ASSUME NEW d, d = cache[1] PROVE RankerInv'
  OBVIOUS
<1> DEFINE hit == [doc |-> d, score |-> returned]
<1>1. /\ here = 0 /\ ranker = "score" /\ reply = "score" /\ AdvanceTo(1, d + 1)
      /\ hits' = Append(hits, hit) /\ ranker' = "match" /\ reply' = "none" /\ here' = 0
      /\ UNCHANGED <<nodes, retrievalModel, returned, call>>
  BY DEF RankAdd, Ranking, AdvancePast
<1>2. /\ RankerTypeOK /\ IsTree(nodes) /\ AreIterators(nodes, at) /\ 1 \in DOMAIN nodes
      /\ \A n \in DOMAIN nodes : n \in Under(nodes, 1)
  BY <1>1, AtTheTop
<1>3. /\ d \in Nat /\ d \in Reach[1] /\ (\A e \in Reach[1] : d <= e)
      /\ returned = ScoresOf(nodes, retrievalModel, d)[1] /\ returned \in Int
  <2>1. d # NoMatch /\ returned = ScoresOf(nodes, retrievalModel, cache[Answerer])[Answerer]
    BY <1>1 DEF RankerInv, Control, RepliesHold
  <2>. QED BY <1>1, <1>2, <2>1, AtTheTop, StateFacts DEF RankerInv, Fresh, RankerTypeOK
<1>4. d + 1 \in Int
  BY <1>3
<1>5. at' = Advanced(nodes, at, 1, d + 1)
  BY <1>1 DEF AdvanceTo, Advanced, Below, Under, List
<1>6. AreIterators(nodes, at')
  <2>1. AreIterators(nodes, Advanced(nodes, at, 1, d + 1))
    BY <1>2, <1>4, IteratorsStay
  <2>. QED BY <1>5, <2>1
<1>7. \A m \in DOMAIN nodes : \A e : e \in Reach'[m] <=> e \in Reach[m] /\ e >= d + 1
  <2>1. Reach' = MatchesFrom(nodes, Advanced(nodes, at, 1, d + 1))
    BY <1>1, <1>5 DEF Reach
  <2>. QED BY <1>2, <1>4, <2>1, AdvancedBelow DEF Reach
<1>8. cache' = [m \in DOMAIN nodes |-> NoMatch]
  BY <1>1, <1>2 DEF AdvanceTo, Below, Under
<1>9. Fresh' /\ Aligned'
  BY <1>1, <1>8 DEF Fresh, Aligned
<1>10. Kept'
  <2>1. \A n \in DOMAIN nodes \ {1} : nodes[n].up \in DOMAIN nodes
    BY <1>2, UpFacts
  <2>. QED BY <1>1, <1>7, <2>1 DEF RankerInv, Kept
<1>11. hits \in Seq([doc : Nat, score : Int]) /\ hit \in [doc : Nat, score : Int]
  BY <1>2, <1>3 DEF RankerTypeOK
<1> HIDE DEF hit
<1>12. /\ Len(hits) \in Nat /\ DOMAIN hits = 1..Len(hits)
       /\ hits' \in Seq([doc : Nat, score : Int])
       /\ DOMAIN hits' = 1..(Len(hits) + 1)
       /\ hits'[Len(hits) + 1] = hit
       /\ \A k \in DOMAIN hits : hits'[k] = hits[k] /\ hits[k].doc \in Nat
  <2> DEFINE Hit == [doc : Nat, score : Int]
  <2>1. hits \in Seq(Hit) /\ hit \in Hit
    BY <1>11
  <2>2. \A x \in Hit : x.doc \in Nat
    OBVIOUS
  <2> HIDE DEF Hit
  <2>3. Len(hits) \in Nat /\ DOMAIN hits = 1..Len(hits) /\ \A k \in DOMAIN hits : hits[k] \in Hit
    BY <2>1
  <2>4. hits' \in Seq(Hit) /\ Len(hits') = Len(hits) + 1 /\ DOMAIN hits' = 1..Len(hits')
    BY <1>1, <2>1
  <2>5. hits'[Len(hits) + 1] = hit /\ \A k \in DOMAIN hits : hits'[k] = hits[k]
    BY <1>1, <2>1, <2>3
  <2>. QED BY <2>2, <2>3, <2>4, <2>5 DEF Hit
<1>13. hit.doc = d /\ hit.score = returned
  BY DEF hit
<1>14. \A k \in DOMAIN hits : hits[k].doc < d
  BY <1>3 DEF RankerInv, Found
<1>15. Found'
  <2>1. ASSUME NEW e
        PROVE  e \in MatchesOf(nodes)[1] <=>
                  e \in Reach'[1] \/ \E k \in DOMAIN hits' : hits'[k].doc = e
    <3>1. e \in MatchesOf(nodes)[1] <=> e \in Reach[1] \/ \E k \in DOMAIN hits : hits[k].doc = e
      BY DEF RankerInv, Found
    <3>2. e \in Reach[1] <=> e \in Reach'[1] \/ e = d
      <4>1. e \in Reach[1] => e \in Nat /\ d <= e
        BY <1>2, <1>3, StateFacts
      <4>. QED BY <1>2, <1>3, <1>7, <4>1
    <3>3. (\E k \in DOMAIN hits' : hits'[k].doc = e) <=> (\E k \in DOMAIN hits : hits[k].doc = e) \/ e = d
      <4>1. \A k : k \in DOMAIN hits' <=> k \in DOMAIN hits \/ k = Len(hits) + 1
        BY <1>12
      <4>. QED BY <1>12, <1>13, <4>1
    <3>. QED BY <3>1, <3>2, <3>3
  <2>2. \A k \in DOMAIN hits' : k \in DOMAIN hits \/ k = Len(hits) + 1
    BY <1>12
  <2>3. ASSUME NEW k \in DOMAIN hits', NEW e \in Reach'[1] PROVE hits'[k].doc < e
    <3>1. e \in Nat /\ e >= d + 1
      BY <1>2, <1>7, <2>3, StateFacts
    <3>2. CASE k = Len(hits) + 1
      <4>1. hits'[k].doc = d
        BY <1>12, <1>13, <3>2
      <4>. QED BY <1>3, <3>1, <4>1
    <3>3. CASE k \in DOMAIN hits
      <4>1. hits'[k] = hits[k] /\ hits[k].doc \in Nat /\ hits[k].doc < d
        BY <1>12, <1>14, <3>3
      <4>. QED BY <1>3, <3>1, <4>1
    <3>. QED BY <2>2, <3>2, <3>3
  <2>4. \A k \in DOMAIN hits' :
           hits'[k].score = ScoresOf(nodes, retrievalModel, hits'[k].doc)[1]
    BY <1>3, <1>12, <1>13, <2>2 DEF RankerInv, Found
  <2>5. Ascending([k \in DOMAIN hits' |-> hits'[k].doc])
    <3> DEFINE old == [k \in DOMAIN hits |-> hits[k].doc]
               new == [k \in DOMAIN hits' |-> hits'[k].doc]
    <3>1. \A i, j \in DOMAIN hits : i < j => hits[i].doc < hits[j].doc
      <4>1. Ascending(old)
        BY DEF RankerInv, Found
      <4>. QED BY <4>1 DEF Ascending
    <3>2. ASSUME NEW i \in DOMAIN hits', NEW j \in DOMAIN hits', i < j PROVE new[i] < new[j]
      <4>1. CASE j \in DOMAIN hits
        <5>1. i \in DOMAIN hits
          BY <1>12, <3>2, <4>1
        <5>. QED BY <1>12, <3>1, <3>2, <4>1, <5>1
      <4>2. CASE j = Len(hits) + 1
        <5>1. i \in DOMAIN hits
          BY <1>12, <3>2, <4>2
        <5>. QED BY <1>12, <1>13, <1>14, <4>2, <5>1
      <4>. QED BY <2>2, <4>1, <4>2
    <3>3. DOMAIN new = DOMAIN hits'
      OBVIOUS
    <3> HIDE DEF new
    <3>4. Ascending(new)
      BY <3>2, <3>3 DEF Ascending
    <3>. QED BY <3>4 DEF new
  <2>. QED BY <1>1, <2>1, <2>3, <2>4, <2>5 DEF Found
<1>16. RankerTypeOK'
  <2>1. CallsTyped'
    BY <1>1, <1>2 DEF RankerTypeOK, CallsTyped, ArgsOf
  <2>2. \A n \in DOMAIN nodes : at'[n] \in 1..(Len(List(n)) + 1) /\ Len(List(n)) \in Nat
    BY <1>2, <1>6, TreeFacts DEF AreIterators, List
  <2>3. at' \in [DOMAIN nodes -> Nat \ {0}] /\ \A n \in DOMAIN nodes : at'[n] <= Len(List(n)) + 1
    <3>1. \A n \in DOMAIN nodes : at'[n] \in Nat \ {0} /\ at'[n] <= Len(List(n)) + 1
      BY <2>2
    <3>2. at' = [n \in DOMAIN nodes |-> at'[n]]
      BY <1>5 DEF Advanced
    <3>. QED BY <3>1, <3>2
  <2>4. cache' \in [DOMAIN nodes -> Nat \cup {NoMatch}]
    BY <1>8
  <2>. QED BY <1>1, <1>2, <1>3, <1>12, <2>1, <2>3, <2>4 DEF RankerTypeOK, CallsTyped, List, ArgsOf
<1>17. FramesHold'
  <2>1. \A n \in DOMAIN nodes : n \in Nat /\ n # 0
    BY <1>2, StateFacts
  <2>. QED BY <1>1, <2>1 DEF FramesHold, Active, Under
<1>18. Control' /\ RepliesHold'
  BY <1>1 DEF Control, RepliesHold
<1>. QED BY <1>9, <1>10, <1>15, <1>16, <1>17, <1>18 DEF RankerInv

-----------------------------------------------------------------------------
(* A run of the ranker starts.                                               *)
LEMMA StartKeeps ==
    ASSUME NEW t, IsTree(t), NEW m \in Models, StartRanking(t, m)
    PROVE  RankerInv'
<1> DEFINE ones == [n \in DOMAIN t |-> 1]
<1>1. /\ nodes' = t /\ retrievalModel' = m /\ at' = ones
      /\ cache' = [n \in DOMAIN t |-> NoMatch]
      /\ call' = [n \in DOMAIN t |-> Locals("match")]
      /\ here' = 0 /\ reply' = "none" /\ returned' = 0 /\ hits' = <<>> /\ ranker' = "match"
  BY DEF StartRanking
<1>2. Reach' = MatchesOf(t)
  BY <1>1 DEF Reach, MatchesOf
<1> HIDE DEF ones
<1>3. /\ DOMAIN t = 1..Len(t) /\ Len(t) \in Nat
      /\ \A n \in DOMAIN t : Len(t[n].list) \in Nat /\ Len(t[n].args) \in Nat
      /\ \A n \in DOMAIN t : DOMAIN t[n].args = 1..Len(t[n].args)
  BY TreeFacts
<1>4. RankerTypeOK'
  <2>1. at' \in [DOMAIN nodes' -> Nat \ {0}] /\ \A n \in DOMAIN nodes' : at'[n] <= Len(List(n)') + 1
    BY <1>1, <1>3 DEF List, ones
  <2>2. CallsTyped'
    <3>1. DOMAIN <<>> = {}
      OBVIOUS
    <3>2. ASSUME NEW n \in DOMAIN t
          PROVE  /\ call'[n].method \in {"match", "score"} /\ call'[n].doc \in Nat \cup {NoMatch}
                 /\ call'[n].arg \in 1..(Len(t[n].args) + 1)
                 /\ DOMAIN call'[n].parts = {}
      BY <1>1, <1>3, <3>1 DEF Locals
    <3>3. DOMAIN call' = DOMAIN nodes'
      BY <1>1
    <3>. QED BY <1>1, <3>2, <3>3 DEF CallsTyped, ArgsOf
  <2>3. cache' \in [DOMAIN nodes' -> Nat \cup {NoMatch}]
    BY <1>1
  <2>4. hits' \in Seq([doc : Nat, score : Int])
    BY <1>1
  <2>. QED BY <1>1, <2>1, <2>2, <2>3, <2>4 DEF RankerTypeOK, CallsTyped
<1>5. FramesHold'
  <2>1. \A n \in DOMAIN t : n \in Nat /\ n # 0
    BY <1>3
  <2>. QED BY <1>1, <2>1 DEF FramesHold, Active, Under
<1>6. Control' /\ RepliesHold'
  BY <1>1 DEF Control, RepliesHold
<1>7. Fresh' /\ Aligned'
  BY <1>1 DEF Fresh, Aligned
<1>8. Kept'
  BY <1>1, <1>2 DEF Kept
<1>9. Found'
  <2>1. DOMAIN hits' = {}
    BY <1>1
  <2>2. Ascending([k \in DOMAIN hits' |-> hits'[k].doc])
    BY <2>1 DEF Ascending
  <2>. QED BY <1>1, <1>2, <2>1, <2>2 DEF Found
<1>. QED BY <1>4, <1>5, <1>6, <1>7, <1>8, <1>9 DEF RankerInv

LEMMA RankerStarts == RankerInit => RankerInv
<1> SUFFICES ASSUME RankerInit PROVE RankerInv
  OBVIOUS
<1> DEFINE leaf == [kind |-> "score", args |-> <<>>, weights |-> <<>>, up |-> 0, last |-> 1,
                    list |-> <<>>]
<1>1. /\ nodes = <<leaf>> /\ retrievalModel = "BM25" /\ at = <<1>> /\ cache = <<NoMatch>>
      /\ call = <<Locals("match")>> /\ here = 0 /\ reply = "none" /\ returned = 0
      /\ hits = <<>> /\ ranker = "done"
  BY DEF RankerInit
<1>2. /\ DOMAIN nodes = {1} /\ nodes[1] = leaf /\ Len(nodes) = 1
      /\ at[1] = 1 /\ DOMAIN at = {1} /\ cache[1] = NoMatch /\ DOMAIN cache = {1}
      /\ call[1] = Locals("match") /\ DOMAIN call = {1}
  BY <1>1
<1>3. /\ leaf.kind = "score" /\ leaf.args = <<>> /\ leaf.weights = <<>> /\ leaf.up = 0
      /\ leaf.last = 1 /\ leaf.list = <<>>
  OBVIOUS
<1>4. leaf \in [kind : Sops, args : Seq(Nat), weights : Seq(Int), up : Nat, last : Nat,
                list : Seq([doc : Nat, pos : Seq(Int)])]
  BY DEF Sops
<1> HIDE DEF leaf
<1>5. IsTree(nodes)
  <2> DEFINE Node == [kind : Sops, args : Seq(Nat), weights : Seq(Int), up : Nat, last : Nat,
                      list : Seq([doc : Nat, pos : Seq(Int)])]
  <2>1. nodes \in Seq(Node)
    <3> HIDE DEF Node
    <3>1. leaf \in Node
      BY <1>4 DEF Node
    <3>. QED BY <1>1, <3>1
  <2>2. IsInvertedList(<<>>)
    BY DEF IsInvertedList
  <2>3. DOMAIN nodes[1].args = {} /\ (1 + 1)..nodes[1].last = {}
    BY <1>2, <1>3
  <2>4. nodes # <<>>
    BY <1>1
  <2>5. ASSUME NEW n \in DOMAIN nodes
        PROVE  /\ n <= nodes[n].last /\ nodes[n].last <= Len(nodes)
               /\ IsInvertedList(nodes[n].list)
               /\ nodes[n].kind = "score" /\ nodes[n].args = <<>> /\ nodes[n].last = n
               /\ DOMAIN nodes[n].args = {} /\ (n + 1)..nodes[n].last = {}
    <3>1. n = 1
      BY <1>2
    <3>2. nodes[1].last = 1 /\ nodes[1].list = <<>> /\ nodes[1].kind = "score" /\ nodes[1].args = <<>>
      BY <1>2, <1>3
    <3>3. nodes[1].last <= Len(nodes) /\ 1 <= nodes[1].last
      BY <1>2, <3>2
    <3>. QED BY <2>2, <2>3, <3>1, <3>2, <3>3
  <2>6. nodes[1].up = 0 /\ nodes[1].last = Len(nodes)
    BY <1>2, <1>3
  <2>. QED BY <2>1, <2>4, <2>5, <2>6 DEF IsTree
<1>6. RankerTypeOK
  <2>1. /\ at \in [DOMAIN nodes -> Nat \ {0}]
        /\ cache \in [DOMAIN nodes -> Nat \cup {NoMatch}]
        /\ \A n \in DOMAIN nodes : at[n] <= Len(List(n)) + 1
    BY <1>1, <1>2, <1>3 DEF List
  <2>2. /\ call[1].method = "match" /\ call[1].doc = NoMatch /\ call[1].arg = 1
        /\ DOMAIN call[1].parts = {} /\ Len(ArgsOf(1)) = 0
    BY <1>2, <1>3 DEF Locals, ArgsOf
  <2>3. hits \in Seq([doc : Nat, score : Int])
    BY <1>1
  <2>. QED BY <1>1, <1>2, <1>5, <2>1, <2>2, <2>3 DEF RankerTypeOK, Models
<1>7. FramesHold /\ Control /\ RepliesHold
  BY <1>1, <1>2, <1>3 DEF FramesHold, Control, RepliesHold, Active, Under
<1>8. Fresh /\ Aligned /\ Kept
  BY <1>1, <1>2 DEF Fresh, Aligned, Kept
<1>9. Found
  <2>1. AreIterators(nodes, at) /\ AreIterators(nodes, [n \in DOMAIN nodes |-> 1])
    BY <1>2, <1>3 DEF AreIterators
  <2>2. Reach[1] = {}
    <3>1. at[1] > Len(nodes[1].list)
      BY <1>2, <1>3
    <3>. QED BY <1>2, <1>3, <1>5, <2>1, <3>1, LeafFacts DEF Reach
  <2>3. MatchesOf(nodes)[1] = {}
    <3>1. [n \in DOMAIN nodes |-> 1][1] > Len(nodes[1].list)
      BY <1>2, <1>3
    <3>. QED BY <1>2, <1>3, <1>5, <2>1, <3>1, LeafFacts DEF MatchesOf
  <2>4. DOMAIN hits = {}
    BY <1>1
  <2>5. Ascending([k \in DOMAIN hits |-> hits[k].doc])
    BY <2>4 DEF Ascending
  <2>. QED BY <2>2, <2>3, <2>4, <2>5 DEF Found
<1>. QED BY <1>6, <1>7, <1>8, <1>9 DEF RankerInv

LEMMA RankerGoesOn == RankerInv /\ [RankerNext]_rankerVars => RankerInv'
<1> SUFFICES ASSUME RankerInv, [RankerNext]_rankerVars PROVE RankerInv'
  OBVIOUS
<1>1. CASE IsTree(nodes') /\ retrievalModel' \in Models /\ StartRanking(nodes', retrievalModel')
  BY <1>1, StartKeeps
<1>2. CASE RankerStep
  <2>1. CASE FirstHasMatch \/ AllAsk \/ AllMiss \/ AllAgrees \/ AllRetry \/ AllEnd
    BY <2>1, FirstHasMatchKeeps, AllAskKeeps, AllMissKeeps, AllAgreesKeeps, AllRetryKeeps,
       AllEndKeeps
  <2>2. CASE MinAsk \/ MinTake \/ MinMiss \/ MinEnd
    BY <2>2, MinAskKeeps, MinTakeKeeps, MinMissKeeps, MinEndKeeps
  <2>3. CASE Raise \/ ScoreUnranked \/ ScoreLeaf \/ ScoreAsk \/ ScoreVisit \/ ScoreSkip
             \/ ScoreAdd \/ ScoreEnd
    BY <2>3, RaiseKeeps, ScoreUnrankedKeeps, ScoreLeafKeeps, ScoreAskKeeps, ScoreVisitKeeps,
       ScoreSkipKeeps, ScoreAddKeeps, ScoreEndKeeps
  <2>4. CASE RankMatch \/ RankScore \/ RankAdd \/ RankEnd
    BY <2>4, RankMatchKeeps, RankScoreKeeps, RankAddKeeps, RankEndKeeps
  <2>. QED BY <1>2, <2>1, <2>2, <2>3, <2>4 DEF RankerStep
<1>3. CASE UNCHANGED rankerVars
  <2>1. /\ nodes' = nodes /\ retrievalModel' = retrievalModel /\ at' = at /\ cache' = cache
        /\ call' = call /\ here' = here /\ reply' = reply /\ returned' = returned /\ hits' = hits
        /\ ranker' = ranker
    BY <1>3 DEF rankerVars
  <2>2. RankerTypeOK'
    BY <2>1 DEF RankerInv, RankerTypeOK, List, ArgsOf
  <2>3. FramesHold'
    <3>1. /\ Reach' = Reach
          /\ \A n : ArgsOf(n)' = ArgsOf(n) /\ Callee(n)' = Callee(n)
          /\ \A n : Active(n)' <=> Active(n)
      BY <2>1 DEF Reach, ArgsOf, Callee, Active, Under
    <3>2. ASSUME NEW n \in DOMAIN nodes, Frame(n) PROVE Frame(n)'
      <4>1. Waits(n)'
        BY <2>1, <3>1, <3>2 DEF Frame, Waits, Under
      <4>2. TriesAll(n)'
        BY <2>1, <3>1, <3>2 DEF Frame, TriesAll
      <4>3. TakesMin(n)'
        BY <2>1, <3>1, <3>2 DEF Frame, TakesMin
      <4>4. Scores(n)'
        BY <2>1, <3>1, <3>2 DEF Frame, Scores
      <4>. QED BY <4>1, <4>2, <4>3, <4>4 DEF Frame
    <3>. QED BY <2>1, <3>1, <3>2 DEF RankerInv, FramesHold
  <2>4. Control' /\ RepliesHold'
    BY <2>1 DEF RankerInv, Control, RepliesHold, Answerer, Arg, ArgsOf, Reach
  <2>5. Fresh' /\ Aligned' /\ Kept' /\ Found'
    BY <2>1 DEF RankerInv, Fresh, Aligned, Kept, Found, Active, Under, ArgsOf, Reach
  <2>. QED BY <2>2, <2>3, <2>4, <2>5 DEF RankerInv
<1>. QED BY <1>1, <1>2, <1>3 DEF RankerNext

-----------------------------------------------------------------------------
(* Whatever the tree, its lists and the model, the ranker keeps to the invariant:
   the methods' locals, the cached matches and the iterators agree on what has
   been found and on what is left (Ranker.py:104-110, Qry.py:150-320).       *)
THEOREM RankerIsSafe == RankerSpec => []RankerInv
<1>. QED BY RankerStarts, RankerGoesOn, PTL DEF RankerSpec

(* Every variable of the ranker keeps its type.                              *)
THEOREM RankerTyped == RankerSpec => []RankerTypeOK
<1>1. RankerInv => RankerTypeOK
  BY DEF RankerInv
<1>. QED BY <1>1, RankerIsSafe, PTL

(* The ranking holds the documents that match the query's definition, ascending,
   each with the score it deserves, none skipped so far and none missing at the
   end (Ranker.py:104-110).                                                  *)
THEOREM ExactlyTheMatches == RankerSpec => []FindsExactlyTheMatches
<1>1. RankerInv => FindsExactlyTheMatches
  <2> SUFFICES ASSUME RankerInv PROVE FindsExactlyTheMatches
    OBVIOUS
  <2>1. /\ Ascending([k \in DOMAIN hits |-> hits[k].doc])
        /\ \A k \in DOMAIN hits : /\ hits[k].doc \in MatchesOf(nodes)[1]
                                  /\ hits[k].score = ScoresOf(nodes, retrievalModel, hits[k].doc)[1]
    BY DEF RankerInv, Found
  <2>2. ASSUME NEW d \in MatchesOf(nodes)[1],
               ranker = "done" \/ (hits # <<>> /\ d <= hits[Len(hits)].doc)
        PROVE  \E k \in DOMAIN hits : hits[k].doc = d
    <3> SUFFICES ASSUME d \in Reach[1] PROVE FALSE
      BY DEF RankerInv, Found
    <3>1. ranker # "done"
      BY DEF RankerInv, Found
    <3> DEFINE Hit == [doc : Nat, score : Int]
    <3>2. hits \in Seq(Hit)
      BY DEF RankerInv, RankerTypeOK
    <3>3. \A x \in Hit : x.doc \in Nat
      OBVIOUS
    <3> HIDE DEF Hit
    <3>4. Len(hits) \in DOMAIN hits /\ hits[Len(hits)] \in Hit
      BY <2>2, <3>1, <3>2
    <3>5. hits[Len(hits)].doc < d /\ hits[Len(hits)].doc \in Nat
      BY <3>3, <3>4 DEF RankerInv, Found
    <3>6. d \in Nat
      BY StateFacts DEF RankerInv
    <3>. QED BY <2>2, <3>1, <3>5, <3>6
  <2>. QED BY <2>1, <2>2 DEF FindsExactlyTheMatches
<1>. QED BY <1>1, RankerIsSafe, PTL

(* No caller reads a match that its callee has not cached (Qry.py:184-196). *)
THEOREM ReadWhenCached == RankerSpec => []CachedWhenRead
<1>1. RankerInv => CachedWhenRead
  <2> SUFFICES ASSUME RankerInv PROVE CachedWhenRead
    OBVIOUS
  <2>1. reply = "yes" => cache[IF here = 0 THEN 1 ELSE Arg] # NoMatch
    BY DEF RankerInv, RepliesHold, Answerer
  <2>2. ASSUME here # 0, call[here].method = "score"
        PROVE  /\ cache[here] # NoMatch
               /\ nodes[here].kind = "and" /\ ArgsLeft => cache[Arg] # NoMatch
    <3>1. /\ cache[here] # NoMatch
          /\ nodes[here].kind = "and" => \A i \in DOMAIN ArgsOf(here) : cache[ArgsOf(here)[i]] = cache[here]
      BY <2>2, ScoringFacts
    <3>2. ArgsLeft => call[here].arg \in DOMAIN ArgsOf(here)
      BY <2>2, InControl
    <3>. QED BY <3>1, <3>2 DEF Arg
  <2>. QED BY <2>1, <2>2 DEF CachedWhenRead
<1>. QED BY <1>1, RankerIsSafe, PTL

-----------------------------------------------------------------------------
(* Iterators go forward.                                                     *)
LEMMA NoneGoesBack ==
    ASSUME RankerInv, RankerStep
    PROVE  /\ nodes' = nodes /\ DOMAIN at = DOMAIN nodes /\ DOMAIN at' = DOMAIN nodes
           /\ \A n \in DOMAIN nodes : at[n] <= at'[n]
<1>1. RankerTypeOK /\ IsTree(nodes) /\ AreIterators(nodes, at) /\ at \in [DOMAIN nodes -> Nat \ {0}]
  BY StateFacts DEF RankerInv, RankerTypeOK
<1>2. \A n \in DOMAIN nodes : at[n] \in Nat
  BY <1>1
<1>3. nodes' = nodes
  BY DEF RankerStep, FirstHasMatch, AllAsk, AllMiss, AllAgrees, AllRetry, AllEnd, MinAsk, MinTake,
         MinMiss, MinEnd, Raise, ScoreUnranked, ScoreLeaf, ScoreAsk, ScoreVisit, ScoreSkip, ScoreAdd,
         ScoreEnd, RankMatch, RankScore, RankAdd, RankEnd, Running, Scoring, Ranking
<1>4. ASSUME NEW c \in DOMAIN nodes, NEW d \in Int, AdvanceTo(c, d)
      PROVE  DOMAIN at' = DOMAIN nodes /\ \A n \in DOMAIN nodes : at[n] <= at'[n]
  <2>1. at' = Advanced(nodes, at, c, d)
    BY <1>4 DEF AdvanceTo, Advanced, Below, Under, List
  <2>2. \A n \in DOMAIN nodes : at[n] <= Advanced(nodes, at, c, d)[n]
    BY <1>1, IteratorsStay
  <2>3. DOMAIN Advanced(nodes, at, c, d) = DOMAIN nodes
    BY DEF Advanced
  <2>. QED BY <2>1, <2>2, <2>3
<1>5. CASE at' = at
  BY <1>1, <1>2, <1>3, <1>5
<1>6. CASE AllAsk
  <2> SUFFICES ASSUME NEW h, h = here, NEW c, c = Arg
               PROVE  DOMAIN at' = DOMAIN nodes /\ \A n \in DOMAIN nodes : at[n] <= at'[n]
    BY <1>1, <1>3
  <2>1. h # 0 /\ ArgsLeft /\ (at' = at \/ AdvanceTo(c, call[h].doc))
    BY <1>6 DEF AllAsk, Running
  <2>2. c \in DOMAIN nodes /\ call[h].doc \in Int
    <3>1. call[h].arg \in DOMAIN ArgsOf(h) /\ call[h].doc \in Nat \cup {NoMatch}
      BY <2>1, InControl
    <3>. QED BY <1>1, <2>1, <3>1, ArgOfHere DEF NoMatch
  <2>. QED BY <1>1, <1>2, <1>4, <2>1, <2>2
<1>7. CASE AllRetry
  <2> SUFFICES ASSUME NEW h, h = here, NEW c, c = ArgsOf(h)[1], NEW d, d = cache[Arg]
               PROVE  DOMAIN at' = DOMAIN nodes /\ \A n \in DOMAIN nodes : at[n] <= at'[n]
    BY <1>1, <1>3
  <2>1. h # 0 /\ AdvanceTo(c, d) /\ nodes[h].kind = "and" /\ reply = "yes"
    BY <1>7 DEF AllRetry, Running
  <2>2. /\ h \in DOMAIN nodes /\ 1 \in DOMAIN ArgsOf(h) /\ call[h].arg \in DOMAIN ArgsOf(h)
    BY <2>1, InControl
  <2>3. c \in DOMAIN nodes /\ Arg \in DOMAIN nodes
    BY <1>1, <2>1, <2>2, ArgFacts, ArgOfHere DEF ArgsOf
  <2>4. d \in Int
    BY <1>1, <2>3, StateFacts DEF NoMatch
  <2>. QED BY <1>4, <2>1, <2>3, <2>4
<1>8. CASE RankAdd
  <2> SUFFICES ASSUME NEW d, d = cache[1] + 1
               PROVE  DOMAIN at' = DOMAIN nodes /\ \A n \in DOMAIN nodes : at[n] <= at'[n]
    BY <1>1, <1>3
  <2>1. AdvanceTo(1, d)
    BY <1>8 DEF RankAdd, AdvancePast
  <2>2. 1 \in DOMAIN nodes /\ d \in Int
    BY <1>1, StateFacts DEF NoMatch
  <2>. QED BY <1>4, <2>1, <2>2
<1>9. at' = at \/ AllAsk \/ AllRetry \/ RankAdd
  BY DEF RankerStep, FirstHasMatch, AllMiss, AllAgrees, AllEnd, MinAsk, MinTake,
         MinMiss, MinEnd, Raise, ScoreUnranked, ScoreLeaf, ScoreAsk, ScoreVisit, ScoreSkip, ScoreAdd,
         ScoreEnd, RankMatch, RankScore, RankEnd
<1>. QED BY <1>5, <1>6, <1>7, <1>8, <1>9

\* Where an operator matches less, an iterator has moved.
LEMMA SomeMoved ==
    ASSUME RankerInv, RankerStep, NEW n \in DOMAIN nodes, NEW e, e \in Reach[n], e \notin Reach'[n]
    PROVE  \E m \in DOMAIN nodes : at[m] < at'[m]
<1>1. /\ nodes' = nodes /\ DOMAIN at = DOMAIN nodes /\ DOMAIN at' = DOMAIN nodes
      /\ \A m \in DOMAIN nodes : at[m] <= at'[m]
  BY NoneGoesBack
<1>2. RankerTypeOK /\ RankerTypeOK'
  <2>1. RankerNext
    BY DEF RankerNext
  <2>. QED BY <2>1, RankerGoesOn DEF RankerInv
<1>3. at \in [DOMAIN nodes -> Nat \ {0}] /\ at' \in [DOMAIN nodes -> Nat \ {0}]
  BY <1>1, <1>2 DEF RankerTypeOK
<1>4. at' # at
  <2> SUFFICES ASSUME at' = at PROVE FALSE
    OBVIOUS
  <2>1. Reach' = Reach
    BY <1>1 DEF Reach
  <2>. QED BY <2>1
<1>5. PICK m \in DOMAIN nodes : at[m] # at'[m]
  BY <1>3, <1>4
<1>. QED BY <1>1, <1>3, <1>5

LEMMA AheadLess ==
    ASSUME RankerInv, RankerStep
    PROVE  /\ PostingsAhead' <= PostingsAhead
           /\ (\E m \in DOMAIN nodes : at[m] < at'[m]) => PostingsAhead' < PostingsAhead
<1> DEFINE f == [n \in DOMAIN nodes |-> Len(List(n)) + 1 - at[n]]
           g == [n \in DOMAIN nodes |-> Len(List(n)) + 1 - at'[n]]
<1>1. /\ nodes' = nodes /\ \A n \in DOMAIN nodes : at[n] <= at'[n]
  BY NoneGoesBack
<1>2. RankerTypeOK /\ RankerTypeOK'
  <2>1. RankerNext
    BY DEF RankerNext
  <2>. QED BY <2>1, RankerGoesOn DEF RankerInv
<1>3. AreIterators(nodes, at) /\ IsTree(nodes)
  BY <1>2, StateFacts
<1>4. \A n \in DOMAIN nodes : /\ Len(List(n)) \in Nat
                              /\ at[n] \in 1..(Len(List(n)) + 1) /\ at'[n] \in 1..(Len(List(n)) + 1)
  <2> SUFFICES ASSUME NEW n \in DOMAIN nodes
               PROVE  /\ Len(List(n)) \in Nat /\ at[n] \in 1..(Len(List(n)) + 1)
                      /\ at'[n] \in 1..(Len(List(n)) + 1)
    OBVIOUS
  <2>1. Len(List(n)) \in Nat /\ at[n] \in 1..(Len(List(n)) + 1)
    BY <1>3, TreeFacts DEF AreIterators, List
  <2>2. at'[n] \in Nat \ {0} /\ at'[n] <= Len(List(n)) + 1
    BY <1>1, <1>2 DEF RankerTypeOK, List
  <2>. QED BY <2>1, <2>2
<1>5. \A n \in DOMAIN nodes : /\ f[n] \in Nat /\ g[n] \in Nat /\ g[n] <= f[n]
                              /\ at[n] < at'[n] => g[n] < f[n]
  BY <1>1, <1>4
<1>6. PostingsAhead = SumFunction(f) /\ PostingsAhead' = SumFunction(g)
  BY <1>1 DEF PostingsAhead, List
<1>7. IsFiniteSet(DOMAIN nodes) /\ DOMAIN f = DOMAIN nodes /\ DOMAIN g = DOMAIN nodes
  <2>1. DOMAIN nodes = 1..Len(nodes) /\ Len(nodes) \in Int
    BY <1>2, StateFacts
  <2>. QED BY <2>1, FS_Interval
<1>8. f \in [DOMAIN nodes -> Nat] /\ g \in [DOMAIN nodes -> Nat]
  BY <1>5
<1> HIDE DEF f, g
<1>9. PostingsAhead' <= PostingsAhead
  BY <1>5, <1>6, <1>7, SumNoMore DEF SumFunction
<1>10. ASSUME NEW m \in DOMAIN nodes, at[m] < at'[m] PROVE PostingsAhead' < PostingsAhead
  <2>1. g[m] < f[m]
    BY <1>5, <1>10
  <2>. QED BY <1>5, <1>6, <1>7, <1>8, <2>1, SumLess
<1>. QED BY <1>9, <1>10

\* AND proposes its first argument's match, and another argument is ahead of it.
LEMMA RetryMoves == ASSUME RankerInv, AllRetry PROVE \E m \in DOMAIN nodes : at[m] < at'[m]
<1> SUFFICES ASSUME NEW h, h = here, NEW c, c = ArgsOf(h)[1], NEW d, d = cache[Arg]
             PROVE  \E m \in DOMAIN nodes : at[m] < at'[m]
  OBVIOUS
<1>1. /\ h # 0 /\ call[h].method = "match" /\ nodes[h].kind = "and" /\ reply = "yes"
      /\ AdvanceTo(c, d) /\ nodes' = nodes
      /\ call[h].arg > 1 /\ cache[Arg] # call[h].doc
  BY DEF AllRetry, Running
<1>2. /\ RankerTypeOK /\ IsTree(nodes) /\ AreIterators(nodes, at) /\ h \in DOMAIN nodes /\ Frame(h)
      /\ call[h].arg \in DOMAIN ArgsOf(h) /\ 1 \in DOMAIN ArgsOf(h) /\ call[h].arg \in Nat
      /\ Arg = ArgsOf(h)[call[h].arg] /\ Arg = Callee(h)
  BY <1>1, InControl DEF Arg, Callee
<1>3. /\ Arg \in DOMAIN nodes /\ c \in DOMAIN nodes /\ c \in Under(nodes, c)
  BY <1>1, <1>2, ArgOfHere, ArgFacts, StateFacts DEF ArgsOf
<1>4. /\ d # NoMatch /\ d \in Nat /\ d \in Reach[Arg]
  <2>1. d # NoMatch
    BY <1>1 DEF RankerInv, RepliesHold, Answerer
  <2>. QED BY <1>2, <1>3, <2>1, StateFacts DEF RankerInv, Fresh
<1>5. /\ call[h].doc # NoMatch /\ cache[c] = call[h].doc /\ d >= call[h].doc
  <2>1. 1 \in 1..(call[h].arg - 1)
    BY <1>1, <1>2
  <2>2. TriesAll(h)
    BY <1>2 DEF Frame
  <2>. QED BY <1>1, <1>2, <1>4, <2>1, <2>2 DEF TriesAll
<1>6. cache[c] \in Reach[c] /\ cache[c] \in Nat
  BY <1>2, <1>3, <1>5, StateFacts DEF RankerInv, Fresh
<1>7. ~(cache[c] >= d)
  BY <1>1, <1>4, <1>5, <1>6
<1>8. cache[c] \notin Reach'[c]
  <2>1. at' = Advanced(nodes, at, c, d)
    BY <1>1 DEF AdvanceTo, Advanced, Below, Under, List
  <2>2. Reach' = MatchesFrom(nodes, Advanced(nodes, at, c, d))
    BY <1>1, <2>1 DEF Reach
  <2>3. d \in Int
    BY <1>4
  <2>. QED BY <1>2, <1>3, <1>7, <2>2, <2>3, AdvancedBelow
<1>. QED BY <1>3, <1>6, <1>8, SomeMoved DEF RankerStep

\* The document that is added has been found, and is left behind.
LEMMA AddMoves == ASSUME RankerInv, RankAdd PROVE \E m \in DOMAIN nodes : at[m] < at'[m]
<1> SUFFICES ASSUME NEW d, d = cache[1] PROVE \E m \in DOMAIN nodes : at[m] < at'[m]
  OBVIOUS
<1>1. here = 0 /\ ranker = "score" /\ AdvanceTo(1, d + 1) /\ nodes' = nodes
  BY DEF RankAdd, Ranking, AdvancePast
<1>2. /\ IsTree(nodes) /\ AreIterators(nodes, at) /\ 1 \in DOMAIN nodes /\ 1 \in Under(nodes, 1)
  BY <1>1, AtTheTop
<1>3. d # NoMatch /\ d \in Reach[1] /\ d \in Nat
  <2>1. d # NoMatch
    BY <1>1 DEF RankerInv, Control
  <2>. QED BY <1>2, <2>1, StateFacts DEF RankerInv, Fresh
<1>4. d \notin Reach'[1]
  <2>1. at' = Advanced(nodes, at, 1, d + 1)
    BY <1>1 DEF AdvanceTo, Advanced, Below, Under, List
  <2>2. Reach' = MatchesFrom(nodes, Advanced(nodes, at, 1, d + 1))
    BY <1>1, <2>1 DEF Reach
  <2>3. d + 1 \in Int /\ ~(d >= d + 1)
    BY <1>3
  <2>. QED BY <1>2, <2>2, <2>3, AdvancedBelow
<1>. QED BY <1>2, <1>3, <1>4, SomeMoved DEF RankerStep

(* Iterators go forward only, and strictly with each document the ranker adds and
   each new attempt of AND, so that the ranker's loop and that of AND end
   (Ranker.py:106-110, Qry.py:224-252).                                      *)
THEOREM RankerMovesOn == RankerSpec => MatchingMovesOn
<1> DEFINE A == /\ ranker \notin {"done", "raised"} => PostingsAhead' <= PostingsAhead
                /\ hits' # hits /\ hits' # <<>> => PostingsAhead' < PostingsAhead
                /\ AllRetry => PostingsAhead' < PostingsAhead
<1>1. RankerInv /\ [RankerNext]_rankerVars => [A]_rankerVars
  <2> SUFFICES ASSUME RankerInv, RankerNext PROVE A
    OBVIOUS
  <2>1. CASE RankerStep
    <3>1. hits' # hits => RankAdd
      BY <2>1 DEF RankerStep, FirstHasMatch, AllAsk, AllMiss, AllAgrees, AllRetry, AllEnd, MinAsk,
         MinTake, MinMiss, MinEnd, Raise, ScoreUnranked, ScoreLeaf, ScoreAsk, ScoreVisit, ScoreSkip,
         ScoreAdd, ScoreEnd, Scoring, RankMatch, RankScore, RankEnd
    <3>. QED BY <2>1, <3>1, AheadLess, RetryMoves, AddMoves
  <2>2. CASE StartRanking(nodes', retrievalModel')
    <3>1. ranker \in {"done", "raised"} /\ hits' = <<>>
      BY <2>2 DEF StartRanking
    <3>2. ~AllRetry
      <4>1. here = 0
        BY <3>1 DEF RankerInv, Control
      <4>. QED BY <4>1 DEF AllRetry, Running
    <3>. QED BY <3>1, <3>2
  <2>. QED BY <2>1, <2>2 DEF RankerNext
<1>. QED BY <1>1, RankerIsSafe, PTL DEF RankerSpec, MatchingMovesOn

-----------------------------------------------------------------------------
(* Asking an operator again that has answered: it answers the same and moves
   nothing.                                                                  *)
\* No iterator below n stands before document d: advancing to d moves none.
Ahead(n, d) ==
    \A m \in Under(nodes, n) : at[m] <= Len(List(m)) => List(m)[at[m]].doc >= d

Least(n, d) == d \in Reach[n] /\ \A e \in Reach[n] : d <= e

\* The arguments that n asks are in S, and AND finds none behind or ahead: from
\* the first that has no match on, it asks no more.
Supported(n, S) ==
    /\ nodes[n].kind \in AnyOf => \A i \in DOMAIN ArgsOf(n) : ArgsOf(n)[i] \in S
    /\ nodes[n].kind = "and" =>
          \A i \in DOMAIN ArgsOf(n) : \A d :
              (\A j \in 1..(i - 1) : Least(ArgsOf(n)[j], d)) =>
                  /\ ArgsOf(n)[i] \in S
                  /\ i > 1 => /\ Ahead(ArgsOf(n)[i], d)
                              /\ (\E e : e \in Reach[ArgsOf(n)[i]]) => d \in Reach[ArgsOf(n)[i]]

\* Asking n for a match moves nothing: so it is of n and all that it asks.
Settled(n) == \E S \in SUBSET DOMAIN nodes : n \in S /\ \A m \in S : Supported(m, S)

SettledNodes == {m \in DOMAIN nodes : Settled(m)}

Passed == [n \in DOMAIN nodes |-> {d \in Nat : Ahead(n, d)}]

LEMMA SupportedByMore ==
    ASSUME NEW n, NEW S, NEW T, S \subseteq T, Supported(n, S)
    PROVE  Supported(n, T)
BY DEF Supported

LEMMA SettledSupported ==
    ASSUME NEW n \in DOMAIN nodes
    PROVE  Settled(n) <=> Supported(n, SettledNodes)
<1>1. ASSUME NEW m, Settled(m) PROVE Supported(m, SettledNodes)
  <2>1. PICK S \in SUBSET DOMAIN nodes : m \in S /\ \A k \in S : Supported(k, S)
    BY <1>1 DEF Settled
  <2>2. S \subseteq SettledNodes
    BY <2>1 DEF SettledNodes, Settled
  <2>. QED BY <2>1, <2>2, SupportedByMore
<1>2. ASSUME Supported(n, SettledNodes) PROVE Settled(n)
  <2> DEFINE S == SettledNodes \cup {n}
  <2>1. SettledNodes \subseteq S
    OBVIOUS
  <2>2. \A m \in S : Supported(m, SettledNodes)
    BY <1>1, <1>2 DEF SettledNodes
  <2>3. \A m \in S : Supported(m, S)
    <3> HIDE DEF S
    <3>. QED BY <2>1, <2>2, SupportedByMore
  <2>4. S \in SUBSET DOMAIN nodes /\ n \in S
    BY DEF SettledNodes
  <2> HIDE DEF S
  <2>. QED BY <2>3, <2>4 DEF Settled
<1>. QED BY <1>1, <1>2

\* A step moves iterators forward, and only those in T.
Moves(T) ==
    /\ nodes' = nodes
    /\ \A m \in DOMAIN nodes :
          /\ at[m] <= at'[m]
          /\ m \notin T => at'[m] = at[m] /\ \A e : e \in Reach'[m] <=> e \in Reach[m]

LEMMA MovesNone == ASSUME RankerTypeOK, nodes' = nodes, at' = at PROVE Moves({})
<1>1. Reach' = Reach
  BY DEF Reach
<1>2. \A m \in DOMAIN nodes : at[m] \in Nat
  BY DEF RankerTypeOK
<1>. QED BY <1>1, <1>2 DEF Moves

LEMMA AheadStays ==
    ASSUME RankerTypeOK, RankerTypeOK', NEW T, Moves(T), NEW n \in DOMAIN nodes, NEW d \in Int,
           Ahead(n, d)
    PROVE  Ahead(n, d)'
<1>1. nodes' = nodes
  BY DEF Moves
<1> SUFFICES ASSUME NEW m \in Under(nodes, n), at'[m] <= Len(List(m))
             PROVE  List(m)[at'[m]].doc >= d
  BY <1>1 DEF Ahead, List
<1> DEFINE l == List(m)
<1>2. m \in DOMAIN nodes
  BY StateFacts, BelowFacts
<1>3. IsInvertedList(l) /\ Len(l) \in Nat
  BY <1>2, StateFacts, TreeFacts DEF List
<1>4. at[m] \in Nat \ {0} /\ at'[m] \in Nat \ {0} /\ at[m] <= at'[m]
  BY <1>1, <1>2 DEF RankerTypeOK, Moves
<1>5. at[m] \in 1..Len(l) /\ at'[m] \in 1..Len(l)
  BY <1>3, <1>4
<1>6. l[at[m]].doc >= d
  BY <1>5 DEF Ahead
<1>7. l[at[m]].doc \in Int /\ l[at'[m]].doc \in Int
  BY <1>3, <1>5, PostingFacts
<1>8. at[m] = at'[m] \/ l[at[m]].doc < l[at'[m]].doc
  BY <1>3, <1>4, <1>5, PostingFacts
<1> HIDE DEF l
<1>. QED BY <1>6, <1>7, <1>8 DEF l

LEMMA SettledStays ==
    ASSUME RankerTypeOK, NEW T, Moves(T), NEW n \in DOMAIN nodes,
           \A m \in Under(nodes, n) : m \notin T,
           Settled(n)
    PROVE  Settled(n)'
<1>0. IsTree(nodes) /\ nodes' = nodes /\ n \in Under(nodes, n)
  BY StateFacts DEF Moves
<1>1. PICK S \in SUBSET DOMAIN nodes : n \in S /\ \A m \in S : Supported(m, S)
  BY DEF Settled
<1> SUFFICES ASSUME NEW B, B = S \cap Under(nodes, n) PROVE Settled(n)'
  OBVIOUS
<1>2. \A m \in Under(nodes, n) : /\ m \in DOMAIN nodes
                                 /\ at'[m] = at[m]
                                 /\ \A e : e \in Reach'[m] <=> e \in Reach[m]
                                 /\ Under(nodes, m) \subseteq Under(nodes, n)
  BY <1>0, BelowFacts DEF Moves
<1>3. ASSUME NEW m \in Under(nodes, n), NEW d
      PROVE  (Ahead(m, d) => Ahead(m, d)') /\ (Least(m, d)' <=> Least(m, d))
  <2>1. Ahead(m, d) => Ahead(m, d)'
    BY <1>0, <1>2 DEF Ahead, List
  <2>2. Least(m, d)' <=> Least(m, d)
    BY <1>2 DEF Least
  <2>. QED BY <2>1, <2>2
<1>4. ASSUME NEW m \in B, NEW args, args = ArgsOf(m) PROVE Supported(m, B)'
  <2>1. /\ Supported(m, S) /\ m \in DOMAIN nodes
        /\ \A i \in DOMAIN args : args[i] \in Under(nodes, n)
    BY <1>0, <1>1, <1>2, <1>4, ArgFacts DEF ArgsOf
  <2>2. ArgsOf(m)' = args /\ DOMAIN args = 1..Len(args) /\ Len(args) \in Nat
    BY <1>0, <1>4, <2>1, StateFacts DEF ArgsOf
  <2>3. ASSUME nodes[m].kind \in AnyOf, NEW i \in DOMAIN args PROVE args[i] \in B
    BY <1>4, <2>1, <2>3 DEF Supported
  <2>4. ASSUME nodes[m].kind = "and", NEW i \in DOMAIN args, NEW d,
               \A j \in 1..(i - 1) : Least(args[j], d)'
        PROVE  /\ args[i] \in B
               /\ i > 1 => /\ Ahead(args[i], d)'
                           /\ (\E e : e \in Reach'[args[i]]) => d \in Reach'[args[i]]
    <3>1. \A j \in 1..(i - 1) : j \in DOMAIN args
      BY <2>2
    <3>2. \A j \in 1..(i - 1) : Least(args[j], d)
      BY <1>3, <2>1, <2>4, <3>1
    <3>3. /\ args[i] \in S
          /\ i > 1 => /\ Ahead(args[i], d)
                      /\ (\E e : e \in Reach[args[i]]) => d \in Reach[args[i]]
      BY <1>4, <2>1, <2>4, <3>2 DEF Supported
    <3>4. args[i] \in Under(nodes, n)
      BY <2>1
    <3>. QED BY <1>2, <1>3, <3>3, <3>4
  <2>. QED BY <1>0, <2>2, <2>3, <2>4 DEF Supported
<1>5. n \in B /\ B \in SUBSET DOMAIN nodes
  BY <1>0, <1>1
<1>6. \A m \in B : Supported(m, B)'
  <2>1. \A m \in B : \A args : args = ArgsOf(m) => Supported(m, B)'
    BY <1>4
  <2>. QED BY <2>1
<1>7. B \in SUBSET DOMAIN nodes'
  BY <1>0, <1>5
<1>. QED BY <1>5, <1>6, <1>7 DEF Settled

LEMMA Unmoved ==
    ASSUME RankerTypeOK, nodes' = nodes, at' = at
    PROVE  Moves({}) /\ SettledNodes' = SettledNodes /\ Passed' = Passed
<1>1. Reach' = Reach
  BY DEF Reach
<1>2. Passed' = Passed
  BY DEF Passed, Ahead, List
<1>3. \A n, S : Supported(n, S)' <=> Supported(n, S)
  BY <1>1 DEF Supported, Least, Ahead, List, ArgsOf
<1>4. \A n : Settled(n)' <=> Settled(n)
  BY <1>3 DEF Settled
<1>5. SettledNodes' = SettledNodes
  BY <1>4 DEF SettledNodes
<1>. QED BY <1>2, <1>5, MovesNone

\* Advancing to d passes what is before d, and moves nothing where that is passed.
LEMMA AdvancePasses ==
    ASSUME RankerTypeOK, nodes' = nodes, NEW c \in DOMAIN nodes, NEW d \in Nat,
           at' = Advanced(nodes, at, c, d)
    PROVE  /\ d \in Passed'[c]
           /\ d \in Passed[c] => at' = at
<1>1. IsTree(nodes) /\ AreIterators(nodes, at) /\ at \in [DOMAIN nodes -> Nat \ {0}]
  BY StateFacts DEF RankerTypeOK
<1>2. ASSUME NEW m \in Under(nodes, c)
      PROVE  /\ m \in DOMAIN nodes /\ IsInvertedList(List(m)) /\ Len(List(m)) \in Nat
             /\ at[m] \in 1..(Len(List(m)) + 1)
             /\ at'[m] = FirstFrom(List(m), at[m], d)
  <2>1. m \in DOMAIN nodes
    BY <1>1, BelowFacts
  <2>. QED BY <1>1, <2>1, TreeFacts DEF AreIterators, List, Advanced
<1>3. ASSUME NEW m \in Under(nodes, c)
      PROVE  /\ at'[m] \in at[m]..(Len(List(m)) + 1)
             /\ \A j \in at[m]..Len(List(m)) : List(m)[j].doc >= d <=> at'[m] <= j
  <2>1. d \in Int
    OBVIOUS
  <2>. QED BY <1>2, <2>1, FirstFromFacts
<1>4. ASSUME NEW m \in Under(nodes, c), at'[m] <= Len(List(m)) PROVE List(m)[at'[m]].doc >= d
  <2>1. at'[m] \in at[m]..Len(List(m)) /\ at'[m] <= at'[m]
    BY <1>2, <1>4, <1>3
  <2>. QED BY <1>3, <2>1
<1>5. d \in Passed'[c]
  BY <1>4 DEF Passed, Ahead, List
<1>6. ASSUME d \in Passed[c], NEW m \in DOMAIN nodes PROVE at'[m] = at[m]
  <2>1. CASE m \notin Under(nodes, c)
    BY <2>1 DEF Advanced
  <2>2. CASE m \in Under(nodes, c) /\ at[m] <= Len(List(m))
    <3>1. List(m)[at[m]].doc >= d
      BY <1>6, <2>2 DEF Passed, Ahead
    <3>2. at[m] \in at[m]..Len(List(m))
      BY <1>2, <2>2
    <3>3. at'[m] <= at[m]
      BY <1>3, <2>2, <3>1, <3>2
    <3>. QED BY <1>2, <1>3, <2>2, <3>3
  <2>3. CASE m \in Under(nodes, c) /\ ~(at[m] <= Len(List(m)))
    BY <1>2, <1>3, <2>3
  <2>. QED BY <2>1, <2>2, <2>3
<1>7. DOMAIN at' = DOMAIN nodes /\ DOMAIN at = DOMAIN nodes /\ at' = [m \in DOMAIN nodes |-> at'[m]]
  BY <1>1 DEF Advanced
<1>8. d \in Passed[c] => at' = at
  BY <1>1, <1>6, <1>7
<1>. QED BY <1>5, <1>8

\* Who waits has settled the arguments it has heard, and AND is past its proposal
\* in each but the first.
Tried(n) ==
    call[n].method = "match" =>
        /\ \A j \in 1..(call[n].arg - 1) :
              /\ ArgsOf(n)[j] \in SettledNodes
              /\ nodes[n].kind = "and" /\ j > 1 => call[n].doc \in Passed[ArgsOf(n)[j]]
        /\ nodes[n].kind = "and" /\ call[n].arg > 1 /\ (here # n \/ reply # "none") =>
              call[n].doc \in Passed[Callee(n)]

\* What scores is settled, and so is what has answered.
Quiet ==
    /\ \A n \in DOMAIN nodes :
          Active(n) => Tried(n) /\ (ranker = "score" => n \in SettledNodes)
    /\ reply \in {"yes", "no"} => Answerer \in SettledNodes

LEMMA KeptBelow ==
    ASSUME RankerTypeOK, RankerTypeOK', NEW T, Moves(T), NEW n \in DOMAIN nodes
    PROVE  /\ Passed[n] \subseteq Passed'[n]
           /\ (\A m \in Under(nodes, n) : m \notin T) /\ n \in SettledNodes => n \in SettledNodes'
<1>1. nodes' = nodes
  BY DEF Moves
<1>2. ASSUME NEW d \in Passed[n] PROVE d \in Passed'[n]
  <2>1. d \in Nat /\ d \in Int /\ Ahead(n, d)
    BY <1>2 DEF Passed
  <2>2. Ahead(n, d)'
    BY <2>1, AheadStays
  <2>. QED BY <1>1, <2>1, <2>2 DEF Passed
<1>3. ASSUME \A m \in Under(nodes, n) : m \notin T, n \in SettledNodes PROVE n \in SettledNodes'
  <2>1. Settled(n)
    BY <1>3 DEF SettledNodes
  <2>2. Settled(n)'
    BY <1>3, <2>1, SettledStays
  <2>. QED BY <1>1, <2>2 DEF SettledNodes
<1>. QED BY <1>2, <1>3

LEMMA TriedStays ==
    ASSUME RankerTypeOK, RankerTypeOK', NEW T, Moves(T),
           NEW n \in DOMAIN nodes, call[n].arg \in DOMAIN ArgsOf(n), Tried(n),
           T \subseteq Under(nodes, Callee(n)), call'[n] = call[n],
           call[n].method = "match" /\ nodes[n].kind = "and" /\ call[n].arg > 1 =>
              call[n].doc \in Passed'[Callee(n)]
    PROVE  Tried(n)'
<1>1. nodes' = nodes /\ IsTree(nodes)
  BY StateFacts DEF Moves
<1>2. ArgsOf(n)' = ArgsOf(n) /\ Callee(n)' = Callee(n)
  BY <1>1 DEF ArgsOf, Callee
<1>3. ASSUME NEW j \in 1..(call[n].arg - 1), call[n].method = "match"
      PROVE  /\ ArgsOf(n)[j] \in SettledNodes'
             /\ nodes[n].kind = "and" /\ j > 1 => call[n].doc \in Passed'[ArgsOf(n)[j]]
  <2> SUFFICES ASSUME NEW a, a = ArgsOf(n)[j]
               PROVE  /\ a \in SettledNodes'
                      /\ nodes[n].kind = "and" /\ j > 1 => call[n].doc \in Passed'[a]
    OBVIOUS
  <2>1. a \in DOMAIN nodes /\ j \in DOMAIN ArgsOf(n) /\ j # call[n].arg
    BY OtherArgs, StateFacts
  <2>2. \A m \in Under(nodes, a) : m \notin Under(nodes, Callee(n))
    BY <1>1, <2>1, ArgFacts DEF ArgsOf, Callee
  <2>3. a \in SettledNodes /\ (nodes[n].kind = "and" /\ j > 1 => call[n].doc \in Passed[a])
    BY <1>3 DEF Tried
  <2>. QED BY <2>1, <2>2, <2>3, KeptBelow
<1>. QED BY <1>1, <1>2, <1>3 DEF Tried

\* What waits before the step and is not touched by it.
LEMMA OthersTried ==
    ASSUME RankerInv, RankerTypeOK', Quiet, here # 0, NEW h, h = here,
           NEW T, Moves(T), T \subseteq Under(nodes, h),
           NEW n \in DOMAIN nodes, Active(n), n # h, call'[n] = call[n]
    PROVE  Tried(n)'
<1>1. /\ RankerTypeOK /\ IsTree(nodes) /\ Tried(n)
      /\ call[n].arg \in DOMAIN ArgsOf(n) /\ h \in Under(nodes, Callee(n))
  BY InControl DEF Quiet, RankerInv, FramesHold, Frame, Waits
<1>2. Callee(n) \in DOMAIN nodes
  BY <1>1, OtherArgs
<1>3. T \subseteq Under(nodes, Callee(n))
  BY <1>1, <1>2, BelowFacts
<1>4. call[n].method = "match" /\ nodes[n].kind = "and" /\ call[n].arg > 1 =>
         call[n].doc \in Passed'[Callee(n)]
  <2> SUFFICES ASSUME call[n].method = "match", nodes[n].kind = "and", call[n].arg > 1,
                      NEW c, c = Callee(n)
               PROVE  call[n].doc \in Passed'[c]
    OBVIOUS
  <2>1. call[n].doc \in Passed[c]
    BY <1>1 DEF Tried
  <2>. QED BY <1>1, <1>2, <2>1, KeptBelow
<1>. QED BY <1>1, <1>3, <1>4, TriedStays

\* An argument is called.
LEMMA QuietCall ==
    ASSUME RankerInv, RankerTypeOK', Quiet, here # 0, NEW h, h = here,
           call[h].arg \in DOMAIN ArgsOf(h), NEW c, c = Arg,
           NEW method, Enter(c, method), ranker' = ranker, NEW T, Moves(T), T \subseteq Under(nodes, c),
           call[h].method = "match" /\ nodes[h].kind = "and" /\ call[h].arg > 1 =>
              call[h].doc \in Passed'[c],
           ranker = "score" => c \in SettledNodes /\ SettledNodes' = SettledNodes
    PROVE  Quiet'
<1>1. /\ RankerTypeOK /\ IsTree(nodes) /\ h \in DOMAIN nodes /\ nodes' = nodes
      /\ c \in DOMAIN nodes /\ c = Callee(h) /\ nodes[c].up = h /\ c # h /\ c \in Under(nodes, h)
      /\ Under(nodes, c) \subseteq Under(nodes, h) /\ DOMAIN call = DOMAIN nodes
      /\ h \in Under(nodes, h)
  BY InControl, ArgOfHere, StateFacts DEF Moves, RankerTypeOK
<1>2. /\ here' = c /\ reply' = "none" /\ call'[c] = Locals(method)
      /\ \A n \in DOMAIN nodes : n # c => call'[n] = call[n]
  BY <1>1 DEF Enter
<1>3. Tried(c)'
  <2>1. call'[c].arg = 1
    BY <1>2 DEF Locals
  <2>. QED BY <2>1 DEF Tried
<1>4. ASSUME NEW n \in DOMAIN nodes, c \in Under(nodes, n), n # c
      PROVE  Active(n) /\ Tried(n)' /\ (ranker = "score" => n \in SettledNodes')
  <2>1. Active(n)
    BY <1>1, <1>4, BelowFacts DEF Active
  <2>2. T \subseteq Under(nodes, h)
    BY <1>1
  <2>3. CASE n = h
    BY <1>1, <1>2, <2>1, <2>3, TriedStays DEF Quiet
  <2>4. CASE n # h
    <3>1. Tried(n)'
      BY <1>2, <1>4, <2>1, <2>2, <2>4, OthersTried
    <3>. QED BY <2>1, <3>1 DEF Quiet
  <2>. QED BY <2>1, <2>3, <2>4
<1>5. \A n \in DOMAIN nodes : Active(n)' <=> c \in Under(nodes, n)
  BY <1>1, <1>2 DEF Active, Under
<1>. QED BY <1>1, <1>2, <1>3, <1>4, <1>5 DEF Quiet

\* An operator answers.
LEMMA QuietReturn ==
    ASSUME RankerInv, RankerTypeOK', Quiet, here # 0, NEW h, h = here, NEW answer, Return(answer),
           UNCHANGED <<nodes, at, ranker>>, answer \in {"yes", "no"} => h \in SettledNodes
    PROVE  Quiet'
<1>1. /\ RankerTypeOK /\ IsTree(nodes) /\ h \in DOMAIN nodes
      /\ SettledNodes' = SettledNodes /\ Passed' = Passed /\ Moves({})
  BY InControl, Unmoved
<1>2. here' = nodes[h].up /\ call' = call /\ reply' = answer /\ nodes' = nodes /\ ranker' = ranker
  BY DEF Return
<1>3. Answerer' = h
  BY <1>2, AnswerHeard
<1>4. ASSUME NEW n \in DOMAIN nodes, Active(n)' PROVE Active(n) /\ n # h
  <2>1. here' # 0
    <3>1. n \in Nat /\ n # 0 /\ nodes'[n].last \in Nat
      BY <1>1, <1>2, StateFacts, TreeFacts
    <3>. QED BY <1>4, <3>1 DEF Active, Under
  <2>2. h # 1
    BY <1>2, <2>1, AnswerHeard
  <2>3. /\ here' \in DOMAIN nodes /\ h \in Under(nodes, here') /\ here' \notin Under(nodes, h)
    BY <1>1, <1>2, <2>2, UpFacts
  <2>4. here' \in Under(nodes, n)
    BY <1>2, <1>4 DEF Active, Under
  <2>. QED BY <1>1, <2>3, <2>4, BelowFacts DEF Active
<1>5. ASSUME NEW n \in DOMAIN nodes, Active(n)'
      PROVE  Tried(n)' /\ (ranker' = "score" => n \in SettledNodes')
  <2>1. Active(n) /\ n # h
    BY <1>4, <1>5
  <2>2. Tried(n)'
    BY <1>1, <1>2, <2>1, OthersTried
  <2>. QED BY <1>1, <1>2, <2>1, <2>2 DEF Quiet
<1>. QED BY <1>1, <1>2, <1>3, <1>5 DEF Quiet

\* An operator goes on.
LEMMA QuietGoOn ==
    ASSUME RankerInv, RankerTypeOK', Quiet, here # 0, NEW h, h = here, here' = h, reply' = "none",
           NEW r, call' = [call EXCEPT ![h] = r], ranker' = ranker,
           NEW T, Moves(T), T \subseteq Under(nodes, h), Tried(h)',
           ranker = "score" => SettledNodes' = SettledNodes
    PROVE  Quiet'
<1>1. h \in DOMAIN nodes /\ nodes' = nodes /\ DOMAIN call = DOMAIN nodes
  BY InControl DEF Moves, RankerTypeOK
<1>2. \A n \in DOMAIN nodes : n # h => call'[n] = call[n]
  BY <1>1
<1>3. \A n \in DOMAIN nodes : Active(n)' <=> Active(n)
  BY <1>1 DEF Active, Under
<1>4. \A n \in DOMAIN nodes : Active(n) => Tried(n)'
  BY <1>2, OthersTried
<1>. QED BY <1>1, <1>3, <1>4 DEF Quiet

-----------------------------------------------------------------------------
(* What has answered is settled.                                             *)
LEMMA SettledFacts ==
    ASSUME RankerTypeOK, NEW n \in DOMAIN nodes
    PROVE  n \in SettledNodes <=> Supported(n, SettledNodes)
  BY SettledSupported DEF SettledNodes

\* AND that agrees up to its j-th argument, which has no match unless it is the last.
LEMMA AllSettled ==
    ASSUME RankerInv, Quiet, here # 0, NEW h, h = here, call[h].method = "match",
           nodes[h].kind = "and",
           \/ reply = "none" /\ ~ArgsLeft
           \/ reply = "no"
    PROVE  h \in SettledNodes
<1> DEFINE args == ArgsOf(h)
<1>1. /\ RankerTypeOK /\ IsTree(nodes) /\ h \in DOMAIN nodes /\ Frame(h) /\ Active(h) /\ Tried(h)
      /\ DOMAIN args = 1..Len(args) /\ Len(args) \in Nat
      /\ call[h].arg \in Nat /\ call[h].arg >= 1 /\ call[h].arg <= Len(args) + 1
      /\ call[h].doc \in Nat \cup {NoMatch}
      /\ ArgsLeft <=> call[h].arg \in DOMAIN args
      /\ reply # "none" => call[h].arg \in DOMAIN args
  BY InControl, ActiveFacts DEF Quiet
<1>2. \A i \in DOMAIN args : args[i] \in DOMAIN nodes
  BY <1>1, ArgFacts DEF ArgsOf
<1>3. \A j \in 1..(call[h].arg - 1) : /\ j \in DOMAIN args /\ args[j] \in SettledNodes
                                      /\ j > 1 => call[h].doc \in Passed[args[j]]
                                      /\ cache[args[j]] = call[h].doc /\ call[h].doc # NoMatch
                                      /\ Least(args[j], call[h].doc)
  <2> SUFFICES ASSUME NEW j \in 1..(call[h].arg - 1)
               PROVE  /\ j \in DOMAIN args /\ args[j] \in SettledNodes
                      /\ j > 1 => call[h].doc \in Passed[args[j]]
                      /\ cache[args[j]] = call[h].doc /\ call[h].doc # NoMatch
                      /\ Least(args[j], call[h].doc)
    OBVIOUS
  <2>1. j \in DOMAIN args /\ call[h].arg > 1
    BY <1>1
  <2>2. args[j] \in SettledNodes /\ (j > 1 => call[h].doc \in Passed[args[j]])
    BY <1>1 DEF Tried
  <2>3. cache[args[j]] = call[h].doc /\ call[h].doc # NoMatch
    BY <1>1, <2>1 DEF Frame, TriesAll
  <2>4. Least(args[j], call[h].doc)
    BY <1>2, <2>1, <2>3 DEF RankerInv, Fresh, Least
  <2>. QED BY <2>1, <2>2, <2>3, <2>4
<1>4. reply = "no" => /\ Callee(h) = args[call[h].arg] /\ args[call[h].arg] \in SettledNodes
                      /\ \A e : e \notin Reach[args[call[h].arg]]
                      /\ call[h].arg > 1 => call[h].doc \in Passed[args[call[h].arg]]
  <2> SUFFICES ASSUME reply = "no"
               PROVE  /\ Callee(h) = args[call[h].arg] /\ args[call[h].arg] \in SettledNodes
                      /\ \A e : e \notin Reach[args[call[h].arg]]
                      /\ call[h].arg > 1 => call[h].doc \in Passed[args[call[h].arg]]
    OBVIOUS
  <2>1. Answerer = args[call[h].arg] /\ Callee(h) = args[call[h].arg]
    BY DEF Answerer, Arg, Callee
  <2>2. args[call[h].arg] \in SettledNodes /\ \A e : e \notin Reach[args[call[h].arg]]
    BY <2>1 DEF Quiet, RankerInv, RepliesHold
  <2>. QED BY <1>1, <2>1, <2>2 DEF Tried
<1>5. ASSUME NEW i \in DOMAIN args, NEW d, \A j \in 1..(i - 1) : Least(args[j], d)
      PROVE  /\ args[i] \in SettledNodes
             /\ i > 1 => /\ Ahead(args[i], d)
                         /\ (\E e : e \in Reach[args[i]]) => d \in Reach[args[i]]
  <2>1. i \in Nat /\ i >= 1 /\ i <= Len(args)
    BY <1>1
  <2>2. i <= call[h].arg
    <3> SUFFICES ASSUME i > call[h].arg PROVE FALSE
      BY <1>1, <2>1
    <3>1. reply = "no" /\ call[h].arg \in 1..(i - 1)
      BY <1>1, <2>1
    <3>. QED BY <1>4, <1>5, <3>1 DEF Least
  <2>3. args[i] \in SettledNodes /\ (i > 1 => call[h].doc \in Passed[args[i]])
    <3>1. CASE i = call[h].arg
      BY <1>1, <1>4, <3>1
    <3>2. CASE i < call[h].arg
      BY <1>1, <1>3, <2>1, <3>2
    <3>. QED BY <1>1, <2>1, <2>2, <3>1, <3>2
  <2>4. i > 1 => d = call[h].doc
    <3> SUFFICES ASSUME i > 1 PROVE d = call[h].doc
      OBVIOUS
    <3>1. 1 \in 1..(i - 1) /\ 1 \in 1..(call[h].arg - 1)
      BY <1>1, <2>1, <2>2
    <3>2. Least(args[1], d) /\ Least(args[1], call[h].doc) /\ args[1] \in DOMAIN nodes
      BY <1>2, <1>3, <1>5, <3>1
    <3>3. d \in Nat /\ call[h].doc \in Nat /\ d <= call[h].doc /\ call[h].doc <= d
      BY <1>1, <3>2, StateFacts DEF Least
    <3>. QED BY <3>3
  <2>5. i > 1 => Ahead(args[i], d)
    BY <1>2, <2>3, <2>4 DEF Passed
  <2>6. i > 1 /\ (\E e : e \in Reach[args[i]]) => d \in Reach[args[i]]
    <3>1. CASE i = call[h].arg
      BY <1>1, <1>4, <3>1
    <3>2. CASE i < call[h].arg
      <4>1. i \in 1..(call[h].arg - 1)
        BY <1>1, <2>1, <3>2
      <4>. QED BY <1>3, <2>4, <4>1 DEF Least
    <3>. QED BY <1>1, <2>1, <2>2, <3>1, <3>2
  <2>. QED BY <2>3, <2>5, <2>6
<1> HIDE DEF args
<1>6. Supported(h, SettledNodes)
  BY <1>5 DEF Supported, AnyOf, args
<1>. QED BY <1>1, <1>6, SettledFacts

LEMMA OthersSettled ==
    ASSUME RankerInv, Quiet, here # 0, NEW h, h = here, call[h].method = "match",
           \/ nodes[h].kind = "score"
           \/ nodes[h].kind \in AnyOf /\ reply = "none" /\ ~ArgsLeft
    PROVE  h \in SettledNodes
<1>1. /\ RankerTypeOK /\ h \in DOMAIN nodes /\ Active(h) /\ Tried(h)
      /\ DOMAIN ArgsOf(h) = 1..Len(ArgsOf(h)) /\ Len(ArgsOf(h)) \in Nat
      /\ call[h].arg \in Nat /\ call[h].arg <= Len(ArgsOf(h)) + 1
      /\ ArgsLeft <=> call[h].arg \in DOMAIN ArgsOf(h) /\ call[h].arg >= 1
  BY InControl, ActiveFacts DEF Quiet
<1>2. ASSUME nodes[h].kind \in AnyOf, NEW i \in DOMAIN ArgsOf(h) PROVE ArgsOf(h)[i] \in SettledNodes
  <2>1. nodes[h].kind # "score" /\ ~ArgsLeft
    BY <1>2 DEF AnyOf
  <2>2. i \in 1..(call[h].arg - 1)
    BY <1>1, <2>1 DEF ArgsLeft
  <2>. QED BY <1>1, <2>2 DEF Tried
<1>3. Supported(h, SettledNodes)
  BY <1>2 DEF Supported, AnyOf
<1>. QED BY <1>1, <1>3, SettledFacts

\* AND that is settled asks arguments that are, which have its proposal or nothing.
LEMMA HeldBy ==
    ASSUME RankerInv, here # 0, NEW h, h = here, h \in SettledNodes, call[h].method = "match",
           nodes[h].kind = "and", call[h].arg \in DOMAIN ArgsOf(h), NEW c, c = Arg
    PROVE  /\ c \in SettledNodes
           /\ call[h].arg > 1 => /\ call[h].doc \in Passed[c]
                                 /\ (\E e : e \in Reach[c]) => call[h].doc \in Reach[c]
<1>1. /\ RankerTypeOK /\ IsTree(nodes) /\ h \in DOMAIN nodes /\ Frame(h)
      /\ c = ArgsOf(h)[call[h].arg] /\ call[h].arg \in Nat
      /\ DOMAIN ArgsOf(h) = 1..Len(ArgsOf(h)) /\ Len(ArgsOf(h)) \in Nat
      /\ call[h].doc \in Nat \cup {NoMatch} /\ c \in DOMAIN nodes
  BY InControl, ArgOfHere
<1>2. Supported(h, SettledNodes)
  BY <1>1, SettledFacts
<1>3. \A j \in 1..(call[h].arg - 1) : Least(ArgsOf(h)[j], call[h].doc) /\ call[h].doc # NoMatch
  <2> SUFFICES ASSUME NEW j \in 1..(call[h].arg - 1)
               PROVE  Least(ArgsOf(h)[j], call[h].doc) /\ call[h].doc # NoMatch
    OBVIOUS
  <2>1. j \in DOMAIN ArgsOf(h) /\ call[h].arg > 1
    BY <1>1
  <2>2. cache[ArgsOf(h)[j]] = call[h].doc /\ call[h].doc # NoMatch
    BY <1>1, <2>1 DEF Frame, TriesAll
  <2>3. ArgsOf(h)[j] \in DOMAIN nodes
    BY <1>1, <2>1, ArgFacts DEF ArgsOf
  <2>. QED BY <2>2, <2>3 DEF RankerInv, Fresh, Least
<1>4. /\ c \in SettledNodes
      /\ call[h].arg > 1 => /\ Ahead(c, call[h].doc)
                            /\ (\E e : e \in Reach[c]) => call[h].doc \in Reach[c]
  BY <1>1, <1>2, <1>3 DEF Supported
<1>5. call[h].arg > 1 => call[h].doc \in Nat
  <2> SUFFICES ASSUME call[h].arg > 1 PROVE call[h].doc \in Nat
    OBVIOUS
  <2>1. 1 \in 1..(call[h].arg - 1)
    BY <1>1
  <2>. QED BY <1>1, <1>3, <2>1
<1>. QED BY <1>1, <1>4, <1>5 DEF Passed

\* What AND advances is all below it that moves.
LEMMA AdvanceMoves ==
    ASSUME RankerInv, RankerStep, here # 0, NEW h, h = here, nodes[h].kind = "and",
           NEW i \in DOMAIN ArgsOf(h), NEW c, c = ArgsOf(h)[i],
           NEW d \in Nat, \A e \in Reach[h] : e >= d, AdvanceTo(c, d)
    PROVE  /\ Moves(Under(nodes, c)) /\ c \in DOMAIN nodes /\ Under(nodes, c) \subseteq Under(nodes, h)
           /\ at' = Advanced(nodes, at, c, d)
<1>1. /\ RankerTypeOK /\ IsTree(nodes) /\ AreIterators(nodes, at) /\ h \in DOMAIN nodes
  BY InControl
<1>2. c \in DOMAIN nodes /\ c > h /\ nodes[c].up = h /\ c \in Under(nodes, h)
  BY <1>1, ArgFacts DEF ArgsOf
<1>3. c # 1 /\ Under(nodes, c) \subseteq Under(nodes, h) /\ d \in Int
  <2>1. h \in Nat /\ h # 0 /\ c \in Nat
    BY <1>1, <1>2, StateFacts
  <2>. QED BY <1>1, <1>2, <2>1, BelowFacts
<1>4. at' = Advanced(nodes, at, c, d)
  BY DEF AdvanceTo, Advanced, Below, Under, List
<1>5. Reach' = MatchesFrom(nodes, Advanced(nodes, at, c, d)) /\ nodes' = nodes
  BY <1>4, NoneGoesBack DEF Reach
<1>6. \A m \in DOMAIN nodes \ Under(nodes, c) : \A e : e \in Reach'[m] <=> e \in Reach[m]
  BY <1>1, <1>2, <1>3, <1>5, AdvancedBeside DEF Reach
<1>7. \A m \in DOMAIN nodes \ Under(nodes, c) : at'[m] = at[m]
  BY <1>4 DEF Advanced
<1>8. \A m \in DOMAIN nodes : at[m] <= at'[m]
  BY NoneGoesBack
<1>. QED BY <1>2, <1>3, <1>4, <1>5, <1>6, <1>7, <1>8 DEF Moves

-----------------------------------------------------------------------------
(* The steps.                                                                *)
StaysQuiet == Quiet' /\ (ranker = "score" /\ ranker' = "score" => at' = at)

LEMMA NotBehind ==
    ASSUME RankerInv, here # 0, NEW h, h = here, call[h].method = "match", nodes[h].kind = "and",
           call[h].arg \in DOMAIN ArgsOf(h), call[h].arg > 1
    PROVE  call[h].doc \in Nat /\ \A e \in Reach[h] : e >= call[h].doc
<1> DEFINE a == ArgsOf(h)[1]
<1>1. /\ RankerTypeOK /\ IsTree(nodes) /\ h \in DOMAIN nodes /\ Frame(h)
      /\ call[h].doc \in Nat \cup {NoMatch} /\ call[h].arg \in Nat /\ 1 \in DOMAIN ArgsOf(h)
  BY InControl
<1>2. 1 \in 1..(call[h].arg - 1)
  BY <1>1
<1>3. call[h].doc # NoMatch /\ cache[a] = call[h].doc
  BY <1>1, <1>2 DEF Frame, TriesAll
<1>4. a \in DOMAIN nodes
  BY <1>1, ArgFacts DEF ArgsOf
<1>5. \A e \in Reach[a] : call[h].doc <= e
  BY <1>3, <1>4 DEF RankerInv, Fresh
<1>6. \A e \in Reach[h] : e \in Nat /\ e \in Reach[a]
  BY <1>1, StateFacts, ReachByKind
<1>. QED BY <1>1, <1>3, <1>5, <1>6

LEMMA AllAskStaysQuiet == ASSUME RankerInv, RankerTypeOK', Quiet, AllAsk PROVE StaysQuiet
<1> SUFFICES ASSUME NEW h, h = here, NEW c, c = Arg, NEW d, d = call[h].doc PROVE StaysQuiet
  OBVIOUS
<1>1. /\ h # 0 /\ call[h].method = "match" /\ nodes[h].kind = "and" /\ reply = "none" /\ ArgsLeft
      /\ Enter(c, "match") /\ nodes' = nodes /\ ranker' = ranker
      /\ \/ call[h].arg = 1 /\ at' = at
         \/ call[h].arg > 1 /\ AdvanceTo(c, d)
  BY DEF AllAsk, Running
<1>2. /\ RankerTypeOK /\ h \in DOMAIN nodes /\ Active(h) /\ call[h].arg \in DOMAIN ArgsOf(h)
      /\ c = ArgsOf(h)[call[h].arg]
  BY <1>1, InControl, ActiveFacts DEF Arg
<1>3. ranker = "score" => /\ c \in SettledNodes
                          /\ call[h].arg > 1 => d \in Passed[c]
  BY <1>1, <1>2, HeldBy DEF Quiet
<1>4. CASE call[h].arg = 1 /\ at' = at
  <2>1. Moves({}) /\ SettledNodes' = SettledNodes
    BY <1>1, <1>2, <1>4, Unmoved
  <2>2. Quiet'
    BY <1>1, <1>2, <1>3, <1>4, <2>1, QuietCall
  <2>. QED BY <1>4, <2>2 DEF StaysQuiet
<1>5. CASE call[h].arg > 1 /\ AdvanceTo(c, d)
  <2>1. d \in Nat /\ \A e \in Reach[h] : e >= d
    BY <1>1, <1>2, <1>5, NotBehind
  <2>2. /\ Moves(Under(nodes, c)) /\ c \in DOMAIN nodes /\ at' = Advanced(nodes, at, c, d)
    BY <1>1, <1>2, <1>5, <2>1, AdvanceMoves DEF RankerStep
  <2>3. d \in Passed'[c] /\ (d \in Passed[c] => at' = at)
    BY <1>1, <1>2, <2>1, <2>2, AdvancePasses
  <2>4. ranker = "score" => at' = at /\ SettledNodes' = SettledNodes
    BY <1>1, <1>2, <1>3, <1>5, <2>3, Unmoved
  <2>5. Quiet'
    BY <1>1, <1>2, <1>3, <2>2, <2>3, <2>4, QuietCall
  <2>. QED BY <2>4, <2>5 DEF StaysQuiet
<1>. QED BY <1>1, <1>4, <1>5

\* A settled operator that asks any, or scores, has settled arguments.
LEMMA ArgSettled ==
    ASSUME RankerInv, here # 0, NEW h, h = here, h \in SettledNodes,
           call[h].arg \in DOMAIN ArgsOf(h), NEW c, c = Arg,
           nodes[h].kind \in AnyOf \/ (nodes[h].kind = "and" /\ call[h].method = "score")
    PROVE  c \in SettledNodes
<1>1. /\ RankerTypeOK /\ IsTree(nodes) /\ h \in DOMAIN nodes /\ call[h].arg \in Nat
      /\ c = ArgsOf(h)[call[h].arg] /\ DOMAIN ArgsOf(h) = 1..Len(ArgsOf(h)) /\ Len(ArgsOf(h)) \in Nat
  BY InControl, ArgOfHere
<1>2. Supported(h, SettledNodes)
  BY <1>1, SettledFacts
<1>3. CASE nodes[h].kind \in AnyOf
  BY <1>1, <1>2, <1>3 DEF Supported
<1>4. CASE nodes[h].kind = "and" /\ call[h].method = "score"
  <2>1. cache[h] # NoMatch /\ \A i \in DOMAIN ArgsOf(h) : cache[ArgsOf(h)[i]] = cache[h]
    BY <1>4, ScoringFacts
  <2>2. \A j \in 1..(call[h].arg - 1) : Least(ArgsOf(h)[j], cache[h])
    <3> SUFFICES ASSUME NEW j \in 1..(call[h].arg - 1) PROVE Least(ArgsOf(h)[j], cache[h])
      OBVIOUS
    <3>1. j \in DOMAIN ArgsOf(h)
      BY <1>1
    <3>2. ArgsOf(h)[j] \in DOMAIN nodes
      BY <1>1, <3>1, ArgFacts DEF ArgsOf
    <3>. QED BY <2>1, <3>1, <3>2 DEF RankerInv, Fresh, Least
  <2>. QED BY <1>1, <1>2, <1>4, <2>2 DEF Supported
<1>. QED BY <1>3, <1>4

LEMMA AskStaysQuiet ==
    ASSUME RankerInv, RankerTypeOK', Quiet, MinAsk \/ ScoreAsk \/ ScoreVisit
    PROVE  StaysQuiet
<1> SUFFICES ASSUME NEW h, h = here, NEW c, c = Arg PROVE StaysQuiet
  OBVIOUS
<1>1. /\ h # 0 /\ ArgsLeft /\ nodes' = nodes /\ ranker' = ranker /\ at' = at
      /\ nodes[h].kind \in AnyOf \/ (nodes[h].kind = "and" /\ call[h].method = "score")
      /\ Enter(c, "match") \/ Enter(c, "score")
  BY DEF MinAsk, ScoreAsk, ScoreVisit, Scoring, Running, Present, Asked
<1>2. RankerTypeOK /\ call[h].arg \in DOMAIN ArgsOf(h) /\ Active(h) /\ h \in DOMAIN nodes
  BY <1>1, InControl, ActiveFacts
<1>3. ranker = "score" => c \in SettledNodes
  BY <1>1, <1>2, ArgSettled DEF Quiet
<1>4. Moves({}) /\ SettledNodes' = SettledNodes
  BY <1>1, <1>2, Unmoved
<1>5. ~(call[h].method = "match" /\ nodes[h].kind = "and")
  BY <1>1 DEF AnyOf
<1>6. Quiet'
  BY <1>1, <1>2, <1>3, <1>4, <1>5, QuietCall
<1>. QED BY <1>1, <1>6 DEF StaysQuiet

LEMMA AnswerStaysQuiet ==
    ASSUME RankerInv, RankerTypeOK', Quiet,
           \/ FirstHasMatch \/ AllMiss \/ AllEnd \/ MinEnd
           \/ ScoreUnranked \/ ScoreLeaf \/ ScoreEnd
    PROVE  StaysQuiet
<1> SUFFICES ASSUME NEW h, h = here PROVE StaysQuiet
  OBVIOUS
<1>1. h # 0 /\ UNCHANGED <<nodes, at, ranker>>
  BY DEF FirstHasMatch, AllMiss, AllEnd, MinEnd, ScoreUnranked, ScoreLeaf, ScoreEnd, Scoring, Running
<1>2. CASE FirstHasMatch \/ AllMiss \/ AllEnd \/ MinEnd
  <2>1. h \in SettledNodes
    <3>1. CASE FirstHasMatch \/ MinEnd
      BY <1>1, <3>1, OthersSettled DEF FirstHasMatch, MinEnd, Running
    <3>2. CASE AllMiss \/ AllEnd
      BY <1>1, <3>2, AllSettled DEF AllMiss, AllEnd, Running
    <3>. QED BY <1>2, <3>1, <3>2
  <2>2. Return("yes") \/ Return("no")
    BY <1>2 DEF FirstHasMatch, AllMiss, AllEnd, MinEnd
  <2>. QED BY <1>1, <2>1, <2>2, QuietReturn DEF StaysQuiet
<1>3. CASE ScoreUnranked \/ ScoreLeaf \/ ScoreEnd
  <2>1. Return("score")
    BY <1>3 DEF ScoreUnranked, ScoreLeaf, ScoreEnd
  <2>. QED BY <1>1, <2>1, QuietReturn DEF StaysQuiet
<1>. QED BY <1>2, <1>3

\* One more argument has answered.
LEMMA NextTried ==
    ASSUME RankerInv, Quiet, here # 0, NEW h, h = here, reply \in {"yes", "no"},
           call[h].method = "match", NEW doc, NEW parts, NextArg(doc, parts),
           UNCHANGED <<nodes, at>>,
           nodes[h].kind = "and" /\ call[h].arg > 1 => doc = call[h].doc
    PROVE  Tried(h)'
<1>1. /\ RankerTypeOK /\ h \in DOMAIN nodes /\ Active(h) /\ Tried(h) /\ call[h].arg \in DOMAIN ArgsOf(h)
      /\ call[h].arg \in Nat /\ DOMAIN call = DOMAIN nodes
      /\ Answerer = ArgsOf(h)[call[h].arg] /\ Callee(h) = ArgsOf(h)[call[h].arg]
  BY InControl, ActiveFacts DEF Quiet, RankerTypeOK, Answerer, Arg, Callee
<1>2. SettledNodes' = SettledNodes /\ Passed' = Passed /\ ArgsOf(h)' = ArgsOf(h)
  BY <1>1, Unmoved DEF ArgsOf
<1>3. /\ call'[h].arg = call[h].arg + 1 /\ call'[h].doc = doc /\ call'[h].method = "match"
      /\ here' = h /\ reply' = "none"
  BY <1>1 DEF NextArg
<1>4. ASSUME NEW j \in 1..call[h].arg
      PROVE  /\ ArgsOf(h)[j] \in SettledNodes
             /\ nodes[h].kind = "and" /\ j > 1 => doc \in Passed[ArgsOf(h)[j]]
  <2>1. CASE j = call[h].arg
    BY <1>1, <2>1 DEF Quiet, Tried
  <2>2. CASE j # call[h].arg
    <3>1. j \in 1..(call[h].arg - 1) /\ call[h].arg > 1
      BY <1>1, <2>2
    <3>. QED BY <1>1, <3>1 DEF Tried
  <2>. QED BY <2>1, <2>2
<1>5. call'[h].arg - 1 = call[h].arg
  BY <1>1, <1>3
<1>. QED BY <1>2, <1>3, <1>4, <1>5 DEF Tried

LEMMA NextStaysQuiet ==
    ASSUME RankerInv, RankerTypeOK', Quiet,
           AllAgrees \/ MinTake \/ MinMiss \/ ScoreSkip \/ ScoreAdd
    PROVE  StaysQuiet
<1> SUFFICES ASSUME NEW h, h = here PROVE StaysQuiet
  OBVIOUS
<1>1. /\ h # 0 /\ UNCHANGED <<nodes, at, ranker>>
      /\ \E doc, parts : NextArg(doc, parts)
  BY DEF AllAgrees, MinTake, MinMiss, ScoreSkip, ScoreAdd, Scoring, Running
<1>2. PICK doc, parts : NextArg(doc, parts)
  BY <1>1
<1>3. RankerTypeOK /\ h \in DOMAIN nodes /\ DOMAIN call = DOMAIN nodes
  BY <1>1, InControl DEF RankerTypeOK
<1>4. Tried(h)'
  <2>1. CASE AllAgrees
    BY <1>1, <2>1, NextTried DEF AllAgrees, Running
  <2>2. CASE MinTake \/ MinMiss
    <3>1. nodes[h].kind # "and" /\ reply \in {"yes", "no"} /\ call[h].method = "match"
      BY <2>2 DEF MinTake, MinMiss, Running, AnyOf
    <3>. QED BY <1>1, <1>2, <3>1, NextTried
  <2>3. CASE ScoreSkip \/ ScoreAdd
    <3>1. call[h].method = "score"
      BY <2>3 DEF ScoreSkip, ScoreAdd, Scoring, Running
    <3>2. call'[h].method = "score"
      BY <1>2, <1>3, <3>1 DEF NextArg
    <3>. QED BY <3>2 DEF Tried
  <2>. QED BY <2>1, <2>2, <2>3
<1>5. Moves({}) /\ SettledNodes' = SettledNodes
  BY <1>1, <1>3, Unmoved
<1>6. Quiet'
  <2>1. /\ here' = h /\ reply' = "none"
        /\ call' = [call EXCEPT ![h] = [method |-> call[h].method, arg |-> call[h].arg + 1,
                                        doc |-> doc, parts |-> parts]]
    BY <1>2 DEF NextArg
  <2>. QED BY <1>1, <1>4, <1>5, <2>1, QuietGoOn
<1>. QED BY <1>1, <1>6 DEF StaysQuiet

\* While the ranker scores, no AND tries again.
LEMMA RetryStaysQuiet == ASSUME RankerInv, RankerTypeOK', Quiet, AllRetry PROVE StaysQuiet
<1> SUFFICES ASSUME NEW h, h = here, NEW c, c = ArgsOf(h)[1], NEW a, a = Arg,
                    NEW d, d = cache[Arg]
             PROVE  StaysQuiet
  OBVIOUS
<1>1. /\ h # 0 /\ call[h].method = "match" /\ nodes[h].kind = "and" /\ reply = "yes"
      /\ call[h].arg > 1 /\ d # call[h].doc
      /\ AdvanceTo(c, d) /\ call' = [call EXCEPT ![h] = Locals("match")]
      /\ reply' = "none" /\ here' = h /\ UNCHANGED <<nodes, ranker>>
  BY DEF AllRetry, Running
<1>2. /\ RankerTypeOK /\ IsTree(nodes) /\ h \in DOMAIN nodes /\ Active(h) /\ Frame(h)
      /\ call[h].arg \in DOMAIN ArgsOf(h) /\ 1 \in DOMAIN ArgsOf(h)
      /\ a = ArgsOf(h)[call[h].arg] /\ a = Callee(h) /\ DOMAIN call = DOMAIN nodes
      /\ a \in DOMAIN nodes
  BY <1>1, InControl, ActiveFacts, ArgOfHere DEF RankerTypeOK
<1>3. d # NoMatch /\ d \in Nat /\ d \in Reach[a] /\ \A e \in Reach[a] : d <= e
  <2>1. d # NoMatch
    BY <1>1 DEF RankerInv, RepliesHold, Answerer
  <2>. QED BY <1>2, <2>1, StateFacts DEF RankerInv, Fresh
<1>4. ranker # "score"
  <2> SUFFICES ASSUME ranker = "score" PROVE FALSE
    OBVIOUS
  <2>1. call[h].doc \in Reach[a]
    BY <1>1, <1>2, <1>3, HeldBy DEF Quiet
  <2>2. d >= call[h].doc
    BY <1>1, <1>2, <1>3 DEF Frame, TriesAll
  <2>. QED BY <1>1, <1>2, <1>3, <2>1, <2>2, StateFacts
<1>5. \A e \in Reach[h] : e >= d
  <2>1. \A e \in Reach[h] : e \in Nat
    BY <1>2, StateFacts
  <2>2. \A e \in Reach[h] : \A i \in DOMAIN ArgsOf(h) : e \in Reach[ArgsOf(h)[i]]
    BY <1>1, <1>2, ReachByKind
  <2>. QED BY <1>2, <1>3, <2>1, <2>2
<1>6. Moves(Under(nodes, c)) /\ Under(nodes, c) \subseteq Under(nodes, h)
  BY <1>1, <1>2, <1>3, <1>5, AdvanceMoves DEF RankerStep
<1>7. Tried(h)'
  <2>1. call'[h].arg = 1
    BY <1>1, <1>2 DEF Locals
  <2>. QED BY <2>1 DEF Tried
<1>8. Quiet'
  BY <1>1, <1>4, <1>6, <1>7, QuietGoOn
<1>. QED BY <1>4, <1>8 DEF StaysQuiet

\* Without an operator in control nothing is claimed of any.
LEMMA QuietAtTop ==
    ASSUME IsTree(nodes'), here' = 0, reply' = "none"
    PROVE  Quiet'
<1>1. ASSUME NEW n \in DOMAIN nodes' PROVE ~Active(n)'
  <2>1. n \in Nat \ {0} /\ nodes'[n].last \in Nat
    BY TreeFacts
  <2>. QED BY <2>1 DEF Active, Under
<1>. QED BY <1>1 DEF Quiet

LEMMA TopStaysQuiet ==
    ASSUME RankerInv, RankerTypeOK', Quiet, Raise \/ RankMatch \/ RankScore \/ RankAdd \/ RankEnd
    PROVE  StaysQuiet
<1>1. nodes' = nodes /\ IsTree(nodes') /\ RankerTypeOK
  BY StateFacts DEF RankerInv, Raise, RankMatch, RankScore, RankAdd, RankEnd, Running, Ranking
<1>2. CASE Raise \/ RankAdd \/ RankEnd
  <2>1. here' = 0 /\ reply' = "none" /\ ~(ranker = "score" /\ ranker' = "score")
    BY <1>2 DEF Raise, RankAdd, RankEnd, Ranking
  <2>. QED BY <1>1, <2>1, QuietAtTop DEF StaysQuiet
<1>3. CASE RankMatch \/ RankScore
  <2>1. /\ here = 0 /\ ranker = "match" /\ at' = at /\ here' = 1 /\ reply' = "none"
        /\ \E method : call' = [call EXCEPT ![1] = Locals(method)]
        /\ ranker' = "score" => reply = "yes"
    BY <1>3 DEF RankMatch, RankScore, Ranking, Enter
  <2>2. 1 \in DOMAIN nodes /\ DOMAIN call = DOMAIN nodes
        /\ \A n \in DOMAIN nodes : 1 \in Under(nodes, n) => n = 1
    BY <2>1, AtTheTop
  <2>3. call'[1].arg = 1
    BY <2>1, <2>2 DEF Locals
  <2>4. Tried(1)'
    BY <2>3 DEF Tried
  <2>5. SettledNodes' = SettledNodes
    BY <1>1, <2>1, Unmoved
  <2>6. ranker' = "score" => 1 \in SettledNodes'
    BY <2>1, <2>5 DEF Quiet, Answerer
  <2>7. \A n \in DOMAIN nodes : Active(n)' => n = 1
    BY <1>1, <2>1, <2>2 DEF Active, Under
  <2>8. Quiet'
    BY <1>1, <2>1, <2>4, <2>6, <2>7 DEF Quiet
  <2>. QED BY <2>1, <2>8 DEF StaysQuiet
<1>. QED BY <1>2, <1>3

LEMMA RankerStaysQuiet ==
    ASSUME RankerInv, Quiet, [RankerNext]_rankerVars
    PROVE  StaysQuiet
<1>1. RankerTypeOK' /\ RankerTypeOK
  BY RankerGoesOn DEF RankerInv
<1>2. CASE RankerStep
  BY <1>1, <1>2, AllAskStaysQuiet, AskStaysQuiet, AnswerStaysQuiet, NextStaysQuiet, RetryStaysQuiet,
     TopStaysQuiet DEF RankerStep
<1>3. CASE StartRanking(nodes', retrievalModel')
  <2>1. IsTree(nodes') /\ here' = 0 /\ reply' = "none" /\ ranker # "score"
    BY <1>1, <1>3, StateFacts DEF StartRanking, RankerTypeOK
  <2>. QED BY <2>1, QuietAtTop DEF StaysQuiet
<1>4. CASE UNCHANGED rankerVars
  <2>1. /\ nodes' = nodes /\ at' = at /\ call' = call /\ here' = here /\ reply' = reply
        /\ ranker' = ranker
    BY <1>4 DEF rankerVars
  <2>2. SettledNodes' = SettledNodes /\ Passed' = Passed
    BY <1>1, <2>1, Unmoved
  <2>3. Quiet'
    BY <2>1, <2>2 DEF Quiet, Tried, Active, Under, Answerer, Arg, Callee, ArgsOf
  <2>. QED BY <2>1, <2>3 DEF StaysQuiet
<1>. QED BY <1>2, <1>3, <1>4 DEF RankerNext

(* getScore moves no iterator (QrySopOr.py:86, QrySopSum.py:54, QrySopWsum.py:54):
   an operator that has answered asks only what has answered too, and advances
   what is past the document already.                                        *)
THEOREM ScoringIsStill == RankerSpec => ScoringMovesNothing
<1>1. RankerInit => Quiet
  <2> SUFFICES ASSUME RankerInit PROVE Quiet
    OBVIOUS
  <2>1. \A n \in DOMAIN nodes : ~Active(n)
    BY DEF RankerInit, Active, Under
  <2>. QED BY <2>1 DEF Quiet, RankerInit
<1>2. RankerInv /\ Quiet /\ [RankerNext]_rankerVars => StaysQuiet
  BY RankerStaysQuiet
<1>3. StaysQuiet => Quiet'
  BY DEF StaysQuiet
<1>4. StaysQuiet => [ranker = "score" /\ ranker' = "score" => UNCHANGED at]_rankerVars
  BY DEF StaysQuiet
<1>. QED BY <1>1, <1>2, <1>3, <1>4, RankerIsSafe, PTL DEF RankerSpec, ScoringMovesNothing
=============================================================================
