--------------------------- MODULE PositionalProofs ---------------------------
(* NEAR, WINDOW and SYN are exact, for any number of arguments, any inverted
   lists and any distance, and their loops end.

   First the greedy search in one document: it is sound and loses no match.  The
   invariant is the "greedy stays ahead" argument stated for the next match:
   however a family of Len(taken) + 1 disjoint matches is chosen, its last one
   lies at or after every cursor.  A cursor moves alone only when no such match
   can use the position it leaves, and after a match the family is one longer.

   Then the loop over documents.  The invariant of NEAR and WINDOW says where a
   document can be that all arguments share and that holds a match: in the list
   already, or still before every iterator, and those in the list come before all
   that the first argument has before it.  That of SYN says that what any
   iterator has passed is in the list, whole.                                *)
EXTENDS PositionalOperator, DataFacts

Families(m) == {f \in [1..m -> Matches] : Disjoint(f, m)}

\* The positions left behind are those of matches already taken, in order.
TakenBehindCursors ==
    /\ \A k \in DOMAIN taken : \A i \in Args : taken[k][i] < cursor[i]
    /\ \A a, b \in DOMAIN taken : a < b => \A i \in Args : taken[a][i] < taken[b][i]
    /\ \A k \in DOMAIN taken : taken[k] \in Matches

\* However matches are chosen, the next one is still ahead of the cursors.
NextIsAhead ==
    \A f \in Families(Len(taken) + 1) :
        \A i \in Args : cursor[i] <= f[Len(taken) + 1][i]

MatcherInv == MatcherTypeOK /\ TakenBehindCursors /\ NextIsAhead

-----------------------------------------------------------------------------
LEMMA ListFacts ==
    ASSUME MatcherTypeOK
    PROVE  /\ Len(lists) \in Nat \ {0}
           /\ Args \subseteq Nat \ {0}
           /\ \A i \in Args : /\ lists[i] \in Seq(Int)
                              /\ Len(lists[i]) \in Nat
                              /\ \A p \in Positions(i) : lists[i][p] \in Int
                              /\ Ascending(lists[i])
  BY DEF MatcherTypeOK, IsInput, Args, Positions

LEMMA MatchFacts ==
    ASSUME MatcherTypeOK, NEW v \in Matches
    PROVE  /\ v \in [Args -> Nat \ {0}]
           /\ \A i \in Args : v[i] \in Positions(i) /\ At(v, i) \in Int
<1>1. v \in Vectors
  BY DEF Matches
<1>2. \A i \in Args : v[i] \in Positions(i) /\ v[i] \in Nat \ {0}
  <2> SUFFICES ASSUME NEW i \in Args PROVE v[i] \in Positions(i) /\ v[i] \in Nat \ {0}
    OBVIOUS
  <2>1. v[i] \in Positions(i)
    BY <1>1 DEF Vectors
  <2>2. Len(lists[i]) \in Nat
    BY ListFacts
  <2>. QED BY <2>1, <2>2 DEF Positions
<1>3. v \in [Args -> Nat \ {0}]
  BY <1>1, <1>2 DEF Vectors
<1> QED
  BY <1>2, <1>3, ListFacts DEF At

\* The cursors, while no list has run out, are themselves a vector of positions.
LEMMA CursorFacts ==
    ASSUME MatcherTypeOK, ~OutOfDoc
    PROVE  /\ cursor \in Vectors
           /\ \A i \in Args : cursor[i] \in Positions(i) /\ At(cursor, i) \in Int
<1>1. \A i \in Args : cursor[i] \in Positions(i)
  BY ListFacts DEF MatcherTypeOK, OutOfDoc, Positions
<1>2. cursor \in [Args -> UNION {Positions(i) : i \in Args}]
  BY <1>1 DEF MatcherTypeOK
<1> QED
  BY <1>1, <1>2, ListFacts DEF Vectors, At

\* A cursor further on in a list stands at a larger position.
LEMMA LaterIsLarger ==
    ASSUME MatcherTypeOK, NEW i \in Args,
           NEW p \in Positions(i), NEW q \in Positions(i), p <= q
    PROVE  lists[i][p] <= lists[i][q]
<1>1. p \in DOMAIN lists[i] /\ q \in DOMAIN lists[i]
  BY ListFacts DEF Positions
<1>2. CASE p = q
  BY <1>2, ListFacts
<1>3. CASE p < q
  BY <1>1, <1>3, ListFacts DEF Ascending
<1> QED
  BY <1>2, <1>3 DEF Positions

-----------------------------------------------------------------------------
\* What each lone move of a cursor leaves behind cannot be used by a match
\* that lies at or after the cursors.
LEMMA SkipTermSafe ==
    ASSUME MatcherTypeOK, ~OutOfDoc, op = "near",
           NEW i \in Args \ {1}, At(cursor, i) <= At(cursor, i - 1),
           NEW v \in Matches, \A j \in Args : cursor[j] <= v[j]
    PROVE  cursor[i] # v[i]
<1> SUFFICES ASSUME cursor[i] = v[i] PROVE FALSE
  OBVIOUS
<1>1. i \in Args /\ i - 1 \in Args
  BY ListFacts DEF Args
<1>2. At(v, i - 1) < At(v, i)
  BY <1>1 DEF Matches, NearMatch, Follows
<1>3. At(cursor, i - 1) <= At(v, i - 1)
  BY <1>1, CursorFacts, MatchFacts, LaterIsLarger DEF At
<1>4. At(v, i) = At(cursor, i)
  BY DEF At
<1> QED
  BY <1>1, <1>2, <1>3, <1>4, CursorFacts, MatchFacts

LEMMA SkipPreviousSafe ==
    ASSUME MatcherTypeOK, ~OutOfDoc, op = "near",
           NEW i \in Args \ {1}, ~Follows(cursor, i), At(cursor, i) > At(cursor, i - 1),
           NEW v \in Matches, \A j \in Args : cursor[j] <= v[j]
    PROVE  cursor[i - 1] # v[i - 1]
<1> SUFFICES ASSUME cursor[i - 1] = v[i - 1] PROVE FALSE
  OBVIOUS
<1>1. i \in Args /\ i - 1 \in Args
  BY ListFacts DEF Args
<1>2. At(v, i) - At(v, i - 1) <= n
  BY <1>1 DEF Matches, NearMatch, Follows
<1>3. At(cursor, i) <= At(v, i)
  BY <1>1, CursorFacts, MatchFacts, LaterIsLarger DEF At
<1>4. At(v, i - 1) = At(cursor, i - 1)
  BY DEF At
<1>5. At(cursor, i) - At(cursor, i - 1) > n
  BY <1>1, CursorFacts DEF Follows, MatcherTypeOK, IsInput
<1>6. n \in Int
  BY DEF MatcherTypeOK, IsInput
<1> QED
  BY <1>1, <1>2, <1>3, <1>4, <1>5, <1>6, CursorFacts, MatchFacts

LEMMA WindowSkipSafe ==
    ASSUME MatcherTypeOK, ~OutOfDoc, op = "window", ~WindowMatch(cursor),
           NEW i \in Args, FirstSmallest(i),
           NEW v \in Matches, \A j \in Args : cursor[j] <= v[j]
    PROVE  cursor[i] # v[i]
<1> SUFFICES ASSUME cursor[i] = v[i] PROVE FALSE
  OBVIOUS
<1>1. PICK j \in Args, k \in Args : ~(At(cursor, j) - At(cursor, k) < n)
  BY DEF WindowMatch
<1>2. At(cursor, i) <= At(cursor, k)
  BY DEF FirstSmallest
<1>3. At(v, j) - At(v, i) < n
  BY DEF Matches, WindowMatch
<1>4. At(cursor, j) <= At(v, j)
  BY CursorFacts, MatchFacts, LaterIsLarger DEF At
<1>5. At(v, i) = At(cursor, i)
  BY DEF At
<1>6. n \in Int
  BY DEF MatcherTypeOK, IsInput
<1> QED
  BY <1>1, <1>2, <1>3, <1>4, <1>5, <1>6, CursorFacts, MatchFacts
-----------------------------------------------------------------------------
\* The operator, its distance and the lists stay for the whole document, and
\* with them what a match is.
LEMMA SameMatches ==
    ASSUME UNCHANGED <<op, n, lists>>
    PROVE  Matches' = Matches /\ Args' = Args
<1>1. lists' = lists /\ op' = op /\ n' = n
  OBVIOUS
<1>2. Vectors' = Vectors
  BY <1>1 DEF Vectors, Args, Positions
<1> QED
  BY <1>1, <1>2 DEF Matches, NearMatch, WindowMatch, Follows, At, Args

\* One cursor moves past a position that no further match can use.
LEMMA LoneMovePreserves ==
    ASSUME MatcherInv, ~OutOfDoc, UNCHANGED <<op, n, lists, searching>>,
           NEW i \in Args, Advance(i),
           \A v \in Matches : (\A j \in Args : cursor[j] <= v[j]) => cursor[i] # v[i]
    PROVE  MatcherInv'
<1> USE DEF MatcherInv
<1>1. Matches' = Matches /\ Args' = Args /\ taken' = taken
  BY SameMatches DEF Advance
<1>2. \A j \in Args : cursor[j] \in Nat \ {0} /\ cursor[j] <= Len(lists[j])
  BY CursorFacts, ListFacts DEF MatcherTypeOK, Positions
<1>3. \A j \in Args : cursor'[j] = IF j = i THEN cursor[j] + 1 ELSE cursor[j]
  BY <1>2 DEF Advance, MatcherTypeOK
<1>4. cursor' \in [Args -> Nat \ {0}]
  BY <1>2 DEF Advance, MatcherTypeOK
<1>5. MatcherTypeOK'
  <2>1. \A j \in Args : cursor'[j] <= Len(lists[j]) + 1
    BY <1>2, <1>3, ListFacts
  <2> QED
    BY <1>1, <1>4, <2>1 DEF MatcherTypeOK, IsInput
<1>6. TakenBehindCursors'
  <2>1. \A k \in DOMAIN taken : taken[k] \in Matches
    BY DEF TakenBehindCursors
  <2>2. \A k \in DOMAIN taken : \A j \in Args : taken[k][j] < cursor'[j]
    BY <1>2, <1>3, <2>1, MatchFacts DEF TakenBehindCursors
  <2> QED
    BY <1>1, <2>2 DEF TakenBehindCursors
<1>7. NextIsAhead'
  <2> DEFINE last == Len(taken) + 1
  <2> SUFFICES ASSUME NEW f \in Families(last), NEW j \in Args
               PROVE  cursor'[j] <= f[last][j]
    BY <1>1 DEF NextIsAhead, Families, Disjoint
  <2>1. Len(taken) \in Nat /\ last \in 1..last
    BY DEF MatcherTypeOK
  <2>2. f[last] \in Matches
    BY <2>1 DEF Families
  <2>3. \A k \in Args : cursor[k] <= f[last][k]
    BY DEF NextIsAhead
  <2>4. cursor[i] # f[last][i]
    BY <2>2, <2>3
  <2>5. \A k \in Args : f[last][k] \in Nat
    BY <2>2, MatchFacts
  <2> QED
    BY <1>2, <1>3, <2>3, <2>4, <2>5
<1> QED
  BY <1>5, <1>6, <1>7

\* A match is taken: every cursor moves, and a family one longer leads past it.
LEMMA TakePreserves ==
    ASSUME MatcherInv, ~OutOfDoc, UNCHANGED <<op, n, lists, searching>>,
           cursor \in Matches, Take
    PROVE  MatcherInv'
<1> USE DEF MatcherInv
<1>1. Matches' = Matches /\ Args' = Args
  BY SameMatches
<1>2. \A j \in Args : cursor[j] \in Nat \ {0} /\ cursor[j] <= Len(lists[j])
  BY CursorFacts, ListFacts DEF MatcherTypeOK, Positions
<1>3. \A j \in Args : cursor'[j] = cursor[j] + 1
  BY DEF Take
<1>4. /\ Len(taken) \in Nat /\ taken' = Append(taken, cursor)
      /\ Len(taken') = Len(taken) + 1
      /\ \A k \in DOMAIN taken : taken'[k] = taken[k]
      /\ taken'[Len(taken) + 1] = cursor
      /\ DOMAIN taken = 1..Len(taken) /\ DOMAIN taken' = 1..(Len(taken) + 1)
  BY DEF Take, MatcherTypeOK
<1>5. MatcherTypeOK'
  <2>1. cursor' \in [Args -> Nat \ {0}]
    BY <1>2 DEF Take
  <2>2. \A j \in Args : cursor'[j] <= Len(lists[j]) + 1
    BY <1>2, <1>3, ListFacts
  <2>3. taken' \in Seq([Args -> Nat \ {0}])
    BY <1>4 DEF MatcherTypeOK
  <2> QED
    BY <1>1, <2>1, <2>2, <2>3 DEF MatcherTypeOK, IsInput
<1>6. TakenBehindCursors'
  <2>1. \A k \in DOMAIN taken : taken[k] \in Matches
    BY DEF TakenBehindCursors
  <2>2. \A k \in DOMAIN taken' : taken'[k] \in Matches
    BY <1>4, <2>1
  <2>3. \A k \in DOMAIN taken' : \A j \in Args : taken'[k][j] < cursor'[j]
    BY <1>2, <1>3, <1>4, <2>1, MatchFacts DEF TakenBehindCursors
  <2>4. ASSUME NEW a \in DOMAIN taken', NEW b \in DOMAIN taken', a < b, NEW j \in Args
        PROVE  taken'[a][j] < taken'[b][j]
    <3>1. a \in DOMAIN taken
      BY <1>4, <2>4
    <3>2. CASE b \in DOMAIN taken
      BY <1>4, <2>4, <3>1, <3>2 DEF TakenBehindCursors
    <3>3. CASE b = Len(taken) + 1
      BY <1>4, <3>1, <3>3 DEF TakenBehindCursors
    <3> QED
      BY <1>4, <3>2, <3>3
  <2> QED
    BY <1>1, <2>2, <2>3, <2>4 DEF TakenBehindCursors
<1>7. NextIsAhead'
  <2> DEFINE m == Len(taken) + 1
  <2> SUFFICES ASSUME NEW f \in Families(m + 1), NEW j \in Args
               PROVE  cursor'[j] <= f[m + 1][j]
    BY <1>1, <1>4 DEF NextIsAhead, Families, Disjoint
  <2> DEFINE g == [k \in 1..m |-> f[k]]
  <2>1. m \in Nat /\ m \in 1..m /\ m \in 1..(m + 1 - 1) /\ m + 1 \in 1..(m + 1)
    BY <1>4
  <2>2. f \in [1..(m + 1) -> Matches] /\ Disjoint(f, m + 1)
    BY DEF Families
  <2>3. g \in Families(m)
    <3>1. g \in [1..m -> Matches]
      BY <2>1, <2>2
    <3>2. \A k \in 1..(m - 1) : \A a \in Args : f[k][a] < f[k + 1][a]
      BY <2>1, <2>2 DEF Disjoint
    <3>3. \A k \in 1..(m - 1) : g[k] = f[k] /\ g[k + 1] = f[k + 1]
      BY <2>1
    <3> QED
      BY <3>1, <3>2, <3>3 DEF Families, Disjoint
  <2>4. cursor[j] <= g[m][j]
    BY <2>3 DEF NextIsAhead
  <2>5. g[m] = f[m]
    BY <2>1
  <2>6. f[m][j] < f[m + 1][j]
    BY <2>1, <2>2 DEF Disjoint
  <2>7. f[m] \in Matches /\ f[m + 1] \in Matches
    BY <2>1, <2>2
  <2>8. f[m][j] \in Nat /\ f[m + 1][j] \in Nat
    BY <2>7, MatchFacts
  <2> QED
    BY <1>2, <1>3, <2>4, <2>5, <2>6, <2>8
<1> QED
  BY <1>5, <1>6, <1>7

\* A new document: nothing is taken, and a position's number is at least 1.
LEMMA BeginEstablishes ==
    ASSUME NEW o, NEW d, NEW ls, Begin(o, d, ls)
    PROVE  MatcherInv'
<1>1. /\ op' = o /\ n' = d /\ lists' = ls /\ taken' = <<>> /\ searching' = TRUE
      /\ cursor' = [i \in 1..Len(ls) |-> 1] /\ IsInput(o, d, ls)
  BY DEF Begin, Load
<1>2. Len(ls) \in Nat /\ \A i \in 1..Len(ls) : Len(ls[i]) \in Nat
  BY <1>1 DEF IsInput
<1>3. MatcherTypeOK'
  <2>1. IsInput(op, n, lists)' /\ Args' = 1..Len(ls)
    BY <1>1 DEF IsInput, Args, Ascending
  <2>2. cursor' \in [1..Len(ls) -> Nat \ {0}]
    BY <1>1
  <2>3. \A i \in 1..Len(ls) : cursor'[i] <= Len(ls[i]) + 1
    BY <1>1, <1>2
  <2>4. taken' \in Seq([1..Len(ls) -> Nat \ {0}])
    BY <1>1
  <2> QED
    BY <1>1, <2>1, <2>2, <2>3, <2>4 DEF MatcherTypeOK
<1>4. TakenBehindCursors'
  BY <1>1 DEF TakenBehindCursors
<1>5. NextIsAhead'
  <2> SUFFICES ASSUME NEW f \in Families(Len(taken) + 1)', NEW i \in Args'
               PROVE  cursor'[i] <= f[Len(taken') + 1][i]
    BY DEF NextIsAhead
  <2>1. Len(taken') = 0 /\ cursor'[i] = 1
    BY <1>1 DEF Args
  <2>2. f[1] \in Matches'
    BY <2>1 DEF Families
  <2>3. f[1][i] \in 1..Len(ls[i])
    BY <1>1, <2>2 DEF Matches, Vectors, Positions
  <2> QED
    BY <2>1, <2>3
<1> QED
  BY <1>3, <1>4, <1>5 DEF MatcherInv

LEMMA InitEstablishes == MatcherInit => MatcherInv
<1> SUFFICES ASSUME MatcherInit PROVE MatcherInv
  OBVIOUS
<1>1. /\ op = "near" /\ n = 1 /\ lists = << <<>> >> /\ cursor = <<1>>
      /\ taken = <<>> /\ searching = FALSE
  BY DEF MatcherInit
<1>2. Len(lists) = 1 /\ Args = {1} /\ lists[1] = <<>> /\ Len(lists[1]) = 0
  BY <1>1 DEF Args
<1>3. MatcherTypeOK
  <2>1. lists \in Seq(Seq(Int)) /\ lists # <<>> /\ DOMAIN lists = {1}
    BY <1>1
  <2>2. \A i \in DOMAIN lists : Ascending(lists[i])
    BY <1>2, <2>1 DEF Ascending
  <2>3. cursor \in [{1} -> Nat \ {0}] /\ cursor[1] = 1
    BY <1>1
  <2>4. taken \in Seq([Args -> Nat \ {0}])
    BY <1>1
  <2>5. IsInput(op, n, lists)
    <3>1. op \in {"near", "window"} /\ n \in Int
      BY <1>1
    <3> QED
      BY <2>1, <2>2, <3>1 DEF IsInput
  <2>6. \A i \in Args : cursor[i] <= Len(lists[i]) + 1
    BY <1>2, <2>3
  <2>7. searching \in BOOLEAN
    BY <1>1
  <2> QED
    BY <1>2, <2>3, <2>4, <2>5, <2>6, <2>7 DEF MatcherTypeOK
<1>4. TakenBehindCursors
  BY <1>1 DEF TakenBehindCursors
<1>5. Vectors = {}
  BY <1>2 DEF Vectors, Positions
<1>6. Families(Len(taken) + 1) = {}
  BY <1>1, <1>5 DEF Families, Matches
<1> QED
  BY <1>3, <1>4, <1>6 DEF MatcherInv, NextIsAhead

LEMMA StepPreserves == MatcherInv /\ [MatcherNext]_matcherVars => MatcherInv'
<1> SUFFICES ASSUME MatcherInv, [MatcherNext]_matcherVars PROVE MatcherInv'
  OBVIOUS
<1>0. MatcherTypeOK
  BY DEF MatcherInv
<1>1. CASE Begin(op', n', lists')
  BY <1>1, BeginEstablishes
<1>2. CASE NearTake
  <2>1. cursor \in Matches
    BY <1>0, <1>2, CursorFacts DEF NearTake, Searching, Matches
  <2> QED
    BY <1>2, <2>1, TakePreserves DEF NearTake, Searching
<1>3. CASE NearSkipTerm
  <2>1. PICK i \in Args : FirstBreak(i) /\ At(cursor, i) <= At(cursor, i - 1) /\ Advance(i)
    BY <1>3 DEF NearSkipTerm
  <2>2. op = "near" /\ ~OutOfDoc /\ UNCHANGED <<op, n, lists, searching>>
    BY <1>3 DEF NearSkipTerm, Searching
  <2>3. \A v \in Matches : (\A j \in Args : cursor[j] <= v[j]) => cursor[i] # v[i]
    BY <1>0, <2>1, <2>2, SkipTermSafe DEF FirstBreak
  <2> QED
    BY <2>1, <2>2, <2>3, LoneMovePreserves
<1>4. CASE NearSkipPrevious
  <2>1. PICK i \in Args : FirstBreak(i) /\ At(cursor, i) > At(cursor, i - 1) /\ Advance(i - 1)
    BY <1>4 DEF NearSkipPrevious
  <2>2. op = "near" /\ ~OutOfDoc /\ UNCHANGED <<op, n, lists, searching>>
    BY <1>4 DEF NearSkipPrevious, Searching
  <2>3. i \in Args \ {1} /\ ~Follows(cursor, i) /\ i - 1 \in Args
    BY <1>0, <2>1, ListFacts DEF FirstBreak, Args
  <2>4. \A v \in Matches :
            (\A j \in Args : cursor[j] <= v[j]) => cursor[i - 1] # v[i - 1]
    BY <1>0, <2>1, <2>2, <2>3, SkipPreviousSafe
  <2> QED
    BY <2>1, <2>2, <2>3, <2>4, LoneMovePreserves
<1>5. CASE WindowTake
  <2>1. cursor \in Matches
    BY <1>0, <1>5, CursorFacts DEF WindowTake, Searching, Matches
  <2> QED
    BY <1>5, <2>1, TakePreserves DEF WindowTake, Searching
<1>6. CASE WindowSkip
  <2>1. PICK i \in Args : FirstSmallest(i) /\ Advance(i)
    BY <1>6 DEF WindowSkip
  <2>2. /\ op = "window" /\ ~OutOfDoc /\ ~WindowMatch(cursor)
        /\ UNCHANGED <<op, n, lists, searching>>
    BY <1>6 DEF WindowSkip, Searching
  <2>3. \A v \in Matches : (\A j \in Args : cursor[j] <= v[j]) => cursor[i] # v[i]
    BY <1>0, <2>1, <2>2, WindowSkipSafe
  <2> QED
    BY <2>1, <2>2, <2>3, LoneMovePreserves
<1>7. CASE End \/ UNCHANGED matcherVars
  <2>1. UNCHANGED <<op, n, lists, cursor, taken>> /\ searching' \in BOOLEAN
    BY <1>0, <1>7 DEF End, matcherVars, MatcherTypeOK
  <2>2. Matches' = Matches /\ Args' = Args
    BY <2>1, SameMatches
  <2> QED
    BY <2>1, <2>2 DEF MatcherInv, MatcherTypeOK, IsInput, TakenBehindCursors,
                      NextIsAhead, Families, Disjoint
<1> QED
  BY <1>1, <1>2, <1>3, <1>4, <1>5, <1>6, <1>7 DEF MatcherNext, Step

THEOREM MatcherIsSafe == MatcherSpec => []MatcherInv
<1> QED
  BY InitEstablishes, StepPreserves, PTL DEF MatcherSpec

-----------------------------------------------------------------------------
(* Every search is asked for well-formed lists and keeps its cursors within
   them: none is ever read past one position beyond its end
   (QryIopNear.py:68-76, QryIopWindow.py:53-60).                            *)
THEOREM MatcherTyped == MatcherSpec => []MatcherTypeOK
<1> QED
  BY MatcherIsSafe, PTL DEF MatcherInv

\* The position reported for a match: that of one of its arguments, the last of
\* a NEAR and the largest of a WINDOW.
LEMMA EndFacts ==
    ASSUME MatcherTypeOK, NEW v \in Matches
    PROVE  \E i \in Args :
              /\ EndOf(v) = At(v, i)
              /\ op = "near" => i = Len(lists)
              /\ op # "near" => \A j \in Args : At(v, j) <= At(v, i)
<1>1. CASE op = "near"
  <2>1. Len(lists) \in Args
    BY ListFacts DEF Args
  <2> QED
    BY <1>1, <2>1 DEF EndOf
<1>2. CASE op # "near"
  <2> DEFINE S == {At(v, i) : i \in Args}
  <2>1. IsFiniteSet(S) /\ S # {} /\ S \subseteq Int
    <3>1. IsFiniteSet(Args) /\ 1 \in Args
      BY ListFacts, FS_Interval DEF Args
    <3> DEFINE f == [i \in Args |-> At(v, i)]
    <3>2. f \in Surjection(Args, S)
      BY DEF Surjection
    <3>3. IsFiniteSet(S)
      BY <3>1, <3>2, FS_Surjection
    <3> QED
      BY <3>1, <3>3, MatchFacts
  <2>2. \E p \in S : \A q \in S : q <= p
    BY <2>1, LargestOf
  <2>3. EndOf(v) = CHOOSE p \in S : \A i \in Args : At(v, i) <= p
    BY <1>2 DEF EndOf
  <2>4. EndOf(v) \in S /\ \A i \in Args : At(v, i) <= EndOf(v)
    BY <2>2, <2>3
  <2> QED
    BY <1>2, <2>4
<1> QED
  BY <1>1, <1>2

\* A match that lies wholly behind another is reported behind it.
LEMMA EndsFollow ==
    ASSUME MatcherTypeOK, NEW v \in Matches, NEW w \in Matches,
           \A i \in Args : v[i] < w[i]
    PROVE  EndOf(v) < EndOf(w)
<1>1. ASSUME NEW i \in Args PROVE At(v, i) < At(w, i) /\ At(v, i) \in Int /\ At(w, i) \in Int
  <2>1. v[i] \in Positions(i) /\ w[i] \in Positions(i) /\ v[i] < w[i]
    BY MatchFacts
  <2>2. v[i] \in DOMAIN lists[i] /\ w[i] \in DOMAIN lists[i]
    BY <2>1, ListFacts DEF Positions
  <2>3. lists[i][v[i]] < lists[i][w[i]]
    BY <2>1, <2>2, ListFacts DEF Ascending
  <2> QED
    BY <2>3, MatchFacts DEF At
<1>2. PICK i \in Args : /\ EndOf(v) = At(v, i)
                        /\ op = "near" => i = Len(lists)
                        /\ op # "near" => \A j \in Args : At(v, j) <= At(v, i)
  BY EndFacts
<1>3. PICK k \in Args : /\ EndOf(w) = At(w, k)
                        /\ op = "near" => k = Len(lists)
                        /\ op # "near" => \A j \in Args : At(w, j) <= At(w, k)
  BY EndFacts
<1>4. i = k \/ At(w, i) <= At(w, k)
  BY <1>2, <1>3
<1> QED
  BY <1>1, <1>2, <1>3, <1>4

\* What the invariant says of the matches taken ...
LEMMA InvIsSound == MatcherInv => TakenAreDisjointMatches
<1> SUFFICES ASSUME MatcherInv PROVE TakenAreDisjointMatches
  OBVIOUS
<1>1. Len(taken) \in Nat /\ DOMAIN taken = 1..Len(taken) /\ MatcherTypeOK
  BY DEF MatcherInv, MatcherTypeOK
<1>2. \A k \in 1..(Len(taken) - 1) :
          k \in DOMAIN taken /\ k + 1 \in DOMAIN taken /\ k < k + 1
  BY <1>1
<1>3. ASSUME NEW a \in DOMAIN taken, NEW b \in DOMAIN taken, a < b
      PROVE  EndOf(taken[a]) < EndOf(taken[b])
  <2>1. /\ taken[a] \in Matches /\ taken[b] \in Matches
        /\ \A i \in Args : taken[a][i] < taken[b][i]
    BY <1>3 DEF MatcherInv, TakenBehindCursors
  <2> QED
    BY <1>1, <2>1, EndsFollow
<1>4. Ascending(Reported)
  BY <1>1, <1>3 DEF Ascending, Reported
<1> QED
  BY <1>2, <1>4 DEF MatcherInv, TakenBehindCursors, TakenAreDisjointMatches, Disjoint

(* Each reported match satisfies the operator's definition, no position serves
   two of them, and the positions reported ascend, so that the sort of WINDOW
   changes nothing and every operator may take them as positions
   (QryIopNear.py:60-64, QryIopWindow.py:83-85).                            *)
THEOREM MatchesAreSound == MatcherSpec => []TakenAreDisjointMatches
<1> QED
  BY InvIsSound, MatcherIsSafe, PTL

\* ... and of those that are left when a list has run out.
LEMMA InvLosesNone == MatcherInv => NoMatchIsLost
<1> SUFFICES ASSUME MatcherInv, NEW i \in Args, cursor[i] > Len(lists[i]),
                    NEW f \in Families(Len(taken) + 1)
             PROVE  FALSE
  BY DEF NoMatchIsLost, OutOfDoc, Families
<1>1. MatcherTypeOK /\ Len(taken) \in Nat
  BY DEF MatcherInv, MatcherTypeOK
<1>2. cursor[i] <= f[Len(taken) + 1][i]
  BY DEF MatcherInv, NextIsAhead
<1>3. f[Len(taken) + 1] \in Matches
  BY <1>1 DEF Families
<1>4. f[Len(taken) + 1][i] \in Positions(i)
  BY <1>1, <1>3, MatchFacts
<1> QED
  BY <1>1, <1>2, <1>4, ListFacts DEF Positions, MatcherTypeOK

(* When an argument has run out of positions, no choice of disjoint matches
   has one more than were reported: the greedy search loses none
   (QryIopNear.py:92-98, QryIopWindow.py:86-97).                            *)
THEOREM NoMatchLost == MatcherSpec => []NoMatchIsLost
<1> QED
  BY InvLosesNone, MatcherIsSafe, PTL

-----------------------------------------------------------------------------
\* What each argument has before it, as a number.
Ahead == [i \in Args |-> Len(lists[i]) + 1 - cursor[i]]

LEMMA FewerAhead ==
    ASSUME NEW c \in Nat, NEW d \in {c, c + 1}, NEW m \in Nat
    PROVE  m + 1 - d <= m + 1 - c /\ (d = c + 1 => m + 1 - d < m + 1 - c)
  OBVIOUS

LEMMA AheadType == ASSUME MatcherTypeOK PROVE Ahead \in [Args -> Nat] /\ IsFiniteSet(Args)
<1>1. \A i \in Args : Len(lists[i]) + 1 - cursor[i] \in Nat
  BY ListFacts DEF MatcherTypeOK
<1>2. IsFiniteSet(Args)
  <2>1. Len(lists) \in Int /\ 1 \in Int
    BY ListFacts
  <2>2. IsFiniteSet(1..Len(lists))
    BY <2>1, FS_Interval, Zenon
  <2> QED
    BY <2>2 DEF Args
<1> QED
  BY <1>1, <1>2 DEF Ahead

(* The positions before a search are a number, and every pass of its loop makes
   it smaller: with no more passes than its arguments have positions in the
   document, it ends (QryIopNear.py:53-66, QryIopWindow.py:55-97).          *)
THEOREM SearchesEnd == MatcherSpec => [](Left \in Nat) /\ [][SearchMovesOn]_matcherVars
<1>1. MatcherInv => Left \in Nat
  <2> SUFFICES ASSUME MatcherInv PROVE Left \in Nat
    OBVIOUS
  <2>1. Ahead \in [Args -> Nat] /\ IsFiniteSet(Args)
    BY AheadType DEF MatcherInv
  <2>2. \A i \in Args : Ahead[i] \in Nat
    BY <2>1
  <2>3. SumFunctionOnSet(Ahead, Args) \in Nat
    BY <2>1, <2>2, SumType
  <2> QED
    BY <2>1, <2>3 DEF Left, Ahead, SumFunction
<1>2. MatcherInv /\ MatcherInv' /\ [MatcherNext]_matcherVars => SearchMovesOn
  <2> SUFFICES ASSUME MatcherInv, MatcherInv', MatcherNext,
                      searching, searching', cursor' # cursor
               PROVE  Left' < Left
    BY DEF SearchMovesOn, matcherVars
  <2>1. MatcherTypeOK /\ MatcherTypeOK'
    BY DEF MatcherInv
  <2>2. /\ lists' = lists
        /\ \/ Take
           \/ \E i \in Args : Advance(i)
    BY <2>1, ListFacts
       DEF MatcherNext, Begin, Load, Step, NearTake, NearSkipTerm, NearSkipPrevious, WindowTake,
           WindowSkip, End, Searching, FirstBreak, Args
  <2>3. Args' = Args
    BY <2>2 DEF Args
  <2>4. \A i \in Args : cursor[i] \in Nat /\ Len(lists[i]) \in Nat
    BY <2>1, ListFacts DEF MatcherTypeOK
  <2>5. PICK k \in Args : cursor'[k] = cursor[k] + 1 /\ \A i \in Args : cursor'[i] \in {cursor[i], cursor[i] + 1}
    <3>1. CASE Take
      <4>1. 1 \in Args /\ \A i \in Args : cursor'[i] = cursor[i] + 1
        BY <2>1, <3>1, ListFacts DEF Take, Args
      <4> QED
        BY <4>1
    <3>2. ASSUME NEW k \in Args, Advance(k)
          PROVE  /\ cursor'[k] = cursor[k] + 1
                 /\ \A i \in Args : cursor'[i] \in {cursor[i], cursor[i] + 1}
      BY <2>1, <3>2 DEF Advance, MatcherTypeOK
    <3> QED
      BY <2>2, <3>1, <3>2
  <2>6. \A i \in Args : Ahead'[i] = Len(lists[i]) + 1 - cursor'[i] /\ Ahead[i] = Len(lists[i]) + 1 - cursor[i]
    BY <2>2, <2>3 DEF Ahead
  <2>7. Ahead'[k] < Ahead[k] /\ \A i \in Args : Ahead'[i] <= Ahead[i]
    <3> HIDE DEF Ahead
    <3>1. ASSUME NEW i \in Args PROVE Ahead'[i] <= Ahead[i]
      BY <2>4, <2>5, <2>6, FewerAhead
    <3>2. Ahead'[k] < Ahead[k]
      BY <2>4, <2>5, <2>6, FewerAhead
    <3> QED
      BY <3>1, <3>2
  <2>8. Ahead \in [Args -> Nat] /\ Ahead' \in [Args -> Nat] /\ IsFiniteSet(Args)
    <3>1. Ahead \in [Args -> Nat] /\ IsFiniteSet(Args)
      BY <2>1, AheadType
    <3>2. \A i \in Args : Len(lists[i]) + 1 - cursor'[i] \in Nat
      BY <2>1, <2>2, <2>3, <2>4 DEF MatcherTypeOK
    <3>3. Ahead' = [i \in Args |-> Len(lists[i]) + 1 - cursor'[i]]
      BY <2>2, <2>3 DEF Ahead
    <3> QED
      BY <3>1, <3>2, <3>3
  <2> HIDE DEF Ahead
  <2>9. SumFunction(Ahead') < SumFunction(Ahead)
    BY <2>7, <2>8, SumLess
  <2>10. Left = SumFunction(Ahead) /\ Left' = SumFunction(Ahead')
    BY DEF Left, Ahead
  <2> QED
    BY <2>9, <2>10
<1> QED
  BY <1>1, <1>2, MatcherIsSafe, PTL DEF MatcherSpec

-----------------------------------------------------------------------------
(* The loop over documents.                                                  *)
Shared(d) == \A i \in Arguments : d \in DocumentsIn(invs[i])

\* Argument i has document d before it, the one it stands on included.
StillAhead(i, d) == \E k \in docIterator[i]..Len(invs[i]) : invs[i][k].doc = d

HoldsMatch(d) == Within(operator.kind, operator.dist, PositionsLists(invs, d))!Matches # {}

\* What is in the list of a NEAR or a WINDOW is exact and lies behind, what is
\* missing from it lies ahead.
ListIsBehind(i) ==
    \A k \in DOMAIN invertedList : \A j \in docIterator[i]..Len(invs[i]) :
        invertedList[k].doc < invs[i][j].doc

JoinListExact ==
    \A k \in DOMAIN invertedList :
        /\ Shared(invertedList[k].doc)
        /\ AreItsMatches(operator, PositionsLists(invs, invertedList[k].doc),
                         invertedList[k].pos)

MissingIsAhead ==
    \A d \in DocumentsIn(invs[1]) \ DocumentsIn(invertedList) :
        Shared(d) /\ HoldsMatch(d) => \A i \in Arguments : StillAhead(i, d)

Joins == operator.kind \in {"near", "window"}

JoinInv == Joins => ListIsBehind(1) /\ JoinListExact /\ MissingIsAhead

\* A search runs on the document that all arguments stand on, to its end.
SearchInv ==
    /\ stage # "search" => ~searching
    /\ stage = "search" =>
          /\ Joins
          /\ op = operator.kind /\ n = operator.dist
          /\ \A i \in Arguments : HasMatchAt(i) /\ DocAt(i) = DocAt(1)
          /\ lists = [i \in Arguments |-> invs[i][docIterator[i]].pos]
          /\ ~searching => OutOfDoc

\* What SYN has passed is in its list, with every position.
UnionOfPositions(d) == UNION {PositionsIn(invs[i], d) : i \in Arguments}

SynInv ==
    operator.kind = "syn" =>
        /\ \A i \in Arguments : ListIsBehind(i)
        /\ \A d \in DocumentsIn(invertedList) : PositionsIn(invertedList, d) = UnionOfPositions(d)
        /\ \A i \in Arguments : \A j \in 1..(docIterator[i] - 1) :
              invs[i][j].doc \in DocumentsIn(invertedList)

OperatorInv ==
    /\ OperatorTypeOK
    /\ MatcherInv
    /\ IsInvertedList(invertedList)
    /\ SearchInv
    /\ JoinInv
    /\ SynInv
    /\ ListIsExact

-----------------------------------------------------------------------------
(* Inverted lists and the iterators into them.                               *)
LEMMA HoldsAt ==
    ASSUME NEW l, IsInvertedList(l), NEW d
    PROVE  d \in DocumentsIn(l) <=> \E k \in 1..Len(l) : l[k].doc = d
<1>1. DOMAIN l = 1..Len(l)
  BY PostingFacts
<1>. QED BY <1>1 DEF DocumentsIn

\* A posting of a later document is taken, and the list stays one.
LEMMA Appended ==
    ASSUME NEW l, IsInvertedList(l), NEW d \in Int, NEW pos \in Seq(Int), pos # <<>>,
           Ascending(pos), \A k \in DOMAIN l : l[k].doc < d
    PROVE  LET m == AppendPosting(l, d, pos)
           IN  /\ IsInvertedList(m)
               /\ Len(m) = Len(l) + 1
               /\ \A k \in 1..Len(l) : m[k] = l[k]
               /\ m[Len(l) + 1] = DocPosting(d, pos)
<1> DEFINE p == DocPosting(d, pos)
           m == Append(l, p)
<1>1. /\ l \in Seq(Postings) /\ Len(l) \in Nat /\ DOMAIN l = 1..Len(l)
      /\ \A k \in 1..Len(l) : l[k].doc \in Int
  BY PostingFacts
<1>2. p \in Postings /\ p.doc = d /\ p.pos = pos
  BY DEF DocPosting, Postings
<1>3. AppendPosting(l, d, pos) = m
  <2>1. ~(Len(l) > 1 /\ l[Len(l)].doc >= d)
    <3>1. CASE Len(l) > 1
      <4>1. Len(l) \in 1..Len(l)
        BY <1>1, <3>1
      <4>2. l[Len(l)].doc < d /\ l[Len(l)].doc \in Int
        BY <1>1, <4>1
      <4>. QED BY <4>2
    <3>. QED BY <3>1
  <2>. QED BY <2>1 DEF AppendPosting
<1> HIDE DEF p
<1>4. /\ m \in Seq(Postings) /\ Len(m) = Len(l) + 1 /\ DOMAIN m = 1..(Len(l) + 1)
      /\ \A k \in 1..Len(l) : m[k] = l[k]
      /\ m[Len(l) + 1] = p
  BY <1>1, <1>2
<1> HIDE DEF m
<1>5. ASSUME NEW a \in DOMAIN m, NEW b \in DOMAIN m, a < b PROVE m[a].doc < m[b].doc
  <2>1. a \in 1..Len(l) /\ (b \in 1..Len(l) \/ b = Len(l) + 1)
    BY <1>1, <1>4, <1>5
  <2>2. CASE b \in 1..Len(l)
    BY <1>4, <1>5, <2>1, <2>2, PostingFacts
  <2>3. CASE b = Len(l) + 1
    <3>1. m[b].doc = d /\ m[a] = l[a] /\ l[a].doc < d
      BY <1>1, <1>2, <1>4, <2>1, <2>3
    <3>. QED BY <3>1
  <2>. QED BY <2>1, <2>2, <2>3
<1>6. ASSUME NEW k \in DOMAIN m PROVE m[k].pos # <<>> /\ Ascending(m[k].pos)
  <2>1. k \in 1..Len(l) \/ k = Len(l) + 1
    BY <1>1, <1>4
  <2>. QED BY <1>2, <1>4, <2>1, PostingFacts
<1>7. IsInvertedList(m)
  BY <1>4, <1>5, <1>6 DEF IsInvertedList, Postings
<1>. QED BY <1>3, <1>4, <1>7 DEF p
-----------------------------------------------------------------------------
(* The iterators of an operator.                                             *)
LEMMA ArgumentFacts ==
    ASSUME OperatorTypeOK
    PROVE  /\ Len(invs) \in Nat \ {0} /\ DOMAIN invs = Arguments
           /\ Arguments \subseteq Nat \ {0} /\ 1 \in Arguments /\ IsFiniteSet(Arguments)
           /\ operator.kind \in {"near", "window", "syn"} /\ operator.dist \in Int
           /\ \A i \in Arguments :
                 /\ IsInvertedList(invs[i]) /\ Len(invs[i]) \in Nat
                 /\ docIterator[i] \in 1..(Len(invs[i]) + 1)
<1>1. AreArguments(operator, invs)
  BY DEF OperatorTypeOK
<1>2. Len(invs) \in Nat \ {0} /\ DOMAIN invs = Arguments
  BY <1>1 DEF AreArguments, Arguments
<1>3. IsFiniteSet(1..Len(invs))
  BY <1>2, FS_Interval
<1>4. \A i \in Arguments : IsInvertedList(invs[i]) /\ Len(invs[i]) \in Nat
  BY <1>1, <1>2, PostingFacts DEF AreArguments
<1>5. \A i \in Arguments : docIterator[i] \in 1..(Len(invs[i]) + 1)
  BY <1>4 DEF OperatorTypeOK
<1>. QED BY <1>1, <1>2, <1>3, <1>4, <1>5 DEF AreArguments, Arguments

\* The document an argument stands on is the first it has before it.
LEMMA DocAtFacts ==
    ASSUME OperatorTypeOK, NEW i \in Arguments, HasMatchAt(i)
    PROVE  /\ docIterator[i] \in 1..Len(invs[i])
           /\ DocAt(i) \in Int
           /\ StillAhead(i, DocAt(i))
           /\ \A d : StillAhead(i, d) => d \in Int /\ DocAt(i) <= d
           /\ invs[i][docIterator[i]].pos \in Seq(Int)
           /\ invs[i][docIterator[i]].pos # <<>>
           /\ Ascending(invs[i][docIterator[i]].pos)
<1>1. docIterator[i] \in 1..Len(invs[i]) /\ IsInvertedList(invs[i]) /\ Len(invs[i]) \in Nat
  BY ArgumentFacts DEF HasMatchAt
<1>2. \A k \in 1..Len(invs[i]) : invs[i][k].doc \in Int
  BY <1>1, PostingFacts
<1>3. ASSUME NEW d, StillAhead(i, d) PROVE d \in Int /\ DocAt(i) <= d
  <2>1. PICK k \in docIterator[i]..Len(invs[i]) : invs[i][k].doc = d
    BY <1>3 DEF StillAhead
  <2>2. k = docIterator[i] \/ invs[i][docIterator[i]].doc < invs[i][k].doc
    BY <1>1, <2>1, PostingFacts
  <2>. QED BY <1>1, <1>2, <2>1, <2>2 DEF DocAt
<1>4. StillAhead(i, DocAt(i))
  BY <1>1 DEF StillAhead, DocAt
<1>. QED BY <1>1, <1>2, <1>3, <1>4, PostingFacts DEF DocAt

LEMMA NoneAhead ==
    ASSUME OperatorTypeOK, NEW i \in Arguments, NEW d, StillAhead(i, d)
    PROVE  HasMatchAt(i) /\ d \in DocumentsIn(invs[i])
<1>1. PICK k \in docIterator[i]..Len(invs[i]) : invs[i][k].doc = d
  BY DEF StillAhead
<1>2. docIterator[i] \in 1..(Len(invs[i]) + 1) /\ IsInvertedList(invs[i]) /\ Len(invs[i]) \in Nat
  BY ArgumentFacts
<1>3. k \in 1..Len(invs[i]) /\ docIterator[i] <= Len(invs[i])
  BY <1>1, <1>2
<1>. QED BY <1>1, <1>2, <1>3, HoldsAt DEF HasMatchAt

\* Advancing to a document, or past it, moves an iterator forward, and over no
\* document from there on.
LEMMA ToFacts ==
    ASSUME OperatorTypeOK, NEW i \in Arguments, NEW d \in Int
    PROVE  /\ To(i, d) \in docIterator[i]..(Len(invs[i]) + 1)
           /\ \A j \in docIterator[i]..Len(invs[i]) : To(i, d) <= j <=> d <= invs[i][j].doc
<1>1. docIterator[i] \in 1..(Len(invs[i]) + 1) /\ IsInvertedList(invs[i]) /\ Len(invs[i]) \in Nat
  BY ArgumentFacts
<1>2. \A j \in docIterator[i]..Len(invs[i]) : j \in 1..Len(invs[i]) /\ invs[i][j].doc \in Int
  BY <1>1, PostingFacts
<1>. QED BY <1>1, <1>2, FirstFromFacts DEF To

LEMMA PastFacts ==
    ASSUME OperatorTypeOK, NEW i \in Arguments, NEW d \in Int
    PROVE  /\ Past(i, d) \in docIterator[i]..(Len(invs[i]) + 1)
           /\ \A j \in docIterator[i]..Len(invs[i]) : Past(i, d) <= j <=> d < invs[i][j].doc
<1>1. docIterator[i] \in 1..(Len(invs[i]) + 1) /\ IsInvertedList(invs[i]) /\ Len(invs[i]) \in Nat
  BY ArgumentFacts
<1>2. \A j \in docIterator[i]..Len(invs[i]) : j \in 1..Len(invs[i]) /\ invs[i][j].doc \in Int
  BY <1>1, PostingFacts
<1>3. d + 1 \in Int /\ \A x \in Int : x >= d + 1 <=> d < x
  OBVIOUS
<1>. QED BY <1>1, <1>2, <1>3, FirstFromFacts DEF Past

\* The documents the arguments stand on have a least and a largest.
LEMMA ExtremesOf ==
    ASSUME OperatorTypeOK, NEW S \in SUBSET Arguments, S # {}, \A i \in S : HasMatchAt(i)
    PROVE  LET T == {DocAt(i) : i \in S}
           IN  /\ Min(T) \in Int /\ Max(T) \in Int
               /\ \E i \in S : DocAt(i) = Min(T)
               /\ \E i \in S : DocAt(i) = Max(T)
               /\ \A i \in S : Min(T) <= DocAt(i) /\ DocAt(i) <= Max(T)
<1> DEFINE f == [i \in S |-> DocAt(i)]
           T == {DocAt(i) : i \in S}
<1>1. \A i \in S : DocAt(i) \in Int
  BY DocAtFacts
<1>2. IsFiniteSet(S)
  BY ArgumentFacts, FS_Subset
<1>3. T = {f[i] : i \in S}
  OBVIOUS
<1>4. IsFiniteSet(T)
  <2> HIDE DEF T, f
  <2>. QED BY <1>2, <1>3, ImageFinite
<1>5. T # {} /\ T \subseteq Int
  BY <1>1
<1> HIDE DEF T
<1>6. Min(T) \in T /\ \A y \in T : Min(T) <= y
  <2>1. \E x \in T : \A y \in T : x <= y
    BY <1>4, <1>5, SmallestOf
  <2>. QED BY <2>1 DEF Min
<1>7. Max(T) \in T /\ \A y \in T : y <= Max(T)
  <2>1. \E x \in T : \A y \in T : y <= x
    BY <1>4, <1>5, LargestOf
  <2>2. \E x \in T : \A y \in T : x >= y
    BY <2>1, <1>5
  <2>3. Max(T) \in T /\ \A y \in T : Max(T) >= y
    BY <2>2 DEF Max
  <2>. QED BY <1>5, <2>3
<1>. QED BY <1>5, <1>6, <1>7 DEF T

\* A document that lies ahead stays ahead when its iterator advances no further.
LEMMA ToKeeps ==
    ASSUME OperatorTypeOK, NEW i \in Arguments, NEW d, StillAhead(i, d), NEW e \in Int, e <= d
    PROVE  \E k \in To(i, e)..Len(invs[i]) : invs[i][k].doc = d
<1>1. PICK k \in docIterator[i]..Len(invs[i]) : invs[i][k].doc = d
  BY DEF StillAhead
<1>2. docIterator[i] \in Nat /\ Len(invs[i]) \in Nat
  BY ArgumentFacts
<1>3. To(i, e) \in docIterator[i]..(Len(invs[i]) + 1) /\ To(i, e) <= k
  BY <1>1, ToFacts
<1>. QED BY <1>1, <1>2, <1>3

LEMMA PastKeeps ==
    ASSUME OperatorTypeOK, NEW i \in Arguments, NEW d, StillAhead(i, d), NEW e \in Int, e < d
    PROVE  \E k \in Past(i, e)..Len(invs[i]) : invs[i][k].doc = d
<1>1. PICK k \in docIterator[i]..Len(invs[i]) : invs[i][k].doc = d
  BY DEF StillAhead
<1>2. docIterator[i] \in Nat /\ Len(invs[i]) \in Nat
  BY ArgumentFacts
<1>3. Past(i, e) \in docIterator[i]..(Len(invs[i]) + 1) /\ Past(i, e) <= k
  BY <1>1, PastFacts
<1>. QED BY <1>1, <1>2, <1>3

-----------------------------------------------------------------------------
(* What a step leaves alone stays what it was.                               *)
LEMMA SameTask ==
    ASSUME UNCHANGED <<operator, invs>>
    PROVE  /\ Arguments' = Arguments
           /\ Joins' = Joins
           /\ \A d : Shared(d)' = Shared(d)
           /\ \A d : HoldsMatch(d)' = HoldsMatch(d)
           /\ \A d : UnionOfPositions(d)' = UnionOfPositions(d)
<1>1. operator' = operator /\ invs' = invs
  OBVIOUS
<1>2. Arguments' = Arguments
  BY <1>1 DEF Arguments
<1>3. Joins' = Joins
  BY <1>1 DEF Joins
<1>4. ASSUME NEW d PROVE Shared(d)' = Shared(d)
  BY <1>1, <1>2 DEF Shared, DocumentsIn
<1>5. ASSUME NEW d PROVE HoldsMatch(d)' = HoldsMatch(d)
  BY <1>1 DEF HoldsMatch
<1>6. ASSUME NEW d PROVE UnionOfPositions(d)' = UnionOfPositions(d)
  BY <1>1, <1>2 DEF UnionOfPositions, PositionsIn
<1>. QED BY <1>2, <1>3, <1>4, <1>5, <1>6

LEMMA StaysTyped ==
    ASSUME OperatorTypeOK, UNCHANGED <<operator, invs>>, MatcherTypeOK',
           docIterator' \in [Arguments -> Int],
           \A i \in Arguments : docIterator'[i] \in docIterator[i]..(Len(invs[i]) + 1),
           IsInvertedList(invertedList)', stage' \in {"align", "search", "done"}
    PROVE  OperatorTypeOK'
<1>1. operator' = operator /\ invs' = invs /\ Arguments' = Arguments
  BY SameTask
<1>2. AreArguments(operator, invs)'
  BY <1>1 DEF OperatorTypeOK, AreArguments, IsInvertedList, Ascending
<1>3. ASSUME NEW i \in Arguments
      PROVE  docIterator'[i] \in Nat \ {0} /\ docIterator'[i] <= Len(invs[i]) + 1
  <2>1. docIterator[i] \in Nat \ {0} /\ Len(invs[i]) \in Nat
    BY ArgumentFacts
  <2>2. docIterator'[i] \in docIterator[i]..(Len(invs[i]) + 1)
    OBVIOUS
  <2>. QED BY <2>1, <2>2
<1>4. docIterator' \in [Arguments' -> Nat \ {0}]
  BY <1>1, <1>3
<1>5. \A i \in Arguments' : docIterator'[i] <= Len(invs'[i]) + 1
  BY <1>1, <1>3
<1>6. invertedList' \in Seq([doc : Int, pos : Seq(Int)])
  BY DEF IsInvertedList
<1>. QED BY <1>2, <1>4, <1>5, <1>6 DEF OperatorTypeOK

\* The iterators of NEAR and WINDOW move forward and over no document that all
\* of them still have ahead.
LEMMA ForwardKeeps ==
    ASSUME OperatorTypeOK, JoinInv, Joins, UNCHANGED <<operator, invs, invertedList>>,
           docIterator' \in [Arguments -> Int],
           \A i \in Arguments : docIterator'[i] \in docIterator[i]..(Len(invs[i]) + 1),
           \A d : (\A i \in Arguments : StillAhead(i, d)) =>
                  \A i \in Arguments : \E k \in docIterator'[i]..Len(invs[i]) : invs[i][k].doc = d
    PROVE  JoinInv'
<1>1. /\ operator' = operator /\ invs' = invs /\ invertedList' = invertedList
      /\ Arguments' = Arguments /\ 1 \in Arguments
  BY SameTask, ArgumentFacts
<1>2. ListIsBehind(1)'
  <2> SUFFICES ASSUME NEW k \in DOMAIN invertedList, NEW j \in docIterator'[1]..Len(invs[1])
               PROVE  invertedList[k].doc < invs[1][j].doc
    BY <1>1 DEF ListIsBehind
  <2>1. docIterator[1] \in Nat /\ Len(invs[1]) \in Nat
    BY <1>1, ArgumentFacts
  <2>2. docIterator'[1] \in docIterator[1]..(Len(invs[1]) + 1)
    BY <1>1
  <2>3. j \in docIterator[1]..Len(invs[1])
    BY <2>1, <2>2
  <2>. QED BY <2>3 DEF JoinInv, ListIsBehind
<1>3. JoinListExact'
  BY <1>1, SameTask DEF JoinInv, JoinListExact
<1>4. MissingIsAhead'
  <2> SUFFICES ASSUME NEW d \in DocumentsIn(invs[1]) \ DocumentsIn(invertedList),
                      Shared(d), HoldsMatch(d), NEW i \in Arguments
               PROVE  StillAhead(i, d)'
    BY <1>1, SameTask DEF MissingIsAhead, DocumentsIn
  <2>1. \A l \in Arguments : StillAhead(l, d)
    BY DEF JoinInv, MissingIsAhead
  <2>2. \E k \in docIterator'[i]..Len(invs[i]) : invs[i][k].doc = d
    BY <2>1
  <2>. QED BY <1>1, <2>2 DEF StillAhead
<1>. QED BY <1>2, <1>3, <1>4 DEF JoinInv

\* So the search for a common document goes on, ...
LEMMA AlignKeeps ==
    ASSUME OperatorInv, Joins, stage = "align", MoveOn, UNCHANGED <<operator, invs>>,
           docIterator' \in [Arguments -> Int],
           \A i \in Arguments : docIterator'[i] \in docIterator[i]..(Len(invs[i]) + 1),
           \A d : (\A i \in Arguments : StillAhead(i, d)) =>
                  \A i \in Arguments : \E k \in docIterator'[i]..Len(invs[i]) : invs[i][k].doc = d
    PROVE  OperatorInv'
<1>1. /\ stage' = "align" /\ invertedList' = invertedList /\ UNCHANGED matcherVars
      /\ UNCHANGED <<operator, invs, invertedList>>
  BY DEF MoveOn
<1>2. MatcherInv'
  BY <1>1, StepPreserves DEF OperatorInv
<1>3. IsInvertedList(invertedList)'
  BY <1>1 DEF OperatorInv, IsInvertedList, Ascending
<1>4. OperatorTypeOK'
  BY <1>1, <1>2, <1>3, StaysTyped DEF OperatorInv, MatcherInv
<1>5. JoinInv'
  BY <1>1, ForwardKeeps DEF OperatorInv
<1>6. SearchInv'
  BY <1>1 DEF OperatorInv, SearchInv, matcherVars
<1>7. SynInv'
  BY <1>1 DEF Joins, SynInv
<1>8. ListIsExact'
  BY <1>1 DEF ListIsExact
<1>. QED BY <1>2, <1>3, <1>4, <1>5, <1>6, <1>7, <1>8 DEF OperatorInv

\* ... and when it is found the search of it begins on lists as it needs them.
LEMMA OpenKeeps ==
    ASSUME OperatorInv, Joins, stage = "align", OpenDocument, UNCHANGED <<operator, invs>>,
           docIterator' \in [Arguments -> Int],
           \A i \in Arguments : docIterator'[i] \in docIterator[i]..Len(invs[i]),
           \A d : (\A i \in Arguments : StillAhead(i, d)) =>
                  \A i \in Arguments : \E k \in docIterator'[i]..Len(invs[i]) : invs[i][k].doc = d,
           NEW e, \A i \in Arguments : invs[i][docIterator'[i]].doc = e
    PROVE  OperatorInv'
<1> DEFINE ls == [i \in Arguments |-> invs[i][docIterator'[i]].pos]
<1>1. /\ stage' = "search" /\ invertedList' = invertedList /\ Load(operator.kind, operator.dist, ls)
      /\ operator' = operator /\ invs' = invs /\ Arguments' = Arguments
      /\ UNCHANGED <<operator, invs, invertedList>>
  BY SameTask DEF OpenDocument
<1>2. OperatorTypeOK
  BY DEF OperatorInv
<1>3. \A i \in Arguments : docIterator'[i] \in 1..Len(invs[i])
  <2> SUFFICES ASSUME NEW i \in Arguments PROVE docIterator'[i] \in 1..Len(invs[i])
    OBVIOUS
  <2>1. docIterator[i] \in 1..(Len(invs[i]) + 1) /\ Len(invs[i]) \in Nat
    BY <1>2, ArgumentFacts
  <2>2. docIterator'[i] \in docIterator[i]..Len(invs[i])
    OBVIOUS
  <2>. QED BY <2>1, <2>2
<1>4. IsInput(operator.kind, operator.dist, ls)
  <2>1. \A i \in Arguments : ls[i] \in Seq(Int) /\ Ascending(ls[i])
    <3> SUFFICES ASSUME NEW i \in Arguments PROVE ls[i] \in Seq(Int) /\ Ascending(ls[i])
      OBVIOUS
    <3>1. IsInvertedList(invs[i])
      BY <1>2, ArgumentFacts
    <3>2. ls[i] = invs[i][docIterator'[i]].pos
      OBVIOUS
    <3> HIDE DEF ls
    <3>. QED BY <1>3, <3>1, <3>2, PostingFacts
  <2>2. Arguments = 1..Len(invs) /\ Len(invs) \in Nat \ {0} /\ DOMAIN ls = Arguments
    BY <1>2, ArgumentFacts DEF Arguments
  <2> HIDE DEF ls
  <2>3. ls = [i \in 1..Len(invs) |-> ls[i]]
    BY <2>2 DEF ls
  <2>4. ls \in Seq(Seq(Int)) /\ ls # <<>>
    <3>1. ls \in [1..Len(invs) -> Seq(Int)]
      BY <2>1, <2>2, <2>3
    <3>2. ls \in Seq(Seq(Int))
      BY <2>2, <3>1, IsSequence
    <3>. QED BY <2>2, <3>2
  <2>5. operator.kind \in {"near", "window"} /\ operator.dist \in Int
    BY <1>2, ArgumentFacts DEF Joins
  <2>. QED BY <2>1, <2>2, <2>4, <2>5 DEF IsInput
<1> HIDE DEF ls
<1>5. MatcherInv'
  BY <1>1, <1>4, BeginEstablishes DEF Begin
<1>6. IsInvertedList(invertedList)'
  BY <1>1 DEF OperatorInv, IsInvertedList, Ascending
<1>7. \A i \in Arguments : docIterator'[i] \in docIterator[i]..(Len(invs[i]) + 1)
  <2> SUFFICES ASSUME NEW i \in Arguments
               PROVE  docIterator'[i] \in docIterator[i]..(Len(invs[i]) + 1)
    OBVIOUS
  <2>1. docIterator[i] \in 1..(Len(invs[i]) + 1) /\ Len(invs[i]) \in Nat
    BY <1>2, ArgumentFacts
  <2>2. docIterator'[i] \in docIterator[i]..Len(invs[i])
    OBVIOUS
  <2>. QED BY <2>1, <2>2
<1>8. OperatorTypeOK'
  BY <1>1, <1>2, <1>5, <1>6, <1>7, StaysTyped DEF MatcherInv
<1>9. JoinInv'
  BY <1>1, <1>2, <1>7, ForwardKeeps DEF OperatorInv
<1>10. SearchInv'
  <2>1. op' = operator.kind /\ n' = operator.dist /\ lists' = ls /\ searching' = TRUE
    BY <1>1 DEF Load
  <2>2. 1 \in Arguments
    BY <1>2, ArgumentFacts
  <2>3. \A i \in Arguments : docIterator'[i] <= Len(invs[i])
    BY <1>3
  <2>. QED BY <1>1, <2>1, <2>2, <2>3, SameTask DEF SearchInv, HasMatchAt, DocAt, ls
<1>11. SynInv'
  BY <1>1 DEF Joins, SynInv
<1>12. ListIsExact'
  BY <1>1 DEF ListIsExact
<1>. QED BY <1>5, <1>6, <1>8, <1>9, <1>10, <1>11, <1>12 DEF OperatorInv

-----------------------------------------------------------------------------
(* NEAR.                                                                     *)
LEMMA ProposedFacts ==
    ASSUME OperatorTypeOK, HasMatchAt(1), NEW i \in Arguments
    PROVE  /\ Proposed(i) \in docIterator[i]..(Len(invs[i]) + 1)
           /\ i = 1 => Agrees(i)
           /\ \A d : StillAhead(1, d) /\ StillAhead(i, d) =>
                 \E k \in Proposed(i)..Len(invs[i]) : invs[i][k].doc = d
<1>1. 1 \in Arguments /\ docIterator[i] \in 1..(Len(invs[i]) + 1) /\ Len(invs[i]) \in Nat
  BY ArgumentFacts
<1>2. DocAt(1) \in Int
  BY <1>1, DocAtFacts
<1>3. CASE i = 1
  BY <1>1, <1>3 DEF Proposed, Agrees, HasMatchAt, DocAt, StillAhead
<1>4. CASE i # 1
  <2>1. Proposed(i) = To(i, DocAt(1))
    BY <1>4 DEF Proposed
  <2>2. \A d : StillAhead(1, d) => DocAt(1) <= d
    BY <1>1, DocAtFacts
  <2>. QED BY <1>2, <1>4, <2>1, <2>2, ToFacts, ToKeeps
<1>. QED BY <1>3, <1>4

LEMMA NearAlignPreserves ==
    ASSUME OperatorInv, NearAlign
    PROVE  OperatorInv'
<1>1. /\ stage = "align" /\ operator.kind = "near" /\ HasMatchAt(1) /\ MoveOn
      /\ UNCHANGED <<operator, invs>>
  BY DEF NearAlign, Aligning
<1>2. PICK i \in Arguments :
          /\ FirstApart(i)
          /\ Proposed(i) <= Len(invs[i])
          /\ docIterator' = [j \in Arguments |->
                CASE j = 1 -> To(1, invs[i][Proposed(i)].doc)
                  [] j \in 2..i -> Proposed(j)
                  [] j > i -> docIterator[j]]
  BY DEF NearAlign
<1> DEFINE e == invs[i][Proposed(i)].doc
<1>3. OperatorTypeOK /\ 1 \in Arguments /\ i \in Nat /\ \A j \in Arguments : j \in Nat \ {0}
  BY ArgumentFacts DEF OperatorInv
<1>4. /\ IsInvertedList(invs[i]) /\ Len(invs[i]) \in Nat /\ docIterator[i] \in Nat \ {0}
      /\ Proposed(i) \in docIterator[i]..Len(invs[i])
  <2>1. IsInvertedList(invs[i]) /\ Len(invs[i]) \in Nat /\ docIterator[i] \in Nat \ {0}
    BY <1>3, ArgumentFacts
  <2>2. Proposed(i) \in docIterator[i]..(Len(invs[i]) + 1)
    BY <1>1, <1>3, ProposedFacts
  <2>. QED BY <1>2, <2>1, <2>2
<1>5. e \in Int
  BY <1>4, PostingFacts
<1>6. ASSUME NEW j \in Arguments
      PROVE  \/ j = 1 /\ docIterator'[j] = To(1, e)
             \/ j # 1 /\ docIterator'[j] = Proposed(j)
             \/ j # 1 /\ docIterator'[j] = docIterator[j]
  <2>1. j = 1 \/ j \in 2..i \/ j > i
    BY <1>3
  <2>2. CASE j = 1
    BY <1>2, <2>2
  <2>3. CASE j \in 2..i
    <3>1. j # 1 /\ ~(j > i)
      BY <1>3, <2>3
    <3>. QED BY <1>2, <2>3, <3>1
  <2>4. CASE j > i
    <3>1. j # 1 /\ ~(j \in 2..i)
      BY <1>3, <2>4
    <3>. QED BY <1>2, <2>4, <3>1
  <2>. QED BY <2>1, <2>2, <2>3, <2>4
<1>7. ASSUME NEW j \in Arguments
      PROVE  docIterator'[j] \in docIterator[j]..(Len(invs[j]) + 1)
  <2>1. docIterator[j] \in 1..(Len(invs[j]) + 1) /\ Len(invs[j]) \in Nat
    BY <1>3, ArgumentFacts
  <2>2. docIterator[j] \in docIterator[j]..(Len(invs[j]) + 1)
    BY <2>1
  <2> HIDE DEF e
  <2>. QED BY <1>1, <1>3, <1>5, <1>6, <2>2, ToFacts, ProposedFacts
<1>8. docIterator' \in [Arguments -> Int]
  <2>1. \A j \in Arguments : docIterator[j] \in Int /\ Len(invs[j]) \in Int
    BY <1>3, ArgumentFacts
  <2>2. \A j \in Arguments : docIterator'[j] \in Int
    BY <1>7, <2>1
  <2> DEFINE moved(j) == CASE j = 1 -> To(1, e)
                           [] j \in 2..i -> Proposed(j)
                           [] j > i -> docIterator[j]
  <2>3. docIterator' = [j \in Arguments |-> moved(j)]
    BY <1>2
  <2> HIDE DEF moved
  <2>. QED BY <2>2, <2>3
<1>9. ASSUME NEW d, \A j \in Arguments : StillAhead(j, d), NEW j \in Arguments
      PROVE  \E k \in docIterator'[j]..Len(invs[j]) : invs[j][k].doc = d
  <2>1. PICK k \in Proposed(i)..Len(invs[i]) : invs[i][k].doc = d
    BY <1>1, <1>3, <1>9, ProposedFacts
  <2>2. e <= d
    <3>1. Proposed(i) \in 1..Len(invs[i]) /\ k \in 1..Len(invs[i]) /\ (k = Proposed(i) \/ Proposed(i) < k)
      BY <1>4, <2>1
    <3>2. k = Proposed(i) \/ invs[i][Proposed(i)].doc < invs[i][k].doc
      BY <1>4, <3>1, PostingFacts
    <3>3. d \in Int
      BY <1>4, <2>1, <3>1, PostingFacts
    <3>. QED BY <1>5, <2>1, <3>2, <3>3
  <2> HIDE DEF e
  <2>3. CASE j = 1 /\ docIterator'[j] = To(1, e)
    BY <1>3, <1>5, <1>9, <2>2, <2>3, ToKeeps
  <2>4. CASE docIterator'[j] = Proposed(j)
    BY <1>1, <1>3, <1>9, <2>4, ProposedFacts
  <2>5. CASE docIterator'[j] = docIterator[j]
    BY <1>9, <2>5 DEF StillAhead
  <2>. QED BY <1>6, <2>3, <2>4, <2>5
<1>10. Joins
  BY <1>1 DEF Joins
<1>. QED BY <1>1, <1>7, <1>8, <1>9, <1>10, AlignKeeps

LEMMA NearOpenPreserves ==
    ASSUME OperatorInv, NearOpen
    PROVE  OperatorInv'
<1>1. /\ stage = "align" /\ operator.kind = "near" /\ HasMatchAt(1) /\ OpenDocument
      /\ UNCHANGED <<operator, invs>>
      /\ \A i \in Arguments : Agrees(i)
      /\ docIterator' = [i \in Arguments |-> Proposed(i)]
  BY DEF NearOpen, Aligning
<1>2. OperatorTypeOK /\ 1 \in Arguments
  BY ArgumentFacts DEF OperatorInv
<1>3. ASSUME NEW i \in Arguments
      PROVE  /\ docIterator'[i] \in docIterator[i]..Len(invs[i]) /\ docIterator'[i] \in Int
             /\ invs[i][docIterator'[i]].doc = DocAt(1)
  <2>1. /\ docIterator'[i] = Proposed(i) /\ Proposed(i) <= Len(invs[i])
        /\ invs[i][Proposed(i)].doc = DocAt(1)
    BY <1>1 DEF Agrees
  <2>2. Proposed(i) \in docIterator[i]..(Len(invs[i]) + 1)
    BY <1>1, <1>2, ProposedFacts
  <2>3. docIterator[i] \in 1..(Len(invs[i]) + 1) /\ Len(invs[i]) \in Nat
    BY <1>2, ArgumentFacts
  <2>. QED BY <2>1, <2>2, <2>3
<1>4. docIterator' \in [Arguments -> Int]
  BY <1>1, <1>3
<1>5. ASSUME NEW d, \A i \in Arguments : StillAhead(i, d), NEW i \in Arguments
      PROVE  \E k \in docIterator'[i]..Len(invs[i]) : invs[i][k].doc = d
  BY <1>1, <1>2, <1>5, ProposedFacts
<1>6. Joins
  BY <1>1 DEF Joins
<1>. QED BY <1>1, <1>3, <1>4, <1>5, <1>6, OpenKeeps

\* When NEAR or WINDOW ends, some argument has nothing ahead that all share.
LEMMA JoinFinishes ==
    ASSUME OperatorInv, Joins, stage = "align", Finish, UNCHANGED <<operator, invs>>,
           \A d : ~\A i \in Arguments : StillAhead(i, d)
    PROVE  OperatorInv'
<1>1. /\ stage' = "done" /\ invertedList' = invertedList /\ docIterator' = docIterator
      /\ operator' = operator /\ invs' = invs /\ UNCHANGED matcherVars
  BY DEF Finish
<1>2. OperatorTypeOK /\ 1 \in Arguments /\ DOMAIN invs = Arguments
  BY ArgumentFacts DEF OperatorInv
<1>3. MatcherInv'
  BY <1>1, StepPreserves DEF OperatorInv
<1>4. IsInvertedList(invertedList)'
  BY <1>1 DEF OperatorInv, IsInvertedList, Ascending
<1>5. docIterator \in [Arguments -> Int]
      /\ \A i \in Arguments : docIterator[i] \in docIterator[i]..(Len(invs[i]) + 1)
  <2>1. \A i \in Arguments : docIterator[i] \in 1..(Len(invs[i]) + 1) /\ Len(invs[i]) \in Nat
    BY <1>2, ArgumentFacts
  <2>2. docIterator \in [Arguments -> Nat \ {0}]
    BY <1>2 DEF OperatorTypeOK
  <2>. QED BY <2>1, <2>2
<1>6. OperatorTypeOK'
  BY <1>1, <1>2, <1>3, <1>4, <1>5, StaysTyped DEF MatcherInv
<1>7. JoinInv'
  BY <1>1, <1>2, <1>5, ForwardKeeps DEF OperatorInv
<1>8. SearchInv'
  BY <1>1 DEF OperatorInv, SearchInv, matcherVars
<1>9. SynInv'
  BY <1>1 DEF Joins, SynInv
<1>10. HoldsExactly(operator, invs, invertedList)
  <2>1. IsInvertedList(invertedList) /\ operator.kind # "syn"
    BY DEF OperatorInv, Joins
  <2>2. ASSUME NEW k \in DOMAIN invertedList
        PROVE  /\ \A i \in DOMAIN invs : invertedList[k].doc \in DocumentsIn(invs[i])
               /\ AreItsMatches(operator, PositionsLists(invs, invertedList[k].doc),
                                invertedList[k].pos)
    BY <1>2 DEF OperatorInv, JoinInv, JoinListExact, Shared
  <2>3. ASSUME NEW d \in DocumentsIn(invs[1]) \ DocumentsIn(invertedList),
               \A i \in DOMAIN invs : d \in DocumentsIn(invs[i])
        PROVE  Within(operator.kind, operator.dist, PositionsLists(invs, d))!Matches = {}
    BY <1>2, <2>3 DEF OperatorInv, JoinInv, MissingIsAhead, Shared, HoldsMatch
  <2>. QED BY <2>1, <2>2, <2>3 DEF HoldsExactly
<1>11. ListIsExact'
  BY <1>1, <1>10 DEF ListIsExact
<1>. QED BY <1>3, <1>4, <1>6, <1>7, <1>8, <1>9, <1>11 DEF OperatorInv

LEMMA NearFinishPreserves ==
    ASSUME OperatorInv, NearFinish
    PROVE  OperatorInv'
<1>1. /\ stage = "align" /\ operator.kind = "near" /\ Finish /\ UNCHANGED <<operator, invs>>
      /\ \/ ~HasMatchAt(1)
         \/ HasMatchAt(1) /\ \E i \in Arguments : FirstApart(i) /\ Proposed(i) > Len(invs[i])
  BY DEF NearFinish, Aligning
<1>2. OperatorTypeOK /\ 1 \in Arguments
  BY ArgumentFacts DEF OperatorInv
<1>3. ASSUME NEW d, \A i \in Arguments : StillAhead(i, d) PROVE FALSE
  <2>1. HasMatchAt(1)
    BY <1>2, <1>3, NoneAhead
  <2>2. PICK i \in Arguments : Proposed(i) > Len(invs[i])
    BY <1>1, <2>1
  <2>3. PICK k \in Proposed(i)..Len(invs[i]) : invs[i][k].doc = d
    BY <1>2, <1>3, <2>1, ProposedFacts
  <2>4. Proposed(i) \in Int /\ Len(invs[i]) \in Int
    <3>1. docIterator[i] \in 1..(Len(invs[i]) + 1) /\ Len(invs[i]) \in Nat
      BY <1>2, ArgumentFacts
    <3>2. Proposed(i) \in docIterator[i]..(Len(invs[i]) + 1)
      BY <1>2, <2>1, ProposedFacts
    <3>. QED BY <3>1, <3>2
  <2>. QED BY <2>2, <2>3, <2>4
<1>4. Joins
  BY <1>1 DEF Joins
<1>. QED BY <1>1, <1>3, <1>4, JoinFinishes

-----------------------------------------------------------------------------
(* WINDOW.                                                                   *)
LEMMA ReachFacts ==
    ASSUME OperatorTypeOK, AllMatch
    PROVE  /\ MaxDocid \in Int
           /\ \A i \in Arguments : To(i, MaxDocid) \in docIterator[i]..(Len(invs[i]) + 1)
           /\ \A d : (\A i \in Arguments : StillAhead(i, d)) =>
                 \A i \in Arguments : \E k \in To(i, MaxDocid)..Len(invs[i]) : invs[i][k].doc = d
<1>1. 1 \in Arguments /\ Arguments \in SUBSET Arguments /\ Arguments # {}
  BY ArgumentFacts
<1>2. /\ MaxDocid \in Int
      /\ \E i \in Arguments : DocAt(i) = MaxDocid
  BY <1>1, ExtremesOf DEF AllMatch, MaxDocid
<1>3. PICK m \in Arguments : DocAt(m) = MaxDocid
  BY <1>2
<1>4. ASSUME NEW d, StillAhead(m, d) PROVE MaxDocid <= d
  BY <1>3, <1>4, DocAtFacts DEF AllMatch
<1>. QED BY <1>2, <1>4, ToFacts, ToKeeps

LEMMA WindowAlignPreserves ==
    ASSUME OperatorInv, WindowAlign
    PROVE  OperatorInv'
<1>1. /\ stage = "align" /\ operator.kind = "window" /\ AllMatch /\ MoveOn
      /\ UNCHANGED <<operator, invs>>
      /\ docIterator' = [i \in Arguments |-> To(i, MaxDocid)]
  BY DEF WindowAlign, Aligning
<1>2. OperatorTypeOK
  BY DEF OperatorInv
<1>3. ASSUME NEW i \in Arguments
      PROVE  docIterator'[i] \in docIterator[i]..(Len(invs[i]) + 1) /\ docIterator'[i] \in Int
  <2>1. docIterator[i] \in 1..(Len(invs[i]) + 1) /\ Len(invs[i]) \in Nat
    BY <1>2, ArgumentFacts
  <2>2. docIterator'[i] = To(i, MaxDocid)
    BY <1>1
  <2>3. To(i, MaxDocid) \in docIterator[i]..(Len(invs[i]) + 1)
    BY <1>1, <1>2, ReachFacts
  <2>. QED BY <2>1, <2>2, <2>3
<1>4. docIterator' \in [Arguments -> Int]
  BY <1>1, <1>3
<1>5. ASSUME NEW d, \A i \in Arguments : StillAhead(i, d), NEW i \in Arguments
      PROVE  \E k \in docIterator'[i]..Len(invs[i]) : invs[i][k].doc = d
  BY <1>1, <1>2, <1>5, ReachFacts
<1>6. Joins
  BY <1>1 DEF Joins
<1>. QED BY <1>1, <1>3, <1>4, <1>5, <1>6, AlignKeeps

LEMMA WindowOpenPreserves ==
    ASSUME OperatorInv, WindowOpen
    PROVE  OperatorInv'
<1>1. /\ stage = "align" /\ operator.kind = "window" /\ AllMatch /\ OpenDocument
      /\ UNCHANGED <<operator, invs>>
      /\ docIterator' = [i \in Arguments |-> To(i, MaxDocid)]
      /\ AllReach /\ AllMeet
  BY DEF WindowOpen, Aligning
<1>2. OperatorTypeOK
  BY DEF OperatorInv
<1>3. ASSUME NEW i \in Arguments
      PROVE  /\ docIterator'[i] \in docIterator[i]..Len(invs[i]) /\ docIterator'[i] \in Int
             /\ invs[i][docIterator'[i]].doc = MaxDocid
  <2>1. docIterator[i] \in 1..(Len(invs[i]) + 1) /\ Len(invs[i]) \in Nat
    BY <1>2, ArgumentFacts
  <2>2. docIterator'[i] = To(i, MaxDocid) /\ To(i, MaxDocid) <= Len(invs[i])
        /\ invs[i][To(i, MaxDocid)].doc = MaxDocid
    BY <1>1 DEF AllReach, AllMeet
  <2>3. To(i, MaxDocid) \in docIterator[i]..(Len(invs[i]) + 1)
    BY <1>1, <1>2, ReachFacts
  <2>. QED BY <2>1, <2>2, <2>3
<1>4. docIterator' \in [Arguments -> Int]
  BY <1>1, <1>3
<1>5. ASSUME NEW d, \A i \in Arguments : StillAhead(i, d), NEW i \in Arguments
      PROVE  \E k \in docIterator'[i]..Len(invs[i]) : invs[i][k].doc = d
  BY <1>1, <1>2, <1>5, ReachFacts
<1>6. Joins
  BY <1>1 DEF Joins
<1>. QED BY <1>1, <1>3, <1>4, <1>5, <1>6, OpenKeeps

LEMMA WindowFinishPreserves ==
    ASSUME OperatorInv, WindowFinish
    PROVE  OperatorInv'
<1>1. /\ stage = "align" /\ operator.kind = "window" /\ Finish /\ UNCHANGED <<operator, invs>>
      /\ ~(AllMatch /\ AllReach)
  BY DEF WindowFinish, Aligning
<1>2. OperatorTypeOK
  BY DEF OperatorInv
<1>3. ASSUME NEW d, \A i \in Arguments : StillAhead(i, d) PROVE FALSE
  <2>1. AllMatch
    BY <1>2, <1>3, NoneAhead DEF AllMatch
  <2>2. PICK i \in Arguments : ~(To(i, MaxDocid) <= Len(invs[i]))
    BY <1>1, <2>1 DEF AllReach
  <2>3. PICK k \in To(i, MaxDocid)..Len(invs[i]) : invs[i][k].doc = d
    BY <1>2, <1>3, <2>1, ReachFacts
  <2>4. To(i, MaxDocid) \in Int /\ Len(invs[i]) \in Int
    <3>1. docIterator[i] \in 1..(Len(invs[i]) + 1) /\ Len(invs[i]) \in Nat
      BY <1>2, ArgumentFacts
    <3>2. To(i, MaxDocid) \in docIterator[i]..(Len(invs[i]) + 1)
      BY <1>2, <2>1, ReachFacts
    <3>. QED BY <3>1, <3>2
  <2>. QED BY <2>2, <2>3, <2>4
<1>4. Joins
  BY <1>1 DEF Joins
<1>. QED BY <1>1, <1>3, <1>4, JoinFinishes

-----------------------------------------------------------------------------
(* The search of a document, and its end.                                    *)
LEMMA SearchDocumentPreserves ==
    ASSUME OperatorInv, SearchDocument
    PROVE  OperatorInv'
<1>1. stage = "search" /\ Step /\ UNCHANGED evaluationVars
  BY DEF SearchDocument
<1>2. /\ operator' = operator /\ invs' = invs /\ docIterator' = docIterator
      /\ invertedList' = invertedList /\ stage' = stage /\ Arguments' = Arguments
      /\ UNCHANGED <<operator, invs>>
  BY <1>1, SameTask DEF evaluationVars
<1>3. OperatorTypeOK /\ SearchInv /\ Joins
  BY <1>1 DEF OperatorInv, SearchInv
<1>4. MatcherInv'
  BY <1>1, StepPreserves DEF OperatorInv, MatcherNext
<1>5. IsInvertedList(invertedList)'
  BY <1>2 DEF OperatorInv, IsInvertedList, Ascending
<1>6. docIterator \in [Arguments -> Int]
      /\ \A i \in Arguments : docIterator[i] \in docIterator[i]..(Len(invs[i]) + 1)
  <2>1. \A i \in Arguments : docIterator[i] \in 1..(Len(invs[i]) + 1) /\ Len(invs[i]) \in Nat
    BY <1>3, ArgumentFacts
  <2>2. docIterator \in [Arguments -> Nat \ {0}]
    BY <1>3 DEF OperatorTypeOK
  <2>. QED BY <2>1, <2>2
<1>7. OperatorTypeOK'
  BY <1>1, <1>2, <1>3, <1>4, <1>5, <1>6, StaysTyped DEF MatcherInv
<1>8. JoinInv'
  BY <1>2, <1>3, <1>6, ForwardKeeps DEF OperatorInv, StillAhead
<1>9. SearchInv'
  <2>1. /\ op' = op /\ n' = n /\ lists' = lists
        /\ ~searching' => OutOfDoc /\ cursor' = cursor
    BY <1>1 DEF Step, NearTake, NearSkipTerm, NearSkipPrevious, WindowTake, WindowSkip, End,
                Searching
  <2>2. ~searching' => OutOfDoc'
    BY <2>1 DEF OutOfDoc, Args
  <2>. QED BY <1>1, <1>2, <1>3, <2>1, <2>2 DEF SearchInv, Joins, HasMatchAt, DocAt
<1>10. SynInv'
  BY <1>2, <1>3 DEF Joins, SynInv
<1>11. ListIsExact'
  BY <1>1, <1>2 DEF ListIsExact
<1>. QED BY <1>4, <1>5, <1>7, <1>8, <1>9, <1>10, <1>11 DEF OperatorInv

\* A search runs on the positions that all arguments have in the document.
LEMMA SearchesThem ==
    ASSUME OperatorInv, stage = "search"
    PROVE  PositionsLists(invs, DocAt(1)) = lists
<1>1. /\ OperatorTypeOK /\ DOMAIN invs = Arguments
      /\ \A i \in Arguments : HasMatchAt(i) /\ DocAt(i) = DocAt(1)
      /\ lists = [i \in Arguments |-> invs[i][docIterator[i]].pos]
  BY ArgumentFacts DEF OperatorInv, SearchInv
<1>2. ASSUME NEW i \in Arguments
      PROVE  (CHOOSE p \in ToSet(invs[i]) : p.doc = DocAt(1)) = invs[i][docIterator[i]]
  <2> DEFINE l == invs[i]
             d == DocAt(1)
             k == docIterator[i]
  <2>1. IsInvertedList(l) /\ DOMAIN l = 1..Len(l) /\ Len(l) \in Nat /\ k \in 1..Len(l) /\ l[k].doc = d
    BY <1>1, ArgumentFacts, DocAtFacts, PostingFacts DEF DocAt
  <2> HIDE DEF l, d, k
  <2>2. l[k] \in ToSet(l) /\ l[k].doc = d
    BY <2>1 DEF ToSet
  <2>3. ASSUME NEW p \in ToSet(l), p.doc = d PROVE p = l[k]
    <3>1. PICK j \in 1..Len(l) : p = l[j]
      BY <2>1 DEF ToSet
    <3>2. ~(j < k) /\ ~(k < j)
      <4>1. \A a, b \in 1..Len(l) : a < b => l[a].doc < l[b].doc /\ l[a].doc \in Int /\ l[b].doc \in Int
        BY <2>1, PostingFacts
      <4>. QED BY <2>1, <2>3, <3>1, <4>1
    <3>. QED BY <2>1, <3>1, <3>2
  <2>4. (CHOOSE p \in ToSet(l) : p.doc = d) = l[k]
    BY <2>2, <2>3
  <2>. QED BY <2>4 DEF l, d, k
<1> DEFINE held(i) == CHOOSE p \in ToSet(invs[i]) : p.doc = DocAt(1)
<1>3. PositionsLists(invs, DocAt(1)) = [i \in Arguments |-> held(i).pos]
  BY <1>1 DEF PositionsLists
<1>4. \A i \in Arguments : held(i) = invs[i][docIterator[i]]
  BY <1>2
<1> HIDE DEF held
<1>. QED BY <1>1, <1>3, <1>4

LEMMA SameDefinitions ==
    ASSUME op = operator.kind, n = operator.dist
    PROVE  /\ Within(operator.kind, operator.dist, lists)!Matches = Matches
           /\ \A f, m : Within(operator.kind, operator.dist, lists)!Disjoint(f, m) <=> Disjoint(f, m)
           /\ \A v : Within(operator.kind, operator.dist, lists)!EndOf(v) = EndOf(v)
<1>1. Within(operator.kind, operator.dist, lists)!Matches = Matches
  BY DEF Within!Matches, Within!Vectors, Within!NearMatch, Within!WindowMatch, Within!Args,
         Within!Positions, Within!Follows, Within!At,
         Matches, Vectors, NearMatch, WindowMatch, Args, Positions, Follows, At
<1>2. ASSUME NEW f, NEW m
      PROVE  Within(operator.kind, operator.dist, lists)!Disjoint(f, m) <=> Disjoint(f, m)
  BY DEF Within!Disjoint, Within!Args, Disjoint, Args
<1>3. ASSUME NEW v PROVE Within(operator.kind, operator.dist, lists)!EndOf(v) = EndOf(v)
  BY DEF Within!EndOf, Within!At, Within!Args, EndOf, At, Args
<1>. QED BY <1>1, <1>2, <1>3

\* What has been found when a search has ended is what the document holds.
LEMMA FoundThem ==
    ASSUME OperatorInv, stage = "search", ~searching
    PROVE  /\ Reported \in Seq(Int) /\ Ascending(Reported) /\ SortedNumbers(Reported) = Reported
           /\ AreItsMatches(operator, PositionsLists(invs, DocAt(1)), Reported)
           /\ Reported = <<>> => ~HoldsMatch(DocAt(1))
<1> DEFINE m == Len(taken)
           o == operator.kind
           dist == operator.dist
<1>1. /\ MatcherInv /\ MatcherTypeOK /\ OutOfDoc /\ op = o /\ n = dist
      /\ PositionsLists(invs, DocAt(1)) = lists
  BY SearchesThem DEF OperatorInv, SearchInv, MatcherInv
<1>2. TakenAreDisjointMatches /\ NoMatchIsLost
  BY <1>1, InvIsSound, InvLosesNone
<1>3. /\ m \in Nat /\ DOMAIN taken = 1..m /\ taken = [k \in 1..m |-> taken[k]]
      /\ DOMAIN Reported = 1..m /\ \A k \in 1..m : Reported[k] = EndOf(taken[k])
  BY <1>1 DEF MatcherTypeOK, Reported
<1>4. Reported \in Seq(Int) /\ Len(Reported) = m
  <2>1. \A k \in 1..m : EndOf(taken[k]) \in Int
    <3> SUFFICES ASSUME NEW k \in 1..m PROVE EndOf(taken[k]) \in Int
      OBVIOUS
    <3>1. taken[k] \in Matches
      BY <1>2, <1>3 DEF TakenAreDisjointMatches
    <3>2. PICK i \in Args : EndOf(taken[k]) = At(taken[k], i)
      BY <1>1, <3>1, EndFacts
    <3>. QED BY <1>1, <3>1, <3>2, MatchFacts
  <2> HIDE DEF m
  <2>2. Reported = [k \in 1..m |-> EndOf(taken[k])]
    BY DEF Reported, m
  <2>3. Reported \in [1..m -> Int]
    BY <2>1, <2>2
  <2>. QED BY <1>3, <2>3
<1>5. Ascending(Reported) /\ SortedNumbers(Reported) = Reported
  BY <1>2, <1>4, SortedAlready DEF TakenAreDisjointMatches
<1>6. /\ Within(o, dist, lists)!Matches = Matches
      /\ \A f, k : Within(o, dist, lists)!Disjoint(f, k) <=> Disjoint(f, k)
      /\ \A v : Within(o, dist, lists)!EndOf(v) = EndOf(v)
  BY <1>1, SameDefinitions
<1>7. AreItsMatches(operator, lists, Reported)
  <2>1. \E f \in [1..m -> Matches] : Disjoint(f, m) /\ \A k \in 1..m : Reported[k] = EndOf(f[k])
    <3>1. taken \in [1..m -> Matches] /\ Disjoint(taken, m)
      BY <1>2, <1>3 DEF TakenAreDisjointMatches
    <3>. QED BY <1>3, <3>1
  <2>2. ~\E f \in [1..(m + 1) -> Matches] : Disjoint(f, m + 1)
    BY <1>1, <1>2 DEF NoMatchIsLost
  <2> HIDE DEF m
  <2>. QED BY <1>4, <1>6, <2>1, <2>2 DEF AreItsMatches
<1>8. ASSUME Reported = <<>>, HoldsMatch(DocAt(1)) PROVE FALSE
  <2>1. PICK v \in Matches : TRUE
    BY <1>1, <1>6, <1>8 DEF HoldsMatch
  <2>2. m = 0
    BY <1>4, <1>8
  <2> DEFINE f == [k \in 1..1 |-> v]
  <2>3. f \in [1..1 -> Matches] /\ Disjoint(f, 1)
    BY <2>1 DEF Disjoint
  <2>. QED BY <1>1, <1>2, <2>2, <2>3 DEF NoMatchIsLost
<1>. QED BY <1>1, <1>4, <1>5, <1>7, <1>8

LEMMA CloseDocumentPreserves ==
    ASSUME OperatorInv, CloseDocument
    PROVE  OperatorInv'
<1> DEFINE d == DocAt(1)
<1>1. /\ stage = "search" /\ ~searching /\ stage' = "align"
      /\ operator' = operator /\ invs' = invs /\ UNCHANGED matcherVars /\ Arguments' = Arguments
      /\ docIterator' = [i \in Arguments |->
            IF i = 1 \/ operator.kind = "window" THEN Past(i, d) ELSE docIterator[i]]
  BY SameTask DEF CloseDocument
<1>2. /\ OperatorTypeOK /\ SearchInv /\ JoinInv /\ Joins /\ IsInvertedList(invertedList)
      /\ 1 \in Arguments
      /\ \A i \in Arguments : HasMatchAt(i) /\ DocAt(i) = d
  BY <1>1, ArgumentFacts DEF OperatorInv, SearchInv
<1>3. d \in Int
  BY <1>2, DocAtFacts
<1>4. /\ Reported \in Seq(Int) /\ Ascending(Reported) /\ SortedNumbers(Reported) = Reported
      /\ AreItsMatches(operator, PositionsLists(invs, d), Reported)
      /\ Reported = <<>> => ~HoldsMatch(d)
  BY <1>1, FoundThem
<1>5. invertedList' = IF Reported = <<>> THEN invertedList
                      ELSE AppendPosting(invertedList, d, Reported)
  BY <1>4 DEF CloseDocument
<1>6. DOMAIN invertedList = 1..Len(invertedList) /\ Len(invertedList) \in Nat
  BY <1>2, PostingFacts
<1>7. \A k \in DOMAIN invertedList : invertedList[k].doc < d
  <2>1. docIterator[1] \in docIterator[1]..Len(invs[1])
    <3>1. docIterator[1] \in 1..Len(invs[1])
      BY <1>2, DocAtFacts
    <3>. QED BY <3>1
  <2>. QED BY <1>2, <2>1 DEF JoinInv, ListIsBehind, DocAt
<1> HIDE DEF d
<1>8. Reported # <<>> =>
          /\ IsInvertedList(invertedList') /\ Len(invertedList') = Len(invertedList) + 1
          /\ DOMAIN invertedList' = 1..(Len(invertedList) + 1)
          /\ \A k \in 1..Len(invertedList) : invertedList'[k] = invertedList[k]
          /\ invertedList'[Len(invertedList) + 1] = DocPosting(d, Reported)
  <2> SUFFICES ASSUME Reported # <<>>
               PROVE  /\ IsInvertedList(invertedList') /\ Len(invertedList') = Len(invertedList) + 1
                      /\ DOMAIN invertedList' = 1..(Len(invertedList) + 1)
                      /\ \A k \in 1..Len(invertedList) : invertedList'[k] = invertedList[k]
                      /\ invertedList'[Len(invertedList) + 1] = DocPosting(d, Reported)
    OBVIOUS
  <2>1. invertedList' = AppendPosting(invertedList, d, Reported)
    BY <1>5
  <2>2. /\ IsInvertedList(invertedList') /\ Len(invertedList') = Len(invertedList) + 1
        /\ \A k \in 1..Len(invertedList) : invertedList'[k] = invertedList[k]
        /\ invertedList'[Len(invertedList) + 1] = DocPosting(d, Reported)
    BY <1>2, <1>3, <1>4, <1>7, <2>1, Appended
  <2>. QED BY <2>2, PostingFacts
<1>9. DocPosting(d, Reported).doc = d /\ DocPosting(d, Reported).pos = Reported
  BY DEF DocPosting
<1>10. IsInvertedList(invertedList')
  BY <1>2, <1>5, <1>8
<1>11. \A k \in DOMAIN invertedList' :
          \/ k \in DOMAIN invertedList /\ invertedList'[k] = invertedList[k]
          \/ invertedList'[k].doc = d /\ invertedList'[k].pos = Reported
  BY <1>5, <1>6, <1>8, <1>9
<1>12. ASSUME NEW i \in Arguments
       PROVE  docIterator'[i] \in docIterator[i]..(Len(invs[i]) + 1) /\ docIterator'[i] \in Int
  <2>1. docIterator[i] \in 1..(Len(invs[i]) + 1) /\ Len(invs[i]) \in Nat
    BY <1>2, ArgumentFacts
  <2>2. Past(i, d) \in docIterator[i]..(Len(invs[i]) + 1)
    BY <1>2, <1>3, PastFacts
  <2>3. docIterator'[i] = Past(i, d) \/ docIterator'[i] = docIterator[i]
    BY <1>1 DEF d
  <2>. QED BY <2>1, <2>2, <2>3
<1>13. MatcherInv'
  BY <1>1, StepPreserves DEF OperatorInv
<1>14. IsInvertedList(invertedList)'
  BY <1>10 DEF IsInvertedList, Ascending
<1>15. OperatorTypeOK'
  <2>1. docIterator' \in [Arguments -> Int]
    BY <1>1, <1>12
  <2>. QED BY <1>1, <1>2, <1>12, <1>13, <1>14, <2>1, StaysTyped DEF MatcherInv
<1>16. ListIsBehind(1)'
  <2> SUFFICES ASSUME NEW k \in DOMAIN invertedList', NEW j \in docIterator'[1]..Len(invs[1])
               PROVE  invertedList'[k].doc < invs[1][j].doc
    BY <1>1 DEF ListIsBehind
  <2>1. docIterator'[1] = Past(1, d)
    BY <1>1, <1>2 DEF d
  <2>2. j \in docIterator[1]..Len(invs[1]) /\ Past(1, d) <= j
    <3>1. docIterator[1] \in Nat /\ Len(invs[1]) \in Nat
      BY <1>2, ArgumentFacts
    <3>. QED BY <1>2, <1>12, <2>1, <3>1
  <2>3. d < invs[1][j].doc /\ invs[1][j].doc \in Int
    <3>1. j \in 1..Len(invs[1]) /\ IsInvertedList(invs[1])
      BY <1>2, <2>2, ArgumentFacts
    <3>. QED BY <1>2, <1>3, <2>2, <3>1, PastFacts, PostingFacts
  <2>4. invertedList'[k].doc <= d /\ invertedList'[k].doc \in Int
    <3>1. invertedList'[k].doc \in Int
      BY <1>10, PostingFacts
    <3>. QED BY <1>3, <1>7, <1>11, <3>1
  <2>. QED BY <1>3, <2>3, <2>4
<1>17. JoinListExact'
  <2> SUFFICES ASSUME NEW k \in DOMAIN invertedList',
                      NEW posting, posting = invertedList'[k]
               PROVE  /\ Shared(posting.doc)
                      /\ AreItsMatches(operator, PositionsLists(invs, posting.doc), posting.pos)
    BY <1>1 DEF JoinListExact, Shared, DocumentsIn
  <2>1. CASE k \in DOMAIN invertedList /\ posting = invertedList[k]
    BY <1>2, <2>1 DEF JoinInv, JoinListExact
  <2>2. CASE posting.doc = d /\ posting.pos = Reported
    <3>1. Shared(d)
      <4> SUFFICES ASSUME NEW i \in Arguments PROVE d \in DocumentsIn(invs[i])
        BY DEF Shared
      <4>1. StillAhead(i, d)
        BY <1>2, DocAtFacts
      <4>. QED BY <1>2, <4>1, NoneAhead
    <3>. QED BY <1>4, <2>2, <3>1
  <2>. QED BY <1>11, <2>1, <2>2
<1>18. MissingIsAhead'
  <2> SUFFICES ASSUME NEW e \in DocumentsIn(invs[1]), e \notin DocumentsIn(invertedList'),
                      Shared(e), HoldsMatch(e), NEW i \in Arguments
               PROVE  StillAhead(i, e)'
    BY <1>1, SameTask DEF MissingIsAhead, DocumentsIn
  <2>1. e \notin DocumentsIn(invertedList)
    BY <1>5, <1>6, <1>8 DEF DocumentsIn
  <2>2. \A l \in Arguments : StillAhead(l, e)
    BY <1>2, <2>1 DEF JoinInv, MissingIsAhead
  <2>3. e # d
    <3>1. CASE Reported = <<>>
      BY <1>4, <3>1
    <3>2. CASE Reported # <<>>
      <4>1. Len(invertedList) + 1 \in DOMAIN invertedList'
        BY <1>6, <1>8, <3>2
      <4>. QED BY <1>8, <1>9, <3>2, <4>1 DEF DocumentsIn
    <3>. QED BY <3>1, <3>2
  <2>4. e \in Int /\ d < e
    BY <1>2, <1>3, <2>2, <2>3, DocAtFacts
  <2>5. CASE docIterator'[i] = Past(i, d)
    <3>1. \E k \in Past(i, d)..Len(invs[i]) : invs[i][k].doc = e
      BY <1>2, <1>3, <2>2, <2>4, PastKeeps
    <3>. QED BY <1>1, <2>5, <3>1 DEF StillAhead
  <2>6. CASE docIterator'[i] = docIterator[i]
    BY <1>1, <2>2, <2>6 DEF StillAhead
  <2>. QED BY <1>1, <2>5, <2>6 DEF d
<1>19. JoinInv'
  BY <1>16, <1>17, <1>18 DEF JoinInv
<1>20. SearchInv'
  BY <1>1 DEF SearchInv, matcherVars
<1>21. SynInv'
  BY <1>1, <1>2 DEF Joins, SynInv
<1>22. ListIsExact'
  BY <1>1 DEF ListIsExact
<1>. QED BY <1>13, <1>14, <1>15, <1>19, <1>20, <1>21, <1>22 DEF OperatorInv

-----------------------------------------------------------------------------
(* SYN.                                                                      *)
LEMMA MinFacts ==
    ASSUME OperatorTypeOK, ~Depleted
    PROVE  /\ MinDocid \in Int
           /\ \E i \in Arguments : i \in Here
           /\ \A i \in Arguments : HasMatchAt(i) => MinDocid <= DocAt(i)
           /\ Here \subseteq Arguments
<1> DEFINE S == {j \in Arguments : HasMatchAt(j)}
<1>1. S \in SUBSET Arguments /\ S # {} /\ \A i \in S : HasMatchAt(i)
  BY DEF Depleted
<1>2. MinDocid = Min({DocAt(i) : i \in S})
  BY DEF MinDocid
<1>3. /\ MinDocid \in Int
      /\ \E i \in S : DocAt(i) = MinDocid
      /\ \A i \in S : MinDocid <= DocAt(i)
  <2> HIDE DEF S
  <2>. QED BY <1>1, <1>2, ExtremesOf
<1>. QED BY <1>3 DEF Here

\* The positions merged are all those the arguments have in the document.
LEMMA MergesThem ==
    ASSUME OperatorInv, operator.kind = "syn", ~Depleted
    PROVE  /\ Locations = UnionOfPositions(MinDocid)
           /\ IsFiniteSet(Locations) /\ Locations \subseteq Int /\ Locations # {}
           /\ \A i \in Arguments : \A j \in 1..Len(invs[i]) :
                 invs[i][j].doc = MinDocid => i \in Here /\ j = docIterator[i]
           /\ \A k \in DOMAIN invertedList : invertedList[k].doc < MinDocid
<1> DEFINE d == MinDocid
<1>1. OperatorTypeOK /\ SynInv /\ IsInvertedList(invertedList)
  BY DEF OperatorInv
<1>2. /\ d \in Int /\ Here \subseteq Arguments
      /\ \A i \in Arguments : HasMatchAt(i) => d <= DocAt(i)
      /\ \A i \in Here : HasMatchAt(i) /\ DocAt(i) = d
  BY <1>1, MinFacts DEF Here
<1>3. PICK m \in Arguments : m \in Here
  BY <1>1, MinFacts
<1>4. \A i \in Here : docIterator[i] \in 1..Len(invs[i]) /\ invs[i][docIterator[i]].doc = d
  BY <1>1, <1>2, DocAtFacts DEF DocAt
<1>5. ASSUME NEW k \in DOMAIN invertedList PROVE invertedList[k].doc < d
  <2>1. docIterator[m] \in docIterator[m]..Len(invs[m])
    BY <1>3, <1>4
  <2>. QED BY <1>1, <1>3, <1>4, <2>1 DEF SynInv, ListIsBehind
<1>6. ASSUME NEW i \in Arguments, NEW j \in 1..Len(invs[i]), invs[i][j].doc = d
      PROVE  i \in Here /\ j = docIterator[i]
  <2>1. docIterator[i] \in 1..(Len(invs[i]) + 1) /\ Len(invs[i]) \in Nat /\ IsInvertedList(invs[i])
    BY <1>1, ArgumentFacts
  <2>2. j >= docIterator[i]
    <3> SUFFICES ASSUME j < docIterator[i] PROVE FALSE
      BY <2>1
    <3>1. j \in 1..(docIterator[i] - 1)
      BY <2>1
    <3>2. d \in DocumentsIn(invertedList)
      BY <1>1, <1>6, <3>1 DEF SynInv
    <3>3. PICK k \in DOMAIN invertedList : invertedList[k].doc = d
      BY <3>2 DEF DocumentsIn
    <3>. QED BY <1>2, <1>5, <3>3
  <2>3. HasMatchAt(i) /\ docIterator[i] \in 1..Len(invs[i])
    BY <2>1, <2>2 DEF HasMatchAt
  <2>4. d <= invs[i][docIterator[i]].doc
    BY <1>2, <2>3 DEF DocAt
  <2>5. docIterator[i] = j \/ invs[i][docIterator[i]].doc < invs[i][j].doc
    BY <2>1, <2>2, <2>3, PostingFacts
  <2>6. invs[i][docIterator[i]].doc \in Int
    BY <2>1, <2>3, PostingFacts
  <2>7. docIterator[i] = j
    BY <1>2, <1>6, <2>4, <2>5, <2>6
  <2>. QED BY <1>6, <2>3, <2>7 DEF Here, DocAt
<1> HIDE DEF d
<1>7. ASSUME NEW i \in Here
      PROVE  PositionsIn(invs[i], d) = ToSet(invs[i][docIterator[i]].pos)
  <2>1. DOMAIN invs[i] = 1..Len(invs[i])
    BY <1>1, <1>2, ArgumentFacts, PostingFacts
  <2>2. {j \in DOMAIN invs[i] : invs[i][j].doc = d} = {docIterator[i]}
    BY <1>2, <1>4, <1>6, <2>1
  <2>. QED BY <2>2 DEF PositionsIn
<1>8. ASSUME NEW i \in Arguments, i \notin Here PROVE PositionsIn(invs[i], d) = {}
  <2>1. DOMAIN invs[i] = 1..Len(invs[i])
    BY <1>1, ArgumentFacts, PostingFacts
  <2>2. {j \in DOMAIN invs[i] : invs[i][j].doc = d} = {}
    BY <1>6, <1>8, <2>1
  <2>. QED BY <2>2 DEF PositionsIn
<1>9. Locations = UnionOfPositions(d)
  <2>1. Locations = UNION {PositionsIn(invs[i], d) : i \in Here}
    BY <1>7 DEF Locations
  <2>. QED BY <1>2, <1>8, <2>1 DEF UnionOfPositions
<1>10. ASSUME NEW i \in Here
       PROVE  LET P == ToSet(invs[i][docIterator[i]].pos)
              IN  IsFiniteSet(P) /\ P \subseteq Int /\ P # {}
  <2> DEFINE pos == invs[i][docIterator[i]].pos
  <2>1. pos \in Seq(Int) /\ pos # <<>>
    BY <1>1, <1>2, DocAtFacts
  <2> HIDE DEF pos
  <2>2. Len(pos) \in Nat /\ Len(pos) # 0 /\ DOMAIN pos = 1..Len(pos) /\ \A k \in 1..Len(pos) : pos[k] \in Int
    BY <2>1
  <2>3. IsFiniteSet(1..Len(pos))
    BY <2>2, FS_Interval
  <2>4. IsFiniteSet({pos[k] : k \in 1..Len(pos)})
    BY <2>3, ImageFinite
  <2>5. ToSet(pos) = {pos[k] : k \in 1..Len(pos)} /\ 1 \in 1..Len(pos)
    BY <2>2 DEF ToSet
  <2>. QED BY <2>2, <2>4, <2>5 DEF pos
<1>11. IsFiniteSet(Locations)
  <2> DEFINE f == [i \in Here |-> ToSet(invs[i][docIterator[i]].pos)]
             T == {f[i] : i \in Here}
  <2>1. IsFiniteSet(Here)
    BY <1>1, <1>2, ArgumentFacts, FS_Subset
  <2>2. Locations = UNION T
    BY DEF Locations
  <2>3. \A P \in T : IsFiniteSet(P)
    BY <1>10
  <2>4. IsFiniteSet(T)
    <3> HIDE DEF f
    <3>. QED BY <2>1, ImageFinite
  <2> HIDE DEF T
  <2>. QED BY <2>2, <2>3, <2>4, FS_UNION
<1>12. Locations \subseteq Int /\ Locations # {}
  BY <1>3, <1>10 DEF Locations
<1>. QED BY <1>5, <1>6, <1>9, <1>11, <1>12 DEF d

LEMMA SynPassPreserves ==
    ASSUME OperatorInv, SynPass
    PROVE  OperatorInv'
<1> DEFINE d == MinDocid
           pos == SortedSet(Locations)
<1>1. /\ stage = "align" /\ operator.kind = "syn" /\ ~Depleted /\ stage' = "align"
      /\ operator' = operator /\ invs' = invs /\ UNCHANGED matcherVars /\ Arguments' = Arguments
      /\ invertedList' = AppendPosting(invertedList, d, pos)
      /\ docIterator' = [i \in Arguments |-> IF i \in Here THEN Past(i, d) ELSE docIterator[i]]
  BY SameTask DEF SynPass, SynMerge, Aligning
<1>2. /\ OperatorTypeOK /\ SynInv /\ IsInvertedList(invertedList)
      /\ d \in Int /\ Here \subseteq Arguments
      /\ \A i \in Arguments : HasMatchAt(i) => d <= DocAt(i)
      /\ \A i \in Here : HasMatchAt(i) /\ DocAt(i) = d
  BY <1>1, MinFacts DEF OperatorInv, Here
<1>3. /\ Locations = UnionOfPositions(d)
      /\ IsFiniteSet(Locations) /\ Locations \subseteq Int /\ Locations # {}
      /\ \A i \in Arguments : \A j \in 1..Len(invs[i]) :
            invs[i][j].doc = d => i \in Here /\ j = docIterator[i]
      /\ \A k \in DOMAIN invertedList : invertedList[k].doc < d
  BY <1>1, MergesThem
<1>4. pos \in Seq(Int) /\ ToSet(pos) = Locations /\ Ascending(pos) /\ pos # <<>>
  <2>1. pos \in Seq(Int) /\ ToSet(pos) = Locations /\ Ascending(pos)
    BY <1>3, SortedSetFacts DEF SortedSet
  <2>2. ToSet(<<>>) = {}
    BY DEF ToSet
  <2>. QED BY <1>3, <2>1, <2>2
<1> HIDE DEF d, pos
<1>5. DOMAIN invertedList = 1..Len(invertedList) /\ Len(invertedList) \in Nat
  BY <1>2, PostingFacts
<1>6. /\ IsInvertedList(invertedList') /\ DOMAIN invertedList' = 1..(Len(invertedList) + 1)
      /\ \A k \in 1..Len(invertedList) : invertedList'[k] = invertedList[k]
      /\ invertedList'[Len(invertedList) + 1].doc = d
      /\ invertedList'[Len(invertedList) + 1].pos = pos
  <2>1. /\ IsInvertedList(invertedList') /\ Len(invertedList') = Len(invertedList) + 1
        /\ \A k \in 1..Len(invertedList) : invertedList'[k] = invertedList[k]
        /\ invertedList'[Len(invertedList) + 1] = DocPosting(d, pos)
    BY <1>1, <1>2, <1>3, <1>4, Appended
  <2>. QED BY <2>1, PostingFacts DEF DocPosting
<1>7. ASSUME NEW k \in DOMAIN invertedList'
      PROVE  \/ k \in DOMAIN invertedList /\ k # Len(invertedList) + 1 /\ invertedList'[k] = invertedList[k]
             \/ k = Len(invertedList) + 1
  BY <1>5, <1>6
<1>8. ASSUME NEW i \in Arguments
      PROVE  docIterator'[i] \in docIterator[i]..(Len(invs[i]) + 1) /\ docIterator'[i] \in Int
  <2>1. docIterator[i] \in 1..(Len(invs[i]) + 1) /\ Len(invs[i]) \in Nat
    BY <1>2, ArgumentFacts
  <2>2. Past(i, d) \in docIterator[i]..(Len(invs[i]) + 1)
    BY <1>2, PastFacts
  <2>3. docIterator'[i] = Past(i, d) \/ docIterator'[i] = docIterator[i]
    BY <1>1
  <2>. QED BY <2>1, <2>2, <2>3
<1>9. MatcherInv'
  BY <1>1, StepPreserves DEF OperatorInv
<1>10. IsInvertedList(invertedList)'
  BY <1>6 DEF IsInvertedList, Ascending
<1>11. OperatorTypeOK'
  <2>1. docIterator' \in [Arguments -> Int]
    BY <1>1, <1>8
  <2>. QED BY <1>1, <1>2, <1>8, <1>9, <1>10, <2>1, StaysTyped DEF MatcherInv
<1>12. ASSUME NEW i \in Arguments PROVE ListIsBehind(i)'
  <2> SUFFICES ASSUME NEW k \in DOMAIN invertedList', NEW j \in docIterator'[i]..Len(invs[i])
               PROVE  invertedList'[k].doc < invs[i][j].doc
    BY <1>1 DEF ListIsBehind
  <2>1. /\ docIterator[i] \in 1..(Len(invs[i]) + 1) /\ Len(invs[i]) \in Nat /\ IsInvertedList(invs[i])
        /\ docIterator'[i] \in docIterator[i]..(Len(invs[i]) + 1)
    BY <1>2, <1>8, ArgumentFacts
  <2>2. j \in docIterator[i]..Len(invs[i]) /\ j \in 1..Len(invs[i]) /\ docIterator'[i] <= j
        /\ docIterator[i] \in 1..Len(invs[i])
    BY <2>1
  <2>3. invs[i][j].doc \in Int /\ invs[i][docIterator[i]].doc \in Int
    BY <2>1, <2>2, PostingFacts
  <2>4. d < invs[i][j].doc
    <3>1. CASE i \in Here
      <4>1. Past(i, d) <= j
        BY <1>1, <2>2, <3>1
      <4>. QED BY <1>2, <2>2, <4>1, PastFacts
    <3>2. CASE i \notin Here
      <4>1. d <= invs[i][docIterator[i]].doc
        BY <1>2, <2>2 DEF HasMatchAt, DocAt
      <4>2. j = docIterator[i] \/ invs[i][docIterator[i]].doc < invs[i][j].doc
        <5>1. \A a, b \in 1..Len(invs[i]) : a < b => invs[i][a].doc < invs[i][b].doc
          BY <2>1, PostingFacts
        <5>. QED BY <2>1, <2>2, <5>1
      <4>3. invs[i][j].doc # d
        BY <1>3, <2>2, <3>2
      <4>. QED BY <1>2, <2>3, <4>1, <4>2, <4>3
    <3>. QED BY <3>1, <3>2
  <2>5. invertedList'[k].doc <= d /\ invertedList'[k].doc \in Int
    <3>1. invertedList'[k].doc \in Int
      BY <1>6, PostingFacts
    <3>. QED BY <1>2, <1>3, <1>6, <1>7, <3>1
  <2>. QED BY <1>2, <2>3, <2>4, <2>5
<1>13. ASSUME NEW e \in DocumentsIn(invertedList')
       PROVE  PositionsIn(invertedList', e) = UnionOfPositions(e)
  <2> DEFINE z == Len(invertedList) + 1
  <2>0. z \in DOMAIN invertedList' /\ z \notin DOMAIN invertedList
        /\ \A k \in DOMAIN invertedList : k \in DOMAIN invertedList' /\ invertedList'[k] = invertedList[k]
    BY <1>5, <1>6
  <2>1. CASE e = d
    <3>1. {j \in DOMAIN invertedList' : invertedList'[j].doc = d} = {z}
      <4>1. \A j \in DOMAIN invertedList' : invertedList'[j].doc = d => j = z
        BY <1>2, <1>3, <1>7
      <4>. QED BY <1>6, <2>0, <4>1
    <3>2. PositionsIn(invertedList', d) = ToSet(pos)
      BY <1>6, <3>1 DEF PositionsIn
    <3>. QED BY <1>3, <1>4, <2>1, <3>2
  <2>2. CASE e # d
    <3>1. {j \in DOMAIN invertedList' : invertedList'[j].doc = e}
             = {j \in DOMAIN invertedList : invertedList[j].doc = e}
      BY <1>6, <1>7, <2>0, <2>2
    <3>2. PositionsIn(invertedList', e) = PositionsIn(invertedList, e)
      <4>1. \A j \in {l \in DOMAIN invertedList : invertedList[l].doc = e} :
               invertedList'[j] = invertedList[j]
        BY <2>0
      <4>. QED BY <3>1, <4>1 DEF PositionsIn
    <3>3. e \in DocumentsIn(invertedList)
      <4>1. PICK k \in DOMAIN invertedList' : invertedList'[k].doc = e
        BY DEF DocumentsIn
      <4>. QED BY <1>6, <1>7, <2>2, <4>1 DEF DocumentsIn
    <3>. QED BY <1>1, <1>2, <3>2, <3>3 DEF SynInv
  <2>. QED BY <2>1, <2>2
<1>14. ASSUME NEW i \in Arguments, NEW j \in 1..(docIterator'[i] - 1)
       PROVE  invs[i][j].doc \in DocumentsIn(invertedList')
  <2>1. /\ docIterator[i] \in 1..(Len(invs[i]) + 1) /\ Len(invs[i]) \in Nat /\ IsInvertedList(invs[i])
        /\ docIterator'[i] \in docIterator[i]..(Len(invs[i]) + 1)
    BY <1>2, <1>8, ArgumentFacts
  <2>2. CASE j < docIterator[i]
    <3>1. j \in 1..(docIterator[i] - 1)
      BY <2>1, <2>2
    <3>2. PICK k \in DOMAIN invertedList : invertedList[k].doc = invs[i][j].doc
      BY <1>1, <1>2, <3>1 DEF SynInv, DocumentsIn
    <3>. QED BY <1>5, <1>6, <3>2 DEF DocumentsIn
  <2>3. CASE j >= docIterator[i]
    <3>1. docIterator'[i] # docIterator[i] /\ j \in docIterator[i]..Len(invs[i])
          /\ ~(docIterator'[i] <= j)
      BY <2>1, <2>3
    <3>2. i \in Here /\ docIterator'[i] = Past(i, d)
      BY <1>1, <3>1
    <3>3. ~(d < invs[i][j].doc) /\ invs[i][j].doc \in Int
      <4>1. j \in 1..Len(invs[i])
        BY <2>1, <3>1
      <4>. QED BY <1>2, <2>1, <3>1, <3>2, <4>1, PastFacts, PostingFacts
    <3>4. d <= invs[i][j].doc
      <4>1. StillAhead(i, invs[i][j].doc)
        BY <3>1 DEF StillAhead
      <4>. QED BY <1>2, <3>2, <4>1, DocAtFacts
    <3>5. invs[i][j].doc = d
      BY <1>2, <3>3, <3>4
    <3>6. Len(invertedList) + 1 \in DOMAIN invertedList'
      BY <1>5, <1>6
    <3>. QED BY <1>6, <3>5, <3>6 DEF DocumentsIn
  <2>. QED BY <2>1, <2>2, <2>3
<1>15. SynInv'
  <2>1. \A i \in Arguments' : ListIsBehind(i)'
    BY <1>1, <1>12
  <2>2. \A e \in DocumentsIn(invertedList)' : PositionsIn(invertedList, e)' = UnionOfPositions(e)'
    BY <1>1, <1>13, SameTask DEF DocumentsIn, PositionsIn
  <2>3. \A i \in Arguments' : \A j \in 1..(docIterator'[i] - 1) :
           invs'[i][j].doc \in DocumentsIn(invertedList)'
    BY <1>1, <1>14 DEF DocumentsIn
  <2>. QED BY <2>1, <2>2, <2>3 DEF SynInv
<1>16. SearchInv'
  BY <1>1 DEF OperatorInv, SearchInv, matcherVars
<1>17. JoinInv'
  BY <1>1 DEF JoinInv, Joins
<1>18. ListIsExact'
  BY <1>1 DEF ListIsExact
<1>. QED BY <1>9, <1>10, <1>11, <1>15, <1>16, <1>17, <1>18 DEF OperatorInv

LEMMA SynFinishPreserves ==
    ASSUME OperatorInv, SynFinish
    PROVE  OperatorInv'
<1>1. /\ stage = "align" /\ operator.kind = "syn" /\ Depleted /\ stage' = "done"
      /\ operator' = operator /\ invs' = invs /\ docIterator' = docIterator
      /\ invertedList' = invertedList /\ UNCHANGED matcherVars /\ Arguments' = Arguments
      /\ UNCHANGED <<operator, invs>>
  BY SameTask DEF SynFinish, Aligning, Finish
<1>2. OperatorTypeOK /\ SynInv /\ IsInvertedList(invertedList) /\ DOMAIN invs = Arguments
  BY ArgumentFacts DEF OperatorInv
<1>3. MatcherInv'
  BY <1>1, StepPreserves DEF OperatorInv
<1>4. IsInvertedList(invertedList)'
  BY <1>1, <1>2 DEF IsInvertedList, Ascending
<1>5. docIterator \in [Arguments -> Int]
      /\ \A i \in Arguments : docIterator[i] \in docIterator[i]..(Len(invs[i]) + 1)
  <2>1. \A i \in Arguments : docIterator[i] \in 1..(Len(invs[i]) + 1) /\ Len(invs[i]) \in Nat
    BY <1>2, ArgumentFacts
  <2>2. docIterator \in [Arguments -> Nat \ {0}]
    BY <1>2 DEF OperatorTypeOK
  <2>. QED BY <2>1, <2>2
<1>6. OperatorTypeOK'
  BY <1>1, <1>2, <1>3, <1>4, <1>5, StaysTyped DEF MatcherInv
<1>7. SynInv'
  BY <1>1, <1>2, SameTask DEF SynInv, ListIsBehind, DocumentsIn, PositionsIn
<1>8. SearchInv'
  BY <1>1 DEF OperatorInv, SearchInv, matcherVars
<1>9. JoinInv'
  BY <1>1 DEF JoinInv, Joins
<1>10. ASSUME NEW d \in DocumentsIn(invertedList) \cup UNION {DocumentsIn(invs[i]) : i \in DOMAIN invs}
       PROVE  PositionsIn(invertedList, d) = UNION {PositionsIn(invs[i], d) : i \in DOMAIN invs}
  <2>1. d \in DocumentsIn(invertedList)
    <3> SUFFICES ASSUME NEW i \in Arguments, d \in DocumentsIn(invs[i])
                 PROVE  d \in DocumentsIn(invertedList)
      BY <1>2
    <3>1. docIterator[i] = Len(invs[i]) + 1 /\ IsInvertedList(invs[i]) /\ Len(invs[i]) \in Nat
      <4>1. /\ docIterator[i] \in 1..(Len(invs[i]) + 1) /\ Len(invs[i]) \in Nat
            /\ IsInvertedList(invs[i])
        BY <1>2, ArgumentFacts
      <4>2. ~(docIterator[i] <= Len(invs[i]))
        BY <1>1 DEF Depleted, HasMatchAt
      <4>. QED BY <4>1, <4>2
    <3>2. PICK k \in 1..Len(invs[i]) : invs[i][k].doc = d
      BY <3>1, HoldsAt
    <3>3. k \in 1..(docIterator[i] - 1)
      BY <3>1
    <3>. QED BY <1>1, <1>2, <3>2, <3>3 DEF SynInv
  <2>. QED BY <1>1, <1>2, <2>1 DEF SynInv, UnionOfPositions
<1>11. HoldsExactly(operator, invs, invertedList)
  <2>1. operator.kind \notin {"near", "window"}
    BY <1>1
  <2>. QED BY <1>2, <1>10, <2>1 DEF HoldsExactly
<1>12. ListIsExact'
  BY <1>1, <1>11 DEF ListIsExact
<1>. QED BY <1>3, <1>4, <1>6, <1>7, <1>8, <1>9, <1>12 DEF OperatorInv

-----------------------------------------------------------------------------
(* An operator begins: all its documents lie ahead.                          *)
LEMMA StartPreserves ==
    ASSUME OperatorInv, Start(operator', invs')
    PROVE  OperatorInv'
<1>1. /\ stage = "done" /\ stage' = "align" /\ invertedList' = <<>> /\ UNCHANGED matcherVars
      /\ docIterator' = [i \in 1..Len(invs') |-> 1]
      /\ AreArguments(operator', invs')
  BY DEF Start, StartOn
<1>2. /\ Arguments' = 1..Len(invs') /\ DOMAIN invs' = Arguments' /\ Len(invs') \in Nat \ {0}
      /\ \A i \in Arguments' : IsInvertedList(invs'[i]) /\ Len(invs'[i]) \in Nat /\ docIterator'[i] = 1
  <2>1. Arguments' = 1..Len(invs') /\ DOMAIN invs' = Arguments' /\ Len(invs') \in Nat \ {0}
    BY <1>1 DEF AreArguments, Arguments
  <2>. QED BY <1>1, <2>1, PostingFacts DEF AreArguments
<1>3. MatcherInv'
  BY <1>1, StepPreserves DEF OperatorInv
<1>4. IsInvertedList(invertedList)' /\ DOMAIN invertedList' = {}
  BY <1>1 DEF IsInvertedList, Ascending
<1>5. OperatorTypeOK'
  <2>1. AreArguments(operator, invs)'
    BY <1>1 DEF AreArguments, IsInvertedList, Ascending
  <2>2. docIterator' \in [Arguments' -> Nat \ {0}]
    BY <1>1, <1>2
  <2>3. \A i \in Arguments' : docIterator'[i] <= Len(invs'[i]) + 1
    BY <1>2
  <2>. QED BY <1>1, <1>3, <1>4, <2>1, <2>2, <2>3 DEF OperatorTypeOK, MatcherInv, IsInvertedList
<1>6. JoinInv'
  <2>1. ListIsBehind(1)' /\ JoinListExact'
    BY <1>4 DEF ListIsBehind, JoinListExact
  <2>2. MissingIsAhead'
    <3> SUFFICES ASSUME NEW d, Shared(d)', NEW i \in Arguments' PROVE StillAhead(i, d)'
      BY DEF MissingIsAhead
    <3>1. d \in DocumentsIn(invs'[i])
      BY DEF Shared, DocumentsIn
    <3>2. PICK k \in 1..Len(invs'[i]) : invs'[i][k].doc = d
      BY <1>2, <3>1, HoldsAt
    <3>. QED BY <1>2, <3>2 DEF StillAhead
  <2>. QED BY <2>1, <2>2 DEF JoinInv
<1>7. SearchInv'
  BY <1>1 DEF OperatorInv, SearchInv, matcherVars
<1>8. SynInv'
  <2>1. \A i \in Arguments' : ListIsBehind(i)'
    BY <1>4 DEF ListIsBehind
  <2>2. DocumentsIn(invertedList)' = {}
    BY <1>4 DEF DocumentsIn
  <2>3. \A i \in Arguments' : 1..(docIterator'[i] - 1) = {}
    BY <1>2
  <2>. QED BY <2>1, <2>2, <2>3 DEF SynInv
<1>9. ListIsExact'
  BY <1>1 DEF ListIsExact
<1>. QED BY <1>3, <1>4, <1>5, <1>6, <1>7, <1>8, <1>9 DEF OperatorInv

LEMMA OperatorStarts == OperatorInit => OperatorInv
<1> SUFFICES ASSUME OperatorInit PROVE OperatorInv
  OBVIOUS
<1>1. /\ MatcherInit /\ operator.kind = "near" /\ operator.dist = 1 /\ invs = << <<>> >>
      /\ docIterator = <<1>> /\ invertedList = <<>> /\ stage = "done"
  BY DEF OperatorInit
<1>2. /\ Arguments = {1} /\ DOMAIN invs = {1} /\ invs[1] = <<>> /\ Len(invs) = 1 /\ Len(invs[1]) = 0
      /\ DOMAIN invs[1] = {} /\ DOMAIN invertedList = {}
  BY <1>1 DEF Arguments
<1>3. MatcherInv /\ ~searching
  BY <1>1, InitEstablishes DEF MatcherInit
<1>4. IsInvertedList(<<>>)
  BY DEF IsInvertedList
<1>5. AreArguments(operator, invs)
  <2>1. invs \in Seq(Seq([doc : Int, pos : Seq(Int)])) /\ invs # <<>>
    BY <1>1
  <2>. QED BY <1>1, <1>2, <1>4, <2>1 DEF AreArguments
<1>6. OperatorTypeOK
  <2>1. docIterator \in [{1} -> Nat \ {0}] /\ docIterator[1] = 1
    BY <1>1
  <2>. QED BY <1>1, <1>2, <1>3, <1>5, <2>1 DEF OperatorTypeOK, MatcherInv
<1>7. DocumentsIn(invertedList) = {} /\ DocumentsIn(invs[1]) = {}
  BY <1>2 DEF DocumentsIn
<1>8. JoinInv
  BY <1>2, <1>7 DEF JoinInv, ListIsBehind, JoinListExact, MissingIsAhead
<1>9. SearchInv /\ SynInv
  BY <1>1, <1>3 DEF SearchInv, SynInv
<1>10. ListIsExact
  BY <1>1, <1>2, <1>4, <1>7 DEF ListIsExact, HoldsExactly
<1>. QED BY <1>1, <1>3, <1>4, <1>6, <1>8, <1>9, <1>10 DEF OperatorInv

LEMMA OperatorSteps == OperatorInv /\ [OperatorNext]_operatorVars => OperatorInv'
<1> SUFFICES ASSUME OperatorInv, [OperatorNext]_operatorVars PROVE OperatorInv'
  OBVIOUS
<1>1. CASE Start(operator', invs')
  BY <1>1, StartPreserves
<1>2. CASE NearAlign \/ NearOpen \/ NearFinish
  BY <1>2, NearAlignPreserves, NearOpenPreserves, NearFinishPreserves
<1>3. CASE WindowAlign \/ WindowOpen \/ WindowFinish
  BY <1>3, WindowAlignPreserves, WindowOpenPreserves, WindowFinishPreserves
<1>4. CASE SearchDocument \/ CloseDocument
  BY <1>4, SearchDocumentPreserves, CloseDocumentPreserves
<1>5. CASE SynPass \/ SynFinish
  BY <1>5, SynPassPreserves, SynFinishPreserves
<1>6. CASE UNCHANGED operatorVars
  <2>1. /\ UNCHANGED evaluationVars /\ UNCHANGED matcherVars
    BY <1>6 DEF operatorVars
  <2>2. MatcherInv'
    BY <2>1, StepPreserves DEF OperatorInv
  <2>3. /\ operator' = operator /\ invs' = invs /\ docIterator' = docIterator
        /\ invertedList' = invertedList /\ stage' = stage
    BY <2>1 DEF evaluationVars
  <2>4. /\ op' = op /\ n' = n /\ lists' = lists /\ cursor' = cursor /\ searching' = searching
    BY <2>1 DEF matcherVars
  <2>5. OperatorTypeOK' /\ IsInvertedList(invertedList)'
    BY <2>2, <2>3
       DEF OperatorInv, MatcherInv, OperatorTypeOK, AreArguments, IsInvertedList, Ascending, Arguments
  <2>6. SearchInv'
    BY <2>3, <2>4 DEF OperatorInv, SearchInv, Joins, Arguments, HasMatchAt, DocAt, OutOfDoc, Args
  <2>7. JoinInv' /\ SynInv' /\ ListIsExact'
    BY <2>3, SameTask
       DEF OperatorInv, JoinInv, ListIsBehind, JoinListExact, MissingIsAhead, StillAhead, SynInv,
           DocumentsIn, PositionsIn, ListIsExact
  <2>. QED BY <2>2, <2>5, <2>6, <2>7 DEF OperatorInv
<1>. QED BY <1>1, <1>2, <1>3, <1>4, <1>5, <1>6 DEF OperatorNext, Evaluate

THEOREM OperatorIsSafe == OperatorSpec => []OperatorInv
<1>. QED BY OperatorStarts, OperatorSteps, PTL DEF OperatorSpec

(* An operator keeps its iterators within the lists of its arguments, and makes
   a list of postings (query/QryIop.py, core/InvList.py).                    *)
THEOREM OperatorTyped == OperatorSpec => []OperatorTypeOK
<1>1. OperatorInv => OperatorTypeOK
  BY DEF OperatorInv
<1>. QED BY <1>1, OperatorIsSafe, PTL

(* An evaluated operator holds exactly the documents and the positions its
   definition asks for, whatever its arguments: the document loops of
   QryIopNear.py:27-39, QryIopWindow.py:34-107 and QryIopSyn.py:36-59 skip no
   document and add none, the greedy searches in them lose no match, and what
   results is an inverted list again, fit to be an argument.                 *)
THEOREM ListsAreExact == OperatorSpec => []ListIsExact
<1>1. OperatorInv => ListIsExact
  BY DEF OperatorInv
<1>. QED BY <1>1, OperatorIsSafe, PTL

(* The searches inside the documents are those of PositionalMatch: each is asked
   for lists that ascend and runs to its end before the next begins, so that
   what is proved of a search holds of every one an operator makes
   (QryIopNear.py:41-101, QryIopWindow.py:53-97).                            *)
THEOREM OperatorsSearch == OperatorSpec => MatcherSpec
<1>1. OperatorInit => MatcherInit
  BY DEF OperatorInit
<1>2. OperatorInv /\ OperatorInv' /\ [OperatorNext]_operatorVars => [MatcherNext]_matcherVars
  <2> SUFFICES ASSUME OperatorInv', [OperatorNext]_operatorVars PROVE [MatcherNext]_matcherVars
    OBVIOUS
  <2>1. CASE OpenDocument
    <3>1. Load(operator.kind, operator.dist, [i \in Arguments |-> invs[i][docIterator'[i]].pos])
      BY <2>1 DEF OpenDocument
    <3>2. Load(op', n', lists')
      BY <3>1 DEF Load
    <3>3. IsInput(op', n', lists')
      BY DEF OperatorInv, MatcherInv, MatcherTypeOK, IsInput, Ascending
    <3>. QED BY <3>2, <3>3 DEF Begin, MatcherNext
  <2>2. CASE Step
    BY <2>2 DEF MatcherNext
  <2>3. CASE UNCHANGED matcherVars
    BY <2>3
  <2>4. OpenDocument \/ Step \/ UNCHANGED matcherVars
    BY DEF OperatorNext, Evaluate, Start, StartOn, NearAlign, NearOpen, NearFinish, WindowAlign,
           WindowOpen, WindowFinish, SearchDocument, CloseDocument, SynPass, SynMerge, SynFinish,
           MoveOn, Finish, operatorVars
  <2>. QED BY <2>1, <2>2, <2>3, <2>4
<1>. QED BY <1>1, <1>2, OperatorIsSafe, PTL DEF OperatorSpec, MatcherSpec

-----------------------------------------------------------------------------

LEMMA FewerRemain ==
    ASSUME OperatorTypeOK, UNCHANGED <<operator, invs>>,
           \A i \in Arguments : docIterator'[i] \in docIterator[i]..(Len(invs[i]) + 1)
    PROVE  /\ PostingsLeft' <= PostingsLeft
           /\ \A i \in Arguments : docIterator'[i] # docIterator[i] => PostingsLeft' < PostingsLeft
<1> DEFINE f == [i \in Arguments |-> Len(invs[i]) + 1 - docIterator[i]]
           g == [i \in Arguments |-> Len(invs[i]) + 1 - docIterator'[i]]
<1>1. PostingsLeft = SumFunction(f) /\ PostingsLeft' = SumFunction(g)
  <2>1. invs' = invs /\ Arguments' = Arguments
    BY SameTask
  <2>. QED BY <2>1 DEF PostingsLeft
<1>2. ASSUME NEW i \in Arguments
      PROVE  /\ f[i] \in Nat /\ g[i] \in Nat /\ g[i] <= f[i]
             /\ docIterator'[i] # docIterator[i] => g[i] < f[i]
  <2>1. docIterator[i] \in 1..(Len(invs[i]) + 1) /\ Len(invs[i]) \in Nat
    BY ArgumentFacts
  <2>2. docIterator'[i] \in docIterator[i]..(Len(invs[i]) + 1)
    OBVIOUS
  <2>3. f[i] = Len(invs[i]) + 1 - docIterator[i] /\ g[i] = Len(invs[i]) + 1 - docIterator'[i]
    OBVIOUS
  <2> HIDE DEF f, g
  <2>. QED BY <2>1, <2>2, <2>3
<1>3. f \in [Arguments -> Nat] /\ g \in [Arguments -> Nat] /\ IsFiniteSet(Arguments)
  BY <1>2, ArgumentFacts
<1>4. DOMAIN f = Arguments /\ DOMAIN g = Arguments
  OBVIOUS
<1> HIDE DEF f, g
<1>5. SumFunction(g) <= SumFunction(f)
  BY <1>2, <1>3, <1>4, SumNoMore DEF SumFunction
<1>6. ASSUME NEW i \in Arguments, docIterator'[i] # docIterator[i]
      PROVE  SumFunction(g) < SumFunction(f)
  BY <1>2, <1>3, <1>6, SumLess
<1>. QED BY <1>1, <1>5, <1>6

LEMMA NearMovesOn ==
    ASSUME OperatorTypeOK, HasMatchAt(1), NEW i \in Arguments, FirstApart(i),
           Proposed(i) <= Len(invs[i])
    PROVE  To(1, invs[i][Proposed(i)].doc) # docIterator[1]
<1> DEFINE e == invs[i][Proposed(i)].doc
<1>1. i # 1
  BY ProposedFacts DEF FirstApart
<1>2. Proposed(i) = To(i, DocAt(1)) /\ 1 \in Arguments
  BY <1>1, ArgumentFacts DEF Proposed
<1>3. DocAt(1) \in Int /\ docIterator[1] \in 1..Len(invs[1])
  BY <1>2, DocAtFacts
<1>4. e # DocAt(1)
  BY DEF FirstApart, Agrees
<1>5. Proposed(i) \in docIterator[i]..Len(invs[i]) /\ Proposed(i) \in 1..Len(invs[i])
      /\ IsInvertedList(invs[i])
  <2>1. docIterator[i] \in 1..(Len(invs[i]) + 1) /\ Len(invs[i]) \in Nat /\ IsInvertedList(invs[i])
    BY ArgumentFacts
  <2>2. Proposed(i) \in docIterator[i]..(Len(invs[i]) + 1)
    BY ProposedFacts
  <2>. QED BY <2>1, <2>2
<1>6. DocAt(1) <= e /\ e \in Int
  <2>1. To(i, DocAt(1)) <= Proposed(i)
    BY <1>2, <1>5
  <2>. QED BY <1>3, <1>5, <2>1, ToFacts, PostingFacts
<1>7. docIterator[1] \in docIterator[1]..Len(invs[1]) /\ docIterator[1] <= docIterator[1]
  BY <1>3
<1>8. To(1, e) <= docIterator[1] => e <= invs[1][docIterator[1]].doc
  <2> HIDE DEF e
  <2>. QED BY <1>2, <1>6, <1>7, ToFacts
<1> HIDE DEF e
<1>9. To(1, e) # docIterator[1]
  BY <1>3, <1>4, <1>6, <1>7, <1>8 DEF DocAt
<1>. QED BY <1>9 DEF e

LEMMA WindowMovesOn ==
    ASSUME OperatorTypeOK, AllMatch, ~AllMeet
    PROVE  \E i \in Arguments : To(i, MaxDocid) # docIterator[i]
<1> SUFFICES ASSUME \A i \in Arguments : To(i, MaxDocid) = docIterator[i]
             PROVE  AllMeet
  OBVIOUS
<1>1. MaxDocid \in Int /\ \A i \in Arguments : DocAt(i) <= MaxDocid
  <2>1. Arguments \in SUBSET Arguments /\ Arguments # {}
    BY ArgumentFacts
  <2>. QED BY <2>1, ExtremesOf DEF AllMatch, MaxDocid
<1>2. ASSUME NEW i \in Arguments PROVE DocAt(i) = MaxDocid
  <2>1. docIterator[i] \in 1..Len(invs[i]) /\ DocAt(i) \in Int
    BY DocAtFacts DEF AllMatch
  <2>2. docIterator[i] \in docIterator[i]..Len(invs[i]) /\ docIterator[i] <= docIterator[i]
    BY <2>1
  <2>3. MaxDocid <= DocAt(i)
    BY <1>1, <2>2, ToFacts DEF DocAt
  <2>. QED BY <1>1, <2>1, <2>3
<1>. QED BY <1>2 DEF AllMeet, DocAt

LEMMA PastMovesOn ==
    ASSUME OperatorTypeOK, NEW i \in Arguments, HasMatchAt(i)
    PROVE  Past(i, DocAt(i)) # docIterator[i]
<1>1. docIterator[i] \in 1..Len(invs[i]) /\ DocAt(i) \in Int
  BY DocAtFacts
<1>2. docIterator[i] \in docIterator[i]..Len(invs[i]) /\ docIterator[i] <= docIterator[i]
  BY <1>1
<1>3. Past(i, DocAt(i)) <= docIterator[i] => DocAt(i) < invs[i][docIterator[i]].doc
  BY <1>1, <1>2, PastFacts
<1>. QED BY <1>1, <1>2, <1>3 DEF DocAt

\* Every step of an evaluation leaves its iterators where they are or moves them
\* forward, ...
LEMMA StepsGoForward ==
    ASSUME OperatorInv, Evaluate
    PROVE  /\ UNCHANGED <<operator, invs>>
           /\ \A i \in Arguments : docIterator'[i] \in docIterator[i]..(Len(invs[i]) + 1)
<1>1. OperatorTypeOK /\ \A i \in Arguments : docIterator[i] \in docIterator[i]..(Len(invs[i]) + 1)
  <2>1. OperatorTypeOK
    BY DEF OperatorInv
  <2>2. \A i \in Arguments : docIterator[i] \in 1..(Len(invs[i]) + 1) /\ Len(invs[i]) \in Nat
    BY <2>1, ArgumentFacts
  <2>. QED BY <2>1, <2>2
<1>2. CASE NearAlign
  <2>1. HasMatchAt(1) /\ UNCHANGED <<operator, invs>>
    BY <1>2 DEF NearAlign, Aligning
  <2>2. PICK i \in Arguments :
            /\ FirstApart(i)
            /\ Proposed(i) <= Len(invs[i])
            /\ docIterator' = [j \in Arguments |->
                  CASE j = 1 -> To(1, invs[i][Proposed(i)].doc)
                    [] j \in 2..i -> Proposed(j)
                    [] j > i -> docIterator[j]]
    BY <1>2 DEF NearAlign
  <2>3. invs[i][Proposed(i)].doc \in Int
    <3>1. docIterator[i] \in 1..(Len(invs[i]) + 1) /\ Len(invs[i]) \in Nat /\ IsInvertedList(invs[i])
      BY <1>1, ArgumentFacts
    <3>2. Proposed(i) \in docIterator[i]..(Len(invs[i]) + 1)
      BY <1>1, <2>1, ProposedFacts
    <3>3. Proposed(i) \in 1..Len(invs[i])
      BY <2>2, <3>1, <3>2
    <3>. QED BY <3>1, <3>3, PostingFacts
  <2>4. ASSUME NEW j \in Arguments PROVE j = 1 \/ j \in 2..i \/ (j > i /\ j # 1 /\ j \notin 2..i)
    <3>1. i \in Nat \ {0} /\ j \in Nat \ {0}
      BY <1>1, ArgumentFacts
    <3>. QED BY <3>1
  <2>5. ASSUME NEW j \in Arguments
        PROVE  docIterator'[j] \in {To(1, invs[i][Proposed(i)].doc), Proposed(j), docIterator[j]}
               /\ (j # 1 => docIterator'[j] \in {Proposed(j), docIterator[j]})
    BY <2>2, <2>4
  <2>6. ASSUME NEW j \in Arguments
        PROVE  docIterator'[j] \in docIterator[j]..(Len(invs[j]) + 1)
    <3>1. Proposed(j) \in docIterator[j]..(Len(invs[j]) + 1)
      BY <1>1, <2>1, ProposedFacts
    <3>2. CASE j = 1
      <4>1. To(1, invs[i][Proposed(i)].doc) \in docIterator[1]..(Len(invs[1]) + 1)
        <5>1. 1 \in Arguments
          BY <3>2
        <5> DEFINE e == invs[i][Proposed(i)].doc
        <5>2. e \in Int
          BY <2>3
        <5> HIDE DEF e
        <5>3. To(1, e) \in docIterator[1]..(Len(invs[1]) + 1)
          BY <1>1, <5>1, <5>2, ToFacts
        <5>. QED BY <5>3 DEF e
      <4>2. docIterator'[j] \in {To(1, invs[i][Proposed(i)].doc), Proposed(j), docIterator[j]}
        BY <2>5
      <4>3. docIterator[j] \in docIterator[j]..(Len(invs[j]) + 1)
        BY <1>1, ArgumentFacts
      <4>. QED BY <3>1, <3>2, <4>1, <4>2, <4>3
    <3>3. CASE j # 1
      BY <1>1, <2>5, <3>1, <3>3
    <3>. QED BY <3>2, <3>3
  <2>. QED BY <2>1, <2>6
<1>3. CASE NearOpen
  BY <1>1, <1>3, ProposedFacts DEF NearOpen, Aligning
<1>4. CASE WindowAlign \/ WindowOpen
  BY <1>1, <1>4, ReachFacts DEF WindowAlign, WindowOpen, Aligning
<1>5. CASE NearFinish \/ WindowFinish \/ SynFinish \/ SearchDocument
  BY <1>1, <1>5
     DEF NearFinish, WindowFinish, SynFinish, SearchDocument, Finish, Aligning, evaluationVars
<1>6. CASE CloseDocument
  <2>1. DocAt(1) \in Int
    <3>1. 1 \in Arguments /\ HasMatchAt(1)
      BY <1>1, <1>6, ArgumentFacts DEF CloseDocument, OperatorInv, SearchInv
    <3>. QED BY <1>1, <3>1, DocAtFacts
  <2>. QED BY <1>1, <1>6, <2>1, PastFacts DEF CloseDocument
<1>7. CASE SynPass
  <2>1. MinDocid \in Int
    BY <1>1, <1>7, MinFacts DEF SynPass, SynMerge
  <2>. QED BY <1>1, <1>7, <2>1, PastFacts DEF SynPass, SynMerge, Aligning
<1>. QED BY <1>2, <1>3, <1>4, <1>5, <1>6, <1>7 DEF Evaluate

\* ... and one that takes a loop round moves one of them.
LEMMA PassesMoveOn ==
    ASSUME OperatorInv, Evaluate, stage' = "align"
    PROVE  \E i \in Arguments : docIterator'[i] # docIterator[i]
<1>1. OperatorTypeOK /\ 1 \in Arguments
  BY ArgumentFacts DEF OperatorInv
<1>2. CASE NearAlign
  <2>1. PICK i \in Arguments :
            /\ FirstApart(i)
            /\ Proposed(i) <= Len(invs[i])
            /\ docIterator' = [j \in Arguments |->
                  CASE j = 1 -> To(1, invs[i][Proposed(i)].doc)
                    [] j \in 2..i -> Proposed(j)
                    [] j > i -> docIterator[j]]
    BY <1>2 DEF NearAlign
  <2>2. docIterator'[1] = To(1, invs[i][Proposed(i)].doc)
    <3>1. 1 \notin 2..i /\ ~(1 > i)
      BY <1>1, ArgumentFacts
    <3>. QED BY <1>1, <2>1, <3>1
  <2>. QED BY <1>1, <1>2, <2>1, <2>2, NearMovesOn DEF NearAlign
<1>3. CASE WindowAlign
  BY <1>1, <1>3, WindowMovesOn DEF WindowAlign
<1>4. CASE CloseDocument
  <2>1. HasMatchAt(1)
    BY <1>1, <1>4 DEF CloseDocument, OperatorInv, SearchInv
  <2>2. docIterator'[1] = Past(1, DocAt(1))
    BY <1>1, <1>4 DEF CloseDocument
  <2>. QED BY <1>1, <2>1, <2>2, PastMovesOn
<1>5. CASE SynPass
  <2>1. PICK i \in Arguments : i \in Here
    BY <1>1, <1>5, MinFacts DEF SynPass, SynMerge
  <2>2. HasMatchAt(i) /\ docIterator'[i] = Past(i, DocAt(i))
    BY <1>5, <2>1 DEF SynPass, SynMerge, Here
  <2>. QED BY <1>1, <2>1, <2>2, PastMovesOn
<1>6. CASE NearOpen \/ NearFinish \/ WindowOpen \/ WindowFinish \/ SynFinish \/ SearchDocument
  BY <1>6 DEF NearOpen, NearFinish, WindowOpen, WindowFinish, SynFinish, SearchDocument,
              OpenDocument, Finish, evaluationVars, OperatorInv
<1>. QED BY <1>2, <1>3, <1>4, <1>5, <1>6 DEF Evaluate

LEMMA SomeRemain == ASSUME OperatorTypeOK PROVE PostingsLeft \in Nat
<1> DEFINE f == [i \in Arguments |-> Len(invs[i]) + 1 - docIterator[i]]
<1>1. \A i \in Arguments : f[i] \in Nat
  BY ArgumentFacts
<1>2. DOMAIN f = Arguments /\ IsFiniteSet(Arguments)
  BY ArgumentFacts
<1>3. PostingsLeft = SumFunction(f)
  BY DEF PostingsLeft
<1> HIDE DEF f
<1>. QED BY <1>1, <1>2, <1>3, SumType DEF SumFunction

(* How many postings the iterators of an operator have before them never grows
   during an evaluation, and every pass of a loop over documents makes it less, a
   search before it included: with no more passes than its arguments have
   postings, the evaluation ends (QryIopNear.py:31-39, QryIopWindow.py:34-108,
   QryIopSyn.py:34-59).                                                      *)
THEOREM OperatorsMoveOn ==
    OperatorSpec => [](PostingsLeft \in Nat) /\ [][PassMovesOn]_operatorVars
<1>1. OperatorInv /\ [OperatorNext]_operatorVars => [PassMovesOn]_operatorVars
  <2> SUFFICES ASSUME OperatorInv, OperatorNext PROVE PassMovesOn
    OBVIOUS
  <2>1. CASE Start(operator', invs')
    BY <2>1 DEF Start, StartOn, PassMovesOn
  <2>2. CASE Evaluate
    <3>1. /\ PostingsLeft' <= PostingsLeft
          /\ \A i \in Arguments : docIterator'[i] # docIterator[i] => PostingsLeft' < PostingsLeft
      BY <2>2, StepsGoForward, FewerRemain DEF OperatorInv
    <3>2. stage' = "align" => \E i \in Arguments : docIterator'[i] # docIterator[i]
      BY <2>2, PassesMoveOn
    <3>. QED BY <3>1, <3>2 DEF PassMovesOn
  <2>. QED BY <2>1, <2>2 DEF OperatorNext
<1>2. OperatorInv => PostingsLeft \in Nat
  BY SomeRemain DEF OperatorInv
<1>. QED BY <1>1, <1>2, OperatorIsSafe, PTL DEF OperatorSpec
=============================================================================
