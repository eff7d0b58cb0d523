--------------------------- MODULE PositionalMatch ---------------------------
(* The search for the matches of a #NEAR/n or #WINDOW/n operator inside one
   document (query/QryIopNear.py:41-101, query/QryIopWindow.py:53-97).

   Every argument of the operator has one list of positions in the document,
   ascending and without repetition, and one cursor into it.  NEAR looks for
   positions that follow each other in the order of the arguments, each at
   most n after the one before; WINDOW for positions in any order that span
   less than n.  Both are greedy: on a match every cursor moves on, otherwise
   exactly one does, and no cursor ever moves back.  What has to be right is
   that the greedy search loses no match: it reports as many disjoint matches
   as the document holds.

   A match is kept as the vector of its cursors; the code keeps only the
   position it reports, the one "Reported" derives.  Searches follow one
   another: Begin opens the next document or operator.                      *)
EXTENDS Sorting, Functions

VARIABLES
    op,         \* "near" or "window"
    n,          \* the operator's distance, any integer the query may name
    lists,      \* positions_lists: the positions of each argument
    cursor,     \* indices: one cursor for each argument
    taken,      \* the matches found, as vectors of cursors
    searching   \* the loop over the document runs

matcherVars == <<op, n, lists, cursor, taken, searching>>

Args == 1..Len(lists)

Positions(i) == 1..Len(lists[i])

\* The position that vector v of cursors gives argument i.
At(v, i) == lists[i][v[i]]

\* What an operator may be asked to search: withinDoc runs after every
\* argument has matched the document.
IsInput(o, d, ls) ==
    /\ o \in {"near", "window"}
    /\ d \in Int
    /\ ls \in Seq(Seq(Int))
    /\ ls # <<>>
    /\ \A i \in DOMAIN ls : Ascending(ls[i])

-----------------------------------------------------------------------------
\* withinDoc starts on whatever lists it is given ...
Load(o, d, ls) ==
    /\ ~searching
    /\ op' = o
    /\ n' = d
    /\ lists' = ls
    /\ cursor' = [i \in 1..Len(ls) |-> 1]
    /\ taken' = <<>>
    /\ searching' = TRUE

\* ... and is asked to search such lists.
Begin(o, d, ls) == IsInput(o, d, ls) /\ Load(o, d, ls)

\* Some argument has run out of positions.
OutOfDoc == \E i \in Args : cursor[i] > Len(lists[i])

Searching ==
    /\ searching
    /\ ~OutOfDoc
    /\ UNCHANGED <<op, n, lists, searching>>

\* The position of argument i follows that of the argument before it, within n.
Follows(v, i) == At(v, i - 1) < At(v, i) /\ At(v, i) - At(v, i - 1) <= n

NearMatch(v) == \A i \in Args \ {1} : Follows(v, i)

\* The first argument, from the second on, that does not follow the one before.
FirstBreak(i) ==
    /\ i \in Args \ {1}
    /\ ~Follows(cursor, i)
    /\ \A j \in Args \ {1} : j < i => Follows(cursor, j)

Advance(i) ==
    /\ cursor' = [cursor EXCEPT ![i] = @ + 1]
    /\ UNCHANGED taken

\* All cursors move on.  (Deviation: only the first.)
TakeMovesFirst ==
    /\ taken' = Append(taken, cursor)
    /\ cursor' = [cursor EXCEPT ![1] = @ + 1]

Take ==
    /\ taken' = Append(taken, cursor)
    /\ cursor' = [i \in Args |-> cursor[i] + 1]

NearTake ==
    /\ op = "near"
    /\ Searching
    /\ NearMatch(cursor)
    /\ Take

\* The term does not come after the previous one: it is the term that moves.
NearSkipTerm ==
    /\ op = "near"
    /\ Searching
    /\ \E i \in Args : /\ FirstBreak(i)
                       /\ At(cursor, i) <= At(cursor, i - 1)
                       /\ Advance(i)

\* The term comes too far after the previous one: it is the previous that moves.
\* (Deviation: it is the term.)
NearSkipFarTerm ==
    /\ op = "near"
    /\ Searching
    /\ \E i \in Args : /\ FirstBreak(i)
                       /\ At(cursor, i) > At(cursor, i - 1)
                       /\ Advance(i)

NearSkipPrevious ==
    /\ op = "near"
    /\ Searching
    /\ \E i \in Args : /\ FirstBreak(i)
                       /\ At(cursor, i) > At(cursor, i - 1)
                       /\ Advance(i - 1)

WindowMatch(v) == \A i, j \in Args : At(v, i) - At(v, j) < n

\* The first of the arguments at the smallest position.
FirstSmallest(i) ==
    \A j \in Args : /\ At(cursor, i) <= At(cursor, j)
                    /\ j < i => At(cursor, i) < At(cursor, j)

WindowTake ==
    /\ op = "window"
    /\ Searching
    /\ WindowMatch(cursor)
    /\ Take

WindowSkip ==
    /\ op = "window"
    /\ Searching
    /\ ~WindowMatch(cursor)
    /\ \E i \in Args : FirstSmallest(i) /\ Advance(i)

End ==
    /\ searching
    /\ OutOfDoc
    /\ searching' = FALSE
    /\ UNCHANGED <<op, n, lists, cursor, taken>>

Step ==
    \/ NearTake
    \/ NearSkipTerm
    \/ NearSkipPrevious
    \/ WindowTake
    \/ WindowSkip
    \/ End

MatcherInit ==
    /\ op = "near"
    /\ n = 1
    /\ lists = << <<>> >>
    /\ cursor = <<1>>
    /\ taken = <<>>
    /\ searching = FALSE

MatcherNext == Begin(op', n', lists') \/ Step

MatcherSpec == MatcherInit /\ [][MatcherNext]_matcherVars

-----------------------------------------------------------------------------
\* The positions handed to appendPosting: where a NEAR match ends, or the
\* largest position of a WINDOW match.
EndOf(v) ==
    IF op = "near"
    THEN At(v, Len(lists))
    ELSE CHOOSE p \in {At(v, i) : i \in Args} : \A i \in Args : At(v, i) <= p

Reported == [k \in 1..Len(taken) |-> EndOf(taken[k])]

-----------------------------------------------------------------------------
MatcherTypeOK ==
    /\ IsInput(op, n, lists)
    /\ cursor \in [Args -> Nat \ {0}]
    /\ \A i \in Args : cursor[i] <= Len(lists[i]) + 1
    /\ taken \in Seq([Args -> Nat \ {0}])
    /\ searching \in BOOLEAN

\* The vectors of cursors that satisfy the operator's own definition.
Vectors == {v \in [Args -> UNION {Positions(i) : i \in Args}] :
              \A i \in Args : v[i] \in Positions(i)}

Matches == {v \in Vectors : IF op = "near" THEN NearMatch(v) ELSE WindowMatch(v)}

\* Matches that use no position twice, each wholly after the one before.
Disjoint(f, m) == \A k \in 1..(m - 1) : \A i \in Args : f[k][i] < f[k + 1][i]

(* Soundness: every reported match satisfies the operator's definition, no
   position serves two of them (the "Advance all iterators" loop after a match,
   QryIopNear.py:60-64, QryIopWindow.py:83-85), and the reported positions
   ascend, as an operator that takes them for an argument needs. *)
TakenAreDisjointMatches ==
    /\ \A k \in DOMAIN taken : taken[k] \in Matches
    /\ Disjoint(taken, Len(taken))
    /\ Ascending(Reported)

(* Completeness: when a cursor has run out, the document does not hold one more
   disjoint match than were reported, however they are chosen: skipping one
   position at a time (QryIopNear.py:92-98, QryIopWindow.py:86-97) loses none. *)
NoMatchIsLost ==
    OutOfDoc => ~\E f \in [1..(Len(taken) + 1) -> Matches] : Disjoint(f, Len(taken) + 1)

\* How many positions the search still has before it.
Left == SumFunction([i \in Args |-> Len(lists[i]) + 1 - cursor[i]])

(* No pass of the search leaves as many positions before it as it found, so
   that it ends (QryIopNear.py:53-66, QryIopWindow.py:55-97). *)
SearchMovesOn == (searching /\ searching' /\ cursor' # cursor) => Left' < Left
=============================================================================
