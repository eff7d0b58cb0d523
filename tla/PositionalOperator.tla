-------------------------- MODULE PositionalOperator --------------------------
(* The evaluation of one operator on positions: the evaluate methods of
   query/QryIopNear.py, query/QryIopWindow.py and query/QryIopSyn.py, with
   Qry.docIteratorHasMatchAll.

   The arguments are evaluated; each has an inverted list and an iterator into
   it.  NEAR and WINDOW look for the next document that all arguments share,
   each in its own way, and search it with PositionalMatch; SYN merges the
   postings of the smallest document.  What has to be right is the list that
   results: no document is skipped, none is added, and its postings are those of
   an inverted list again, for the operator above may take it for an argument.

   Operators follow one another: Start begins the next.  When one ends its
   iterators are not looked at again, so the passes that end it leave them. *)
EXTENDS PositionalMatch, InvertedList

VARIABLES
    operator,       \* its kind and its distance
    invs,           \* the inverted lists of its arguments
    docIterator,    \* docIteratorIndex of each argument
    invertedList,   \* the list it makes
    stage           \* "align", "search" (a document) or "done"

evaluationVars == <<operator, invs, docIterator, invertedList, stage>>
operatorVars == <<matcherVars, evaluationVars>>

Arguments == 1..Len(invs)

\* What initialize() leaves for evaluate(): arguments, at least one because the
\* optimizer removes operators without, that are evaluated themselves.
AreArguments(o, ls) ==
    /\ o.kind \in {"near", "window", "syn"}
    /\ o.dist \in Int
    /\ ls # <<>>
    /\ ls \in Seq(Seq([doc : Int, pos : Seq(Int)]))
    /\ \A i \in DOMAIN ls : IsInvertedList(ls[i])

StartOn(o, ls) ==
    /\ stage = "done"
    /\ operator' = o
    /\ invs' = ls
    /\ docIterator' = [i \in 1..Len(ls) |-> 1]
    /\ invertedList' = <<>>
    /\ stage' = "align"
    /\ UNCHANGED matcherVars

Start(o, ls) == AreArguments(o, ls) /\ StartOn(o, ls)

Aligning(kind) ==
    /\ stage = "align"
    /\ operator.kind = kind
    /\ UNCHANGED <<operator, invs>>

-----------------------------------------------------------------------------
\* docIteratorHasMatch, docIteratorGetMatch, and where docIteratorAdvanceTo and
\* docIteratorAdvancePast move the iterator of argument i.
HasMatchAt(i) == docIterator[i] <= Len(invs[i])
DocAt(i) == invs[i][docIterator[i]].doc
To(i, d) == FirstFrom(invs[i], docIterator[i], d)
Past(i, d) == FirstFrom(invs[i], docIterator[i], d + 1)

MoveOn ==
    /\ stage' = "align"
    /\ UNCHANGED <<matcherVars, invertedList>>

\* All arguments stand on one document: withinDoc gets the positions of each.
OpenDocument ==
    /\ stage' = "search"
    /\ Load(operator.kind, operator.dist,
            [i \in Arguments |-> invs[i][docIterator'[i]].pos])
    /\ UNCHANGED invertedList

Finish ==
    /\ stage' = "done"
    /\ UNCHANGED <<matcherVars, docIterator, invertedList>>

\* NEAR: the first argument proposes its document and the others advance to it,
\* one after the other, until one has run out or is ahead.
Proposed(i) == IF i = 1 THEN docIterator[1] ELSE To(i, DocAt(1))

Agrees(i) == Proposed(i) <= Len(invs[i]) /\ invs[i][Proposed(i)].doc = DocAt(1)

FirstApart(i) == ~Agrees(i) /\ \A j \in 1..(i - 1) : Agrees(j)

\* The one that is ahead sends the first argument to its document.
NearAlign ==
    /\ Aligning("near")
    /\ HasMatchAt(1)
    /\ \E i \in Arguments :
          /\ FirstApart(i)
          /\ Proposed(i) <= Len(invs[i])
          /\ docIterator' = [j \in Arguments |->
                CASE j = 1 -> To(1, invs[i][Proposed(i)].doc)
                  [] j \in 2..i -> Proposed(j)
                  [] j > i -> docIterator[j]]
    /\ MoveOn

NearOpen ==
    /\ Aligning("near")
    /\ HasMatchAt(1)
    /\ \A i \in Arguments : Agrees(i)
    /\ docIterator' = [i \in Arguments |-> Proposed(i)]
    /\ OpenDocument

NearFinish ==
    /\ Aligning("near")
    /\ \/ ~HasMatchAt(1)
       \/ HasMatchAt(1) /\ \E i \in Arguments : FirstApart(i) /\ Proposed(i) > Len(invs[i])
    /\ Finish

\* WINDOW: every argument advances to the largest document any stands on, and
\* searches it if all are there.  (Deviation: if the last one is.)
AllMatch == \A i \in Arguments : HasMatchAt(i)

MaxDocid == Max({DocAt(i) : i \in Arguments})

AllReach == \A i \in Arguments : To(i, MaxDocid) <= Len(invs[i])

AllMeetLast ==
    LET i == Len(invs)
    IN  invs[i][To(i, MaxDocid)].doc = MaxDocid

AllMeet == \A i \in Arguments : invs[i][To(i, MaxDocid)].doc = MaxDocid

WindowAlign ==
    /\ Aligning("window")
    /\ AllMatch /\ AllReach /\ ~AllMeet
    /\ docIterator' = [i \in Arguments |-> To(i, MaxDocid)]
    /\ MoveOn

WindowOpen ==
    /\ Aligning("window")
    /\ AllMatch /\ AllReach /\ AllMeet
    /\ docIterator' = [i \in Arguments |-> To(i, MaxDocid)]
    /\ OpenDocument

WindowFinish ==
    /\ Aligning("window")
    /\ ~(AllMatch /\ AllReach)
    /\ Finish

-----------------------------------------------------------------------------
SearchDocument ==
    /\ stage = "search"
    /\ Step
    /\ UNCHANGED evaluationVars

\* The matches, sorted by WINDOW, become a posting if there are any; NEAR moves
\* its first argument past the document, WINDOW all.
CloseDocument ==
    LET d == DocAt(1)
    IN  /\ stage = "search"
        /\ ~searching
        /\ invertedList' =
              IF Reported = <<>> THEN invertedList
              ELSE AppendPosting(invertedList, d,
                      IF operator.kind = "window" THEN SortedNumbers(Reported) ELSE Reported)
        /\ docIterator' = [i \in Arguments |->
              IF i = 1 \/ operator.kind = "window" THEN Past(i, d) ELSE docIterator[i]]
        /\ stage' = "align"
        /\ UNCHANGED <<operator, invs, matcherVars>>

\* SYN: the arguments at the smallest document give it their positions and move
\* past it.  (Deviation: the positions are put one behind the other.)
Depleted == \A i \in Arguments : ~HasMatchAt(i)

MinDocid == Min({DocAt(i) : i \in {j \in Arguments : HasMatchAt(j)}})

Here == {i \in Arguments : HasMatchAt(i) /\ DocAt(i) = MinDocid}

Locations == UNION {ToSet(invs[i][docIterator[i]].pos) : i \in Here}

SynMerge(positions) ==
    /\ Aligning("syn")
    /\ ~Depleted
    /\ invertedList' = AppendPosting(invertedList, MinDocid, positions)
    /\ docIterator' = [i \in Arguments |->
          IF i \in Here THEN Past(i, MinDocid) ELSE docIterator[i]]
    /\ stage' = "align"
    /\ UNCHANGED matcherVars

SynPassUnsorted ==
    SynMerge(FlattenSeq([k \in 1..Cardinality(Here) |->
                LET i == SortedSet(Here)[k] IN invs[i][docIterator[i]].pos]))

SynPass == SynMerge(SortedSet(Locations))

SynFinish ==
    /\ Aligning("syn")
    /\ Depleted
    /\ Finish

-----------------------------------------------------------------------------
Evaluate ==
    \/ NearAlign
    \/ NearOpen
    \/ NearFinish
    \/ WindowAlign
    \/ WindowOpen
    \/ WindowFinish
    \/ SearchDocument
    \/ CloseDocument
    \/ SynPass
    \/ SynFinish

OperatorInit ==
    /\ MatcherInit
    /\ operator = [kind |-> "near", dist |-> 1]
    /\ invs = << <<>> >>
    /\ docIterator = <<1>>
    /\ invertedList = <<>>
    /\ stage = "done"

OperatorNext == Start(operator', invs') \/ Evaluate

OperatorSpec == OperatorInit /\ [][OperatorNext]_operatorVars

-----------------------------------------------------------------------------
OperatorTypeOK ==
    /\ MatcherTypeOK
    /\ AreArguments(operator, invs)
    /\ docIterator \in [Arguments -> Nat \ {0}]
    /\ \A i \in Arguments : docIterator[i] <= Len(invs[i]) + 1
    /\ invertedList \in Seq([doc : Int, pos : Seq(Int)])
    /\ stage \in {"align", "search", "done"}

\* The positions of each argument in document d, one that all of them hold.
PositionsLists(args, d) ==
    [i \in DOMAIN args |-> (CHOOSE p \in ToSet(args[i]) : p.doc = d).pos]

Within(o, dist, ls) == INSTANCE PositionalMatch WITH op <- o, n <- dist, lists <- ls

\* pos is what NEAR or WINDOW is to find where the arguments have positions ls:
\* disjoint matches, and as many as there are.
AreItsMatches(o, ls, pos) ==
    LET m == Len(pos)
    IN  /\ \E f \in [1..m -> Within(o.kind, o.dist, ls)!Matches] :
              /\ Within(o.kind, o.dist, ls)!Disjoint(f, m)
              /\ \A k \in 1..m : pos[k] = Within(o.kind, o.dist, ls)!EndOf(f[k])
        /\ ~\E f \in [1..(m + 1) -> Within(o.kind, o.dist, ls)!Matches] :
              Within(o.kind, o.dist, ls)!Disjoint(f, m + 1)

\* What the list of an operator has to hold, by its definition: for SYN every
\* position of an argument, for NEAR and WINDOW the documents of all arguments
\* that hold a match.
HoldsExactly(o, args, list) ==
    /\ IsInvertedList(list)
    /\ o.kind = "syn" =>
          \A d \in DocumentsIn(list) \cup UNION {DocumentsIn(args[i]) : i \in DOMAIN args} :
              PositionsIn(list, d) = UNION {PositionsIn(args[i], d) : i \in DOMAIN args}
    /\ o.kind \in {"near", "window"} =>
          /\ \A k \in DOMAIN list :
                /\ \A i \in DOMAIN args : list[k].doc \in DocumentsIn(args[i])
                /\ AreItsMatches(o, PositionsLists(args, list[k].doc), list[k].pos)
          /\ \A d \in DocumentsIn(args[1]) \ DocumentsIn(list) :
                (\A i \in DOMAIN args : d \in DocumentsIn(args[i])) =>
                    Within(o.kind, o.dist, PositionsLists(args, d))!Matches = {}

(* An evaluated operator holds exactly the documents and the positions its
   definition asks for, in order: the document loops of QryIopNear.py:27-39,
   QryIopWindow.py:34-107 and QryIopSyn.py:36-59 skip none, and appendPosting's
   check, which the first two postings escape (core/InvList.py:159), is never
   needed. *)
ListIsExact == stage = "done" => HoldsExactly(operator, invs, invertedList)

\* How many postings the iterators still have before them.
PostingsLeft == SumFunction([i \in Arguments |-> Len(invs[i]) + 1 - docIterator[i]])

(* Every pass of a loop over documents leaves fewer postings before the
   iterators than it found, a search before it included, so that each ends
   (QryIopNear.py:31-39, QryIopWindow.py:44-107, QryIopSyn.py:36-59). *)
PassMovesOn ==
    /\ stage # "done" /\ stage' # "done" => PostingsLeft' <= PostingsLeft
    /\ stage = "align" /\ stage' = "align" => PostingsLeft' < PostingsLeft
    /\ stage = "search" /\ stage' = "align" => PostingsLeft' < PostingsLeft
=============================================================================
