----------------------------- MODULE QueryParser -----------------------------
(* From a query string to a query tree: the checks of parentheses, the
   recursive descent and the optimizer of query/QryParser.py.

   A string is the sequence of its blank-separated tokens: operators with their
   distance, parentheses, words and numbers.  What the Lucene analyzer makes of
   a word is the constant Stems: nothing for a stopword, several terms for a
   word with a hyphen.  Weights are whole numbers.                          *)
EXTENDS QueryTree

CONSTANT Stems      \* word -> the terms it is tokenized into

NoDistance == -99   \* "#near" without "/n"

Open  == [is |-> "open",  name |-> "(", num |-> 0, field |-> ""]
Close == [is |-> "close", name |-> ")", num |-> 0, field |-> ""]
Op(name, dist)    == [is |-> "op", name |-> name, num |-> dist, field |-> "body"]
Word(word, field) == [is |-> "word", name |-> word, num |-> 0, field |-> field]
Number(num)       == [is |-> "num", name |-> "number", num |-> num, field |-> "body"]

Distances == {"near", "window"}

\* A name with a distance is NEAR or WINDOW, one without is another operator.
CreateOperator(token) ==
    IF /\ token.is = "op"
       /\ token.name \in IF token.num = NoDistance
                         THEN {"or", "and", "syn", "score", "sum", "wsum"} ELSE Distances
    THEN Operator(token.name, IF token.num = NoDistance THEN 0 ELSE token.num)
    ELSE Failed

\* The terms of a token: a lone parenthesis is punctuation; a number or the
\* name of an operator is a word where no operator is expected.
CreateTerms(token) ==
    IF token.is \in {"open", "close"} THEN <<>>
    ELSE [i \in DOMAIN Stems[token.name] |-> Term(Stems[token.name][i], token.field)]

-----------------------------------------------------------------------------
CountOf(s, is) == Cardinality({i \in DOMAIN s : s[i].is = is})
Depth(s, i)    == CountOf(SubSeq(s, 1, i), "open") - CountOf(SubSeq(s, 1, i), "close")

\* Where the left-most parenthesis is closed, 0 when nowhere; a closing one
\* that comes first is an error.
Unbalanced(s) == \E i \in DOMAIN s : Depth(s, i) < 0 /\ \A j \in 1..(i - 1) : Depth(s, j) = 0

BalancingParen(s) ==
    LET ends == {i \in DOMAIN s : s[i].is = "close" /\ Depth(s, i) = 0}
    IN  IF ends = {} THEN 0 ELSE Min(ends)

\* parseString's first checks: the query is one operator with its arguments.
WellBracketed(s) ==
    /\ CountOf(s, "open") # 0
    /\ CountOf(s, "open") = CountOf(s, "close")
    /\ ~Unbalanced(s)
    /\ BalancingParen(s) = Len(s)

RECURSIVE ParseString(_), ParseArgs(_, _)

ParseString(s) ==
    IF WellBracketed(s) /\ Len(s) >= 3 /\ s[2].is = "open"
    THEN ParseArgs(CreateOperator(s[1]), SubSeq(s, 3, Len(s) - 1))
    ELSE Failed

AppendAll(q, qargs, weight) ==
    FoldLeft(LAMBDA r, arg : AppendWeighted(r, arg, weight), q, qargs)

\* One pass for each argument: its weight under WSUM, then a subquery, popped
\* up to its balancing parenthesis or to the end, or a word.
ParseArgs(q, s) ==
    LET weighted == q.kind = "wsum"
        rest     == IF weighted THEN Tail(s) ELSE s
        end      == IF BalancingParen(rest) = 0 THEN Len(rest) ELSE BalancingParen(rest)
        subquery == rest[1].is = "op"
        qargs    == IF subquery THEN <<ParseString(SubSeq(rest, 1, end))>>
                    ELSE CreateTerms(rest[1])
    IN  IF q.kind = "failed" \/ s = <<>> THEN q
        ELSE IF weighted /\ (s[1].is # "num" \/ rest = <<>>) THEN Failed
        ELSE IF subquery /\ Unbalanced(rest) THEN Failed
        ELSE ParseArgs(AppendAll(q, qargs, IF weighted THEN s[1].num ELSE 0),
                       SubSeq(rest, IF subquery THEN end + 1 ELSE 2, Len(rest)))

-----------------------------------------------------------------------------
\* The same operators over the same terms; neither the distance of NEAR and
\* WINDOW nor the weights of WSUM are looked at.
RECURSIVE DuplicateQry(_, _)
DuplicateQry(q, r) ==
    /\ q.kind = r.kind
    /\ q.kind = "term" => q.word = r.word /\ q.field = r.field
    /\ Len(q.args) = Len(r.args)
    /\ \A i \in DOMAIN q.args : DuplicateQry(q.args[i], r.args[i])

\* A SUM with duplicate arguments becomes a WSUM of their first occurrences,
\* weighted by how many there are.  (Deviation: each weighs 1.)
RECURSIVE SumToWsumUncounted(_), SumToWsum(_)
SumToWsumUncounted(whole) ==
    LET q      == [whole EXCEPT !.args = [i \in DOMAIN @ |-> SumToWsumUncounted(@[i])]]
        alike(i) == {j \in DOMAIN q.args : DuplicateQry(q.args[i], q.args[j])}
        firsts == SortedSet({i \in DOMAIN q.args : i = Min(alike(i))})
    IN  IF q.kind = "sum" /\ Len(firsts) < Len(q.args)
        THEN FoldLeft(LAMBDA r, i : AppendWeighted(r, q.args[i], 1), Operator("wsum", 0), firsts)
        ELSE q

SumToWsum(whole) ==
    LET q      == [whole EXCEPT !.args = [i \in DOMAIN @ |-> SumToWsum(@[i])]]
        alike(i) == {j \in DOMAIN q.args : DuplicateQry(q.args[i], q.args[j])}
        firsts == SortedSet({i \in DOMAIN q.args : i = Min(alike(i))})
    IN  IF q.kind = "sum" /\ Len(firsts) < Len(q.args)
        THEN FoldLeft(LAMBDA r, i : AppendWeighted(r, q.args[i], Cardinality(alike(i))),
                      Operator("wsum", 0), firsts)
        ELSE q

\* Arguments first.  One that vanishes is deleted from the list of arguments,
\* and from it alone.
RECURSIVE OptimizeQuery(_)
OptimizeQuery(whole) ==
    LET after == [i \in DOMAIN whole.args |-> OptimizeQuery(whole.args[i])]
        kept  == SelectSeq(after, LAMBDA a : a.kind # "none")
        q     == SumToWsum([whole EXCEPT !.args = kept])
    IN  CASE whole.kind \in {"term", "failed"} -> whole
          [] whole.kind \notin {"term", "failed"} /\ kept = <<>> -> None
          [] OTHER -> IF Len(q.args) = 1 /\ q.kind # "score" THEN q.args[1] ELSE q

GetQuery(s) == OptimizeQuery(ParseString(s))

\* What bowQuery can strip of its structure, raising for anything else: plain text, or
\* the arguments of one SUM or WSUM that starts the query and is its only operator.
IsBow(s) ==
    LET one(is) == CountOf(s, is) = 1
    IN  \/ {"op", "open", "close"} \cap {s[i].is : i \in DOMAIN s} = {}
        \/ /\ one("op") /\ one("open") /\ one("close")
           /\ s[1].is = "op" /\ s[1].name \in {"sum", "wsum"} /\ s[1].num = NoDistance
           /\ s[2].is = "open"
=============================================================================
