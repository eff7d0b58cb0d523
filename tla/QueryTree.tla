------------------------------ MODULE QueryTree ------------------------------
(* The query tree: how its nodes are put together (query/Qry.py).  "list" is the
   inverted list of an operator on positions, once it is evaluated.         *)
EXTENDS InvertedList

Iops == {"term", "near", "window", "syn"}
Sops == {"and", "or", "score", "sum", "wsum"}

\* An operator without arguments, and a term.
Operator(kind, dist) ==
    [kind |-> kind, dist |-> dist, word |-> "", field |-> "",
     args |-> <<>>, weights |-> <<>>, list |-> <<>>]

Term(word, field) == [Operator("term", 0) EXCEPT !.word = word, !.field = field]

None   == Operator("none", 0)      \* the Python None of an optimized-away query
Failed == Operator("failed", 0)    \* an exception, which ends the batch

-----------------------------------------------------------------------------
Implied(arg) == [Operator("score", 0) EXCEPT !.args = <<arg>>]

\* A term takes no argument, SCORE a single one that has positions, other
\* operators on scores any, with SCORE put in between where it is missing, and
\* operators on positions others of the same field.
AppendArg(q, arg) ==
    CASE "failed" \in {q.kind, arg.kind} -> Failed
      [] q.kind = "score" ->
            IF q.args = <<>> /\ arg.kind \in Iops
            THEN [q EXCEPT !.args = <<arg>>] ELSE Failed
      [] q.kind \in Sops \ {"score"} ->
            [q EXCEPT !.args = Append(@, IF arg.kind \in Iops THEN Implied(arg) ELSE arg)]
      [] q.kind \in Iops ->
            IF arg.kind \in Iops /\ q.kind # "term" /\ (q.args = <<>> \/ q.field = arg.field)
            THEN [q EXCEPT !.args = Append(@, arg), !.field = arg.field] ELSE Failed

\* WSUM keeps a weight for each argument, in a list of its own.
AppendWeighted(q, arg, weight) ==
    LET r == AppendArg(q, arg)
    IN  IF r.kind = "wsum" THEN [r EXCEPT !.weights = Append(@, weight)] ELSE r

\* The sum of weights still counts the arguments that were deleted.
WeightSum(q) == SumFunction(q.weights)
=============================================================================
