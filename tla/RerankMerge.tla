----------------------------- MODULE RerankMerge -----------------------------
(* How a reranked head of a ranking and the rest of that ranking become one
   ranking again (rerank/Reranker.py:50-72).  A row holds a document and its
   score, here in tenths.                                                   *)
EXTENDS Integers, Sequences, FiniteSetsExt

NegInf == -1000000000    \* float("-inf")

\* The rest of the ranking follows, lowered by what puts its first document a
\* tenth below the last reranked one.  (Deviation: with the scores it had.)
MergeUnlowered(old, new, depth) ==
    IF Len(old) > Len(new) THEN new \o SubSeq(old, depth + 1, Len(old)) ELSE new

Lowered(old, new, depth, r) ==
    LET last   == new[Len(new)].score
        adjust == Max({0, (old[depth + 1].score + 1) - last})
    IN  [r EXCEPT !.score = IF last = NegInf THEN NegInf ELSE @ - adjust]

Merge(old, new, depth) ==
    IF Len(old) > Len(new)
    THEN new \o [i \in 1..(Len(old) - depth) |-> Lowered(old, new, depth, old[depth + i])]
    ELSE new

\* The rows from one on, and all of them, are in descending order.
DescendsBelow(r, depth) ==
    \A i, j \in (depth + 1)..Len(r) : i < j => r[i].score >= r[j].score

Descends(r) == \A i, j \in DOMAIN r : i < j => r[i].score >= r[j].score
=============================================================================
