---------------------------- MODULE InvertedList ----------------------------
(* Inverted lists (core/InvList.py) and the iterators into them (query/QryIop.py):
   an iterator is the index of the posting it stands on, one past the last when
   it has run out.                                                           *)
EXTENDS Sorting, SequencesExt

\* sorted(set(...))
SortedSet(S) == SortedNumbers(SetToSeq(S))

DocPosting(doc, pos) == [doc |-> doc, pos |-> pos]

Tf(posting) == Len(posting.pos)

\* What a list is meant to be: documents ascend, and so do the positions in each.
IsInvertedList(list) ==
    /\ list \in Seq([doc : Int, pos : Seq(Int)])
    /\ \A a, b \in DOMAIN list : a < b => list[a].doc < list[b].doc
    /\ \A k \in DOMAIN list : list[k].pos # <<>> /\ Ascending(list[k].pos)

\* A posting is refused when its document does not come after the last one;
\* the code compares only from the third posting on.
AppendPosting(list, doc, pos) ==
    IF Len(list) > 1 /\ list[Len(list)].doc >= doc
    THEN list
    ELSE Append(list, DocPosting(doc, pos))

\* The first index from k on whose document is not below d.
FirstFrom(list, k, d) ==
    Min({j \in k..(Len(list) + 1) : j = Len(list) + 1 \/ list[j].doc >= d})

DocumentsIn(list) == {list[k].doc : k \in DOMAIN list}

PositionsIn(list, d) ==
    UNION {ToSet(list[k].pos) : k \in {j \in DOMAIN list : list[j].doc = d}}
=============================================================================
