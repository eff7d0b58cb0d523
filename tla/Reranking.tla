------------------------------ MODULE Reranking ------------------------------
(* The rerankers of a configuration (rerank/Reranker.py with RerankWithBERT and
   RerankWithLtr): the head of a ranking is scored anew and sorted, the rest
   follows.  Every other task leaves the ranking alone or replaces it.       *)
EXTENDS RerankMerge, Sorting, Functions, SequencesExt

CONSTANTS
    ExternalId,     \* document -> its external id, a number that orders alike;
                    \* the documents of Foreign have one too
    Foreign,        \* external ids of no document of the index
    BodyLength,     \* document -> the words of its body, for BERT's passages
    TitleLength,    \* document -> the words of its title, cut
    PsgLen, PsgStride, PsgCnt,
    NeuralScores    \* what BERT or a learned model may answer, in tenths

ASSUME RerankAssumption ==
    /\ \A d \in DOMAIN ExternalId : ExternalId[d] \in Int
    /\ \A d \in DOMAIN ExternalId \ Foreign : BodyLength[d] \in Nat /\ TitleLength[d] \in Nat
    /\ PsgLen \in Nat \ {0} /\ PsgStride \in Nat \ {0} /\ PsgCnt \in Nat \ {0}
    /\ NeuralScores \subseteq Int

VARIABLES
    conf,       \* the retrieval model and the rerank depths, as Reranker and as
                \* RerankWithLtr read them: fixed for the run
    tasks,      \* the tasks that have not run
    ranking     \* batch[qid]['ranking']

rerankVars == <<conf, tasks, ranking>>

Rows == [doc : DOMAIN ExternalId, score : Int]

Documents(r) == [k \in DOMAIN r |-> r[k].doc]

Top(s, k) == SubSeq(s, 1, Min({k, Len(s)}))

Before(a, b) ==
    a.score > b.score \/ (a.score = b.score /\ ExternalId[a.doc] < ExternalId[b.doc])

\* The sort is stable.
SortOrder(r) ==
    {p \in (DOMAIN r) \X (DOMAIN r) :
        \/ Before(r[p[1]], r[p[2]])
        \/ ~Before(r[p[2]], r[p[1]]) /\ p[1] < p[2]}

Sorted(r) == [k \in DOMAIN r |-> r[Arrange(Len(r), SortOrder(r))[k]]]

-----------------------------------------------------------------------------
\* BERT's passages: windows of the body, each a stride behind the one before,
\* until one reaches its end, or the title when there is no body.
BodyWindows(len) ==
    LET begin(k) == (k - 1) * PsgStride
        used     == {k \in 1..PsgCnt : /\ begin(k) < len
                                       /\ k > 1 => begin(k - 1) + PsgLen < len}
    IN  [k \in 1..Cardinality(used) |-> <<begin(k), Min({begin(k) + PsgLen, len})>>]

\* A document that is in no index has none.
Passages(d) ==
    LET windows == IF d \in Foreign THEN <<>> ELSE BodyWindows(BodyLength[d])
    IN  IF d \notin Foreign /\ windows = <<>> /\ TitleLength[d] > 0
        THEN << <<0, 0>> >> ELSE windows

Aggregations == {"firstp", "avgp", "maxp"}
Rerankers    == Aggregations \cup {"ltr"}

Aggregate(scores, method) ==
    CASE scores = <<>>     -> NegInf
      [] scores # <<>> /\ method = "firstp" -> scores[1]
      [] scores # <<>> /\ method = "avgp"   -> SumFunction(scores) \div Len(scores)
      [] scores # <<>> /\ method = "maxp"   -> Max(ToSet(scores))

DocumentScore(d, neural, method) ==
    Aggregate([p \in DOMAIN Passages(d) |-> neural[d][p]], method)

RerankWithBERT(top, neural, method) ==
    Sorted([i \in DOMAIN top |-> [top[i] EXCEPT !.score = DocumentScore(top[i].doc, neural, method)]])

\* The learned model scores what it can look up; that comes first, by score and
\* by original rank when equal, and the others keep their order and scores.
LtrRow(r, neural) ==
    IF r.doc \in Foreign THEN r ELSE [r EXCEPT !.score = neural[r.doc][1]]

LtrOrder(top, neural, bound) ==
    {p \in (1..bound) \X (1..bound) :
        LET a == LtrRow(top[p[1]], neural)
            b == LtrRow(top[p[2]], neural)
        IN  \/ a.doc \notin Foreign /\ b.doc \in Foreign
            \/ a.doc \notin Foreign /\ b.doc \notin Foreign /\ a.score > b.score
            \/ a.doc \notin Foreign /\ b.doc \notin Foreign /\ a.score = b.score /\ p[1] < p[2]
            \/ a.doc \in Foreign /\ b.doc \in Foreign /\ p[1] < p[2]}

\* Below the depth that this reranker itself reads nothing changes.
RerankWithLtr(top, neural, depth) ==
    LET bound == Min({depth, Len(top)})
    IN  [k \in DOMAIN top |->
            IF k > bound THEN top[k]
            ELSE LtrRow(top[Arrange(bound, LtrOrder(top, neural, bound))[k]], neural)]

-----------------------------------------------------------------------------
Depth1 == conf.depth[1]     \* rerankDepth, as Reranker reads it

RerankedHead(neural) ==
    IF Head(tasks) = "ltr" THEN RerankWithLtr(Top(ranking, Depth1), neural, conf.depth[2])
                           ELSE RerankWithBERT(Top(ranking, Depth1), neural, Head(tasks))

RerankTask == tasks # <<>> /\ Head(tasks) \in Rerankers

\* A rerank depth of 0 leaves no new_ranking[-1].
NoneReranked == Top(ranking, Depth1) = <<>> /\ ranking # <<>>

\* The index either finds no such document or raises, which BERT does not catch.
LookupMayFail ==
    Head(tasks) # "ltr" /\ ToSet(Documents(Top(ranking, Depth1))) \cap Foreign # {}

\* LTR raises when its toolkit answers another number of scores than it was asked for.
ScoresMayMismatch == Head(tasks) = "ltr"

Rerank ==
    /\ RerankTask
    /\ ~NoneReranked
    /\ \E neural \in [ToSet(Documents(ranking)) -> [1..PsgCnt -> NeuralScores]] :
          ranking' = Merge(ranking, RerankedHead(neural), Depth1)
    /\ tasks' = Tail(tasks)
    /\ UNCHANGED conf

\* What a ranker leaves descends; a file of rankings is read as it is.
OtherTask ==
    /\ tasks # <<>> /\ Head(tasks) \notin Rerankers
    /\ \/ UNCHANGED ranking
       \/ /\ ranking' \in Seq(Rows)
          /\ Head(tasks) # "inRankFile" => Descends(ranking')
    /\ tasks' = Tail(tasks)
    /\ UNCHANGED conf

RerankInit == ranking = <<>> /\ conf.depth \in Nat \X Nat

RerankSpec == RerankInit /\ [][Rerank \/ OtherTask]_rerankVars

-----------------------------------------------------------------------------
\* Every document of the reranked part is scored, at the depth that was cut.
FullyScored ==
    \/ Head(tasks) # "ltr"
    \/ Depth1 = conf.depth[2] /\ Foreign \cap ToSet(Documents(Top(ranking, Depth1))) = {}

(* A reranker that ends loses and invents no document and reorders only those
   above the rerank depth.  When those below it descend, they still do; when,
   besides, every document above it was scored, the whole ranking descends: the
   unchanged scores are lowered "so that reranked scores are higher"
   (Reranker.py:59-64), whose indexing (Reranker.py:61) relies on every
   reranker returning all it got.  LTR leaves a document it cannot look up, or
   below its own depth, with its old score behind the scored ones, so nothing is
   said of the order there. *)
RerankingStep ==
    LET cut == Min({Depth1, Len(ranking)})
    IN  (RerankTask /\ tasks' # tasks) =>
            /\ Len(ranking') = Len(ranking)
            /\ ToSet(SubSeq(Documents(ranking'), 1, cut)) = ToSet(SubSeq(Documents(ranking), 1, cut))
            /\ \A k \in (cut + 1)..Len(ranking) : ranking'[k].doc = ranking[k].doc
            /\ DescendsBelow(ranking, Depth1) =>
                  DescendsBelow(ranking', Depth1) /\ (FullyScored => Descends(ranking'))

RerankingKeepsTheRanking == [][RerankingStep]_rerankVars
=============================================================================
