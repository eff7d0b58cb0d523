--------------------------- MODULE RankingPipeline ---------------------------
(* One query through the tasks of a configuration (pipeline.py): a ranker that
   evaluates the query document at a time (retrieval/Ranker.py), a rewriter
   that expands it from its ranking (rewrite/RewriteWithPrf.py) and rerankers,
   which are those of Reranking.

   Initialization evaluates the operators on positions bottom up, one inverted
   list after the other, each by the passes of PositionalOperator.  Then the
   operators on scores, numbered, are asked for one matching document after the
   other by the loop of DocumentAtATime.  Any exception ends the batch.      *)
EXTENDS PositionalOperator, QueryParser, DocumentAtATime, Reranking

CONSTANTS
    Jobs,           \* a query, as tokens, with a configuration: the model, the
                    \* sequence of tasks, the run file there is, the
                    \* two rerank depths and the size of the index,
                    \* documents without any of its terms included
    Index,          \* <<term, field>> -> its postings, in document order
    MaxResults,     \* outputLength
    FeedbackDocs, FeedbackTerms,
    MaxDocFreq,     \* prf:maxDocFreqRatio, in percent
    TermRank        \* term -> a number that orders the terms of feedback alike

VARIABLES
    query,      \* batch[qid]['qstring']
    phase,      \* "task", "initialize", "evaluate", "match" or "failed"
    tree,       \* the optimized query tree
    pending,    \* the operators on positions still to be evaluated, as paths
    runFile     \* the lines of the query in a file of rankings

pipelineVars == <<conf, query, tasks, phase, tree, pending, ranking, runFile>>
vars == <<operatorVars, rankerVars, pipelineVars>>

Docs == DOMAIN ExternalId \ Foreign

Nonexistent == 0    \* 'Nonexistent_Docid', which a run file names in an empty ranking

ASSUME PipelineAssumption == Nonexistent \in Foreign /\ Foreign \subseteq DOMAIN ExternalId

NodeAt(q, path) == FoldLeft(LAMBDA r, i : r.args[i], q, path)

RECURSIVE Graft(_, _, _)
Graft(q, path, node) ==
    IF path = <<>> THEN node
    ELSE [q EXCEPT !.args[Head(path)] = Graft(@, Tail(path), node)]

\* The order in which initialize() evaluates: arguments before their operator.
\* (Deviation: after it.)
RECURSIVE IopPathsDown(_, _), IopPaths(_, _)
IopPathsDown(q, path) ==
    (IF q.kind \in Iops THEN <<path>> ELSE <<>>)
      \o FlattenSeq([i \in DOMAIN q.args |-> IopPathsDown(q.args[i], Append(path, i))])

IopPaths(q, path) ==
    FlattenSeq([i \in DOMAIN q.args |-> IopPaths(q.args[i], Append(path, i))])
      \o IF q.kind \in Iops THEN <<path>> ELSE <<>>

\* The tree with all its inner nodes.
RECURSIVE Nodes(_)
Nodes(q) == {q} \cup UNION {Nodes(q.args[i]) : i \in DOMAIN q.args}

\* The operators on scores in the order in which a visit of the tree meets them,
\* that of q numbered k, the argument of up.
RECURSIVE Numbered(_, _, _)
Numbered(q, k, up) ==
    LET below == IF q.kind = "score" THEN <<>>
                 ELSE FoldLeft(LAMBDA s, arg : s \o Numbered(arg, k + 1 + Len(s), k), <<>>, q.args)
    IN  <<[kind |-> q.kind, weights |-> q.weights, up |-> up, last |-> k + Len(below),
           args |-> SortedSet({k + i : i \in {j \in DOMAIN below : below[j].up = k}}),
           list |-> IF q.kind = "score" THEN q.args[1].list ELSE <<>>]>> \o below

-----------------------------------------------------------------------------
Init ==
    /\ OperatorInit
    /\ RankerInit
    /\ \E job \in Jobs : /\ conf = [model |-> job.model, depth |-> job.depth, size |-> job.size]
                         /\ query = job.query
                         /\ tasks = job.tasks
                         /\ runFile = job.runFile
    /\ phase = "task"
    /\ tree = None
    /\ pending = <<>>
    /\ ranking = <<>>

Fail ==
    /\ phase' = "failed"
    /\ UNCHANGED <<operatorVars, rankerVars, conf, query, tasks, tree, pending, ranking, runFile>>

StemsOf(s) == FlattenSeq([i \in DOMAIN s |-> [j \in DOMAIN CreateTerms(s[i]) |->
                              Word(CreateTerms(s[i])[j].word, "body")]])

\* Text that is not a structured query is tokenized, so that no punctuation in
\* it can be taken for structure; the model's default operator is put around.
DefaultOperator(model) == Op(IF model = "BM25" THEN "sum" ELSE "and", NoDistance)

PrepareBowQuery(s) ==
    <<DefaultOperator(conf.model), Open>>
      \o (IF s # <<>> /\ s[1].is = "op" THEN s ELSE StemsOf(s)) \o <<Close>>

\* A query of stopwords leaves no tree: initialize() is called on None.
Parse ==
    /\ phase = "task" /\ tasks # <<>> /\ Head(tasks) = "rank"
    /\ LET q == GetQuery(PrepareBowQuery(query))
       IN  \/ /\ q.kind \in {"none", "failed"}
              /\ Fail
           \/ /\ q.kind \notin {"none", "failed"}
              /\ phase' = "initialize"
              /\ tree' = q
              /\ pending' = IopPaths(q, <<>>)
              /\ UNCHANGED <<operatorVars, rankerVars, conf, query, tasks, ranking, runFile>>

Current == NodeAt(tree, Head(pending))

Leave(node) ==
    /\ tree' = Graft(tree, Head(pending), node)
    /\ UNCHANGED <<rankerVars, conf, query, tasks, ranking, runFile>>

Initializing(kinds) ==
    /\ phase = "initialize"
    /\ pending # <<>>
    /\ Current.kind \in kinds

EvaluateTerm ==
    /\ Initializing({"term"})
    /\ LET key == <<Current.word, Current.field>>
       IN  Leave([Current EXCEPT !.list = IF key \in DOMAIN Index THEN Index[key] ELSE <<>>])
    /\ pending' = Tail(pending)
    /\ UNCHANGED <<phase, operatorVars>>

\* The other operators: NEAR, WINDOW and SYN get the lists of their arguments ...
StartOperator ==
    /\ Initializing({"near", "window", "syn"})
    /\ StartOn([kind |-> Current.kind, dist |-> Current.dist],
               [i \in DOMAIN Current.args |-> Current.args[i].list])
    /\ phase' = "evaluate"
    /\ UNCHANGED <<rankerVars, conf, query, tasks, tree, pending, ranking, runFile>>

\* ... make their own, one pass after the other ...
EvaluateOperator ==
    /\ phase = "evaluate"
    /\ Evaluate
    /\ UNCHANGED <<rankerVars, pipelineVars>>

\* ... and keep it.
EndOperator ==
    /\ phase = "evaluate"
    /\ stage = "done"
    /\ Leave([Current EXCEPT !.list = invertedList])
    /\ pending' = Tail(pending)
    /\ phase' = "initialize"
    /\ UNCHANGED operatorVars

-----------------------------------------------------------------------------
Initialized == phase = "initialize" /\ pending = <<>>

\* The ranker's loop over the operators on scores ...
StartMatching ==
    /\ Initialized
    /\ StartRanking(Numbered(tree, 1, 0), conf.model)
    /\ phase' = "match"
    /\ UNCHANGED <<operatorVars, conf, query, tasks, tree, pending, ranking, runFile>>

Match ==
    /\ phase = "match"
    /\ RankerStep
    /\ UNCHANGED <<operatorVars, pipelineVars>>

TaskDone ==
    /\ tasks' = Tail(tasks)
    /\ phase' = "task"
    /\ UNCHANGED <<operatorVars, rankerVars, conf, tree, pending>>

\* ... until it has found all documents, or an operator has raised.
EndMatching ==
    /\ phase = "match"
    /\ \/ /\ ranker = "done"
          /\ ranking' = Top(Sorted(hits), MaxResults)
          /\ TaskDone
          /\ UNCHANGED <<query, runFile>>
       \/ /\ ranker = "raised"
          /\ Fail

\* Dense retrieval ranks by the vectors of the query and the documents: any
\* documents, with any scores, as many as were asked for.
RankDense ==
    /\ phase = "task" /\ tasks # <<>> /\ Head(tasks) = "dense"
    /\ \E S \in SUBSET Docs : \E score \in [S -> NeuralScores] :
          ranking' = Top(Sorted([i \in 1..Cardinality(S) |->
                            [doc |-> SortedSet(S)[i], score |-> score[SortedSet(S)[i]]]]),
                         MaxResults)
    /\ TaskDone
    /\ UNCHANGED <<query, runFile>>

\* The ranking of another run: the lines of its file, in their order.
RankFromFile ==
    /\ phase = "task" /\ tasks # <<>> /\ Head(tasks) = "inRankFile"
    /\ ranking' = runFile
    /\ TaskDone
    /\ UNCHANGED <<query, runFile>>

\* What a run file says of a ranking; an empty one gets a line of its own.
WriteRun ==
    /\ phase = "task" /\ tasks # <<>> /\ Head(tasks) = "trec_eval"
    /\ runFile' = IF ranking = <<>> THEN <<[doc |-> Nonexistent, score |-> 0]>>
                                   ELSE Top(ranking, MaxResults)
    /\ TaskDone
    /\ UNCHANGED <<query, ranking>>

-----------------------------------------------------------------------------
\* Pseudo relevance feedback: the terms of the best documents of the ranking.
FeedbackRows == 1..Min({FeedbackDocs, Len(ranking)})

\* A feedback document that is in no index is one too many.
FeedbackFails == \E i \in FeedbackRows : ranking[i].doc \in Foreign

Postings(word) == Index[<<word, "body">>]

Frequency(word, i) ==
    MapThenSumSet(LAMBDA p : Len(Postings(word)[p].pos),
                  {p \in DOMAIN Postings(word) : Postings(word)[p].doc = ranking[i].doc})

\* Terms in too many documents of the index are discarded.
IsValidTerm(word) == 100 * Len(Postings(word)) <= MaxDocFreq * conf.size

Vocabulary ==
    {w \in DOMAIN TermRank : IsValidTerm(w) /\ \E i \in FeedbackRows : Frequency(w, i) > 0}

\* RM3's weight, smoothed with prf:rm3:mu > 0, is positive and rises with the term's
\* frequency; Okapi's is that of the documents with the term times
\* max(0, log((N - df + 0.5) / (df + 0.5))), zero from half of the index on.
FeedbackWeight(algorithm, word) ==
    IF algorithm = "okapi"
    THEN Cardinality({i \in FeedbackRows : Frequency(word, i) > 0})
           * Max({0, conf.size - 2 * Len(Postings(word))})
    ELSE MapThenSumSet(LAMBDA i : Frequency(word, i), FeedbackRows)

Call(name, s) == <<Op(name, NoDistance), Open>> \o s \o <<Close>>

\* The best terms, the best one last; none when all weigh nothing.
Learned(algorithm) ==
    LET weight(w) == FeedbackWeight(algorithm, w)
        better(v, w) == \/ weight(v) > weight(w)
                        \/ weight(v) = weight(w) /\ TermRank[v] < TermRank[w]
        best == Reverse(Top(SetToSortSeq({w \in Vocabulary : weight(w) > 0}, better),
                            FeedbackTerms))
    IN  IF algorithm = "okapi"
        THEN Call("sum", [i \in DOMAIN best |-> Word(best[i], "body")])
        ELSE Call("wsum", FlattenSeq([i \in DOMAIN best |->
                              <<Number(weight(best[i])), Word(best[i], "body")>>]))

\* prf:rm3:origWeight decides whether the original words stay in the query.
Rewriters == {"rm3", "okapi", "rm3 with original", "okapi with original"}

Rewrite ==
    /\ phase = "task" /\ tasks # <<>> /\ Head(tasks) \in Rewriters
    /\ LET learned == Learned(IF Head(tasks) \in {"okapi", "okapi with original"}
                              THEN "okapi" ELSE "rm3")
           keeps   == Head(tasks) \in {"rm3 with original", "okapi with original"}
       IN  \/ /\ \/ FeedbackFails
                 \/ ranking # <<>> /\ Vocabulary = {}
                 \/ keeps /\ StemsOf(query) = <<>>
              /\ Fail
           \/ /\ ~FeedbackFails
              /\ ranking = <<>> \/ Vocabulary # {}
              /\ keeps => StemsOf(query) # <<>>
              /\ query' = IF keeps
                          THEN Call("wsum", <<Number(1)>> \o Call("sum", StemsOf(query))
                                              \o <<Number(1)>> \o learned)
                          ELSE learned
              /\ TaskDone
              /\ UNCHANGED <<ranking, runFile>>

-----------------------------------------------------------------------------
\* A reranker that raises ends the batch.  LTR looks up the terms of plain text and of
\* one flat SUM or WSUM only, and raises for every other query, its ranking empty or not.
QueryRefused == Head(tasks) = "ltr" /\ ~IsBow(query)

RunReranker ==
    /\ phase = "task"
    /\ \/ /\ Rerank
          /\ ~QueryRefused
          /\ UNCHANGED <<operatorVars, rankerVars, query, phase, tree, pending, runFile>>
       \/ /\ RerankTask
          /\ NoneReranked \/ LookupMayFail \/ ScoresMayMismatch \/ QueryRefused
          /\ Fail

Ended == phase = "failed" \/ (phase = "task" /\ tasks = <<>>)

Stop == Ended /\ UNCHANGED vars

Next ==
    \/ Parse
    \/ EvaluateTerm
    \/ StartOperator
    \/ EvaluateOperator
    \/ EndOperator
    \/ StartMatching
    \/ Match
    \/ EndMatching
    \/ RankDense
    \/ RankFromFile
    \/ WriteRun
    \/ Rewrite
    \/ RunReranker
    \/ Stop

Spec == Init /\ [][Next]_vars

-----------------------------------------------------------------------------
\* An operator in the tree holds what its definition asks of its arguments' lists.
InTreeExact(q) ==
    HoldsExactly([kind |-> q.kind, dist |-> q.dist], [i \in DOMAIN q.args |-> q.args[i].list],
                 q.list)

(* Arguments are evaluated before the operators on them (QryIop.py:146-160), so
   that when matching starts every operator on positions holds exactly what its
   definition asks for, from the terms up.                                   *)
TreeIsExact == Initialized => \A q \in Nodes(tree) : q.kind \in Iops => InTreeExact(q)

-----------------------------------------------------------------------------
\* What a query means whatever its operators on positions match: their content,
\* without what stopwords and single arguments leave behind, is given values.
RECURSIVE Content(_)
Content(q) ==
    LET parts == SelectSeq([i \in DOMAIN q.args |-> Content(q.args[i])],
                           LAMBDA c : c # <<>>)
    IN  CASE q.kind = "term"  -> <<q.word, q.field>>
          [] q.kind # "term" /\ Len(parts) <= 1 -> FlattenSeq(parts)
          [] OTHER -> <<q.kind, q.dist, q.weights, parts>>

Contents(q) == {Content(r) : r \in {x \in Nodes(q) : x.kind = "score"}} \ {<<>>}

RECURSIVE Meaning(_, _)
Meaning(q, value) ==
    LET kept == {i \in DOMAIN q.args : Content(q.args[i]) # <<>>}
        part(i) == Meaning(q.args[i], value)
    IN  CASE q.kind = "score" -> value[Content(q)]
          [] q.kind = "and"   -> Min({part(i) : i \in kept})
          [] q.kind = "or"    -> Max({part(i) : i \in kept})
          [] q.kind = "sum"   -> MapThenSumSet(part, kept)
          [] q.kind = "wsum"  -> MapThenSumSet(LAMBDA i : q.weights[i] * part(i), kept)
                                   \div WeightSum(q)

RanksAlike(q, r) ==
    LET values  == [Contents(q) -> {0, Scale, 3 * Scale}]
        pairs   == {<<Meaning(q, v), Meaning(r, v)>> : v \in values}
    IN  \A a, b \in pairs : (a[1] < b[1] <=> a[2] < b[2]) /\ (a[1] = 0 <=> a[2] = 0)

JustParsed == phase = "initialize" /\ pending = IopPaths(tree, <<>>)

Written == ParseString(PrepareBowQuery(query))

(* Optimizing a query does not change how documents rank, whichever of them its
   terms match: "Optimize the query by removing degenerate nodes ... and
   unnecessary nodes or subtrees" (QryParser.py:226-232). *)
OptimizedRanksAlike == JustParsed => RanksAlike(Written, tree)

\* The queries whose meaning the optimizer is known to change: a WSUM that
\* loses a subquery keeps its weight, NEAR and WINDOW at different distances
\* count as duplicates, and a SUM that becomes a WSUM is divided by its weights.
RECURSIVE Spine(_)
Spine(q) ==
    {q} \cup LET kept == {i \in DOMAIN q.args : Content(q.args[i]) # <<>>}
             IN  IF Cardinality(kept) = 1 THEN Spine(q.args[Min(kept)]) ELSE {}

Regular(q) ==
    \A r \in Nodes(q) :
        /\ r.kind = "wsum" => \A i \in DOMAIN r.args : Content(r.args[i]) # <<>>
        /\ r.kind = "sum" => \A i, j \in DOMAIN r.args :
              (i # j /\ DuplicateQry(r.args[i], r.args[j])) =>
                  Content(r.args[i]) = Content(r.args[j]) /\ r \in Spine(q)

(* The same for every query outside those three classes: dropping degenerate
   and single-argument operators and turning duplicates into weights
   (QryParser.py:241-310) keeps the ranking. *)
RegularRanksAlike == (JustParsed /\ Regular(Written)) => OptimizedRanksAlike

-----------------------------------------------------------------------------
(* The operators on positions are evaluated as PositionalOperator evaluates them,
   the trees matched as DocumentAtATime does and the rankings reranked as
   Reranking does, whose theorems hold for them:
   every operator gets evaluated arguments, nested operators' lists included, and
   runs to its end (QryIop.py:155-160); what a ranker hands to a reranker descends
   (Ranking.py:55-62, DenseRanker.py:78). *)
PartsKeepTheirSpecs == OperatorSpec /\ RankerSpec /\ RerankSpec
=============================================================================
