---------------------------- MODULE DocumentAtATime ----------------------------
(* The loop of retrieval/Ranker.py over one query, and the iteration and scoring
   methods of query/Qry.py and the QrySop operators that it calls: the root is
   asked for a match, the match is scored, and the iterators advance past it.

   The operators on scores are numbered, an operator before its arguments, so
   that those below n are n + 1 .. last.  SCORE holds the list of its argument
   and the iterator into it.  A method that is running keeps its locals in
   "call", one for each node since no method is entered twice on one object;
   "here" is the node in control, 0 for the ranker, and "reply" what a method
   that has returned has left for its caller.

   Each step is one call, one return, or what an operator does with the answer of
   one argument.  What has to be right is that the cached matches and the
   iterators, which several methods move, neither skip a document nor go stale.  *)
EXTENDS QueryTree

CONSTANTS
    Scale,   \* one BM25 unit, so that the division by a sum of weights is exact
    NumDocs  \* Idx.getNumDocs()

ASSUME RankerAssumption == Scale \in Nat \ {0} /\ NumDocs \in Nat

VARIABLES
    nodes,   \* the operators on scores of the query tree, by number
    retrievalModel,   \* the retrieval model
    at,      \* docIteratorIndex of the argument of each SCORE
    cache,   \* docIteratorMatchCache of each operator
    call,    \* the locals of the method last called on each operator
    here,    \* the operator whose method is in control, 0 for the ranker
    reply,   \* "yes" or "no" (docIteratorHasMatch), "score" (getScore) or "none"
    returned, \* what the last getScore returned
    hits,    \* the documents added to the ranking
    ranker   \* the ranker's loop: "match", "score", "done" or "raised"

rankerVars == <<nodes, retrievalModel, at, cache, call, here, reply, returned, hits, ranker>>

Models == {"UnrankedBoolean", "RankedBoolean", "BM25"}

NoMatch == -1    \* Qry.INVALID_DOCID

ArgsOf(n) == nodes[n].args
List(n) == nodes[n].list
Below(n) == n..nodes[n].last

\* A tree as appendArg and the optimizer leave it: SCORE holds one operator on
\* positions, evaluated; every other operator has arguments, all of them on
\* scores; WSUM has a weight for each.
IsTree(t) ==
    /\ t \in Seq([kind : Sops, args : Seq(Nat), weights : Seq(Int), up : Nat, last : Nat,
                  list : Seq([doc : Nat, pos : Seq(Int)])])
    /\ t # <<>> /\ t[1].up = 0 /\ t[1].last = Len(t)
    /\ \A n \in DOMAIN t :
          /\ n <= t[n].last /\ t[n].last <= Len(t)
          /\ IsInvertedList(t[n].list)
          /\ t[n].kind = "score" => t[n].args = <<>> /\ t[n].last = n
          /\ t[n].kind # "score" => t[n].args # <<>> /\ t[n].list = <<>>
          /\ t[n].kind = "wsum" => Len(t[n].weights) >= Len(t[n].args)
          /\ \A i \in DOMAIN t[n].args :
                /\ t[n].args[i] \in (n + 1)..t[n].last
                /\ t[t[n].args[i]].up = n
          /\ \A i, j \in DOMAIN t[n].args : i < j => t[t[n].args[i]].last < t[n].args[j]
          /\ \A m \in (n + 1)..t[n].last :
                /\ t[m].up \in n..t[n].last /\ t[m].last <= t[n].last
                /\ \E i \in DOMAIN t[t[m].up].args : t[t[m].up].args[i] = m

-----------------------------------------------------------------------------
Locals(method) == [method |-> method, arg |-> 1, doc |-> NoMatch, parts |-> <<>>]

\* initialize() has set the iterators of all lists to their first posting.
StartRanking(t, m) ==
    /\ ranker \in {"done", "raised"}
    /\ nodes' = t
    /\ retrievalModel' = m
    /\ at' = [n \in DOMAIN t |-> 1]
    /\ cache' = [n \in DOMAIN t |-> NoMatch]
    /\ call' = [n \in DOMAIN t |-> Locals("match")]
    /\ here' = 0
    /\ reply' = "none"
    /\ returned' = 0
    /\ hits' = <<>>
    /\ ranker' = "match"

\* A method of n is called; one that returns leaves its reply to the caller.
Enter(n, method) ==
    /\ here' = n
    /\ reply' = "none"
    /\ call' = [call EXCEPT ![n] = Locals(method)]

Return(answer) ==
    /\ here' = nodes[here].up
    /\ reply' = answer
    /\ UNCHANGED call

\* The loop over the arguments goes on with the next one.
NextArg(doc, parts) ==
    /\ call' = [call EXCEPT ![here] = [method |-> @.method, arg |-> @.arg + 1, doc |-> doc,
                                      parts |-> parts]]
    /\ reply' = "none"
    /\ UNCHANGED here

Running(method, kinds) ==
    /\ here # 0
    /\ call[here].method = method
    /\ nodes[here].kind \in kinds
    /\ UNCHANGED <<nodes, retrievalModel>>

Arg == ArgsOf(here)[call[here].arg]

ArgsLeft == call[here].arg <= Len(ArgsOf(here))

\* docIteratorAdvanceTo on n: the iterators below it move, and its matches and
\* those below it are forgotten.
AdvanceTo(n, d) ==
    /\ at' = [m \in DOMAIN nodes |->
                IF m \in Below(n) THEN FirstFrom(List(m), at[m], d) ELSE at[m]]
    /\ cache' = [m \in DOMAIN nodes |-> IF m \in Below(n) THEN NoMatch ELSE cache[m]]

\* (Deviation: of several arguments, only the first moves.)
AdvancePastFirst(n, d) ==
    LET moved == {m \in Below(n) : \A k \in Below(n) : m \in Below(k) \/ k > m}
    IN  /\ at' = [m \in DOMAIN nodes |->
                    IF m \in moved THEN FirstFrom(List(m), at[m], d + 1) ELSE at[m]]
        /\ cache' = [m \in DOMAIN nodes |-> IF m \in moved THEN NoMatch ELSE cache[m]]

AdvancePast(n, d) == AdvanceTo(n, d + 1)

\* (Deviation: the match is returned and not kept.)
KeepNoMatch(d) == UNCHANGED cache

SetMatchCache(d) == cache' = [cache EXCEPT ![here] = d]

-----------------------------------------------------------------------------
\* docIteratorHasMatchFirst: SCORE, whose argument stands on a posting or has
\* run out.
FirstHasMatch ==
    /\ Running("match", {"score"})
    /\ \/ /\ at[here] <= Len(List(here))
          /\ SetMatchCache(List(here)[at[here]].doc)
          /\ Return("yes")
       \/ /\ at[here] > Len(List(here))
          /\ Return("no")
          /\ UNCHANGED cache
    /\ UNCHANGED <<at, returned, hits, ranker>>

\* docIteratorHasMatchAll: the first argument proposes a document, the others
\* advance to it one after the other.
AllAsk ==
    /\ Running("match", {"and"})
    /\ reply = "none" /\ ArgsLeft
    /\ \/ call[here].arg = 1 /\ UNCHANGED <<at, cache>>
       \/ call[here].arg > 1 /\ AdvanceTo(Arg, call[here].doc)
    /\ Enter(Arg, "match")
    /\ UNCHANGED <<returned, hits, ranker>>

\* The first that has no match ends the search ...
AllMiss ==
    /\ Running("match", {"and"})
    /\ reply = "no"
    /\ Return("no")
    /\ UNCHANGED <<at, cache, returned, hits, ranker>>

AllAgrees ==
    /\ Running("match", {"and"})
    /\ reply = "yes"
    /\ call[here].arg = 1 \/ cache[Arg] = call[here].doc
    /\ NextArg(cache[Arg], <<>>)
    /\ UNCHANGED <<at, cache, returned, hits, ranker>>

\* ... and the first that is ahead sends the first argument to its document.
AllRetry ==
    /\ Running("match", {"and"})
    /\ reply = "yes"
    /\ call[here].arg > 1 /\ cache[Arg] # call[here].doc
    /\ AdvanceTo(ArgsOf(here)[1], cache[Arg])
    /\ call' = [call EXCEPT ![here] = Locals("match")]
    /\ reply' = "none"
    /\ UNCHANGED <<here, returned, hits, ranker>>

AllEnd ==
    /\ Running("match", {"and"})
    /\ reply = "none" /\ ~ArgsLeft
    /\ SetMatchCache(call[here].doc)
    /\ Return("yes")
    /\ UNCHANGED <<at, returned, hits, ranker>>

\* docIteratorHasMatchMin: all arguments are asked, the smallest match counts.
AnyOf == {"or", "sum", "wsum"}

MinAsk ==
    /\ Running("match", AnyOf)
    /\ reply = "none" /\ ArgsLeft
    /\ Enter(Arg, "match")
    /\ UNCHANGED <<at, cache, returned, hits, ranker>>

\* (Deviation: the first argument that has a match decides.)
MinTakeFirst ==
    /\ Running("match", AnyOf)
    /\ reply = "yes"
    /\ call' = [call EXCEPT ![here].arg = Len(ArgsOf(here)) + 1, ![here].doc = cache[Arg]]
    /\ reply' = "none"
    /\ UNCHANGED <<here, at, cache, returned, hits, ranker>>

MinTake ==
    /\ Running("match", AnyOf)
    /\ reply = "yes"
    /\ NextArg(IF call[here].doc = NoMatch THEN cache[Arg] ELSE Min({call[here].doc, cache[Arg]}),
               <<>>)
    /\ UNCHANGED <<at, cache, returned, hits, ranker>>

MinMiss ==
    /\ Running("match", AnyOf)
    /\ reply = "no"
    /\ NextArg(call[here].doc, <<>>)
    /\ UNCHANGED <<at, cache, returned, hits, ranker>>

\* The cache is left alone when nothing matches.
MinEnd ==
    /\ Running("match", AnyOf)
    /\ reply = "none" /\ ~ArgsLeft
    /\ \/ /\ call[here].doc = NoMatch
          /\ Return("no")
          /\ UNCHANGED cache
       \/ /\ call[here].doc # NoMatch
          /\ SetMatchCache(call[here].doc)
          /\ Return("yes")
    /\ UNCHANGED <<at, returned, hits, ranker>>

-----------------------------------------------------------------------------
Supports(kind, m) ==
    \/ kind = "score"
    \/ kind \in {"and", "or"} /\ m # "BM25"
    \/ kind \in {"sum", "wsum"} /\ m = "BM25"

\* The inverse document frequency falls with df and the weight of a term rises
\* with tf; what else BM25 weighs (the length of the document) is left out.
BM25(tf, df) == Scale * tf * (NumDocs + 1 - df)

ScorePosting(list, k, m) ==
    IF m = "RankedBoolean" THEN Tf(list[k]) ELSE BM25(Tf(list[k]), Len(list))

\* How an operator makes one score of those of the arguments it has visited.
\* The sum of weights still counts the arguments that were deleted.
Combined(node, parts) ==
    LET scores == {parts[i] : i \in DOMAIN parts}
    IN  CASE node.kind = "and"  -> Min(scores)
          [] node.kind = "or"   -> Max(scores \cup {0})
          [] node.kind = "sum"  -> SumFunction(parts)
          [] node.kind = "wsum" ->
                IF WeightSum(node) > 0
                THEN SumFunction([i \in DOMAIN parts |-> node.weights[i] * parts[i]]) \div WeightSum(node)
                ELSE 0

Scoring(kinds) ==
    /\ Running("score", kinds)
    /\ Supports(nodes[here].kind, retrievalModel)
    /\ UNCHANGED <<hits, ranker>>

\* getScore raises for a model its operator does not support; the exception
\* leaves the ranker.
Raise ==
    /\ Running("score", Sops)
    /\ ~Supports(nodes[here].kind, retrievalModel)
    /\ ranker' = "raised"
    /\ here' = 0
    /\ reply' = "none"
    /\ UNCHANGED <<at, cache, call, returned, hits>>

\* Without a cached match the score is 0.
HasMatchCache == cache[here] # NoMatch

ScoreUnranked ==
    /\ Scoring(Sops)
    /\ retrievalModel = "UnrankedBoolean"
    /\ returned' = IF HasMatchCache THEN 1 ELSE 0
    /\ Return("score")
    /\ UNCHANGED <<at, cache>>

ScoreLeaf ==
    /\ Scoring({"score"})
    /\ retrievalModel # "UnrankedBoolean"
    /\ returned' = IF HasMatchCache THEN ScorePosting(List(here), at[here], retrievalModel) ELSE 0
    /\ Return("score")
    /\ UNCHANGED <<at, cache>>

\* AND trusts the matches its arguments have cached; the others ask again.
ScoreAsk ==
    /\ Scoring(AnyOf)
    /\ retrievalModel # "UnrankedBoolean"
    /\ reply = "none" /\ ArgsLeft
    /\ Enter(Arg, "match")
    /\ UNCHANGED <<at, cache, returned>>

\* An argument that has the document for its match is visited.  (Deviation: one
\* with any match.)
Asked == reply = (IF nodes[here].kind = "and" THEN "none" ELSE "yes") /\ ArgsLeft

PresentAnywhere == Asked

Present == Asked /\ cache[Arg] = cache[here]

ScoreVisit ==
    /\ Scoring({"and"} \cup AnyOf)
    /\ retrievalModel # "UnrankedBoolean"
    /\ Present
    /\ Enter(Arg, "score")
    /\ UNCHANGED <<at, cache, returned>>

ScoreSkip ==
    /\ Scoring({"and"} \cup AnyOf)
    /\ retrievalModel # "UnrankedBoolean"
    /\ reply = "no" \/ (Asked /\ ~Present)
    /\ NextArg(NoMatch, call[here].parts)
    /\ UNCHANGED <<at, cache, returned>>

ScoreAdd ==
    /\ Scoring({"and"} \cup AnyOf)
    /\ retrievalModel # "UnrankedBoolean"
    /\ reply = "score"
    /\ LET parts == call[here].parts
           i == call[here].arg
       IN  NextArg(NoMatch, [j \in DOMAIN parts \cup {i} |-> IF j = i THEN returned ELSE parts[j]])
    /\ UNCHANGED <<at, cache, returned>>

ScoreEnd ==
    /\ Scoring({"and"} \cup AnyOf)
    /\ retrievalModel # "UnrankedBoolean"
    /\ reply = "none" /\ ~ArgsLeft
    /\ returned' = Combined(nodes[here], call[here].parts)
    /\ Return("score")
    /\ UNCHANGED <<at, cache>>

-----------------------------------------------------------------------------
\* The ranker: while the query has a match, score it, advance past it, add it.
Ranking(stage) ==
    /\ here = 0
    /\ ranker = stage
    /\ UNCHANGED <<nodes, retrievalModel, returned>>

RankMatch ==
    /\ Ranking("match")
    /\ reply = "none"
    /\ Enter(1, "match")
    /\ UNCHANGED <<at, cache, hits, ranker>>

RankScore ==
    /\ Ranking("match")
    /\ reply = "yes"
    /\ ranker' = "score"
    /\ Enter(1, "score")
    /\ UNCHANGED <<at, cache, hits>>

RankAdd ==
    /\ Ranking("score")
    /\ reply = "score"
    /\ AdvancePast(1, cache[1])
    /\ hits' = Append(hits, [doc |-> cache[1], score |-> returned])
    /\ ranker' = "match"
    /\ reply' = "none"
    /\ UNCHANGED <<here, call>>

RankEnd ==
    /\ Ranking("match")
    /\ reply = "no"
    /\ ranker' = "done"
    /\ reply' = "none"
    /\ UNCHANGED <<at, cache, hits, here, call>>

RankerStep ==
    \/ FirstHasMatch
    \/ AllAsk
    \/ AllMiss
    \/ AllAgrees
    \/ AllRetry
    \/ AllEnd
    \/ MinAsk
    \/ MinTake
    \/ MinMiss
    \/ MinEnd
    \/ Raise
    \/ ScoreUnranked
    \/ ScoreLeaf
    \/ ScoreAsk
    \/ ScoreVisit
    \/ ScoreSkip
    \/ ScoreAdd
    \/ ScoreEnd
    \/ RankMatch
    \/ RankScore
    \/ RankAdd
    \/ RankEnd

RankerInit ==
    /\ nodes = <<[kind |-> "score", args |-> <<>>, weights |-> <<>>, up |-> 0, last |-> 1,
                  list |-> <<>>]>>
    /\ retrievalModel = "BM25"
    /\ at = <<1>>
    /\ cache = <<NoMatch>>
    /\ call = <<Locals("match")>>
    /\ here = 0
    /\ reply = "none"
    /\ returned = 0
    /\ hits = <<>>
    /\ ranker = "done"

RankerNext == (IsTree(nodes') /\ retrievalModel' \in Models /\ StartRanking(nodes', retrievalModel')) \/ RankerStep

RankerSpec == RankerInit /\ [][RankerNext]_rankerVars

-----------------------------------------------------------------------------
RankerTypeOK ==
    /\ IsTree(nodes) /\ retrievalModel \in Models
    /\ at \in [DOMAIN nodes -> Nat \ {0}]
    /\ \A n \in DOMAIN nodes : at[n] <= Len(List(n)) + 1
    /\ cache \in [DOMAIN nodes -> Nat \cup {NoMatch}]
    /\ DOMAIN call = DOMAIN nodes
    /\ \A n \in DOMAIN nodes :
          /\ call[n].method \in {"match", "score"} /\ call[n].doc \in Nat \cup {NoMatch}
          /\ call[n].arg \in 1..(Len(ArgsOf(n)) + 1)
          /\ DOMAIN call[n].parts \subseteq DOMAIN ArgsOf(n)
          /\ \A i \in DOMAIN call[n].parts : call[n].parts[i] \in Int
    /\ here \in {0} \cup DOMAIN nodes
    /\ reply \in {"none", "yes", "no", "score"}
    /\ returned \in Int
    /\ hits \in Seq([doc : Nat, score : Int])
    /\ ranker \in {"match", "score", "done", "raised"}

\* The documents each operator of t matches in what is left of the lists from the
\* iterators on, by its definition and without any iteration.
MatchesFrom(t, pos) ==
    LET docs[n \in DOMAIN t] ==
          CASE t[n].kind = "score" -> {t[n].list[k].doc : k \in pos[n]..Len(t[n].list)}
            [] t[n].kind = "and"   -> {d \in docs[t[n].args[1]] :
                                         \A i \in DOMAIN t[n].args : d \in docs[t[n].args[i]]}
            [] OTHER -> UNION {docs[t[n].args[i]] : i \in DOMAIN t[n].args}
    IN  docs

MatchesOf(t) == MatchesFrom(t, [n \in DOMAIN t |-> 1])

\* The score document d deserves from each operator of t that matches it.
ScoresOf(t, m, d) ==
    LET score[n \in DOMAIN t] ==
          CASE m = "UnrankedBoolean" -> 1
            [] m # "UnrankedBoolean" /\ t[n].kind = "score" ->
                  ScorePosting(t[n].list,
                               CHOOSE k \in DOMAIN t[n].list : t[n].list[k].doc = d, m)
            [] OTHER -> Combined(t[n],
                           [i \in {j \in DOMAIN t[n].args : d \in MatchesOf(t)[t[n].args[j]]} |->
                              score[t[n].args[i]]])
    IN  score

(* The ranker's loop (Ranker.py:104-110) finds the documents that match the query,
   in document order and so none twice, skips none on its way and none at its
   end, and each has the score its operators' definitions give. *)
FindsExactlyTheMatches ==
    /\ Ascending([k \in DOMAIN hits |-> hits[k].doc])
    /\ \A k \in DOMAIN hits : /\ hits[k].doc \in MatchesOf(nodes)[1]
                              /\ hits[k].score = ScoresOf(nodes, retrievalModel, hits[k].doc)[1]
    /\ \A d \in MatchesOf(nodes)[1] :
          (ranker = "done" \/ (hits # <<>> /\ d <= hits[Len(hits)].doc)) =>
              \E k \in DOMAIN hits : hits[k].doc = d

(* docIteratorGetMatch raises when no match is cached (Qry.py:184-196): whenever a
   caller reads a match, after an answer or, as AND's getScore does, without
   asking again, the method that cached it has been the last to touch it. *)
CachedWhenRead ==
    /\ reply = "yes" => cache[IF here = 0 THEN 1 ELSE Arg] # NoMatch
    /\ (here # 0 /\ call[here].method = "score") =>
          /\ cache[here] # NoMatch
          /\ nodes[here].kind = "and" /\ ArgsLeft => cache[Arg] # NoMatch

\* How many postings the iterators still have before them.
PostingsAhead == SumFunction([n \in DOMAIN nodes |-> Len(List(n)) + 1 - at[n]])

(* No iterator goes back, a document that is added leaves fewer postings ahead
   (Ranker.py:106-110), and so does each new attempt of AND to make its arguments
   agree (Qry.py:224-252), so that both loops end. *)
MatchingMovesOn ==
    [][ /\ ranker \notin {"done", "raised"} => PostingsAhead' <= PostingsAhead
        /\ hits' # hits /\ hits' # <<>> => PostingsAhead' < PostingsAhead
        /\ AllRetry => PostingsAhead' < PostingsAhead ]_rankerVars

(* getScore asks the arguments again which match (QrySopOr.py:86, QrySopSum.py:54,
   QrySopWsum.py:54), and asking moves iterators: none moves that has been asked
   before, so the document that is scored is the one that was matched. *)
ScoringMovesNothing == [][ranker = "score" /\ ranker' = "score" => UNCHANGED at]_rankerVars
=============================================================================
