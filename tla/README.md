# QryEval PLUS: models, model checks and proofs

This directory verifies parts of QryEval PLUS, a retrieval and question-answering
system: a Lucene/FAISS query engine, retrieval-augmented answering with a language
model, a bounded research agent, batch experiments with checkpoints, and an HTTP
answer service. The TLA+ modules are translated from the code under
`src/qryeval_plus/`; TLC checks them on small instances and TLAPS proves the theorems
for every value of the constants. `PROJECT.json` holds the machine-readable side:
which source lines each definition stands for, the runs, the mutants that show each
property can fail, the hazards and the theorems.

## 1. The system

Paths are relative to `src/qryeval_plus/`.

| Component | State it keeps | Operations | Talks to | What is hard | What makes it correct |
|---|---|---|---|---|---|
| Queue, worker and handler (`service/queue.py`, `service/app.py`) | bounded `asyncio.Queue`, in-flight table, one future per flight, worker task, counters | `submit`, `_worker`, `start`, `close`, `POST /v1/answer` | engine on a one-thread executor; the ASGI server | event loop and executor thread interleave; coalesced waiters; timeouts; shutdown with a full queue | single flight, no stranded waiter, justified refusals, shutdown ends and drops no admitted work |
| Engine and response cache (`service/engine.py`, `service/cache.py`) | SQLite rows keyed by corpus version, configuration, policy and question | `start`, `close`, `cached`, `answer`, `get`, `put` | policies, index, SQLite | crash or refused write after a paid inference; redeployment over an old cache | nothing paid twice once stored; no answer of another corpus |
| Model response cache and ledger (`llm/cached.py`) | two SQLite tables, request and token budgets | `complete`, `budget_snapshot` | HTTP client, SQLite | check and charge in two critical sections; a transaction without rollback; crashes | budget overrun bounded; ledger in step with the cache; first response wins |
| HTTP client (`llm/openai_compatible.py`) | none between calls | `complete`, `_post` with retries | the model endpoint | transient failures, timeouts | retries bounded, failure classes told apart |
| Research agent (`agentic/runtime.py`, `state.py`, `tools.py`) | one state record per question: messages, rankings, budgets, stop reason | planner, tool and answer nodes of a LangGraph graph | provider, rankers, passage builder | arbitrary sequences of tool calls, budgets, errors in the middle of a batch of calls | ends within its budgets; answers only from a ranking it has; every tool call answered before the next planner turn |
| Adaptive rewrite policy (`agentic/rewrite.py`) | one record per question, checkpoint file | confidence test, one rewrite, fusion, answer | provider, ranker | which errors leave it, resume | see checkpoint |
| One-shot RAG agent (`rag/Agent.py`, `PassageBuilder.py`, `RagPrompt.py`) | checkpoint file | `execute` | provider, encoder | resume | see checkpoint |
| Checkpoint and resume (the three agents above) | append-only JSON lines | `_append_checkpoint`, `_load_checkpoints` | benchmark runner | torn lines, crash between two files, what counts as completed | a completed question is not run again, a failed one is, no record is lost |
| Benchmark runner (`benchmark.py`) | output directories, per-system results | run, resume, compare | all agents | which failures are retried | a resumed run ends with what an uninterrupted one gives |
| Query operators (`query/Qry*.py`) | iterator position of every node of a query tree | document-at-a-time match, inverted lists of NEAR/WINDOW/SYN, scores | inverted lists | advancing several cursors together, cached matches, empty lists | each operator returns exactly the documents and positions of its definition |
| Query parser (`query/QryParser.py`) | none | string to query tree | Lucene analysis | brackets, weights kept apart from the arguments they belong to, optimizing | a malformed query fails; the optimized tree ranks as the written one |
| Inverted lists, rankings (`core/InvList.py`, `ScoreList.py`, `Ranking.py`) | postings, scores | append, sort, truncate | operators | order of postings | postings ascend, positions ascend |
| Index (`core/Idx.py`, `PyLu.py`) | one open Lucene reader | attribute and posting access | Lucene | foreign code | wraps Lucene |
| Ranking, reranking, fusion (`retrieval/`, `rerank/`, `pipeline.py`) | models held in memory | rank, rerank a prefix and merge, RRF | index, neural models | ranking shorter than the depth, ties | a permutation of the prefix over an unchanged tail, with descending scores |
| Query expansion (`rewrite/`) | none | pseudo-relevance feedback | index, parser | feedback documents that are in no index, queries without terms | the best terms; otherwise numeric |
| Configuration and CLI (`config.py`, `cli.py`, `runtime.py`) | none | validate, run, serve | everything | none that has state | input validation |
| Protocol, statistics, grounding, load test | none | sampling, tests, reports | files | none that has state | numeric |
| Input and output (`io/`, `core/Util.py`, `core/Timer.py`) | files | read, write | files | formats | formats |
| Mock model server (`service/mock.py`) | none | answers like an endpoint | service tests | none | test double |
| Legacy rerankers, scripts | none | not called | none | none | not used |

How they interact at run time: the handler calls `submit`, which reads the response
cache, joins a flight or queues a new one; the worker hands the item to the executor
thread, where the engine looks at the cache again, runs a policy, and stores the
answer; the policy calls the provider, which is the budgeted cache around the HTTP
client. Batch experiments call the agents directly and keep a checkpoint file instead
of the response cache: a pipeline runs the tasks of a configuration one after the other
over a batch of questions (rankers, rewriters, rerankers, an agent, output files), and
the benchmark runs one pipeline per system and reports from the files it leaves.

## 2. The modules

In the order of how much depends on the behaviour and how hard it is to test.

| Part | Modules | Composed with |
|---|---|---|
| Answer service | `ServiceOutcome`, `AnswerService` (the abstract promise), `InferenceQueue`, `MCInferenceQueue`, `InferenceQueueProofs` | handler, queue, worker, engine and cache in one module, implementing `AnswerService` |
| Budgeted model cache | `CachedBudget`, `CachedBudgetProofs` | cache, ledger and the client's retries |
| Research agent | `AgenticRag`, `MCAgenticRag`, `AgenticRagProofs` | one question of a batch |
| Batches | `BenchmarkResume`, `MCBenchmarkResume`, `BenchmarkResumeProofs` | benchmark, pipeline, the three agents' checkpoints, output files |
| Query evaluation | `Sorting`, `InvertedList`, `PositionalMatch`, `PositionalOperator`, `PositionalProofs`, `QueryTree`, `DocumentAtATime`, `DocumentAtATimeProofs`, `QueryParser`, `RerankMerge`, `Reranking`, `RerankingProofs`, `RankingPipeline`, `MCRankingPipeline` | `RankingPipeline` extends the parser, both kinds of operators and the rerankers; `PositionalOperator` extends the search inside a document |
| Data | `DataFacts`: lemmas alone, about sums, sorts and finite sets | cited by the proofs about the ledger, batches, searches, operators, the ranker's loop and rerankers |

Worth doing next: the arithmetic of the benchmark's comparison of systems, and the
fusion of rankings.

## 3. The models

### 3.1 `ServiceOutcome`, `InferenceQueue`: the answer service

`InferenceQueue` has one variable for each piece of state the code keeps:

| Variable | In the code |
|---|---|
| `queue` | `InferenceQueue.queue`; an item is named by the request that leads its flight, the sentinel is `None` |
| `inflight`, `future` | `InferenceQueue.inflight` and the future of each item |
| `worker`, `job` | `_worker`: at `queue.get`, waiting for the executor, or ended; the item it holds |
| `exec`, `verdict` | `AnswerEngine.answer` on the executor thread, and what it returned or raised |
| `cache` | the table `responses` as the connection shows it, by corpus version and key; a row can be unparsable |
| `uncommitted` | its rows in a transaction whose commit failed |
| `phase`, `waitsOn`, `reply` | each handler: not sent, between the two reads of `submit`, waiting on a shielded future, done, and its reply |
| `lifecycle`, `corpus`, `restarts` | the process: starting, serving, closing (the sentinel is not yet in the queue), draining, down |
| `metered` | how many replies added to the token and cost counters |
| `paid`, `lost` | history: successful inferences per row, and those whose row was never stored or was taken back |

Each coroutine keeps the event loop from one `await` to the next, so a step of the
handler, of the worker or of the lifespan is one action. `submit` is cut in two:
`Lookup` reads the cache, `Join`, `Refuse` or `Lead` read the in-flight table. No other
coroutine runs between (`LoopFree` guards the loop's actions), but the executor thread
does. `asyncio.Lock` is always free when it is asked for, since no holder awaits
anything else, and is left out. `Timeout` may also fire after the future was resolved,
as `asyncio.wait_for` allows; a client that disconnects has the effect of `Timeout`.
`StoreFails` lets the INSERT be refused; or the commit, after which the row stays in the
open transaction, because the code never rolls back: later requests read it and a later
`put` commits it; or SQLite rolls the transaction back. `Crash` and `Restart` keep only
the committed rows; `Restart` may bring another corpus version.

With `ServerDrains` the ASGI server ends its requests before the lifespan shuts the
queue down (uvicorn's order). Without it, `submit` may still be called while `close`
runs, as it may by any other user of the class.

`ServiceOutcome` gives the exception class, the words of the message and the HTTP
status of each way a request can end. `AnswerService` is the abstract specification:
one inference at a time, never for an answer already stored; an answer is stored
before a client sees it and is for the question asked and the deployed corpus; a
request is refused only while its answer is neither stored nor being computed. What an
inference stored when it succeeded is `durable`; one that failed may leave an answer that
lasts until a later one makes it durable, or a failure or the end of the process takes it
back. `InferenceQueue` implements it with `status`, `store`, `durable` and `running` read
off `phase`, `cache`, `uncommitted` and `exec`.

Left out: authentication, request validation, response headers and log records; error
bodies of the model endpoint that themselves contain the word "timeout"; how the
policies retrieve and prompt.

### 3.2 `CachedBudget`: the model cache and its ledger

| Variable | In the code |
|---|---|
| `call` | each thread inside `complete`: outside, waiting for the HTTP client, or about to record; with the attempt of `_post` |
| `cache`, `ledger` | tables `llm_cache` and `budget_events` as the connection shows them |
| `saved` | the committed rows of both |
| `sent`, `bought`, `lost` | history: HTTP requests; usable responses per key; those a fault left no row of |

`Call` is the first critical section, `PostSucceeds`, `PostRetries` and `PostFails` are
the ends of one HTTP request, `Record` is the second critical section. A call that is
answered from the cache, meets a corrupt row or exceeds its budget changes nothing and
is no action. `RecordFails` lets each statement of the transaction be refused: the
first INSERT; the second, after which the first stays in the open transaction, because
the code never rolls back; the commit, after which SQLite keeps or rolls back both.
`Crash` returns to the committed rows.

The shipped configuration calls the provider from one thread; the class has a lock
and opens its connection for use by several, and is modelled for any number of them.

### 3.3 `AgenticRag`: the research loop

One question of `AgenticRagAgent.execute`, from its initial state to the end of the
graph. The model behind the planner is free to answer with any calls.

| Variable | In the code |
|---|---|
| `node` | the graph's node that runs next, or `end`; `aborted` when another exception leaves `execute` |
| `attempt` | the loop variable of `_complete_planner_with_retry` |
| `todo` | `pending_tool_calls`, and in the tool node the calls its loop has not reached; a call is the budget it draws on, `finish`, or `other` |
| `turns`, `toolCalls`, `toolErrors`, `exhausted`, `llmCalls` | the counters of the state record |
| `used` | `retrieval_calls`, `rerank_calls`, `fusion_calls` |
| `rankings`, `selected` | the length of `ranking_order`, and the number in `selected_ranking_id` |
| `stop`, `answer` | `stop_reason`, and whether the answer is text or blank after normalisation |
| `asked`, `replied` | tool calls in the assistant messages, and tool messages |
| `steps` | history: nodes run |

A planner node is `PlannerRetries` and then one of `PlannerGivesUp`,
`PlannerCallsTools`, `PlannerStops`; a tool node is one action for each call it takes,
and the last of them also leaves the node (`GoOn`, `ToolFinishes`); an answer node is
one action. `Raises` is any exception the nodes do not handle.

Left out: which documents a ranking holds (an empty ranking is a ranking, in the code
too), the arguments of calls beyond whether they are valid, and a `ValueError` between
the storing of a ranking and the end of the call, which only an empty model path can
cause. Counts, not identifiers, tell whether each call has its message.

### 3.4 `BenchmarkResume`: a system of a benchmark, interrupted and resumed

`benchmark.py` runs one pipeline per system; an agent answers the questions of the batch
in order and appends each record to its checkpoint; the outputs are written when the
batch is done; `--resume` starts a process over the files the last one left.

| Variable | In the code |
|---|---|
| `agent` | the type of the configured agent: `rag`, `agentic_rag` or `rewrite_rag` |
| `checkpoint` | `checkpoint.jsonl`: the writes made to it, each whole, without its newline, cut, or cut inside a UTF-8 character |
| `outputs` | `results.run`, `answers.json`, `llm.json`, `runtime.json`: absent, emptied by a crash, or whole with the records they were written from |
| `rejected` | questions whose cached response the rewrite policy refuses each time |
| `phase` | what the process does next; `idle` when there is none |
| `resume`, `completed`, `todo`, `batch` | `agent:resume`, `_completed`, the questions not yet reached, and the `qinfo` of each |
| `starts`, `crashes`, `aborts`, `paid`, `replaced`, `reported` | history |

`Start` is `_run_system`'s decision whether the files are complete; `TakeOver` and
`EmptyLog` are the construction of an agent with and without `--resume`;
`SkipQuestion`, `ExecuteQuestion`, `AbortQuestion`, `AppendLog` and `EndBatch` are the
loop over the batch, with each agent's order of checkpoint and trajectory (`LogOrder`)
and what it records instead of raising (`Recorded`); `WriteOutput` is one file of the
evaluation. `Crash`, `CrashInAppend` and `CrashInOutput` end the process between two
steps or inside a write. `Readable`, `Settled` and `LoadCheckpoints` are the loader: a
line glued to a cut one does not parse, and neither does the cut one.

What the model makes visible, beyond its properties:

- A research question that ends without an answer is retryable for the benchmark and
  settled for the agent: such a run is never complete, and every `--resume` goes through
  the pipeline again without asking the model.
- Three states are not left by resuming (`Stuck`): a checkpoint cut inside a character,
  whose decoding error the loader does not catch (`agentic/runtime.py:450`); a response
  that the rewrite policy refuses after the model cache has kept it; and a
  `runtime.json` a crash emptied, which `benchmark.py:251` parses unguarded.
- A run started again without `--resume` over finished outputs, interrupted, and then
  resumed, is complete by the old files: `replaced` marks it, and the properties of
  reports are stated for benchmarks that were continued the documented way, with
  `--resume` (the repository's `README.md:123`).
- A crash that empties `llm.json` leaves a file without failures: the run counts as
  complete. `Trusted` leaves these reports out.

### 3.5 The query side

`PositionalMatch` is the search for NEAR and WINDOW matches in one document: the
argument's positions, one cursor each, and the matches taken, as the vectors of cursors.
Each action is one iteration of the loop of `QryIopNear.__withinDoc` or
`QryIopWindow.__withinDoc`.

`PositionalOperator` is the evaluation of one NEAR, WINDOW or SYN around that search.
`Sorting` and `InvertedList` are the values it works on: a sort, the postings of a term
with `appendPosting`, and where an iterator lands when it advances.

| Variable | In the code |
|---|---|
| `operator` | the class of the node and its distance |
| `invs`, `docIterator` | the inverted list of each argument and its `docIteratorIndex` |
| `invertedList` | `self.invertedList` as it grows |
| `stage` | between two documents, inside one, or done |

`Start` is what `initialize` leaves for `evaluate`. Every other action is one pass of a
loop over documents: `NearAlign` and `WindowAlign` move iterators that do not agree on a
document, each operator in its own way; `NearOpen` and `WindowOpen` hand the positions of
a shared one to `PositionalMatch`, whose steps are `SearchDocument`; `CloseDocument`
appends what was found and moves on; `SynPass` merges the postings of the smallest
document; `NearFinish`, `WindowFinish` and `SynFinish` leave the loop.

`QueryTree` is how the nodes of a query are put together. `DocumentAtATime` is what the
operators on scores do with it: the ranker's loop, the three ways to look for a match
(`docIteratorHasMatchFirst`, `-All`, `-Min`) and `getScore` of every operator. Its tree
is numbered, an operator before its arguments, so that a subtree is an interval.

| Variable | In the code |
|---|---|
| `nodes` | the operators on scores: class, arguments, weights, the list of SCORE's argument |
| `at`, `cache` | `docIteratorIndex` of that argument, and `docIteratorMatchCache` of each operator |
| `call` | the locals of the method last called on each operator: which method, which argument it is at, the document it looks for, the scores it has |
| `here`, `reply`, `returned` | the operator whose method runs, and what the one that has returned leaves its caller |
| `hits`, `ranker` | the ranking so far, and where the ranker's loop is |

Each step is one call, one return, or what an operator does with the answer of one
argument, so the order in which methods move iterators and set or clear cached matches
is the code's. `AdvanceTo` moves a whole subtree and forgets its matches. `AllAsk`,
`AllAgrees`, `AllRetry`, `AllMiss` and `AllEnd` are AND's loop, which starts over when
an argument is ahead; `MinAsk` to `MinEnd` ask every argument of OR, SUM and WSUM.
`ScoreAsk`, `ScoreVisit`, `ScoreSkip`, `ScoreAdd` and `ScoreEnd` are `getScore`, which asks
the arguments again, but for AND's, which trusts their cached matches. `Raise` is the
exception of an operator under a model it does not support. BM25 is an integer table
that keeps the order of its values.

`QueryParser` works on tokens: the checks of brackets, the recursive descent, the
creation of terms (a stopword gives none, a hyphenated word two) and the optimizer.

`RerankMerge` is the merge of a reranked head with the rest of its ranking. `Reranking`
is the rerankers around it, as a specification of their own: `conf`, `tasks` and
`ranking` are what `pipeline.py` and `Reranker` hold of a query; `Rerank` scores the head
anew (`RerankWithBERT`: passages, aggregation, sort; `RerankWithLtr`: what the index
knows, by score, the rest after it) and merges; `OtherTask` is any other task, which
leaves the ranking alone, replaces it by one that descends, or reads one from a file.

`RankingPipeline` runs one query through the tasks of a configuration: `Parse`;
`EvaluateTerm`, and `StartOperator`, `EvaluateOperator` and `EndOperator`, which let
`PositionalOperator` evaluate the operators on positions from the bottom up;
`StartMatching`, which numbers the operators on scores (`Numbered`), `Match`, a step of
`DocumentAtATime`, and `EndMatching`, which cuts the ranking; `RankDense`, `RankFromFile`,
`WriteRun`, `Rewrite` and `RunReranker`, which is `Rerank` or its failure. What an encoder
or a neural model answers is any of a set of scores.

`Rewrite` is feedback: `Vocabulary` is the terms of the best documents but for those in
too many documents of the index, `FeedbackWeight` weighs them, and `Learned` is the query
of the best. Okapi weighs a term in half of the index or more with zero, so it may learn
nothing from a ranking with a vocabulary: the learned query is then empty, which is no
failure here, and leaves the next ranker without a tree unless the original words are
kept.

Exceptions lead to `Fail`, which ends the batch: a query of stopwords, AND and OR under
BM25 once a document matches, feedback without a vocabulary, a document that is in no
index, a rerank depth of zero, LTR on any query but plain text and one flat SUM or WSUM
(`QueryRefused`, which is `bowQuery`), and an LTR toolkit that answers with another number
of scores than it was asked for (`ScoresMayMismatch`).

What the model makes visible, beyond the finding of section 4:

- `_duplicateQry` compares neither distances nor weights, and a SUM that becomes a WSUM
  is divided by its weights: `Regular` names the queries on which the optimizer keeps
  the ranking, and `RegularRanksAlike` says so of all of them.
- `RerankWithLtr` and `Reranker` read the same parameter with different defaults (100
  and 1000): what LTR leaves unscored keeps retrieval scores, and the ranking it returns
  need not descend.
- An empty ranking is written as one line for `Nonexistent_Docid`, which a later
  pipeline reads back as a document.

Left out: character-level lexing, printing of trees, the features and model files of
LTR, and the weights of RM3 and Okapi beyond their order and Okapi's zeros (those of RM3
are positive, with `prf:rm3:mu` above zero).

## 4. What TLC checks

The runs check no type invariant and no inductive invariant: section 5 proves them.
Every property of a passing run has a mutant in `PROJECT.json`: a plausible bug in the
mapped code (the definitions marked "Deviation") under which TLC finds it violated.

| Run | Instance | Shows |
|---|---|---|
| `service_flow` | three requests, two of one key, both policies, capacity 1, no restart | queue, worker, futures and table agree; who waits rides a flight; a miss stays a miss; nothing is behind the sentinel; refusals are justified; `AnswerService` is implemented; waiters settle, flights land, shutdown completes |
| `service_redeploy` | three requests of one key, two versions, one restart, a crash at any step, each way a write fails | answers paid once over restarts; answers of the deployed corpus |
| `service_api_close` | three requests over two keys, one with a long question, capacity 2; `submit` and `close` without a draining server | what was admitted before `close` is finished and `close` ends, also with a full queue and new submissions |
| `service_timeout_status` | violation | an upstream timeout under the adaptive policy is a 503; `docs/PRODUCTION_SERVICE.md:19` says 504 |
| `service_long_question` | violation | a question of 501 to 1000 characters ends in a 500; `docs/PRODUCTION_SERVICE.md:13` accepts it |
| `service_cost` | violation | the cost counter charges one paid inference once per coalesced waiter |
| `budget_ledger` | two threads, three requests, budgets of two requests and one token, one retry, four calls, one fault | ledger and cache in step; both budgets overrun by no more than one response per further thread, with the responses on their way counted; no cached response bought again; rows stay; calls end |
| `budget_requests` | violation | retries and failed calls are requests the budget never counts; `llm/cached.py:16` says it is raised before a request would exceed it |
| `benchmark_resume` | each kind of agent, two questions, four processes, two crashes or errors anywhere, in the middle of a write too | no settled question is asked again; a crash costs at most two answers, the one whose line it cut and the one glued to it; a report is of one run; recorded failures are retried; resuming leads to a report but from three named states |
| `query_evaluation` | three documents, three terms, about 2000 jobs: queries of every operator over 16 kinds of arguments, nested, malformed and empty ones, three models, feedback, BERT, LTR, dense retrieval and stored runs | matches are sound and complete; lists and rankings are those of the definitions, from the terms up; a cached match is there when it is read; scoring moves no iterator; optimizing a regular query keeps its ranking; reranking loses no document; the ranker moves on until it ends; the operators on positions are `PositionalOperator`'s, the ranker's loop is `DocumentAtATime`'s and the rerankers are `Reranking`'s |
| `query_weights` | violation | a WSUM argument that vanishes with its stopwords leaves its weight behind and documents change their order; `query/QryParser.py:226` says that only degenerate nodes are removed |
| `agent_loop` | three turns of at most two calls, one retry, budgets of two searches, one fusion and no reranking | a closed history; the selected ranking exists and stands; budgets; nodes and provider calls bounded; what is not retried was asked to be answered |

**Bounds.** Three requests over two keys are the least in which one request coalesces,
one is refused and one times out at once; capacity 1 makes the queue full with one item
queued while another is with the worker. One restart suffices for an old row to meet a
new version. In the budget runs two threads are the least that overrun a budget; a
budget of two is reached with both outcomes (by one thread, by both); three keys leave
one to be refused. In the agent's run the budgets are passed within the turns, the
rerank budget is zero as in the BM25 configuration, two calls let one follow
`finish_research`, and the third turn is the one that is cut. `MaxBatch`, `MaxRestarts`,
`MaxCalls`, `MaxFaults`, `MaxStarts` and `MaxFailures` are bounds of the models only;
the proofs hold for every value of them. In a batch, a second question is what a torn
line of the first can take with it; two failures are the least for a line cut by one
process and lost to the next, and four processes leave one to report after both. The
collection has a document with each combination of terms that tells the operators apart,
positions at distance one and two in both orders, and external ids in another order than
internal ones. The index of a job with feedback has 3, 4, 5 or 7 documents, of which
three hold terms, and `MaxDocFreq` is 60 percent: feedback discards every term, Okapi
weighs every term with zero, or some, or none. Every list of positions has at most two
entries, and the proofs of section 5 cover all others. The trees nest AND, OR and both,
three deep, as far as it takes for two ANDs to move iterators in each other's reach.
`benchmark_resume` does not check for deadlock, since a benchmark that is done, or
stuck, stops.

**Fairness.** The event loop runs every ready callback, so the handler's, the worker's
and the lifespan's steps are weakly fair. The executor's steps are weakly fair because a
policy run makes a bounded number of model calls, each with a transport timeout and
bounded retries (`CallsEnd` checks that loop). A thread in `complete` goes on for the
same reason. No fairness is assumed of timeouts, of a shutdown request, of crashes or of
restarts: no waiter needs its deadline to be settled. In a batch, a process that is not
killed goes on, and the operator resumes a benchmark until it has reported; nothing is
assumed of starts without `--resume`. Queries need no fairness: `MatchingMovesOn` bounds
the ranker's loop, and the theorems `SearchesEnd` and `OperatorsMoveOn` those of the
operators. For the agent's loop `Bounded`, an invariant, takes the place of a liveness
property: its nodes and its calls of the provider are bounded, and a tool node works
through a finite list of calls.

## 5. What is proved

For every set of requests, keys, versions and threads, every capacity, budget and number
of turns, and both ways of shutting down. Assumptions are the named ASSUMEs of the
modules.

`InferenceQueueProofs`: the inductive invariant `IndInv` is `FlightsAccounted` (queue,
worker, futures and in-flight table agree), `WaitersRideAFlight`, `InferencePaidOnce`,
`AdmittedMissStaysMiss` and six conjuncts they need. The central one is `MissIsFresh`:
between the two reads of `submit`, a key has a flight or still no row. It holds because
the worker stores a row while its flight is in the table, and takes the flight out in a
step of the loop, which cannot come between the two reads. `RowsHoldTheirAnswer` and
`ResultsAreStored` say that what a future resolved to is committed (`StoredFor`), so a
rollback takes no row from under an answer a client is about to get. From `IndInv`
follow `SingleFlight`, `NoStrandedWaiter`, `PaidOnce`, `MissesStayMisses`, and the
action properties `CurrentAnswers` and `JustifiedRefusals`. `SentinelIsLast` adds
`ClosedBehind`: once the server has ended its requests nothing can follow the sentinel
into the queue, so the worker that takes it leaves the queue empty. The module also
proves `Spec => ImplementsAnswerService`: each action maps to one action of
`AnswerService` or to a stutter.

`CachedBudgetProofs`: `IndInv` is the type invariant, `LedgerMatchesCache`,
`SavedIsSeen` (a committed row is what the connection shows), `RequestsWithinBudget` in
the form that also counts the calls in flight, `TokensWithinBudget` in the same form, and
`ResponsesTraced` (every response bought is held by a caller, cached or lost; whoever
waits for one asked while there was none). From it follow `LedgerAgrees`, `BudgetHolds`,
`TokensHold`, `BoughtOnce` and `CommittedRowsStay`. `TokensHold` is of a sum over the
ledger's rows: a step changes one row (`SumChange`), so a call that is recorded gives
back the response that was set aside for it.

`DataFacts` is what makes that a proof. The sums of the community modules are folds: a
CHOSEN solution of a recursion over the subsets of a set. The module proves that the
recursion has a solution, that it does not depend on the order in which elements are
taken, and what a sum does when one summand changes, by induction over the size of the
set, done by hand as a least counterexample (`EveryNumber`). It
also has the sorts: a sort is a lining up of `1..n` by a strict total order; a place is
the number of those before it, places are distinct, and a pigeonhole argument fills every
one of them (`ArrangeFacts`), so nothing is lost or doubled.

`AgenticRagProofs`: `IndInv` adds to the invariants `Undecided` (while the model works
nothing is selected and no reason to stop is set; at the answer node a ranking is
selected if there is one) and `Paced` (the nodes run and the calls of the provider are
those of the turns so far). It gives `HistoryComplete`, `SelectionIsStored`,
`BudgetsHold`, `CostBounded`, `Settled` and the action property `SelectionHeld`.

`BenchmarkResumeProofs`: `ResumeInv` says where a settled question can be while a process
works: among the records it took over, done already, or at hand with its line just
written. With the fact that no two lines settle one question it is inductive and gives
`CompletedQuestionsStaySettled`. `ReportInv` follows the records on: the batch agrees
with the checkpoint on the questions that are done, the files written so far are the
batch, and files that a later start would accept as complete are of one run by the time
no process works on them (`CompleteIsFinal`). It gives `ReportsAreOfOneRun` and
`ReportedFailuresAreNew`, for any batch without duplicates, each agent, and any number
of processes and crashes. `AnswersSurvive` bounds what crashes cost. Its invariant,
`AnswersAccountedFor`, charges every answer paid for to a line the loader can read, to
the answer in hand, or to a crash, and holds back what a file that ends in the middle of
a line will still lose (`Owed`): the next line glued to it, and the last one too when
only its newline is missing. An append to such a file spends what was held back, an
append to a whole one costs nothing, and a crash inside an append brings in two.

`PositionalProofs`, inside a document: the greedy search is sound and complete for any
number of arguments, any lists and any distance. The invariant is a "greedy stays ahead"
argument stated for the next match: however one more disjoint match than were taken is
chosen, its last one lies at or after every cursor (`NextIsAhead`). A cursor that moves
alone leaves a position which no such match can use (`SkipTermSafe`, `SkipPreviousSafe`,
`WindowSkipSafe`), and a match that is taken makes the family one longer. It gives
`MatchesAreSound`, with the ascending positions that `appendPosting` expects, and
`NoMatchLost`. `SearchesEnd` adds the variant: every pass of the loop makes the sum of
the positions before the cursors smaller.

`PositionalProofs`, over documents: the loops are exact for any number of
arguments, any inverted lists and any distance. `OperatorInv` says for NEAR and WINDOW
where a document can be that all arguments share and that holds a match: in the list
already, or still before every iterator (`MissingIsAhead`); what is in the list is exact
(`JoinListExact`) and lies below all that the first argument has before it
(`ListIsBehind`), which is why appending keeps the list ascending. Without
`MissingIsAhead` the claim is not inductive: the list alone does not say which documents
an iterator may skip. NEAR may skip to a document because the argument that is ahead has
none between, WINDOW because the largest document is where some argument stands. That of
SYN (`SynInv`) is stronger: all that any iterator has passed is in the list, with every
position. `SearchInv` ties a document that is open to the search in it; when the search
ends, the theorems about the search say that its matches are the most there
are, and the sort of WINDOW keeps them (`SortedAlready`: they ascend as they are).
`OperatorIsSafe` is the invariant, `OperatorTyped` and `ListsAreExact` are the properties
TLC checks, `OperatorsSearch` is the refinement `OperatorSpec => MatcherSpec`, and
`OperatorsMoveOn` is the variant: `PostingsLeft` is a natural number that each pass over
documents makes smaller; with `SearchesEnd`, every evaluation ends.

`DocumentAtATimeProofs`: the ranker's loop is exact (`ExactlyTheMatches`) for every
query tree, any lists and each retrieval model. A node's matches are those its definition
gives on what is left of the lists from the iterators on (`Reach`). `RankerInv` says of
them:

- `Fresh`: a cached match is the first that is left. Advancing a subtree clears its
  caches; nodes above it keep theirs, and stay right only because of
- `Kept`: no operator has left a match behind that the one above it still counts on. AND
  advances an argument to a document that another argument has shown to be the earliest
  they can share, so AND itself loses nothing, and nothing above it notices
  (`AdvancedBeside`).
- `Aligned`: where AND has cached a match, its arguments have cached the same, unless it is
  looking for the next one. This is what lets `getScore` of AND read them unasked.
- `FramesHold` and `RepliesHold`: what each method that waits knows of the arguments it has
  asked (`TriesAll`, `TakesMin`, `Scores`), and what a reply means.
- `Found`: the matches of the query are the hits so far and those left, in order.

None of them is inductive alone. The recursive definitions of matches and scores have to
be shown to have solutions first (`MatchesByKind`, `ScoresByKind`), by induction over the
numbers of the nodes (`TreeInduction`), done by hand like `EveryNumber`. The step of each
action is a lemma (`AllRetryKeeps`, ...), and most of them say that a step changes
caches and matches in one subtree only (`Touches`). From `RankerIsSafe` follow
`RankerTyped`, `ExactlyTheMatches`, `ReadWhenCached` and `RankerMovesOn`: the postings
before the iterators are a natural number that never grows, and that each added document
and each new attempt of AND makes smaller.

`ScoringIsStill` takes an invariant of its own, `Quiet`: what has answered would answer
the same again, and move nothing. That is a claim about a subtree and its iterators at
once. It is stated without recursion: an operator is `Settled` when it is in some set
of operators that is closed under asking, where AND asks an argument only if all before
it propose one document, and finds that argument not behind that document
(`Passed`) and on it, or empty. `AllSettled` shows that an AND which answers has made
itself settled, also when it answers no and leaves the rest unasked; `HeldBy`, that asking
it again moves nothing, so that `AllRetry` cannot happen while the ranker scores
(`RetryStaysQuiet`).

`RerankingProofs`: `RerankersKeepTheRanking` is the property TLC checks,
`RerankingKeepsTheRanking`, for every ranking, depth, index, window of passages and
answer of the models. A sort is an arrangement, so no document is lost or doubled
(`ArrangeFacts`). The orders of `Ranking` and of LTR are strict and total
(`SortOrderIsOne`, `LtrOrderIsOne`), what BERT aggregates is a number (`AggregateType`),
and `MergeKeepsTheRanking` puts the lowered rest behind. What must be assumed to get a
descending ranking is in the property: rows below the depth that descend, and a head
that was scored in full (`FullyScored`).

The theorems about operators, the ranker's loop and rerankers hold in `RankingPipeline`
too, which implements `OperatorSpec`, `RankerSpec` and `RerankSpec`
(`PartsKeepTheirSpecs`, checked by TLC), and with the first of them, by
`OperatorsSearch`, `MatcherSpec`.

Only model-checked: all liveness properties (`WaitersSettle`, `FlightsLand`,
`ShutdownCompletes`, `AdmittedWorkIsFinished`, `CallsEnd`, `ResumingReports`), which need
fairness and ENABLED, and what is said of trees that are parsed, optimized and numbered by
recursive operators, in whose modules nothing can be proved (`RegularRanksAlike`,
`TreeIsExact`, `PartsKeepTheirSpecs`).

## 6. Not modelled

- Index access (`core/Idx.py`, `core/PyLu.py`): a wrapper of Lucene; the query modules
  take the index as a constant and model which lookups fail.
- The provider interface and factory, configuration and command line: records,
  validation and construction, without state that changes.
- Experiment protocol, statistics, grounding and load test, and the benchmark's tables:
  arithmetic over finished files.
- Input and output beyond the order of writes and the run file of an empty ranking:
  formats, prompts and timers.
- Neural models, encoders, learned rankers and the features they use: numbers, which the
  models choose freely.
- The mock model server, the legacy rerankers and the inspection scripts: not used by the
  program.
