------------------------------ MODULE AgenticRag ------------------------------
(***************************************************************************)
(* The bounded research loop of AgenticRagAgent (agentic/runtime.py,       *)
(* agentic/tools.py) on one question: a LangGraph graph of a planner, a    *)
(* tool and an answer node.                                                *)
(*                                                                         *)
(* The model behind the planner may answer with any calls of any tools,    *)
(* known or not, with arguments that are valid or not; the provider and    *)
(* the tools may fail.  A call is its kind: which budget it draws on.      *)
(* Rankings are numbered in the order they were stored ("r1", "r2", ...).  *)
(***************************************************************************)
EXTENDS Integers, Sequences

CONSTANTS
  MaxTurns,           \* agent:maxTurns
  MaxPlannerRetries,  \* agent:maxPlannerRetries
  MaxUse,             \* agent:maxRetrievalCalls, maxRerankCalls, maxFusionCalls
  MaxBatch            \* bound: tool calls of one planner response

Budgeted == {"retrieval", "rerank", "fusion"}

ASSUME TurnAssumption == MaxTurns \in Nat \ {0} /\ MaxPlannerRetries \in Nat
ASSUME UseAssumption == MaxUse \in [Budgeted -> Nat] /\ MaxUse["retrieval"] > 0
ASSUME BatchAssumption == MaxBatch \in Nat

VARIABLES
  node,       \* the node that runs, or "end", or "aborted" by another exception
  attempt,    \* attempt of _complete_planner_with_retry
  todo,       \* tool calls of the last response that have not been answered
  turns,      \* planner responses
  rankings,   \* how many rankings are stored
  selected,   \* selected_ranking_id; 0 is None
  stop,       \* stop_reason; "none" is None
  answer,     \* "none", or what generate gave: "text", or "blank" once normalised
  used,       \* retrieval_calls, rerank_calls, fusion_calls
  toolCalls, toolErrors, exhausted,  \* tool_calls, tool_errors, budget_exhaustions
  llmCalls,   \* llm_calls
  asked,      \* tool calls in the assistant messages
  replied,    \* tool messages
  steps       \* history: nodes the graph has run

budget == <<rankings, used, toolCalls, toolErrors, exhausted>>
vars == <<node, attempt, todo, turns, selected, stop, answer, budget, llmCalls, asked,
          replied, steps>>

-------------------------------------------------------------------------------
\* A search, a reranking or a fusion; finish_research; a tool not allowed.
Kinds == Budgeted \cup {"finish", "other"}

Batches == UNION {[1..n -> Kinds] : n \in 0..MaxBatch}
RetryableStops == {"planner_error", "answer_error"}
Stops == {"none", "finished", "max_steps", "model_finalize", "model_stop_no_ranking"}
           \cup RetryableStops

Init ==
  /\ node = "planner"
  /\ attempt = 0
  /\ todo = << >>
  /\ turns = 0
  /\ rankings = 0
  /\ selected = 0
  /\ stop = "none"
  /\ answer = "none"
  /\ used = [kind \in Budgeted |-> 0]
  /\ toolCalls = 0 /\ toolErrors = 0 /\ exhausted = 0
  /\ llmCalls = 0
  /\ asked = 0 /\ replied = 0
  /\ steps = 0

\* _force_finish, with the rankings there are by then: the last one is taken.
\* (Deviation: the one after it.)
ForceFinishPastEnd(reason, available) ==
  /\ selected' = IF selected = 0 THEN available + 1 ELSE selected
  /\ stop' = reason
ForceFinish(reason, available) ==
  /\ selected' = IF selected = 0 THEN available ELSE selected
  /\ stop' = reason

-------------------------------------------------------------------------------
\* The planner node.

TurnsLeft == turns < MaxTurns

\* LLMProviderError, and an attempt is left.
PlannerRetries ==
  /\ node = "planner" /\ TurnsLeft
  /\ attempt < MaxPlannerRetries
  /\ attempt' = attempt + 1
  /\ llmCalls' = llmCalls + 1
  /\ UNCHANGED <<node, todo, turns, selected, stop, answer, budget, asked, replied, steps>>

\* No turn left (the tool node looks first); LLMProviderError on the last attempt; or
\* a provider without tools (NotImplementedError).  The answer node still runs.
PlannerGivesUp ==
  /\ node = "planner"
  /\ TurnsLeft => attempt \in {0, MaxPlannerRetries}
  /\ llmCalls' = IF TurnsLeft THEN llmCalls + 1 ELSE llmCalls
  /\ ForceFinish(IF TurnsLeft THEN "planner_error" ELSE "max_steps", rankings)
  /\ node' = "answer"
  /\ steps' = steps + 1
  /\ UNCHANGED <<attempt, todo, turns, answer, budget, asked, replied>>

Respond(calls) ==
  /\ node = "planner" /\ TurnsLeft
  /\ llmCalls' = llmCalls + 1
  /\ attempt' = 0
  /\ turns' = turns + 1
  /\ asked' = asked + Len(calls)
  /\ steps' = steps + 1
  /\ UNCHANGED <<answer, budget, replied>>

PlannerCallsTools ==
  \E calls \in Batches \ {<< >>} :
    /\ Respond(calls)
    /\ node' = "tools"
    /\ todo' = calls
    /\ UNCHANGED <<selected, stop>>

\* No tool call: the model is done.
PlannerStops ==
  /\ Respond(<< >>)
  /\ node' = "answer"
  /\ ForceFinish(IF rankings > 0 THEN "model_finalize" ELSE "model_stop_no_ranking", rankings)
  /\ UNCHANGED todo

-------------------------------------------------------------------------------
\* The tool node: the calls of the response in order, one iteration each.

Take(kind) ==
  /\ node = "tools"
  /\ Head(todo) = kind
  /\ toolCalls' = toolCalls + 1
  /\ UNCHANGED <<attempt, turns, answer, llmCalls, asked>>

\* The tool message of the call.
Reply == replied' = replied + 1

\* After a call that did not finish the research: the next one; or the end of the
\* node, and of the research if the turns are used up, and then the next turn.
\* (Deviation: the turns are looked at by the planner alone.)
GoOnRegardless ==
  /\ todo' = Tail(todo)
  /\ IF todo' # << >> THEN UNCHANGED <<node, steps>>
     ELSE node' = "planner" /\ steps' = steps + 1
  /\ UNCHANGED <<selected, stop>>

GoOn ==
  /\ todo' = Tail(todo)
  /\ IF todo' # << >> THEN UNCHANGED <<node, steps, selected, stop>>
     ELSE /\ steps' = steps + 1
          /\ IF turns >= MaxTurns
               THEN node' = "answer" /\ ForceFinish("max_steps", rankings')
               ELSE node' = "planner" /\ UNCHANGED <<selected, stop>>

WithinBudget(kind) == kind \in Budgeted => used[kind] < MaxUse[kind]

\* ToolBudgetExceeded.  (Deviation: no message says so to the model.)
ToolIsExhaustedSilently ==
  \E kind \in Budgeted :
    /\ Take(kind)
    /\ ~WithinBudget(kind)
    /\ exhausted' = exhausted + 1
    /\ UNCHANGED <<rankings, used, toolErrors, replied>>
    /\ GoOn

ToolIsExhausted ==
  \E kind \in Budgeted :
    /\ Take(kind) /\ Reply
    /\ ~WithinBudget(kind)
    /\ exhausted' = exhausted + 1
    /\ UNCHANGED <<rankings, used, toolErrors>>
    /\ GoOn

\* ValueError or ValidationError: a tool that is not allowed, malformed arguments, a
\* ranking that does not exist.
ToolErrs ==
  \E kind \in Kinds :
    /\ Take(kind) /\ Reply
    /\ WithinBudget(kind)
    /\ toolErrors' = toolErrors + 1
    /\ UNCHANGED <<rankings, used, exhausted>>
    /\ GoOn

\* A ranking is stored, and the call is counted.  (Deviation: the count is forgotten.)
ToolRanksUncounted ==
  \E kind \in Budgeted :
    /\ Take(kind) /\ Reply
    /\ WithinBudget(kind)
    /\ kind # "retrieval" => rankings > 0
    /\ rankings' = rankings + 1
    /\ GoOn
    /\ UNCHANGED <<used, toolErrors, exhausted>>

ToolRanks ==
  \E kind \in Budgeted :
    /\ Take(kind) /\ Reply
    /\ WithinBudget(kind)
    /\ kind # "retrieval" => rankings > 0
    /\ rankings' = rankings + 1
    /\ used' = [used EXCEPT ![kind] = @ + 1]
    /\ GoOn
    /\ UNCHANGED <<toolErrors, exhausted>>

\* finish_research on a ranking that exists; what is left of the response is dropped.
\* (Deviation: the other calls go on, and a later one may finish again.)
ToolFinishesAndGoesOn ==
  /\ Take("finish") /\ Reply
  /\ selected' \in 1..rankings
  /\ stop' = "finished"
  /\ todo' = Tail(todo)
  /\ IF todo' # << >> THEN UNCHANGED <<node, steps>>
     ELSE node' = "answer" /\ steps' = steps + 1
  /\ UNCHANGED <<rankings, used, toolErrors, exhausted>>

ToolFinishes ==
  /\ Take("finish") /\ Reply
  /\ selected' \in 1..rankings
  /\ stop' = "finished"
  /\ todo' = << >>
  /\ node' = "answer"
  /\ steps' = steps + 1
  /\ UNCHANGED <<rankings, used, toolErrors, exhausted>>

-------------------------------------------------------------------------------
\* The answer node.

End ==
  /\ node = "answer"
  /\ node' = "end"
  /\ steps' = steps + 1
  /\ UNCHANGED <<attempt, todo, turns, selected, budget, asked, replied>>

AnswerWithoutRanking == selected = 0 /\ End /\ UNCHANGED <<stop, answer, llmCalls>>

Answer ==
  /\ selected # 0
  /\ End
  /\ answer' \in {"text", "blank"}
  /\ llmCalls' = llmCalls + 1
  /\ UNCHANGED stop

\* LLMProviderError, an empty response included.  (Deviation: the stop reason stays.)
AnswerFailsSilently ==
  selected # 0 /\ End /\ UNCHANGED <<stop, answer, llmCalls>>
AnswerFails ==
  selected # 0 /\ End /\ stop' = "answer_error" /\ UNCHANGED <<answer, llmCalls>>

-------------------------------------------------------------------------------
\* Any other exception, of the index, a model or the database, ends the batch.
Raises ==
  /\ node \in {"planner", "tools", "answer"}
  /\ node' = "aborted"
  /\ UNCHANGED <<attempt, todo, turns, selected, stop, answer, budget, llmCalls, asked,
                 replied, steps>>

PlannerNode == PlannerRetries \/ PlannerGivesUp \/ PlannerCallsTools \/ PlannerStops
ToolNode == ToolIsExhausted \/ ToolErrs \/ ToolRanks \/ ToolFinishes
AnswerNode == AnswerWithoutRanking \/ Answer \/ AnswerFails
Over == node \in {"end", "aborted"} /\ UNCHANGED vars

Next == PlannerNode \/ ToolNode \/ AnswerNode \/ Raises \/ Over

Spec == Init /\ [][Next]_vars

-------------------------------------------------------------------------------
Research == node \in {"planner", "tools"}

TypeOK ==
  /\ node \in {"planner", "tools", "answer", "end", "aborted"}
  /\ attempt \in 0..MaxPlannerRetries
  /\ todo \in Seq(Kinds)
  /\ turns \in 0..MaxTurns
  /\ rankings \in Nat /\ selected \in Nat
  /\ stop \in Stops
  /\ answer \in {"none", "text", "blank"}
  /\ used \in [Budgeted -> Nat]
  /\ toolCalls \in Nat /\ toolErrors \in Nat /\ exhausted \in Nat
  /\ llmCalls \in Nat /\ asked \in Nat /\ replied \in Nat /\ steps \in Nat

\* Every tool call the model made has its tool message before the model is asked
\* again, whatever failed: the chat protocol refuses a history with an open call.
HistoryIsComplete ==
  /\ node = "planner" => asked = replied
  /\ node = "tools" => asked = replied + Len(todo) /\ todo # << >>

\* The answer node never meets a ranking id that was not stored: context_for, outside
\* any handler of errors, would end the whole batch.
SelectionExists == selected <= rankings /\ (answer # "none" => selected # 0)

\* Each call that was taken is a ranking, an error, a refusal or the one finish; each
\* ranking was charged to a budget, and no budget is passed.
CallsAccounted ==
  /\ rankings = used["retrieval"] + used["rerank"] + used["fusion"]
  /\ \A kind \in Budgeted : used[kind] <= MaxUse[kind]
  /\ toolCalls - (rankings + toolErrors + exhausted) \in {0, 1}
  /\ Research => toolCalls = rankings + toolErrors + exhausted

\* Whatever the model asks for and whatever fails, a question costs at most two nodes
\* per turn and the answer, and so many calls of the provider: the loop ends.
Bounded ==
  /\ steps <= 2 * MaxTurns + 1
  /\ llmCalls <= (MaxPlannerRetries + 1) * MaxTurns + 1

\* A question that a resumed run will not take up again was asked to be answered, or
\* never had a ranking.
SettledUnlessRetryable ==
  node = "end" /\ stop \notin RetryableStops => answer # "none" \/ rankings = 0

\* What the invariants need to be inductive: while the model still works, nothing is
\* selected and no reason to stop is set; at the answer node nothing is answered, and a
\* ranking is selected if there is one; the nodes and the calls of the provider are
\* those of the turns.
Undecided ==
  /\ Research => selected = 0 /\ stop = "none"
  /\ node \in {"planner", "tools", "answer"} => answer = "none"
  /\ node = "answer" => selected # 0 \/ rankings = 0

Paced ==
  LET attempts == MaxPlannerRetries + 1 IN
  /\ node = "planner" =>
       turns < MaxTurns /\ steps <= 2 * turns /\ llmCalls <= attempts * turns + attempt
  /\ node = "tools" => steps + 1 <= 2 * turns /\ llmCalls <= attempts * turns
  /\ node = "answer" => steps <= 2 * MaxTurns /\ llmCalls <= attempts * MaxTurns

IndInv ==
  /\ TypeOK /\ HistoryIsComplete /\ SelectionExists /\ CallsAccounted /\ Bounded
  /\ SettledUnlessRetryable /\ Undecided /\ Paced

\* Once a ranking is selected no later call, turn or failure replaces it, and a
\* reason to stop is replaced only by the failure of the answer itself.
SelectionStands ==
  [][/\ selected # 0 => selected' = selected
     /\ stop # "none" => stop' \in {stop, "answer_error"}]_vars
===============================================================================
