--------------------------- MODULE AgenticRagProofs ---------------------------
(***************************************************************************)
(* For every number of turns, retries and tool calls, every budget and     *)
(* every behaviour of the model behind the planner: the invariants of the  *)
(* research loop, from the inductive IndInv.                               *)
(***************************************************************************)
EXTENDS AgenticRag, TLAPS

USE TurnAssumption, UseAssumption, BatchAssumption

LEMMA OneTurnMore ==
  ASSUME NEW a \in Nat, NEW t \in Nat, NEW u \in Nat, t < u
  PROVE  a * t \in Nat /\ a * (t + 1) = a * t + a /\ a * t + a <= a * u
<1>1. PICK d \in Nat : u = t + 1 + d
  <2>1. u - t - 1 \in Nat
    OBVIOUS
  <2>. QED BY <2>1
<1>2. a * t \in Nat /\ a * d \in Nat
  OBVIOUS
<1>3. a * (t + 1) = a * t + a
  OBVIOUS
<1>4. a * u = a * t + a + a * d
  BY <1>1
<1>. QED BY <1>2, <1>3, <1>4

LEMMA ProductIsNatural == ASSUME NEW a \in Nat, NEW t \in Nat PROVE a * t \in Nat
OBVIOUS

\* Two nodes a turn.
LEMMA TwoNodesATurn ==
  ASSUME NEW n \in Nat, NEW t \in Nat, NEW u \in Nat, n + 1 <= 2 * t, t <= u
  PROVE  n <= 2 * u
OBVIOUS

\* A response of the model is a sequence of kinds.
LEMMA BatchesAreSequences == Batches \subseteq Seq(Kinds)
BY DEF Batches

\* What the tool node leaves of the calls of a response.
LEMMA TailIsShorter ==
  ASSUME NEW s \in Seq(Kinds), s # << >>
  PROVE  Tail(s) \in Seq(Kinds) /\ Len(Tail(s)) = Len(s) - 1 /\ Len(s) \in Nat
OBVIOUS

\* A forced finish selects the last ranking, if nothing is selected and there is one.
LEMMA Forced ==
  ASSUME selected = 0, NEW n \in Nat, NEW reason \in Stops, ForceFinish(reason, n)
  PROVE  selected' = n /\ stop' = reason
BY DEF ForceFinish

LEMMA InitIndInv == ASSUME Init PROVE IndInv
<1>1. TypeOK
  BY DEF Init, TypeOK, Stops, Budgeted
<1>2. 0 <= (MaxPlannerRetries + 1) * MaxTurns
  OBVIOUS
<1>3. /\ HistoryIsComplete /\ SelectionExists /\ CallsAccounted /\ SettledUnlessRetryable
      /\ Undecided
  BY DEF Init, HistoryIsComplete, SelectionExists, CallsAccounted, SettledUnlessRetryable,
         Undecided, Research, Budgeted
<1>4. Bounded /\ Paced
  BY <1>2 DEF Init, Bounded, Paced
<1>. QED BY <1>1, <1>3, <1>4 DEF IndInv

-------------------------------------------------------------------------------
\* The planner node.

LEMMA RetryStep == ASSUME IndInv, PlannerRetries PROVE IndInv'
<1>1. /\ node = "planner" /\ attempt < MaxPlannerRetries /\ attempt' = attempt + 1
      /\ llmCalls' = llmCalls + 1
      /\ UNCHANGED <<node, todo, turns, selected, stop, answer, rankings, used, toolCalls,
                     toolErrors, exhausted, asked, replied, steps>>
  BY DEF PlannerRetries, budget
<1>2. TypeOK'
  BY <1>1 DEF IndInv, TypeOK
<1>3. /\ HistoryIsComplete' /\ SelectionExists' /\ CallsAccounted'
      /\ SettledUnlessRetryable' /\ Undecided'
  BY <1>1 DEF IndInv, HistoryIsComplete, SelectionExists, CallsAccounted,
              SettledUnlessRetryable, Undecided, Research
<1>4. Paced' /\ Bounded'
  <2>1. /\ llmCalls <= (MaxPlannerRetries + 1) * turns + attempt
        /\ turns < MaxTurns /\ turns \in Nat /\ attempt \in Nat /\ llmCalls \in Nat
        /\ steps <= 2 * turns /\ steps \in Nat
    BY <1>1 DEF IndInv, Paced, TypeOK
  <2>2. /\ (MaxPlannerRetries + 1) * turns \in Nat
        /\ (MaxPlannerRetries + 1) * turns + (MaxPlannerRetries + 1)
             <= (MaxPlannerRetries + 1) * MaxTurns
        /\ (MaxPlannerRetries + 1) * MaxTurns \in Nat
    BY <2>1, OneTurnMore
  <2>. QED BY <1>1, <2>1, <2>2 DEF Paced, Bounded
<1>. QED BY <1>2, <1>3, <1>4 DEF IndInv

LEMMA GiveUpStep == ASSUME IndInv, PlannerGivesUp PROVE IndInv'
<1>1. /\ node = "planner" /\ node' = "answer" /\ TurnsLeft
      /\ llmCalls' = llmCalls + 1 /\ steps' = steps + 1
      /\ ForceFinish("planner_error", rankings)
      /\ UNCHANGED <<attempt, todo, turns, answer, rankings, used, toolCalls, toolErrors,
                     exhausted, asked, replied>>
  BY DEF PlannerGivesUp, budget, IndInv, Paced, TurnsLeft
<1>2. selected' = rankings /\ stop' = "planner_error"
  BY <1>1, Forced DEF IndInv, Undecided, Research, TypeOK, Stops, RetryableStops
<1>3. TypeOK'
  BY <1>1, <1>2 DEF IndInv, TypeOK, Stops, RetryableStops
<1>4. /\ HistoryIsComplete' /\ SelectionExists' /\ CallsAccounted'
      /\ SettledUnlessRetryable' /\ Undecided'
  BY <1>1, <1>2 DEF IndInv, TypeOK, HistoryIsComplete, SelectionExists, CallsAccounted,
              SettledUnlessRetryable, Undecided, Research
<1>5. Paced' /\ Bounded'
  <2>1. /\ llmCalls <= (MaxPlannerRetries + 1) * turns + attempt
        /\ turns < MaxTurns /\ turns \in Nat /\ attempt \in 0..MaxPlannerRetries
        /\ llmCalls \in Nat /\ steps <= 2 * turns /\ steps \in Nat
    BY <1>1 DEF IndInv, Paced, TypeOK
  <2>2. /\ (MaxPlannerRetries + 1) * turns \in Nat
        /\ (MaxPlannerRetries + 1) * turns + (MaxPlannerRetries + 1)
             <= (MaxPlannerRetries + 1) * MaxTurns
        /\ (MaxPlannerRetries + 1) * MaxTurns \in Nat
    BY <2>1, OneTurnMore
  <2>. QED BY <1>1, <2>1, <2>2 DEF Paced, Bounded
<1>. QED BY <1>3, <1>4, <1>5 DEF IndInv

\* What a response does to the turns, the calls of the provider and the nodes.
LEMMA ResponsePaces ==
  ASSUME IndInv, NEW calls \in Batches, Respond(calls)
  PROVE  /\ turns' \in 1..MaxTurns /\ attempt' = 0
         /\ llmCalls' \in Nat /\ llmCalls' <= (MaxPlannerRetries + 1) * turns'
         /\ (MaxPlannerRetries + 1) * turns' <= (MaxPlannerRetries + 1) * MaxTurns
         /\ steps' \in Nat /\ steps' + 1 <= 2 * turns'
         /\ asked' = replied + Len(calls) /\ asked' \in Nat /\ calls \in Seq(Kinds)
<1>1. /\ node = "planner" /\ turns' = turns + 1 /\ attempt' = 0 /\ llmCalls' = llmCalls + 1
      /\ steps' = steps + 1 /\ asked' = asked + Len(calls)
  BY DEF Respond
<1>2. /\ llmCalls <= (MaxPlannerRetries + 1) * turns + attempt
      /\ turns < MaxTurns /\ turns \in Nat /\ attempt \in 0..MaxPlannerRetries
      /\ llmCalls \in Nat /\ steps <= 2 * turns /\ steps \in Nat
  BY <1>1 DEF IndInv, Paced, TypeOK
<1>3. /\ (MaxPlannerRetries + 1) * turns \in Nat
      /\ (MaxPlannerRetries + 1) * (turns + 1)
           = (MaxPlannerRetries + 1) * turns + (MaxPlannerRetries + 1)
      /\ (MaxPlannerRetries + 1) * turns + (MaxPlannerRetries + 1)
           <= (MaxPlannerRetries + 1) * MaxTurns
  BY <1>2, OneTurnMore
<1>4. calls \in Seq(Kinds) /\ Len(calls) \in Nat
  BY BatchesAreSequences
<1>5. asked = replied /\ asked \in Nat
  BY <1>1 DEF IndInv, HistoryIsComplete, TypeOK
<1>. QED BY <1>1, <1>2, <1>3, <1>4, <1>5

LEMMA CallsToolsStep == ASSUME IndInv, PlannerCallsTools PROVE IndInv'
<1>1. PICK calls \in Batches \ {<< >>} :
        Respond(calls) /\ node' = "tools" /\ todo' = calls /\ UNCHANGED <<selected, stop>>
  BY DEF PlannerCallsTools
<1>2. /\ node = "planner"
      /\ UNCHANGED <<answer, rankings, used, toolCalls, toolErrors, exhausted, replied>>
  BY <1>1 DEF Respond, budget
<1>3. /\ turns' \in 1..MaxTurns /\ attempt' = 0
      /\ llmCalls' \in Nat /\ llmCalls' <= (MaxPlannerRetries + 1) * turns'
      /\ (MaxPlannerRetries + 1) * turns' <= (MaxPlannerRetries + 1) * MaxTurns
      /\ steps' \in Nat /\ steps' + 1 <= 2 * turns'
      /\ asked' = replied + Len(calls) /\ asked' \in Nat /\ calls \in Seq(Kinds)
  BY <1>1, ResponsePaces
<1>4. TypeOK'
  BY <1>1, <1>2, <1>3 DEF IndInv, TypeOK
<1>5. /\ HistoryIsComplete' /\ SelectionExists' /\ CallsAccounted'
      /\ SettledUnlessRetryable' /\ Undecided'
  BY <1>1, <1>2, <1>3 DEF IndInv, TypeOK, HistoryIsComplete, SelectionExists, CallsAccounted,
                          SettledUnlessRetryable, Undecided, Research
<1>6. Paced' /\ Bounded'
  <2>0. turns' \in Nat /\ turns' <= MaxTurns /\ MaxPlannerRetries + 1 \in Nat
    BY <1>3
  <2>1. (MaxPlannerRetries + 1) * turns' \in Nat /\ (MaxPlannerRetries + 1) * MaxTurns \in Nat
    BY <2>0, ProductIsNatural
  <2>2. steps' <= 2 * MaxTurns /\ llmCalls' <= (MaxPlannerRetries + 1) * MaxTurns
    <3>1. steps' \in Nat /\ steps' + 1 <= 2 * turns'
      BY <1>3
    <3>2. steps' <= 2 * MaxTurns
      BY <2>0, <3>1, TwoNodesATurn
    <3>3. ASSUME NEW x \in Nat, NEW y \in Nat, llmCalls' <= x, x <= y PROVE llmCalls' <= y
      BY <1>3, <3>3
    <3>. QED BY <1>3, <2>1, <3>2, <3>3
  <2>3. Bounded'
    BY <2>1, <2>2, <1>3 DEF Bounded
  <2>4. Paced'
    BY <1>1, <1>3, <2>2 DEF Paced
  <2>. QED BY <2>3, <2>4
<1>. QED BY <1>4, <1>5, <1>6 DEF IndInv

LEMMA StopsStep == ASSUME IndInv, PlannerStops PROVE IndInv'
<1>. DEFINE reason == IF rankings > 0 THEN "model_finalize" ELSE "model_stop_no_ranking"
<1>1. Respond(<< >>) /\ node' = "answer" /\ ForceFinish(reason, rankings) /\ UNCHANGED todo
  BY DEF PlannerStops
<1>2. /\ node = "planner"
      /\ UNCHANGED <<answer, rankings, used, toolCalls, toolErrors, exhausted, replied>>
  BY <1>1 DEF Respond, budget
<1>3. /\ turns' \in 1..MaxTurns /\ attempt' = 0
      /\ llmCalls' \in Nat /\ llmCalls' <= (MaxPlannerRetries + 1) * turns'
      /\ (MaxPlannerRetries + 1) * turns' <= (MaxPlannerRetries + 1) * MaxTurns
      /\ steps' \in Nat /\ steps' + 1 <= 2 * turns' /\ asked' \in Nat
  <2>1. << >> \in Batches
    <3>1. 0 \in 0..MaxBatch /\ << >> \in [1..0 -> Kinds]
      OBVIOUS
    <3>. QED BY <3>1 DEF Batches
  <2>. QED BY <1>1, <2>1, ResponsePaces
<1>4. selected' = rankings /\ stop' = reason /\ reason \in Stops
  <2>1. reason \in Stops
    BY DEF Stops
  <2>. QED BY <1>1, <1>2, <2>1, Forced DEF IndInv, Undecided, Research, TypeOK
<1>. HIDE DEF reason
<1>5. TypeOK'
  BY <1>1, <1>2, <1>3, <1>4 DEF IndInv, TypeOK
<1>6. /\ HistoryIsComplete' /\ SelectionExists' /\ CallsAccounted'
      /\ SettledUnlessRetryable' /\ Undecided'
  BY <1>1, <1>2, <1>3, <1>4 DEF IndInv, TypeOK, HistoryIsComplete, SelectionExists,
                     CallsAccounted, SettledUnlessRetryable, Undecided, Research
<1>7. Paced' /\ Bounded'
  <2>0. turns' \in Nat /\ turns' <= MaxTurns /\ MaxPlannerRetries + 1 \in Nat
    BY <1>3
  <2>1. (MaxPlannerRetries + 1) * turns' \in Nat /\ (MaxPlannerRetries + 1) * MaxTurns \in Nat
    BY <2>0, ProductIsNatural
  <2>2. steps' <= 2 * MaxTurns /\ llmCalls' <= (MaxPlannerRetries + 1) * MaxTurns
    <3>1. steps' \in Nat /\ steps' + 1 <= 2 * turns'
      BY <1>3
    <3>2. steps' <= 2 * MaxTurns
      BY <2>0, <3>1, TwoNodesATurn
    <3>3. ASSUME NEW x \in Nat, NEW y \in Nat, llmCalls' <= x, x <= y PROVE llmCalls' <= y
      BY <1>3, <3>3
    <3>. QED BY <1>3, <2>1, <3>2, <3>3
  <2>3. Bounded'
    BY <2>1, <2>2, <1>3 DEF Bounded
  <2>4. Paced'
    BY <1>1, <1>3, <2>2 DEF Paced
  <2>. QED BY <2>3, <2>4
<1>. QED BY <1>5, <1>6, <1>7 DEF IndInv

-------------------------------------------------------------------------------
\* The tool node.

\* A call that is taken: what the invariants say of the state it is taken in.
LEMMA TakeFacts ==
  ASSUME IndInv, NEW kind \in Kinds, Take(kind)
  PROVE  /\ node = "tools" /\ todo \in Seq(Kinds) /\ todo # << >>
         /\ asked = replied + Len(todo) /\ selected = 0 /\ stop = "none" /\ answer = "none"
         /\ toolCalls' = toolCalls + 1 /\ toolCalls = rankings + toolErrors + exhausted
         /\ turns \in Nat /\ turns <= MaxTurns /\ steps \in Nat /\ steps + 1 <= 2 * turns
         /\ llmCalls \in Nat /\ llmCalls <= (MaxPlannerRetries + 1) * turns
         /\ UNCHANGED <<attempt, turns, answer, llmCalls, asked>>
BY DEF Take, IndInv, TypeOK, HistoryIsComplete, Undecided, CallsAccounted, Paced, Research

\* The calls of the provider are those of the turns, of which there are no more than
\* MaxTurns.
LEMMA CallsOfTurns ==
  ASSUME NEW t \in Nat, t <= MaxTurns, NEW n \in Nat, n <= (MaxPlannerRetries + 1) * t
  PROVE  n <= (MaxPlannerRetries + 1) * MaxTurns /\ (MaxPlannerRetries + 1) * MaxTurns \in Nat
<1>1. CASE t = MaxTurns
  BY <1>1
<1>2. CASE t # MaxTurns
  <2>1. t < MaxTurns
    BY <1>2
  <2>2. /\ (MaxPlannerRetries + 1) * t \in Nat /\ (MaxPlannerRetries + 1) * MaxTurns \in Nat
        /\ (MaxPlannerRetries + 1) * t + (MaxPlannerRetries + 1)
             <= (MaxPlannerRetries + 1) * MaxTurns
    BY <2>1, OneTurnMore, ProductIsNatural
  <2>. QED BY <2>2
<1>. QED BY <1>1, <1>2, ProductIsNatural

\* A call that did not finish the research, whatever it did to the counters.
LEMMA GoesOn ==
  ASSUME IndInv, NEW kind \in Kinds, Take(kind), Reply, GoOn, rankings' \in Nat
  PROVE  /\ node' \in {"planner", "tools", "answer"} /\ todo' \in Seq(Kinds)
         /\ selected' \in Nat /\ stop' \in Stops /\ steps' \in Nat /\ replied' \in Nat
         /\ HistoryIsComplete' /\ SelectionExists' /\ SettledUnlessRetryable' /\ Undecided'
         /\ Paced' /\ Bounded'
<1>0. /\ node = "tools" /\ todo \in Seq(Kinds) /\ todo # << >>
      /\ asked = replied + Len(todo) /\ selected = 0 /\ stop = "none" /\ answer = "none"
      /\ turns \in Nat /\ turns <= MaxTurns /\ steps \in Nat /\ steps + 1 <= 2 * turns
      /\ llmCalls \in Nat /\ llmCalls <= (MaxPlannerRetries + 1) * turns
      /\ UNCHANGED <<attempt, turns, answer, llmCalls, asked>>
  BY TakeFacts
<1>1. /\ todo' = Tail(todo) /\ todo' \in Seq(Kinds) /\ Len(todo') = Len(todo) - 1
      /\ Len(todo) \in Nat
  BY <1>0, TailIsShorter DEF GoOn
<1>2. replied' = replied + 1 /\ replied \in Nat
  BY DEF Reply, IndInv, TypeOK
<1>3. /\ steps <= 2 * MaxTurns /\ steps + 1 <= 2 * MaxTurns
      /\ llmCalls <= (MaxPlannerRetries + 1) * MaxTurns
      /\ (MaxPlannerRetries + 1) * MaxTurns \in Nat
  BY <1>0, TwoNodesATurn, CallsOfTurns
<1>4. CASE todo' # << >>
  <2>1. UNCHANGED <<node, steps, selected, stop>>
    BY <1>4 DEF GoOn
  <2>2. HistoryIsComplete' /\ SelectionExists' /\ SettledUnlessRetryable' /\ Undecided'
    BY <1>0, <1>1, <1>2, <1>4, <2>1
    DEF HistoryIsComplete, SelectionExists, SettledUnlessRetryable, Undecided, Research
  <2>3. Paced' /\ Bounded'
    BY <1>0, <1>3, <2>1 DEF Paced, Bounded
  <2>. QED BY <1>0, <1>1, <1>2, <2>1, <2>2, <2>3 DEF Stops
<1>5. CASE todo' = << >> /\ turns >= MaxTurns
  <2>1. node' = "answer" /\ steps' = steps + 1 /\ ForceFinish("max_steps", rankings')
    BY <1>5 DEF GoOn
  <2>2. selected' = rankings' /\ stop' = "max_steps"
    BY <1>0, <2>1 DEF ForceFinish
  <2>3. HistoryIsComplete' /\ SelectionExists' /\ SettledUnlessRetryable' /\ Undecided'
    BY <1>0, <2>1, <2>2
    DEF HistoryIsComplete, SelectionExists, SettledUnlessRetryable, Undecided, Research
  <2>4. Paced' /\ Bounded'
    BY <1>0, <1>3, <2>1 DEF Paced, Bounded
  <2>. QED BY <1>0, <1>1, <1>2, <2>1, <2>2, <2>3, <2>4 DEF Stops
<1>6. CASE todo' = << >> /\ ~(turns >= MaxTurns)
  <2>1. node' = "planner" /\ steps' = steps + 1 /\ UNCHANGED <<selected, stop>>
    BY <1>6 DEF GoOn
  <2>2. HistoryIsComplete' /\ SelectionExists' /\ SettledUnlessRetryable' /\ Undecided'
    <3>0. Len(todo') = 0
      BY <1>6
    <3>1. Len(todo) = 1
      BY <1>1, <3>0
    <3>2. asked' = replied'
      BY <1>0, <1>2, <3>1
    <3>. QED
      BY <1>0, <2>1, <3>2
      DEF HistoryIsComplete, SelectionExists, SettledUnlessRetryable, Undecided, Research
  <2>3. attempt' \in Nat /\ turns' < MaxTurns
    BY <1>0, <1>6 DEF IndInv, TypeOK
  <2>4. (MaxPlannerRetries + 1) * turns \in Nat
    BY <1>0, ProductIsNatural
  <2>5. llmCalls' <= (MaxPlannerRetries + 1) * turns' + attempt'
    BY <1>0, <2>3, <2>4
  <2>6. Paced' /\ Bounded'
    BY <1>0, <1>3, <2>1, <2>3, <2>5 DEF Paced, Bounded
  <2>. QED BY <1>0, <1>1, <1>2, <2>1, <2>2, <2>6 DEF Stops
<1>. QED BY <1>4, <1>5, <1>6

\* The types and the account of a call that did not finish the research.
LEMMA GoesOnTypes ==
  ASSUME IndInv, NEW kind \in Kinds, Take(kind), Reply, GoOn,
         rankings' \in Nat, used' \in [Budgeted -> Nat], toolErrors' \in Nat, exhausted' \in Nat
  PROVE  TypeOK'
<1>1. /\ node' \in {"planner", "tools", "answer"} /\ todo' \in Seq(Kinds)
      /\ selected' \in Nat /\ stop' \in Stops /\ steps' \in Nat /\ replied' \in Nat
  BY GoesOn
<1>2. toolCalls' \in Nat /\ UNCHANGED <<attempt, turns, answer, llmCalls, asked>>
  BY TakeFacts DEF IndInv, TypeOK
<1>. QED BY <1>1, <1>2 DEF IndInv, TypeOK

LEMMA ToolStep == ASSUME IndInv, ToolIsExhausted \/ ToolErrs \/ ToolRanks PROVE IndInv'
<1>. USE DEF IndInv
<1>0. Budgeted \subseteq Kinds
  BY DEF Kinds
<1>1. CASE ToolIsExhausted
  <2>1. PICK kind \in Budgeted :
          /\ Take(kind) /\ Reply /\ GoOn /\ exhausted' = exhausted + 1
          /\ UNCHANGED <<rankings, used, toolErrors>>
    BY <1>1 DEF ToolIsExhausted
  <2>2. TypeOK'
    BY <1>0, <2>1, GoesOnTypes DEF TypeOK
  <2>3. CallsAccounted'
    <3>1. toolCalls' = toolCalls + 1 /\ toolCalls = rankings + toolErrors + exhausted
      BY <1>0, <2>1, TakeFacts
    <3>2. /\ toolCalls' = rankings' + toolErrors' + exhausted'
          /\ toolCalls' \in Nat /\ toolErrors' \in Nat /\ exhausted' \in Nat
      BY <2>1, <3>1 DEF TypeOK
    <3>3. toolCalls' - (rankings' + toolErrors' + exhausted') = 0
      BY <2>1, <3>2 DEF TypeOK
    <3>. QED BY <2>1, <3>2, <3>3 DEF CallsAccounted
  <2>. QED BY <1>0, <2>1, <2>2, <2>3, GoesOn DEF TypeOK
<1>2. CASE ToolErrs
  <2>1. PICK kind \in Kinds :
          /\ Take(kind) /\ Reply /\ GoOn /\ toolErrors' = toolErrors + 1
          /\ UNCHANGED <<rankings, used, exhausted>>
    BY <1>2 DEF ToolErrs
  <2>2. TypeOK'
    BY <2>1, GoesOnTypes DEF TypeOK
  <2>3. CallsAccounted'
    <3>1. toolCalls' = toolCalls + 1 /\ toolCalls = rankings + toolErrors + exhausted
      BY <2>1, TakeFacts
    <3>2. /\ toolCalls' = rankings' + toolErrors' + exhausted'
          /\ toolCalls' \in Nat /\ toolErrors' \in Nat /\ exhausted' \in Nat
      BY <2>1, <3>1 DEF TypeOK
    <3>3. toolCalls' - (rankings' + toolErrors' + exhausted') = 0
      BY <2>1, <3>2 DEF TypeOK
    <3>. QED BY <2>1, <3>2, <3>3 DEF CallsAccounted
  <2>. QED BY <2>1, <2>2, <2>3, GoesOn DEF TypeOK
<1>3. CASE ToolRanks
  <2>1. PICK kind \in Budgeted :
          /\ Take(kind) /\ Reply /\ GoOn /\ WithinBudget(kind)
          /\ rankings' = rankings + 1 /\ used' = [used EXCEPT ![kind] = @ + 1]
          /\ UNCHANGED <<toolErrors, exhausted>>
    BY <1>3 DEF ToolRanks
  <2>2. rankings' \in Nat /\ used' \in [Budgeted -> Nat]
    BY <2>1 DEF TypeOK
  <2>3. TypeOK'
    BY <1>0, <2>1, <2>2, GoesOnTypes DEF TypeOK
  <2>4. CallsAccounted'
    <3>1. toolCalls' = toolCalls + 1 /\ toolCalls = rankings + toolErrors + exhausted
      BY <1>0, <2>1, TakeFacts
    <3>2. used[kind] < MaxUse[kind]
      BY <2>1 DEF WithinBudget
    <3>3. \A k \in Budgeted : used'[k] = IF k = kind THEN used[k] + 1 ELSE used[k]
      BY <2>1 DEF TypeOK
    <3>4. \A k \in Budgeted : used'[k] <= MaxUse[k]
      <4>1. \A k \in Budgeted : used[k] \in Nat /\ MaxUse[k] \in Nat /\ used[k] <= MaxUse[k]
        BY DEF CallsAccounted, TypeOK
      <4>. QED BY <3>2, <3>3, <4>1
    <3>5. rankings' = used'["retrieval"] + used'["rerank"] + used'["fusion"]
      <4>1. /\ used["retrieval"] \in Nat /\ used["rerank"] \in Nat /\ used["fusion"] \in Nat
            /\ rankings = used["retrieval"] + used["rerank"] + used["fusion"]
        BY DEF CallsAccounted, TypeOK, Budgeted
      <4>2. CASE kind = "retrieval"
        BY <2>1, <3>3, <4>1, <4>2 DEF Budgeted
      <4>3. CASE kind = "rerank"
        BY <2>1, <3>3, <4>1, <4>3 DEF Budgeted
      <4>4. CASE kind = "fusion"
        BY <2>1, <3>3, <4>1, <4>4 DEF Budgeted
      <4>. QED BY <4>2, <4>3, <4>4 DEF Budgeted
    <3>6. /\ toolCalls' = rankings' + toolErrors' + exhausted' /\ rankings' \in Nat
          /\ toolCalls' \in Nat /\ toolErrors' \in Nat /\ exhausted' \in Nat
      BY <2>1, <3>1 DEF TypeOK
    <3>7. toolCalls' - (rankings' + toolErrors' + exhausted') = 0
      <4>. DEFINE counted == rankings' + toolErrors' + exhausted'
      <4>1. counted \in Nat /\ toolCalls' = counted
        BY <3>6
      <4>. HIDE DEF counted
      <4>2. toolCalls' - counted = 0
        BY <4>1
      <4>. QED BY <4>2 DEF counted
    <3>. QED BY <3>4, <3>5, <3>6, <3>7 DEF CallsAccounted
  <2>. QED BY <1>0, <2>1, <2>2, <2>3, <2>4, GoesOn
<1>. QED BY <1>1, <1>2, <1>3

LEMMA FinishStep == ASSUME IndInv, ToolFinishes PROVE IndInv'
<1>1. /\ Take("finish") /\ Reply /\ selected' \in 1..rankings /\ stop' = "finished"
      /\ todo' = << >> /\ node' = "answer" /\ steps' = steps + 1
      /\ UNCHANGED <<rankings, used, toolErrors, exhausted>>
  BY DEF ToolFinishes
<1>2. "finish" \in Kinds
  BY DEF Kinds
<1>3. /\ toolCalls' = toolCalls + 1 /\ toolCalls = rankings + toolErrors + exhausted
      /\ turns \in Nat /\ turns <= MaxTurns /\ steps \in Nat /\ steps + 1 <= 2 * turns
      /\ llmCalls \in Nat /\ llmCalls <= (MaxPlannerRetries + 1) * turns /\ answer = "none"
      /\ UNCHANGED <<attempt, turns, answer, llmCalls, asked>>
  BY <1>1, <1>2, TakeFacts
<1>4. TypeOK'
  BY <1>1, <1>3 DEF IndInv, TypeOK, Reply, Stops
<1>5. HistoryIsComplete' /\ SelectionExists' /\ SettledUnlessRetryable' /\ Undecided'
  BY <1>1, <1>3 DEF IndInv, TypeOK, HistoryIsComplete, SelectionExists,
                    SettledUnlessRetryable, Undecided, Research
<1>6. CallsAccounted'
  <2>1. /\ rankings \in Nat /\ toolErrors \in Nat /\ exhausted \in Nat
        /\ toolCalls' - (rankings + toolErrors + exhausted) = 1
    BY <1>3 DEF IndInv, TypeOK
  <2>. QED BY <1>1, <2>1 DEF IndInv, CallsAccounted, Research
<1>7. Paced' /\ Bounded'
  <2>1. /\ steps + 1 <= 2 * MaxTurns /\ llmCalls <= (MaxPlannerRetries + 1) * MaxTurns
        /\ (MaxPlannerRetries + 1) * MaxTurns \in Nat
    <3>1. steps + 1 <= 2 * MaxTurns
      BY <1>3
    <3>. QED BY <1>3, <3>1, CallsOfTurns
  <2>. QED BY <1>1, <1>3, <2>1 DEF Paced, Bounded
<1>. QED BY <1>4, <1>5, <1>6, <1>7 DEF IndInv

-------------------------------------------------------------------------------
\* The answer node, and an exception.

LEMMA AnswerStep == ASSUME IndInv, AnswerNode PROVE IndInv'
<1>1. /\ node = "answer" /\ node' = "end" /\ steps' = steps + 1
      /\ UNCHANGED <<attempt, todo, turns, selected, rankings, used, toolCalls, toolErrors,
                     exhausted, asked, replied>>
  BY DEF AnswerNode, AnswerWithoutRanking, Answer, AnswerFails, End, budget
<1>2. /\ llmCalls' \in {llmCalls, llmCalls + 1} /\ answer' \in {"none", "text", "blank"}
      /\ stop' \in {stop, "answer_error"}
      /\ stop' = "answer_error" \/ answer' # "none" \/ selected = 0
      /\ answer' # "none" => selected # 0
  BY <1>1 DEF AnswerNode, AnswerWithoutRanking, Answer, AnswerFails, IndInv, Undecided
<1>3. TypeOK'
  BY <1>1, <1>2 DEF IndInv, TypeOK, Stops, RetryableStops
<1>4. /\ HistoryIsComplete' /\ SelectionExists' /\ CallsAccounted' /\ Undecided'
      /\ SettledUnlessRetryable'
  <2>1. selected # 0 \/ rankings = 0
    BY <1>1 DEF IndInv, Undecided
  <2>. QED BY <1>1, <1>2, <2>1 DEF IndInv, HistoryIsComplete, SelectionExists, CallsAccounted,
              Undecided, SettledUnlessRetryable, Research, RetryableStops
<1>5. Paced' /\ Bounded'
  <2>1. /\ steps <= 2 * MaxTurns /\ llmCalls <= (MaxPlannerRetries + 1) * MaxTurns
        /\ steps \in Nat /\ llmCalls \in Nat
    BY <1>1 DEF IndInv, Paced, TypeOK
  <2>2. (MaxPlannerRetries + 1) * MaxTurns \in Nat
    BY ProductIsNatural
  <2>. QED BY <1>1, <1>2, <2>1, <2>2 DEF Paced, Bounded
<1>. QED BY <1>3, <1>4, <1>5 DEF IndInv

LEMMA RaiseStep == ASSUME IndInv, Raises PROVE IndInv'
BY DEF Raises, budget, IndInv, TypeOK, HistoryIsComplete, SelectionExists, CallsAccounted,
       Bounded, SettledUnlessRetryable, Undecided, Paced, Research

LEMMA StutterStep == ASSUME IndInv, UNCHANGED vars PROVE IndInv'
BY DEF vars, budget, IndInv, TypeOK, HistoryIsComplete, SelectionExists, CallsAccounted,
       Bounded, SettledUnlessRetryable, Undecided, Paced, Research

-------------------------------------------------------------------------------
\* The invariants of the loop and what makes them inductive hold in every state.
THEOREM Inductive == Spec => []IndInv
<1>1. ASSUME IndInv, [Next]_vars PROVE IndInv'
  BY <1>1, RetryStep, GiveUpStep, CallsToolsStep, StopsStep, ToolStep, FinishStep, AnswerStep,
     RaiseStep, StutterStep
  DEF Next, PlannerNode, ToolNode, Over
<1>. QED BY <1>1, InitIndInv, PTL DEF Spec

\* Type correctness.
THEOREM TypeCorrect == Spec => []TypeOK
<1>1. IndInv => TypeOK
  BY DEF IndInv
<1>. QED BY <1>1, Inductive, PTL

\* The model is never asked with a tool call of its own left open.
THEOREM HistoryComplete == Spec => []HistoryIsComplete
<1>1. IndInv => HistoryIsComplete
  BY DEF IndInv
<1>. QED BY <1>1, Inductive, PTL

\* The answer node only meets rankings that were stored.
THEOREM SelectionIsStored == Spec => []SelectionExists
<1>1. IndInv => SelectionExists
  BY DEF IndInv
<1>. QED BY <1>1, Inductive, PTL

\* Every call of a tool is accounted for, and no budget is passed.
THEOREM BudgetsHold == Spec => []CallsAccounted
<1>1. IndInv => CallsAccounted
  BY DEF IndInv
<1>. QED BY <1>1, Inductive, PTL

\* The cost of a question is bounded by the turns and the retries.
THEOREM CostBounded == Spec => []Bounded
<1>1. IndInv => Bounded
  BY DEF IndInv
<1>. QED BY <1>1, Inductive, PTL

\* What is not taken up again was asked to be answered, or had no ranking.
THEOREM Settled == Spec => []SettledUnlessRetryable
<1>1. IndInv => SettledUnlessRetryable
  BY DEF IndInv
<1>. QED BY <1>1, Inductive, PTL

\* No step replaces a selected ranking, and only the failure of the answer a reason to
\* stop: a step of the research finds neither.
THEOREM SelectionHeld == Spec => SelectionStands
<1>. DEFINE Stands == /\ selected # 0 => selected' = selected
                      /\ stop # "none" => stop' \in {stop, "answer_error"}
<1>1. ASSUME IndInv, [Next]_vars PROVE Stands
  <2>1. CASE PlannerNode \/ ToolNode
    <3>1. Research
      BY <2>1
      DEF PlannerNode, PlannerRetries, PlannerGivesUp, PlannerCallsTools,
          PlannerStops, Respond, ToolNode, ToolIsExhausted, ToolErrs, ToolRanks, ToolFinishes,
          Take, Research
    <3>. QED BY <1>1, <3>1 DEF IndInv, Undecided
  <2>2. CASE AnswerNode
    BY <2>2 DEF AnswerNode, AnswerWithoutRanking, Answer, AnswerFails, End
  <2>3. CASE Raises \/ UNCHANGED vars
    BY <2>3 DEF Raises, vars
  <2>. QED BY <1>1, <2>1, <2>2, <2>3 DEF Next, Over
<1>2. ASSUME IndInv, [Next]_vars PROVE [Stands]_vars
  BY <1>1, <1>2
<1>. QED BY <1>2, Inductive, PTL DEF Spec, SelectionStands
===============================================================================
