----------------------------- MODULE CachedBudget -----------------------------
(***************************************************************************)
(* CachedBudgetProvider (llm/cached.py) around the retrying HTTP client    *)
(* (llm/openai_compatible.py): a content-addressed cache of model          *)
(* responses and the ledger of a run, both in one SQLite file.             *)
(*                                                                         *)
(* Threads share the provider and its connection.  The lock covers the     *)
(* look at the cache and the budget, and again the recording; it is free   *)
(* while the request is out.  What was inserted but not committed is seen  *)
(* through the connection and lost when the process dies.                  *)
(***************************************************************************)
EXTENDS Integers, FiniteSets, Functions

CONSTANTS
  Callers,      \* threads that share the provider
  Keys,         \* distinct requests of one namespace
  MaxRequests,  \* rag:budgetMaxRequests
  MaxTokens,    \* rag:budgetMaxTokens
  MaxRetries,   \* rag:maxRetries
  MaxUsage,     \* the most tokens one response may report
  MaxCalls,     \* bound: requests that go out to the model, over all processes
  MaxFaults,    \* bound: crashes and refused writes
  None

ASSUME BudgetAssumption == MaxRequests \in Nat \ {0} /\ MaxTokens \in Nat \ {0}
ASSUME RetryAssumption == MaxRetries \in Nat /\ MaxUsage \in Nat
ASSUME CallerAssumption == IsFiniteSet(Callers) /\ Callers # {} /\ IsFiniteSet(Keys)
ASSUME BoundAssumption == MaxCalls \in Nat /\ MaxFaults \in Nat /\ None \notin Keys

VARIABLES
  call,    \* the call each caller is in
  cache,   \* table llm_cache, seen through the connection
  ledger,  \* table budget_events, seen through the connection
  saved,   \* the committed rows of both tables
  sent,    \* history: HTTP requests sent
  bought,  \* history: usable responses received, of each key
  lost,    \* history: those of which a fault left nothing in the cache
  calls, faults

vars == <<call, cache, ledger, saved, sent, bought, lost, calls, faults>>

-------------------------------------------------------------------------------
Calls ==
  [stage : {"idle", "posting", "recording"}, key : Keys \cup {None},
   attempt : 0..MaxRetries, tokens : 0..MaxUsage]
Idle == [stage |-> "idle", key |-> None, attempt |-> 0, tokens |-> 0]
Posting(k, n) == [stage |-> "posting", key |-> k, attempt |-> n, tokens |-> 0]
Received(k, t) == [stage |-> "recording", key |-> k, attempt |-> 0, tokens |-> t]

Rows == [kind : {"absent", "response", "corrupt"}, tokens : 0..MaxUsage]
Absent == [kind |-> "absent", tokens |-> 0]
Response(t) == [kind |-> "response", tokens |-> t]

\* budget_snapshot.
Recorded == {k \in Keys : ledger[k] # Absent}
Requests == Cardinality(Recorded)
Tokens == SumFunction([k \in Keys |-> ledger[k].tokens])

\* INSERT OR IGNORE.  (Deviation: OR REPLACE.)
InsertOrReplace(table, k, row) == [table EXCEPT ![k] = row]
Insert(table, k, row) == IF table[k] = Absent THEN [table EXCEPT ![k] = row] ELSE table

Init ==
  /\ call = [c \in Callers |-> Idle]
  /\ \E corrupt \in SUBSET Keys :
       /\ Cardinality(corrupt) < MaxRequests
       /\ cache = [k \in Keys |-> IF k \in corrupt THEN [kind |-> "corrupt", tokens |-> 0]
                                                   ELSE Absent]
       /\ ledger = [k \in Keys |-> IF k \in corrupt THEN Response(0) ELSE Absent]
  /\ saved = [cache |-> cache, ledger |-> ledger]
  /\ sent = 0
  /\ bought = [k \in Keys |-> 0]
  /\ lost = [k \in Keys |-> 0]
  /\ calls = 0 /\ faults = 0

-------------------------------------------------------------------------------
\* complete(), its first critical section: neither a cached response, nor the error
\* of a corrupt row, nor BudgetExceeded ends the call there, so the request goes out.
\* (Deviations: the cache is not looked at; one request too many is let through; the
\* token budget is forgotten.)
GoesOut(c, k) ==
  /\ call[c] = Idle
  /\ calls < MaxCalls
  /\ calls' = calls + 1
  /\ call' = [call EXCEPT ![c] = Posting(k, 0)]
  /\ UNCHANGED <<cache, ledger, saved, sent, bought, lost, faults>>

CallUncached(c, k) == Requests < MaxRequests /\ Tokens < MaxTokens /\ GoesOut(c, k)
CallOneTooMany(c, k) ==
  cache[k] = Absent /\ Requests <= MaxRequests /\ Tokens < MaxTokens /\ GoesOut(c, k)
CallAnyTokens(c, k) == cache[k] = Absent /\ Requests < MaxRequests /\ GoesOut(c, k)
Call(c, k) ==
  cache[k] = Absent /\ Requests < MaxRequests /\ Tokens < MaxTokens /\ GoesOut(c, k)

-------------------------------------------------------------------------------
\* One HTTP request of _post.

PostSucceeds(c) ==
  /\ call[c].stage = "posting"
  /\ sent' = sent + 1
  /\ \E t \in 0..MaxUsage : call' = [call EXCEPT ![c] = Received(call[c].key, t)]
  /\ bought' = [bought EXCEPT ![call[c].key] = @ + 1]
  /\ UNCHANGED <<cache, ledger, saved, lost, calls, faults>>

\* A transient status, or no answer in time: sleep and try again.
\* (Deviation: the attempts start over.)
RetryForever(c) ==
  /\ call[c].stage = "posting"
  /\ call' = [call EXCEPT ![c].attempt = (@ + 1) % (MaxRetries + 1)]
  /\ UNCHANGED <<cache, ledger, saved, sent, bought, lost, calls, faults>>

PostRetries(c) ==
  /\ call[c].stage = "posting"
  /\ call[c].attempt < MaxRetries
  /\ sent' = sent + 1
  /\ call' = [call EXCEPT ![c].attempt = @ + 1]
  /\ UNCHANGED <<cache, ledger, saved, bought, lost, calls, faults>>

\* The last attempt failed, the status is final, or the response is not a usable
\* chat completion: LLMProviderError, and nothing is recorded.
PostFails(c) ==
  /\ call[c].stage = "posting"
  /\ sent' = sent + 1
  /\ call' = [call EXCEPT ![c] = Idle]
  /\ UNCHANGED <<cache, ledger, saved, bought, lost, calls, faults>>

-------------------------------------------------------------------------------
\* complete(), its second critical section: both rows in one transaction.

InsertBoth(c) ==
  /\ cache' = Insert(cache, call[c].key, Response(call[c].tokens))
  /\ ledger' = Insert(ledger, call[c].key, Response(call[c].tokens))

\* (Deviation: the ledger row is inserted after the commit.)
RecordUncommitted(c) ==
  /\ call[c].stage = "recording"
  /\ InsertBoth(c)
  /\ saved' = [cache |-> cache', ledger |-> ledger]
  /\ call' = [call EXCEPT ![c] = Idle]
  /\ UNCHANGED <<sent, bought, lost, calls, faults>>

Record(c) ==
  /\ call[c].stage = "recording"
  /\ InsertBoth(c)
  /\ saved' = [cache |-> cache', ledger |-> ledger']
  /\ call' = [call EXCEPT ![c] = Idle]
  /\ UNCHANGED <<sent, bought, lost, calls, faults>>

\* What is left of the responses bought, when the tables return to their committed
\* rows and only the callers still recording keep theirs.
Revert(recording) ==
  /\ cache' = saved.cache
  /\ ledger' = saved.ledger
  /\ lost' = [k \in Keys |->
                IF saved.cache[k] # Absent THEN lost[k]
                ELSE bought[k] - Cardinality({c \in recording : call[c].key = k})]

Recording == {c \in Callers : call[c].stage = "recording"}

\* sqlite3.OperationalError, with no rollback in the code.  The first INSERT is refused;
\* or the second, and SQLite undoes that statement alone; or the commit.  What was
\* inserted stays in the open transaction, to be committed by a later call, unless
\* SQLite rolled all of it back.
RecordFails(c) ==
  /\ call[c].stage = "recording"
  /\ faults < MaxFaults
  /\ faults' = faults + 1
  /\ call' = [call EXCEPT ![c] = Idle]
  /\ \/ /\ UNCHANGED <<cache, ledger>>
        /\ lost' = IF cache[call[c].key] = Absent
                     THEN [lost EXCEPT ![call[c].key] = @ + 1] ELSE lost
     \/ /\ cache' = Insert(cache, call[c].key, Response(call[c].tokens))
        /\ UNCHANGED <<ledger, lost>>
     \/ InsertBoth(c) /\ UNCHANGED lost
     \/ Revert(Recording \ {c})
  /\ UNCHANGED <<saved, sent, bought, calls>>

\* The process dies and another one opens the file.
Crash ==
  /\ faults < MaxFaults
  /\ faults' = faults + 1
  /\ call' = [c \in Callers |-> Idle]
  /\ Revert({})
  /\ UNCHANGED <<saved, sent, bought, calls>>

-------------------------------------------------------------------------------
Goes(c) == PostSucceeds(c) \/ PostRetries(c) \/ PostFails(c) \/ Record(c) \/ RecordFails(c)

\* Every call from here on is answered from the tables, or refused.
Stopped ==
  /\ \A c \in Callers : call[c] = Idle
  /\ \/ calls = MaxCalls \/ Requests >= MaxRequests \/ Tokens >= MaxTokens
     \/ \A k \in Keys : cache[k] # Absent
  /\ UNCHANGED vars

Next ==
  \/ \E c \in Callers : Goes(c) \/ \E k \in Keys : Call(c, k)
  \/ Crash
  \/ Stopped

Spec == Init /\ [][Next]_vars

\* A thread that is in a call goes on: every attempt has a transport timeout.
FairSpec == Spec /\ \A c \in Callers : WF_vars(Goes(c))

-------------------------------------------------------------------------------
TypeOK ==
  /\ call \in [Callers -> Calls]
  /\ \A c \in Callers : call[c].stage # "idle" => call[c].key \in Keys
  /\ cache \in [Keys -> Rows] /\ ledger \in [Keys -> Rows]
  /\ saved \in [cache : [Keys -> Rows], ledger : [Keys -> Rows]]
  /\ sent \in Nat /\ bought \in [Keys -> Nat] /\ lost \in [Keys -> Nat]
  /\ calls \in 0..MaxCalls /\ faults \in 0..MaxFaults

\* What is stored is what was charged: no event without its response, and a response
\* that the ledger misses, or counts with other tokens, only for each refused write,
\* whenever the process dies and whatever later call commits what a failed one left.
Mischarged(responses, events) ==
  {k \in Keys : responses[k].kind # "corrupt" /\ events[k] # responses[k]}
Agree(responses, events) ==
  /\ \A k \in Keys : events[k] # Absent => responses[k] # Absent
  /\ Cardinality(Mischarged(responses, events)) <= faults
LedgerMatchesCache == Agree(cache, ledger) /\ Agree(saved.cache, saved.ledger)

\* The budget is read before the request and charged after it; callers that passed
\* meanwhile can overrun it, but only by one request each.  A sole caller cannot.
Flying == {c \in Callers : call[c] # Idle}
RequestsWithinBudget ==
  /\ Requests <= MaxRequests - 1 + Cardinality(Callers)
  /\ Requests + Cardinality(Flying) <= MaxRequests - 1 + Cardinality(Callers)

\* Nor do the tokens recorded overrun theirs by more than one response each, whatever
\* the requests that are out still add to them.
TokensWithinBudget ==
  /\ Tokens <= MaxTokens - 1 + Cardinality(Callers) * MaxUsage
  /\ Tokens + Cardinality(Flying) * MaxUsage <= MaxTokens - 1 + Cardinality(Callers) * MaxUsage

\* Over crashes and refused writes, no response is bought again that the cache has:
\* beyond those a fault lost, each caller buys it at most once, when all ask at once.
BoughtOncePerCaller ==
  \A k \in Keys : bought[k] <= lost[k] + Cardinality(Callers)

\* What the invariants above need to be inductive.
\* A committed row is what the connection shows.
SavedIsSeen ==
  \A k \in Keys :
    /\ saved.cache[k] # Absent => cache[k] = saved.cache[k]
    /\ saved.ledger[k] # Absent => ledger[k] = saved.ledger[k]

\* Every response bought is with a caller, cached, or lost; and who is still waiting
\* for one asked before anyone had it.
In(stage, k) == {c \in Callers : call[c].stage = stage /\ call[c].key = k}
ResponsesTraced ==
  \A k \in Keys :
    /\ Cardinality(In("recording", k)) <= bought[k]
    /\ cache[k] = Absent => bought[k] = lost[k] + Cardinality(In("recording", k))
    /\ bought[k] + Cardinality(In("posting", k)) <= lost[k] + Cardinality(Callers)

IndInv ==
  /\ TypeOK /\ LedgerMatchesCache /\ SavedIsSeen /\ ResponsesTraced
  /\ RequestsWithinBudget /\ TokensWithinBudget

\* A row does not change, and a committed row does not vanish: every later hit gives
\* the response that was recorded first, also after a crash.
RowsStay ==
  [][\A k \in Keys :
       /\ cache[k] # Absent => cache'[k] \in {cache[k], saved.cache[k]}
       /\ saved.cache[k] # Absent => saved'.cache[k] = saved.cache[k]]_vars

\* Every call ends: the retries of the transport are bounded.
CallsEnd == \A c \in Callers : call[c] # Idle ~> call[c] = Idle

\* What llm/cached.py:16 says of BudgetExceeded: "Raised before an external request
\* would exceed a frozen run budget."  So no more requests go out than budgeted.
ExternalRequestsBudgeted == sent <= MaxRequests
===============================================================================
