---------------------------- MODULE InferenceQueue ----------------------------
(***************************************************************************)
(* The answer service: the HTTP handler (service/app.py), the bounded      *)
(* coalescing queue and its worker (service/queue.py), the engine on its   *)
(* executor thread (service/engine.py) and the durable response cache      *)
(* (service/cache.py).                                                     *)
(*                                                                         *)
(* Two threads move.  Event-loop steps run one at a time, and a coroutine  *)
(* keeps the loop from one await to the next.  The executor thread takes   *)
(* its steps in between, also inside submit(): the cache is read before    *)
(* the in-flight table, and the executor may store an answer between the   *)
(* two reads.  A process may die at any step; only the cache survives.     *)
(***************************************************************************)
EXTENDS Integers, Sequences, FiniteSets, ServiceOutcome

CONSTANTS
  Requests,      \* HTTP requests, each sent once
  Keys,          \* (normalised question, policy) pairs
  KeyOf,         \* the key each request asks for
  PolicyOf,      \* the policy of each key
  LongKeys,      \* keys whose question has 501 to 1000 characters
  Versions,      \* corpus versions the service may be deployed with
  Capacity,      \* queueCapacity
  ServerDrains,  \* TRUE: the ASGI server ends its requests before shutdown
  MaxRestarts,   \* bound: how often the process is started again
  None           \* Python's None: no request, no key; the shutdown sentinel

ASSUME CapacityAssumption == Capacity \in Nat \ {0}
ASSUME RequestAssumption == KeyOf \in [Requests -> Keys] /\ None \notin Requests
ASSUME KeyAssumption == None \notin Keys
ASSUME PolicyAssumption == PolicyOf \in [Keys -> {"fixed_bm25", "adaptive_rewrite"}]
ASSUME DeploymentAssumption ==
  LongKeys \subseteq Keys /\ ServerDrains \in BOOLEAN /\ MaxRestarts \in Nat

VARIABLES
  lifecycle,  \* "starting", "serving", "closing", "draining" or "down"
  corpus,     \* corpus version this process was started with
  restarts,   \* processes started after the first
  phase,      \* of each request: "unsent", "missed", "waiting", "done"
  waitsOn,    \* the request whose future a waiting request shields
  reply,      \* how each request ended
  queue,      \* asyncio.Queue: requests that lead a flight, or the sentinel None
  inflight,   \* key -> the request that leads its flight, or None
  future,     \* of each leader: "absent", "pending" or its result
  worker,     \* the worker task: "idle" (at queue.get), "busy" or "ended"
  job,        \* the leader whose item the worker holds
  exec,       \* the executor thread: "idle", "checking", "computing", "storing", "finished"
  verdict,    \* what AnswerEngine.answer returned or raised
  cache,      \* the rows of responses.sqlite3, as the connection shows them
  uncommitted,  \* those of them in a transaction whose commit failed
  metered,    \* replies that added to the cost and token counters (per process)
  paid, lost  \* history: successful inferences, and those whose answer is in no row

memory == <<phase, waitsOn, reply, queue, inflight, future, worker, job, exec, verdict, metered>>
vars == <<lifecycle, corpus, restarts, memory, cache, uncommitted, paid, lost>>

-------------------------------------------------------------------------------
Rows == Versions \X Keys

\* A result: a reply, the value of a future, or a row of the cache.
Results ==
  [kind : Kinds \cup {"absent", "pending"}, key : Keys \cup {None},
   corpus : Versions \cup {None}, hit : BOOLEAN]

Plain(kind) == [kind |-> kind, key |-> None, corpus |-> None, hit |-> FALSE]
Answer(v, k) == [kind |-> "answered", key |-> k, corpus |-> v, hit |-> FALSE]

Resolved(r) == future[r].kind \notin {"absent", "pending"}

\* ResponseCache.key: corpus version, configuration and normalised question.
\* (Deviation: the corpus version is left out.)
UnversionedCacheKey(k) == <<CHOOSE v \in Versions : TRUE, k>>
CacheKey(k) == <<corpus, k>>

\* AnswerEngine.cached: a stored answer is copied and marked as a hit; a row that
\* does not parse raises RuntimeError.
CachedResult(row) ==
  IF row.kind = "answered" THEN [row EXCEPT !.hit = TRUE] ELSE Plain("corrupt_cache")

ItemsOf(q) == {q[i] : i \in 1..Len(q)}
NoDuplicates(q) == \A i, j \in 1..Len(q) : i # j => q[i] # q[j]

Items == ItemsOf(queue)
Leaders == Items \ {None}
Flying == Leaders \cup ({job} \ {None})   \* queued, or with the worker
Started == lifecycle \in {"serving", "closing", "draining"}
Accepting == lifecycle = "serving" \/ (~ServerDrains /\ Started)

\* The loop is at an await: no coroutine is between two awaits.
LoopFree == \A r \in Requests : phase[r] # "missed"

Init ==
  /\ lifecycle = "starting"
  /\ corpus \in Versions
  /\ restarts = 0
  /\ phase = [r \in Requests |-> "unsent"]
  /\ waitsOn = [r \in Requests |-> None]
  /\ reply = [r \in Requests |-> Plain("absent")]
  /\ queue = << >>
  /\ inflight = [k \in Keys |-> None]
  /\ future = [r \in Requests |-> Plain("absent")]
  /\ worker = "idle"
  /\ job = None
  /\ exec = "idle"
  /\ verdict = Plain("absent")
  /\ \E stored, corrupt \in SUBSET (Versions \X (Keys \ LongKeys)) :
       /\ stored \cap corrupt = {}
       /\ cache = [row \in Rows |-> IF row \in stored THEN Answer(row[1], row[2])
                                    ELSE IF row \in corrupt THEN Plain("corrupt_cache")
                                    ELSE Plain("absent")]
       /\ paid = [row \in Rows |-> IF row \in stored THEN 1 ELSE 0]
  /\ uncommitted = {}
  /\ lost = [row \in Rows |-> 0]
  /\ metered = 0

-------------------------------------------------------------------------------
\* The lifespan of one process.

StartSucceeds ==
  /\ lifecycle = "starting"
  /\ lifecycle' = "serving"
  /\ UNCHANGED <<corpus, restarts, memory, cache, uncommitted, paid, lost>>

\* The row that answer() is about to write.
Storing == IF exec = "storing" THEN {CacheKey(KeyOf[job])} ELSE {}

\* SQLite takes back what was not committed; the answers in it, and the one that was
\* to be written, are gone.
Rollback ==
  /\ cache' = [row \in Rows |-> IF row \in uncommitted THEN Plain("absent") ELSE cache[row]]
  /\ uncommitted' = {}
  /\ lost' = [row \in Rows |-> IF row \in uncommitted \cup Storing THEN lost[row] + 1 ELSE lost[row]]

\* Everything but the committed rows dies; a client still waiting loses its connection.
EndProcess ==
  /\ lifecycle' = "down"
  /\ reply' = [r \in Requests |->
                 IF phase[r] \in {"missed", "waiting"} THEN Plain("dropped") ELSE reply[r]]
  /\ phase' = [r \in Requests |->
                 IF phase[r] \in {"missed", "waiting"} THEN "done" ELSE phase[r]]
  /\ waitsOn' = [r \in Requests |-> None]
  /\ queue' = << >>
  /\ inflight' = [k \in Keys |-> None]
  /\ future' = [r \in Requests |-> Plain("absent")]
  /\ worker' = "idle" /\ job' = None
  /\ exec' = "idle" /\ verdict' = Plain("absent")
  /\ Rollback
  /\ metered' = 0
  /\ UNCHANGED <<corpus, restarts, paid>>

\* No index, or not the number of documents this corpus version should have.
StartFails == lifecycle = "starting" /\ EndProcess

Crash ==
  /\ restarts < MaxRestarts
  /\ Started
  /\ EndProcess

Restart ==
  /\ lifecycle = "down"
  /\ restarts < MaxRestarts
  /\ restarts' = restarts + 1
  /\ lifecycle' = "starting"
  /\ corpus' \in Versions
  /\ UNCHANGED <<memory, cache, uncommitted, paid, lost>>

\* The server leaves the lifespan once the requests it is handling have ended.
BeginClose ==
  /\ lifecycle = "serving"
  /\ LoopFree
  /\ ServerDrains => \A r \in Requests : phase[r] # "waiting"
  /\ lifecycle' = "closing"
  /\ UNCHANGED <<corpus, restarts, memory, cache, uncommitted, paid, lost>>

\* await queue.put(None): waits while the queue is full.
\* (Deviation: the queue is emptied to make room.)
SentinelEvicts ==
  /\ lifecycle = "closing"
  /\ LoopFree
  /\ queue' = <<None>>
  /\ lifecycle' = "draining"
  /\ UNCHANGED <<corpus, restarts, phase, waitsOn, reply, inflight, future, worker, job,
                 exec, verdict, cache, uncommitted, metered, paid, lost>>

PutSentinel ==
  /\ lifecycle = "closing"
  /\ LoopFree
  /\ Len(queue) < Capacity
  /\ queue' = Append(queue, None)
  /\ lifecycle' = "draining"
  /\ UNCHANGED <<corpus, restarts, phase, waitsOn, reply, inflight, future, worker, job,
                 exec, verdict, cache, uncommitted, metered, paid, lost>>

\* await worker_task, then close the engine and the executor.
\* (Deviation: the worker task is not awaited.)
CloseEngineAtOnce == lifecycle = "draining" /\ LoopFree /\ EndProcess
CloseEngine == lifecycle = "draining" /\ LoopFree /\ worker = "ended" /\ EndProcess

-------------------------------------------------------------------------------
\* The handler and submit(), on the event loop.

\* submit() up to the cache lookup.  A hit, and the error of a corrupt row, end
\* the request without an await.
Lookup(r) ==
  /\ Accepting
  /\ LoopFree
  /\ phase[r] = "unsent"
  /\ LET row == cache[CacheKey(KeyOf[r])] IN
       IF row.kind = "absent"
         THEN /\ phase' = [phase EXCEPT ![r] = "missed"]
              /\ UNCHANGED reply
         ELSE /\ phase' = [phase EXCEPT ![r] = "done"]
              /\ reply' = [reply EXCEPT ![r] = CachedResult(row)]
  /\ UNCHANGED <<lifecycle, corpus, restarts, waitsOn, queue, inflight, future, worker, job,
                 exec, verdict, cache, uncommitted, metered, paid, lost>>

\* The rest of submit(), in the same step of the loop: share the flight of this
\* key, or refuse, or lead a new flight.
Join(r) ==
  /\ phase[r] = "missed"
  /\ inflight[KeyOf[r]] # None
  /\ phase' = [phase EXCEPT ![r] = "waiting"]
  /\ waitsOn' = [waitsOn EXCEPT ![r] = inflight[KeyOf[r]]]
  /\ UNCHANGED <<lifecycle, corpus, restarts, reply, queue, inflight, future, worker, job,
                 exec, verdict, cache, uncommitted, metered, paid, lost>>

\* (Deviation: the queue is tested before the in-flight table.)
RefuseBeforeJoin(r) ==
  /\ phase[r] = "missed"
  /\ Len(queue) >= Capacity
  /\ phase' = [phase EXCEPT ![r] = "done"]
  /\ reply' = [reply EXCEPT ![r] = Plain("overloaded")]
  /\ UNCHANGED <<lifecycle, corpus, restarts, waitsOn, queue, inflight, future, worker, job,
                 exec, verdict, cache, uncommitted, metered, paid, lost>>

Refuse(r) ==
  /\ phase[r] = "missed"
  /\ inflight[KeyOf[r]] = None
  /\ Len(queue) >= Capacity
  /\ phase' = [phase EXCEPT ![r] = "done"]
  /\ reply' = [reply EXCEPT ![r] = Plain("overloaded")]
  /\ UNCHANGED <<lifecycle, corpus, restarts, waitsOn, queue, inflight, future, worker, job,
                 exec, verdict, cache, uncommitted, metered, paid, lost>>

Lead(r) ==
  /\ phase[r] = "missed"
  /\ inflight[KeyOf[r]] = None
  /\ Len(queue) < Capacity
  /\ future' = [future EXCEPT ![r] = Plain("pending")]
  /\ inflight' = [inflight EXCEPT ![KeyOf[r]] = r]
  /\ queue' = Append(queue, r)
  /\ phase' = [phase EXCEPT ![r] = "waiting"]
  /\ waitsOn' = [waitsOn EXCEPT ![r] = r]
  /\ UNCHANGED <<lifecycle, corpus, restarts, reply, worker, job,
                 exec, verdict, cache, uncommitted, metered, paid, lost>>

\* The shielded future is done: the handler wakes, counts and replies.
Deliver(r) ==
  /\ LoopFree
  /\ phase[r] = "waiting"
  /\ Resolved(waitsOn[r])
  /\ LET result == future[waitsOn[r]] IN
       /\ reply' = [reply EXCEPT ![r] = result]
       /\ metered' = IF result.kind = "answered" /\ ~result.hit THEN metered + 1 ELSE metered
  /\ phase' = [phase EXCEPT ![r] = "done"]
  /\ waitsOn' = [waitsOn EXCEPT ![r] = None]
  /\ UNCHANGED <<lifecycle, corpus, restarts, queue, inflight, future, worker, job,
                 exec, verdict, cache, uncommitted, paid, lost>>

\* wait_for gives up, possibly after the future was resolved.  The shield keeps
\* the cancellation from the shared future: the flight goes on.
\* (Deviation: no shield, the shared future is cancelled.)
TimeoutCancelsFlight(r) ==
  /\ LoopFree
  /\ phase[r] = "waiting"
  /\ phase' = [phase EXCEPT ![r] = "done"]
  /\ waitsOn' = [waitsOn EXCEPT ![r] = None]
  /\ reply' = [reply EXCEPT ![r] = Plain("deadline")]
  /\ future' = [future EXCEPT ![waitsOn[r]] = Plain("absent")]
  /\ inflight' = [inflight EXCEPT ![KeyOf[r]] = None]
  /\ UNCHANGED <<lifecycle, corpus, restarts, queue, worker, job,
                 exec, verdict, cache, uncommitted, metered, paid, lost>>

Timeout(r) ==
  /\ LoopFree
  /\ phase[r] = "waiting"
  /\ phase' = [phase EXCEPT ![r] = "done"]
  /\ waitsOn' = [waitsOn EXCEPT ![r] = None]
  /\ reply' = [reply EXCEPT ![r] = Plain("deadline")]
  /\ UNCHANGED <<lifecycle, corpus, restarts, queue, inflight, future, worker, job,
                 exec, verdict, cache, uncommitted, metered, paid, lost>>

-------------------------------------------------------------------------------
\* The worker task, on the event loop.

\* (Deviation: the flight leaves the table when its item is taken instead of when it
\* is resolved.)
TakeDropsFlight ==
  /\ Started /\ LoopFree
  /\ worker = "idle"
  /\ queue # << >>
  /\ Head(queue) # None
  /\ worker' = "busy" /\ job' = Head(queue)
  /\ queue' = Tail(queue)
  /\ exec' = "checking"
  /\ inflight' = [inflight EXCEPT ![KeyOf[Head(queue)]] = None]
  /\ UNCHANGED <<lifecycle, corpus, restarts, phase, waitsOn, reply, future, verdict,
                 cache, uncommitted, metered, paid, lost>>

WorkerTakes ==
  /\ Started /\ LoopFree
  /\ worker = "idle"
  /\ queue # << >>
  /\ Head(queue) # None
  /\ worker' = "busy" /\ job' = Head(queue)
  /\ queue' = Tail(queue)
  /\ exec' = "checking"
  /\ UNCHANGED <<lifecycle, corpus, restarts, phase, waitsOn, reply, inflight, future, verdict,
                 cache, uncommitted, metered, paid, lost>>

\* (Deviation: the loop goes on after the sentinel.)
SkipSentinel ==
  /\ Started /\ LoopFree
  /\ worker = "idle"
  /\ queue # << >>
  /\ Head(queue) = None
  /\ queue' = Tail(queue)
  /\ UNCHANGED <<lifecycle, corpus, restarts, phase, waitsOn, reply, inflight, future, worker,
                 job, exec, verdict, cache, uncommitted, metered, paid, lost>>

WorkerStops ==
  /\ Started /\ LoopFree
  /\ worker = "idle"
  /\ queue # << >>
  /\ Head(queue) = None
  /\ worker' = "ended"
  /\ queue' = Tail(queue)
  /\ UNCHANGED <<lifecycle, corpus, restarts, phase, waitsOn, reply, inflight, future, job,
                 exec, verdict, cache, uncommitted, metered, paid, lost>>

\* run_in_executor has ended: set the result or the exception, drop the flight.
\* (Deviations: the flight of a failure is kept; the future of a failure is not set.)
ResolveOnlyAnswers ==
  /\ worker = "busy" /\ exec = "finished" /\ LoopFree
  /\ future' = [future EXCEPT ![job] = verdict]
  /\ inflight' = IF verdict.kind = "answered"
                   THEN [inflight EXCEPT ![KeyOf[job]] = None] ELSE inflight
  /\ worker' = "idle" /\ job' = None
  /\ exec' = "idle" /\ verdict' = Plain("absent")
  /\ UNCHANGED <<lifecycle, corpus, restarts, phase, waitsOn, reply, queue, cache, uncommitted, metered,
                 paid, lost>>

ResolveWithoutError ==
  /\ worker = "busy" /\ exec = "finished" /\ LoopFree
  /\ future' = IF verdict.kind = "answered" THEN [future EXCEPT ![job] = verdict] ELSE future
  /\ inflight' = [inflight EXCEPT ![KeyOf[job]] = None]
  /\ worker' = "idle" /\ job' = None
  /\ exec' = "idle" /\ verdict' = Plain("absent")
  /\ UNCHANGED <<lifecycle, corpus, restarts, phase, waitsOn, reply, queue, cache, uncommitted, metered,
                 paid, lost>>

WorkerResolves ==
  /\ worker = "busy" /\ exec = "finished" /\ LoopFree
  /\ future' = [future EXCEPT ![job] = verdict]
  /\ inflight' = [inflight EXCEPT ![KeyOf[job]] = None]
  /\ worker' = "idle" /\ job' = None
  /\ exec' = "idle" /\ verdict' = Plain("absent")
  /\ UNCHANGED <<lifecycle, corpus, restarts, phase, waitsOn, reply, queue, cache, uncommitted, metered,
                 paid, lost>>

-------------------------------------------------------------------------------
\* AnswerEngine.answer for the worker's item, on the executor thread.

Finish(result) == exec' = "finished" /\ verdict' = result

\* The second look at the cache.
Recheck ==
  /\ exec = "checking"
  /\ LET row == cache[CacheKey(KeyOf[job])] IN
       IF row.kind = "absent" THEN exec' = "computing" /\ UNCHANGED verdict
                              ELSE Finish(CachedResult(row))
  /\ UNCHANGED <<lifecycle, corpus, restarts, phase, waitsOn, reply, queue, inflight, future,
                 worker, job, cache, uncommitted, metered, paid, lost>>

\* The policy runs: retrieval, then the model calls.  The search tool refuses a
\* question longer than 500 characters before any model call.
PolicySucceeds ==
  /\ exec = "computing"
  /\ KeyOf[job] \notin LongKeys
  /\ exec' = "storing"
  /\ paid' = [paid EXCEPT ![CacheKey(KeyOf[job])] = @ + 1]
  /\ UNCHANGED <<lifecycle, corpus, restarts, phase, waitsOn, reply, queue, inflight, future,
                 worker, job, verdict, cache, uncommitted, metered, lost>>

PolicyFails ==
  /\ exec = "computing"
  /\ \E kind \in IF KeyOf[job] \in LongKeys THEN {"long_query"}
                 ELSE ProviderFailures(PolicyOf[KeyOf[job]]) : Finish(Plain(kind))
  /\ UNCHANGED <<lifecycle, corpus, restarts, phase, waitsOn, reply, queue, inflight, future,
                 worker, job, cache, uncommitted, metered, paid, lost>>

\* cache.put, committed before answer() returns, with what earlier calls left open.
\* (Deviation: it is not.)
ReturnUnstored ==
  /\ exec = "storing"
  /\ Finish(Answer(corpus, KeyOf[job]))
  /\ UNCHANGED <<lifecycle, corpus, restarts, phase, waitsOn, reply, queue, inflight, future,
                 worker, job, cache, uncommitted, metered, paid, lost>>

Insert == cache' = [cache EXCEPT ![CacheKey(KeyOf[job])] = Answer(corpus, KeyOf[job])]

Store ==
  /\ exec = "storing"
  /\ Insert
  /\ uncommitted' = {}
  /\ Finish(Answer(corpus, KeyOf[job]))
  /\ UNCHANGED <<lifecycle, corpus, restarts, phase, waitsOn, reply, queue, inflight, future,
                 worker, job, metered, paid, lost>>

\* sqlite3.OperationalError (disk full, locked), with no rollback in the code: the INSERT
\* is refused; or the commit is, and the row stays in the open transaction, seen by later
\* requests and committed by a later put; or SQLite rolls the transaction back.
StoreFails ==
  /\ exec = "storing"
  /\ \/ /\ lost' = [lost EXCEPT ![CacheKey(KeyOf[job])] = @ + 1]
        /\ UNCHANGED <<cache, uncommitted>>
     \/ /\ Insert
        /\ uncommitted' = uncommitted \cup Storing
        /\ UNCHANGED lost
     \/ Rollback
  /\ Finish(Plain("unhandled"))
  /\ UNCHANGED <<lifecycle, corpus, restarts, phase, waitsOn, reply, queue, inflight, future,
                 worker, job, metered, paid>>

-------------------------------------------------------------------------------
\* A process that is not started again.
Stopped == lifecycle = "down" /\ restarts = MaxRestarts /\ UNCHANGED vars

Handler(r) == Lookup(r) \/ Join(r) \/ Refuse(r) \/ Lead(r) \/ Deliver(r) \/ Timeout(r)
WorkerTask == WorkerTakes \/ WorkerStops \/ WorkerResolves
Executor == Recheck \/ PolicySucceeds \/ PolicyFails \/ Store \/ StoreFails
Lifespan ==
  StartSucceeds \/ StartFails \/ BeginClose \/ PutSentinel \/ CloseEngine \/ Crash \/ Restart

Next ==
  \/ \E r \in Requests : Handler(r)
  \/ WorkerTask
  \/ Executor
  \/ Lifespan
  \/ Stopped

Spec == Init /\ [][Next]_vars

\* The scheduling the code relies on: asyncio runs every ready callback; a policy
\* run ends, since every model call has a transport timeout and a bounded number
\* of retries.  No fairness of Timeout, BeginClose, Crash or Restart is assumed.
Progress ==
  /\ \A r \in Requests : WF_vars(Join(r) \/ Refuse(r) \/ Lead(r)) /\ WF_vars(Deliver(r))
  /\ WF_vars(WorkerTask)
  /\ WF_vars(Executor)
  /\ WF_vars(StartSucceeds \/ StartFails)
  /\ WF_vars(PutSentinel)
  /\ WF_vars(CloseEngine)

FairSpec == Spec /\ Progress

-------------------------------------------------------------------------------
\* Every variable has its type; the worker is busy, and the executor at work,
\* exactly while the worker holds a request, and who waits has a future to wait on.
TypeOK ==
  /\ lifecycle \in {"starting", "serving", "closing", "draining", "down"}
  /\ corpus \in Versions
  /\ restarts \in 0..MaxRestarts
  /\ phase \in [Requests -> {"unsent", "missed", "waiting", "done"}]
  /\ waitsOn \in [Requests -> Requests \cup {None}]
  /\ \A r \in Requests : phase[r] = "waiting" <=> waitsOn[r] # None
  /\ reply \in [Requests -> Results]
  /\ queue \in Seq(Requests \cup {None}) /\ Len(queue) <= Capacity
  /\ inflight \in [Keys -> Requests \cup {None}]
  /\ future \in [Requests -> Results]
  /\ worker \in {"idle", "busy", "ended"}
  /\ job \in Requests \cup {None}
  /\ worker = "busy" <=> job \in Requests
  /\ exec = "idle" <=> job = None
  /\ exec \in {"idle", "checking", "computing", "storing", "finished"}
  /\ verdict \in Results
  /\ cache \in [Rows -> Results] /\ uncommitted \subseteq Rows
  /\ metered \in Nat
  /\ paid \in [Rows -> Nat] /\ lost \in [Rows -> Nat]

\* The in-flight table, the queue and the worker agree: the futures that are
\* pending are exactly those of the items queued or held by the worker, no item
\* is there twice, and the table points from each key to the one item of that
\* key.  So no key is ever in flight twice and no flight is forgotten.
FlightsAccounted ==
  /\ NoDuplicates(queue)
  /\ job \notin Leaders
  /\ \A r \in Requests : r \in Flying <=> future[r].kind = "pending"
  /\ \A k \in Keys, r \in Requests : inflight[k] = r <=> r \in Flying /\ KeyOf[r] = k

\* Whoever waits, waits on a future for its own question that is resolved or
\* still in flight: the timeout of the request that leads the flight, or a
\* failed inference, strands no follower.
WaitersRideAFlight ==
  \A r \in Requests : phase[r] = "waiting" =>
    /\ waitsOn[r] \in Requests
    /\ KeyOf[waitsOn[r]] = KeyOf[r]
    /\ future[waitsOn[r]].kind # "absent"
    /\ future[waitsOn[r]].kind = "pending" => inflight[KeyOf[r]] = waitsOn[r]

\* Over all restarts, every inference that succeeded (and was paid for) is the
\* one stored answer of its key, or being stored, or was lost to a crash or a
\* failed write.  An answer in the cache is not computed again: one that was committed
\* never, and one that was not only when SQLite has taken it back.
InferencePaidOnce ==
  \A row \in Rows :
    paid[row] = (IF cache[row].kind = "answered" THEN 1 ELSE 0)
              + (IF exec = "storing" /\ row = CacheKey(KeyOf[job]) THEN 1 ELSE 0)
              + lost[row]

\* submit() reads the cache before it reads the in-flight table, with the
\* executor free to store in between; still, a key that is queued, or that the
\* worker has not finished, has no row yet: the second look finds nothing.
AdmittedMissStaysMiss ==
  /\ \A r \in Leaders : cache[CacheKey(KeyOf[r])].kind = "absent"
  /\ exec \in {"checking", "computing", "storing"} =>
       cache[CacheKey(KeyOf[job])].kind = "absent"

\* What the invariants above need to be inductive.
\* The sentinel enters the queue once, when close() put it there.
SentinelOnlyAtClose == None \in Items => lifecycle = "draining"

\* A process that does not serve holds no request.
StoppedHoldsNothing ==
  ~Started =>
    /\ queue = << >> /\ job = None /\ uncommitted = {}
    /\ \A r \in Requests : phase[r] \in {"unsent", "done"} /\ future[r].kind = "absent"

\* A request that has not been admitted leads no flight.
NewcomersLeadNothing ==
  \A r \in Requests : phase[r] \in {"unsent", "missed"} => future[r].kind = "absent"

\* Between the two reads of submit(): a flight of the key, or still no row.
MissIsFresh ==
  \A r \in Requests : phase[r] = "missed" /\ inflight[KeyOf[r]] = None =>
    cache[CacheKey(KeyOf[r])].kind = "absent"

\* A row that parses is the answer of its own key, and so is one of the open transaction;
\* results that are answers are answers of the key and corpus they are for, and committed.
StoredFor(result, k) ==
  result.kind = "answered" =>
    /\ result.key = k /\ result.corpus = corpus
    /\ cache[CacheKey(k)].kind = "answered" /\ CacheKey(k) \notin uncommitted

RowsHoldTheirAnswer ==
  /\ \A row \in uncommitted : cache[row].kind = "answered"
  /\ \A row \in Rows :
       /\ cache[row].kind \in {"absent", "answered", "corrupt_cache"}
       /\ cache[row].kind = "answered" => cache[row].key = row[2] /\ cache[row].corpus = row[1]

ResultsAreStored ==
  /\ \A r \in Requests : StoredFor(future[r], KeyOf[r]) /\ future[r].kind # "overloaded"
  /\ exec = "finished" <=> verdict.kind # "absent"
  /\ verdict.kind \notin {"pending", "overloaded"}
  /\ job \in Requests => StoredFor(verdict, KeyOf[job])

IndInv ==
  /\ TypeOK /\ FlightsAccounted /\ WaitersRideAFlight
  /\ InferencePaidOnce /\ AdmittedMissStaysMiss
  /\ SentinelOnlyAtClose /\ StoppedHoldsNothing /\ NewcomersLeadNothing
  /\ MissIsFresh /\ RowsHoldTheirAnswer /\ ResultsAreStored

\* When the worker has met the sentinel, nothing it should have served is left:
\* no item, no flight, no one waiting.
NothingBehindSentinel ==
  ServerDrains /\ worker = "ended" =>
    /\ queue = << >>
    /\ \A k \in Keys : inflight[k] = None
    /\ \A r \in Requests : phase[r] # "waiting"

\* No request is answered 429 for a full queue while its answer is in flight or
\* stored: only a new flight is refused, and only when the queue is full.
RefusalsAreJustified ==
  [][\A r \in Requests :
       reply'[r] # reply[r] /\ reply'[r].kind = "overloaded" =>
         /\ Len(queue) = Capacity
         /\ inflight[KeyOf[r]] = None
         /\ cache[CacheKey(KeyOf[r])].kind = "absent"]_vars

\* A client never gets the answer of another question, policy or corpus version,
\* whether from the cache of an earlier deployment or from a shared flight.
AnswersAreCurrent ==
  [][\A r \in Requests :
       reply'[r] # reply[r] /\ reply'[r].kind = "answered" =>
         reply'[r].key = KeyOf[r] /\ reply'[r].corpus = corpus]_vars

\* The service keeps the promises of AnswerService: what a client can tell of a
\* request, the rows that hold an answer, those of them that are committed, and the key
\* the executor works on.
StatusSeen ==
  [r \in Requests |-> IF phase[r] \in {"missed", "waiting"} THEN "pending" ELSE phase[r]]
StoredRows == {row \in Rows : cache[row].kind = "answered"}
Running == IF exec \in {"checking", "computing", "storing"} THEN KeyOf[job] ELSE None

Promise == INSTANCE AnswerService WITH
  version <- corpus, status <- StatusSeen, outcome <- reply,
  store <- StoredRows, durable <- StoredRows \ uncommitted, running <- Running

ImplementsAnswerService == Promise!Spec

\* No waiter depends on its deadline: the worker alone settles every request.
WaitersSettle == \A r \in Requests : phase[r] = "waiting" ~> phase[r] = "done"

\* A flight leaves the table even when it failed, or everyone who waited for it
\* gave up: a later request of the key can start afresh.
FlightsLand == \A k \in Keys : inflight[k] # None ~> inflight[k] = None

\* What was admitted before close() is finished before the engine closes, whatever
\* is submitted while the queue drains.
AdmittedWorkIsFinished ==
  \A r \in Requests : lifecycle = "serving" /\ r \in Leaders ~> Resolved(r)

\* What docs/PRODUCTION_SERVICE.md:19 says: an upstream timeout is a 504.
UpstreamTimeoutIs504 ==
  \A r \in Requests : reply[r].kind \in UpstreamTimeouts => StatusOf(reply[r].kind) = 504

\* What docs/PRODUCTION_SERVICE.md:13 says: a question of 1 to 1000 characters is
\* accepted.  So no such question ends, for its length alone, in a server error.
LongQuestionsAreServed ==
  \A r \in Requests :
    KeyOf[r] \in LongKeys /\ phase[r] = "done" => StatusOf(reply[r].kind) # 500

\* close() returns: the sentinel finds room, the worker ends, the engine closes.
ShutdownCompletes == lifecycle = "closing" ~> lifecycle = "down"
===============================================================================
