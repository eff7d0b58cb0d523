------------------------- MODULE InferenceQueueProofs -------------------------
(***************************************************************************)
(* Proofs about InferenceQueue, for every set of requests, keys and corpus *)
(* versions, every capacity, and both ways of shutting down.               *)
(***************************************************************************)
EXTENDS InferenceQueue, TLAPS

USE RequestAssumption, CapacityAssumption, DeploymentAssumption, PolicyAssumption

-------------------------------------------------------------------------------
\* What Append and Tail do to the items of a queue without duplicates.

\* queue.put_nowait of a new item adds that item and nothing else.
LEMMA AppendAddsItem ==
  ASSUME NEW S, NEW q \in Seq(S), NEW x \in S
  PROVE  /\ ItemsOf(Append(q, x)) = ItemsOf(q) \cup {x}
         /\ NoDuplicates(q) /\ x \notin ItemsOf(q) => NoDuplicates(Append(q, x))
<1> DEFINE p == Append(q, x)
<1>1. /\ p \in Seq(S) /\ Len(p) = Len(q) + 1 /\ Len(q) \in Nat
      /\ \A i \in 1..Len(q) : p[i] = q[i]
      /\ p[Len(q) + 1] = x
  OBVIOUS
<1> HIDE DEF p
<1>2. ItemsOf(p) = ItemsOf(q) \cup {x}
  <2>1. ASSUME NEW y \in ItemsOf(p) PROVE y \in ItemsOf(q) \cup {x}
    <3>1. PICK i \in 1..Len(p) : y = p[i]
      BY <2>1 DEF ItemsOf
    <3>2. i \in 1..Len(q) \/ i = Len(q) + 1
      BY <1>1, <3>1
    <3>. QED BY <1>1, <3>1, <3>2 DEF ItemsOf
  <2>2. ASSUME NEW y \in ItemsOf(q) PROVE y \in ItemsOf(p)
    <3>1. PICK i \in 1..Len(q) : y = q[i]
      BY <2>2 DEF ItemsOf
    <3>2. i \in 1..Len(p) /\ y = p[i]
      BY <1>1, <3>1
    <3>. QED BY <3>2 DEF ItemsOf
  <2>3. x \in ItemsOf(p)
    <3>1. Len(q) + 1 \in 1..Len(p)
      BY <1>1
    <3>. QED BY <1>1, <3>1 DEF ItemsOf
  <2>. QED BY <2>1, <2>2, <2>3
<1>3. ASSUME NoDuplicates(q), x \notin ItemsOf(q) PROVE NoDuplicates(p)
  <2>1. ASSUME NEW i \in 1..Len(p), NEW j \in 1..Len(p), i # j PROVE p[i] # p[j]
    <3>1. \A n \in 1..Len(q) : p[n] # x
      BY <1>1, <1>3 DEF ItemsOf
    <3>2. CASE i \in 1..Len(q) /\ j \in 1..Len(q)
      BY <1>1, <1>3, <2>1, <3>2 DEF NoDuplicates
    <3>3. CASE i = Len(q) + 1 \/ j = Len(q) + 1
      BY <1>1, <2>1, <3>1, <3>3
    <3>. QED BY <1>1, <2>1, <3>2, <3>3
  <2>. QED BY <2>1 DEF NoDuplicates
<1>. QED BY <1>2, <1>3 DEF p

\* queue.get takes the head, and what is left holds the other items once each.
LEMMA TailRemovesHead ==
  ASSUME NEW S, NEW q \in Seq(S), q # << >>, NoDuplicates(q)
  PROVE  /\ Head(q) \in ItemsOf(q)
         /\ ItemsOf(Tail(q)) = ItemsOf(q) \ {Head(q)}
         /\ NoDuplicates(Tail(q))
<1> DEFINE p == Tail(q)
<1>1. /\ p \in Seq(S) /\ Len(q) \in Nat /\ Len(q) >= 1 /\ Len(p) = Len(q) - 1
      /\ \A i \in 1..Len(p) : p[i] = q[i + 1]
      /\ Head(q) = q[1]
  OBVIOUS
<1> HIDE DEF p
<1>2. Head(q) \in ItemsOf(q)
  <2>1. 1 \in 1..Len(q)
    BY <1>1
  <2>. QED BY <1>1, <2>1 DEF ItemsOf
<1>3. ItemsOf(p) = ItemsOf(q) \ {Head(q)}
  <2>1. ASSUME NEW y \in ItemsOf(p) PROVE y \in ItemsOf(q) \ {Head(q)}
    <3>1. PICK i \in 1..Len(p) : y = p[i]
      BY <2>1 DEF ItemsOf
    <3>2. i + 1 \in 1..Len(q) /\ 1 \in 1..Len(q) /\ i + 1 # 1 /\ y = q[i + 1]
      BY <1>1, <3>1
    <3>3. q[i + 1] # q[1]
      BY <3>2 DEF NoDuplicates
    <3>. QED BY <1>1, <3>2, <3>3 DEF ItemsOf
  <2>2. ASSUME NEW y \in ItemsOf(q) \ {Head(q)} PROVE y \in ItemsOf(p)
    <3>1. PICK i \in 1..Len(q) : y = q[i]
      BY <2>2 DEF ItemsOf
    <3>2. i # 1
      BY <1>1, <2>2, <3>1
    <3>3. i - 1 \in 1..Len(p) /\ (i - 1) + 1 = i
      BY <1>1, <3>1, <3>2
    <3>4. y = p[i - 1]
      BY <1>1, <3>1, <3>3
    <3>. QED BY <3>3, <3>4 DEF ItemsOf
  <2>. QED BY <2>1, <2>2
<1>4. NoDuplicates(p)
  <2>1. ASSUME NEW i \in 1..Len(p), NEW j \in 1..Len(p), i # j PROVE p[i] # p[j]
    <3>1. i + 1 \in 1..Len(q) /\ j + 1 \in 1..Len(q) /\ i + 1 # j + 1
      BY <1>1, <2>1
    <3>. QED BY <1>1, <2>1, <3>1 DEF NoDuplicates
  <2>. QED BY <2>1 DEF NoDuplicates
<1>. QED BY <1>2, <1>3, <1>4 DEF p

\* An empty queue.
LEMMA EmptyQueue == ItemsOf(<< >>) = {} /\ NoDuplicates(<< >>)
BY DEF ItemsOf, NoDuplicates

-------------------------------------------------------------------------------
\* The results that the actions build are results, and rows are rows.
LEMMA ResultTypes ==
  /\ \A kind \in Kinds \cup {"absent", "pending"} : Plain(kind) \in Results
  /\ \A v \in Versions, k \in Keys : Answer(v, k) \in Results
  /\ \A row \in Results : CachedResult(row) \in Results
BY DEF Plain, Answer, CachedResult, Results, Kinds

LEMMA KeyTypes ==
  ASSUME TypeOK
  PROVE  /\ \A r \in Requests : KeyOf[r] \in Keys /\ CacheKey(KeyOf[r]) \in Rows
         /\ \A k \in Keys : CacheKey(k) = <<corpus, k>>
BY DEF TypeOK, CacheKey, Rows

-------------------------------------------------------------------------------
\* Every variable keeps its type.

LEMMA TypeInit == Init => TypeOK
<1> SUFFICES ASSUME Init PROVE TypeOK
  OBVIOUS
<1>1. cache \in [Rows -> Results] /\ paid \in [Rows -> Nat]
  <2>1. PICK stored \in SUBSET (Versions \X (Keys \ LongKeys)),
             corrupt \in SUBSET (Versions \X (Keys \ LongKeys)) :
          /\ cache = [row \in Rows |-> IF row \in stored THEN Answer(row[1], row[2])
                                       ELSE IF row \in corrupt THEN Plain("corrupt_cache")
                                       ELSE Plain("absent")]
          /\ paid = [row \in Rows |-> IF row \in stored THEN 1 ELSE 0]
    BY DEF Init
  <2>2. \A row \in Rows : row[1] \in Versions /\ row[2] \in Keys
    BY DEF Rows
  <2>. QED BY <2>1, <2>2, ResultTypes DEF Kinds
<1>2. queue \in Seq(Requests \cup {None}) /\ Len(queue) <= Capacity
  BY DEF Init
<1>3. \A kind \in {"absent"} : Plain(kind) \in Results
  BY ResultTypes
<1>. QED BY <1>1, <1>2, <1>3 DEF Init, TypeOK

\* What a rollback does to each row: those of the open transaction are gone, and counted
\* as lost with the one that was to be written.
LEMMA RollbackRows ==
  ASSUME TypeOK, Rollback
  PROVE  /\ cache' \in [Rows -> Results] /\ uncommitted' = {} /\ lost' \in [Rows -> Nat]
         /\ \A row \in Rows :
              /\ cache'[row] = IF row \in uncommitted THEN Plain("absent") ELSE cache[row]
              /\ lost'[row] = IF row \in uncommitted \cup Storing THEN lost[row] + 1
                                                                 ELSE lost[row]
<1>1. Plain("absent") \in Results
  BY ResultTypes
<1>2. \A row \in Rows : cache[row] \in Results /\ lost[row] \in Nat
  BY DEF TypeOK
<1>. QED BY <1>1, <1>2 DEF Rollback

LEMMA EndProcessType == ASSUME TypeOK, EndProcess PROVE TypeOK'
<1>1. Plain("absent") \in Results /\ Plain("dropped") \in Results
  BY ResultTypes DEF Kinds
<1>2. cache' \in [Rows -> Results] /\ uncommitted' = {} /\ lost' \in [Rows -> Nat]
  BY RollbackRows DEF EndProcess
<1>3. queue' \in Seq(Requests \cup {None}) /\ Len(queue') <= Capacity
  BY DEF EndProcess
<1>4. /\ reply' \in [Requests -> Results]
      /\ phase' \in [Requests -> {"unsent", "missed", "waiting", "done"}]
      /\ future' \in [Requests -> Results]
  BY <1>1 DEF EndProcess, TypeOK
<1>. QED BY <1>1, <1>2, <1>3, <1>4 DEF EndProcess, TypeOK, Rows

LEMMA TypeStep == TypeOK /\ [Next]_vars => TypeOK'
<1> SUFFICES ASSUME TypeOK, [Next]_vars PROVE TypeOK'
  OBVIOUS
<1> USE DEF Finish
<1>k. /\ \A r \in Requests : KeyOf[r] \in Keys /\ CacheKey(KeyOf[r]) \in Rows
      /\ \A r \in Requests : cache[CacheKey(KeyOf[r])] \in Results
      /\ \A kind \in Kinds : Plain(kind) \in Results
      /\ Plain("absent") \in Results /\ Plain("pending") \in Results
      /\ "overloaded" \in Kinds /\ "deadline" \in Kinds /\ "unhandled" \in Kinds
      /\ job \in Requests => Answer(corpus, KeyOf[job]) \in Results
      /\ Rows' = Rows
  BY KeyTypes, ResultTypes DEF TypeOK, Kinds, Rows
<1>1. CASE StartSucceeds
  BY <1>1, <1>k DEF StartSucceeds, TypeOK, memory
<1>2. CASE StartFails \/ Crash \/ CloseEngine
  BY <1>2, EndProcessType DEF StartFails, Crash, CloseEngine
<1>3. CASE Restart
  BY <1>3, <1>k DEF Restart, TypeOK, memory
<1>4. CASE BeginClose
  BY <1>4, <1>k DEF BeginClose, TypeOK, memory
<1>5. CASE PutSentinel
  BY <1>5, <1>k DEF PutSentinel, TypeOK
<1>6. ASSUME NEW r \in Requests, Lookup(r) PROVE TypeOK'
  <2>1. CachedResult(cache[CacheKey(KeyOf[r])]) \in Results
    BY <1>k, ResultTypes
  <2>2. /\ phase' \in [Requests -> {"unsent", "missed", "waiting", "done"}]
        /\ \A q \in Requests : phase'[q] = "waiting" <=> waitsOn'[q] # None
        /\ reply' \in [Requests -> Results]
    <3>0. /\ phase \in [Requests -> {"unsent", "missed", "waiting", "done"}]
          /\ \A q \in Requests : phase[q] = "waiting" <=> waitsOn[q] # None
          /\ reply \in [Requests -> Results]
      BY DEF TypeOK
    <3>1. phase[r] = "unsent" /\ waitsOn' = waitsOn
      BY <1>6 DEF Lookup
    <3>2. CASE cache[CacheKey(KeyOf[r])].kind = "absent"
      <4>1. phase' = [phase EXCEPT ![r] = "missed"] /\ reply' = reply
        BY <1>6, <3>2 DEF Lookup
      <4>. QED BY <3>0, <3>1, <4>1
    <3>3. CASE cache[CacheKey(KeyOf[r])].kind # "absent"
      <4>1. /\ phase' = [phase EXCEPT ![r] = "done"]
            /\ reply' = [reply EXCEPT ![r] = CachedResult(cache[CacheKey(KeyOf[r])])]
        BY <1>6, <3>3 DEF Lookup
      <4>. QED BY <2>1, <3>0, <3>1, <4>1
    <3>. QED BY <3>2, <3>3
  <2>3. UNCHANGED <<lifecycle, corpus, restarts, waitsOn, queue, inflight, future, worker, job,
                    exec, verdict, cache, uncommitted, metered, paid, lost>>
    BY <1>6 DEF Lookup
  <2>. QED BY <2>2, <2>3 DEF TypeOK
<1>7. ASSUME NEW r \in Requests, Join(r) PROVE TypeOK'
  <2>1. inflight[KeyOf[r]] \in Requests
    BY <1>7, <1>k DEF Join, TypeOK
  <2>. QED BY <1>7, <1>k, <2>1 DEF Join, TypeOK
<1>8. ASSUME NEW r \in Requests, Refuse(r) PROVE TypeOK'
  BY <1>8, <1>k DEF Refuse, TypeOK
<1>9. ASSUME NEW r \in Requests, Lead(r) PROVE TypeOK'
  BY <1>9, <1>k DEF Lead, TypeOK
<1>10. ASSUME NEW r \in Requests, Deliver(r) PROVE TypeOK'
  <2>1. future[waitsOn[r]] \in Results
    BY <1>10 DEF Deliver, TypeOK
  <2>. QED BY <1>10, <1>k, <2>1 DEF Deliver, TypeOK, Resolved
<1>11. ASSUME NEW r \in Requests, Timeout(r) PROVE TypeOK'
  BY <1>11, <1>k DEF Timeout, TypeOK
<1>12. CASE WorkerTakes
  BY <1>12, <1>k DEF WorkerTakes, TypeOK
<1>13. CASE WorkerStops
  BY <1>13, <1>k DEF WorkerStops, TypeOK
<1>14. CASE WorkerResolves
  BY <1>14, <1>k DEF WorkerResolves, TypeOK
<1>15. CASE Recheck
  <2>1. job \in Requests /\ CachedResult(cache[CacheKey(KeyOf[job])]) \in Results
    BY <1>15, <1>k, ResultTypes DEF Recheck, TypeOK
  <2>. QED BY <1>15, <1>k, <2>1 DEF Recheck, TypeOK
<1>16. CASE PolicySucceeds
  BY <1>16, <1>k DEF PolicySucceeds, TypeOK
<1>17. CASE PolicyFails
  <2>1. PICK kind \in Kinds : Finish(Plain(kind))
    BY <1>17 DEF PolicyFails, ProviderFailures, Kinds
  <2>. QED BY <1>17, <1>k, <2>1 DEF PolicyFails, TypeOK
<1>18. CASE Store
  <2>1. job \in Requests /\ cache' \in [Rows -> Results]
    BY <1>18, <1>k DEF Store, Insert, TypeOK
  <2>. QED BY <1>18, <1>k, <2>1 DEF Store, TypeOK
<1>19. CASE StoreFails
  <2>1. job \in Requests /\ CacheKey(KeyOf[job]) \in Rows
    BY <1>19, <1>k DEF StoreFails, TypeOK
  <2>2. cache' \in [Rows -> Results] /\ uncommitted' \subseteq Rows /\ lost' \in [Rows -> Nat]
    <3>1. CASE Rollback
      BY <3>1, RollbackRows
    <3>2. CASE Insert /\ uncommitted' = uncommitted \cup Storing /\ UNCHANGED lost
      BY <1>k, <2>1, <3>2 DEF Insert, Storing, TypeOK
    <3>3. CASE /\ lost' = [lost EXCEPT ![CacheKey(KeyOf[job])] = @ + 1]
               /\ UNCHANGED <<cache, uncommitted>>
      BY <2>1, <3>3 DEF TypeOK
    <3>. QED BY <1>19, <3>1, <3>2, <3>3 DEF StoreFails
  <2>. QED BY <1>19, <1>k, <2>2 DEF StoreFails, TypeOK
<1>20. CASE UNCHANGED vars
  BY <1>20, <1>k DEF vars, memory, TypeOK
<1>. QED
  BY <1>1, <1>2, <1>3, <1>4, <1>5, <1>6, <1>7, <1>8, <1>9, <1>10, <1>11, <1>12, <1>13,
     <1>14, <1>15, <1>16, <1>17, <1>18, <1>19, <1>20
  DEF Next, Handler, WorkerTask, Executor, Lifespan, Stopped

\* Every variable of the service keeps its type, the queue its capacity, and the
\* executor works exactly while the worker holds a request.
THEOREM TypeCorrect == Spec => []TypeOK
<1>1. Init => TypeOK
  BY TypeInit
<1>2. TypeOK /\ [Next]_vars => TypeOK'
  BY TypeStep
<1>. QED BY <1>1, <1>2, PTL DEF Spec

-------------------------------------------------------------------------------
\* The in-flight table, the queue and the worker keep agreeing.

\* A step that leaves the queue, the table, the futures and the worker's item.
LEMMA FlightsFrame ==
  ASSUME FlightsAccounted, UNCHANGED <<queue, inflight, future, job>>
  PROVE  FlightsAccounted'
BY DEF FlightsAccounted, Flying, Leaders, Items, ItemsOf, NoDuplicates

\* A process that ends holds no flight.
LEMMA FlightsEnd == ASSUME TypeOK, EndProcess PROVE FlightsAccounted'
<1>1. /\ queue' = << >> /\ job' = None
      /\ inflight' = [k \in Keys |-> None]
      /\ future' = [r \in Requests |-> Plain("absent")]
  BY DEF EndProcess
<1>2. Leaders' = {} /\ Flying' = {} /\ NoDuplicates(queue')
  BY <1>1, EmptyQueue DEF Flying, Leaders, Items
<1>. QED BY <1>1, <1>2 DEF FlightsAccounted, Plain

LEMMA FlightsStep == ASSUME IndInv, [Next]_vars PROVE FlightsAccounted'
<1> USE DEF IndInv
<1>k. /\ \A r \in Requests : KeyOf[r] \in Keys
      /\ queue \in Seq(Requests \cup {None})
      /\ Items \subseteq Requests \cup {None}
      /\ Flying \subseteq Requests
  <2>1. \A i \in 1..Len(queue) : queue[i] \in Requests \cup {None}
    BY DEF TypeOK
  <2>. QED BY <2>1 DEF TypeOK, Flying, Leaders, Items, ItemsOf
<1>1. CASE StartSucceeds \/ Restart \/ BeginClose \/ Recheck \/ PolicySucceeds \/ PolicyFails
           \/ Store \/ StoreFails \/ UNCHANGED vars
  BY <1>1, FlightsFrame
  DEF StartSucceeds, Restart, BeginClose, Recheck, PolicySucceeds, PolicyFails, Store,
      StoreFails, vars, memory
<1>2. ASSUME NEW r \in Requests,
             Lookup(r) \/ Join(r) \/ Refuse(r) \/ Deliver(r) \/ Timeout(r)
      PROVE FlightsAccounted'
  BY <1>2, FlightsFrame DEF Lookup, Join, Refuse, Deliver, Timeout
<1>3. CASE StartFails \/ Crash \/ CloseEngine
  BY <1>3, FlightsEnd DEF StartFails, Crash, CloseEngine
<1>4. CASE PutSentinel
  <2>1. None \notin Items
    BY <1>4 DEF PutSentinel, SentinelOnlyAtClose
  <2>2. Items' = Items \cup {None} /\ NoDuplicates(queue')
    BY <1>4, <1>k, <2>1, AppendAddsItem DEF PutSentinel, Items, FlightsAccounted
  <2>3. Leaders' = Leaders /\ Flying' = Flying
    BY <1>4, <2>2 DEF PutSentinel, Flying, Leaders
  <2>. QED BY <1>4, <2>2, <2>3 DEF PutSentinel, FlightsAccounted
<1>5. ASSUME NEW r \in Requests, Lead(r) PROVE FlightsAccounted'
  <2>1. r \notin Flying /\ r \notin Items
    BY <1>5, <1>k DEF Lead, NewcomersLeadNothing, FlightsAccounted, Flying, Leaders
  <2>2. Items' = Items \cup {r} /\ NoDuplicates(queue')
    BY <1>5, <1>k, <2>1, AppendAddsItem DEF Lead, Items, FlightsAccounted
  <2>3. Leaders' = Leaders \cup {r} /\ Flying' = Flying \cup {r} /\ job' = job
    BY <1>5, <2>2 DEF Lead, Flying, Leaders
  <2>4. job' \notin Leaders'
    BY <2>1, <2>3, <1>k DEF FlightsAccounted, Flying, TypeOK
  <2>5. ASSUME NEW q \in Requests PROVE q \in Flying' <=> future'[q].kind = "pending"
    BY <1>5, <2>3 DEF Lead, FlightsAccounted, Plain, TypeOK
  <2>6. ASSUME NEW k \in Keys, NEW q \in Requests
        PROVE  inflight'[k] = q <=> q \in Flying' /\ KeyOf[q] = k
    BY <1>5, <1>k, <2>1, <2>3 DEF Lead, FlightsAccounted, TypeOK
  <2>. QED BY <2>2, <2>4, <2>5, <2>6 DEF FlightsAccounted
<1>6. CASE WorkerTakes
  <2>1. /\ Head(queue) \in Items /\ Items' = Items \ {Head(queue)}
        /\ NoDuplicates(queue')
    BY <1>6, <1>k, TailRemovesHead DEF WorkerTakes, Items, FlightsAccounted
  <2>2. job = None /\ job' = Head(queue) /\ job' # None
    BY <1>6 DEF WorkerTakes, TypeOK
  <2>3. Flying' = Flying /\ job' \notin Leaders'
    BY <2>1, <2>2 DEF Flying, Leaders
  <2>. QED BY <1>6, <2>1, <2>3 DEF WorkerTakes, FlightsAccounted
<1>7. CASE WorkerStops
  <2>1. Items' = Items \ {None} /\ NoDuplicates(queue')
    BY <1>7, <1>k, TailRemovesHead DEF WorkerStops, Items, FlightsAccounted
  <2>2. Leaders' = Leaders /\ Flying' = Flying
    BY <1>7, <2>1 DEF WorkerStops, Flying, Leaders
  <2>. QED BY <1>7, <2>1, <2>2 DEF WorkerStops, FlightsAccounted
<1>8. CASE WorkerResolves
  <2>1. job \in Requests /\ job \in Flying /\ job \notin Leaders
    BY <1>8 DEF WorkerResolves, TypeOK, FlightsAccounted, Flying
  <2>2. Leaders' = Leaders /\ Flying' = Flying \ {job}
    BY <1>8, <2>1 DEF WorkerResolves, Flying, Leaders, Items
  <2>3. verdict.kind # "pending"
    BY DEF ResultsAreStored
  <2>4. job' \notin Leaders' /\ NoDuplicates(queue')
    BY <1>8, <2>2 DEF WorkerResolves, Leaders, FlightsAccounted
  <2>5. ASSUME NEW q \in Requests PROVE q \in Flying' <=> future'[q].kind = "pending"
    BY <1>8, <2>2, <2>3 DEF WorkerResolves, FlightsAccounted, TypeOK
  <2>6. ASSUME NEW k \in Keys, NEW q \in Requests
        PROVE  inflight'[k] = q <=> q \in Flying' /\ KeyOf[q] = k
    <3>1. inflight'[k] = IF k = KeyOf[job] THEN None ELSE inflight[k]
      BY <1>8, <1>k, <2>1 DEF WorkerResolves, TypeOK
    <3>2. inflight[KeyOf[job]] = job
      BY <1>k, <2>1 DEF FlightsAccounted
    <3>. QED BY <2>1, <2>2, <3>1, <3>2 DEF FlightsAccounted
  <2>. QED BY <2>4, <2>5, <2>6 DEF FlightsAccounted
<1>. QED
  BY <1>1, <1>2, <1>3, <1>4, <1>5, <1>6, <1>7, <1>8
  DEF Next, Handler, WorkerTask, Executor, Lifespan, Stopped

-------------------------------------------------------------------------------
\* Who waits keeps a future of its own key that is resolved or in flight.
LEMMA WaitersStep == ASSUME IndInv, [Next]_vars PROVE WaitersRideAFlight'
<1> USE DEF IndInv
<1>k. \A r \in Requests : KeyOf[r] \in Keys
  OBVIOUS
<1>1. CASE StartSucceeds \/ Restart \/ BeginClose \/ PutSentinel \/ WorkerTakes \/ WorkerStops
           \/ Recheck \/ PolicySucceeds \/ PolicyFails \/ Store \/ StoreFails \/ UNCHANGED vars
  <2>1. UNCHANGED <<phase, waitsOn, future, inflight>>
    BY <1>1
    DEF StartSucceeds, Restart, BeginClose, PutSentinel, WorkerTakes, WorkerStops, Recheck,
        PolicySucceeds, PolicyFails, Store, StoreFails, vars, memory
  <2>. QED BY <2>1 DEF WaitersRideAFlight
<1>2. CASE StartFails \/ Crash \/ CloseEngine
  <2>1. phase' = [r \in Requests |->
                   IF phase[r] \in {"missed", "waiting"} THEN "done" ELSE phase[r]]
    BY <1>2 DEF StartFails, Crash, CloseEngine, EndProcess
  <2>2. \A r \in Requests : phase'[r] # "waiting"
    BY <2>1
  <2>. QED BY <2>2 DEF WaitersRideAFlight
<1>3. ASSUME NEW r \in Requests, Lookup(r) \/ Refuse(r) \/ Deliver(r) \/ Timeout(r)
      PROVE WaitersRideAFlight'
  <2>1. /\ UNCHANGED <<future, inflight>>
        /\ \A q \in Requests : phase'[q] = "waiting" =>
             phase[q] = "waiting" /\ waitsOn'[q] = waitsOn[q]
    BY <1>3 DEF Lookup, Refuse, Deliver, Timeout, TypeOK
  <2>. QED BY <2>1 DEF WaitersRideAFlight
<1>4. ASSUME NEW r \in Requests, Join(r) PROVE WaitersRideAFlight'
  <2>1. /\ inflight[KeyOf[r]] \in Requests
        /\ KeyOf[inflight[KeyOf[r]]] = KeyOf[r]
        /\ future[inflight[KeyOf[r]]].kind = "pending"
    <3>1. inflight[KeyOf[r]] \in Requests
      BY <1>4, <1>k DEF Join, TypeOK
    <3>2. inflight[KeyOf[r]] \in Flying /\ KeyOf[inflight[KeyOf[r]]] = KeyOf[r]
      BY <1>k, <3>1 DEF FlightsAccounted
    <3>. QED BY <3>1, <3>2 DEF FlightsAccounted
  <2>2. /\ UNCHANGED <<future, inflight>>
        /\ waitsOn'[r] = inflight[KeyOf[r]]
        /\ \A q \in Requests \ {r} : phase'[q] = phase[q] /\ waitsOn'[q] = waitsOn[q]
    BY <1>4 DEF Join, TypeOK
  <2>. QED BY <2>1, <2>2 DEF WaitersRideAFlight
<1>5. ASSUME NEW r \in Requests, Lead(r) PROVE WaitersRideAFlight'
  <2>1. future[r].kind = "absent" /\ inflight[KeyOf[r]] = None
    BY <1>5 DEF Lead, NewcomersLeadNothing
  <2>2. /\ future'[r].kind = "pending" /\ inflight'[KeyOf[r]] = r /\ waitsOn'[r] = r
        /\ \A q \in Requests \ {r} :
             phase'[q] = phase[q] /\ waitsOn'[q] = waitsOn[q] /\ future'[q] = future[q]
        /\ \A k \in Keys \ {KeyOf[r]} : inflight'[k] = inflight[k]
    BY <1>5, <1>k DEF Lead, Plain, TypeOK
  <2>3. ASSUME NEW q \in Requests \ {r}, phase[q] = "waiting"
        PROVE  /\ waitsOn[q] \in Requests \ {r}
               /\ future[waitsOn[q]].kind = "pending" => KeyOf[q] # KeyOf[r]
    BY <2>1, <2>3 DEF WaitersRideAFlight
  <2>. QED BY <1>k, <2>2, <2>3 DEF WaitersRideAFlight
<1>6. CASE WorkerResolves
  <2>1. /\ job \in Requests /\ inflight[KeyOf[job]] = job
        /\ verdict.kind \notin {"absent", "pending"}
    <3>1. job \in Requests /\ job \in Flying
      BY <1>6 DEF WorkerResolves, TypeOK, Flying
    <3>. QED BY <1>6, <1>k, <3>1 DEF WorkerResolves, FlightsAccounted, ResultsAreStored
  <2>2. /\ UNCHANGED <<phase, waitsOn>>
        /\ \A q \in Requests : future'[q] = IF q = job THEN verdict ELSE future[q]
        /\ \A k \in Keys \ {KeyOf[job]} : inflight'[k] = inflight[k]
    BY <1>6, <1>k, <2>1 DEF WorkerResolves, TypeOK
  <2>3. ASSUME NEW q \in Requests, phase[q] = "waiting", waitsOn[q] # job,
               future[waitsOn[q]].kind = "pending"
        PROVE  KeyOf[q] # KeyOf[job]
    BY <2>1, <2>3 DEF WaitersRideAFlight
  <2>. QED BY <1>k, <2>1, <2>2, <2>3 DEF WaitersRideAFlight
<1>. QED
  BY <1>1, <1>2, <1>3, <1>4, <1>5, <1>6
  DEF Next, Handler, WorkerTask, Executor, Lifespan, Stopped

-------------------------------------------------------------------------------
\* The cache: what a step of the executor does to rows, and what the rest leaves.

\* A row changes only when the executor inserts the answer of its item, or by a rollback.
LEMMA CacheFrame ==
  ASSUME TypeOK, [Next]_vars
  PROVE  \/ exec = "storing" /\ Insert /\ uncommitted' \subseteq uncommitted \cup Storing
         \/ Rollback
         \/ UNCHANGED <<cache, uncommitted>>
<1>1. CASE Store \/ StoreFails
  BY <1>1 DEF Store, StoreFails
<1>2. CASE StartFails \/ Crash \/ CloseEngine
  BY <1>2 DEF StartFails, Crash, CloseEngine, EndProcess
<1>3. CASE UNCHANGED <<cache, uncommitted>>
  BY <1>3
<1>. QED
  BY <1>1, <1>2, <1>3
  DEF Next, Handler, WorkerTask, Executor, Lifespan, Stopped, Lookup, Join, Refuse, Lead,
      Deliver, Timeout, WorkerTakes, WorkerStops, WorkerResolves, Recheck, PolicySucceeds,
      PolicyFails, StartSucceeds, BeginClose, PutSentinel, Restart, vars

\* The corpus version changes only between processes.
LEMMA CorpusFrame ==
  ASSUME TypeOK, [Next]_vars
  PROVE  Restart \/ corpus' = corpus
BY DEF Next, Handler, WorkerTask, Executor, Lifespan, Stopped, Lookup, Join, Refuse, Lead,
       Deliver, Timeout, WorkerTakes, WorkerStops, WorkerResolves, Recheck, PolicySucceeds,
       PolicyFails, Store, StoreFails, StartSucceeds, StartFails, BeginClose, PutSentinel,
       CloseEngine, Crash, EndProcess, vars

\* An insert changes the row of the worker's item, from absent to its answer.
LEMMA StoreRow ==
  ASSUME IndInv, exec = "storing", Insert
  PROVE  /\ job \in Requests /\ job \in Flying /\ inflight[KeyOf[job]] = job
         /\ CacheKey(KeyOf[job]) \in Rows
         /\ cache[CacheKey(KeyOf[job])].kind = "absent"
         /\ cache'[CacheKey(KeyOf[job])] = Answer(corpus, KeyOf[job])
         /\ \A row \in Rows : row # CacheKey(KeyOf[job]) => cache'[row] = cache[row]
<1>1. job \in Requests /\ job \in Flying
  BY DEF IndInv, TypeOK, Flying
<1>2. CacheKey(KeyOf[job]) \in Rows
  BY <1>1, KeyTypes DEF IndInv
<1>3. inflight[KeyOf[job]] = job
  BY <1>1 DEF IndInv, FlightsAccounted
<1>. QED BY <1>1, <1>2, <1>3 DEF IndInv, Insert, TypeOK, AdmittedMissStaysMiss

\* Rows hold the answers of their own keys.
LEMMA RowsStep == ASSUME IndInv, [Next]_vars PROVE RowsHoldTheirAnswer'
<1>k. uncommitted \subseteq Rows /\ Rows' = Rows
  BY DEF IndInv, TypeOK, Rows
<1>1. CASE exec = "storing" /\ Insert /\ uncommitted' \subseteq uncommitted \cup Storing
  <2>1. \A row \in Rows : row = CacheKey(KeyOf[job]) => row[1] = corpus /\ row[2] = KeyOf[job]
    BY DEF CacheKey
  <2>2. ASSUME NEW row \in uncommitted' PROVE cache'[row].kind = "answered"
    BY <1>1, <1>k, <2>2, StoreRow DEF Storing, IndInv, RowsHoldTheirAnswer, Answer
  <2>. QED BY <1>1, <1>k, <2>1, <2>2, StoreRow DEF IndInv, RowsHoldTheirAnswer, Answer
<1>2. CASE Rollback
  BY <1>2, <1>k, RollbackRows DEF IndInv, RowsHoldTheirAnswer, Plain
<1>3. CASE UNCHANGED <<cache, uncommitted>>
  BY <1>3, <1>k DEF IndInv, RowsHoldTheirAnswer
<1>. QED BY <1>1, <1>2, <1>3, CacheFrame DEF IndInv

\* A key without a row, other than that of the item being stored, gets none.
LEMMA AbsentStays ==
  ASSUME IndInv, [Next]_vars, NEW r \in Requests,
         cache[CacheKey(KeyOf[r])].kind = "absent",
         exec = "storing" => KeyOf[r] # KeyOf[job]
  PROVE  cache'[CacheKey(KeyOf[r])].kind = "absent"
<1>k. CacheKey(KeyOf[r]) \in Rows
  BY KeyTypes DEF IndInv
<1>1. CASE exec = "storing" /\ Insert
  <2>1. CacheKey(KeyOf[r]) # CacheKey(KeyOf[job])
    BY <1>1 DEF CacheKey
  <2>. QED BY <1>1, <1>k, <2>1, StoreRow
<1>2. CASE Rollback
  BY <1>2, <1>k, RollbackRows DEF IndInv, Plain
<1>. QED BY <1>1, <1>2, CacheFrame DEF IndInv

\* A key that is queued or with the executor has no row yet.
LEMMA AdmittedStep == ASSUME IndInv, [Next]_vars PROVE AdmittedMissStaysMiss'
<1> USE DEF IndInv
<1>k. /\ \A r \in Requests : KeyOf[r] \in Keys /\ CacheKey(KeyOf[r]) \in Rows
      /\ \A i \in 1..Len(queue) : queue[i] \in Requests \cup {None}
      /\ Leaders \subseteq Requests
      /\ queue \in Seq(Requests \cup {None})
  BY KeyTypes DEF TypeOK, Leaders, Items, ItemsOf
<1>1. CASE StartSucceeds \/ Restart \/ BeginClose \/ UNCHANGED vars
  <2>1. UNCHANGED <<queue, exec, job, cache>>
    BY <1>1 DEF StartSucceeds, Restart, BeginClose, vars, memory
  <2>2. CASE corpus' = corpus
    BY <2>1, <2>2 DEF AdmittedMissStaysMiss, Leaders, Items, ItemsOf, CacheKey
  <2>3. CASE Restart
    <3>1. queue = << >> /\ exec = "idle"
      BY <2>3 DEF Restart, StoppedHoldsNothing, Started, TypeOK
    <3>. QED BY <2>1, <3>1, EmptyQueue DEF AdmittedMissStaysMiss, Leaders, Items
  <2>. QED BY <1>1, <2>2, <2>3, CorpusFrame
<1>2. ASSUME NEW r \in Requests,
             Lookup(r) \/ Join(r) \/ Refuse(r) \/ Deliver(r) \/ Timeout(r)
      PROVE AdmittedMissStaysMiss'
  BY <1>2 DEF Lookup, Join, Refuse, Deliver, Timeout, AdmittedMissStaysMiss, Leaders, Items,
              ItemsOf, CacheKey
<1>3. CASE StartFails \/ Crash \/ CloseEngine
  <2>1. queue' = << >> /\ exec' = "idle"
    BY <1>3 DEF StartFails, Crash, CloseEngine, EndProcess
  <2>. QED BY <2>1, EmptyQueue DEF AdmittedMissStaysMiss, Leaders, Items
<1>4. CASE PutSentinel
  <2>1. Items' = Items \cup {None}
    BY <1>4, <1>k, AppendAddsItem DEF PutSentinel, Items
  <2>. QED BY <1>4, <2>1 DEF PutSentinel, AdmittedMissStaysMiss, Leaders, CacheKey
<1>5. ASSUME NEW r \in Requests, Lead(r) PROVE AdmittedMissStaysMiss'
  <2>1. Items' = Items \cup {r}
    BY <1>5, <1>k, AppendAddsItem DEF Lead, Items
  <2>2. cache[CacheKey(KeyOf[r])].kind = "absent"
    BY <1>5 DEF Lead, MissIsFresh
  <2>. QED BY <1>5, <2>1, <2>2 DEF Lead, AdmittedMissStaysMiss, Leaders, CacheKey
<1>6. CASE WorkerTakes \/ WorkerStops
  <2>1. /\ Head(queue) \in Items /\ Items' = Items \ {Head(queue)}
        /\ UNCHANGED <<cache, corpus>>
    BY <1>6, TailRemovesHead DEF WorkerTakes, WorkerStops, Items, FlightsAccounted, TypeOK
  <2>2. CASE WorkerTakes
    BY <2>1, <2>2 DEF WorkerTakes, AdmittedMissStaysMiss, Leaders, CacheKey
  <2>3. CASE WorkerStops
    BY <2>1, <2>3 DEF WorkerStops, AdmittedMissStaysMiss, Leaders, CacheKey
  <2>. QED BY <1>6, <2>2, <2>3
<1>7. CASE WorkerResolves \/ Recheck \/ PolicySucceeds \/ PolicyFails
  <2>1. /\ UNCHANGED <<queue, cache, corpus>>
        /\ exec' \in {"checking", "computing", "storing"} =>
             exec \in {"checking", "computing", "storing"} /\ job' = job
    BY <1>7 DEF WorkerResolves, Recheck, PolicySucceeds, PolicyFails, Finish
  <2>. QED BY <2>1 DEF AdmittedMissStaysMiss, Leaders, Items, ItemsOf, CacheKey
<1>8. CASE Store \/ StoreFails
  <2>1. /\ UNCHANGED <<queue, corpus>> /\ exec = "storing" /\ exec' = "finished"
        /\ Leaders' = Leaders
    BY <1>8 DEF Store, StoreFails, Finish, Leaders, Items, ItemsOf
  <2>2. ASSUME NEW r \in Leaders PROVE cache'[CacheKey(KeyOf[r])].kind = "absent"
    <3>1. job \in Requests /\ job \in Flying /\ r \in Flying /\ job # r
      BY <1>k, <2>1 DEF TypeOK, FlightsAccounted, Flying
    <3>2. KeyOf[r] # KeyOf[job]
      BY <1>k, <3>1 DEF FlightsAccounted
    <3>. QED BY <1>k, <3>2, AbsentStays DEF AdmittedMissStaysMiss
  <2>. QED BY <1>k, <2>1, <2>2 DEF AdmittedMissStaysMiss, CacheKey
<1>. QED
  BY <1>1, <1>2, <1>3, <1>4, <1>5, <1>6, <1>7, <1>8
  DEF Next, Handler, WorkerTask, Executor, Lifespan, Stopped

\* Between the two reads of submit(), a key without a flight still has no row.
LEMMA FreshStep == ASSUME IndInv, [Next]_vars PROVE MissIsFresh'
<1> USE DEF IndInv
<1>k. \A r \in Requests : KeyOf[r] \in Keys /\ CacheKey(KeyOf[r]) \in Rows
  BY KeyTypes
<1>1. CASE StartFails \/ Crash \/ CloseEngine
  <2>1. phase' = [r \in Requests |->
                   IF phase[r] \in {"missed", "waiting"} THEN "done" ELSE phase[r]]
    BY <1>1 DEF StartFails, Crash, CloseEngine, EndProcess
  <2>2. \A r \in Requests : phase'[r] # "missed"
    BY <2>1
  <2>. QED BY <2>2 DEF MissIsFresh
<1>2. CASE Restart
  <2>1. \A r \in Requests : phase'[r] # "missed"
    BY <1>2 DEF Restart, StoppedHoldsNothing, Started, memory
  <2>. QED BY <2>1 DEF MissIsFresh
<1>3. CASE WorkerResolves
  <2>1. \A r \in Requests : phase'[r] # "missed"
    BY <1>3 DEF WorkerResolves, LoopFree
  <2>. QED BY <2>1 DEF MissIsFresh
<1>4. ASSUME NEW r \in Requests, Lookup(r) PROVE MissIsFresh'
  <2>1. /\ UNCHANGED <<cache, inflight, corpus>>
        /\ \A q \in Requests \ {r} : phase'[q] = phase[q]
        /\ phase'[r] = "missed" => cache[CacheKey(KeyOf[r])].kind = "absent"
    BY <1>4 DEF Lookup, TypeOK
  <2>. QED BY <2>1 DEF MissIsFresh, CacheKey
<1>5. ASSUME NEW r \in Requests,
             Join(r) \/ Refuse(r) \/ Lead(r) \/ Deliver(r) \/ Timeout(r)
      PROVE MissIsFresh'
  <2>1. /\ UNCHANGED <<cache, corpus>>
        /\ phase'[r] # "missed"
        /\ \A q \in Requests \ {r} : phase'[q] = phase[q]
        /\ \A k \in Keys : inflight'[k] = None => inflight[k] = None
    BY <1>5, <1>k DEF Join, Refuse, Lead, Deliver, Timeout, TypeOK
  <2>. QED BY <1>k, <2>1 DEF MissIsFresh, CacheKey
<1>6. CASE StartSucceeds \/ BeginClose \/ PutSentinel \/ WorkerTakes \/ WorkerStops \/ Recheck
           \/ PolicySucceeds \/ PolicyFails \/ UNCHANGED vars
  <2>1. UNCHANGED <<cache, inflight, corpus, phase>>
    BY <1>6
    DEF StartSucceeds, BeginClose, PutSentinel, WorkerTakes, WorkerStops, Recheck,
        PolicySucceeds, PolicyFails, vars, memory
  <2>. QED BY <2>1 DEF MissIsFresh, CacheKey
<1>7. CASE Store \/ StoreFails
  <2>1. UNCHANGED <<inflight, phase, corpus>> /\ exec = "storing"
    BY <1>7 DEF Store, StoreFails
  <2>2. ASSUME NEW r \in Requests, phase[r] = "missed", inflight[KeyOf[r]] = None
        PROVE  cache'[CacheKey(KeyOf[r])].kind = "absent"
    <3>1. job \in Requests /\ inflight[KeyOf[job]] = job
      BY <1>k, <2>1 DEF TypeOK, FlightsAccounted, Flying
    <3>2. KeyOf[r] # KeyOf[job]
      BY <2>2, <3>1
    <3>. QED BY <2>2, <3>2, AbsentStays DEF MissIsFresh
  <2>. QED BY <2>1, <2>2 DEF MissIsFresh, CacheKey
<1>. QED
  BY <1>1, <1>2, <1>3, <1>4, <1>5, <1>6, <1>7
  DEF Next, Handler, WorkerTask, Executor, Lifespan, Stopped

-------------------------------------------------------------------------------
\* Successful inferences stay accounted for.

\* A step that touches neither the executor's item nor the accounts.
LEMMA AccountFrame ==
  ASSUME IndInv, UNCHANGED <<cache, uncommitted, paid, lost, corpus>>,
         exec' = "storing" <=> exec = "storing",
         exec = "storing" => job' = job
  PROVE  InferencePaidOnce'
BY DEF IndInv, InferencePaidOnce, Rows, CacheKey

\* What was paid for an answer that a rollback takes back, or for the one being stored,
\* is lost.
LEMMA RollbackAccounts ==
  ASSUME IndInv, Rollback, NEW row \in Rows
  PROVE  /\ paid[row] = (IF cache'[row].kind = "answered" THEN 1 ELSE 0) + lost'[row]
         /\ lost'[row] \in Nat
<1> USE DEF IndInv
<1>k. lost[row] \in Nat /\ paid[row] \in Nat
  BY DEF TypeOK
<1>1. CASE row \in uncommitted
  <2>1. cache[row].kind = "answered" /\ cache'[row].kind = "absent" /\ lost'[row] = lost[row] + 1
    BY <1>1, RollbackRows DEF RowsHoldTheirAnswer, Plain
  <2>2. ~(exec = "storing" /\ row = CacheKey(KeyOf[job]))
    BY <2>1 DEF AdmittedMissStaysMiss
  <2>. QED BY <1>k, <2>1, <2>2 DEF InferencePaidOnce
<1>2. CASE row \notin uncommitted /\ row \in Storing
  <2>1. exec = "storing" /\ row = CacheKey(KeyOf[job]) /\ cache[row].kind = "absent"
    BY <1>2 DEF Storing, AdmittedMissStaysMiss
  <2>2. cache'[row] = cache[row] /\ lost'[row] = lost[row] + 1
    BY <1>2, RollbackRows
  <2>. QED BY <1>k, <2>1, <2>2 DEF InferencePaidOnce
<1>3. CASE row \notin uncommitted /\ row \notin Storing
  <2>1. cache'[row] = cache[row] /\ lost'[row] = lost[row]
    BY <1>3, RollbackRows
  <2>2. ~(exec = "storing" /\ row = CacheKey(KeyOf[job]))
    BY <1>3 DEF Storing
  <2>. QED BY <1>k, <2>1, <2>2 DEF InferencePaidOnce
<1>. QED BY <1>1, <1>2, <1>3

\* An answer that is inserted is accounted for by its row, committed or not.
LEMMA InsertAccounts ==
  ASSUME IndInv, exec = "storing", Insert, NEW row \in Rows
  PROVE  paid[row] = (IF cache'[row].kind = "answered" THEN 1 ELSE 0) + lost[row]
<1>k. lost[row] \in Nat /\ paid[row] \in Nat
  BY DEF IndInv, TypeOK
<1>1. CASE row = CacheKey(KeyOf[job])
  <2>1. cache[row].kind = "absent" /\ cache'[row].kind = "answered"
    BY <1>1, StoreRow DEF Answer
  <2>. QED BY <1>k, <1>1, <2>1 DEF IndInv, InferencePaidOnce
<1>2. CASE row # CacheKey(KeyOf[job])
  BY <1>k, <1>2, StoreRow DEF IndInv, InferencePaidOnce
<1>. QED BY <1>1, <1>2

LEMMA PaidStep == ASSUME IndInv, [Next]_vars PROVE InferencePaidOnce'
<1> USE DEF IndInv
<1>k. /\ \A r \in Requests : CacheKey(KeyOf[r]) \in Rows
      /\ Rows' = Rows
  BY KeyTypes DEF Rows
<1>1. CASE StartSucceeds \/ BeginClose \/ PutSentinel \/ WorkerTakes \/ WorkerStops \/ Recheck
           \/ PolicyFails \/ WorkerResolves \/ UNCHANGED vars
  <2>1. exec = "storing" => job \in Requests /\ worker = "busy"
    BY DEF TypeOK
  <2>. QED
    BY <1>1, <2>1, AccountFrame
    DEF StartSucceeds, BeginClose, PutSentinel, WorkerTakes, WorkerStops, Recheck, PolicyFails,
        WorkerResolves, Finish, vars, memory
<1>2. ASSUME NEW r \in Requests,
             Lookup(r) \/ Join(r) \/ Refuse(r) \/ Lead(r) \/ Deliver(r) \/ Timeout(r)
      PROVE InferencePaidOnce'
  BY <1>2, AccountFrame DEF Lookup, Join, Refuse, Lead, Deliver, Timeout
<1>3. CASE Restart
  <2>1. exec = "idle" /\ UNCHANGED <<cache, uncommitted, paid, lost, exec>>
    BY <1>3 DEF Restart, StoppedHoldsNothing, Started, TypeOK, memory
  <2>. QED BY <1>k, <2>1 DEF InferencePaidOnce
<1>4. CASE StartFails \/ Crash \/ CloseEngine
  <2>1. Rollback /\ UNCHANGED paid /\ exec' = "idle"
    BY <1>4 DEF StartFails, Crash, CloseEngine, EndProcess
  <2>. QED BY <1>k, <2>1, RollbackAccounts DEF InferencePaidOnce
<1>5. CASE PolicySucceeds
  <2>1. job \in Requests /\ CacheKey(KeyOf[job]) \in Rows
    BY <1>5, <1>k DEF PolicySucceeds, TypeOK
  <2>2. /\ UNCHANGED <<cache, lost, job, corpus>> /\ exec = "computing" /\ exec' = "storing"
        /\ CacheKey(KeyOf[job])' = CacheKey(KeyOf[job])
    BY <1>5 DEF PolicySucceeds, CacheKey
  <2>3. \A row \in Rows : paid'[row] =
          paid[row] + (IF row = CacheKey(KeyOf[job]) THEN 1 ELSE 0)
    BY <1>5, <2>1 DEF PolicySucceeds, TypeOK
  <2>. QED BY <1>k, <2>1, <2>2, <2>3 DEF InferencePaidOnce, TypeOK
<1>6. CASE Store
  <2>1. UNCHANGED <<paid, lost>> /\ exec = "storing" /\ exec' = "finished" /\ Insert
    BY <1>6 DEF Store, Finish
  <2>2. \A row \in Rows : lost[row] \in Nat
    BY DEF TypeOK
  <2>. QED BY <1>k, <2>1, <2>2, InsertAccounts DEF InferencePaidOnce
<1>7. CASE StoreFails
  <2>1. job \in Requests /\ CacheKey(KeyOf[job]) \in Rows
    BY <1>7, <1>k DEF StoreFails, TypeOK
  <2>2. UNCHANGED paid /\ exec = "storing" /\ exec' = "finished"
    BY <1>7 DEF StoreFails, Finish
  <2>3. ASSUME NEW row \in Rows
        PROVE  /\ paid[row] = (IF cache'[row].kind = "answered" THEN 1 ELSE 0) + lost'[row]
               /\ lost'[row] \in Nat
    <3>1. CASE Rollback
      BY <3>1, RollbackAccounts
    <3>2. CASE Insert /\ UNCHANGED lost
      BY <2>2, <3>2, InsertAccounts DEF TypeOK
    <3>3. CASE /\ lost' = [lost EXCEPT ![CacheKey(KeyOf[job])] = @ + 1]
               /\ UNCHANGED <<cache, uncommitted>>
      <4>1. lost'[row] = lost[row] + (IF row = CacheKey(KeyOf[job]) THEN 1 ELSE 0)
        BY <2>1, <3>3 DEF TypeOK
      <4>2. /\ lost[row] \in Nat /\ paid[row] \in Nat
            /\ row = CacheKey(KeyOf[job]) => cache[row].kind = "absent"
        BY <2>2 DEF TypeOK, AdmittedMissStaysMiss
      <4>. QED BY <2>2, <3>3, <4>1, <4>2 DEF InferencePaidOnce
    <3>. QED BY <1>7, <3>1, <3>2, <3>3 DEF StoreFails
  <2>. QED BY <1>k, <2>2, <2>3 DEF InferencePaidOnce
<1>. QED
  BY <1>1, <1>2, <1>3, <1>4, <1>5, <1>6, <1>7
  DEF Next, Handler, WorkerTask, Executor, Lifespan, Stopped

-------------------------------------------------------------------------------
\* The sentinel, the stopped process and the newcomers.

LEMMA SentinelStep == ASSUME IndInv, [Next]_vars PROVE SentinelOnlyAtClose'
<1> USE DEF IndInv
<1>k. queue \in Seq(Requests \cup {None}) /\ NoDuplicates(queue)
  BY DEF TypeOK, FlightsAccounted
<1>1. CASE StartFails \/ Crash \/ CloseEngine
  BY <1>1, EmptyQueue
  DEF StartFails, Crash, CloseEngine, EndProcess, SentinelOnlyAtClose, Items
<1>2. CASE PutSentinel
  BY <1>2 DEF PutSentinel, SentinelOnlyAtClose
<1>3. ASSUME NEW r \in Requests, Lead(r) PROVE SentinelOnlyAtClose'
  <2>1. Items' = Items \cup {r} /\ lifecycle' = lifecycle
    BY <1>3, <1>k, AppendAddsItem DEF Lead, Items
  <2>. QED BY <2>1 DEF SentinelOnlyAtClose
<1>4. CASE WorkerTakes \/ WorkerStops
  <2>1. Items' \subseteq Items /\ lifecycle' = lifecycle
    BY <1>4, <1>k, TailRemovesHead DEF WorkerTakes, WorkerStops, Items
  <2>. QED BY <2>1 DEF SentinelOnlyAtClose
<1>5. ASSUME NEW r \in Requests,
             Lookup(r) \/ Join(r) \/ Refuse(r) \/ Deliver(r) \/ Timeout(r)
      PROVE SentinelOnlyAtClose'
  BY <1>5 DEF Lookup, Join, Refuse, Deliver, Timeout, SentinelOnlyAtClose, Items, ItemsOf
<1>6. CASE StartSucceeds \/ Restart \/ BeginClose
  <2>1. queue' = queue /\ lifecycle # "draining"
    BY <1>6 DEF StartSucceeds, Restart, BeginClose, memory
  <2>. QED BY <2>1 DEF SentinelOnlyAtClose, Items, ItemsOf
<1>7. CASE WorkerResolves \/ Recheck \/ PolicySucceeds \/ PolicyFails \/ Store \/ StoreFails
           \/ UNCHANGED vars
  <2>1. queue' = queue /\ lifecycle' = lifecycle
    BY <1>7 DEF WorkerResolves, Recheck, PolicySucceeds, PolicyFails, Store, StoreFails, vars,
                memory
  <2>. QED BY <2>1 DEF SentinelOnlyAtClose, Items, ItemsOf
<1>. QED
  BY <1>1, <1>2, <1>3, <1>4, <1>5, <1>6, <1>7
  DEF Next, Handler, WorkerTask, Executor, Lifespan, Stopped

LEMMA StoppedStep == ASSUME IndInv, [Next]_vars PROVE StoppedHoldsNothing'
<1> USE DEF IndInv
<1>1. CASE StartFails \/ Crash \/ CloseEngine
  <2>1. /\ queue' = << >> /\ job' = None /\ uncommitted' = {}
        /\ \A r \in Requests : phase'[r] \in {"unsent", "done"} /\ future'[r].kind = "absent"
    BY <1>1 DEF StartFails, Crash, CloseEngine, EndProcess, Rollback, Plain, TypeOK
  <2>. QED BY <2>1 DEF StoppedHoldsNothing
<1>2. CASE Restart \/ UNCHANGED vars
  <2>1. /\ UNCHANGED <<queue, job, phase, future, uncommitted>>
        /\ Started' => Started
    BY <1>2 DEF Restart, vars, memory, Started
  <2>2. Started => Started'
    BY <1>2 DEF Restart, vars, Started
  <2>. QED BY <2>1, <2>2 DEF StoppedHoldsNothing
<1>3. CASE StartSucceeds \/ BeginClose \/ PutSentinel
  <2>1. Started'
    BY <1>3 DEF StartSucceeds, BeginClose, PutSentinel, Started
  <2>. QED BY <2>1 DEF StoppedHoldsNothing
<1>4. ASSUME NEW r \in Requests,
             Lookup(r) \/ Join(r) \/ Refuse(r) \/ Lead(r) \/ Deliver(r) \/ Timeout(r)
      PROVE StoppedHoldsNothing'
  <2>1. Started
    BY <1>4 DEF Lookup, Join, Refuse, Lead, Deliver, Timeout, Accepting, StoppedHoldsNothing,
                Started
  <2>2. Started'
    BY <1>4, <2>1 DEF Lookup, Join, Refuse, Lead, Deliver, Timeout, Started
  <2>. QED BY <2>2 DEF StoppedHoldsNothing
<1>5. CASE WorkerTakes \/ WorkerStops \/ WorkerResolves \/ Recheck \/ PolicySucceeds
           \/ PolicyFails \/ Store \/ StoreFails
  <2>1. Started
    BY <1>5
    DEF WorkerTakes, WorkerStops, WorkerResolves, Recheck, PolicySucceeds, PolicyFails, Store,
        StoreFails, StoppedHoldsNothing, TypeOK
  <2>2. Started'
    BY <1>5, <2>1
    DEF WorkerTakes, WorkerStops, WorkerResolves, Recheck, PolicySucceeds, PolicyFails, Store,
        StoreFails, Started
  <2>. QED BY <2>2 DEF StoppedHoldsNothing
<1>. QED
  BY <1>1, <1>2, <1>3, <1>4, <1>5
  DEF Next, Handler, WorkerTask, Executor, Lifespan, Stopped

LEMMA NewcomersStep == ASSUME IndInv, [Next]_vars PROVE NewcomersLeadNothing'
<1> USE DEF IndInv
<1>1. CASE StartFails \/ Crash \/ CloseEngine
  <2>1. \A r \in Requests : future'[r].kind = "absent"
    BY <1>1 DEF StartFails, Crash, CloseEngine, EndProcess, Plain
  <2>. QED BY <2>1 DEF NewcomersLeadNothing
<1>2. CASE StartSucceeds \/ Restart \/ BeginClose \/ PutSentinel \/ WorkerTakes \/ WorkerStops
           \/ Recheck \/ PolicySucceeds \/ PolicyFails \/ Store \/ StoreFails \/ UNCHANGED vars
  <2>1. UNCHANGED <<phase, future>>
    BY <1>2
    DEF StartSucceeds, Restart, BeginClose, PutSentinel, WorkerTakes, WorkerStops, Recheck,
        PolicySucceeds, PolicyFails, Store, StoreFails, vars, memory
  <2>. QED BY <2>1 DEF NewcomersLeadNothing
<1>3. ASSUME NEW r \in Requests,
             Lookup(r) \/ Join(r) \/ Refuse(r) \/ Deliver(r) \/ Timeout(r)
      PROVE NewcomersLeadNothing'
  <2>1. /\ future' = future
        /\ \A q \in Requests :
             phase'[q] \in {"unsent", "missed"} => phase[q] \in {"unsent", "missed"}
    BY <1>3 DEF Lookup, Join, Refuse, Deliver, Timeout, TypeOK
  <2>. QED BY <2>1 DEF NewcomersLeadNothing
<1>4. ASSUME NEW r \in Requests, Lead(r) PROVE NewcomersLeadNothing'
  <2>1. /\ phase'[r] = "waiting"
        /\ \A q \in Requests \ {r} : phase'[q] = phase[q] /\ future'[q] = future[q]
    BY <1>4 DEF Lead, TypeOK
  <2>. QED BY <2>1 DEF NewcomersLeadNothing
<1>5. CASE WorkerResolves
  <2>1. job \in Requests /\ future[job].kind = "pending"
    BY <1>5 DEF WorkerResolves, TypeOK, FlightsAccounted, Flying
  <2>2. /\ phase' = phase
        /\ \A q \in Requests \ {job} : future'[q] = future[q]
    BY <1>5, <2>1 DEF WorkerResolves, TypeOK
  <2>. QED BY <2>1, <2>2 DEF NewcomersLeadNothing
<1>. QED
  BY <1>1, <1>2, <1>3, <1>4, <1>5
  DEF Next, Handler, WorkerTask, Executor, Lifespan, Stopped

-------------------------------------------------------------------------------
\* An answer in a future or a verdict is the stored answer of its key.

\* Within a process, what was committed for a key stays stored for it.
LEMMA StoredStays ==
  ASSUME IndInv, [Next]_vars, corpus' = corpus, NEW result, NEW k \in Keys,
         StoredFor(result, k)
  PROVE  result.kind = "answered" =>
           /\ result.key = k /\ result.corpus = corpus'
           /\ cache'[CacheKey(k)].kind = "answered" /\ CacheKey(k) \notin uncommitted'
           /\ CacheKey(k)' = CacheKey(k)
<1>1. CacheKey(k) \in Rows /\ CacheKey(k)' = CacheKey(k)
  BY DEF IndInv, TypeOK, Rows, CacheKey
<1>2. CASE exec = "storing" /\ Insert /\ uncommitted' \subseteq uncommitted \cup Storing
  BY <1>1, <1>2, StoreRow DEF StoredFor, Storing, Answer
<1>3. CASE Rollback
  BY <1>1, <1>3, RollbackRows DEF StoredFor, IndInv
<1>4. CASE UNCHANGED <<cache, uncommitted>>
  BY <1>1, <1>4 DEF StoredFor
<1>. QED BY <1>2, <1>3, <1>4, CacheFrame DEF IndInv

LEMMA ResultsStep == ASSUME IndInv, [Next]_vars PROVE ResultsAreStored'
<1> USE DEF IndInv
<1>k. \A r \in Requests : KeyOf[r] \in Keys /\ CacheKey(KeyOf[r]) \in Rows
  BY KeyTypes
<1>1. CASE StartFails \/ Crash \/ CloseEngine
  BY <1>1
  DEF StartFails, Crash, CloseEngine, EndProcess, ResultsAreStored, StoredFor, Plain
<1>2. CASE Restart
  <2>1. /\ job = None /\ exec = "idle" /\ verdict.kind = "absent"
        /\ \A r \in Requests : future[r].kind = "absent"
    BY <1>2 DEF Restart, StoppedHoldsNothing, Started, TypeOK, ResultsAreStored
  <2>2. UNCHANGED <<job, exec, verdict, future>>
    BY <1>2 DEF Restart, memory
  <2>. QED BY <2>1, <2>2 DEF ResultsAreStored, StoredFor
<1>3. ASSUME corpus' = corpus, NEW r \in Requests
      PROVE  /\ future'[r] = future[r] => StoredFor(future[r], KeyOf[r])'
             /\ job = r /\ verdict' = verdict => StoredFor(verdict, KeyOf[r])'
             /\ job = r /\ future'[r] = verdict => StoredFor(future[r], KeyOf[r])'
  <2>1. StoredFor(future[r], KeyOf[r]) /\ (job = r => StoredFor(verdict, KeyOf[r]))
    BY DEF ResultsAreStored
  <2>2. ASSUME future'[r] = future[r] PROVE StoredFor(future[r], KeyOf[r])'
    BY <1>3, <1>k, <2>1, <2>2, StoredStays DEF StoredFor
  <2>3. ASSUME job = r, verdict' = verdict PROVE StoredFor(verdict, KeyOf[r])'
    BY <1>3, <1>k, <2>1, <2>3, StoredStays DEF StoredFor
  <2>4. ASSUME job = r, future'[r] = verdict PROVE StoredFor(future[r], KeyOf[r])'
    BY <1>3, <1>k, <2>1, <2>4, StoredStays DEF StoredFor
  <2>. QED BY <2>2, <2>3, <2>4
<1>4. CASE StartSucceeds \/ BeginClose \/ PutSentinel \/ PolicySucceeds \/ UNCHANGED vars
  <2>1. /\ UNCHANGED <<corpus, job, verdict, future>>
        /\ exec' = "finished" <=> exec = "finished"
    BY <1>4 DEF StartSucceeds, BeginClose, PutSentinel, PolicySucceeds, vars, memory
  <2>. QED BY <1>3, <2>1 DEF ResultsAreStored
<1>5. ASSUME NEW r \in Requests,
             Lookup(r) \/ Join(r) \/ Refuse(r) \/ Lead(r) \/ Deliver(r) \/ Timeout(r)
      PROVE ResultsAreStored'
  <2>1. /\ UNCHANGED <<corpus, job, verdict, exec>>
        /\ \A q \in Requests : future'[q] = future[q] \/ future'[q] = Plain("pending")
    BY <1>5 DEF Lookup, Join, Refuse, Lead, Deliver, Timeout, TypeOK
  <2>2. \A q \in Requests : StoredFor(future[q], KeyOf[q])'
    BY <1>3, <2>1 DEF ResultsAreStored, StoredFor, Plain
  <2>3. \A q \in Requests : future'[q].kind # "overloaded"
    BY <2>1 DEF ResultsAreStored, Plain
  <2>. QED BY <1>3, <2>1, <2>2, <2>3 DEF ResultsAreStored
<1>6. CASE WorkerTakes \/ WorkerStops
  <2>1. /\ UNCHANGED <<corpus, verdict, future>>
        /\ exec # "finished" /\ exec' # "finished"
    BY <1>6 DEF WorkerTakes, WorkerStops, TypeOK
  <2>2. verdict'.kind = "absent"
    BY <2>1 DEF ResultsAreStored
  <2>. QED BY <1>3, <2>1, <2>2 DEF ResultsAreStored, StoredFor
<1>7. CASE WorkerResolves
  <2>1. job \in Requests
    BY <1>7 DEF WorkerResolves, TypeOK
  <2>2. /\ corpus' = corpus /\ job' = None /\ exec' = "idle" /\ verdict'.kind = "absent"
        /\ future'[job] = verdict
        /\ \A q \in Requests \ {job} : future'[q] = future[q]
    BY <1>7, <2>1 DEF WorkerResolves, TypeOK, Plain
  <2>3. \A q \in Requests : StoredFor(future[q], KeyOf[q])'
    BY <1>3, <2>1, <2>2 DEF ResultsAreStored
  <2>4. \A q \in Requests : future'[q].kind # "overloaded"
    BY <2>1, <2>2 DEF ResultsAreStored
  <2>5. job' \notin Requests
    BY <2>2 DEF TypeOK, Plain
  <2>6. exec' # "finished" /\ verdict'.kind = "absent"
    BY <2>2
  <2>. QED BY <2>3, <2>4, <2>5, <2>6, RequestAssumption, <2>2 DEF ResultsAreStored
<1>8. CASE Recheck
  <2>1. job \in Requests /\ cache[CacheKey(KeyOf[job])].kind = "absent"
    BY <1>8 DEF Recheck, TypeOK, AdmittedMissStaysMiss
  <2>2. /\ UNCHANGED <<corpus, job, verdict, future>>
        /\ exec = "checking" /\ exec' = "computing"
    BY <1>8, <2>1 DEF Recheck
  <2>. QED BY <1>3, <2>2 DEF ResultsAreStored
<1>9. CASE PolicyFails \/ StoreFails
  <2>1. /\ UNCHANGED <<corpus, job, future>> /\ exec' = "finished"
        /\ \E kind \in Kinds \ {"answered", "overloaded"} : verdict' = Plain(kind)
    BY <1>9 DEF PolicyFails, StoreFails, Finish, ProviderFailures, Kinds
  <2>2. verdict'.kind \notin {"absent", "pending", "answered", "overloaded"}
    BY <2>1 DEF Plain, Kinds
  <2>. QED BY <1>3, <2>1, <2>2 DEF ResultsAreStored, StoredFor
<1>10. CASE Store
  <2>1. /\ UNCHANGED <<corpus, job, future>> /\ exec = "storing" /\ exec' = "finished"
        /\ verdict' = Answer(corpus, KeyOf[job]) /\ Insert /\ uncommitted' = {}
    BY <1>10 DEF Store, Finish
  <2>2. StoredFor(verdict, KeyOf[job])'
    BY <2>1, StoreRow DEF StoredFor, Answer, CacheKey
  <2>3. verdict'.kind = "answered"
    BY <2>1 DEF Answer
  <2>4. \A r \in Requests : StoredFor(future[r], KeyOf[r])' /\ future'[r].kind # "overloaded"
    BY <1>3, <2>1 DEF ResultsAreStored
  <2>5. job' \in Requests => StoredFor(verdict, KeyOf[job])'
    BY <2>1, <2>2
  <2>. QED BY <2>1, <2>3, <2>4, <2>5 DEF ResultsAreStored
<1>. QED
  BY <1>1, <1>2, <1>4, <1>5, <1>6, <1>7, <1>8, <1>9, <1>10
  DEF Next, Handler, WorkerTask, Executor, Lifespan, Stopped

-------------------------------------------------------------------------------
\* The inductive invariant.

LEMMA IndInit == Init => IndInv
<1> SUFFICES ASSUME Init PROVE IndInv
  OBVIOUS
<1>1. TypeOK
  BY TypeInit
<1>2. /\ Items = {} /\ Leaders = {} /\ Flying = {} /\ NoDuplicates(queue)
      /\ \A r \in Requests : future[r].kind = "absent" /\ phase[r] = "unsent"
      /\ \A k \in Keys : inflight[k] = None
      /\ job = None /\ exec = "idle" /\ verdict.kind = "absent"
  BY EmptyQueue DEF Init, Items, Leaders, Flying, Plain
<1>3. InferencePaidOnce /\ RowsHoldTheirAnswer
  <2>1. PICK stored \in SUBSET (Versions \X (Keys \ LongKeys)),
             corrupt \in SUBSET (Versions \X (Keys \ LongKeys)) :
          /\ cache = [row \in Rows |-> IF row \in stored THEN Answer(row[1], row[2])
                                       ELSE IF row \in corrupt THEN Plain("corrupt_cache")
                                       ELSE Plain("absent")]
          /\ paid = [row \in Rows |-> IF row \in stored THEN 1 ELSE 0]
    BY DEF Init
  <2>2. lost = [row \in Rows |-> 0]
    BY DEF Init
  <2>3. ASSUME NEW row \in Rows
        PROVE  /\ cache[row].kind = IF row \in stored THEN "answered"
                                    ELSE IF row \in corrupt THEN "corrupt_cache" ELSE "absent"
               /\ row \in stored => cache[row].key = row[2] /\ cache[row].corpus = row[1]
    BY <2>1 DEF Answer, Plain
  <2>4. InferencePaidOnce
    BY <1>2, <2>1, <2>2, <2>3 DEF InferencePaidOnce
  <2>5. RowsHoldTheirAnswer
    BY <2>3 DEF RowsHoldTheirAnswer, Init
  <2>. QED BY <2>4, <2>5
<1>4. FlightsAccounted /\ WaitersRideAFlight
  BY <1>2 DEF FlightsAccounted, WaitersRideAFlight
<1>5. AdmittedMissStaysMiss /\ SentinelOnlyAtClose /\ NewcomersLeadNothing /\ MissIsFresh
  BY <1>2 DEF AdmittedMissStaysMiss, SentinelOnlyAtClose, NewcomersLeadNothing, MissIsFresh
<1>6. StoppedHoldsNothing /\ ResultsAreStored
  BY <1>2 DEF StoppedHoldsNothing, ResultsAreStored, StoredFor, Init
<1>. QED BY <1>1, <1>3, <1>4, <1>5, <1>6 DEF IndInv

LEMMA IndStep == IndInv /\ [Next]_vars => IndInv'
BY TypeStep, FlightsStep, WaitersStep, PaidStep, AdmittedStep, SentinelStep, StoppedStep,
   NewcomersStep, FreshStep, RowsStep, ResultsStep
DEF IndInv

\* The invariant that carries the safety of the service is inductive.
THEOREM Inductive == Spec => []IndInv
BY IndInit, IndStep, PTL DEF Spec

\* No key is ever in flight twice, no flight is forgotten: the pending futures are
\* those of the items queued or with the worker, and the table finds each of them.
THEOREM SingleFlight == Spec => []FlightsAccounted
<1>1. IndInv => FlightsAccounted
  BY DEF IndInv
<1>. QED BY <1>1, Inductive, PTL

\* The timeout or the failure of the leading request strands no follower.
THEOREM NoStrandedWaiter == Spec => []WaitersRideAFlight
<1>1. IndInv => WaitersRideAFlight
  BY DEF IndInv
<1>. QED BY <1>1, Inductive, PTL

\* Over restarts and crashes, every inference paid for is the one row of its answer, being
\* stored, or counted as lost: an answer that was committed is never paid again.
THEOREM PaidOnce == Spec => []InferencePaidOnce
<1>1. IndInv => InferencePaidOnce
  BY DEF IndInv
<1>. QED BY <1>1, Inductive, PTL

\* The read of the cache and the read of the in-flight table, with the executor
\* free to store in between, never admit a key that has an answer.
THEOREM MissesStayMisses == Spec => []AdmittedMissStaysMiss
<1>1. IndInv => AdmittedMissStaysMiss
  BY DEF IndInv
<1>. QED BY <1>1, Inductive, PTL

-------------------------------------------------------------------------------
\* The sentinel, when the server ends its requests before it closes the queue.

\* From close() on no request is at the queue, so nothing follows the sentinel,
\* and a worker that has taken it leaves the queue empty.
ClosedBehind ==
  ServerDrains =>
    /\ lifecycle \in {"closing", "draining"} =>
         \A r \in Requests : phase[r] \notin {"missed", "waiting"}
    /\ None \in Items => queue[Len(queue)] = None
    /\ worker = "ended" => lifecycle = "draining" /\ queue = << >>

LEMMA ClosedInit == Init => ClosedBehind
BY DEF Init, ClosedBehind, Items, ItemsOf

\* While the queue is open to requests the process is serving.
LEMMA LeadsWhileServing ==
  ASSUME IndInv, ClosedBehind, ServerDrains, NEW r \in Requests, phase[r] = "missed"
  PROVE  lifecycle = "serving" /\ None \notin Items /\ worker # "ended"
<1>1. Started
  BY DEF IndInv, StoppedHoldsNothing
<1>. QED BY <1>1 DEF ClosedBehind, Started, IndInv, SentinelOnlyAtClose

LEMMA ClosedStep == IndInv /\ ClosedBehind /\ [Next]_vars => ClosedBehind'
<1> SUFFICES ASSUME IndInv, ClosedBehind, [Next]_vars, ServerDrains PROVE ClosedBehind'
  BY DEF ClosedBehind
<1>k. /\ queue \in Seq(Requests \cup {None}) /\ Len(queue) \in Nat
      /\ NoDuplicates(queue)
      /\ phase \in [Requests -> {"unsent", "missed", "waiting", "done"}]
      /\ worker = "ended" => ~(lifecycle \in {"starting", "serving", "closing", "down"})
  BY DEF IndInv, TypeOK, FlightsAccounted, ClosedBehind
<1>1. CASE StartSucceeds \/ Restart
  BY <1>1, <1>k DEF StartSucceeds, Restart, memory, ClosedBehind, Items, ItemsOf
<1>2. CASE StartFails \/ Crash \/ CloseEngine
  BY <1>2 DEF StartFails, Crash, CloseEngine, EndProcess, ClosedBehind, Items, ItemsOf
<1>3. CASE BeginClose
  BY <1>3, <1>k DEF BeginClose, LoopFree, memory, ClosedBehind, Items, ItemsOf
<1>4. CASE PutSentinel
  <2>1. queue'[Len(queue')] = None
    BY <1>4, <1>k DEF PutSentinel
  <2>. QED BY <1>4, <1>k, <2>1 DEF PutSentinel, ClosedBehind
<1>5. ASSUME NEW r \in Requests, Lookup(r) PROVE ClosedBehind'
  BY <1>5, <1>k DEF Lookup, Accepting, ClosedBehind, Items, ItemsOf
<1>6. ASSUME NEW r \in Requests, Join(r) \/ Refuse(r) \/ Lead(r) PROVE ClosedBehind'
  <2>1. phase[r] = "missed" /\ UNCHANGED <<lifecycle, worker>>
    BY <1>6 DEF Join, Refuse, Lead
  <2>2. lifecycle = "serving" /\ None \notin Items /\ worker # "ended"
    BY <2>1, LeadsWhileServing
  <2>3. None \notin Items'
    <3>1. CASE Join(r) \/ Refuse(r)
      BY <2>2, <3>1 DEF Join, Refuse, Items, ItemsOf
    <3>2. CASE Lead(r)
      <4>1. Items' = Items \cup {r}
        BY <1>k, <3>2, AppendAddsItem DEF Lead, Items
      <4>. QED BY <2>2, <4>1
    <3>. QED BY <1>6, <3>1, <3>2
  <2>. QED BY <2>1, <2>2, <2>3 DEF ClosedBehind
<1>7. ASSUME NEW r \in Requests, Deliver(r) \/ Timeout(r) PROVE ClosedBehind'
  BY <1>7, <1>k DEF Deliver, Timeout, ClosedBehind, Items, ItemsOf
<1>8. CASE WorkerTakes
  <2>1. /\ queue # << >> /\ queue' = Tail(queue) /\ worker' = "busy"
        /\ UNCHANGED <<lifecycle, phase>>
    BY <1>8 DEF WorkerTakes
  <2>2. Items' = Items \ {Head(queue)}
    BY <1>k, <2>1, TailRemovesHead DEF Items
  <2>3. ASSUME None \in Items' PROVE queue'[Len(queue')] = None
    <3>1. queue[Len(queue)] = None
      BY <2>2, <2>3 DEF ClosedBehind
    <3>2. queue' # << >>
      BY <2>3 DEF Items, ItemsOf
    <3>3. Len(queue') = Len(queue) - 1 /\ Len(queue') >= 1
      BY <1>k, <2>1, <3>2
    <3>. QED BY <1>k, <2>1, <3>1, <3>3
  <2>. QED BY <2>1, <2>3 DEF ClosedBehind
<1>9. CASE WorkerStops
  <2>1. /\ queue # << >> /\ Head(queue) = None /\ queue' = Tail(queue)
        /\ UNCHANGED <<lifecycle, phase>>
    BY <1>9 DEF WorkerStops
  <2>2. None \in Items /\ Items' = Items \ {None}
    BY <1>k, <2>1, TailRemovesHead DEF Items
  <2>3. queue[Len(queue)] = None /\ queue[1] = None /\ Len(queue) >= 1
    BY <1>k, <2>1, <2>2 DEF ClosedBehind
  <2>4. Len(queue) = 1
    <3>1. 1 \in 1..Len(queue) /\ Len(queue) \in 1..Len(queue)
      BY <1>k, <2>3
    <3>2. 1 # Len(queue) => queue[1] # queue[Len(queue)]
      BY <1>k, <3>1 DEF NoDuplicates
    <3>. QED BY <2>3, <3>2
  <2>5. queue' = << >>
    BY <1>k, <2>1, <2>4
  <2>6. lifecycle = "draining"
    BY <2>2 DEF IndInv, SentinelOnlyAtClose
  <2>. QED BY <2>1, <2>2, <2>5, <2>6 DEF ClosedBehind
<1>10. CASE WorkerResolves
  BY <1>10, <1>k DEF WorkerResolves, ClosedBehind, Items, ItemsOf
<1>11. CASE Recheck \/ PolicySucceeds \/ PolicyFails \/ Store \/ StoreFails \/ UNCHANGED vars
  <2>1. UNCHANGED <<lifecycle, phase, queue, worker>>
    BY <1>11 DEF Recheck, PolicySucceeds, PolicyFails, Store, StoreFails, vars, memory
  <2>. QED BY <2>1 DEF ClosedBehind, Items, ItemsOf
<1>. QED
  BY <1>1, <1>2, <1>3, <1>4, <1>5, <1>6, <1>7, <1>8, <1>9, <1>10, <1>11
  DEF Next, Handler, WorkerTask, Executor, Lifespan, Stopped

\* When the worker has met the sentinel of a server that ends its requests first,
\* no item, no flight and no one waiting is left.
THEOREM SentinelIsLast == Spec => []NothingBehindSentinel
<1>1. IndInv /\ ClosedBehind => NothingBehindSentinel
  <2> SUFFICES ASSUME IndInv, ClosedBehind, ServerDrains, worker = "ended"
               PROVE  /\ queue = << >>
                      /\ \A k \in Keys : inflight[k] = None
                      /\ \A r \in Requests : phase[r] # "waiting"
    BY DEF NothingBehindSentinel
  <2>1. queue = << >> /\ \A r \in Requests : phase[r] # "waiting"
    BY DEF ClosedBehind
  <2>2. Flying = {}
    BY <2>1, EmptyQueue DEF Flying, Leaders, Items, IndInv, TypeOK
  <2>. QED BY <2>1, <2>2 DEF IndInv, FlightsAccounted, TypeOK
<1>. QED BY <1>1, ClosedInit, ClosedStep, Inductive, PTL DEF Spec

-------------------------------------------------------------------------------
\* What a step may never do.

\* The reply of each handler step that ends a request.
Ends(r) == (Lookup(r) \/ Refuse(r) \/ Deliver(r) \/ Timeout(r)) /\ phase'[r] = "done"

LEMMA EndCases ==
  ASSUME IndInv, NEW r \in Requests, Ends(r)
  PROVE  \/ /\ Lookup(r)
            /\ reply'[r] = CachedResult(cache[CacheKey(KeyOf[r])])
            /\ cache[CacheKey(KeyOf[r])].kind # "absent"
         \/ Refuse(r) /\ reply'[r] = Plain("overloaded")
         \/ Deliver(r) /\ reply'[r] = future[waitsOn[r]] /\ Resolved(waitsOn[r])
         \/ Timeout(r) /\ reply'[r] = Plain("deadline")
<1> USE DEF IndInv, Ends
<1>1. CASE Lookup(r)
  BY <1>1 DEF Lookup, TypeOK
<1>2. CASE Refuse(r)
  BY <1>2 DEF Refuse, TypeOK
<1>3. CASE Deliver(r)
  BY <1>3 DEF Deliver, TypeOK
<1>4. CASE Timeout(r)
  BY <1>4 DEF Timeout, TypeOK
<1>. QED BY <1>1, <1>2, <1>3, <1>4

\* A reply changes only where its handler ends, or its process does.
LEMMA ReplyCases ==
  ASSUME IndInv, [Next]_vars, NEW r \in Requests, reply'[r] # reply[r]
  PROVE  Ends(r) \/ reply'[r] = Plain("dropped")
<1> USE DEF IndInv
<1>1. CASE StartFails \/ Crash \/ CloseEngine
  BY <1>1 DEF StartFails, Crash, CloseEngine, EndProcess, TypeOK
<1>2. CASE StartSucceeds \/ Restart \/ BeginClose \/ PutSentinel \/ WorkerTakes \/ WorkerStops
           \/ WorkerResolves \/ Recheck \/ PolicySucceeds \/ PolicyFails \/ Store \/ StoreFails
           \/ UNCHANGED vars
  BY <1>2
  DEF StartSucceeds, Restart, BeginClose, PutSentinel, WorkerTakes, WorkerStops, WorkerResolves,
      Recheck, PolicySucceeds, PolicyFails, Store, StoreFails, vars, memory
<1>3. ASSUME NEW q \in Requests, Lookup(q) \/ Refuse(q) \/ Deliver(q) \/ Timeout(q)
      PROVE  Ends(r)
  <2>1. r = q
    BY <1>3 DEF Lookup, Refuse, Deliver, Timeout, TypeOK
  <2>2. phase'[r] = "done"
    BY <1>3, <2>1 DEF Lookup, Refuse, Deliver, Timeout, TypeOK
  <2>. QED BY <1>3, <2>1, <2>2 DEF Ends
<1>4. ASSUME NEW q \in Requests, Join(q) \/ Lead(q) PROVE FALSE
  BY <1>4 DEF Join, Lead
<1>. QED
  BY <1>1, <1>2, <1>3, <1>4
  DEF Next, Handler, WorkerTask, Executor, Lifespan, Stopped

\* A reply that is an answer is the stored answer of its question and corpus.
LEMMA AnsweredReply ==
  ASSUME IndInv, NEW r \in Requests, Ends(r), reply'[r].kind = "answered"
  PROVE  /\ reply'[r].key = KeyOf[r] /\ reply'[r].corpus = corpus
         /\ CacheKey(KeyOf[r]) \in Rows
         /\ cache[CacheKey(KeyOf[r])].kind = "answered"
<1>k. CacheKey(KeyOf[r]) \in Rows /\ CacheKey(KeyOf[r]) = <<corpus, KeyOf[r]>>
  BY KeyTypes DEF IndInv, CacheKey
<1>1. CASE Lookup(r) /\ reply'[r] = CachedResult(cache[CacheKey(KeyOf[r])])
  <2>1. cache[CacheKey(KeyOf[r])] \in Results
    BY <1>k DEF IndInv, TypeOK
  <2>2. cache[CacheKey(KeyOf[r])].kind = "answered"
    BY <1>1 DEF CachedResult, Plain
  <2>3. /\ reply'[r].key = cache[CacheKey(KeyOf[r])].key
        /\ reply'[r].corpus = cache[CacheKey(KeyOf[r])].corpus
    BY <1>1, <2>1, <2>2 DEF CachedResult, Results
  <2>. QED BY <1>k, <2>2, <2>3 DEF IndInv, RowsHoldTheirAnswer
<1>2. CASE Deliver(r) /\ reply'[r] = future[waitsOn[r]]
  <2>1. waitsOn[r] \in Requests /\ KeyOf[waitsOn[r]] = KeyOf[r]
    BY <1>2 DEF Deliver, IndInv, WaitersRideAFlight
  <2>. QED BY <1>k, <1>2, <2>1 DEF IndInv, ResultsAreStored, StoredFor
<1>. QED BY <1>1, <1>2, EndCases DEF Plain

\* A client never gets the answer of another question, policy or corpus version.
THEOREM CurrentAnswers == Spec => AnswersAreCurrent
<1> DEFINE Current ==
      \A r \in Requests :
        reply'[r] # reply[r] /\ reply'[r].kind = "answered" =>
          reply'[r].key = KeyOf[r] /\ reply'[r].corpus = corpus
<1>1. IndInv /\ [Next]_vars => [Current]_vars
  BY AnsweredReply, ReplyCases DEF Plain
<1>. QED BY <1>1, Inductive, PTL DEF Spec, AnswersAreCurrent

\* A reply of overload was given on a full queue, for a key that is not in flight
\* and has no stored answer.
LEMMA OverloadedReply ==
  ASSUME IndInv, NEW r \in Requests, Ends(r), reply'[r].kind = "overloaded"
  PROVE  /\ Refuse(r) /\ Len(queue) = Capacity
         /\ inflight[KeyOf[r]] = None
         /\ cache[CacheKey(KeyOf[r])].kind = "absent"
<1>1. Refuse(r)
  <2>1. CASE Lookup(r) /\ reply'[r] = CachedResult(cache[CacheKey(KeyOf[r])])
    <3>1. cache[CacheKey(KeyOf[r])] \in Results
      BY KeyTypes DEF IndInv, TypeOK
    <3>. QED BY <2>1, <3>1 DEF CachedResult, Plain, Results
  <2>2. CASE Deliver(r) /\ reply'[r] = future[waitsOn[r]]
    <3>1. waitsOn[r] \in Requests
      BY <2>2 DEF Deliver, IndInv, WaitersRideAFlight
    <3>. QED BY <2>2, <3>1 DEF IndInv, ResultsAreStored
  <2>. QED BY <2>1, <2>2, EndCases DEF Plain
<1>2. Len(queue) = Capacity
  BY <1>1 DEF Refuse, IndInv, TypeOK
<1>. QED BY <1>1, <1>2 DEF Refuse, IndInv, MissIsFresh

\* No request is refused for a full queue while its answer is in flight or stored.
THEOREM JustifiedRefusals == Spec => RefusalsAreJustified
<1> DEFINE Justified ==
      \A r \in Requests :
        reply'[r] # reply[r] /\ reply'[r].kind = "overloaded" =>
          /\ Len(queue) = Capacity
          /\ inflight[KeyOf[r]] = None
          /\ cache[CacheKey(KeyOf[r])].kind = "absent"
<1>1. IndInv /\ [Next]_vars => [Justified]_vars
  BY OverloadedReply, ReplyCases DEF Plain
<1>. QED BY <1>1, Inductive, PTL DEF Spec, RefusalsAreJustified

-------------------------------------------------------------------------------
(***************************************************************************)
(* The queue, the worker and the cache keep the promises of AnswerService: *)
(* every step of InferenceQueue is, under the refinement mapping, a step   *)
(* of AnswerService or a stutter.                                          *)
(***************************************************************************)

\* A step that changes nothing a client, the cache or the executor shows.
Stutters == UNCHANGED <<corpus, StatusSeen, reply, StoredRows, StoredRows \ uncommitted, Running>>

LEMMA StutterIsStutter == Stutters => UNCHANGED Promise!vars
BY DEF Stutters, Promise!vars

LEMMA RowIsAbsent ==
  ASSUME IndInv, NEW r \in Requests, cache[CacheKey(KeyOf[r])].kind = "absent"
  PROVE  <<corpus, KeyOf[r]>> \notin StoredRows
BY DEF StoredRows, CacheKey

\* The steps the abstract service does not see.
LEMMA HiddenStep ==
  ASSUME IndInv,
         \/ StartSucceeds \/ BeginClose \/ PutSentinel \/ WorkerStops \/ WorkerResolves
         \/ PolicySucceeds \/ UNCHANGED vars
         \/ \E r \in Requests : Join(r) \/ Lead(r)
  PROVE  Stutters
<1> USE DEF IndInv, Stutters, StatusSeen, StoredRows, Running
<1>1. CASE StartSucceeds \/ BeginClose \/ PutSentinel \/ WorkerStops \/ UNCHANGED vars
  BY <1>1 DEF StartSucceeds, BeginClose, PutSentinel, WorkerStops, vars, memory, Rows
<1>2. CASE WorkerResolves
  BY <1>2 DEF WorkerResolves, Rows
<1>3. CASE PolicySucceeds
  BY <1>3 DEF PolicySucceeds, Rows
<1>4. ASSUME NEW r \in Requests, Join(r) \/ Lead(r)
      PROVE  Stutters
  <2>1. UNCHANGED <<corpus, reply, cache, uncommitted, exec, job>>
    BY <1>4 DEF Join, Lead
  <2>2. phase[r] = "missed" /\ phase' = [phase EXCEPT ![r] = "waiting"]
    BY <1>4 DEF Join, Lead
  <2>3. StatusSeen' = StatusSeen
    BY <2>2 DEF TypeOK
  <2>. QED BY <2>1, <2>3 DEF Rows
<1>. QED BY <1>1, <1>2, <1>3, <1>4

\* A handler's step is seen as a request that is asked, or that ends.
LEMMA HandlerStep ==
  ASSUME IndInv, NEW r \in Requests,
         Lookup(r) \/ Refuse(r) \/ Deliver(r) \/ Timeout(r)
  PROVE  Promise!Ask(r) \/ Promise!Reply(r)
<1> USE DEF IndInv
<1>1. UNCHANGED <<corpus, cache, uncommitted, exec, job, StoredRows, Running>>
  BY DEF Lookup, Refuse, Deliver, Timeout, StoredRows, Running, Rows
<1>2. CASE phase'[r] = "missed"
  <2>1. /\ phase[r] = "unsent" /\ phase' = [phase EXCEPT ![r] = "missed"] /\ reply' = reply
    BY <1>2 DEF Lookup, Refuse, Deliver, Timeout, TypeOK
  <2>2. StatusSeen[r] = "unsent" /\ StatusSeen' = [StatusSeen EXCEPT ![r] = "pending"]
    BY <2>1 DEF StatusSeen, TypeOK
  <2>. QED BY <1>1, <2>1, <2>2 DEF Promise!Ask
<1>3. CASE phase'[r] # "missed"
  <2>1. /\ phase[r] # "done" /\ phase' = [phase EXCEPT ![r] = "done"]
        /\ \A other \in Requests \ {r} : reply'[other] = reply[other]
    BY <1>3 DEF Lookup, Refuse, Deliver, Timeout, TypeOK
  <2>2. StatusSeen[r] # "done" /\ StatusSeen' = [StatusSeen EXCEPT ![r] = "done"]
    BY <2>1 DEF StatusSeen, TypeOK
  <2>3. Ends(r)
    BY <2>1 DEF Ends, TypeOK
  <2>4. ASSUME reply'[r].kind = "answered"
        PROVE  /\ reply'[r].key = KeyOf[r] /\ reply'[r].corpus = corpus
               /\ <<corpus, KeyOf[r]>> \in StoredRows
    BY <2>3, <2>4, AnsweredReply DEF StoredRows, CacheKey
  <2>5. ASSUME reply'[r].kind = "overloaded"
        PROVE  Running # KeyOf[r] /\ <<corpus, KeyOf[r]>> \notin StoredRows
    <3>1. inflight[KeyOf[r]] = None /\ cache[CacheKey(KeyOf[r])].kind = "absent"
      BY <2>3, <2>5, OverloadedReply
    <3>2. CASE job \in Requests
      <4>1. inflight[KeyOf[job]] = job /\ job # None
        BY <3>2, KeyTypes, RequestAssumption DEF FlightsAccounted, Flying
      <4>. QED BY <3>1, <4>1, RowIsAbsent, KeyAssumption, KeyTypes DEF Running
    <3>3. CASE job \notin Requests
      BY <3>1, <3>3, RowIsAbsent, KeyAssumption, KeyTypes DEF Running, TypeOK
    <3>. QED BY <3>2, <3>3
  <2>. QED BY <1>1, <2>1, <2>2, <2>4, <2>5 DEF Promise!Reply
<1>. QED BY <1>2, <1>3

\* The worker takes an item: the inference of its key begins.
LEMMA WorkerStep == ASSUME IndInv, WorkerTakes PROVE \E k \in Keys : Promise!Begin(k)
<1> USE DEF IndInv
<1> DEFINE r == Head(queue)
<1>1. r \in Leaders /\ r \in Requests
  <2>1. queue \in Seq(Requests \cup {None}) /\ queue # << >> /\ NoDuplicates(queue)
    BY DEF WorkerTakes, TypeOK, FlightsAccounted
  <2>2. r \in Items /\ r # None
    BY <2>1, TailRemovesHead DEF WorkerTakes, Items
  <2>3. r \in Requests \cup {None}
    BY <2>1
  <2>. QED BY <2>2, <2>3 DEF Leaders
<1>2. /\ UNCHANGED <<corpus, phase, reply, cache, uncommitted>> /\ job' = r /\ exec' = "checking"
      /\ worker = "idle"
  BY DEF WorkerTakes
<1>3. cache[CacheKey(KeyOf[r])].kind = "absent"
  BY <1>1 DEF AdmittedMissStaysMiss
<1>4. KeyOf[r] \in Keys /\ Running = None /\ Running' = KeyOf[r]
  BY <1>1, <1>2, KeyTypes DEF Running, TypeOK
<1>5. phase[r] # "unsent"
  BY <1>1 DEF FlightsAccounted, Flying, NewcomersLeadNothing
<1>6. StatusSeen[r] # "unsent" /\ UNCHANGED <<StatusSeen, StoredRows>>
  BY <1>1, <1>2, <1>5 DEF StatusSeen, StoredRows, Rows
<1>7. <<corpus, KeyOf[r]>> \notin StoredRows
  BY <1>1, <1>3, RowIsAbsent
<1>8. Promise!Begin(KeyOf[r])
  BY <1>1, <1>2, <1>4, <1>6, <1>7 DEF Promise!Begin
<1>. QED BY <1>4, <1>8

\* A rollback leaves the committed answers, and those only.
LEMMA RollbackStore ==
  ASSUME IndInv, Rollback
  PROVE  StoredRows' = StoredRows \ uncommitted /\ uncommitted' = {}
<1>1. /\ uncommitted' = {} /\ Rows' = Rows
      /\ \A row \in Rows :
           cache'[row].kind = "answered" <=> cache[row].kind = "answered" /\ row \notin uncommitted
  BY RollbackRows DEF IndInv, Plain, Rows
<1>. QED BY <1>1 DEF StoredRows

\* The executor looks again, stores the answer, or fails.
LEMMA ExecutorStep ==
  ASSUME IndInv, Recheck \/ Store \/ PolicyFails \/ StoreFails
  PROVE  Stutters \/ Promise!Succeed \/ Promise!Fail
<1> USE DEF IndInv
<1>1. /\ job \in Requests /\ KeyOf[job] \in Keys /\ CacheKey(KeyOf[job]) \in Rows
      /\ Running = KeyOf[job] /\ Running # None
  BY KeyTypes, KeyAssumption
  DEF Recheck, Store, PolicyFails, StoreFails, Running, TypeOK
<1>2. UNCHANGED <<corpus, StatusSeen, reply, job>>
  BY DEF Recheck, Store, PolicyFails, StoreFails, StatusSeen
<1>3. CASE Recheck
  <2>1. cache[CacheKey(KeyOf[job])].kind = "absent"
    BY <1>3 DEF Recheck, AdmittedMissStaysMiss
  <2>2. exec' = "computing" /\ exec = "checking" /\ UNCHANGED <<cache, uncommitted>>
    BY <1>3, <2>1 DEF Recheck
  <2>. QED BY <1>2, <2>2 DEF Stutters, StoredRows, Running, Rows
<1>k. Rows' = Rows /\ uncommitted \subseteq StoredRows
  BY DEF RowsHoldTheirAnswer, StoredRows, Rows, TypeOK
<1>4. CASE PolicyFails
  <2>1. UNCHANGED <<cache, uncommitted>> /\ exec' = "finished"
    BY <1>4 DEF PolicyFails, Finish
  <2>. QED BY <1>1, <1>2, <1>k, <2>1 DEF Promise!Fail, StoredRows, Running
<1>5. ASSUME exec = "storing", Insert
      PROVE  /\ StoredRows' = StoredRows \cup {<<corpus, KeyOf[job]>>}
             /\ <<corpus, KeyOf[job]>> \notin StoredRows
             /\ Storing = {<<corpus, KeyOf[job]>>}
  <2>1. \A row \in Rows : cache'[row].kind = "answered" <=>
          cache[row].kind = "answered" \/ row = CacheKey(KeyOf[job])
    BY <1>1, <1>5, StoreRow DEF Answer
  <2>2. cache[CacheKey(KeyOf[job])].kind = "absent"
    BY <1>5, StoreRow
  <2>. QED BY <1>1, <1>5, <1>k, <2>1, <2>2 DEF StoredRows, CacheKey, Storing
<1>6. CASE Store
  <2>1. /\ exec = "storing" /\ Insert /\ exec' = "finished" /\ uncommitted' = {}
        /\ Running' = None
    BY <1>6 DEF Store, Finish, Running
  <2>. QED BY <1>1, <1>2, <1>5, <2>1 DEF Promise!Succeed
<1>7. CASE StoreFails
  <2>1. exec = "storing" /\ exec' = "finished" /\ Running' = None
    BY <1>7 DEF StoreFails, Finish, Running
  <2>2. /\ StoredRows' \in {StoredRows, StoredRows \cup {<<corpus, KeyOf[job]>>},
                            StoredRows \ uncommitted}
        /\ (StoredRows \ uncommitted)' = StoredRows \ uncommitted
    <3>1. CASE UNCHANGED <<cache, uncommitted>>
      BY <1>k, <3>1 DEF StoredRows
    <3>2. CASE Insert /\ uncommitted' = uncommitted \cup Storing
      BY <1>5, <2>1, <3>2
    <3>3. CASE Rollback
      BY <3>3, RollbackStore
    <3>. QED BY <1>7, <3>1, <3>2, <3>3 DEF StoreFails
  <2>. QED BY <1>1, <1>2, <2>1, <2>2 DEF Promise!Fail
<1>. QED BY <1>3, <1>4, <1>6, <1>7

\* The process ends, and another one starts.
LEMMA LifespanStep ==
  ASSUME IndInv, StartFails \/ Crash \/ CloseEngine \/ Restart
  PROVE  Promise!Stop \/ Promise!Redeploy
<1> USE DEF IndInv
<1>1. CASE Restart
  <2>1. /\ UNCHANGED <<phase, reply, cache, uncommitted, exec, job>> /\ corpus' \in Versions
    BY <1>1 DEF Restart, memory
  <2>2. /\ job = None /\ \A r \in Requests : phase[r] \in {"unsent", "done"}
    BY <1>1 DEF Restart, StoppedHoldsNothing, Started
  <2>3. Running = None /\ Running' = None
    BY <2>1, <2>2 DEF Running, TypeOK
  <2>4. \A r \in Requests : StatusSeen[r] # "pending"
    BY <2>2 DEF StatusSeen
  <2>5. UNCHANGED <<StatusSeen, StoredRows, uncommitted>>
    BY <2>1 DEF StatusSeen, StoredRows, Rows
  <2>. QED BY <2>1, <2>3, <2>4, <2>5 DEF Promise!Redeploy
<1>2. CASE StartFails \/ Crash \/ CloseEngine
  <2>1. EndProcess
    BY <1>2 DEF StartFails, Crash, CloseEngine
  <2>2. /\ Running' = None /\ corpus' = corpus
        /\ StoredRows' = StoredRows \ uncommitted /\ uncommitted' = {}
    BY <2>1, RollbackStore DEF EndProcess, Running
  <2>3. StatusSeen' = [r \in Requests |->
                         IF StatusSeen[r] = "pending" THEN "done" ELSE StatusSeen[r]]
    <3>1. \A r \in Requests : phase'[r] =
            IF phase[r] \in {"missed", "waiting"} THEN "done" ELSE phase[r]
      BY <2>1 DEF EndProcess
    <3>2. \A r \in Requests : StatusSeen[r] =
            IF phase[r] \in {"missed", "waiting"} THEN "pending" ELSE phase[r]
      BY DEF StatusSeen
    <3>3. \A r \in Requests : phase[r] # "pending"
      BY DEF TypeOK
    <3>4. \A r \in Requests :
            (IF phase'[r] \in {"missed", "waiting"} THEN "pending" ELSE phase'[r])
              = IF StatusSeen[r] = "pending" THEN "done" ELSE StatusSeen[r]
      BY <3>1, <3>2, <3>3
    <3>. QED BY <3>4 DEF StatusSeen
  <2>4. \A r \in Requests : IF StatusSeen[r] = "pending" THEN reply'[r].kind = "dropped"
                                                         ELSE reply'[r] = reply[r]
    BY <2>1 DEF EndProcess, StatusSeen, TypeOK, Plain
  <2>. QED BY <2>2, <2>3, <2>4 DEF Promise!Stop
<1>. QED BY <1>1, <1>2

LEMMA AbstractInit == Init => Promise!Init
<1> SUFFICES ASSUME Init PROVE Promise!Init
  OBVIOUS
<1>1. \A r \in Requests : phase[r] = "unsent" /\ reply[r].kind = "absent"
  BY DEF Init, Plain
<1>2. StatusSeen = [r \in Requests |-> "unsent"]
  BY <1>1 DEF StatusSeen
<1>3. /\ Running = None /\ StoredRows \subseteq Versions \X Keys /\ corpus \in Versions
      /\ StoredRows \ uncommitted = StoredRows
  BY DEF Init, Running, StoredRows, Rows
<1>. QED BY <1>1, <1>2, <1>3 DEF Promise!Init

LEMMA AbstractStep == ASSUME IndInv, [Next]_vars PROVE [Promise!Next]_(Promise!vars)
<1>1. CASE \/ StartSucceeds \/ BeginClose \/ PutSentinel \/ WorkerStops \/ WorkerResolves
           \/ PolicySucceeds \/ UNCHANGED vars
           \/ \E r \in Requests : Join(r) \/ Lead(r)
  BY <1>1, HiddenStep, StutterIsStutter
<1>2. ASSUME NEW r \in Requests, Lookup(r) \/ Refuse(r) \/ Deliver(r) \/ Timeout(r)
      PROVE  Promise!Next
  BY <1>2, HandlerStep DEF Promise!Next
<1>3. CASE WorkerTakes
  BY <1>3, WorkerStep DEF Promise!Next
<1>4. CASE Recheck \/ Store \/ PolicyFails \/ StoreFails
  BY <1>4, ExecutorStep, StutterIsStutter DEF Promise!Next
<1>5. CASE StartFails \/ Crash \/ CloseEngine \/ Restart
  BY <1>5, LifespanStep DEF Promise!Next
<1>. QED
  BY <1>1, <1>2, <1>3, <1>4, <1>5
  DEF Next, Handler, WorkerTask, Executor, Lifespan, Stopped

\* The detailed service implements the abstract one: one inference at a time and
\* never for a stored answer; an answer is stored before any client sees it, what was
\* committed survives every failed write and every end of the process, an answer is
\* the answer of the question asked and the corpus deployed; no request is refused
\* while its answer is stored or being computed.
THEOREM Refinement == Spec => ImplementsAnswerService
<1>1. IndInv /\ [Next]_vars => [Promise!Next]_(Promise!vars)
  BY AbstractStep
<1>. QED BY <1>1, AbstractInit, Inductive, PTL DEF Spec, ImplementsAnswerService, Promise!Spec
===============================================================================
