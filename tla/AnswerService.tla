----------------------------- MODULE AnswerService -----------------------------
(***************************************************************************)
(* What the answer service promises its clients, with no queue, no worker  *)
(* and no threads: one inference at a time, never for an answer that is    *)
(* already stored; an answer is stored before a client sees it, belongs to *)
(* the question asked and to the deployed corpus; a request is turned away *)
(* as overload only while its answer is neither stored nor being computed. *)
(* What an inference that succeeded stored is durable; one that failed may *)
(* leave an answer that lasts until a later one makes it durable, or until *)
(* a failure or the end of the process takes it back.                      *)
(***************************************************************************)
CONSTANTS Requests, Keys, KeyOf, Versions, None

VARIABLES
  version,   \* the deployed corpus version
  status,    \* of each request: "unsent", "pending" or "done"
  outcome,   \* the reply of each request that is done
  store,     \* stored answers, as <<corpus version, key>>
  durable,   \* those that no failure takes back
  running    \* the key of the inference in progress, or None

vars == <<version, status, outcome, store, durable, running>>

Init ==
  /\ version \in Versions
  /\ status = [r \in Requests |-> "unsent"]
  /\ \A r \in Requests : outcome[r].kind = "absent"
  /\ store \subseteq Versions \X Keys
  /\ durable = store
  /\ running = None

Ask(r) ==
  /\ status[r] = "unsent"
  /\ status' = [status EXCEPT ![r] = "pending"]
  /\ UNCHANGED <<version, outcome, store, durable, running>>

\* The request ends: with the stored answer, or without one.
Reply(r) ==
  /\ status[r] # "done"
  /\ status' = [status EXCEPT ![r] = "done"]
  /\ \A other \in Requests \ {r} : outcome'[other] = outcome[other]
  /\ LET o == outcome'[r] IN
       /\ o.kind = "answered" =>
            /\ o.key = KeyOf[r] /\ o.corpus = version
            /\ <<version, KeyOf[r]>> \in store
       /\ o.kind = "overloaded" =>
            /\ running # KeyOf[r]
            /\ <<version, KeyOf[r]>> \notin store
  /\ UNCHANGED <<version, store, durable, running>>

Begin(k) ==
  /\ running = None
  /\ <<version, k>> \notin store
  /\ \E r \in Requests : KeyOf[r] = k /\ status[r] # "unsent"
  /\ running' = k
  /\ UNCHANGED <<version, status, outcome, store, durable>>

Succeed ==
  /\ running # None
  /\ store' = store \cup {<<version, running>>}
  /\ durable' = store'
  /\ running' = None
  /\ UNCHANGED <<version, status, outcome>>

Fail ==
  /\ running # None
  /\ running' = None
  /\ store' \in {store, store \cup {<<version, running>>}, durable}
  /\ UNCHANGED <<version, status, outcome, durable>>

\* The process ends: what was pending or running is abandoned, what is durable stays.
Stop ==
  /\ running' = None
  /\ status' = [r \in Requests |-> IF status[r] = "pending" THEN "done" ELSE status[r]]
  /\ \A r \in Requests :
       IF status[r] = "pending" THEN outcome'[r].kind = "dropped"
                                ELSE outcome'[r] = outcome[r]
  /\ store' = durable
  /\ UNCHANGED <<version, durable>>

Redeploy ==
  /\ running = None
  /\ \A r \in Requests : status[r] # "pending"
  /\ version' \in Versions
  /\ UNCHANGED <<status, outcome, store, durable, running>>

Next ==
  \/ \E r \in Requests : Ask(r) \/ Reply(r)
  \/ \E k \in Keys : Begin(k)
  \/ Succeed \/ Fail \/ Stop \/ Redeploy

Spec == Init /\ [][Next]_vars
===============================================================================
