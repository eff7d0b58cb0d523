-------------------------- MODULE CachedBudgetProofs --------------------------
(***************************************************************************)
(* Proofs about CachedBudget, for any number of threads, requests, faults  *)
(* and retries, and for every budget.                                      *)
(***************************************************************************)
EXTENDS CachedBudget, DataFacts

-------------------------------------------------------------------------------
\* What the number of elements of a set does when one comes or goes.

\* A set that gained at most one element has at most one more.
LEMMA AtMostOneMore ==
  ASSUME NEW S, NEW T, NEW x, IsFiniteSet(S), T \subseteq S \cup {x}
  PROVE  /\ IsFiniteSet(T) /\ Cardinality(T) \in Nat /\ Cardinality(S) \in Nat
         /\ Cardinality(T) <= Cardinality(S) + 1
<1>0. Cardinality(S) \in Nat
  BY FS_CardinalityType
<1>1. IsFiniteSet(S \cup {x}) /\ Cardinality(S \cup {x}) <= Cardinality(S) + 1
  BY <1>0, FS_AddElement
<1>2. IsFiniteSet(T) /\ Cardinality(T) <= Cardinality(S \cup {x})
  BY <1>1, FS_Subset
<1>. QED BY <1>1, <1>2, FS_CardinalityType

\* A part of a set is not larger.
LEMMA NoMore ==
  ASSUME NEW S, NEW T, IsFiniteSet(S), T \subseteq S
  PROVE  /\ IsFiniteSet(T) /\ Cardinality(T) \in Nat /\ Cardinality(S) \in Nat
         /\ Cardinality(T) <= Cardinality(S)
BY FS_Subset, FS_CardinalityType

\* One element comes, one element goes.
LEMMA OneMore ==
  ASSUME NEW S, NEW x, IsFiniteSet(S), x \notin S
  PROVE  Cardinality(S \cup {x}) = Cardinality(S) + 1
BY FS_AddElement

LEMMA OneLess ==
  ASSUME NEW S, NEW x, IsFiniteSet(S), x \in S
  PROVE  Cardinality(S \ {x}) = Cardinality(S) - 1
BY FS_RemoveElement

-------------------------------------------------------------------------------
\* The sets the invariants count are finite.
LEMMA Counted ==
  ASSUME NEW stage, NEW k
  PROVE  /\ IsFiniteSet(Callers) /\ Cardinality(Callers) \in Nat
         /\ IsFiniteSet(Recorded) /\ Requests \in Nat
         /\ IsFiniteSet(Flying) /\ Cardinality(Flying) \in Nat
         /\ IsFiniteSet(In(stage, k)) /\ Cardinality(In(stage, k)) \in Nat
         /\ In(stage, k) \subseteq Callers /\ Flying \subseteq Callers
<1>1. IsFiniteSet(Callers) /\ IsFiniteSet(Keys)
  BY CallerAssumption
<1>2. Recorded \subseteq Keys /\ Flying \subseteq Callers /\ In(stage, k) \subseteq Callers
  BY DEF Recorded, Flying, In
<1>. QED BY <1>1, <1>2, NoMore, FS_CardinalityType DEF Requests

\* A caller waits for at most one response, or holds it.
LEMMA TwoStages ==
  ASSUME NEW k
  PROVE  Cardinality(In("recording", k)) + Cardinality(In("posting", k)) <= Cardinality(Callers)
<1> DEFINE R == In("recording", k)
           P == In("posting", k)
<1>1. IsFiniteSet(R) /\ IsFiniteSet(P) /\ R \cup P \subseteq Callers /\ IsFiniteSet(Callers)
  BY Counted
<1>2. R \cap P = {}
  BY DEF In
<1> HIDE DEF R, P
<1>3. Cardinality(R \cup P) = Cardinality(R) + Cardinality(P)
  <2>1. Cardinality(R) \in Nat /\ Cardinality(P) \in Nat
    BY <1>1, FS_CardinalityType
  <2>2. Cardinality(R \cup P) = Cardinality(R) + Cardinality(P) - Cardinality(R \cap P)
    BY <1>1, FS_Union
  <2>3. Cardinality(R \cap P) = 0
    BY <1>2, FS_EmptySet
  <2>. QED BY <2>1, <2>2, <2>3
<1>4. Cardinality(R \cup P) <= Cardinality(Callers)
  BY <1>1, NoMore
<1>. QED BY <1>3, <1>4 DEF R, P

\* When one caller moves on, it leaves what it was in and enters what it is in now.
LEMMA OneMoves ==
  ASSUME TypeOK, NEW c \in Callers, NEW new, call' = [call EXCEPT ![c] = new]
  PROVE  /\ \A d \in Callers : call'[d] = IF d = c THEN new ELSE call[d]
         /\ Flying' = IF new = Idle THEN Flying \ {c} ELSE Flying \cup {c}
<1>1. DOMAIN call = Callers
  BY DEF TypeOK
<1>2. \A d \in Callers : call'[d] = IF d = c THEN new ELSE call[d]
  BY <1>1
<1>3. Flying' = {d \in Callers : call'[d] # Idle}
  BY DEF Flying, Idle
<1>. QED BY <1>2, <1>3 DEF Flying

-------------------------------------------------------------------------------
\* What the first row inserted under a key does to a table.
LEMMA InsertKeeps ==
  ASSUME NEW table \in [Keys -> Rows], NEW k \in Keys, NEW t \in 0..MaxUsage
  PROVE  /\ Insert(table, k, Response(t)) \in [Keys -> Rows]
         /\ Insert(table, k, Response(t))[k] # Absent
         /\ \A j \in Keys : table[j] # Absent => Insert(table, k, Response(t))[j] = table[j]
         /\ \A j \in Keys : j # k => Insert(table, k, Response(t))[j] = table[j]
         /\ table[k] = Absent => Insert(table, k, Response(t))[k] = Response(t)
<1>1. Response(t) \in Rows /\ Response(t) # Absent
  BY DEF Response, Rows, Absent
<1>. QED BY <1>1 DEF Insert

\* The same of the two inserts of one response.
LEMMA BothKeep ==
  ASSUME TypeOK, NEW c \in Callers, call[c].key \in Keys, call[c].tokens \in 0..MaxUsage,
         InsertBoth(c)
  PROVE  /\ \A j \in Keys : cache[j] # Absent => cache'[j] = cache[j]
         /\ \A j \in Keys : ledger[j] # Absent => ledger'[j] = ledger[j]
         /\ \A j \in Keys : j # call[c].key => ledger'[j] = ledger[j]
<1>1. cache \in [Keys -> Rows] /\ ledger \in [Keys -> Rows]
  BY DEF TypeOK
<1>2. cache' = Insert(cache, call[c].key, Response(call[c].tokens))
  BY DEF InsertBoth
<1>3. ledger' = Insert(ledger, call[c].key, Response(call[c].tokens))
  BY DEF InsertBoth
<1>4. \A j \in Keys : cache[j] # Absent => cache'[j] = cache[j]
  BY <1>1, <1>2, InsertKeeps
<1>5. /\ \A j \in Keys : ledger[j] # Absent => ledger'[j] = ledger[j]
      /\ \A j \in Keys : j # call[c].key => ledger'[j] = ledger[j]
  BY <1>1, <1>3, InsertKeeps
<1>. QED BY <1>4, <1>5

\* Going back to the committed rows, no more is lost than was bought.
LEMMA RevertTypes ==
  ASSUME TypeOK, ResponsesTraced, NEW R \in SUBSET Recording, Revert(R)
  PROVE  /\ cache' \in [Keys -> Rows] /\ ledger' \in [Keys -> Rows]
         /\ lost' \in [Keys -> Nat]
<1>1. ASSUME NEW k \in Keys
      PROVE  bought[k] - Cardinality({c \in R : call[c].key = k}) \in Nat
  <2> DEFINE held == {c \in R : call[c].key = k}
  <2>1. held \subseteq In("recording", k)
    BY DEF Recording, In
  <2>2. Cardinality(held) \in Nat /\ Cardinality(held) <= Cardinality(In("recording", k))
    BY <2>1, Counted, NoMore
  <2>3. Cardinality(In("recording", k)) <= bought[k] /\ Cardinality(In("recording", k)) \in Nat
    BY Counted DEF ResponsesTraced
  <2>4. bought[k] \in Nat
    BY DEF TypeOK
  <2> HIDE DEF held
  <2>5. bought[k] - Cardinality(held) \in Nat
    BY <2>2, <2>3, <2>4
  <2>. QED BY <2>5 DEF held
<1>2. cache' = saved.cache /\ ledger' = saved.ledger
  BY DEF Revert
<1>3. lost' \in [Keys -> Nat]
  BY <1>1 DEF Revert, TypeOK
<1>. QED BY <1>2, <1>3 DEF TypeOK

\* Every step keeps the types.
LEMMA TypeStep ==
  ASSUME TypeOK, ResponsesTraced, [Next]_vars
  PROVE  TypeOK'
<1>0. MaxRetries \in Nat /\ MaxUsage \in Nat /\ MaxCalls \in Nat /\ MaxFaults \in Nat
  BY RetryAssumption, BoundAssumption
<1>1. ASSUME NEW c \in Callers, NEW k \in Keys, Call(c, k) PROVE TypeOK'
  <2>1. Posting(k, 0) \in Calls /\ Posting(k, 0).key = k
    BY <1>0 DEF Posting, Calls
  <2>2. calls' \in 0..MaxCalls
    BY <1>0, <1>1 DEF Call, GoesOut, TypeOK
  <2>. QED BY <1>1, <2>1, <2>2 DEF Call, GoesOut, TypeOK
<1>2. ASSUME NEW c \in Callers, PostSucceeds(c) PROVE TypeOK'
  <2>1. PICK t \in 0..MaxUsage : call' = [call EXCEPT ![c] = Received(call[c].key, t)]
    BY <1>2 DEF PostSucceeds
  <2>2. call[c].key \in Keys
    BY <1>2 DEF PostSucceeds, TypeOK
  <2>3. Received(call[c].key, t) \in Calls /\ Received(call[c].key, t).key \in Keys
    BY <1>0, <2>2 DEF Received, Calls
  <2>4. bought' \in [Keys -> Nat] /\ sent' \in Nat
    BY <1>2, <2>2 DEF PostSucceeds, TypeOK
  <2>. QED BY <1>2, <2>1, <2>3, <2>4 DEF PostSucceeds, TypeOK
<1>3. ASSUME NEW c \in Callers, PostRetries(c) PROVE TypeOK'
  <2>1. call[c] \in Calls /\ call[c].key \in Keys
    BY <1>3 DEF PostRetries, TypeOK
  <2>2. [call[c] EXCEPT !.attempt = @ + 1] \in Calls
    BY <1>0, <1>3, <2>1 DEF PostRetries, Calls
  <2>3. call' = [call EXCEPT ![c] = [call[c] EXCEPT !.attempt = @ + 1]]
    BY <1>3 DEF PostRetries, TypeOK
  <2>4. [call[c] EXCEPT !.attempt = @ + 1].key \in Keys
    BY <2>1 DEF Calls
  <2>5. sent' \in Nat
    BY <1>3 DEF PostRetries, TypeOK
  <2>. QED BY <1>3, <2>2, <2>3, <2>4, <2>5 DEF PostRetries, TypeOK
<1>4. Idle \in Calls /\ Idle.stage = "idle"
  BY <1>0 DEF Idle, Calls
<1>5. ASSUME NEW c \in Callers, PostFails(c) PROVE TypeOK'
  BY <1>4, <1>5 DEF PostFails, TypeOK
<1>6. ASSUME NEW c \in Callers, call[c].stage = "recording"
      PROVE  call[c].key \in Keys /\ call[c].tokens \in 0..MaxUsage
  BY <1>6 DEF TypeOK, Calls
<1>7. ASSUME NEW c \in Callers, Record(c) PROVE TypeOK'
  <2>1. cache' \in [Keys -> Rows] /\ ledger' \in [Keys -> Rows]
    BY <1>6, <1>7, InsertKeeps DEF Record, InsertBoth, TypeOK
  <2>. QED BY <1>4, <1>7, <2>1 DEF Record, TypeOK
<1>8. ASSUME NEW c \in Callers, RecordFails(c) PROVE TypeOK'
  <2>1. cache' \in [Keys -> Rows] /\ ledger' \in [Keys -> Rows] /\ lost' \in [Keys -> Nat]
    <3>1. CASE UNCHANGED <<cache, ledger>> /\
               lost' = IF cache[call[c].key] = Absent
                         THEN [lost EXCEPT ![call[c].key] = @ + 1] ELSE lost
      BY <1>6, <1>8, <3>1 DEF RecordFails, TypeOK
    <3>2. CASE /\ cache' = Insert(cache, call[c].key, Response(call[c].tokens))
               /\ UNCHANGED <<ledger, lost>>
      BY <1>6, <1>8, <3>2, InsertKeeps DEF RecordFails, TypeOK
    <3>3. CASE InsertBoth(c) /\ UNCHANGED lost
      BY <1>6, <1>8, <3>3, InsertKeeps DEF RecordFails, InsertBoth, TypeOK
    <3>4. CASE Revert(Recording \ {c})
      BY <3>4, RevertTypes
    <3>. QED BY <1>8, <3>1, <3>2, <3>3, <3>4 DEF RecordFails
  <2>2. faults' \in 0..MaxFaults
    BY <1>0, <1>8 DEF RecordFails, TypeOK
  <2>. QED BY <1>4, <1>8, <2>1, <2>2 DEF RecordFails, TypeOK
<1>9. ASSUME Crash PROVE TypeOK'
  <2>1. cache' \in [Keys -> Rows] /\ ledger' \in [Keys -> Rows] /\ lost' \in [Keys -> Nat]
    BY <1>9, RevertTypes DEF Crash
  <2>2. faults' \in 0..MaxFaults
    BY <1>0, <1>9 DEF Crash, TypeOK
  <2>. QED BY <1>4, <1>9, <2>1, <2>2 DEF Crash, TypeOK
<1>10. CASE UNCHANGED vars
  BY <1>10 DEF TypeOK, vars
<1>. QED BY <1>1, <1>2, <1>3, <1>5, <1>7, <1>8, <1>9, <1>10 DEF Next, Goes, Stopped

\* Two rows inserted together never disagree: a key they were inserted under had no
\* row before, or keeps the rows it had.
LEMMA InsertedAgree ==
  ASSUME TypeOK, LedgerMatchesCache, NEW c \in Callers, call[c].stage = "recording",
         InsertBoth(c)
  PROVE  /\ \A k \in Keys : ledger'[k] # Absent => cache'[k] # Absent
         /\ Mischarged(cache', ledger') \subseteq Mischarged(cache, ledger)
<1> DEFINE k == call[c].key
           t == call[c].tokens
<1>1. k \in Keys /\ t \in 0..MaxUsage
  BY DEF TypeOK, Calls
<1>2. cache \in [Keys -> Rows] /\ ledger \in [Keys -> Rows]
  BY DEF TypeOK
<1>3. cache' = Insert(cache, k, Response(t)) /\ ledger' = Insert(ledger, k, Response(t))
  BY DEF InsertBoth
<1>4. \A j \in Keys : ledger[j] # Absent => cache[j] # Absent
  BY DEF LedgerMatchesCache, Agree
<1> HIDE DEF k, t
<1>5. \A j \in Keys : ledger'[j] # Absent => cache'[j] # Absent
  BY <1>1, <1>2, <1>3, <1>4, InsertKeeps
<1>6. ASSUME NEW j \in Mischarged(cache', ledger')
      PROVE  j \in Mischarged(cache, ledger)
  <2>1. CASE j # k
    BY <1>1, <1>2, <1>3, <1>6, <2>1, InsertKeeps DEF Mischarged
  <2>2. CASE j = k /\ cache[k] = Absent
    <3>1. ledger[k] = Absent
      BY <1>1, <1>4, <2>2
    <3>2. cache'[k] = Response(t) /\ ledger'[k] = Response(t)
      BY <1>1, <1>2, <1>3, <2>2, <3>1, InsertKeeps
    <3>. QED BY <1>6, <2>2, <3>2 DEF Mischarged
  <2>3. CASE j = k /\ cache[k] # Absent
    <3>1. cache'[k] = cache[k]
      BY <1>1, <1>2, <1>3, <2>3, InsertKeeps
    <3>2. ledger[k] # Absent => ledger'[k] = ledger[k]
      BY <1>1, <1>2, <1>3, InsertKeeps
    <3>3. ledger[k] = Absent => ledger[k] # cache[k]
      BY <2>3
    <3>. QED BY <1>1, <1>6, <2>3, <3>1, <3>2, <3>3 DEF Mischarged
  <2>. QED BY <2>1, <2>2, <2>3
<1>. QED BY <1>5, <1>6

\* Counting: tables that disagree nowhere new agree as well as before.
LEMMA AgreeAgain ==
  ASSUME NEW responses, NEW events, NEW responses2, NEW events2,
         TypeOK, faults' \in Nat, faults <= faults', Agree(responses, events),
         \A k \in Keys : events2[k] # Absent => responses2[k] # Absent,
         Mischarged(responses2, events2) \subseteq Mischarged(responses, events)
  PROVE  /\ \A k \in Keys : events2[k] # Absent => responses2[k] # Absent
         /\ Cardinality(Mischarged(responses2, events2)) <= faults'
<1>1. IsFiniteSet(Mischarged(responses, events))
  BY CallerAssumption, NoMore DEF Mischarged
<1>2. /\ Cardinality(Mischarged(responses2, events2)) <= Cardinality(Mischarged(responses, events))
      /\ Cardinality(Mischarged(responses2, events2)) \in Nat
      /\ Cardinality(Mischarged(responses, events)) \in Nat
  BY <1>1, NoMore
<1>3. Cardinality(Mischarged(responses, events)) <= faults /\ faults \in Nat
  BY BoundAssumption DEF Agree, TypeOK
<1>. QED BY <1>2, <1>3

\* Every step keeps the ledger in agreement with the cache.
LEMMA LedgerStep ==
  ASSUME TypeOK, LedgerMatchesCache, [Next]_vars
  PROVE  LedgerMatchesCache'
<1>0. faults \in Nat
  BY BoundAssumption DEF TypeOK
<1>1. Agree(cache, ledger) /\ Agree(saved.cache, saved.ledger)
  BY DEF LedgerMatchesCache
<1> DEFINE Good == /\ \A k \in Keys : ledger'[k] # Absent => cache'[k] # Absent
                   /\ \A k \in Keys : saved'.ledger[k] # Absent => saved'.cache[k] # Absent
                   /\ Cardinality(Mischarged(cache', ledger')) <= faults'
                   /\ Cardinality(Mischarged(saved'.cache, saved'.ledger)) <= faults'
<1>2. SUFFICES Good
  BY DEF LedgerMatchesCache, Agree, Mischarged, Absent
<1>3. CASE UNCHANGED <<cache, ledger, saved, faults>>
  BY <1>1, <1>3 DEF Agree
<1>4. \A k \in Keys : saved.ledger[k] # Absent => saved.cache[k] # Absent
  BY <1>1 DEF Agree
<1>5. \A k \in Keys : ledger[k] # Absent => cache[k] # Absent
  BY <1>1 DEF Agree
<1>6. ASSUME NEW c \in Callers, Record(c) PROVE Good
  <2>1. /\ \A k \in Keys : ledger'[k] # Absent => cache'[k] # Absent
        /\ Mischarged(cache', ledger') \subseteq Mischarged(cache, ledger)
    BY <1>6, InsertedAgree DEF Record
  <2>2. Cardinality(Mischarged(cache', ledger')) <= faults'
    BY <1>0, <1>1, <1>6, <2>1, AgreeAgain DEF Record
  <2>3. saved'.cache = cache' /\ saved'.ledger = ledger'
    BY <1>6 DEF Record
  <2>. QED BY <2>1, <2>2, <2>3
<1>7. ASSUME faults' = faults + 1, UNCHANGED saved
      PROVE  /\ \A k \in Keys : saved'.ledger[k] # Absent => saved'.cache[k] # Absent
             /\ Cardinality(Mischarged(saved'.cache, saved'.ledger)) <= faults'
  BY <1>0, <1>1, <1>4, <1>7, AgreeAgain
<1>8. ASSUME faults' = faults + 1, UNCHANGED saved,
             cache' = saved.cache, ledger' = saved.ledger
      PROVE  Good
  BY <1>7, <1>8
<1>9. ASSUME NEW c \in Callers, RecordFails(c) PROVE Good
  <2>0. faults' = faults + 1 /\ UNCHANGED saved /\ call[c].stage = "recording"
    BY <1>9 DEF RecordFails
  <2>1. CASE UNCHANGED <<cache, ledger>>
    BY <1>0, <1>1, <1>5, <1>7, <2>0, <2>1, AgreeAgain
  <2>2. CASE /\ cache' = Insert(cache, call[c].key, Response(call[c].tokens))
             /\ UNCHANGED ledger
    <3> DEFINE k == call[c].key
    <3>1. k \in Keys /\ call[c].tokens \in 0..MaxUsage /\ cache \in [Keys -> Rows]
      BY <2>0 DEF TypeOK, Calls
    <3>2. \A j \in Keys : ledger'[j] # Absent => cache'[j] # Absent
      BY <1>5, <2>2, <3>1, InsertKeeps
    <3>3. Mischarged(cache', ledger') \subseteq Mischarged(cache, ledger) \cup {k}
      BY <2>2, <3>1, InsertKeeps DEF Mischarged
    <3>4. IsFiniteSet(Mischarged(cache, ledger))
      BY CallerAssumption, NoMore DEF Mischarged
    <3>5. /\ Cardinality(Mischarged(cache', ledger')) \in Nat
          /\ Cardinality(Mischarged(cache, ledger)) \in Nat
          /\ Cardinality(Mischarged(cache', ledger')) <= Cardinality(Mischarged(cache, ledger)) + 1
      BY <3>3, <3>4, AtMostOneMore
    <3>6. Cardinality(Mischarged(cache, ledger)) <= faults
      BY <1>1 DEF Agree
    <3>7. Cardinality(Mischarged(cache', ledger')) <= faults'
      BY <1>0, <2>0, <3>5, <3>6
    <3>. QED BY <1>7, <2>0, <3>2, <3>7
  <2>3. CASE InsertBoth(c)
    <3>1. /\ \A k \in Keys : ledger'[k] # Absent => cache'[k] # Absent
          /\ Mischarged(cache', ledger') \subseteq Mischarged(cache, ledger)
      BY <2>0, <2>3, InsertedAgree
    <3>2. Cardinality(Mischarged(cache', ledger')) <= faults'
      BY <1>0, <1>1, <2>0, <3>1, AgreeAgain
    <3>. QED BY <1>7, <2>0, <3>1, <3>2
  <2>4. CASE Revert(Recording \ {c})
    BY <1>8, <2>0, <2>4 DEF Revert
  <2>. QED BY <1>9, <2>1, <2>2, <2>3, <2>4 DEF RecordFails
<1>10. ASSUME Crash PROVE Good
  BY <1>8, <1>10 DEF Crash, Revert
<1> HIDE DEF Good
<1>11. ASSUME NEW c \in Callers, NEW k \in Keys, Call(c, k)
       PROVE  UNCHANGED <<cache, ledger, saved, faults>>
  BY <1>11 DEF Call, GoesOut
<1>12. ASSUME NEW c \in Callers, PostSucceeds(c) \/ PostRetries(c) \/ PostFails(c)
       PROVE  UNCHANGED <<cache, ledger, saved, faults>>
  BY <1>12 DEF PostSucceeds, PostRetries, PostFails
<1>. QED BY <1>3, <1>6, <1>9, <1>10, <1>11, <1>12 DEF Next, Goes, Stopped, vars

\* Every step keeps what is committed in sight of the connection.
LEMMA SeenStep ==
  ASSUME TypeOK, SavedIsSeen, [Next]_vars
  PROVE  SavedIsSeen'
<1>1. ASSUME NEW c \in Callers, call[c].stage = "recording"
      PROVE  call[c].key \in Keys /\ call[c].tokens \in 0..MaxUsage
  BY <1>1 DEF TypeOK, Calls
<1>2. ASSUME NEW c \in Callers, Record(c) PROVE SavedIsSeen'
  BY <1>2 DEF Record, SavedIsSeen
<1>3. ASSUME NEW c \in Callers, RecordFails(c) PROVE SavedIsSeen'
  <2>0. UNCHANGED saved /\ call[c].stage = "recording"
    BY <1>3 DEF RecordFails
  <2>1. CASE UNCHANGED <<cache, ledger>>
    BY <2>0, <2>1 DEF SavedIsSeen, Absent
  <2>2. CASE /\ cache' = Insert(cache, call[c].key, Response(call[c].tokens))
             /\ UNCHANGED ledger
    BY <1>1, <2>0, <2>2, InsertKeeps DEF SavedIsSeen, TypeOK
  <2>3. CASE InsertBoth(c)
    <3>1. /\ \A j \in Keys : cache[j] # Absent => cache'[j] = cache[j]
          /\ \A j \in Keys : ledger[j] # Absent => ledger'[j] = ledger[j]
      BY <1>1, <2>0, <2>3, BothKeep
    <3>. QED BY <2>0, <3>1 DEF SavedIsSeen
  <2>4. CASE Revert(Recording \ {c})
    BY <2>0, <2>4 DEF Revert, SavedIsSeen
  <2>. QED BY <1>3, <2>1, <2>2, <2>3, <2>4 DEF RecordFails
<1>4. ASSUME Crash PROVE SavedIsSeen'
  BY <1>4 DEF Crash, Revert, SavedIsSeen
<1>5. CASE UNCHANGED <<cache, ledger, saved>>
  BY <1>5 DEF SavedIsSeen
<1>6. ASSUME NEW c \in Callers, NEW k \in Keys, Call(c, k)
      PROVE  UNCHANGED <<cache, ledger, saved>>
  BY <1>6 DEF Call, GoesOut
<1>7. ASSUME NEW c \in Callers, PostSucceeds(c) \/ PostRetries(c) \/ PostFails(c)
      PROVE  UNCHANGED <<cache, ledger, saved>>
  BY <1>7 DEF PostSucceeds, PostRetries, PostFails
<1>. QED BY <1>2, <1>3, <1>4, <1>5, <1>6, <1>7 DEF Next, Goes, Stopped, vars

\* Every step keeps the recorded requests, and those that may yet be recorded, within
\* the budget and one more for each further caller.
LEMMA BudgetStep ==
  ASSUME TypeOK, SavedIsSeen, RequestsWithinBudget, [Next]_vars
  PROVE  RequestsWithinBudget'
<1>0. /\ IsFiniteSet(Callers) /\ Cardinality(Callers) \in Nat /\ MaxRequests \in Nat
      /\ IsFiniteSet(Recorded) /\ Requests \in Nat
      /\ IsFiniteSet(Flying) /\ Cardinality(Flying) \in Nat
  BY Counted, BudgetAssumption
<1>1. /\ IsFiniteSet(Recorded') /\ Requests' \in Nat
      /\ IsFiniteSet(Flying') /\ Cardinality(Flying') \in Nat
  <2>1. Recorded' \subseteq Keys /\ Flying' \subseteq Callers
    BY DEF Recorded, Flying
  <2>. QED BY <1>0, <2>1, CallerAssumption, NoMore DEF Requests
<1>2. Requests + Cardinality(Flying) <= MaxRequests - 1 + Cardinality(Callers)
  BY DEF RequestsWithinBudget
<1>3. SUFFICES Requests' + Cardinality(Flying') <= MaxRequests - 1 + Cardinality(Callers)
  BY <1>0, <1>1 DEF RequestsWithinBudget, Flying, Idle
\* Fewer in flight and no more recorded.
<1>4. ASSUME Recorded' \subseteq Recorded, Flying' \subseteq Flying
      PROVE  Requests' + Cardinality(Flying') <= MaxRequests - 1 + Cardinality(Callers)
  BY <1>0, <1>1, <1>2, <1>4, NoMore DEF Requests
\* One less in flight and at most one more recorded.
<1>5. ASSUME NEW c \in Callers, NEW k, c \in Flying, Flying' = Flying \ {c},
             Recorded' \subseteq Recorded \cup {k}
      PROVE  Requests' + Cardinality(Flying') <= MaxRequests - 1 + Cardinality(Callers)
  <2>1. Cardinality(Flying') = Cardinality(Flying) - 1
    BY <1>0, <1>5, OneLess
  <2>2. Requests' <= Requests + 1
    BY <1>0, <1>5, AtMostOneMore DEF Requests
  <2>. QED BY <1>0, <1>1, <1>2, <2>1, <2>2
<1>6. ASSUME NEW c \in Callers, NEW k \in Keys, Call(c, k)
      PROVE  Requests' + Cardinality(Flying') <= MaxRequests - 1 + Cardinality(Callers)
  <2>1. Requests < MaxRequests /\ Recorded' = Recorded
    BY <1>6 DEF Call, GoesOut, Recorded, Absent
  <2>2. Cardinality(Flying') <= Cardinality(Callers)
    <3>1. Flying' \subseteq Callers
      BY DEF Flying
    <3>. QED BY <1>0, <3>1, NoMore
  <2>3. Requests' = Requests
    BY <2>1 DEF Requests
  <2>. QED BY <1>0, <1>1, <2>1, <2>2, <2>3
<1>7. ASSUME NEW c \in Callers, PostSucceeds(c) \/ PostRetries(c) \/ PostFails(c)
      PROVE  Recorded' \subseteq Recorded /\ Flying' \subseteq Flying
  <2>1. call[c].stage = "posting" /\ UNCHANGED ledger /\ \A d \in Callers \ {c} : call'[d] = call[d]
    BY <1>7 DEF PostSucceeds, PostRetries, PostFails, TypeOK
  <2>2. call[c] # Idle
    BY <2>1 DEF Idle
  <2>3. Flying' = {d \in Callers : call'[d] # Idle}
    BY DEF Flying, Idle
  <2>. QED BY <2>1, <2>2, <2>3 DEF Flying, Recorded, Absent
<1>8. ASSUME NEW c \in Callers, call[c].stage = "recording", call' = [call EXCEPT ![c] = Idle]
      PROVE  /\ c \in Flying /\ Flying' = Flying \ {c}
             /\ call[c].key \in Keys /\ call[c].tokens \in 0..MaxUsage
  <2>1. call[c] # Idle /\ call[c].key \in Keys /\ call[c].tokens \in 0..MaxUsage
    BY <1>8 DEF Idle, TypeOK, Calls
  <2>. QED BY <1>8, <2>1, OneMoves DEF Flying
<1>9. ASSUME NEW c \in Callers, call[c].stage = "recording", call[c].key \in Keys,
             call[c].tokens \in 0..MaxUsage, InsertBoth(c)
      PROVE  Recorded' \subseteq Recorded \cup {call[c].key}
  <2>1. \A j \in Keys : j # call[c].key => ledger'[j] = ledger[j]
    BY <1>9, BothKeep
  <2>. QED BY <2>1 DEF Recorded, Absent
<1>10. ASSUME Revert({}) \/ \E R : Revert(R) PROVE Recorded' \subseteq Recorded
  BY <1>10 DEF Revert, Recorded, SavedIsSeen, Absent
<1>11. ASSUME NEW c \in Callers, Record(c)
       PROVE  Requests' + Cardinality(Flying') <= MaxRequests - 1 + Cardinality(Callers)
  BY <1>5, <1>8, <1>9, <1>11 DEF Record
<1>12. ASSUME NEW c \in Callers, RecordFails(c)
       PROVE  Requests' + Cardinality(Flying') <= MaxRequests - 1 + Cardinality(Callers)
  <2>1. call[c].stage = "recording" /\ call' = [call EXCEPT ![c] = Idle]
    BY <1>12 DEF RecordFails
  <2>2. CASE UNCHANGED ledger
    BY <1>4, <1>8, <2>1, <2>2 DEF Recorded, Absent
  <2>3. CASE InsertBoth(c)
    BY <1>5, <1>8, <1>9, <2>1, <2>3
  <2>4. CASE Revert(Recording \ {c})
    BY <1>4, <1>8, <1>10, <2>1, <2>4
  <2>. QED BY <1>12, <2>2, <2>3, <2>4 DEF RecordFails
<1>13. ASSUME Crash
       PROVE  Requests' + Cardinality(Flying') <= MaxRequests - 1 + Cardinality(Callers)
  <2>1. Flying' \subseteq Flying
    BY <1>13 DEF Crash, Flying, Idle
  <2>. QED BY <1>4, <1>10, <1>13, <2>1 DEF Crash
<1>14. CASE UNCHANGED vars
  BY <1>4, <1>14 DEF vars, Recorded, Flying, Absent, Idle
<1>. QED BY <1>4, <1>6, <1>7, <1>11, <1>12, <1>13, <1>14 DEF Next, Goes, Stopped

\* The tokens of a table of rows.
TokensOf(table) == SumFunction([k \in Keys |-> table[k].tokens])

LEMMA TokensType ==
  ASSUME NEW table \in [Keys -> Rows]
  PROVE  TokensOf(table) \in Nat
<1> DEFINE f == [k \in Keys |-> table[k].tokens]
<1>1. \A k \in Keys : f[k] \in Nat
  BY RetryAssumption DEF Rows
<1>2. DOMAIN f = Keys
  OBVIOUS
<1> HIDE DEF f
<1>3. SumFunctionOnSet(f, Keys) \in Nat
  BY <1>1, CallerAssumption, SumType
<1>. QED BY <1>2, <1>3 DEF TokensOf, f, SumFunction

\* Rows that are gone count nothing.
LEMMA TokensOfFewer ==
  ASSUME NEW table \in [Keys -> Rows], NEW fewer \in [Keys -> Rows],
         \A k \in Keys : fewer[k] \in {Absent, table[k]}
  PROVE  TokensOf(fewer) <= TokensOf(table)
<1> DEFINE f == [k \in Keys |-> fewer[k].tokens]
           g == [k \in Keys |-> table[k].tokens]
<1>1. \A k \in Keys : f[k] \in Nat /\ g[k] \in Nat /\ f[k] <= g[k]
  BY RetryAssumption DEF Rows, Absent
<1>2. DOMAIN f = Keys /\ DOMAIN g = Keys
  OBVIOUS
<1> HIDE DEF f, g
<1>3. SumFunctionOnSet(f, Keys) <= SumFunctionOnSet(g, Keys)
  BY <1>1, CallerAssumption, SumNoMore
<1>. QED BY <1>2, <1>3 DEF TokensOf, f, g, SumFunction

\* One row inserted adds at most the tokens one response may report.
LEMMA TokensOfOneMore ==
  ASSUME NEW table \in [Keys -> Rows], NEW k \in Keys, NEW t \in 0..MaxUsage
  PROVE  TokensOf(Insert(table, k, Response(t))) <= TokensOf(table) + MaxUsage
<1> DEFINE new == Insert(table, k, Response(t))
           f == [j \in Keys |-> table[j].tokens]
           g == [j \in Keys |-> new[j].tokens]
<1>1. new \in [Keys -> Rows] /\ \A j \in Keys : j # k => new[j] = table[j]
  BY InsertKeeps
<1> HIDE DEF new
<1>2. f \in [Keys -> Nat] /\ g \in [Keys -> Nat] /\ \A j \in Keys \ {k} : g[j] = f[j]
  BY <1>1, RetryAssumption DEF Rows
<1>3. g[k] <= MaxUsage /\ f[k] \in Nat /\ g[k] \in Nat
  BY <1>1, RetryAssumption DEF Rows
<1> HIDE DEF f, g
<1>4. SumFunction(g) = SumFunction(f) - f[k] + g[k] /\ SumFunction(f) \in Nat
  BY <1>2, CallerAssumption, SumChange
<1>5. SumFunction(g) <= SumFunction(f) + MaxUsage
  BY <1>3, <1>4, RetryAssumption
<1>. QED BY <1>5 DEF TokensOf, f, g, new

\* What n responses may report.
LEMMA Responses ==
  ASSUME NEW n \in Nat
  PROVE  /\ n * MaxUsage \in Nat
         /\ (n + 1) * MaxUsage = n * MaxUsage + MaxUsage
         /\ \A m \in Nat : m <= n => m * MaxUsage <= n * MaxUsage
<1>1. MaxUsage \in Nat
  BY RetryAssumption
<1>2. n * MaxUsage \in Nat /\ (n + 1) * MaxUsage = n * MaxUsage + MaxUsage
  BY <1>1
<1>3. ASSUME NEW m \in Nat, m <= n PROVE m * MaxUsage <= n * MaxUsage
  <2>1. PICK d \in Nat : n = m + d
    <3>1. n - m \in Nat /\ n = m + (n - m)
      BY <1>3
    <3>. QED BY <3>1
  <2>2. (m + d) * MaxUsage = m * MaxUsage + d * MaxUsage
    BY <1>1
  <2>3. d * MaxUsage \in Nat /\ m * MaxUsage \in Nat
    BY <1>1
  <2>4. n * MaxUsage = m * MaxUsage + d * MaxUsage
    BY <2>1, <2>2
  <2>. QED BY <2>3, <2>4
<1>. QED BY <1>2, <1>3

\* What stays within a bound.
LEMMA Within ==
  ASSUME NEW x \in Nat, NEW y \in Nat, NEW a \in Nat, NEW b \in Nat, NEW room \in Nat,
         NEW more \in Nat, x + a <= room, y <= x + more, b + more <= a
  PROVE  y + b <= room
OBVIOUS

\* Every step keeps within the token budget, the requests that are out counted in full.
LEMMA TokensStep ==
  ASSUME TypeOK, TypeOK', SavedIsSeen, TokensWithinBudget, [Next]_vars
  PROVE  TokensWithinBudget'
<1> DEFINE Room == MaxTokens - 1 + Cardinality(Callers) * MaxUsage
           Out == Cardinality(Flying) * MaxUsage
           Still == Cardinality(Flying') * MaxUsage
<1>0. /\ IsFiniteSet(Callers) /\ Cardinality(Callers) \in Nat
      /\ IsFiniteSet(Flying) /\ Cardinality(Flying) \in Nat
      /\ MaxTokens \in Nat \ {0} /\ MaxUsage \in Nat
  BY Counted, BudgetAssumption, RetryAssumption
<1>1. Flying' \subseteq Callers /\ IsFiniteSet(Flying') /\ Cardinality(Flying') \in Nat
      /\ Cardinality(Flying') <= Cardinality(Callers)
  <2>1. Flying' \subseteq Callers
    BY DEF Flying
  <2>. QED BY <1>0, <2>1, NoMore
<1>2. Tokens = TokensOf(ledger) /\ Tokens' = TokensOf(ledger')
  BY DEF Tokens, TokensOf
<1>3. Tokens \in Nat /\ Tokens' \in Nat
  BY <1>2, TokensType DEF TypeOK
<1>4. Out \in Nat /\ Still \in Nat /\ Room \in Nat
  BY <1>0, <1>1, Responses
<1>5. Tokens + Out <= Room
  BY DEF TokensWithinBudget
<1>6. SUFFICES Tokens' + Still <= Room
  BY <1>3, <1>4 DEF TokensWithinBudget, Flying, Idle
<1> HIDE DEF Room
\* Fewer in flight and no more recorded.
<1>7. ASSUME Tokens' <= Tokens, Flying' \subseteq Flying
      PROVE  Tokens' + Still <= Room
  <2>1. Cardinality(Flying') <= Cardinality(Flying)
    BY <1>0, <1>7, NoMore
  <2>2. Still <= Out
    BY <1>0, <1>1, <2>1, Responses
  <2>3. Tokens' <= Tokens + 0 /\ Still + 0 <= Out
    BY <1>3, <1>4, <1>7, <2>2
  <2> HIDE DEF Out, Still
  <2>. QED BY <1>3, <1>4, <1>5, <2>3, Within
\* One less in flight, and at most one response more recorded.
<1>8. ASSUME NEW c \in Callers, c \in Flying, Flying' = Flying \ {c},
             Tokens' <= Tokens + MaxUsage
      PROVE  Tokens' + Still <= Room
  <2>1. Cardinality(Flying) = Cardinality(Flying') + 1
    BY <1>0, <1>1, <1>8, OneLess
  <2>2. Still + MaxUsage <= Out
    BY <1>0, <1>1, <2>1, Responses
  <2> HIDE DEF Out, Still
  <2>. QED BY <1>0, <1>3, <1>4, <1>5, <1>8, <2>2, Within
<1>9. ASSUME NEW c \in Callers, NEW k \in Keys, Call(c, k)
      PROVE  Tokens' + Still <= Room
  <2>1. Tokens < MaxTokens /\ Tokens' = Tokens
    BY <1>9 DEF Call, GoesOut, Tokens
  <2> DEFINE N == Cardinality(Callers) * MaxUsage
  <2>2. Still <= N /\ N \in Nat /\ Room = MaxTokens - 1 + N
    BY <1>0, <1>1, Responses DEF Room
  <2> HIDE DEF Still, N
  <2>. QED BY <1>0, <1>3, <1>4, <2>1, <2>2
<1>10. ASSUME NEW c \in Callers, PostSucceeds(c) \/ PostRetries(c) \/ PostFails(c)
       PROVE  Tokens' <= Tokens /\ Flying' \subseteq Flying
  <2>1. call[c].stage = "posting" /\ UNCHANGED ledger /\ \A d \in Callers \ {c} : call'[d] = call[d]
    BY <1>10 DEF PostSucceeds, PostRetries, PostFails, TypeOK
  <2>2. call[c] # Idle
    BY <2>1 DEF Idle
  <2>3. Flying' = {d \in Callers : call'[d] # Idle}
    BY DEF Flying, Idle
  <2>4. Tokens' = Tokens
    BY <1>2, <2>1
  <2>. QED BY <1>3, <2>1, <2>2, <2>3, <2>4 DEF Flying
<1>11. ASSUME NEW c \in Callers, call[c].stage = "recording", call' = [call EXCEPT ![c] = Idle]
       PROVE  /\ c \in Flying /\ Flying' = Flying \ {c}
              /\ call[c].key \in Keys /\ call[c].tokens \in 0..MaxUsage
  <2>1. call[c] # Idle /\ call[c].key \in Keys /\ call[c].tokens \in 0..MaxUsage
    BY <1>11 DEF Idle, TypeOK, Calls
  <2>. QED BY <1>11, <2>1, OneMoves DEF Flying
<1>12. ASSUME NEW c \in Callers, call[c].key \in Keys, call[c].tokens \in 0..MaxUsage, InsertBoth(c)
       PROVE  Tokens' <= Tokens + MaxUsage
  <2>1. ledger' = Insert(ledger, call[c].key, Response(call[c].tokens))
    BY <1>12 DEF InsertBoth
  <2>2. ledger \in [Keys -> Rows]
    BY DEF TypeOK
  <2>. QED BY <1>2, <1>12, <2>1, <2>2, TokensOfOneMore
<1>13. ASSUME ledger' = saved.ledger PROVE Tokens' <= Tokens
  <2>1. ledger \in [Keys -> Rows] /\ ledger' \in [Keys -> Rows]
    BY DEF TypeOK
  <2>2. \A k \in Keys : ledger'[k] \in {Absent, ledger[k]}
    BY <1>13 DEF SavedIsSeen
  <2>. QED BY <1>2, <2>1, <2>2, TokensOfFewer
<1>14. ASSUME NEW c \in Callers, Record(c) PROVE Tokens' + Still <= Room
  <2>1. call[c].stage = "recording" /\ call' = [call EXCEPT ![c] = Idle] /\ InsertBoth(c)
    BY <1>14 DEF Record
  <2>2. c \in Flying /\ Flying' = Flying \ {c} /\ Tokens' <= Tokens + MaxUsage
    BY <1>11, <1>12, <2>1
  <2>. QED BY <1>8, <2>2
<1>15. ASSUME NEW c \in Callers, RecordFails(c) PROVE Tokens' + Still <= Room
  <2>1. call[c].stage = "recording" /\ call' = [call EXCEPT ![c] = Idle]
    BY <1>15 DEF RecordFails
  <2>2. c \in Flying /\ Flying' = Flying \ {c}
    BY <1>11, <2>1
  <2>3. CASE UNCHANGED ledger
    <3>1. Tokens' <= Tokens
      BY <1>2, <1>3, <2>3
    <3>. QED BY <1>7, <2>2, <3>1
  <2>4. CASE InsertBoth(c)
    <3>1. Tokens' <= Tokens + MaxUsage
      BY <1>11, <1>12, <2>1, <2>4
    <3>. QED BY <1>8, <2>2, <3>1
  <2>5. CASE Revert(Recording \ {c})
    <3>1. Tokens' <= Tokens
      BY <1>13, <2>5 DEF Revert
    <3>. QED BY <1>7, <2>2, <3>1
  <2>. QED BY <1>15, <2>3, <2>4, <2>5 DEF RecordFails
<1>16. ASSUME Crash PROVE Tokens' + Still <= Room
  <2>1. Flying' \subseteq Flying
    BY <1>16 DEF Crash, Flying, Idle
  <2>2. Tokens' <= Tokens
    BY <1>13, <1>16 DEF Crash, Revert
  <2>. QED BY <1>7, <2>1, <2>2
<1>17. CASE UNCHANGED vars
  <2>1. Flying' \subseteq Flying
    BY <1>17 DEF vars, Flying, Idle
  <2>2. Tokens' <= Tokens
    BY <1>2, <1>3, <1>17 DEF vars
  <2>. QED BY <1>7, <2>1, <2>2
<1> HIDE DEF Still
<1>. QED BY <1>7, <1>9, <1>10, <1>14, <1>15, <1>16, <1>17 DEF Next, Goes, Stopped

\* Every step keeps the account of the responses bought.
LEMMA TracedStep ==
  ASSUME TypeOK, ResponsesTraced, TypeOK', [Next]_vars
  PROVE  ResponsesTraced'
<1> DEFINE N == Cardinality(Callers)
           R(k) == Cardinality(In("recording", k))
           P(k) == Cardinality(In("posting", k))
           R2(k) == Cardinality(In("recording", k)')
           P2(k) == Cardinality(In("posting", k)')
           Traced(k) == /\ R2(k) <= bought'[k]
                        /\ cache'[k] = Absent => bought'[k] = lost'[k] + R2(k)
                        /\ bought'[k] + P2(k) <= lost'[k] + N
<1>1. SUFFICES ASSUME NEW k \in Keys PROVE Traced(k)
  BY DEF ResponsesTraced, Absent
<1>2. /\ IsFiniteSet(In("recording", k)) /\ IsFiniteSet(In("posting", k))
      /\ R(k) \in Nat /\ P(k) \in Nat /\ N \in Nat /\ R(k) + P(k) <= N
  BY Counted, TwoStages
<1>3. bought[k] \in Nat /\ lost[k] \in Nat
  BY DEF TypeOK
<1>4. /\ R(k) <= bought[k]
      /\ cache[k] = Absent => bought[k] = lost[k] + R(k)
      /\ bought[k] + P(k) <= lost[k] + N
  BY DEF ResponsesTraced
<1>5. /\ IsFiniteSet(Callers)
      /\ IsFiniteSet(In("recording", k)') /\ IsFiniteSet(In("posting", k)')
      /\ R2(k) \in Nat /\ P2(k) \in Nat /\ R2(k) + P2(k) <= N
      /\ In("recording", k)' \cap In("posting", k)' = {}
  <2>1. IsFiniteSet(Callers)
    BY CallerAssumption
  <2>2. /\ In("recording", k)' = {c \in Callers : call'[c].stage = "recording" /\ call'[c].key = k}
        /\ In("posting", k)' = {c \in Callers : call'[c].stage = "posting" /\ call'[c].key = k}
    BY DEF In
  <2>3. /\ In("recording", k)' \subseteq Callers /\ In("posting", k)' \subseteq Callers
        /\ In("recording", k)' \cap In("posting", k)' = {}
    BY <2>2
  <2>4. /\ IsFiniteSet(In("recording", k)') /\ IsFiniteSet(In("posting", k)')
        /\ R2(k) \in Nat /\ P2(k) \in Nat
    BY <2>1, <2>3, NoMore
  <2>5. Cardinality(In("recording", k)' \cap In("posting", k)') = 0
    BY <2>3, FS_EmptySet
  <2>6. Cardinality(In("recording", k)' \cup In("posting", k)') =
          R2(k) + P2(k) - Cardinality(In("recording", k)' \cap In("posting", k)')
    BY <2>4, FS_Union
  <2>7. Cardinality(In("recording", k)' \cup In("posting", k)') <= N
    BY <2>1, <2>3, NoMore
  <2>8. R2(k) + P2(k) <= N
    BY <1>2, <2>4, <2>5, <2>6, <2>7
  <2>. QED BY <2>1, <2>3, <2>4, <2>8
<1> HIDE DEF N
\* Nothing about the key changes.
<1>6. ASSUME In("recording", k)' = In("recording", k),
             In("posting", k)' \subseteq In("posting", k),
             bought'[k] = bought[k], lost'[k] = lost[k],
             cache'[k] = Absent => cache[k] = Absent
      PROVE  Traced(k)
  <2>1. R2(k) = R(k) /\ P2(k) <= P(k)
    BY <1>2, <1>6, NoMore
  <2>. QED BY <1>2, <1>3, <1>4, <1>5, <1>6, <2>1
\* The tables go back to their committed rows.
<1>7. ASSUME NEW T \in SUBSET Recording, Revert(T), UNCHANGED bought,
             In("recording", k)' = {c \in T : call[c].key = k},
             In("posting", k)' \subseteq In("posting", k)
      PROVE  Traced(k)
  <2>1. bought'[k] = bought[k] /\ cache'[k] = saved.cache[k]
    BY <1>7 DEF Revert
  <2>2. lost'[k] = IF saved.cache[k] # Absent THEN lost[k] ELSE bought[k] - R2(k)
    BY <1>7 DEF Revert
  <2>3. In("recording", k)' \subseteq In("recording", k)
    BY <1>7 DEF In, Recording
  <2>4. R2(k) <= R(k) /\ P2(k) <= P(k)
    BY <1>2, <1>7, <2>3, NoMore
  <2>5. CASE saved.cache[k] # Absent
    BY <1>2, <1>3, <1>4, <1>5, <2>1, <2>2, <2>4, <2>5
  <2>6. CASE saved.cache[k] = Absent
    BY <1>2, <1>3, <1>4, <1>5, <2>1, <2>2, <2>4, <2>6
  <2>. QED BY <2>5, <2>6
<1>8. ASSUME NEW c \in Callers, NEW j \in Keys, Call(c, j) PROVE Traced(k)
  <2>1. UNCHANGED <<cache, bought, lost>> /\ cache[j] = Absent
    BY <1>8 DEF Call, GoesOut
  <2>2. call' = [call EXCEPT ![c] = Posting(j, 0)] /\ call[c] = Idle
    BY <1>8 DEF Call, GoesOut
  <2>3. In("recording", k)' = In("recording", k)
    BY <2>2, OneMoves DEF Posting, In, Idle
  <2>4. CASE j # k
    <3>1. In("posting", k)' \subseteq In("posting", k)
      BY <2>2, <2>4, OneMoves DEF In, Posting
    <3>. QED BY <1>6, <2>1, <2>3, <3>1
  <2>5. CASE j = k
    <3>1. R2(k) = R(k) /\ bought'[k] = bought[k] /\ lost'[k] = lost[k] /\ cache'[k] = cache[k]
      BY <2>1, <2>3
    <3>2. bought[k] = lost[k] + R(k)
      BY <1>4, <2>1, <2>5
    <3>. QED BY <1>2, <1>3, <1>4, <1>5, <3>1, <3>2
  <2>. QED BY <2>4, <2>5
<1>9. ASSUME NEW c \in Callers, PostSucceeds(c) PROVE Traced(k)
  <2>1. /\ UNCHANGED <<cache, lost>> /\ call[c].stage = "posting"
        /\ bought' = [bought EXCEPT ![call[c].key] = @ + 1]
    BY <1>9 DEF PostSucceeds
  <2>2. PICK t \in 0..MaxUsage : call' = [call EXCEPT ![c] = Received(call[c].key, t)]
    BY <1>9 DEF PostSucceeds
  <2>3. CASE call[c].key # k
    <3>1. In("recording", k)' = In("recording", k) /\ In("posting", k)' \subseteq In("posting", k)
      BY <2>1, <2>2, <2>3, OneMoves DEF Received, In
    <3>2. bought'[k] = bought[k]
      BY <2>1, <2>3 DEF TypeOK
    <3>. QED BY <1>6, <2>1, <3>1, <3>2
  <2>4. CASE call[c].key = k
    <3>1. /\ In("recording", k)' = In("recording", k) \cup {c}
          /\ In("posting", k)' = In("posting", k) \ {c}
          /\ c \notin In("recording", k) /\ c \in In("posting", k)
      <4>1. \A d \in Callers :
              call'[d] = IF d = c THEN Received(call[c].key, t) ELSE call[d]
        BY <2>2, OneMoves
      <4>. QED BY <2>1, <2>4, <4>1 DEF In, Received
    <3>2. R2(k) = R(k) + 1 /\ P2(k) = P(k) - 1
      BY <1>2, <3>1, OneMore, OneLess
    <3>3. bought'[k] = bought[k] + 1
      BY <2>1, <2>4 DEF TypeOK
    <3>. QED BY <1>2, <1>3, <1>4, <2>1, <3>2, <3>3
  <2>. QED BY <2>3, <2>4
<1>10. ASSUME NEW c \in Callers, PostRetries(c) PROVE Traced(k)
  <2>1. UNCHANGED <<cache, bought, lost>>
    BY <1>10 DEF PostRetries
  <2>2. \A d \in Callers : call'[d].stage = call[d].stage /\ call'[d].key = call[d].key
    <3>1. call[c] \in Calls /\ call' = [call EXCEPT ![c] = [call[c] EXCEPT !.attempt = @ + 1]]
      BY <1>10 DEF PostRetries, TypeOK
    <3>. QED BY <3>1 DEF TypeOK, Calls
  <2>3. In("recording", k)' = In("recording", k) /\ In("posting", k)' = In("posting", k)
    BY <2>2 DEF In
  <2>. QED BY <1>6, <2>1, <2>3
<1>11. ASSUME NEW c \in Callers, PostFails(c) PROVE Traced(k)
  <2>1. UNCHANGED <<cache, bought, lost>> /\ call[c].stage = "posting"
    BY <1>11 DEF PostFails
  <2>2. In("recording", k)' = In("recording", k) /\ In("posting", k)' \subseteq In("posting", k)
    BY <1>11, <2>1, OneMoves DEF PostFails, Idle, In
  <2>. QED BY <1>6, <2>1, <2>2
\* A caller that stops recording.
<1>12. ASSUME NEW c \in Callers, call[c].stage = "recording", call' = [call EXCEPT ![c] = Idle]
       PROVE  /\ call[c].key \in Keys /\ call[c].tokens \in 0..MaxUsage
              /\ In("posting", k)' \subseteq In("posting", k)
              /\ In("recording", k)' = In("recording", k) \ {c}
  <2>1. call[c].key \in Keys /\ call[c].tokens \in 0..MaxUsage
    BY <1>12 DEF TypeOK, Calls
  <2>2. \A d \in Callers : call'[d] = IF d = c THEN Idle ELSE call[d]
    BY <1>12, OneMoves
  <2>3. In("posting", k)' = In("posting", k) \ {c}
    BY <2>2, <1>12 DEF In, Idle
  <2>4. In("recording", k)' = In("recording", k) \ {c}
    BY <2>2, <1>12 DEF In, Idle
  <2>. QED BY <2>1, <2>3, <2>4
<1>13. ASSUME NEW c \in Callers, call[c].stage = "recording", call' = [call EXCEPT ![c] = Idle],
              cache' = Insert(cache, call[c].key, Response(call[c].tokens)),
              UNCHANGED <<bought, lost>>
       PROVE  Traced(k)
  <2>1. call[c].key \in Keys /\ call[c].tokens \in 0..MaxUsage /\ cache \in [Keys -> Rows]
    BY <1>12, <1>13 DEF TypeOK
  <2>2. In("posting", k)' \subseteq In("posting", k) /\ In("recording", k)' = In("recording", k) \ {c}
    BY <1>12, <1>13
  <2>3. cache'[k] = Absent => cache[k] = Absent
    BY <1>13, <2>1, InsertKeeps
  <2>4. CASE call[c].key # k
    <3>1. In("recording", k)' = In("recording", k)
      BY <2>2, <2>4 DEF In
    <3>. QED BY <1>6, <1>13, <2>2, <2>3, <3>1
  <2>5. CASE call[c].key = k
    <3>1. cache'[k] # Absent
      BY <1>13, <2>1, <2>5, InsertKeeps
    <3>2. R2(k) <= R(k) /\ P2(k) <= P(k)
      BY <1>2, <2>2, NoMore
    <3>. QED BY <1>2, <1>3, <1>4, <1>5, <1>13, <3>1, <3>2
  <2>. QED BY <2>4, <2>5
<1>14. ASSUME NEW c \in Callers, Record(c) PROVE Traced(k)
  BY <1>13, <1>14 DEF Record, InsertBoth
<1>15. ASSUME NEW c \in Callers, RecordFails(c) PROVE Traced(k)
  <2>1. call[c].stage = "recording" /\ call' = [call EXCEPT ![c] = Idle] /\ UNCHANGED bought
    BY <1>15 DEF RecordFails
  <2>2. CASE /\ UNCHANGED <<cache, ledger>>
             /\ lost' = IF cache[call[c].key] = Absent
                          THEN [lost EXCEPT ![call[c].key] = @ + 1] ELSE lost
    <3>1. CASE call[c].key # k
      <4>1. In("recording", k)' = In("recording", k) /\ In("posting", k)' \subseteq In("posting", k)
        BY <1>12, <2>1, <3>1 DEF In
      <4>2. lost'[k] = lost[k]
        BY <2>2, <3>1 DEF TypeOK
      <4>. QED BY <1>6, <2>1, <2>2, <4>1, <4>2
    <3>2. CASE call[c].key = k
      <4>1. c \in In("recording", k) /\ In("recording", k)' = In("recording", k) \ {c}
        BY <1>12, <2>1, <3>2 DEF In
      <4>2. R2(k) = R(k) - 1
        BY <1>2, <4>1, OneLess
      <4>3. P2(k) <= P(k)
        BY <1>2, <1>12, <2>1, NoMore
      <4>4. lost'[k] = IF cache[k] = Absent THEN lost[k] + 1 ELSE lost[k]
        BY <2>2, <3>2 DEF TypeOK
      <4>. QED BY <1>2, <1>3, <1>4, <1>5, <2>1, <2>2, <4>2, <4>3, <4>4
    <3>. QED BY <3>1, <3>2
  <2>3. CASE /\ cache' = Insert(cache, call[c].key, Response(call[c].tokens))
             /\ UNCHANGED lost
    BY <1>13, <2>1, <2>3
  <2>4. CASE Revert(Recording \ {c})
    <3>1. In("posting", k)' \subseteq In("posting", k)
      BY <1>12, <2>1
    <3>2. In("recording", k)' = In("recording", k) \ {c}
      BY <1>12, <2>1
    <3>3. In("recording", k)' = {d \in Recording \ {c} : call[d].key = k}
      BY <3>2 DEF In, Recording
    <3>. QED BY <1>7, <2>1, <2>4, <3>1, <3>3
  <2>. QED BY <1>15, <2>2, <2>3, <2>4 DEF RecordFails, InsertBoth
<1>16. ASSUME Crash PROVE Traced(k)
  <2>1. Revert({}) /\ UNCHANGED bought
    BY <1>16 DEF Crash
  <2>2. In("recording", k)' = {} /\ In("posting", k)' = {}
    BY <1>16 DEF Crash, In, Idle
  <2>. QED BY <1>7, <2>1, <2>2
<1>17. CASE UNCHANGED vars
  <2>1. In("recording", k)' = In("recording", k) /\ In("posting", k)' = In("posting", k)
    BY <1>17 DEF vars, In
  <2>. QED BY <1>6, <1>17, <2>1 DEF vars
<1> HIDE DEF Traced
<1>. QED BY <1>8, <1>9, <1>10, <1>11, <1>14, <1>15, <1>16, <1>17 DEF Next, Goes, Stopped

-------------------------------------------------------------------------------
\* A file that is opened, with the rows earlier runs left in it.
LEMMA InitEstablishes == Init => IndInv
<1> SUFFICES ASSUME Init PROVE IndInv
  OBVIOUS
<1>0. /\ IsFiniteSet(Callers) /\ Cardinality(Callers) \in Nat /\ MaxRequests \in Nat
      /\ MaxRetries \in Nat /\ MaxUsage \in Nat /\ MaxCalls \in Nat /\ MaxFaults \in Nat
  BY Counted, BudgetAssumption, RetryAssumption, BoundAssumption
<1>1. PICK corrupt \in SUBSET Keys :
        /\ Cardinality(corrupt) < MaxRequests
        /\ cache = [k \in Keys |-> IF k \in corrupt THEN [kind |-> "corrupt", tokens |-> 0]
                                                    ELSE Absent]
        /\ ledger = [k \in Keys |-> IF k \in corrupt THEN Response(0) ELSE Absent]
  BY DEF Init
<1>2. saved.cache = cache /\ saved.ledger = ledger
  BY DEF Init
<1>3. TypeOK
  <2>1. cache \in [Keys -> Rows] /\ ledger \in [Keys -> Rows]
    BY <1>0, <1>1 DEF Rows, Absent, Response
  <2>2. Idle \in Calls /\ Idle.stage = "idle"
    BY <1>0 DEF Idle, Calls
  <2>. QED BY <1>0, <2>1, <2>2 DEF Init, TypeOK
<1>4. LedgerMatchesCache
  <2>1. \A k \in Keys : ledger[k] # Absent => cache[k] # Absent
    BY <1>1 DEF Absent, Response
  <2>2. Mischarged(cache, ledger) = {}
    BY <1>1 DEF Mischarged, Absent
  <2>3. Cardinality(Mischarged(cache, ledger)) <= faults
    BY <2>2, FS_EmptySet DEF Init
  <2>. QED BY <1>2, <2>1, <2>3 DEF LedgerMatchesCache, Agree
<1>5. SavedIsSeen
  BY <1>2 DEF SavedIsSeen
<1>6. RequestsWithinBudget
  <2>1. Recorded = corrupt
    BY <1>1 DEF Recorded, Response, Absent
  <2>2. Flying = {}
    BY DEF Flying, Init
  <2>3. Cardinality(Flying) = 0 /\ Requests < MaxRequests /\ Requests \in Nat
    BY <1>1, <2>1, <2>2, Counted, FS_EmptySet DEF Requests
  <2>. QED BY <1>0, <2>3 DEF RequestsWithinBudget
<1>7. ResponsesTraced
  <2>1. ASSUME NEW k \in Keys
        PROVE  Cardinality(In("recording", k)) = 0 /\ Cardinality(In("posting", k)) = 0
    <3>1. In("recording", k) = {} /\ In("posting", k) = {}
      BY DEF In, Init, Idle
    <3>. QED BY <3>1, FS_EmptySet
  <2>. QED BY <1>0, <2>1 DEF ResponsesTraced, Init
<1>8. TokensWithinBudget
  <2>1. Tokens = 0
    <3> DEFINE f == [k \in Keys |-> ledger[k].tokens]
    <3>1. \A k \in DOMAIN f : f[k] = 0
      BY <1>1 DEF Response, Absent
    <3>2. IsFiniteSet(DOMAIN f)
      BY CallerAssumption
    <3> HIDE DEF f
    <3>3. SumFunction(f) = 0
      BY <3>1, <3>2, SumOfZeros
    <3>. QED BY <3>3 DEF Tokens, f
  <2>2. Flying = {}
    BY DEF Flying, Init
  <2>3. Cardinality(Flying) = 0 /\ 0 * MaxUsage = 0 /\ Cardinality(Callers) * MaxUsage \in Nat
    BY <1>0, <2>2, FS_EmptySet, Responses
  <2> DEFINE N == Cardinality(Callers) * MaxUsage
  <2>4. N \in Nat /\ MaxTokens \in Nat \ {0}
    BY <2>3, BudgetAssumption
  <2>5. TokensWithinBudget <=> Tokens <= MaxTokens - 1 + N /\ Tokens + 0 <= MaxTokens - 1 + N
    BY <2>3 DEF TokensWithinBudget
  <2> HIDE DEF N
  <2>. QED BY <2>1, <2>4, <2>5
<1>. QED BY <1>3, <1>4, <1>5, <1>6, <1>7, <1>8 DEF IndInv

\* Every step keeps the whole invariant.
LEMMA NextPreserves == IndInv /\ [Next]_vars => IndInv'
<1> SUFFICES ASSUME IndInv, [Next]_vars PROVE IndInv'
  OBVIOUS
<1>1. TypeOK'
  BY TypeStep DEF IndInv
<1>2. LedgerMatchesCache'
  BY LedgerStep DEF IndInv
<1>3. SavedIsSeen'
  BY SeenStep DEF IndInv
<1>4. RequestsWithinBudget'
  BY BudgetStep DEF IndInv
<1>5. ResponsesTraced'
  BY <1>1, TracedStep DEF IndInv
<1>6. TokensWithinBudget'
  BY <1>1, TokensStep DEF IndInv
<1>. QED BY <1>1, <1>2, <1>3, <1>4, <1>5, <1>6 DEF IndInv

-------------------------------------------------------------------------------
\* The conjunction of the safety invariants of the cache and the ledger, with what
\* they need, is inductive (cached.py complete, openai_compatible.py _post).
THEOREM Inductive == Spec => []IndInv
<1>1. Init => IndInv
  BY InitEstablishes
<1>2. IndInv /\ [Next]_vars => IndInv'
  BY NextPreserves
<1>. QED BY <1>1, <1>2, PTL DEF Spec

\* Type correctness of the cache and the ledger for any number of threads and faults.
THEOREM TypeCorrect == Spec => []TypeOK
<1>1. IndInv => TypeOK
  BY DEF IndInv
<1>. QED BY <1>1, Inductive, PTL

\* No event is without its response, and every refused write leaves at most one response
\* that the ledger misses or miscounts (cached.py 143-153).
THEOREM LedgerAgrees == Spec => []LedgerMatchesCache
<1>1. IndInv => LedgerMatchesCache
  BY DEF IndInv
<1>. QED BY <1>1, Inductive, PTL

\* The requests recorded pass the budget by at most the number of threads less one, so
\* not at all for a single thread (cached.py 104-122).
THEOREM BudgetHolds == Spec => []RequestsWithinBudget
<1>1. IndInv => RequestsWithinBudget
  BY DEF IndInv
<1>. QED BY <1>1, Inductive, PTL

\* The tokens recorded, those that the requests still out may add counted in full, pass
\* their budget by less than one response for each thread (cached.py 110-122, 143-153).
THEOREM TokensHold == Spec => []TokensWithinBudget
<1>1. IndInv => TokensWithinBudget
  BY DEF IndInv
<1>. QED BY <1>1, Inductive, PTL

\* A response the cache has is never bought again: beyond those a fault lost, every
\* thread buys it at most once (cached.py 105-109, 143-153).
THEOREM BoughtOnce == Spec => []BoughtOncePerCaller
<1>1. IndInv => BoughtOncePerCaller
  <2> SUFFICES ASSUME IndInv, NEW k \in Keys PROVE bought[k] <= lost[k] + Cardinality(Callers)
    BY DEF BoughtOncePerCaller
  <2>1. /\ bought[k] \in Nat /\ lost[k] \in Nat
        /\ bought[k] + Cardinality(In("posting", k)) <= lost[k] + Cardinality(Callers)
    BY DEF IndInv, TypeOK, ResponsesTraced
  <2>2. Cardinality(In("posting", k)) \in Nat /\ Cardinality(Callers) \in Nat
    BY Counted
  <2>. QED BY <2>1, <2>2
<1>. QED BY <1>1, Inductive, PTL

\* A row never changes but back to its committed form, and a committed row is for good:
\* INSERT OR IGNORE lets the first writer win (cached.py 144-153).
THEOREM CommittedRowsStay == Spec => RowsStay
<1> DEFINE Keep ==
      \A k \in Keys :
        /\ cache[k] # Absent => cache'[k] \in {cache[k], saved.cache[k]}
        /\ saved.cache[k] # Absent => saved'.cache[k] = saved.cache[k]
<1>1. IndInv /\ [Next]_vars => [Keep]_vars
  <2> SUFFICES ASSUME IndInv, [Next]_vars PROVE Keep
    OBVIOUS
  <2>0. TypeOK /\ SavedIsSeen
    BY DEF IndInv
  <2>1. ASSUME NEW c \in Callers, call[c].stage = "recording"
        PROVE  call[c].key \in Keys /\ call[c].tokens \in 0..MaxUsage
    BY <2>0, <2>1 DEF TypeOK, Calls
  <2>2. ASSUME NEW c \in Callers, call[c].stage = "recording",
               cache' = Insert(cache, call[c].key, Response(call[c].tokens))
        PROVE  \A k \in Keys : cache[k] # Absent => cache'[k] = cache[k]
    BY <2>0, <2>1, <2>2, InsertKeeps DEF TypeOK
  <2>3. ASSUME NEW c \in Callers, Record(c) PROVE Keep
    <3>1. \A k \in Keys : cache[k] # Absent => cache'[k] = cache[k]
      BY <2>2, <2>3 DEF Record, InsertBoth
    <3>2. saved'.cache = cache'
      BY <2>3 DEF Record
    <3>. QED BY <2>0, <3>1, <3>2 DEF SavedIsSeen
  <2>4. ASSUME NEW c \in Callers, RecordFails(c) PROVE Keep
    <3>1. call[c].stage = "recording" /\ UNCHANGED saved
      BY <2>4 DEF RecordFails
    <3>2. CASE UNCHANGED cache
      BY <3>1, <3>2
    <3>3. CASE cache' = Insert(cache, call[c].key, Response(call[c].tokens))
      BY <2>2, <3>1, <3>3
    <3>4. CASE Revert(Recording \ {c})
      BY <3>1, <3>4 DEF Revert
    <3>. QED BY <2>4, <3>2, <3>3, <3>4 DEF RecordFails, InsertBoth
  <2>5. ASSUME Crash PROVE Keep
    BY <2>5 DEF Crash, Revert
  <2>6. CASE UNCHANGED <<cache, saved>>
    BY <2>6
  <2>7. ASSUME NEW c \in Callers, NEW k \in Keys, Call(c, k) PROVE UNCHANGED <<cache, saved>>
    BY <2>7 DEF Call, GoesOut
  <2>8. ASSUME NEW c \in Callers, PostSucceeds(c) \/ PostRetries(c) \/ PostFails(c)
        PROVE  UNCHANGED <<cache, saved>>
    BY <2>8 DEF PostSucceeds, PostRetries, PostFails
  <2> HIDE DEF Keep
  <2>. QED BY <2>3, <2>4, <2>5, <2>6, <2>7, <2>8 DEF Next, Goes, Stopped, vars
<1>. QED BY <1>1, Inductive, PTL DEF Spec, RowsStay

===============================================================================
