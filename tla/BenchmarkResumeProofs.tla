------------------------ MODULE BenchmarkResumeProofs ------------------------
(* No question that the checkpoint settles is executed again, and what is
   reported is of one run, for any batch, any kind of agent and any number of
   processes, crashes and torn lines.

   The first invariant says where a settled question can be while a process
   works: among the records it took over, done already, or, once its line is
   written and before the batch moves on, at hand.  The second follows the
   records from there: into the batch, from the batch into the files, and it
   says of files that a later process would report as they are that they are
   of one run by the time no process works on them any more.               *)
EXTENDS BenchmarkResume, DataFacts

SettledByOneLine ==
    \A j, k \in Settled(checkpoint) :
        checkpoint[j].rec.qid = checkpoint[k].rec.qid => j = k

Distinct(s) == \A i, j \in DOMAIN s : s[i] = s[j] => i = j

\* The line of the question at hand is written, and its other log is not.
JustWritten == phase = "append 2" /\ LogOrder[1] = "checkpoint"

SettledAreBehind ==
    phase \in {"answer", "append 1", "append 2"} =>
        \A k \in Settled(checkpoint) :
            \/ checkpoint[k].rec.qid \in Known
            \/ checkpoint[k].rec.qid \notin ToSet(todo)
            \/ JustWritten /\ checkpoint[k].rec.qid = Head(todo)

OneAtHand ==
    phase \in {"append 1", "append 2"} => todo # <<>> /\ Head(todo) \notin Known

EmptiedFirst == (phase = "empty" /\ LogOrder[1] = "checkpoint") => checkpoint = <<>>

RowsAreOwn == \A q \in Questions : batch[q].qid = q

ResumeInv ==
    /\ TypeOK
    /\ SettledByOneLine
    /\ SettledAreBehind
    /\ OneAtHand
    /\ EmptiedFirst
    /\ RowsAreOwn
    /\ Distinct(todo)

-----------------------------------------------------------------------------
LEMMA Batch ==
    Qids \in Seq(Questions) /\ Distinct(Qids) /\ ToSet(Qids) = Questions
  BY BenchmarkAssumption DEF Questions, Distinct, ToSet

LEMMA NoRecordsType == NoRecords \in Rows /\ \A q \in Questions : NoRecords[q].qid = q
  BY DEF NoRecords, Rows, Records, Record, Statuses

\* Which of its logs an agent writes first is fixed.
LEMMA Logs ==
    /\ LogOrder[1] = "checkpoint" <=> agent # "agentic_rag"
    /\ LogOrder[2] = "checkpoint" <=> agent = "agentic_rag"
  BY DEF LogOrder

\* What depends on the kind of agent stays, as it does.
LEMMA SameAgent ==
    agent' = agent => Phases' = Phases /\ Tasks' = Tasks /\ LogOrder' = LogOrder
  BY DEF Phases, Tasks, LogOrder

LEMMA SettledLines ==
    ASSUME NEW log, NEW k \in Settled(log)
    PROVE  k \in DOMAIN log
  BY DEF Settled, Readable

LEMMA ElementType == ASSUME NEW S, NEW s \in Seq(S), NEW k \in DOMAIN s PROVE k \in Nat /\ s[k] \in S
  OBVIOUS

LEMMA AppendType == ASSUME NEW S, NEW s \in Seq(S), NEW e \in S PROVE Append(s, e) \in Seq(S)
  BY AppendProperties

LEMMA NothingSettled == Settled(<<>>) = {}
  BY DEF Settled, Readable

\* An append settles no question that was not, but the one of its own line.
LEMMA AppendSettles ==
    ASSUME NEW log \in Seq([rec : Records, cut : Cuts]),
           NEW line \in [rec : Records, cut : Cuts],
           NEW k \in Settled(Append(log, line))
    PROVE  \/ k = Len(log) + 1 /\ Append(log, line)[k].rec.qid = line.rec.qid
           \/ k \in Settled(log) /\ Append(log, line)[k].rec = log[k].rec
<1> DEFINE new == Append(log, line)
<1>1. /\ Len(log) \in Nat /\ Len(new) = Len(log) + 1 /\ new[Len(log) + 1] = line
      /\ DOMAIN log = 1..Len(log) /\ DOMAIN new = 1..(Len(log) + 1)
      /\ \A i \in 1..Len(log) : new[i] = log[i]
  BY AppendProperties
<1>2. /\ k \in DOMAIN new
      /\ k > 1 => new[k - 1].cut = "whole"
      /\ new[k].cut = "whole" \/ (new[k].cut = "unended" /\ k = Len(new))
      /\ new[k].rec.status # "failed"
  BY DEF Settled, Readable
<1>3. CASE k = Len(log) + 1
  BY <1>1, <1>3
<1>4. CASE k \in 1..Len(log)
  <2>1. new[k] = log[k] /\ new[k].cut = "whole" /\ (k > 1 => new[k - 1] = log[k - 1])
    BY <1>1, <1>2, <1>4
  <2> QED
    BY <1>1, <1>2, <1>4, <2>1 DEF Settled, Readable
<1> QED
  BY <1>1, <1>2, <1>3, <1>4

LEMMA TailFacts ==
    ASSUME NEW S, NEW s \in Seq(S), s # <<>>, Distinct(s)
    PROVE  /\ Head(s) \in S /\ Head(s) \in ToSet(s)
           /\ Tail(s) \in Seq(S) /\ Distinct(Tail(s))
           /\ ToSet(Tail(s)) \subseteq ToSet(s)
           /\ Head(s) \notin ToSet(Tail(s))
<1>1. /\ Len(s) \in Nat \ {0} /\ Head(s) = s[1] /\ s[1] \in S
      /\ Tail(s) \in Seq(S) /\ Len(Tail(s)) = Len(s) - 1
      /\ \A i \in 1..(Len(s) - 1) : Tail(s)[i] = s[i + 1]
  BY HeadTailProperties, EmptySeq
<1>2. DOMAIN s = 1..Len(s) /\ DOMAIN Tail(s) = 1..(Len(s) - 1)
  BY <1>1
<1>3. Head(s) \in ToSet(s)
  BY <1>1, <1>2 DEF ToSet
<1>4. Distinct(Tail(s))
  BY <1>1, <1>2 DEF Distinct
<1>5. ToSet(Tail(s)) \subseteq ToSet(s)
  BY <1>1, <1>2 DEF ToSet
<1>6. Head(s) \notin ToSet(Tail(s))
  BY <1>1, <1>2 DEF ToSet, Distinct
<1> QED
  BY <1>1, <1>3, <1>4, <1>5, <1>6

\* After every task but the last one comes another.
LEMMA NextTask ==
    ASSUME NEW task \in OutputFiles \cup {"agent"}
    PROVE  After(task) \in ToSet(Tasks) \cap Phases
<1>1. DOMAIN Tasks = 1..6 /\ Tasks[6] = "report" /\ task # "report"
  BY DEF Tasks, OutputFiles
<1>2. \E j \in DOMAIN Tasks : Tasks[j] = task
  <2>1. CASE agent \in {"agentic_rag", "rewrite_rag"}
    <3>1. /\ Tasks[1] = "agent" /\ Tasks[2] = "run" /\ Tasks[3] = "answers"
          /\ Tasks[4] = "metadata" /\ Tasks[5] = "runtime"
      BY <2>1 DEF Tasks
    <3> QED
      BY <1>1, <3>1 DEF OutputFiles
  <2>2. CASE agent \notin {"agentic_rag", "rewrite_rag"}
    <3>1. /\ Tasks[1] = "run" /\ Tasks[2] = "agent" /\ Tasks[3] = "answers"
          /\ Tasks[4] = "metadata" /\ Tasks[5] = "runtime"
      BY <2>2 DEF Tasks
    <3> QED
      BY <1>1, <3>1 DEF OutputFiles
  <2> QED
    BY <2>1, <2>2
<1>3. PICK n \in 1..6 : Tasks[n] = task /\ After(task) = Tasks[1 + n]
  BY <1>1, <1>2 DEF After
<1>4. n + 1 \in DOMAIN Tasks
  BY <1>1, <1>3
<1>5. After(task) \in ToSet(Tasks)
  BY <1>3, <1>4 DEF ToSet
<1> QED
  BY <1>5 DEF Phases

LEMMA PhaseFacts ==
    /\ {"idle", "empty", "answer", "append 1", "append 2", "report", Tasks[1]} \subseteq Phases
    /\ Tasks[1] # "idle"
<1>1. DOMAIN Tasks = 1..6 /\ Tasks[6] = "report" /\ Tasks[1] \in {"agent", "run"}
  BY DEF Tasks
<1>2. {"report", Tasks[1]} \subseteq ToSet(Tasks)
  BY <1>1 DEF ToSet
<1> QED
  BY <1>1, <1>2 DEF Phases

-----------------------------------------------------------------------------
LEMMA InitResume == Init => ResumeInv
<1> SUFFICES ASSUME Init PROVE ResumeInv
  OBVIOUS
<1>1. TypeOK
  <2>1. agent \in Kinds
    BY BenchmarkAssumption DEF Init
  <2>2. outputs \in [OutputFiles -> [is : {"absent", "broken", "whole"}, rows : Rows]]
    BY NoRecordsType DEF Init
  <2>3. phase \in Phases
    BY PhaseFacts DEF Init
  <2>4. checkpoint \in Seq([rec : Records, cut : Cuts]) /\ todo \in Seq(Questions)
    BY EmptySeq DEF Init
  <2>5. batch \in Rows /\ paid \in [Questions -> Nat]
    BY NoRecordsType DEF Init
  <2> QED
    BY <2>1, <2>2, <2>3, <2>4, <2>5 DEF Init, TypeOK
<1> QED
  BY <1>1, NothingSettled, NoRecordsType
     DEF Init, ResumeInv, SettledByOneLine, SettledAreBehind, OneAtHand, EmptiedFirst,
         RowsAreOwn, Distinct

\* A process that is gone has nothing at hand.
LEMMA GoneResume ==
    ASSUME TypeOK', SettledByOneLine', Exit
    PROVE  ResumeInv'
<1>1. RowsAreOwn'
  BY NoRecordsType DEF Exit, RowsAreOwn
<1>2. Distinct(todo)'
  BY DEF Exit, Distinct
<1> QED
  BY <1>1, <1>2 DEF Exit, ResumeInv, SettledAreBehind, OneAtHand, EmptiedFirst

LEMMA ExitType ==
    ASSUME TypeOK, Exit
    PROVE  /\ phase' \in Phases /\ resume' \in BOOLEAN /\ completed' \subseteq Records
           /\ todo' \in Seq(Questions) /\ batch' \in Rows
<1>1. <<>> \in Seq(Questions)
  BY EmptySeq
<1> QED
  BY <1>1, NoRecordsType, PhaseFacts DEF Exit

\* The line of the question at hand settles no other, wherever it is cut.
LEMMA AppendedOnce ==
    ASSUME ResumeInv, NEW cut \in Cuts,
           phase = IF LogOrder[1] = "checkpoint" THEN "append 1" ELSE "append 2",
           checkpoint' = Appended(cut)
    PROVE  /\ checkpoint' \in Seq([rec : Records, cut : Cuts])
           /\ SettledByOneLine'
           /\ \A k \in Settled(checkpoint') :
                 \/ checkpoint'[k].rec.qid = Head(todo)
                 \/ k \in Settled(checkpoint) /\ checkpoint'[k].rec = checkpoint[k].rec
<1> DEFINE line == [rec |-> batch[Head(todo)], cut |-> cut]
<1>1. /\ todo # <<>> /\ Head(todo) \notin Known /\ ~JustWritten
      /\ phase \in {"append 1", "append 2"}
  BY DEF ResumeInv, OneAtHand, JustWritten
<1>2. Head(todo) \in Questions /\ Head(todo) \in ToSet(todo)
  BY <1>1, TailFacts DEF ResumeInv, TypeOK
<1>3. line \in [rec : Records, cut : Cuts] /\ line.rec.qid = Head(todo)
  BY <1>2 DEF ResumeInv, TypeOK, Rows, RowsAreOwn
<1>4. checkpoint \in Seq([rec : Records, cut : Cuts]) /\ checkpoint' = Append(checkpoint, line)
  BY DEF ResumeInv, TypeOK, Appended
<1> HIDE DEF line
<1>5. checkpoint' \in Seq([rec : Records, cut : Cuts])
  <2> HIDE DEF Records, Cuts
  <2>1. Append(checkpoint, line) \in Seq([rec : Records, cut : Cuts])
    BY <1>3, <1>4, AppendType
  <2> QED
    BY <1>4, <2>1
<1>6. \A k \in Settled(checkpoint) : checkpoint[k].rec.qid # Head(todo)
  BY <1>1, <1>2 DEF ResumeInv, SettledAreBehind
<1>7. \A k \in Settled(checkpoint') :
          \/ k = Len(checkpoint) + 1 /\ checkpoint'[k].rec.qid = Head(todo)
          \/ k \in Settled(checkpoint) /\ checkpoint'[k].rec = checkpoint[k].rec
  <2> HIDE DEF Records, Cuts
  <2>1. ASSUME NEW k \in Settled(Append(checkpoint, line))
        PROVE  \/ k = Len(checkpoint) + 1 /\ Append(checkpoint, line)[k].rec.qid = line.rec.qid
               \/ k \in Settled(checkpoint)
                  /\ Append(checkpoint, line)[k].rec = checkpoint[k].rec
    BY <1>3, <1>4, AppendSettles
  <2>. QED BY <1>3, <1>4, <2>1
<1>8. \A j, k \in Settled(checkpoint') :
          checkpoint'[j].rec.qid = checkpoint'[k].rec.qid => j = k
  <2> SUFFICES ASSUME NEW j \in Settled(checkpoint'), NEW k \in Settled(checkpoint'),
                      checkpoint'[j].rec.qid = checkpoint'[k].rec.qid
               PROVE  j = k
    OBVIOUS
  <2>1. CASE j \in Settled(checkpoint) /\ checkpoint'[j].rec = checkpoint[j].rec
    BY <1>6, <1>7, <2>1 DEF ResumeInv, SettledByOneLine
  <2>2. CASE j = Len(checkpoint) + 1 /\ checkpoint'[j].rec.qid = Head(todo)
    BY <1>6, <1>7, <2>2
  <2> QED
    BY <1>7, <2>1, <2>2
<1> QED
  BY <1>5, <1>7, <1>8 DEF SettledByOneLine

-----------------------------------------------------------------------------
LEMMA StartResume ==
    ASSUME ResumeInv, NEW resuming \in BOOLEAN, Start(resuming)
    PROVE  ResumeInv'
<1>1. phase' \in Phases /\ phase' \notin {"empty", "answer", "append 1", "append 2"}
  <2>1. phase' \in {Tasks[1], "report", "idle"}
    BY DEF Start
  <2>2. Tasks[1] \in {"agent", "run"}
    BY DEF Tasks
  <2> QED
    BY <2>1, <2>2, PhaseFacts
<1>2. TypeOK'
  <2>1. starts' \in Nat /\ replaced' \in BOOLEAN /\ resume' \in BOOLEAN
    BY DEF ResumeInv, TypeOK, Start
  <2>2. /\ UNCHANGED <<agent, checkpoint, outputs, rejected, completed, todo, batch>>
        /\ UNCHANGED <<crashes, aborts, paid, reported>>
    BY DEF Start, files
  <2> QED
    BY <1>1, <2>1, <2>2, SameAgent DEF ResumeInv, TypeOK
<1> QED
  BY <1>1, <1>2
     DEF ResumeInv, Start, files, SettledByOneLine, SettledAreBehind, OneAtHand,
         EmptiedFirst, RowsAreOwn, Distinct

\* Every question on a settled line is among the records taken over.
LEMMA TakeOverResume == ASSUME ResumeInv, TakeOver PROVE ResumeInv'
<1>1. completed' \subseteq Records
  <2> SUFFICES ASSUME NEW k \in Settled(checkpoint) PROVE checkpoint[k].rec \in Records
    BY DEF TakeOver, LoadCheckpoints
  <2>1. k \in DOMAIN checkpoint
    BY SettledLines
  <2>2. checkpoint[k] \in [rec : Records, cut : Cuts]
    BY <2>1, ElementType DEF ResumeInv, TypeOK
  <2> QED
    BY <2>2
<1>2. \A k \in Settled(checkpoint) : checkpoint[k].rec \in LoadCheckpoints(checkpoint)
  <2> SUFFICES ASSUME NEW k \in Settled(checkpoint)
               PROVE  \A i \in Settled(checkpoint) :
                         i > k => checkpoint[i].rec.qid # checkpoint[k].rec.qid
    BY DEF LoadCheckpoints
  <2>1. k \in Nat
    BY SettledLines, ElementType DEF ResumeInv, TypeOK
  <2> QED
    BY <2>1 DEF ResumeInv, SettledByOneLine
<1>3. \A k \in Settled(checkpoint) : checkpoint[k].rec.qid \in Known'
  BY <1>2 DEF TakeOver, Known
<1>4. TypeOK'
  BY <1>1, Batch, PhaseFacts, SameAgent DEF ResumeInv, TypeOK, TakeOver, files, history
<1>5. Distinct(todo)' /\ RowsAreOwn' /\ SettledByOneLine'
  BY Batch DEF ResumeInv, TakeOver, files, RowsAreOwn, SettledByOneLine, Distinct
<1>6. SettledAreBehind'
  BY <1>3 DEF SettledAreBehind, TakeOver, files
<1> QED
  BY <1>4, <1>5, <1>6 DEF ResumeInv, TakeOver, OneAtHand, EmptiedFirst

LEMMA EmptyResume == ASSUME ResumeInv, NEW k \in {1, 2}, EmptyLog(k) PROVE ResumeInv'
<1> USE DEF EmptyLog
<1>1. checkpoint' \in Seq([rec : Records, cut : Cuts]) /\ SettledByOneLine'
  <2>1. CASE LogOrder[k] = "checkpoint"
    BY <2>1, NothingSettled, EmptySeq DEF SettledByOneLine
  <2>2. CASE LogOrder[k] # "checkpoint"
    BY <2>2 DEF ResumeInv, TypeOK, SettledByOneLine
  <2> QED
    BY <2>1, <2>2
<1>2. paid' \in [Questions -> Nat] /\ todo' \in Seq(Questions) /\ Distinct(todo)'
  BY Batch DEF ResumeInv, TypeOK, Distinct
<1>3. phase' \in Phases /\ phase' \in {"empty", "answer"}
  BY PhaseFacts
<1>4. TypeOK'
  BY <1>1, <1>2, <1>3, SameAgent DEF ResumeInv, TypeOK
<1>5. LogOrder' = LogOrder
  BY DEF LogOrder
<1>6. EmptiedFirst'
  BY <1>5 DEF EmptiedFirst
<1>7. SettledAreBehind'
  <2>1. CASE k = 1
    BY <2>1 DEF SettledAreBehind
  <2>2. CASE k = 2
    <3>1. checkpoint' = <<>>
      BY <2>2, Logs, <1>5 DEF ResumeInv, EmptiedFirst, TypeOK, Kinds
    <3> QED
      BY <3>1, NothingSettled DEF SettledAreBehind
  <2> QED
    BY <2>1, <2>2
<1> QED
  BY <1>1, <1>2, <1>3, <1>4, <1>6, <1>7 DEF ResumeInv, OneAtHand, RowsAreOwn

LEMMA SkipResume == ASSUME ResumeInv, SkipQuestion PROVE ResumeInv'
<1>1. PICK r \in completed : r.qid = Head(todo) /\ batch' = [batch EXCEPT ![r.qid] = r]
  BY DEF SkipQuestion
<1>2. r \in Records /\ batch' \in Rows /\ RowsAreOwn'
  BY <1>1 DEF ResumeInv, TypeOK, Rows, RowsAreOwn
<1>3. /\ phase = "answer" /\ phase' = phase /\ todo # <<>> /\ todo' = Tail(todo)
      /\ todo' \in Seq(Questions) /\ Distinct(todo)' /\ ToSet(todo') \subseteq ToSet(todo)
  BY TailFacts DEF ResumeInv, TypeOK, SkipQuestion, Answering, Distinct
<1>4. SettledAreBehind'
  BY <1>3 DEF ResumeInv, SettledAreBehind, SkipQuestion, files, Known, JustWritten
<1> QED
  BY <1>2, <1>3, <1>4, SameAgent
     DEF ResumeInv, SkipQuestion, files, history, TypeOK, SettledByOneLine, OneAtHand,
         EmptiedFirst

LEMMA ExecuteResume == ASSUME ResumeInv, ExecuteQuestion PROVE ResumeInv'
<1>1. PICK status \in Recorded(agent) :
        /\ batch' = [batch EXCEPT ![Head(todo)] = Record(@.qid, status, starts)]
        /\ paid' = [paid EXCEPT ![Head(todo)] = @ + IF status = "failed" THEN 0 ELSE 1]
  BY DEF ExecuteQuestion
<1>2. Head(todo) \in Questions /\ todo # <<>> /\ phase = "answer" /\ phase' = "append 1"
  BY TailFacts DEF ResumeInv, TypeOK, ExecuteQuestion, Answering
<1>3. status \in Statuses
  BY DEF ResumeInv, TypeOK, Kinds, Recorded, Statuses
<1>4. batch' \in Rows /\ RowsAreOwn'
  <2>1. Record(batch[Head(todo)].qid, status, starts) \in Records
    BY <1>2, <1>3 DEF ResumeInv, TypeOK, Rows, Records, Record, RowsAreOwn
  <2> QED
    BY <1>1, <1>2, <2>1 DEF ResumeInv, TypeOK, Rows, RowsAreOwn, Record
<1>5. paid' \in [Questions -> Nat]
  <2>1. paid[Head(todo)] \in Nat
    BY <1>2 DEF ResumeInv, TypeOK
  <2>2. PICK n \in {0, 1} : paid' = [paid EXCEPT ![Head(todo)] = paid[Head(todo)] + n]
    BY <1>1
  <2>3. paid[Head(todo)] + n \in Nat
    BY <2>1
  <2> QED
    BY <2>2, <2>3 DEF ResumeInv, TypeOK
<1>6. TypeOK'
  BY <1>2, <1>4, <1>5, PhaseFacts, SameAgent DEF ResumeInv, TypeOK, ExecuteQuestion, files
<1>7. SettledAreBehind' /\ OneAtHand'
  BY <1>2 DEF ResumeInv, SettledAreBehind, OneAtHand, ExecuteQuestion, files, Known, JustWritten
<1> QED
  BY <1>2, <1>4, <1>6, <1>7
     DEF ResumeInv, ExecuteQuestion, files, SettledByOneLine, EmptiedFirst, Distinct

LEMMA AppendResume == ASSUME ResumeInv, NEW k \in {1, 2}, AppendLog(k) PROVE ResumeInv'
<1> USE DEF AppendLog
<1>1. /\ phase = IF k = 1 THEN "append 1" ELSE "append 2"
      /\ todo # <<>> /\ Head(todo) \notin Known /\ Known' = Known
      /\ LogOrder' = LogOrder
  BY DEF ResumeInv, OneAtHand, Known, LogOrder
<1>2. /\ checkpoint' \in Seq([rec : Records, cut : Cuts])
      /\ SettledByOneLine'
      /\ \A i \in Settled(checkpoint') :
            \/ LogOrder[k] = "checkpoint" /\ checkpoint'[i].rec.qid = Head(todo)
            \/ i \in Settled(checkpoint) /\ checkpoint'[i].rec = checkpoint[i].rec
  <2>1. CASE LogOrder[k] = "checkpoint"
    <3>1. phase = IF LogOrder[1] = "checkpoint" THEN "append 1" ELSE "append 2"
      BY <1>1, <2>1, Logs
    <3>2. checkpoint' = Appended("whole") /\ "whole" \in Cuts
      BY <2>1 DEF Cuts
    <3> QED
      BY <2>1, <3>1, <3>2, AppendedOnce
  <2>2. CASE LogOrder[k] # "checkpoint"
    BY <2>2 DEF ResumeInv, TypeOK, SettledByOneLine
  <2> QED
    BY <2>1, <2>2
<1>3. /\ Tail(todo) \in Seq(Questions) /\ Distinct(Tail(todo))
      /\ ToSet(Tail(todo)) \subseteq ToSet(todo) /\ Head(todo) \notin ToSet(Tail(todo))
  BY <1>1, TailFacts DEF ResumeInv, TypeOK
<1>4. todo' \in Seq(Questions) /\ Distinct(todo)'
  BY <1>3 DEF ResumeInv, TypeOK, Distinct
<1>5. phase' \in Phases
  BY PhaseFacts
<1>6. TypeOK'
  BY <1>2, <1>4, <1>5, SameAgent DEF ResumeInv, TypeOK, history
<1>7. SettledAreBehind'
  <2> SUFFICES ASSUME NEW i \in Settled(checkpoint')
               PROVE  \/ checkpoint'[i].rec.qid \in Known
                      \/ checkpoint'[i].rec.qid \notin ToSet(todo')
                      \/ JustWritten' /\ checkpoint'[i].rec.qid = Head(todo')
    BY <1>1 DEF SettledAreBehind
  <2>1. CASE k = 1
    BY <1>1, <1>2, <2>1 DEF ResumeInv, SettledAreBehind, JustWritten
  <2>2. CASE k = 2
    BY <1>1, <1>2, <1>3, <2>2 DEF ResumeInv, SettledAreBehind, JustWritten
  <2> QED
    BY <2>1, <2>2
<1> QED
  BY <1>1, <1>2, <1>4, <1>6, <1>7 DEF ResumeInv, OneAtHand, EmptiedFirst, RowsAreOwn

\* Steps that leave the checkpoint and the questions alone.
LEMMA OtherResume ==
    ASSUME ResumeInv, TypeOK', UNCHANGED <<agent, checkpoint, completed, todo, batch>>,
           phase' \notin {"empty", "answer", "append 1", "append 2"}
    PROVE  ResumeInv'
  BY DEF ResumeInv, SettledByOneLine, SettledAreBehind, OneAtHand, EmptiedFirst, RowsAreOwn,
         Distinct

LEMMA TasksAreNoPhases ==
    ToSet(Tasks) \cap {"idle", "empty", "answer", "append 1", "append 2"} = {}
<1>1. DOMAIN Tasks = 1..6
      /\ \A i \in 1..6 : Tasks[i] \in {"agent", "run", "answers", "metadata", "runtime", "report"}
  BY DEF Tasks
<1> QED
  BY <1>1 DEF ToSet

LEMMA NextResume == ResumeInv /\ [Next]_vars => ResumeInv'
<1> SUFFICES ASSUME ResumeInv, [Next]_vars PROVE ResumeInv'
  OBVIOUS
<1>1. ASSUME NEW resuming \in BOOLEAN, Start(resuming) PROVE ResumeInv'
  BY <1>1, StartResume
<1>2. CASE TakeOver
  BY <1>2, TakeOverResume
<1>3. CASE TakeOverFails
  BY <1>3, GoneResume, ExitType, SameAgent
     DEF TakeOverFails, ResumeInv, TypeOK, files, history, SettledByOneLine
<1>4. ASSUME NEW k \in {1, 2}, EmptyLog(k) PROVE ResumeInv'
  BY <1>4, EmptyResume
<1>5. CASE SkipQuestion
  BY <1>5, SkipResume
<1>6. CASE ExecuteQuestion
  BY <1>6, ExecuteResume
<1>7. CASE AbortQuestion
  <2>1. Exit /\ UNCHANGED <<agent, checkpoint, outputs, starts, crashes, paid, replaced, reported>>
    BY <1>7 DEF AbortQuestion
  <2>2. aborts' \in Nat
    BY <1>7 DEF AbortQuestion, ResumeInv, TypeOK
  <2>3. rejected' \subseteq Questions
    <3>1. Head(todo) \in Questions
      BY <1>7, TailFacts DEF AbortQuestion, Answering, ResumeInv, TypeOK
    <3> QED
      BY <1>7, <3>1 DEF AbortQuestion, ResumeInv, TypeOK
  <2>4. TypeOK'
    BY <2>1, <2>2, <2>3, ExitType, SameAgent DEF ResumeInv, TypeOK
  <2> QED
    BY <2>1, <2>4, GoneResume DEF ResumeInv, SettledByOneLine
<1>8. ASSUME NEW k \in {1, 2}, AppendLog(k) PROVE ResumeInv'
  BY <1>8, AppendResume
<1>9. CASE EndBatch
  <2>1. phase' \in ToSet(Tasks) \cap Phases
    BY <1>9, NextTask DEF EndBatch
  <2>2. TypeOK'
    BY <1>9, <2>1, SameAgent DEF EndBatch, ResumeInv, TypeOK, files, process, history
  <2> QED
    BY <1>9, <2>1, <2>2, OtherResume, TasksAreNoPhases DEF EndBatch, files, process
<1>10. CASE WriteOutput
  <2>1. phase' \in ToSet(Tasks) \cap Phases
    BY <1>10, NextTask DEF WriteOutput
  <2>2. outputs' \in [OutputFiles -> [is : {"absent", "broken", "whole"}, rows : Rows]]
    BY <1>10 DEF WriteOutput, ResumeInv, TypeOK
  <2>3. TypeOK'
    BY <1>10, <2>1, <2>2, SameAgent DEF WriteOutput, ResumeInv, TypeOK, process, history
  <2> QED
    BY <1>10, <2>1, <2>3, OtherResume, TasksAreNoPhases DEF WriteOutput, process
<1>11. CASE Report
  BY <1>11, GoneResume, ExitType, SameAgent DEF Report, ResumeInv, TypeOK, files, SettledByOneLine
<1>12. CASE Crash
  BY <1>12, GoneResume, ExitType, SameAgent DEF Crash, Dies, ResumeInv, TypeOK, SettledByOneLine
<1>13. CASE CrashInAppend
  <2>1. PICK cut \in Cuts \ {"whole"} : checkpoint' = Appended(cut)
    BY <1>13 DEF CrashInAppend
  <2>2. checkpoint' \in Seq([rec : Records, cut : Cuts]) /\ SettledByOneLine'
    BY <1>13, <2>1, AppendedOnce DEF CrashInAppend
  <2>3. /\ Dies /\ Exit /\ crashes' \in Nat
        /\ UNCHANGED <<agent, outputs, rejected, starts, aborts, paid, replaced, reported>>
    <3>1. Dies /\ UNCHANGED outputs
      BY <1>13 DEF CrashInAppend
    <3>2. crashes \in Nat
      BY DEF ResumeInv, TypeOK
    <3> QED
      BY <3>1, <3>2 DEF Dies
  <2>4. TypeOK'
    BY <2>2, <2>3, ExitType, SameAgent DEF ResumeInv, TypeOK
  <2> QED
    BY <2>2, <2>3, <2>4, GoneResume
<1>14. CASE CrashInOutput
  <2>1. outputs' \in [OutputFiles -> [is : {"absent", "broken", "whole"}, rows : Rows]]
    BY <1>14, NoRecordsType DEF CrashInOutput, ResumeInv, TypeOK
  <2>2. /\ Exit /\ crashes' \in Nat
        /\ UNCHANGED <<agent, checkpoint, rejected, starts, aborts, paid, replaced, reported>>
    BY <1>14 DEF CrashInOutput, Dies, ResumeInv, TypeOK
  <2>3. TypeOK'
    BY <2>1, <2>2, ExitType, SameAgent DEF ResumeInv, TypeOK
  <2> QED
    BY <2>2, <2>3, GoneResume DEF ResumeInv, SettledByOneLine
<1>15. CASE UNCHANGED vars
  <2>1. TypeOK'
    BY <1>15 DEF ResumeInv, TypeOK, vars, files, process, history, Phases, Tasks
  <2>2. UNCHANGED <<agent, checkpoint, completed, todo, batch, phase>>
    BY <1>15 DEF vars, files, process
  <2> QED
    BY <2>1, <2>2
       DEF ResumeInv, SettledByOneLine, SettledAreBehind, OneAtHand, EmptiedFirst, RowsAreOwn,
           Distinct, JustWritten, LogOrder, Known
<1> QED
  BY <1>1, <1>2, <1>3, <1>4, <1>5, <1>6, <1>7, <1>8, <1>9, <1>10, <1>11, <1>12, <1>13, <1>14,
     <1>15 DEF Next, Work

-----------------------------------------------------------------------------
(* In every state of every run, a settled question is where a process will not
   execute it again (benchmark.py:242-243, rag/Agent.py:113-116). *)
THEOREM ResumeIsSafe == Spec => []ResumeInv
<1>1. ResumeInv /\ [Next]_vars => ResumeInv'
  BY NextResume
<1> QED
  BY <1>1, InitResume, PTL DEF Spec

(* Type correctness of the benchmark's files and processes. *)
THEOREM ResumeTyped == Spec => []TypeOK
<1>1. ResumeInv => TypeOK
  BY DEF ResumeInv
<1> QED
  BY <1>1, ResumeIsSafe, PTL

(* "Completed questions are not sent to the API again"
   (docs/AGENTIC_RAG.md:67): whatever crashes did to the lines of the
   checkpoint, none is executed while a line settles it, and no two lines
   settle one question. *)
THEOREM CompletedQuestionsStaySettled == Spec => []SettledOnce
<1>1. ResumeInv => SettledOnce
  <2> SUFFICES ASSUME ResumeInv PROVE SettledOnce
    OBVIOUS
  <2>1. ASSUME Answering, Head(todo) \in SettledQuestions PROVE Head(todo) \in Known
    <3>1. Head(todo) \in ToSet(todo) /\ phase = "answer"
      BY <2>1, TailFacts DEF Answering, ResumeInv, TypeOK
    <3>2. PICK k \in Settled(checkpoint) : Head(todo) = checkpoint[k].rec.qid
      BY <2>1 DEF SettledQuestions
    <3> QED
      BY <3>1, <3>2 DEF ResumeInv, SettledAreBehind, JustWritten
  <2> QED
    BY <2>1 DEF ResumeInv, SettledByOneLine, SettledOnce
<1> QED
  BY <1>1, ResumeIsSafe, PTL

-----------------------------------------------------------------------------
Whole(rows) == [is |-> "whole", rows |-> rows]

\* The tasks behind the agent.
AfterAgent == {"answers", "metadata", "runtime"} \cup
              IF agent = "rag" THEN {} ELSE {"run"}

AtWork == {"answer", "append 1", "append 2"}

\* What a process has written is what its batch holds.
OwnFiles ==
    /\ (phase \in {"answers", "metadata", "runtime"} /\ agent # "rag") =>
          outputs["run"] = Whole(batch)
    /\ phase \in {"metadata", "runtime"} => outputs["answers"] = Whole(batch)
    /\ phase = "runtime" => outputs["metadata"] = Whole(batch)
    /\ (\/ phase \in {"answers", "metadata", "runtime"}
        \/ agent = "rag" /\ phase \in AtWork \cup {"agent", "empty"}) =>
          outputs["run"].is # "absent"

Agrees(rows) ==
    \A k \in Settled(checkpoint) : rows[checkpoint[k].rec.qid] = checkpoint[k].rec

\* The batch holds what the checkpoint does of the questions that are done ...
BatchAgrees ==
    /\ phase \in AtWork =>
          \A k \in Settled(checkpoint) : LET r == checkpoint[k].rec
             IN  /\ \A t \in completed : t.qid = r.qid => t = r
                 /\ \/ r.qid \in ToSet(todo) /\ ~(JustWritten /\ r.qid = Head(todo))
                    \/ batch[r.qid] = r
    /\ phase \in AfterAgent => Agrees(batch)

\* ... and a record of each of those, a failure only from this process.
BatchIsFilled ==
    /\ \A k \in DOMAIN checkpoint : checkpoint[k].rec.status # "none"
    /\ \A r \in completed : r.status \notin {"none", "failed"}
    /\ phase \in AtWork => \A q \in Questions \ ToSet(todo) : batch[q].status # "none"
    /\ phase \in {"append 1", "append 2"} => batch[Head(todo)].status # "none"
    /\ phase \in AfterAgent => \A q \in Questions : batch[q].status # "none"
    /\ \A q \in Questions : batch[q].status = "failed" => batch[q].by = starts
    /\ phase = "idle" => batch = NoRecords

FailureFree(rows) == \A q \in Questions : rows[q].status \notin {"blank", "failed"}

\* Files that would be reported as they are belong together already, and no
\* process works on them any more.
CompleteIsFinal ==
    (/\ ~replaced
     /\ outputs["runtime"].is # "absent"
     /\ outputs["metadata"].is = "whole"
     /\ FailureFree(outputs["metadata"].rows)
     /\ phase # "runtime") =>
        /\ phase \in {"idle", "report"}
        /\ outputs["run"].is # "absent"
        /\ outputs["answers"] = outputs["metadata"]
        /\ agent # "rag" => outputs["run"] = outputs["answers"]
        /\ Agrees(outputs["metadata"].rows)
        /\ \A q \in Questions : outputs["metadata"].rows[q].status # "none"

ReportInv ==
    /\ OwnFiles
    /\ BatchAgrees
    /\ BatchIsFilled
    /\ CompleteIsFinal
    /\ ReportIsOfOneRun
    /\ FailuresAreRetried

-----------------------------------------------------------------------------
LEMMA TaskAfter ==
    ASSUME NEW n \in 1..5, \A i \in 1..6 : Tasks[i] = Tasks[n] => i = n
    PROVE  After(Tasks[n]) = Tasks[n + 1]
<1>1. DOMAIN Tasks = 1..6
  BY DEF Tasks
<1>2. PICK i \in 1..6 : Tasks[i] = Tasks[n] /\ After(Tasks[n]) = Tasks[1 + i]
  BY <1>1 DEF After
<1>3. i = n
  BY <1>2
<1> QED
  BY <1>2, <1>3

LEMMA TaskOrder ==
    /\ After("agent") = IF agent \in {"agentic_rag", "rewrite_rag"} THEN "run" ELSE "answers"
    /\ After("run") = IF agent \in {"agentic_rag", "rewrite_rag"} THEN "answers" ELSE "agent"
    /\ After("answers") = "metadata"
    /\ After("metadata") = "runtime"
    /\ After("runtime") = "report"
<1>1. /\ Tasks[1] = IF agent \in {"agentic_rag", "rewrite_rag"} THEN "agent" ELSE "run"
      /\ Tasks[2] = IF agent \in {"agentic_rag", "rewrite_rag"} THEN "run" ELSE "agent"
      /\ Tasks[3] = "answers" /\ Tasks[4] = "metadata" /\ Tasks[5] = "runtime"
      /\ Tasks[6] = "report"
  BY DEF Tasks
<1>2. \A n \in 1..5 : \A i \in 1..6 : Tasks[i] = Tasks[n] => i = n
  BY <1>1
<1>3. \A n \in 1..5 : After(Tasks[n]) = Tasks[n + 1]
  BY <1>2, TaskAfter
<1> QED
  BY <1>1, <1>3

\* What the invariant says of files that would be reported as they are.
LEMMA FinalFiles ==
    ASSUME ResumeInv, ReportInv, ~replaced, outputs["runtime"].is # "absent",
           outputs["metadata"].is = "whole", FailureFree(outputs["metadata"].rows)
    PROVE  /\ phase \in {"idle", "report", "runtime"}
           /\ outputs["run"].is # "absent"
           /\ outputs["answers"] = outputs["metadata"]
           /\ agent # "rag" => outputs["run"] = outputs["answers"]
           /\ Agrees(outputs["metadata"].rows)
           /\ \A q \in Questions : outputs["metadata"].rows[q].status # "none"
<1>1. CASE phase # "runtime"
  BY <1>1 DEF ReportInv, CompleteIsFinal
<1>2. CASE phase = "runtime"
  <2>1. /\ outputs["answers"] = Whole(batch) /\ outputs["metadata"] = Whole(batch)
        /\ agent # "rag" => outputs["run"] = Whole(batch)
        /\ outputs["run"].is # "absent"
    BY <1>2 DEF ReportInv, OwnFiles
  <2>2. outputs["metadata"].rows = batch
    BY <2>1 DEF Whole
  <2>3. Agrees(batch) /\ \A q \in Questions : batch[q].status # "none"
    BY <1>2 DEF ReportInv, BatchAgrees, BatchIsFilled, AfterAgent
  <2> QED
    BY <1>2, <2>1, <2>2, <2>3
<1> QED
  BY <1>1, <1>2

\* A step of a process at work leaves no complete files behind.
LEMMA StillIncomplete ==
    ASSUME ResumeInv, ReportInv, phase \notin {"idle", "report", "runtime"},
           replaced' = replaced, outputs'["metadata"] = outputs["metadata"],
           outputs'["runtime"] = outputs["runtime"]
    PROVE  CompleteIsFinal'
  BY FinalFiles DEF CompleteIsFinal

LEMMA NotReporting ==
    ASSUME phase' # "report"
    PROVE  ReportIsOfOneRun' /\ FailuresAreRetried'
  BY DEF ReportIsOfOneRun, FailuresAreRetried, Trusted

LEMMA InitReport == Init => ReportInv
  BY NothingSettled, NoRecordsType
     DEF Init, ReportInv, OwnFiles, BatchAgrees, BatchIsFilled, CompleteIsFinal, AtWork,
         AfterAgent, ReportIsOfOneRun, FailuresAreRetried, Trusted, OutputFiles, NoRecords, Record

\* A process that is gone leaves files that are complete or will be written again.
LEMMA GoneReport ==
    ASSUME ReportInv, Exit, CompleteIsFinal',
           \A k \in DOMAIN checkpoint' : checkpoint'[k].rec.status # "none"
    PROVE  ReportInv'
<1>1. BatchIsFilled'
  BY DEF Exit, BatchIsFilled, AtWork, AfterAgent, NoRecords, Record
<1>2. OwnFiles' /\ BatchAgrees'
  BY DEF Exit, OwnFiles, BatchAgrees, AtWork, AfterAgent
<1>3. ReportIsOfOneRun' /\ FailuresAreRetried'
  BY NotReporting DEF Exit
<1> QED
  BY <1>1, <1>2, <1>3 DEF ReportInv

LEMMA StartReport ==
    ASSUME ResumeInv, ReportInv, NEW resuming \in BOOLEAN, Start(resuming)
    PROVE  ReportInv'
<1>1. /\ phase = "idle" /\ batch = NoRecords /\ batch' = batch /\ completed' = completed
      /\ UNCHANGED <<agent, checkpoint, outputs>>
  BY DEF Start, files, ReportInv, BatchIsFilled
<1>2. Tasks[1] = IF agent = "rag" THEN "run" ELSE "agent"
  BY DEF Tasks, ResumeInv, TypeOK, Kinds
<1>3. phase' \in {Tasks[1], "report", "idle"} /\ (phase' = "report" => Complete(resuming))
  BY <1>2 DEF Start
<1>4. OwnFiles' /\ BatchAgrees'
  BY <1>1, <1>2, <1>3 DEF OwnFiles, BatchAgrees, AtWork, AfterAgent
<1>5. BatchIsFilled'
  BY <1>1, <1>2, <1>3
     DEF ReportInv, BatchIsFilled, AtWork, AfterAgent, NoRecords, Record
<1>6. HasRetryableFailures => ~FailureFree(outputs["metadata"].rows)
  BY DEF HasRetryableFailures, FailureFree
<1>7. CompleteIsFinal'
  <2> SUFFICES ASSUME ~replaced', outputs["runtime"].is # "absent",
                      outputs["metadata"].is = "whole", FailureFree(outputs["metadata"].rows)
               PROVE  /\ phase' \in {"idle", "report"}
                      /\ outputs["run"].is # "absent"
                      /\ outputs["answers"] = outputs["metadata"]
                      /\ agent # "rag" => outputs["run"] = outputs["answers"]
                      /\ Agrees(outputs["metadata"].rows)
                      /\ \A q \in Questions : outputs["metadata"].rows[q].status # "none"
    BY <1>1 DEF CompleteIsFinal, FailureFree, Agrees
  <2>1. resuming /\ ~replaced
    BY DEF Start, OutputFiles
  <2>2. /\ outputs["run"].is # "absent" /\ outputs["answers"] = outputs["metadata"]
        /\ agent # "rag" => outputs["run"] = outputs["answers"]
        /\ Agrees(outputs["metadata"].rows)
        /\ \A q \in Questions : outputs["metadata"].rows[q].status # "none"
    BY <2>1, FinalFiles
  <2>3. Complete(resuming)
    BY <1>6, <2>1, <2>2 DEF Complete, OutputFiles
  <2>4. phase' \in {"idle", "report"}
    BY <2>3 DEF Start
  <2> QED
    BY <2>2, <2>4
<1>8. ASSUME Trusted' PROVE /\ ~replaced' /\ outputs["runtime"].is # "absent"
                            /\ outputs["metadata"].is = "whole"
                            /\ FailureFree(outputs["metadata"].rows)
  <2>1. ~replaced' /\ outputs["metadata"].is = "whole" /\ Complete(resuming)
    BY <1>1, <1>3, <1>8 DEF Trusted
  <2> QED
    BY <2>1 DEF Complete, OutputFiles, HasRetryableFailures, FailureFree
<1>9. ReportIsOfOneRun'
  BY <1>1, <1>7, <1>8 DEF CompleteIsFinal, ReportIsOfOneRun, Agrees, Trusted
<1>10. FailuresAreRetried'
  BY <1>1, <1>7, <1>8 DEF CompleteIsFinal, FailuresAreRetried, FailureFree, Trusted
<1> QED
  BY <1>4, <1>5, <1>7, <1>9, <1>10 DEF ReportInv

LEMMA TakeOverReport == ASSUME ResumeInv, ReportInv, TakeOver PROVE ReportInv'
<1> USE DEF TakeOver, files, history
<1>1. \A t \in completed' : \E k \in Settled(checkpoint) : t = checkpoint[k].rec
  BY DEF LoadCheckpoints
<1>2. BatchAgrees'
  <2>1. ASSUME NEW k \in Settled(checkpoint) PROVE
          /\ \A t \in completed' : t.qid = checkpoint[k].rec.qid => t = checkpoint[k].rec
          /\ checkpoint[k].rec.qid \in ToSet(todo')
    <3>1. checkpoint[k].rec.qid \in Questions
      <4>1. checkpoint[k] \in [rec : Records, cut : Cuts]
        BY SettledLines, ElementType DEF ResumeInv, TypeOK
      <4> QED
        BY <4>1 DEF Records
    <3> QED
      BY <1>1, <3>1, Batch DEF ResumeInv, SettledByOneLine
  <2> QED
    BY <2>1 DEF BatchAgrees, AtWork, AfterAgent, JustWritten
<1>3. BatchIsFilled'
  <2>1. \A r \in completed' : r.status \notin {"none", "failed"}
    BY <1>1, SettledLines DEF ReportInv, BatchIsFilled, Settled
  <2> QED
    BY <2>1, Batch DEF ReportInv, BatchIsFilled, AtWork, AfterAgent
<1>4. OwnFiles'
  BY DEF ReportInv, OwnFiles
<1> QED
  BY <1>2, <1>3, <1>4, StillIncomplete, NotReporting DEF ReportInv

LEMMA EmptyReport ==
    ASSUME ResumeInv, ReportInv, NEW k \in {1, 2}, EmptyLog(k)
    PROVE  ReportInv'
<1> USE DEF EmptyLog
<1>1. phase \in {"agent", "empty"} /\ phase' \in {"empty", "answer"}
  OBVIOUS
<1>2. k = 2 => Settled(checkpoint') = {} /\ todo' = Qids
  BY Logs, NothingSettled DEF ResumeInv, EmptiedFirst, TypeOK, Kinds
<1>3. BatchAgrees'
  BY <1>1, <1>2 DEF BatchAgrees, AtWork, AfterAgent
<1>4. BatchIsFilled'
  BY <1>1, <1>2, Batch DEF ReportInv, BatchIsFilled, AtWork, AfterAgent
<1>5. OwnFiles'
  BY <1>1 DEF ReportInv, OwnFiles, AtWork
<1> QED
  BY <1>1, <1>3, <1>4, <1>5, StillIncomplete, NotReporting DEF ReportInv

\* Steps of a process that answers change no output.
LEMMA AtWorkReport ==
    ASSUME ResumeInv, ReportInv, phase \in AtWork, phase' \in AtWork,
           UNCHANGED <<agent, outputs, replaced>>, BatchAgrees', BatchIsFilled'
    PROVE  ReportInv'
<1>1. OwnFiles'
  BY DEF ReportInv, OwnFiles, AtWork
<1> QED
  BY <1>1, StillIncomplete, NotReporting DEF ReportInv, AtWork

LEMMA HeadOrTail ==
    ASSUME NEW S, NEW s \in Seq(S), s # <<>>, NEW e \in ToSet(s), e # Head(s)
    PROVE  e \in ToSet(Tail(s))
<1>1. /\ Len(s) \in Nat \ {0} /\ Head(s) = s[1] /\ Tail(s) \in Seq(S)
      /\ Len(Tail(s)) = Len(s) - 1 /\ \A i \in 1..(Len(s) - 1) : Tail(s)[i] = s[i + 1]
  BY HeadTailProperties, EmptySeq
<1>2. PICK i \in 1..Len(s) : e = s[i]
  BY DEF ToSet
<1>3. i - 1 \in 1..(Len(s) - 1) /\ Tail(s)[i - 1] = e
  BY <1>1, <1>2
<1>4. DOMAIN Tail(s) = 1..(Len(s) - 1)
  BY <1>1
<1> QED
  BY <1>3, <1>4 DEF ToSet

LEMMA SkipReport == ASSUME ResumeInv, ReportInv, SkipQuestion PROVE ReportInv'
<1>1. PICK r \in completed : r.qid = Head(todo) /\ batch' = [batch EXCEPT ![r.qid] = r]
  BY DEF SkipQuestion
<1>2. /\ phase = "answer" /\ phase' = "answer" /\ todo # <<>> /\ todo' = Tail(todo)
      /\ todo \in Seq(Questions) /\ Head(todo) \in Questions
      /\ UNCHANGED <<agent, checkpoint, outputs, completed, replaced, starts>>
  BY TailFacts DEF SkipQuestion, Answering, files, history, ResumeInv, TypeOK
<1>3. \A q \in ToSet(todo) : q # Head(todo) => q \in ToSet(todo')
  BY <1>2, HeadOrTail
<1>4. \A q \in Questions : batch'[q] = IF q = Head(todo) THEN r ELSE batch[q]
  BY <1>1 DEF ResumeInv, TypeOK, Rows
<1>5. BatchAgrees'
  <2> SUFFICES ASSUME NEW k \in Settled(checkpoint)
               PROVE  /\ \A t \in completed : t.qid = checkpoint[k].rec.qid => t = checkpoint[k].rec
                      /\ \/ checkpoint[k].rec.qid \in ToSet(todo')
                         \/ batch'[checkpoint[k].rec.qid] = checkpoint[k].rec
    BY <1>2 DEF BatchAgrees, AtWork, AfterAgent, JustWritten
  <2>1. checkpoint[k].rec.qid \in Questions
    <3>1. checkpoint[k] \in [rec : Records, cut : Cuts]
      BY SettledLines, ElementType DEF ResumeInv, TypeOK
    <3> QED
      BY <3>1 DEF Records
  <2> QED
    BY <1>1, <1>2, <1>3, <1>4, <2>1 DEF ReportInv, BatchAgrees, AtWork
<1>6. BatchIsFilled'
  BY <1>1, <1>2, <1>3, <1>4 DEF ReportInv, BatchIsFilled, AtWork, AfterAgent
<1> QED
  BY <1>2, <1>5, <1>6, AtWorkReport DEF AtWork

LEMMA ExecuteReport == ASSUME ResumeInv, ReportInv, ExecuteQuestion PROVE ReportInv'
<1>1. /\ phase = "answer" /\ phase' = "append 1" /\ todo # <<>>
      /\ Head(todo) \in Questions /\ Head(todo) \in ToSet(todo)
      /\ UNCHANGED <<agent, checkpoint, outputs, completed, replaced, starts, todo>>
  BY TailFacts DEF ExecuteQuestion, Answering, files, ResumeInv, TypeOK
<1>2. PICK status \in Recorded(agent) :
        batch' = [batch EXCEPT ![Head(todo)] = Record(@.qid, status, starts)]
  BY DEF ExecuteQuestion
<1>3. status # "none"
  BY DEF ResumeInv, TypeOK, Kinds, Recorded
<1>4. /\ batch'[Head(todo)].status = status /\ batch'[Head(todo)].by = starts
      /\ \A q \in Questions : q # Head(todo) => batch'[q] = batch[q]
  BY <1>1, <1>2 DEF ResumeInv, TypeOK, Rows, Record
<1>5. BatchAgrees'
  <2> SUFFICES ASSUME NEW k \in Settled(checkpoint)
               PROVE  /\ \A t \in completed : t.qid = checkpoint[k].rec.qid => t = checkpoint[k].rec
                      /\ \/ checkpoint[k].rec.qid \in ToSet(todo)
                         \/ batch'[checkpoint[k].rec.qid] = checkpoint[k].rec
    BY <1>1 DEF BatchAgrees, AtWork, AfterAgent, JustWritten
  <2>1. checkpoint[k].rec.qid \in Questions
    <3>1. checkpoint[k] \in [rec : Records, cut : Cuts]
      BY SettledLines, ElementType DEF ResumeInv, TypeOK
    <3> QED
      BY <3>1 DEF Records
  <2> QED
    BY <1>1, <1>4, <2>1 DEF ReportInv, BatchAgrees, AtWork
<1>6. BatchIsFilled'
  <2>1. batch'[Head(todo)].status # "none"
    BY <1>3, <1>4
  <2>2. \A q \in Questions \ ToSet(todo) : batch'[q] = batch[q]
    BY <1>1, <1>4
  <2>3. \A q \in Questions : batch'[q].status = "failed" => batch'[q].by = starts
    BY <1>4 DEF ReportInv, BatchIsFilled
  <2> QED
    BY <1>1, <2>1, <2>2, <2>3 DEF ReportInv, BatchIsFilled, AtWork, AfterAgent
<1> QED
  BY <1>1, <1>5, <1>6, AtWorkReport DEF AtWork

\* The question at hand has its record before the batch moves on.
LEMMA AnsweredIsFilled ==
    ASSUME ResumeInv, ReportInv, phase \in {"append 1", "append 2"},
           phase' \in {"append 2", "answer"},
           todo' = IF phase = "append 1" THEN todo ELSE Tail(todo),
           phase' = "append 2" <=> phase = "append 1",
           UNCHANGED <<completed, batch, starts>>,
           \A i \in DOMAIN checkpoint' : checkpoint'[i].rec.status # "none"
    PROVE  BatchIsFilled'
<1>1. batch[Head(todo)].status # "none" /\ phase \in AtWork
  BY DEF ReportInv, BatchIsFilled, AtWork
<1>2. /\ todo \in Seq(Questions) /\ todo # <<>>
      /\ \A q \in ToSet(todo) : q # Head(todo) => q \in ToSet(Tail(todo))
  BY HeadOrTail DEF ResumeInv, OneAtHand, TypeOK
<1>3. \A q \in Questions \ ToSet(todo') : batch[q].status # "none"
  <2> SUFFICES ASSUME NEW q \in Questions \ ToSet(todo') PROVE batch[q].status # "none"
    OBVIOUS
  <2>1. q \notin ToSet(todo) \/ q = Head(todo)
    BY <1>2
  <2> QED
    BY <1>1, <2>1 DEF ReportInv, BatchIsFilled
<1>4. phase' \notin AfterAgent' /\ phase' # "idle"
  BY DEF AfterAgent
<1>5. phase' \in {"append 1", "append 2"} => batch'[Head(todo')].status # "none"
  BY <1>1
<1> QED
  BY <1>3, <1>4, <1>5 DEF ReportInv, BatchIsFilled

LEMMA AppendReport ==
    ASSUME ResumeInv, ReportInv, NEW k \in {1, 2}, AppendLog(k)
    PROVE  ReportInv'
<1>1. /\ phase = IF k = 1 THEN "append 1" ELSE "append 2"
      /\ phase' = IF k = 1 THEN "append 2" ELSE "answer"
      /\ todo' = IF k = 1 THEN todo ELSE Tail(todo)
      /\ UNCHANGED <<agent, outputs, completed, batch, replaced, starts>>
  BY DEF AppendLog, history
<1>2. /\ todo \in Seq(Questions) /\ todo # <<>> /\ Head(todo) \in Questions
      /\ Head(todo) \in ToSet(todo) /\ Head(todo) \notin Known
      /\ \A q \in ToSet(todo) : q # Head(todo) => q \in ToSet(Tail(todo))
  BY <1>1, TailFacts, HeadOrTail DEF ResumeInv, OneAtHand, TypeOK
<1>3. /\ LogOrder' = LogOrder
      /\ LogOrder[1] = "checkpoint" <=> ~(LogOrder[2] = "checkpoint")
  BY <1>1, SameAgent, Logs
<1>4. CASE LogOrder[k] = "checkpoint"
  <2>1. checkpoint' = Appended("whole") /\ "whole" \in Cuts
    BY <1>4 DEF AppendLog, Cuts
  <2>2. phase = IF LogOrder[1] = "checkpoint" THEN "append 1" ELSE "append 2"
    BY <1>1, <1>3, <1>4
  <2> DEFINE line == [rec |-> batch[Head(todo)], cut |-> "whole"]
  <2>3. /\ checkpoint \in Seq([rec : Records, cut : Cuts]) /\ line \in [rec : Records, cut : Cuts]
        /\ checkpoint' = Append(checkpoint, line)
    BY <1>2, <2>1 DEF Appended, ResumeInv, TypeOK, Rows
  <2>4. \A i \in Settled(checkpoint) : checkpoint[i].rec.qid # Head(todo)
    BY <1>1, <1>2, <2>2 DEF ResumeInv, SettledAreBehind, JustWritten
  <2>5. ASSUME NEW i \in DOMAIN checkpoint'
        PROVE  checkpoint'[i].rec = batch[Head(todo)] \/
               (i \in DOMAIN checkpoint /\ checkpoint'[i] = checkpoint[i])
    <3>1. /\ Len(checkpoint) \in Nat /\ Len(checkpoint') = Len(checkpoint) + 1
          /\ checkpoint'[Len(checkpoint) + 1] = line
          /\ \A j \in 1..Len(checkpoint) : checkpoint'[j] = checkpoint[j]
          /\ DOMAIN checkpoint' = 1..(Len(checkpoint) + 1) /\ DOMAIN checkpoint = 1..Len(checkpoint)
      BY <2>3, AppendProperties
    <3> QED
      BY <3>1
  <2>6. ASSUME NEW i \in Settled(checkpoint')
        PROVE  \/ checkpoint'[i].rec = batch[Head(todo)]
               \/ i \in Settled(checkpoint) /\ checkpoint'[i].rec = checkpoint[i].rec
    <3>1. i \in DOMAIN checkpoint'
      BY SettledLines
    <3>2. \/ i = Len(checkpoint) + 1
          \/ i \in Settled(checkpoint) /\ checkpoint'[i].rec = checkpoint[i].rec
      BY <2>3, AppendSettles
    <3>3. Len(checkpoint) + 1 \notin DOMAIN checkpoint
      BY <2>3
    <3> QED
      BY <2>5, <3>1, <3>2, <3>3
  <2>7. batch[Head(todo)].qid = Head(todo) /\ batch[Head(todo)].status # "none"
    BY <1>1, <1>2 DEF ResumeInv, RowsAreOwn, ReportInv, BatchIsFilled
  <2>8. BatchAgrees'
    <3> SUFFICES ASSUME NEW i \in Settled(checkpoint')
        PROVE  LET r == checkpoint'[i].rec
               IN  /\ \A t \in completed : t.qid = r.qid => t = r
                   /\ \/ r.qid \in ToSet(todo') /\ ~(JustWritten' /\ r.qid = Head(todo'))
                      \/ batch[r.qid] = r
      BY <1>1 DEF BatchAgrees, AtWork, AfterAgent
    <3>1. CASE checkpoint'[i].rec = batch[Head(todo)]
      BY <1>2, <2>7, <3>1 DEF Known
    <3>2. CASE i \in Settled(checkpoint) /\ checkpoint'[i].rec = checkpoint[i].rec
      <4>1. checkpoint[i].rec.qid # Head(todo)
        BY <2>4, <3>2
      <4>2. /\ \A t \in completed : t.qid = checkpoint[i].rec.qid => t = checkpoint[i].rec
            /\ checkpoint[i].rec.qid \in ToSet(todo) \/ batch[checkpoint[i].rec.qid] = checkpoint[i].rec
        BY <1>1, <3>2 DEF ReportInv, BatchAgrees, AtWork
      <4>3. checkpoint[i].rec.qid \in ToSet(todo) => checkpoint[i].rec.qid \in ToSet(todo')
        BY <1>1, <1>2, <4>1
      <4>4. JustWritten' => Head(todo') = Head(todo)
        BY <1>1 DEF JustWritten
      <4> QED
        BY <3>2, <4>1, <4>2, <4>3, <4>4
    <3> QED
      BY <2>6, <3>1, <3>2
  <2>9. BatchIsFilled'
    <3>1. \A i \in DOMAIN checkpoint' : checkpoint'[i].rec.status # "none"
      BY <2>5, <2>7 DEF ReportInv, BatchIsFilled
    <3> QED
      BY <1>1, <2>7, <3>1, AnsweredIsFilled DEF ReportInv, BatchIsFilled
  <2> QED
    BY <1>1, <2>8, <2>9, AtWorkReport DEF AtWork
<1>5. CASE LogOrder[k] # "checkpoint"
  <2>1. checkpoint' = checkpoint
    BY <1>5 DEF AppendLog
  <2>2. batch[Head(todo)].status # "none"
    BY <1>1 DEF ReportInv, BatchIsFilled
  <2>3. BatchAgrees'
    <3> SUFFICES ASSUME NEW i \in Settled(checkpoint)
        PROVE  LET r == checkpoint[i].rec
               IN  /\ \A t \in completed : t.qid = r.qid => t = r
                   /\ \/ r.qid \in ToSet(todo') /\ ~(JustWritten' /\ r.qid = Head(todo'))
                      \/ batch[r.qid] = r
      BY <1>1, <2>1 DEF BatchAgrees, AtWork, AfterAgent
    <3>1. ~JustWritten'
      BY <1>1, <1>3, <1>5 DEF JustWritten
    <3>2. LET r == checkpoint[i].rec
          IN  /\ \A t \in completed : t.qid = r.qid => t = r
              /\ \/ r.qid \in ToSet(todo) /\ ~(JustWritten /\ r.qid = Head(todo))
                 \/ batch[r.qid] = r
      BY <1>1 DEF ReportInv, BatchAgrees, AtWork
    <3>3. CASE k = 1
      BY <1>1, <3>1, <3>2, <3>3
    <3>4. CASE k = 2
      <4>1. JustWritten
        BY <1>1, <1>3, <1>5, <3>4 DEF JustWritten
      <4> QED
        BY <1>1, <1>2, <3>1, <3>2, <3>4, <4>1
    <3> QED
      BY <3>3, <3>4
  <2>4. BatchIsFilled'
    <3>1. \A i \in DOMAIN checkpoint' : checkpoint'[i].rec.status # "none"
      BY <2>1 DEF ReportInv, BatchIsFilled
    <3> QED
      BY <1>1, <2>2, <3>1, AnsweredIsFilled
  <2> QED
    BY <1>1, <2>3, <2>4, AtWorkReport DEF AtWork
<1> QED
  BY <1>4, <1>5

LEMMA EndReport == ASSUME ResumeInv, ReportInv, EndBatch PROVE ReportInv'
<1>1. /\ phase = "answer" /\ todo = <<>> /\ phase' = After("agent")
      /\ UNCHANGED <<agent, checkpoint, outputs, completed, todo, batch, replaced, starts>>
  BY DEF EndBatch, files, process, history
<1>2. /\ phase' \in {"run", "answers"}
      /\ phase' = "run" => agent # "rag"
      /\ phase' = "answers" => agent = "rag"
  BY <1>1, TaskOrder DEF ResumeInv, TypeOK, Kinds
<1>3. ToSet(todo) = {}
  BY <1>1 DEF ToSet
<1>4. BatchAgrees'
  BY <1>1, <1>2, <1>3 DEF ReportInv, BatchAgrees, AtWork, Agrees
<1>5. BatchIsFilled'
  BY <1>1, <1>2, <1>3 DEF ReportInv, BatchIsFilled, AtWork
<1>6. OwnFiles'
  BY <1>1, <1>2 DEF ReportInv, OwnFiles, AtWork
<1>7. CompleteIsFinal'
  BY <1>1, StillIncomplete
<1> QED
  BY <1>2, <1>4, <1>5, <1>6, <1>7, NotReporting DEF ReportInv

LEMMA WriteReport == ASSUME ResumeInv, ReportInv, WriteOutput PROVE ReportInv'
<1>1. /\ phase \in {"run", "answers", "metadata", "runtime"} /\ phase' = After(phase)
      /\ UNCHANGED <<agent, checkpoint, completed, todo, batch, replaced, starts>>
  BY DEF WriteOutput, OutputFiles, process, history
<1>2. /\ phase = "run" => phase' = IF agent = "rag" THEN "agent" ELSE "answers"
      /\ phase = "answers" => phase' = "metadata"
      /\ phase = "metadata" => phase' = "runtime"
      /\ phase = "runtime" => phase' = "report"
  BY <1>1, TaskOrder DEF ResumeInv, TypeOK, Kinds
<1>3. \A f \in OutputFiles : outputs'[f] = IF f = phase THEN Whole(batch) ELSE outputs[f]
  BY DEF WriteOutput, Whole, ResumeInv, TypeOK
<1>4. /\ outputs'["run"] = IF phase = "run" THEN Whole(batch) ELSE outputs["run"]
      /\ outputs'["answers"] = IF phase = "answers" THEN Whole(batch) ELSE outputs["answers"]
      /\ outputs'["metadata"] = IF phase = "metadata" THEN Whole(batch) ELSE outputs["metadata"]
      /\ outputs'["runtime"] = IF phase = "runtime" THEN Whole(batch) ELSE outputs["runtime"]
  BY <1>3 DEF OutputFiles
<1>5. OwnFiles'
  <2>1. Whole(batch)' = Whole(batch) /\ Whole(batch).is # "absent"
    BY <1>1 DEF Whole
  <2> QED
    BY <1>1, <1>2, <1>4, <2>1 DEF ReportInv, OwnFiles, AtWork
<1>6. BatchAgrees' /\ BatchIsFilled'
  BY <1>1, <1>2 DEF ReportInv, BatchAgrees, BatchIsFilled, AtWork, AfterAgent, Agrees
<1>7. CASE phase \in {"run", "answers"}
  <2>1. CompleteIsFinal'
    BY <1>1, <1>4, <1>7, StillIncomplete
  <2> QED
    BY <1>2, <1>5, <1>6, <1>7, <2>1, NotReporting DEF ReportInv
<1>8. CASE phase = "metadata"
  BY <1>2, <1>5, <1>6, <1>8, NotReporting DEF ReportInv, CompleteIsFinal
<1>9. CASE phase = "runtime"
  <2>1. /\ outputs'["answers"] = Whole(batch) /\ outputs'["metadata"] = Whole(batch)
        /\ agent # "rag" => outputs'["run"] = Whole(batch)
        /\ outputs'["run"].is # "absent" /\ outputs'["metadata"].rows = batch
    BY <1>4, <1>9 DEF ReportInv, OwnFiles, Whole
  <2>2. /\ Agrees(batch) /\ \A q \in Questions : batch[q].status # "none"
        /\ \A q \in Questions : batch[q].status = "failed" => batch[q].by = starts
    BY <1>9 DEF ReportInv, BatchAgrees, BatchIsFilled, AfterAgent
  <2>3. CompleteIsFinal'
    BY <1>1, <1>2, <1>9, <2>1, <2>2 DEF CompleteIsFinal, Agrees
  <2>4. ReportIsOfOneRun'
    BY <1>1, <2>1, <2>2 DEF ReportIsOfOneRun, Agrees
  <2>5. FailuresAreRetried'
    BY <1>1, <2>1, <2>2 DEF FailuresAreRetried
  <2> QED
    BY <1>5, <1>6, <2>3, <2>4, <2>5 DEF ReportInv
<1> QED
  BY <1>1, <1>7, <1>8, <1>9

LEMMA NextReport == ResumeInv /\ ReportInv /\ [Next]_vars => ReportInv'
<1> SUFFICES ASSUME ResumeInv, ReportInv, [Next]_vars PROVE ReportInv'
  OBVIOUS
<1>1. ASSUME NEW resuming \in BOOLEAN, Start(resuming) PROVE ReportInv'
  BY <1>1, StartReport
<1>2. CASE TakeOver
  BY <1>2, TakeOverReport
<1>3. CASE TakeOverFails
  <2>1. /\ phase = "agent" /\ Exit
        /\ UNCHANGED <<checkpoint, outputs, replaced>>
    BY <1>3 DEF TakeOverFails, files, history
  <2> QED
    BY <2>1, StillIncomplete, GoneReport DEF ReportInv, BatchIsFilled
<1>4. ASSUME NEW k \in {1, 2}, EmptyLog(k) PROVE ReportInv'
  BY <1>4, EmptyReport
<1>5. CASE SkipQuestion
  BY <1>5, SkipReport
<1>6. CASE ExecuteQuestion
  BY <1>6, ExecuteReport
<1>7. CASE AbortQuestion
  <2>1. /\ phase = "answer" /\ Exit
        /\ UNCHANGED <<checkpoint, outputs, replaced>>
    BY <1>7 DEF AbortQuestion, Answering
  <2> QED
    BY <2>1, StillIncomplete, GoneReport DEF ReportInv, BatchIsFilled
<1>8. ASSUME NEW k \in {1, 2}, AppendLog(k) PROVE ReportInv'
  BY <1>8, AppendReport
<1>9. CASE EndBatch
  BY <1>9, EndReport
<1>10. CASE WriteOutput
  BY <1>10, WriteReport
<1>11. CASE Report \/ Crash
  <2>1. Exit /\ UNCHANGED <<agent, checkpoint, outputs, replaced>>
    BY <1>11 DEF Report, Crash, Dies, files
  <2>2. CompleteIsFinal'
    BY <2>1, FinalFiles DEF CompleteIsFinal, FailureFree, Agrees, Exit
  <2> QED
    BY <2>1, <2>2, GoneReport DEF ReportInv, BatchIsFilled
<1>12. CASE CrashInAppend
  <2>1. PICK cut \in Cuts : checkpoint' = Appended(cut)
    BY <1>12 DEF CrashInAppend
  <2>2. phase \in {"append 1", "append 2"} /\ Exit /\ UNCHANGED <<outputs, replaced>>
    BY <1>12 DEF CrashInAppend, Dies
  <2>3. batch[Head(todo)].status # "none"
    BY <2>2 DEF ReportInv, BatchIsFilled
  <2>4. \A i \in DOMAIN checkpoint' : checkpoint'[i].rec.status # "none"
    <3> DEFINE line == [rec |-> batch[Head(todo)], cut |-> cut]
    <3>1. checkpoint \in Seq([rec : Records, cut : Cuts]) /\ line \in [rec : Records, cut : Cuts]
      BY <2>2, TailFacts DEF ResumeInv, OneAtHand, TypeOK, Rows
    <3>2. /\ checkpoint' = Append(checkpoint, line)
          /\ checkpoint'[Len(checkpoint) + 1] = line
          /\ \A i \in 1..Len(checkpoint) : checkpoint'[i] = checkpoint[i]
          /\ DOMAIN checkpoint' = 1..(Len(checkpoint) + 1) /\ DOMAIN checkpoint = 1..Len(checkpoint)
          /\ Len(checkpoint) \in Nat
      BY <2>1, <3>1, AppendProperties DEF Appended
    <3>3. line.rec.status # "none"
      BY <2>3
    <3>4. \A i \in 1..Len(checkpoint) : checkpoint[i].rec.status # "none"
      BY <3>2 DEF ReportInv, BatchIsFilled
    <3> HIDE DEF line
    <3> QED
      BY <3>2, <3>3, <3>4
  <2> QED
    BY <2>2, <2>4, StillIncomplete, GoneReport
<1>13. CASE CrashInOutput
  <2>1. /\ phase \in {"run", "answers", "metadata", "runtime"} /\ Exit
        /\ UNCHANGED <<agent, checkpoint, replaced>>
        /\ outputs' = [outputs EXCEPT ![phase] = [is |-> "broken", rows |-> NoRecords]]
    BY <1>13 DEF CrashInOutput, Dies, OutputFiles
  <2>2. /\ \A f \in OutputFiles \ {phase} : outputs'[f] = outputs[f]
        /\ outputs'[phase].is = "broken"
    BY <2>1 DEF ResumeInv, TypeOK, OutputFiles
  <2>3. CompleteIsFinal'
    <3>1. CASE phase = "metadata"
      BY <2>2, <3>1 DEF CompleteIsFinal
    <3>2. CASE phase \in {"run", "answers"}
      BY <2>1, <2>2, <3>2, StillIncomplete DEF OutputFiles
    <3>3. CASE phase = "runtime"
      <4>1. UNCHANGED <<outputs["run"], outputs["answers"], outputs["metadata"]>>
        BY <2>2, <3>3 DEF OutputFiles
      <4>2. /\ outputs["run"].is # "absent"
            /\ outputs["answers"] = Whole(batch) /\ outputs["metadata"] = Whole(batch)
            /\ agent # "rag" => outputs["run"] = Whole(batch)
        BY <3>3 DEF ReportInv, OwnFiles
      <4>3. Agrees(batch) /\ \A q \in Questions : batch[q].status # "none"
        BY <3>3 DEF ReportInv, BatchAgrees, BatchIsFilled, AfterAgent
      <4>4. outputs["metadata"].rows = batch
        BY <4>2 DEF Whole
      <4> QED
        BY <2>1, <4>1, <4>2, <4>3, <4>4 DEF CompleteIsFinal, Agrees, Exit
    <3> QED
      BY <2>1, <3>1, <3>2, <3>3
  <2> QED
    BY <2>1, <2>3, GoneReport DEF ReportInv, BatchIsFilled
<1>14. CASE UNCHANGED vars
  <2>1. /\ UNCHANGED <<agent, checkpoint, outputs, phase, completed, todo, batch>>
        /\ UNCHANGED <<starts, replaced>>
    BY <1>14 DEF vars, files, process, history
  <2>2. OwnFiles'
    BY <2>1 DEF ReportInv, OwnFiles, AtWork, Whole
  <2>3. BatchAgrees'
    BY <2>1, SameAgent DEF ReportInv, BatchAgrees, AtWork, AfterAgent, Agrees, JustWritten
  <2>4. BatchIsFilled'
    BY <2>1 DEF ReportInv, BatchIsFilled, AtWork, AfterAgent
  <2>5. CompleteIsFinal'
    BY <2>1 DEF ReportInv, CompleteIsFinal, Agrees, FailureFree
  <2>6. ReportIsOfOneRun' /\ FailuresAreRetried'
    BY <2>1 DEF ReportInv, ReportIsOfOneRun, FailuresAreRetried, Trusted
  <2> QED
    BY <2>2, <2>3, <2>4, <2>5, <2>6 DEF ReportInv
<1> QED
  BY <1>1, <1>2, <1>3, <1>4, <1>5, <1>6, <1>7, <1>8, <1>9, <1>10, <1>11, <1>12, <1>13, <1>14
     DEF Next, Work

(* In every state of every run, the files that would be reported are those of
   one run, and none of the others is taken for complete. *)
THEOREM ReportIsSafe == Spec => [](ResumeInv /\ ReportInv)
<1>1. ResumeInv /\ ReportInv /\ [Next]_vars => (ResumeInv /\ ReportInv)'
  BY NextResume, NextReport
<1>2. Init => ResumeInv /\ ReportInv
  BY InitResume, InitReport
<1> QED
  BY <1>1, <1>2, PTL DEF Spec

(* What a process reports belongs together, crashes between any two writes and
   the shortcut over existing outputs (benchmark.py:211-216) notwithstanding. *)
THEOREM ReportsAreOfOneRun == Spec => []ReportIsOfOneRun
<1>1. ResumeInv /\ ReportInv => ReportIsOfOneRun
  BY DEF ReportInv
<1> QED
  BY <1>1, ReportIsSafe, PTL

(* "Questions recorded with a provider or answer error are retried by the next
   --resume run" (docs/AGENTIC_RAG.md:67): a reported failure is one of the
   reporting process itself, and every question has a record. *)
THEOREM ReportedFailuresAreNew == Spec => []FailuresAreRetried
<1>1. ResumeInv /\ ReportInv => FailuresAreRetried
  BY DEF ReportInv
<1> QED
  BY <1>1, ReportIsSafe, PTL

-----------------------------------------------------------------------------
EndsWhole(log) == log # <<>> => log[Len(log)].cut = "whole"

\* What the next append will cost: a line behind a cut one cannot be read, and
\* one that only lacked its newline no longer.
Owed ==
    IF EndsWhole(checkpoint) THEN 0
    ELSE IF Len(checkpoint) \in Settled(checkpoint) THEN 2 ELSE 1

\* Every answer that was paid for can be read from the checkpoint, is in hand,
\* or was lost to a crash, two for each; what is owed already is not lost twice.
AnswersAccountedFor ==
    SumFunction(paid) + Owed <= Cardinality(Settled(checkpoint)) + InHand + 2 * crashes

LEMMA QuestionsFinite == IsFiniteSet(Questions)
<1>1. Qids \in Surjection(1..Len(Qids), Questions)
  BY Batch DEF ToSet, Surjection
<1>2. Len(Qids) \in Nat
  BY Batch
<1> QED
  BY <1>1, <1>2, FS_NatSurjection DEF ExistsSurjection

LEMMA SettledFinite ==
    ASSUME NEW S, NEW log \in Seq(S)
    PROVE  /\ Settled(log) \subseteq 1..Len(log) /\ Len(log) \in Nat
           /\ IsFiniteSet(Settled(log)) /\ Cardinality(Settled(log)) \in Nat
<1>1. Settled(log) \subseteq 1..Len(log) /\ Len(log) \in Nat
  BY DEF Settled, Readable
<1>2. IsFiniteSet(1..Len(log))
  BY <1>1, FS_Interval
<1>3. IsFiniteSet(Settled(log))
  BY <1>1, <1>2, FS_Subset
<1> QED
  BY <1>1, <1>3, FS_CardinalityType

\* What a line appended does to the lines that settle a question.
LEMMA LongerByOne ==
    ASSUME NEW log, NEW new, NEW n \in Nat, Len(log) = n, Len(new) = n + 1,
           DOMAIN log = 1..n, DOMAIN new = 1..(n + 1), \A i \in 1..n : new[i] = log[i],
           NEW line, new[n + 1] = line
    PROVE  /\ Settled(new) \cap 1..(n - 1) = Settled(log) \cap 1..(n - 1)
           /\ (n \in 1..n /\ log[n].cut = "whole") => (n \in Settled(new) <=> n \in Settled(log))
           /\ (n \in 1..n /\ log[n].cut # "whole") => n \notin Settled(new) /\ n + 1 \notin Settled(new)
           /\ (n = 0 \/ log[n].cut = "whole") =>
                 (n + 1 \in Settled(new) <=> /\ line.rec.status # "failed"
                                             /\ line.cut \in {"whole", "unended"})
<1>1. \A k : k \in Settled(new) <=>
                /\ k \in 1..(n + 1)
                /\ k > 1 => new[k - 1].cut = "whole"
                /\ new[k].cut = "whole" \/ (new[k].cut = "unended" /\ k = n + 1)
                /\ new[k].rec.status # "failed"
  BY DEF Settled, Readable
<1>2. \A k : k \in Settled(log) <=>
                /\ k \in 1..n
                /\ k > 1 => log[k - 1].cut = "whole"
                /\ log[k].cut = "whole" \/ (log[k].cut = "unended" /\ k = n)
                /\ log[k].rec.status # "failed"
  BY DEF Settled, Readable
<1>3. ASSUME NEW k \in 1..(n - 1) PROVE k \in Settled(new) <=> k \in Settled(log)
  <2>1. k \in 1..n /\ k # n /\ k # n + 1 /\ new[k] = log[k] /\ (k > 1 => new[k - 1] = log[k - 1])
    BY <1>3
  <2> QED
    BY <1>1, <1>2, <2>1
<1>4. ASSUME n \in 1..n, log[n].cut = "whole" PROVE n \in Settled(new) <=> n \in Settled(log)
  <2>1. new[n] = log[n] /\ (n > 1 => new[n - 1] = log[n - 1]) /\ n \in 1..(n + 1)
    BY <1>4
  <2> QED
    BY <1>1, <1>2, <1>4, <2>1
<1>5. ASSUME n \in 1..n, log[n].cut # "whole"
      PROVE  n \notin Settled(new) /\ n + 1 \notin Settled(new)
  <2>1. new[n] = log[n] /\ n # n + 1 /\ n + 1 > 1 /\ (n + 1) - 1 = n
    BY <1>5
  <2>2. n \notin Settled(new)
    BY <1>1, <1>5, <2>1
  <2>3. n + 1 \notin Settled(new)
    BY <1>1, <1>5, <2>1
  <2> QED
    BY <2>2, <2>3
<1>6. ASSUME n = 0 \/ log[n].cut = "whole"
      PROVE  n + 1 \in Settled(new) <=> /\ line.rec.status # "failed"
                                        /\ line.cut \in {"whole", "unended"}
  <2>1. (n + 1) - 1 = n /\ n + 1 \in 1..(n + 1) /\ (n + 1 > 1 => n \in 1..n)
    OBVIOUS
  <2>2. n + 1 > 1 => new[(n + 1) - 1].cut = "whole"
    BY <1>6, <2>1
  <2> QED
    BY <1>1, <2>1, <2>2
<1> QED
  BY <1>3, <1>4, <1>5, <1>6

LEMMA AppendCounts ==
    ASSUME NEW log \in Seq([rec : Records, cut : Cuts]),
           NEW line \in [rec : Records, cut : Cuts]
    PROVE  /\ EndsWhole(Append(log, line)) <=> line.cut = "whole"
           /\ Len(Append(log, line)) = Len(log) + 1
           /\ ~EndsWhole(log) => Settled(Append(log, line)) = Settled(log) \ {Len(log)}
           /\ EndsWhole(log) =>
                 Settled(Append(log, line)) =
                    IF line.rec.status # "failed" /\ line.cut \in {"whole", "unended"}
                    THEN Settled(log) \cup {Len(log) + 1} ELSE Settled(log)
<1> DEFINE new == Append(log, line)
           n == Len(log)
<1>1. /\ n \in Nat /\ Len(new) = n + 1 /\ new[n + 1] = line
      /\ DOMAIN log = 1..n /\ DOMAIN new = 1..(n + 1)
      /\ \A i \in 1..n : new[i] = log[i]
      /\ log = <<>> <=> n = 0
      /\ new # <<>>
  BY AppendProperties
<1>2. /\ EndsWhole(new) <=> line.cut = "whole"
      /\ EndsWhole(log) <=> n = 0 \/ log[n].cut = "whole"
  BY <1>1 DEF EndsWhole
<1>3. Settled(new) \subseteq 1..(n + 1) /\ Settled(log) \subseteq 1..n
  BY <1>1 DEF Settled, Readable
<1>4. Len(log) = n
  OBVIOUS
<1> HIDE DEF new, n
<1>5. /\ Settled(new) \cap 1..(n - 1) = Settled(log) \cap 1..(n - 1)
      /\ (n \in 1..n /\ log[n].cut = "whole") => (n \in Settled(new) <=> n \in Settled(log))
      /\ (n \in 1..n /\ log[n].cut # "whole") => n \notin Settled(new) /\ n + 1 \notin Settled(new)
      /\ (n = 0 \/ log[n].cut = "whole") =>
            (n + 1 \in Settled(new) <=> /\ line.rec.status # "failed"
                                        /\ line.cut \in {"whole", "unended"})
  <2>1. Settled(new) \cap 1..(n - 1) = Settled(log) \cap 1..(n - 1)
    BY <1>1, <1>4, LongerByOne, SMTT(30)
  <2>2. (n \in 1..n /\ log[n].cut = "whole") => (n \in Settled(new) <=> n \in Settled(log))
    BY <1>1, <1>4, LongerByOne, SMTT(30)
  <2>3. (n \in 1..n /\ log[n].cut # "whole") => n \notin Settled(new) /\ n + 1 \notin Settled(new)
    BY <1>1, <1>4, LongerByOne, SMTT(30)
  <2>4. (n = 0 \/ log[n].cut = "whole") =>
            (n + 1 \in Settled(new) <=> /\ line.rec.status # "failed"
                                        /\ line.cut \in {"whole", "unended"})
    BY <1>1, <1>4, LongerByOne, SMTT(30)
  <2> QED
    BY <2>1, <2>2, <2>3, <2>4
<1>6. /\ 1..n = 1..(n - 1) \cup (IF n = 0 THEN {} ELSE {n})
      /\ 1..(n + 1) = 1..n \cup {n + 1}
      /\ n \notin 1..(n - 1) /\ n + 1 \notin 1..n /\ (n # 0 => n \in 1..n)
  BY <1>1
<1>7. ASSUME ~(n = 0 \/ log[n].cut = "whole") PROVE Settled(new) = Settled(log) \ {n}
  BY <1>3, <1>5, <1>6, <1>7
<1>8. ASSUME n = 0 \/ log[n].cut = "whole"
      PROVE  Settled(new) = IF line.rec.status # "failed" /\ line.cut \in {"whole", "unended"}
                            THEN Settled(log) \cup {n + 1} ELSE Settled(log)
  <2>1. Settled(new) \cap 1..n = Settled(log)
    BY <1>3, <1>5, <1>6, <1>8
  <2>2. n + 1 \in Settled(new) <=> /\ line.rec.status # "failed"
                                   /\ line.cut \in {"whole", "unended"}
    BY <1>1, <1>5, <1>8
  <2>3. CASE n + 1 \in Settled(new)
    <3>1. Settled(new) = Settled(log) \cup {n + 1}
      BY <1>3, <1>6, <2>1, <2>3
    <3> QED
      BY <2>2, <2>3, <3>1
  <2>4. CASE n + 1 \notin Settled(new)
    <3>1. Settled(new) = Settled(log)
      BY <1>3, <1>6, <2>1, <2>4
    <3> QED
      BY <2>2, <2>4, <3>1
  <2> QED
    BY <2>3, <2>4
<1> QED
  BY <1>1, <1>2, <1>7, <1>8 DEF new, n

\* The numbers that are added up are numbers.
LEMMA AccountTypes ==
    ASSUME ResumeInv
    PROVE  /\ SumFunction(paid) \in Nat
           /\ Cardinality(Settled(checkpoint)) \in Nat /\ IsFiniteSet(Settled(checkpoint))
           /\ InHand \in {0, 1} /\ Owed \in {0, 1, 2} /\ crashes \in Nat
<1>1. paid \in [Questions -> Nat] /\ crashes \in Nat
  BY DEF ResumeInv, TypeOK
<1>2. \A q \in Questions : paid[q] \in Nat
  BY <1>1
<1>3. SumFunctionOnSet(paid, Questions) \in Nat
  BY <1>2, QuestionsFinite, SumType
<1>4. SumFunction(paid) = SumFunctionOnSet(paid, Questions)
  BY <1>1 DEF SumFunction
<1>5. Cardinality(Settled(checkpoint)) \in Nat /\ IsFiniteSet(Settled(checkpoint))
  BY SettledFinite DEF ResumeInv, TypeOK
<1>6. InHand \in {0, 1} /\ Owed \in {0, 1, 2}
  BY DEF InHand, Owed
<1> QED
  BY <1>1, <1>3, <1>4, <1>5, <1>6

\* A step that costs at most "price", by the numbers.
LEMMA Balance ==
    ASSUME NEW p \in Nat, NEW o \in Nat, NEW s \in Nat, NEW h \in Nat, NEW c \in Nat,
           NEW o2 \in Nat, NEW s2 \in Nat, NEW price \in Nat,
           p + o <= s + h + 2 * c, o2 + s + h <= s2 + price + o
    PROVE  p + o2 <= s2 + price + 2 * c
  OBVIOUS

\* What an append costs is what it owes and takes from the hand, less what it
\* gives back.
LEMMA AppendBalance ==
    ASSUME NEW o \in Nat, NEW o2 \in Nat, NEW s \in Nat, NEW s2 \in Nat,
           NEW h \in Nat, NEW price \in Nat, NEW gain \in Nat,
           o2 + h <= price + gain, s2 + o = s + gain
    PROVE  o2 + s + h <= s2 + price + o
  OBVIOUS

LEMMA NextLine == ASSUME NEW n \in Nat, NEW s, s \subseteq 1..n PROVE n + 1 \notin s
  OBVIOUS

LEMMA NoneLost == ASSUME NEW h \in Nat, NEW c \in Nat PROVE 0 + 0 <= 0 + h + 2 * c
  OBVIOUS

\* A crash costs two answers.
Price(cut) == IF cut = "whole" THEN 0 ELSE 2

AtCheckpoint == phase = IF LogOrder[1] = "checkpoint" THEN "append 1" ELSE "append 2"

\* The line of the question at hand is appended, whole or cut: what it costs.
LEMMA AppendCosts ==
    ASSUME ResumeInv, NEW cut \in Cuts,
           AtCheckpoint, checkpoint' = Appended(cut)
    PROVE  /\ Owed' \in Nat /\ Cardinality(Settled(checkpoint')) \in Nat
           /\ Owed' + Cardinality(Settled(checkpoint)) + InHand
                <= Cardinality(Settled(checkpoint')) + Price(cut) + Owed
<1> DEFINE line == [rec |-> batch[Head(todo)], cut |-> cut]
           n == Len(checkpoint)
<1>1. todo # <<>> /\ phase \in {"append 1", "append 2"}
  BY DEF AtCheckpoint, ResumeInv, OneAtHand
<1>2. Head(todo) \in Questions
  BY <1>1, TailFacts DEF ResumeInv, TypeOK
<1>3. line \in [rec : Records, cut : Cuts] /\ line.cut = cut /\ line.rec = batch[Head(todo)]
  BY <1>2 DEF ResumeInv, TypeOK, Rows
<1>4. checkpoint \in Seq([rec : Records, cut : Cuts]) /\ checkpoint' = Append(checkpoint, line)
  BY DEF ResumeInv, TypeOK, Appended
<1>5. InHand = IF line.rec.status # "failed" THEN 1 ELSE 0
  BY Logs, <1>3 DEF AtCheckpoint, InHand, ResumeInv, TypeOK, Kinds
<1> HIDE DEF line
<1>6. /\ EndsWhole(checkpoint') <=> cut = "whole"
      /\ Len(checkpoint') = n + 1
      /\ ~EndsWhole(checkpoint) => Settled(checkpoint') = Settled(checkpoint) \ {n}
      /\ EndsWhole(checkpoint) =>
            Settled(checkpoint') =
               IF line.rec.status # "failed" /\ cut \in {"whole", "unended"}
               THEN Settled(checkpoint) \cup {n + 1} ELSE Settled(checkpoint)
  <2>1. /\ EndsWhole(Append(checkpoint, line)) <=> line.cut = "whole"
        /\ Len(Append(checkpoint, line)) = n + 1
        /\ ~EndsWhole(checkpoint) =>
              Settled(Append(checkpoint, line)) = Settled(checkpoint) \ {n}
        /\ EndsWhole(checkpoint) =>
              Settled(Append(checkpoint, line)) =
                 IF line.rec.status # "failed" /\ line.cut \in {"whole", "unended"}
                 THEN Settled(checkpoint) \cup {n + 1} ELSE Settled(checkpoint)
    BY <1>3, <1>4, AppendCounts
  <2>. QED BY <1>3, <1>4, <2>1
<1>7. n \in Nat /\ n + 1 \notin Settled(checkpoint)
  <2>1. Settled(checkpoint) \subseteq 1..Len(checkpoint) /\ Len(checkpoint) \in Nat
    BY <1>4, SettledFinite
  <2> QED
    BY <2>1, NextLine
<1>8. Owed' = IF cut = "whole" THEN 0 ELSE IF n + 1 \in Settled(checkpoint') THEN 2 ELSE 1
  BY <1>6 DEF Owed
<1>9. /\ Cardinality(Settled(checkpoint)) \in Nat /\ IsFiniteSet(Settled(checkpoint))
      /\ InHand \in {0, 1} /\ Owed \in {0, 1, 2}
  BY AccountTypes
<1>10. Owed = IF EndsWhole(checkpoint) THEN 0 ELSE IF n \in Settled(checkpoint) THEN 2 ELSE 1
  BY DEF Owed
<1> HIDE DEF n
<1>11. Price(cut) \in Nat /\ InHand \in Nat /\ Owed \in Nat /\ Owed' \in Nat
  BY <1>8, <1>9 DEF Price
\* The line can be read.
<1>12. CASE EndsWhole(checkpoint) /\ line.rec.status # "failed" /\ cut \in {"whole", "unended"}
  <2>1. Settled(checkpoint') = Settled(checkpoint) \cup {n + 1}
    BY <1>6, <1>12
  <2>2. Owed = 0 /\ InHand = 1 /\ Owed' = Price(cut)
    BY <1>5, <1>8, <1>10, <1>12, <2>1 DEF Price
  <2>3. Cardinality(Settled(checkpoint')) = Cardinality(Settled(checkpoint)) + 1
    BY <1>7, <1>9, <2>1, FS_AddElement
  <2>4. Owed' + InHand <= Price(cut) + 1 /\ 1 \in Nat
    BY <2>2 DEF Price
  <2>5. Cardinality(Settled(checkpoint')) + Owed = Cardinality(Settled(checkpoint)) + 1
    BY <1>9, <2>2, <2>3
  <2>6. Cardinality(Settled(checkpoint')) \in Nat
    BY <1>9, <2>3
  <2> QED
    BY <1>9, <1>11, <2>4, <2>5, <2>6, AppendBalance
\* It records a failure, or cannot be read: nothing is settled.
<1>13. CASE EndsWhole(checkpoint) /\ ~(line.rec.status # "failed" /\ cut \in {"whole", "unended"})
  <2>1. Settled(checkpoint') = Settled(checkpoint)
    BY <1>6, <1>13
  <2>2. /\ Owed = 0 /\ Owed' = IF cut = "whole" THEN 0 ELSE 1
        /\ InHand = 0 \/ (InHand = 1 /\ cut # "whole")
    BY <1>5, <1>7, <1>8, <1>10, <1>13, <2>1
  <2>3. Cardinality(Settled(checkpoint')) = Cardinality(Settled(checkpoint))
    BY <2>1
  <2>4. Owed' + InHand <= Price(cut) + 0 /\ 0 \in Nat
    BY <2>2 DEF Price
  <2>5. Cardinality(Settled(checkpoint')) + Owed = Cardinality(Settled(checkpoint)) + 0
    BY <1>9, <2>2, <2>3
  <2>6. Cardinality(Settled(checkpoint')) \in Nat
    BY <1>9, <2>3
  <2> QED
    BY <1>9, <1>11, <2>4, <2>5, <2>6, AppendBalance
\* It is glued to a line that was cut.
<1>14. CASE ~EndsWhole(checkpoint)
  <2>1. Settled(checkpoint') = Settled(checkpoint) \ {n}
    BY <1>6, <1>14
  <2>2. Owed' = IF cut = "whole" THEN 0 ELSE 1
    BY <1>7, <1>8, <2>1
  <2>3. /\ Cardinality(Settled(checkpoint'))
              = IF n \in Settled(checkpoint) THEN Cardinality(Settled(checkpoint)) - 1
                                             ELSE Cardinality(Settled(checkpoint))
        /\ Cardinality(Settled(checkpoint')) \in Nat
    BY <1>9, <2>1, FS_RemoveElement, FS_CardinalityType
  <2>4. Owed' + InHand <= Price(cut) + 1 /\ 1 \in Nat
    BY <1>9, <2>2 DEF Price
  <2>5. Cardinality(Settled(checkpoint')) + Owed = Cardinality(Settled(checkpoint)) + 1
    BY <1>9, <1>10, <1>14, <2>3
  <2> QED
    BY <1>9, <1>11, <2>3, <2>4, <2>5, AppendBalance
<1> QED
  BY <1>12, <1>13, <1>14

LEMMA AppendAccounted ==
    ASSUME ResumeInv, AnswersAccountedFor, NEW cut \in Cuts,
           AtCheckpoint, checkpoint' = Appended(cut)
    PROVE  SumFunction(paid) + Owed'
              <= Cardinality(Settled(checkpoint')) + Price(cut) + 2 * crashes
<1>1. /\ Owed' \in Nat /\ Cardinality(Settled(checkpoint')) \in Nat
      /\ Owed' + Cardinality(Settled(checkpoint)) + InHand
           <= Cardinality(Settled(checkpoint')) + Price(cut) + Owed
  BY AppendCosts
<1>2. /\ SumFunction(paid) \in Nat /\ crashes \in Nat
      /\ Cardinality(Settled(checkpoint)) \in Nat
  BY AccountTypes
<1>3. InHand \in Nat /\ Owed \in Nat /\ Price(cut) \in Nat
  BY DEF InHand, Owed, Price
<1> QED
  BY <1>1, <1>2, <1>3, Balance DEF AnswersAccountedFor

LEMMA HandType == InHand \in Nat /\ InHand' \in Nat
  BY DEF InHand

LEMMA OwedSame == checkpoint' = checkpoint => Owed' = Owed
  BY DEF Owed

\* Only an answer that waits for its line is in hand.
LEMMA HandOnlyToAppend ==
    phase \notin {"append 1", "append 2"} => InHand = 0 /\ InHand <= InHand'
<1>1. phase \notin {"append 1", "append 2"} => InHand = 0
  BY DEF InHand
<1>2. InHand = 0 => InHand <= InHand'
  BY HandType
<1> QED
  BY <1>1, <1>2

\* A step that loses nothing from the hand, pays for nothing and writes nothing.
LEMMA QuietAccounted ==
    ASSUME ResumeInv, AnswersAccountedFor,
           paid' = paid, checkpoint' = checkpoint, crashes' = crashes, InHand <= InHand'
    PROVE  AnswersAccountedFor'
<1>1. /\ SumFunction(paid) \in Nat /\ Cardinality(Settled(checkpoint)) \in Nat
      /\ crashes \in Nat /\ InHand \in Nat /\ InHand' \in Nat
  BY AccountTypes, HandType
<1>2. Owed \in Nat /\ Owed' = Owed
  BY OwedSame DEF Owed
<1>3. SumFunction(paid) + Owed <= Cardinality(Settled(checkpoint)) + InHand + 2 * crashes
  BY DEF AnswersAccountedFor
<1>4. SumFunction(paid) + Owed <= Cardinality(Settled(checkpoint)) + InHand' + 2 * crashes
  BY <1>1, <1>2, <1>3
<1> QED
  BY <1>2, <1>4 DEF AnswersAccountedFor

\* A process that dies between two writes takes the answer in hand with it.
LEMMA CrashAccounted ==
    ASSUME ResumeInv, AnswersAccountedFor,
           paid' = paid, checkpoint' = checkpoint, crashes' = crashes + 1
    PROVE  AnswersAccountedFor'
<1>1. /\ SumFunction(paid) \in Nat /\ Cardinality(Settled(checkpoint)) \in Nat
      /\ crashes \in Nat /\ InHand \in {0, 1} /\ InHand' \in Nat
  BY AccountTypes, HandType
<1>2. Owed \in Nat /\ Owed' = Owed
  BY OwedSame DEF Owed
<1>3. SumFunction(paid) + Owed <= Cardinality(Settled(checkpoint)) + InHand + 2 * crashes
  BY DEF AnswersAccountedFor
<1>4. SumFunction(paid) + Owed
        <= Cardinality(Settled(checkpoint)) + InHand' + 2 * (crashes + 1)
  BY <1>1, <1>2, <1>3
<1> QED
  BY <1>2, <1>4 DEF AnswersAccountedFor

\* The answer that was just paid for is in hand, unless the question failed.
LEMMA ExecuteAccounted ==
    ASSUME ResumeInv, AnswersAccountedFor, ExecuteQuestion
    PROVE  AnswersAccountedFor'
<1>1. PICK status \in Recorded(agent) :
         /\ batch' = [batch EXCEPT ![Head(todo)] = Record(@.qid, status, starts)]
         /\ paid' = [paid EXCEPT ![Head(todo)] = @ + IF status = "failed" THEN 0 ELSE 1]
  BY DEF ExecuteQuestion
<1>2. /\ phase = "answer" /\ todo # <<>> /\ phase' = "append 1"
      /\ todo' = todo /\ checkpoint' = checkpoint /\ crashes' = crashes
  BY DEF ExecuteQuestion, Answering, files
<1>3. Head(todo) \in Questions /\ paid \in [Questions -> Nat] /\ batch \in Rows
  BY <1>2, TailFacts DEF ResumeInv, TypeOK
<1> DEFINE gain == IF status = "failed" THEN 0 ELSE 1
<1>4. SumFunction(paid') = SumFunction(paid) + gain
  <2>1. /\ paid' \in [Questions -> Nat]
        /\ paid'[Head(todo)] = paid[Head(todo)] + gain
        /\ \A q \in Questions \ {Head(todo)} : paid'[q] = paid[q]
    BY <1>1, <1>3
  <2>2. /\ SumFunction(paid') = SumFunction(paid) - paid[Head(todo)] + paid'[Head(todo)]
        /\ SumFunction(paid) \in Nat
    BY <1>3, <2>1, QuestionsFinite, SumChange
  <2>3. paid[Head(todo)] \in Nat /\ gain \in Nat
    BY <1>3
  <2> HIDE DEF gain
  <2> QED
    BY <2>1, <2>2, <2>3
<1>5. InHand = 0 /\ InHand' = gain
  <2>1. batch'[Head(todo)].status = status
    BY <1>1, <1>3 DEF Record, Rows
  <2> QED
    BY <1>2, <2>1 DEF InHand
<1>6. /\ SumFunction(paid) \in Nat /\ Cardinality(Settled(checkpoint)) \in Nat
      /\ crashes \in Nat /\ gain \in Nat
  BY AccountTypes
<1>7. Owed \in Nat /\ Owed' = Owed
  BY <1>2, OwedSame DEF Owed
<1>8. SumFunction(paid) + Owed <= Cardinality(Settled(checkpoint)) + 0 + 2 * crashes
  BY <1>5 DEF AnswersAccountedFor
<1> HIDE DEF gain
<1>9. SumFunction(paid) + gain + Owed <= Cardinality(Settled(checkpoint)) + gain + 2 * crashes
  BY <1>6, <1>7, <1>8
<1> QED
  BY <1>2, <1>4, <1>5, <1>7, <1>9 DEF AnswersAccountedFor

\* What was paid for is counted from the moment the checkpoint is emptied.
LEMMA EmptyAccounted ==
    ASSUME ResumeInv, AnswersAccountedFor, NEW k \in {1, 2}, EmptyLog(k)
    PROVE  AnswersAccountedFor'
<1>1. phase \notin {"append 1", "append 2"} /\ crashes' = crashes /\ crashes \in Nat
  BY DEF EmptyLog, ResumeInv, TypeOK
<1>2. CASE LogOrder[k] = "checkpoint"
  <2>1. checkpoint' = <<>> /\ paid' = [q \in Questions |-> 0]
    BY <1>2 DEF EmptyLog
  <2>2. DOMAIN paid' = Questions /\ \A q \in DOMAIN paid' : paid'[q] = 0
    BY <2>1
  <2>3. SumFunction(paid') = 0
    BY <2>2, QuestionsFinite, SumOfZeros
  <2>4. Settled(checkpoint') = {} /\ Owed' = 0
    BY <2>1, NothingSettled DEF Owed, EndsWhole
  <2>5. Cardinality(Settled(checkpoint')) = 0
    BY <2>4, FS_EmptySet
  <2>6. InHand' \in Nat /\ crashes' \in Nat
    BY <1>1, HandType
  <2>7. 0 + 0 <= 0 + InHand' + 2 * crashes'
    BY <2>6, NoneLost
  <2> QED
    BY <2>3, <2>4, <2>5, <2>7 DEF AnswersAccountedFor
<1>3. CASE LogOrder[k] # "checkpoint"
  <2>1. checkpoint' = checkpoint /\ paid' = paid
    BY <1>3 DEF EmptyLog
  <2>2. InHand <= InHand'
    BY <1>1, HandOnlyToAppend
  <2> QED
    BY <1>1, <2>1, <2>2, QuietAccounted
<1> QED
  BY <1>2, <1>3

LEMMA WrittenAccounted ==
    ASSUME ResumeInv, AnswersAccountedFor, NEW k \in {1, 2}, AppendLog(k)
    PROVE  AnswersAccountedFor'
<1>1. /\ paid' = paid /\ crashes' = crashes /\ batch' = batch /\ agent' = agent
      /\ crashes \in Nat /\ agent \in Kinds
  BY DEF AppendLog, ResumeInv, TypeOK, history
<1>2. CASE LogOrder[k] = "checkpoint"
  <2>1. checkpoint' = Appended("whole") /\ AtCheckpoint
    BY <1>1, <1>2, Logs DEF AppendLog, AtCheckpoint, Kinds
  <2>2. "whole" \in Cuts /\ Price("whole") = 0
    BY DEF Cuts, Price
  <2>3. SumFunction(paid) + Owed'
           <= Cardinality(Settled(checkpoint')) + Price("whole") + 2 * crashes
    BY <2>1, <2>2, AppendAccounted
  <2>4. /\ Owed' \in Nat /\ Cardinality(Settled(checkpoint')) \in Nat
        /\ SumFunction(paid) \in Nat /\ InHand' \in Nat
    BY <2>1, <2>2, AppendCosts, AccountTypes, HandType
  <2>5. SumFunction(paid) + Owed'
           <= Cardinality(Settled(checkpoint')) + InHand' + 2 * crashes
    BY <1>1, <2>2, <2>3, <2>4
  <2> QED
    BY <1>1, <2>5 DEF AnswersAccountedFor
<1>3. CASE LogOrder[k] # "checkpoint"
  <2>1. checkpoint' = checkpoint
    BY <1>3 DEF AppendLog
  <2>2. InHand <= InHand'
    <3>1. CASE k = 1
      <4>1. /\ phase = "append 1" /\ phase' = "append 2" /\ todo' = todo
            /\ LogOrder[2] = "checkpoint" /\ LogOrder' = LogOrder
        BY <1>1, <1>3, <3>1, Logs, SameAgent DEF AppendLog
      <4>2. InHand' = InHand
        BY <1>1, <4>1 DEF InHand
      <4> QED
        BY <4>2, HandType
    <3>2. CASE k = 2
      <4>1. phase = "append 2" /\ LogOrder[2] # "checkpoint"
        BY <1>1, <1>3, <3>2, Logs DEF AppendLog
      <4>2. InHand = 0
        BY <4>1 DEF InHand
      <4> QED
        BY <4>2, HandType
    <3> QED
      BY <3>1, <3>2
  <2> QED
    BY <1>1, <2>1, <2>2, QuietAccounted
<1> QED
  BY <1>2, <1>3

LEMMA CutAccounted ==
    ASSUME ResumeInv, AnswersAccountedFor, CrashInAppend
    PROVE  AnswersAccountedFor'
<1>1. /\ AtCheckpoint /\ paid' = paid /\ crashes' = crashes + 1 /\ crashes \in Nat
  BY DEF CrashInAppend, Dies, AtCheckpoint, ResumeInv, TypeOK
<1>2. PICK cut \in Cuts : cut # "whole" /\ checkpoint' = Appended(cut)
  BY DEF CrashInAppend
<1>3. SumFunction(paid) + Owed'
         <= Cardinality(Settled(checkpoint')) + Price(cut) + 2 * crashes
  BY <1>1, <1>2, AppendAccounted
<1>4. /\ Owed' \in Nat /\ Cardinality(Settled(checkpoint')) \in Nat
      /\ SumFunction(paid) \in Nat /\ InHand' \in Nat
  BY <1>1, <1>2, AppendCosts, AccountTypes, HandType
<1>5. Price(cut) = 2
  BY <1>2 DEF Price
<1>6. SumFunction(paid) + Owed'
         <= Cardinality(Settled(checkpoint')) + InHand' + 2 * (crashes + 1)
  BY <1>1, <1>3, <1>4, <1>5
<1> QED
  BY <1>1, <1>6 DEF AnswersAccountedFor

LEMMA NextAccounted == ResumeInv /\ AnswersAccountedFor /\ [Next]_vars => AnswersAccountedFor'
<1> SUFFICES ASSUME ResumeInv, AnswersAccountedFor, [Next]_vars PROVE AnswersAccountedFor'
  OBVIOUS
<1>0. crashes \in Nat /\ phase \in Phases
  BY DEF ResumeInv, TypeOK
\* Nothing is in hand when these begin.
<1>1. ASSUME paid' = paid, checkpoint' = checkpoint, crashes' = crashes,
             phase \notin {"append 1", "append 2"}
      PROVE  AnswersAccountedFor'
  BY <1>1, HandOnlyToAppend, QuietAccounted
<1>2. ASSUME NEW resuming \in BOOLEAN, Start(resuming) PROVE AnswersAccountedFor'
  BY <1>1, <1>2 DEF Start, files
<1>3. CASE TakeOver
  BY <1>1, <1>3 DEF TakeOver, files, history
<1>4. CASE TakeOverFails
  BY <1>1, <1>4 DEF TakeOverFails, files, history
<1>5. ASSUME NEW k \in {1, 2}, EmptyLog(k) PROVE AnswersAccountedFor'
  BY <1>5, EmptyAccounted
<1>6. CASE SkipQuestion
  BY <1>1, <1>6 DEF SkipQuestion, Answering, files, history
<1>7. CASE ExecuteQuestion
  BY <1>7, ExecuteAccounted
<1>8. CASE AbortQuestion
  BY <1>1, <1>8 DEF AbortQuestion, Answering
<1>9. ASSUME NEW k \in {1, 2}, AppendLog(k) PROVE AnswersAccountedFor'
  BY <1>9, WrittenAccounted
<1>10. CASE EndBatch
  BY <1>1, <1>10 DEF EndBatch, files, history
<1>11. CASE WriteOutput
  BY <1>1, <1>11 DEF WriteOutput, history, OutputFiles
<1>12. CASE Report
  BY <1>1, <1>12 DEF Report, files
<1>13. CASE Crash
  BY <1>13, CrashAccounted DEF Crash, Dies
<1>14. CASE CrashInAppend
  BY <1>14, CutAccounted
<1>15. CASE CrashInOutput
  BY <1>15, CrashAccounted DEF CrashInOutput, Dies
<1>16. CASE UNCHANGED vars
  <2>1. /\ paid' = paid /\ checkpoint' = checkpoint /\ crashes' = crashes
        /\ phase' = phase /\ todo' = todo /\ batch' = batch /\ LogOrder' = LogOrder
    BY <1>16, SameAgent DEF vars, files, process, history
  <2>2. InHand' = InHand
    BY <2>1 DEF InHand
  <2> QED
    BY <2>1, <2>2, HandType, QuietAccounted
<1> QED
  BY <1>2, <1>3, <1>4, <1>5, <1>6, <1>7, <1>8, <1>9, <1>10, <1>11, <1>12,
     <1>13, <1>14, <1>15, <1>16 DEF Next, Work

LEMMA InitAccounted == Init => AnswersAccountedFor
<1> SUFFICES ASSUME Init PROVE AnswersAccountedFor
  OBVIOUS
<1>1. checkpoint = <<>> /\ paid = [q \in Questions |-> 0] /\ crashes = 0 /\ phase = "idle"
  BY DEF Init
<1>2. DOMAIN paid = Questions /\ \A q \in DOMAIN paid : paid[q] = 0
  BY <1>1
<1>3. SumFunction(paid) = 0
  BY <1>2, QuestionsFinite, SumOfZeros
<1>4. Settled(checkpoint) = {} /\ Owed = 0
  BY <1>1, NothingSettled DEF Owed, EndsWhole
<1>5. Cardinality(Settled(checkpoint)) = 0
  BY <1>4, FS_EmptySet
<1>6. InHand = 0
  BY <1>1, HandOnlyToAppend
<1> QED
  BY <1>1, <1>3, <1>4, <1>5, <1>6 DEF AnswersAccountedFor

(* A crash costs at most two answers that were paid for, whatever lines it cuts
   and the next process glues to them: every other one can be read from the
   checkpoint, for any batch, any kind of agent and any number of crashes
   (rag/Agent.py, agentic/rewrite.py, agentic/runtime.py: the append to the
   checkpoint and the reading of it). *)
THEOREM AnswersSurvive == Spec => []CrashesLoseTwoAnswersEach
<1>1. ResumeInv /\ AnswersAccountedFor => CrashesLoseTwoAnswersEach
  <2> SUFFICES ASSUME ResumeInv, AnswersAccountedFor PROVE CrashesLoseTwoAnswersEach
    OBVIOUS
  <2>1. /\ SumFunction(paid) \in Nat /\ Cardinality(Settled(checkpoint)) \in Nat
        /\ crashes \in Nat /\ InHand \in Nat
    BY AccountTypes, HandType
  <2>2. Owed \in Nat
    BY DEF Owed
  <2>3. SumFunction(paid) + Owed <= Cardinality(Settled(checkpoint)) + InHand + 2 * crashes
    BY DEF AnswersAccountedFor
  <2> QED
    BY <2>1, <2>2, <2>3 DEF CrashesLoseTwoAnswersEach
<1> QED
  BY <1>1, InitResume, NextResume, InitAccounted, NextAccounted, PTL DEF Spec
=============================================================================
