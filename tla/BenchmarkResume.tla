--------------------------- MODULE BenchmarkResume ---------------------------
(* One system of a benchmark, run and resumed (benchmark.py: _run_system): the
   agent answers the questions of the batch one by one and appends each answer
   to a checkpoint and a trajectory (rag/Agent.py, agentic/rewrite.py,
   agentic/runtime.py); the outputs are written once the batch is done
   (io/Output.py).  A process may end at any point, in the middle of a write
   too, and "--resume" starts another one over the files it left.

   What an answer says is left out; "by" is the process that produced it.  A
   line whose write was cut short has no end, so the next one is glued to it.
   Of the trajectory, which nothing reads, only the step that writes it is kept. *)
EXTENDS Integers, Sequences, FiniteSets, Functions, SequencesExt

CONSTANTS
    Qids,           \* the questions, in the order of the batch
    Agents,         \* the kinds of agent that may be configured
    MaxStarts, MaxFailures  \* bounds of the model: processes, and crashes and errors

Kinds == {"rag", "agentic_rag", "rewrite_rag"}

ASSUME BenchmarkAssumption ==
    /\ Qids \in Seq(Nat) /\ \A i, j \in DOMAIN Qids : Qids[i] = Qids[j] => i = j
    /\ Agents \subseteq Kinds
    /\ MaxStarts \in Nat /\ MaxFailures \in Nat

VARIABLES
    agent,      \* the configured agent
    checkpoint, \* checkpoint.jsonl, as the writes appended to it
    outputs,    \* results.run, answers.json, llm.json and runtime.json
    rejected,   \* questions with a cached response that the rewrite policy refuses
    \* of the process that runs
    phase,      \* "idle" when none does, else what it does next
    resume,     \* agent:resume
    completed,  \* self._completed: the records taken over
    todo,       \* the questions of the batch not yet done
    batch,      \* question -> the record in its qinfo
    \* counted
    starts, crashes, aborts,
    paid,       \* executions that settled their question since the checkpoint was emptied
    replaced,   \* a benchmark that had outputs was started without --resume
    reported    \* some process came to its end

files   == <<checkpoint, outputs, rejected>>
process == <<resume, completed, todo, batch>>
history == <<starts, crashes, aborts, paid, replaced, reported>>
vars    == <<agent, files, phase, process, history>>

Questions   == ToSet(Qids)
OutputFiles == {"run", "answers", "metadata", "runtime"}

\* What became of a question: "answered"; "blank", finished without an answer;
\* "failed", a provider or answer error that is on record.
Record(q, status, by) == [qid |-> q, status |-> status, by |-> by]
NoRecords == [q \in Questions |-> Record(q, "none", 0)]

\* A write to a log: "whole"; all but its newline; part of it; or part of it
\* that ends inside a character.
Cuts == {"whole", "unended", "torn", "split"}

\* The statuses an agent records; it raises on everything else.  The one-shot
\* agent records a failure if it falls back or continues on errors.
Recorded(a) ==
    CASE a = "rag"         -> {"answered", "failed"}
      [] a = "agentic_rag" -> {"answered", "blank", "failed"}
      [] a = "rewrite_rag" -> {"answered"}

\* The research loop writes the trajectory first, the others the checkpoint.
LogOrder == IF agent = "agentic_rag" THEN <<"trajectory", "checkpoint">>
                                     ELSE <<"checkpoint", "trajectory">>

\* The tasks of a configuration: a one-shot agent answers from a ranking that
\* was written before, the others find their own.
Tasks == IF agent \in {"agentic_rag", "rewrite_rag"}
         THEN <<"agent", "run", "answers", "metadata", "runtime", "report">>
         ELSE <<"run", "agent", "answers", "metadata", "runtime", "report">>

\* (Deviation: the metadata is written before the answers.)
AfterAnswersLast(task) ==
    LET order == SelectSeq(Tasks, LAMBDA t : t \notin {"answers", "runtime", "report"})
                     \o <<"answers", "runtime", "report">>
    IN  order[1 + CHOOSE i \in DOMAIN order : order[i] = task]

After(task) == Tasks[1 + CHOOSE i \in DOMAIN Tasks : Tasks[i] = task]

-----------------------------------------------------------------------------
\* A line is a whole write, or the last one without its newline, that does not
\* follow the beginning of another.  (Deviation: reading ends at the first that
\* is none.)
ReadableToTheFirstTear(log) ==
    {k \in DOMAIN log : \A j \in 1..k : log[j].cut = "whole"}

Readable(log) ==
    {k \in DOMAIN log : /\ k > 1 => log[k - 1].cut = "whole"
                        /\ log[k].cut = "whole" \/ (log[k].cut = "unended" /\ k = Len(log))}

Undecodable(log) == \E k \in DOMAIN log : log[k].cut = "split"

\* The lines --resume takes over: all that parse but recorded failures.
Settled(log) == {k \in Readable(log) : log[k].rec.status # "failed"}

\* The last line of a question counts.  (Deviation: nothing behind a torn line.)
LoadUpToTheFirstTear(log) ==
    {log[k].rec : k \in {j \in Settled(log) : \A i \in 1..j : log[i].cut = "whole"}}

LoadCheckpoints(log) ==
    {log[k].rec : k \in {j \in Settled(log) :
                           \A i \in Settled(log) : i > j => log[i].rec.qid # log[j].rec.qid}}

\* Failures as the benchmark sees them in llm.json; one that does not parse
\* reads as {} and shows none.
HasRetryableFailures ==
    /\ outputs["metadata"].is = "whole"
    /\ \E q \in Questions : outputs["metadata"].rows[q].status \in {"blank", "failed"}

\* (Deviation: whatever failed.)
CompleteWithFailures(resuming) ==
    /\ resuming
    /\ \A f \in OutputFiles : outputs[f].is # "absent"
    /\ outputs["answers"].is = "whole"

Complete(resuming) ==
    /\ resuming
    /\ \A f \in OutputFiles : outputs[f].is # "absent"
    /\ outputs["answers"].is = "whole"
    /\ ~HasRetryableFailures

-----------------------------------------------------------------------------
Init ==
    /\ agent \in Agents
    /\ checkpoint = <<>>
    /\ outputs = [f \in OutputFiles |-> [is |-> "absent", rows |-> NoRecords]]
    /\ rejected = {}
    /\ phase = "idle"
    /\ resume = FALSE
    /\ completed = {}
    /\ todo = <<>>
    /\ batch = NoRecords
    /\ starts = 0 /\ crashes = 0 /\ aborts = 0
    /\ paid = [q \in Questions |-> 0]
    /\ replaced = FALSE
    /\ reported = FALSE

\* The process is gone, with what it held in memory.
Exit ==
    /\ phase' = "idle"
    /\ resume' = FALSE
    /\ completed' = {}
    /\ todo' = <<>>
    /\ batch' = NoRecords

\* Outputs that are complete are evaluated again as they are; runtime.json has
\* to parse then, or the evaluation raises.
Start(resuming) ==
    /\ phase = "idle"
    /\ starts < MaxStarts
    /\ starts' = starts + 1
    /\ replaced' = (replaced \/ (~resuming /\ \E f \in OutputFiles : outputs[f].is # "absent"))
    /\ resume' = resuming
    /\ phase' = CASE ~Complete(resuming)                 -> Tasks[1]
                  [] Complete(resuming) /\ outputs["runtime"].is = "whole" -> "report"
                  [] OTHER                               -> "idle"
    /\ UNCHANGED <<agent, files, completed, todo, batch, crashes, aborts, paid, reported>>

\* The agent is built: it takes its checkpoint over ...
TakeOver ==
    /\ phase = "agent"
    /\ resume
    /\ ~Undecodable(checkpoint)
    /\ completed' = LoadCheckpoints(checkpoint)
    /\ todo' = Qids
    /\ phase' = "answer"
    /\ UNCHANGED <<agent, files, resume, batch, history>>

\* ... which fails on a character that was cut (deviation: on any torn line) ...
TakeOverFailsOnTear ==
    /\ phase = "agent"
    /\ resume
    /\ \E k \in DOMAIN checkpoint : checkpoint[k].cut \in {"torn", "split"}
    /\ Exit
    /\ UNCHANGED <<agent, files, history>>

TakeOverFails ==
    /\ phase = "agent"
    /\ resume
    /\ Undecodable(checkpoint)
    /\ Exit
    /\ UNCHANGED <<agent, files, history>>

\* ... or it empties both logs, one after the other.
EmptyLog(k) ==
    /\ phase = IF k = 1 THEN "agent" ELSE "empty"
    /\ ~resume
    /\ checkpoint' = IF LogOrder[k] = "checkpoint" THEN <<>> ELSE checkpoint
    /\ paid' = IF LogOrder[k] = "checkpoint" THEN [q \in Questions |-> 0] ELSE paid
    /\ phase' = IF k = 1 THEN "empty" ELSE "answer"
    /\ todo' = IF k = 1 THEN todo ELSE Qids
    /\ UNCHANGED <<agent, outputs, rejected, resume, completed, batch,
                   starts, crashes, aborts, replaced, reported>>

Answering == phase = "answer" /\ todo # <<>>

Known == {r.qid : r \in completed}

SkipQuestion ==
    /\ Answering
    /\ \E r \in completed : r.qid = Head(todo) /\ batch' = [batch EXCEPT ![r.qid] = r]
    /\ todo' = Tail(todo)
    /\ UNCHANGED <<agent, files, phase, resume, completed, history>>

ExecuteQuestion ==
    /\ Answering
    /\ Head(todo) \notin Known \cup rejected
    /\ \E status \in Recorded(agent) :
          /\ batch' = [batch EXCEPT ![Head(todo)] = Record(@.qid, status, starts)]
          /\ paid' = [paid EXCEPT ![Head(todo)] = @ + IF status = "failed" THEN 0 ELSE 1]
    /\ phase' = "append 1"
    /\ UNCHANGED <<agent, files, resume, completed, todo,
                   starts, crashes, aborts, replaced, reported>>

\* An exception ends the batch.  The rewrite policy also raises on a response
\* it refuses, which the model cache has kept and answers with from then on.
AbortQuestion ==
    /\ Answering
    /\ Head(todo) \notin Known
    /\ Head(todo) \in rejected \/ crashes + aborts < MaxFailures
    /\ aborts' = IF Head(todo) \in rejected THEN aborts ELSE aborts + 1
    /\ \/ UNCHANGED rejected
       \/ agent = "rewrite_rag" /\ rejected' = rejected \cup {Head(todo)}
    /\ Exit
    /\ UNCHANGED <<agent, checkpoint, outputs, starts, crashes, paid, replaced, reported>>

Appended(cut) == Append(checkpoint, [rec |-> batch[Head(todo)], cut |-> cut])

AppendLog(k) ==
    /\ phase = IF k = 1 THEN "append 1" ELSE "append 2"
    /\ checkpoint' = IF LogOrder[k] = "checkpoint" THEN Appended("whole") ELSE checkpoint
    /\ phase' = IF k = 1 THEN "append 2" ELSE "answer"
    /\ todo' = IF k = 1 THEN todo ELSE Tail(todo)
    /\ UNCHANGED <<agent, outputs, rejected, resume, completed, batch, history>>

EndBatch ==
    /\ phase = "answer"
    /\ todo = <<>>
    /\ phase' = After("agent")
    /\ UNCHANGED <<agent, files, process, history>>

WriteOutput ==
    /\ phase \in OutputFiles
    /\ outputs' = [outputs EXCEPT ![phase] = [is |-> "whole", rows |-> batch]]
    /\ phase' = After(phase)
    /\ UNCHANGED <<agent, checkpoint, rejected, process, history>>

Report ==
    /\ phase = "report"
    /\ reported' = TRUE
    /\ Exit
    /\ UNCHANGED <<agent, files, starts, crashes, aborts, paid, replaced>>

Dies ==
    /\ phase # "idle"
    /\ crashes + aborts < MaxFailures
    /\ crashes' = crashes + 1
    /\ Exit
    /\ UNCHANGED <<agent, rejected, starts, aborts, paid, replaced, reported>>

Crash == Dies /\ UNCHANGED <<checkpoint, outputs>>

CrashInAppend ==
    /\ phase = IF LogOrder[1] = "checkpoint" THEN "append 1" ELSE "append 2"
    /\ \E cut \in Cuts \ {"whole"} : checkpoint' = Appended(cut)
    /\ Dies
    /\ UNCHANGED outputs

\* The file was opened for writing, which emptied it.
CrashInOutput ==
    /\ phase \in OutputFiles
    /\ outputs' = [outputs EXCEPT ![phase] = [is |-> "broken", rows |-> NoRecords]]
    /\ Dies
    /\ UNCHANGED checkpoint

Work ==
    \/ TakeOver
    \/ TakeOverFails
    \/ \E k \in {1, 2} : EmptyLog(k)
    \/ SkipQuestion
    \/ ExecuteQuestion
    \/ AbortQuestion
    \/ \E k \in {1, 2} : AppendLog(k)
    \/ EndBatch
    \/ WriteOutput
    \/ Report

Next ==
    \/ \E resuming \in BOOLEAN : Start(resuming)
    \/ Work
    \/ Crash
    \/ CrashInAppend
    \/ CrashInOutput

\* A process that is not killed goes on, and the operator resumes the benchmark
\* that has ended, until it has reported once.
Fairness == WF_vars(Work) /\ WF_vars(~reported /\ Start(TRUE))

Spec == Init /\ [][Next]_vars /\ Fairness

-----------------------------------------------------------------------------
Statuses == {"none", "answered", "blank", "failed"}
Records  == [qid : Questions, status : Statuses, by : Nat]
Rows     == [Questions -> Records]
Phases   == {"idle", "empty", "answer", "append 1", "append 2"} \cup ToSet(Tasks)

TypeOK ==
    /\ agent \in Kinds
    /\ checkpoint \in Seq([rec : Records, cut : Cuts])
    /\ outputs \in [OutputFiles -> [is : {"absent", "broken", "whole"}, rows : Rows]]
    /\ rejected \subseteq Questions
    /\ phase \in Phases
    /\ resume \in BOOLEAN /\ replaced \in BOOLEAN /\ reported \in BOOLEAN
    /\ completed \subseteq Records
    /\ todo \in Seq(Questions)
    /\ batch \in Rows
    /\ starts \in Nat /\ crashes \in Nat /\ aborts \in Nat
    /\ paid \in [Questions -> Nat]

SettledQuestions == {checkpoint[k].rec.qid : k \in Settled(checkpoint)}

(* "Completed questions are not sent to the API again" (docs/AGENTIC_RAG.md:67):
   none is executed while the checkpoint holds a line that settles it, whatever
   lines before or after it were cut, and no two lines settle one question. *)
SettledOnce ==
    /\ Answering /\ Head(todo) \in SettledQuestions => Head(todo) \in Known
    /\ \A j, k \in Settled(checkpoint) :
          checkpoint[j].rec.qid = checkpoint[k].rec.qid => j = k

\* The answer that is on its way to the checkpoint.
InHand ==
    IF /\ phase = "append 1" \/ (phase = "append 2" /\ LogOrder[2] = "checkpoint")
       /\ batch[Head(todo)].status # "failed"
    THEN 1 ELSE 0

(* A crash costs at most two answers: the one whose line it cut, and the one
   whose line the next append glues to it (Agent.py:186, rewrite.py:236,
   runtime.py:442).  Every other answer that was paid for is in the checkpoint,
   on a line that a resumed run can read. *)
CrashesLoseTwoAnswersEach ==
    SumFunction(paid)
        <= Cardinality(Settled(checkpoint)) + InHand + 2 * crashes

\* The files a report is made from, all of them as this benchmark wrote them.
Trusted == phase = "report" /\ ~replaced /\ outputs["metadata"].is = "whole"

(* What a process reports belongs together: answers, metadata and, where the
   agent ranks, the run file hold the same record of every question, the one
   the checkpoint holds if it holds one; crashes between any two writes and the
   shortcut over existing outputs (benchmark.py:211-216) mix no two runs. *)
ReportIsOfOneRun ==
    Trusted =>
        /\ outputs["answers"] = outputs["metadata"]
        /\ agent \in {"agentic_rag", "rewrite_rag"} => outputs["run"] = outputs["answers"]
        /\ \A k \in Settled(checkpoint) :
              LET r == checkpoint[k].rec IN outputs["metadata"].rows[r.qid] = r

(* "Questions recorded with a provider or answer error are retried by the next
   --resume run" (docs/AGENTIC_RAG.md:67): a failure that is reported is one of
   the reporting process itself, and every question has been given a record. *)
FailuresAreRetried ==
    Trusted => \A q \in Questions :
        LET r == outputs["metadata"].rows[q]
        IN  r.status # "none" /\ (r.status = "failed" => r.by = starts)

\* The three states of the files that resuming does not leave: a cut character
\* in the checkpoint, a cached response that is refused, a runtime.json that a
\* crash emptied.
Stuck ==
    \/ Undecodable(checkpoint)
    \/ rejected # {}
    \/ outputs["runtime"].is = "broken"

(* Once crashes and errors stop, resuming brings the benchmark to its report
   (benchmark.py:242-271), except from those three states. *)
ResumingReports == <>(reported \/ Stuck)
=============================================================================
