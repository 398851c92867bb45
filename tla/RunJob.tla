-------------------------------- MODULE RunJob --------------------------------
(***************************************************************************)
(* controller.RunJob and the rows it writes, for every process ("runner")  *)
(* that may execute a job: the consumer goroutine of `bop controller`, and *)
(* the one-shot `bop backup` commands.  The jobs table is the shared state;*)
(* every other variable is local to a runner.                              *)
(*                                                                         *)
(* The pipeline between the two status writes is one step here (it ends    *)
(* with or without an error); module Pipeline opens it up.                 *)
(***************************************************************************)
EXTENDS Integers

CONSTANTS
    Jobs,       \* job ids; a natural number, the queued_at instant of the job
    Runners,    \* processes able to execute a job
    NoJob,      \* "no job at hand"
    MaxFaults   \* bound: crashes, failed boots and metadata errors considered

ASSUME JobsAreInstants == Jobs \subseteq Nat
ASSUME NoJobIsNotAJob == NoJob \notin Jobs
ASSUME MaxFaultsIsNat == MaxFaults \in Nat

VARIABLES
    ledger,     \* metadata: jobs.status by id, "absent" without a row
    announced,  \* metadata: the terminal events persisted for each job
    work,       \* history: what became of each job's pipeline
    runnable,   \* runnable[r]: jobs whose host, plugin and repository r knows
    pc,         \* pc[r]: where r stands in RunJob
    cur,        \* cur[r]: the job r is executing
    verdict,    \* verdict[r]: finalStatus of the pipeline r has just run
    reported,   \* reported[r]: jobs r has logged an error about
    faults      \* faults spent so far, at most MaxFaults

runVars == <<ledger, announced, work, runnable, pc, cur, verdict, reported, faults>>

Ledger == INSTANCE JobLedger WITH ledger <- ledger, work <- work
Terminal == Ledger!Terminal

\* idle: between jobs; claimed: before UpdateJobStatus(in_progress); running:
\* inside runPipeline; ended: pipelineErr known, outcome event not published
\* yet; announced: event published, final status not recorded yet.
RunnerStates == {"idle", "claimed", "running", "ended", "announced"}

RunTypeOK ==
    /\ Ledger!LedgerTypeOK
    /\ announced \in [Jobs -> SUBSET Terminal]
    /\ runnable \in [Runners -> SUBSET Jobs]
    /\ pc \in [Runners -> RunnerStates]
    /\ cur \in [Runners -> Jobs \cup {NoJob}]
    /\ verdict \in [Runners -> Terminal]
    /\ reported \in [Runners -> SUBSET Jobs]
    /\ faults \in 0..MaxFaults

RunInit ==
    /\ Ledger!LedgerInit
    /\ announced = [j \in Jobs |-> {}]
    /\ runnable = [r \in Runners |-> {}]
    /\ pc = [r \in Runners |-> "idle"]
    /\ cur = [r \in Runners |-> NoJob]
    /\ verdict = [r \in Runners |-> "failed"]
    /\ reported = [r \in Runners |-> {}]
    /\ faults = 0
-----------------------------------------------------------------------------
(* The metadata store                                                      *)

\* A metadata call goes wrong: the database is locked, the connection drops,
\* the context expires.
Fault ==
    /\ faults < MaxFaults
    /\ faults' = faults + 1

\* One unconditional UPDATE by id: no guard on the previous status.
UpdateJobStatus(j, s) == ledger' = [ledger EXCEPT ![j] = s]

\* UpdateJobStatus returns an error.  The statement may have been committed
\* before the error was raised (cancellation while the reply is awaited,
\* RowsAffected failing), so the caller cannot tell.
UpdateJobStatusError(j, s) ==
    \/ UNCHANGED ledger
    \/ UpdateJobStatus(j, s)

\* CreateJob inserts the row as queued.
CreateJob(j) ==
    /\ ledger[j] = "absent"
    /\ UpdateJobStatus(j, "queued")

CreateJobError(j) ==
    /\ ledger[j] = "absent"
    /\ UpdateJobStatusError(j, "queued")

Report(r, S) == reported' = [reported EXCEPT ![r] = @ \cup S]
-----------------------------------------------------------------------------
(* RunJob                                                                  *)

Goto(r, state) == pc' = [pc EXCEPT ![r] = state]

\* RunJob returns: r holds no job any more.
Leave(r) ==
    /\ Goto(r, "idle")
    /\ cur' = [cur EXCEPT ![r] = NoJob]

\* r calls RunJob with j (the caller took it from the queue or created it).
EnterRunJob(r, j) ==
    /\ pc[r] = "idle"
    /\ Goto(r, "claimed")
    /\ cur' = [cur EXCEPT ![r] = j]

\* Mutant of RefuseJob: the consumer retries the job instead of giving it up.
RefuseJobRetries(r) ==
    /\ pc[r] = "claimed"
    /\ cur[r] \notin runnable[r]
    /\ Report(r, {cur[r]})
    /\ UNCHANGED <<ledger, announced, work, runnable, pc, cur, verdict, faults>>

\* Host not in the inventory, no factory for the plugin, or no provider for
\* the repository: an error before the row is touched, which stays queued.
RefuseJob(r) ==
    /\ pc[r] = "claimed"
    /\ cur[r] \notin runnable[r]
    /\ Report(r, {cur[r]})
    /\ Leave(r)
    /\ UNCHANGED <<ledger, announced, work, runnable, verdict, faults>>

\* UpdateJobStatus(ctx, in_progress) succeeds and the pipeline begins.
StartJob(r, cancelled) ==
    /\ pc[r] = "claimed"
    /\ cur[r] \in runnable[r]
    /\ ~cancelled
    /\ UpdateJobStatus(cur[r], "in_progress")
    /\ work' = [work EXCEPT ![cur[r]] = "running"]
    /\ Goto(r, "running")
    /\ UNCHANGED <<announced, runnable, cur, verdict, reported, faults>>

\* Mutant of StartJobFails: the error is logged and the pipeline run anyway.
StartJobFailsIgnored(r, cancelled) ==
    /\ pc[r] = "claimed"
    /\ cur[r] \in runnable[r]
    /\ IF cancelled THEN UNCHANGED faults ELSE Fault
    /\ UpdateJobStatusError(cur[r], "in_progress")
    /\ Report(r, {cur[r]})
    /\ work' = [work EXCEPT ![cur[r]] = "running"]
    /\ Goto(r, "running")
    /\ UNCHANGED <<announced, cur, runnable, verdict>>

\* It returns an error instead, always once ctx is cancelled: RunJob gives
\* up before running anything.
StartJobFails(r, cancelled) ==
    /\ pc[r] = "claimed"
    /\ cur[r] \in runnable[r]
    /\ IF cancelled THEN UNCHANGED faults ELSE Fault
    /\ UpdateJobStatusError(cur[r], "in_progress")
    /\ Report(r, {cur[r]})
    /\ Leave(r)
    /\ UNCHANGED <<announced, work, runnable, verdict>>

\* runPipeline returns; finalStatus follows from pipelineErr.
EndPipeline(r) ==
    /\ pc[r] = "running"
    /\ \E v \in Terminal :
         /\ verdict' = [verdict EXCEPT ![r] = v]
         /\ work' = [work EXCEPT ![cur[r]] =
                        IF v = "completed" THEN "succeeded" ELSE "broke"]
    /\ Goto(r, "ended")
    /\ UNCHANGED <<ledger, announced, runnable, cur, reported, faults>>

\* BackupCompleted or BackupFailed is published under the fresh recordCtx.
\* RecordEvent may fail; the publisher only logs that.
PublishVerdict(r) ==
    /\ pc[r] = "ended"
    /\ \/ announced' = [announced EXCEPT ![cur[r]] = @ \cup {verdict[r]}]
       \/ UNCHANGED announced
    /\ Goto(r, "announced")
    /\ UNCHANGED <<ledger, work, runnable, cur, verdict, reported, faults>>

\* Mutant of RecordVerdict: the failure branch is lost, every job is recorded
\* as completed.
RecordVerdictCompleted(r) ==
    /\ pc[r] = "announced"
    /\ UpdateJobStatus(cur[r], "completed")
    /\ Leave(r)
    /\ UNCHANGED <<announced, work, runnable, verdict, reported, faults>>

\* UpdateJobStatus(recordCtx, finalStatus) succeeds.
RecordVerdict(r) ==
    /\ pc[r] = "announced"
    /\ UpdateJobStatus(cur[r], verdict[r])
    /\ Leave(r)
    /\ UNCHANGED <<announced, work, runnable, verdict, reported, faults>>

\* It fails: RunJob returns, the row may still say in_progress.
RecordVerdictFails(r) ==
    /\ pc[r] = "announced"
    /\ Fault
    /\ UpdateJobStatusError(cur[r], verdict[r])
    /\ Report(r, {cur[r]})
    /\ Leave(r)
    /\ UNCHANGED <<announced, work, runnable, verdict>>

\* Everything RunJob can do next on runner r.
RunJobStep(r, cancelled) ==
    \/ RefuseJob(r)
    \/ StartJob(r, cancelled)
    \/ StartJobFails(r, cancelled)
    \/ EndPipeline(r)
    \/ PublishVerdict(r)
    \/ RecordVerdict(r)
    \/ RecordVerdictFails(r)

\* The process of r dies: what it was running is lost, rows stay as they are.
LoseRunner(r) ==
    /\ work' = IF pc[r] = "running"
               THEN [work EXCEPT ![cur[r]] = "lost"] ELSE work
    /\ Leave(r)
    /\ reported' = [reported EXCEPT ![r] = {}]
=============================================================================
