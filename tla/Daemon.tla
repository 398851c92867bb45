-------------------------------- MODULE Daemon --------------------------------
(***************************************************************************)
(* The `bop controller` process: start-up recovery, the in-memory queue,   *)
(* the producers that feed it (cron ticks and POST /v1/backups), the one   *)
(* consumer goroutine that runs jobs, shutdown, and crash and restart.     *)
(* The jobs table survives; everything else is lost with the process.      *)
(***************************************************************************)
EXTENDS RunJob, Sequences, FiniteSets

CONSTANTS
    D,         \* the runner that is the daemon's consumer goroutine
    Capacity   \* queueCapacity of the memory queue

ASSUME DIsARunner == D \in Runners
ASSUME CapacityIsPositive == Capacity \in Nat \ {0}

VARIABLES
    phase,    \* how far the process has got
    queue,    \* queue.Memory: the buffered channel of jobs
    handing   \* handing[p]: jobs p has persisted but not enqueued yet

daemonVars == <<phase, queue, handing>>
vars == <<runVars, daemonVars>>

Producers == {"scheduler", "api"}

\* down: stopped with exit status 0; crashed: killed or exited with an error;
\* booted: buildApp returned; recovered: FailOrphanedJobs done; reconciled:
\* queued rows are back in the queue; serving: metrics and API servers listen;
\* running: scheduler and consumer started; stopping: runCtx cancelled;
\* drained: the consumer goroutine has returned; closing: scheduler stopped.
Phases == {"down", "crashed", "booted", "recovered", "reconciled", "serving",
           "running", "stopping", "drained", "closing"}
Gone == {"down", "crashed"}

\* runCtx is cancelled.
Cancelled == phase \in {"stopping", "drained", "closing"}

\* The phases in which each producer may create jobs: the API server starts
\* before the scheduler and is shut down after it, and both outlive the
\* consumer, which is stopped first.
LivePhases == [scheduler |-> {"running", "stopping", "drained"},
               api |-> {"serving", "running", "stopping", "drained", "closing"}]

Queued == {j \in Jobs : ledger[j] = "queued"}
InQueue == {queue[i] : i \in 1..Len(queue)}
InHand == UNION {handing[p] : p \in Producers}

Init ==
    /\ RunInit
    /\ phase = "down"
    /\ queue = <<>>
    /\ handing = [p \in Producers |-> {}]
-----------------------------------------------------------------------------
(* Start-up                                                                *)

\* buildApp: configuration and inventory are read anew, so the set of jobs
\* this process can run may differ from the previous process's.
Boot ==
    /\ phase \in Gone
    /\ phase' = "booted"
    /\ \E S \in SUBSET Jobs : runnable' = [runnable EXCEPT ![D] = S]
    /\ UNCHANGED <<ledger, announced, work, pc, cur, verdict, reported, faults,
                   queue, handing>>

\* Mutant of FailOrphanedJobs: the sweep is forgotten.
FailOrphanedJobsSkipped ==
    /\ phase = "booted"
    /\ phase' = "recovered"
    /\ UNCHANGED <<runVars, queue, handing>>

\* One UPDATE: every in_progress row becomes failed.  (When the call returns
\* an error although it was committed, RunE returns: this step and Crash.)
FailOrphanedJobs ==
    /\ phase = "booted"
    /\ ledger' = [j \in Jobs |-> IF ledger[j] = "in_progress" THEN "failed"
                                                              ELSE ledger[j]]
    /\ phase' = "recovered"
    /\ UNCHANGED <<announced, work, runnable, pc, cur, verdict, reported, faults,
                   queue, handing>>

\* The queue after enqueueing the queued rows in queued_at order until it is
\* full.
Reconciled(q) ==
    /\ \A a, b \in 1..Len(q) : a < b => q[a] < q[b]
    /\ \A j \in Queued : \/ \E i \in 1..Len(q) : q[i] = j
                         \/ Len(q) = Capacity /\ \A i \in 1..Len(q) : q[i] < j

\* ListJobsByStatus(queued), then one Enqueue per row; a row the full queue
\* refuses stays queued and is logged.  Nothing else uses the queue yet.
reconcileQueuedJobs ==
    /\ phase = "recovered"
    /\ \E n \in 0..Capacity : \E q \in [1..n -> Queued] :
         /\ Reconciled(q)
         /\ queue' = q
         /\ Report(D, Queued \ {q[i] : i \in 1..n})
    /\ phase' = "reconciled"
    /\ UNCHANGED <<ledger, announced, work, runnable, pc, cur, verdict, faults,
                   handing>>

\* The metrics port is bound and, if enabled, the API server started.
StartServers ==
    /\ phase = "reconciled"
    /\ phase' = "serving"
    /\ UNCHANGED <<runVars, queue, handing>>

\* sched.Start, then the consumer goroutine.
StartConsumer ==
    /\ phase = "serving"
    /\ phase' = "running"
    /\ UNCHANGED <<runVars, queue, handing>>
-----------------------------------------------------------------------------
(* Producers                                                               *)

\* A producer persists job j: dispatch for any plugin key of the inventory,
\* registered or not; triggerBackup only once BuildPlugin has accepted the
\* host and the plugin.
Persist(p, j) ==
    /\ phase \in LivePhases[p]
    /\ p = "api" => j \in runnable[D]
    /\ CreateJob(j)
    /\ handing' = [handing EXCEPT ![p] = @ \cup {j}]
    /\ UNCHANGED <<announced, work, runnable, pc, cur, verdict, reported, faults,
                   phase, queue>>

\* CreateJob fails: the producer goes on without enqueueing (the scheduler
\* logs it, the API answers 500).
PersistFails(p, j) ==
    /\ phase \in LivePhases[p]
    /\ p = "api" => j \in runnable[D]
    /\ Fault
    /\ CreateJobError(j)
    /\ Report(D, {j})
    /\ UNCHANGED <<announced, work, runnable, pc, cur, verdict, phase, queue, handing>>

\* Mutant of Enqueue: a full queue is not reported.
EnqueueSilently(p, j) ==
    /\ j \in handing[p]
    /\ queue' = IF Len(queue) < Capacity THEN Append(queue, j) ELSE queue
    /\ handing' = [handing EXCEPT ![p] = @ \ {j}]
    /\ UNCHANGED <<runVars, phase>>

\* Mutant of Enqueue: the channel is replaced by an unbounded list.
EnqueueUnbounded(p, j) ==
    /\ j \in handing[p]
    /\ queue' = Append(queue, j)
    /\ handing' = [handing EXCEPT ![p] = @ \ {j}]
    /\ UNCHANGED <<runVars, phase>>

\* Mutant of Enqueue: the producer retries until the channel has room.
EnqueueRetrying(p, j) ==
    /\ j \in handing[p]
    /\ \/ /\ Len(queue) < Capacity
          /\ queue' = Append(queue, j)
          /\ handing' = [handing EXCEPT ![p] = @ \ {j}]
          /\ UNCHANGED reported
       \/ /\ Len(queue) >= Capacity
          /\ Report(D, {j})
          /\ UNCHANGED <<queue, handing>>
    /\ UNCHANGED <<ledger, announced, work, runnable, pc, cur, verdict, faults, phase>>

\* Enqueue: a non-blocking send; ErrQueueFull leaves the row queued.
Enqueue(p, j) ==
    /\ j \in handing[p]
    /\ \/ /\ Len(queue) < Capacity
          /\ queue' = Append(queue, j)
          /\ UNCHANGED reported
       \/ /\ Len(queue) >= Capacity
          /\ Report(D, {j})
          /\ UNCHANGED queue
    /\ handing' = [handing EXCEPT ![p] = @ \ {j}]
    /\ UNCHANGED <<ledger, announced, work, runnable, pc, cur, verdict, faults, phase>>
-----------------------------------------------------------------------------
(* Consumer                                                                *)

\* Mutant of Dequeue: the job is read without being taken off the channel.
DequeuePeek ==
    /\ phase \in {"running", "stopping"}
    /\ queue # <<>>
    /\ EnterRunJob(D, Head(queue))
    /\ UNCHANGED <<ledger, announced, work, runnable, verdict, reported, faults,
                   phase, queue, handing>>

\* Dequeue hands a job to RunJob.  The select chooses at random when ctx is
\* done as well, so a job can still be taken after the cancellation.
Dequeue ==
    /\ phase \in {"running", "stopping"}
    /\ queue # <<>>
    /\ EnterRunJob(D, Head(queue))
    /\ queue' = Tail(queue)
    /\ UNCHANGED <<ledger, announced, work, runnable, verdict, reported, faults,
                   phase, handing>>

RunNext ==
    /\ RunJobStep(D, Cancelled)
    /\ UNCHANGED daemonVars
-----------------------------------------------------------------------------
(* Shutdown and crash                                                      *)

\* SIGTERM, or the metrics or API server has died: cancelRun.
Shutdown ==
    /\ phase = "running"
    /\ phase' = "stopping"
    /\ UNCHANGED <<runVars, queue, handing>>

\* Dequeue sees ctx.Done: the consumer returns and wg.Wait with it.
ConsumerReturns ==
    /\ phase = "stopping"
    /\ pc[D] = "idle"
    /\ phase' = "drained"
    /\ UNCHANGED <<runVars, queue, handing>>

\* The deferred sched.Stop waits for dispatches under way.
StopScheduler ==
    /\ phase = "drained"
    /\ handing["scheduler"] = {}
    /\ phase' = "closing"
    /\ UNCHANGED <<runVars, queue, handing>>

ProcessGone ==
    /\ LoseRunner(D)
    /\ queue' = <<>>
    /\ handing' = [p \in Producers |-> {}]
    /\ UNCHANGED <<ledger, announced, runnable, verdict>>

\* apiServer.Shutdown gives handlers five seconds, then RunE returns nil.
Exit ==
    /\ phase = "closing"
    /\ phase' = "down"
    /\ ProcessGone
    /\ UNCHANGED faults

\* The process is killed or panics, or RunE returns an error while starting.
Crash ==
    /\ phase \notin Gone
    /\ Fault
    /\ phase' = "crashed"
    /\ ProcessGone
-----------------------------------------------------------------------------
Next ==
    \/ Boot \/ FailOrphanedJobs \/ reconcileQueuedJobs
    \/ StartServers \/ StartConsumer
    \/ \E p \in Producers, j \in Jobs :
         Persist(p, j) \/ PersistFails(p, j) \/ Enqueue(p, j)
    \/ Dequeue \/ RunNext
    \/ Shutdown \/ ConsumerReturns \/ StopScheduler \/ Exit
    \/ Crash

Spec == Init /\ [][Next]_vars

\* systemd starts the unit again after a crash (Restart=on-failure), not after
\* an exit with status 0.
SystemdRestart == phase = "crashed" /\ Boot

\* Goroutines are scheduled, a pipeline ends (job_timeout), a status write
\* returns, and a crashed process is restarted.  Nobody has to ask for
\* backups, send a signal, or start a stopped process.
Fairness ==
    /\ WF_vars(SystemdRestart)
    /\ WF_vars(FailOrphanedJobs)
    /\ WF_vars(reconcileQueuedJobs)
    /\ WF_vars(StartServers)
    /\ WF_vars(StartConsumer)
    /\ \A p \in Producers, j \in Jobs : WF_vars(Enqueue(p, j))
    /\ WF_vars(Dequeue)
    /\ WF_vars(RunNext)
    /\ WF_vars(ConsumerReturns)
    /\ WF_vars(StopScheduler)
    /\ WF_vars(Exit)

FairSpec == Spec /\ Fairness
-----------------------------------------------------------------------------
(* Properties                                                              *)

\* Every variable has its type; the queue never exceeds its capacity
\* (queue.NewMemory, core.JobStatus).
TypeOK ==
    /\ RunTypeOK
    /\ phase \in Phases
    /\ queue \in Seq(Jobs)
    /\ Len(queue) <= Capacity
    /\ handing \in [Producers -> SUBSET Jobs]

\* The job r has taken but not marked in_progress, or is working on.
Claimed(r) == IF pc[r] = "claimed" THEN {cur[r]} ELSE {}
Working(r) == IF pc[r] \in {"running", "ended", "announced"} THEN {cur[r]} ELSE {}

\* No job is in two places: the channel holds no id twice, and no job is at
\* once in the channel, in a producer's hand and in the consumer's, however
\* start-up reconciliation, dispatches and handlers interleave
\* (reconcileQueuedJobs, dispatch, triggerBackupHandler).
OnePlace ==
    /\ \A a, b \in 1..Len(queue) : queue[a] = queue[b] => a = b
    /\ InQueue \cap InHand = {}
    /\ handing["scheduler"] \cap handing["api"] = {}
    /\ (InQueue \cup InHand) \cap (Claimed(D) \cup Working(D)) = {}

\* The durability contract of queue.Queue: once start-up reconciliation is
\* over, a row that says queued is held in memory, or an error about it has
\* been logged or returned; no backup is missed silently.
NoSilentLoss ==
    phase \notin Gone \cup {"booted", "recovered"} =>
        Queued \subseteq InQueue \cup InHand \cup Claimed(D) \cup reported[D]

\* After the start-up sweep, a row that says in_progress is the consumer's job
\* or one whose status write returned an error; a job left over from a
\* crashed process is never mistaken for a running one (FailOrphanedJobs).
NoSilentOrphan ==
    phase \notin Gone \cup {"booted"} =>
        {j \in Jobs : ledger[j] = "in_progress"} \subseteq Working(D) \cup reported[D]

\* A row says completed only if the pipeline of that very job returned without
\* an error, and no BackupFailed event contradicts it (RunJob's finalStatus).
TruthfulCompletion ==
    \A j \in Jobs : ledger[j] = "completed" =>
        work[j] = "succeeded" /\ "failed" \notin announced[j]

\* A pipeline is never started for a job that has had one, across crashes,
\* restarts and reconciliation (UpdateJobStatus has no guard of its own).
RunsAtMostOnce ==
    [][\A j \in Jobs : work'[j] = "running" => work[j] \in {"none", "running"}]_vars

\* completed and failed are final: no later step of this process or of its
\* successors rewrites them (UpdateJobStatus, FailOrphanedJobs).
TerminalIsFinal ==
    [][\A j \in Jobs : ledger[j] \in Terminal => ledger'[j] = ledger[j]]_vars

\* The jobs table behaves as JobLedger promises.
ImplementsLedger == Ledger!LedgerSpec

\* A shutdown completes: the consumer, however busy, lets wg.Wait return, and
\* the deferred stops follow.
ShutdownCompletes == phase = "stopping" ~> phase \in Gone

\* A job that reached the queue is settled, unless the process stops first or
\* an error about the job is reported.
QueuedJobSettles ==
    \A j \in Jobs : (phase = "running" /\ j \in InQueue) ~>
        (ledger[j] \in Terminal \/ phase # "running" \/ j \in reported[D])

\* What a crash leaves in_progress is failed by the restarted process.
OrphansSettle ==
    \A j \in Jobs : (phase = "crashed" /\ ledger[j] = "in_progress") ~>
        ledger[j] = "failed"

\* RunJob's comment: once marked in_progress, a job whose pipeline has returned
\* is "never left in_progress on a live error path" (RunJob's final
\* UpdateJobStatus).
NeverLeftInProgress ==
    phase = "running" /\ pc[D] = "idle" =>
        \A j \in Jobs : work[j] \in {"succeeded", "broke"} =>
            ledger[j] # "in_progress"
=============================================================================
