------------------------------ MODULE Deployment ------------------------------
(***************************************************************************)
(* One host as it is really operated: `bop controller` under systemd, and  *)
(* operators who type `bop backup` at the same time.  Each such command is *)
(* a process of its own that shares nothing with the daemon but the jobs   *)
(* table: it inserts its row as queued and calls RunJob inline, with a     *)
(* context that is never cancelled.                                        *)
(***************************************************************************)
EXTENDS Daemon

VARIABLE
    exposed   \* history: jobs a command had at hand while the daemon recovered

deploymentVars == <<vars, exposed>>

Commands == Runners \ {D}

\* The jobs a `bop backup` has created and not yet left alone.
CommandJobs == {cur[c] : c \in {r \in Commands : pc[r] # "idle"}}

DeploymentInit == Init /\ exposed = {}

\* Mutant of Backup: the command adopts a row that is queued already.
BackupAdoptsQueued(c, j) ==
    /\ ledger[j] \in {"absent", "queued"}
    /\ UpdateJobStatus(j, "queued")
    /\ EnterRunJob(c, j)
    /\ \E S \in {{}, {j}} : runnable' = [runnable EXCEPT ![c] = S]
    /\ UNCHANGED <<announced, work, verdict, reported, faults, daemonVars, exposed>>

\* newBackupCmd: the host is in the inventory, the row is inserted and RunJob
\* called at once.  The plugin may still be unknown, which RunJob finds out.
Backup(c, j) ==
    /\ CreateJob(j)
    /\ EnterRunJob(c, j)
    /\ \E S \in {{}, {j}} : runnable' = [runnable EXCEPT ![c] = S]
    /\ UNCHANGED <<announced, work, verdict, reported, faults, daemonVars, exposed>>

\* CreateJob returns an error: the command exits, maybe leaving a queued row.
BackupNotCreated(c, j) ==
    /\ pc[c] = "idle"
    /\ Fault
    /\ CreateJobError(j)
    /\ Report(c, {j})
    /\ UNCHANGED <<announced, work, runnable, pc, cur, verdict, daemonVars, exposed>>

RunInline(c) ==
    /\ RunJobStep(c, FALSE)
    /\ UNCHANGED <<daemonVars, exposed>>

\* The command is interrupted (main installs no signal handler) or killed.
Interrupt(c) ==
    /\ pc[c] # "idle"
    /\ Fault
    /\ LoseRunner(c)
    /\ UNCHANGED <<ledger, announced, runnable, verdict, daemonVars, exposed>>

\* The daemon knows nothing of commands.  Its start-up recovery reads and
\* rewrites their rows all the same.
DaemonStep ==
    /\ Next
    /\ exposed' = IF phase' # phase /\ phase' \in {"recovered", "reconciled"}
                  THEN exposed \cup CommandJobs ELSE exposed

DeploymentNext ==
    \/ DaemonStep
    \/ \E c \in Commands :
         \/ \E j \in Jobs : Backup(c, j) \/ BackupNotCreated(c, j)
         \/ RunInline(c)
         \/ Interrupt(c)

DeploymentSpec == DeploymentInit /\ [][DeploymentNext]_deploymentVars
-----------------------------------------------------------------------------
(* Properties                                                              *)

\* Type invariant of the daemon and the commands (core.JobStatus).
DeploymentTypeOK == TypeOK /\ exposed \subseteq Jobs

\* What the daemon alone guarantees survives the commands for every job that
\* no command had at hand during a start-up recovery: its row says completed
\* only if its pipeline returned without an error (RunJob's finalStatus).
UnexposedTruthful ==
    \A j \in Jobs \ exposed : ledger[j] = "completed" =>
        work[j] = "succeeded" /\ "failed" \notin announced[j]

\* For the same jobs, a pipeline is started at most once, whichever process
\* runs it (newBackupCmd, reconcileQueuedJobs).
UnexposedRunOnce ==
    [][\A j \in Jobs \ exposed' :
          work'[j] = "running" => work[j] \in {"none", "running"}]_deploymentVars

\* For the same jobs, completed and failed are final (UpdateJobStatus,
\* FailOrphanedJobs).
UnexposedFinal ==
    [][\A j \in Jobs \ exposed' :
          ledger[j] \in Terminal => ledger'[j] = ledger[j]]_deploymentVars

\* docs/02-architecture.md: the start-up sweep is for jobs "still in_progress
\* from a previous run"; a job somebody is running is not failed under it
\* (FailOrphanedJobs).
SweepSparesTheLiving ==
    [][\A r \in Runners : pc[r] = "running" /\ ledger[cur[r]] = "in_progress" =>
          ledger'[cur[r]] # "failed"]_deploymentVars
=============================================================================
