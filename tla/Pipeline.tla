------------------------------- MODULE Pipeline -------------------------------
(***************************************************************************)
(* controller.runPipeline and backupResource: what RunJob does between     *)
(* "in_progress" and the final status, with the plugin, the restic         *)
(* repository, the snapshots table and the temp directory it works on.     *)
(*                                                                         *)
(* Any call may fail.  Once the pipeline's context is done (job_timeout,   *)
(* shutdown) every call that takes it fails; the local ones (plugin.Verify,*)
(* checksumFile, cleanup) do not look at it.  Events, which cannot fail a  *)
(* job, and the content of artifacts are left out.                         *)
(***************************************************************************)
EXTENDS Integers, FiniteSets

CONSTANTS
    Jobs,                 \* jobs whose pipelines run
    Hosts,                \* inventory servers, all storing in one repository
    Resources,            \* what plugins discover: a plugin and resource tag pair
    NoResource,           \* "no resource at hand"
    GlobalVerification,   \* config.yaml verification.enabled
    Parallel              \* may two pipelines overlap?

ASSUME NoResourceIsNone == NoResource \notin Resources
ASSUME FlagsAreBoolean == GlobalVerification \in BOOLEAN /\ Parallel \in BOOLEAN

VARIABLES
    host,       \* host[j]: the server job j backs up (never changes)
    override,   \* override[h]: inventory verification.enabled, or "unset"
    pc,         \* pc[j]: where j's pipeline stands
    found,      \* found[j]: the resources Discover returned
    todo,       \* todo[j]: those not attempted yet
    res,        \* res[j]: the one backupResource is working on
    errs,       \* errs[j]: resources with an error, and "retention"
    expired,    \* expired[j]: the pipeline's context is done
    temp,       \* temp directory: <<j, r>> while r's artifact file exists
    repo,       \* restic repository: the snapshots <<j, r>> it holds
    born,       \* born[s]: when snapshot s was stored, 0 if it never was
    clock,      \* time of the last Store
    rows,       \* metadata: the snapshots table
    confirmed,  \* history: snapshots StorageProvider.Verify has accepted
    tested      \* history: snapshots whose restore test has succeeded

config == <<host, override>>
loop == <<found, todo, res, errs>>
store == <<repo, born, clock>>
history == <<confirmed, tested>>
vars == <<config, pc, loop, expired, temp, store, rows, history>>

Snapshots == Jobs \X Resources
Ended == {"succeeded", "broke", "crashed"}
Stages == {"dumping", "checking", "storing", "confirming", "recording", "restoring"}
States == {"waiting", "resolving", "looping"} \cup Stages \cup Ended

Running(j) == pc[j] \notin Ended \cup {"waiting"}
Current(j) == <<j, res[j]>>

\* Restic groups snapshots by host and tags (--group-by host,tags).
Bucket(s) == <<host[s[1]], s[2]>>

\* resolveVerification: a host's block replaces the global one as a whole.
Verification(h) == IF override[h] = "unset" THEN GlobalVerification
                                            ELSE override[h] = "on"

Init ==
    /\ host \in [Jobs -> Hosts]
    /\ override \in [Hosts -> {"unset", "on", "off"}]
    /\ pc = [j \in Jobs |-> "waiting"]
    /\ found = [j \in Jobs |-> {}]
    /\ todo = [j \in Jobs |-> {}]
    /\ res = [j \in Jobs |-> NoResource]
    /\ errs = [j \in Jobs |-> {}]
    /\ expired = [j \in Jobs |-> FALSE]
    /\ temp = {}
    /\ repo = {}
    /\ born = [s \in Snapshots |-> 0]
    /\ clock = 0
    /\ rows = {}
    /\ confirmed = {}
    /\ tested = {}
-----------------------------------------------------------------------------
(* runPipeline, before the loop                                            *)

Goto(j, state) == pc' = [pc EXCEPT ![j] = state]

\* Mutant of Begin: a worker pool honours controller.concurrency.
BeginConcurrently(j) ==
    /\ pc[j] = "waiting"
    /\ Goto(j, "resolving")
    /\ UNCHANGED <<config, loop, expired, temp, store, rows, history>>

\* RunJob calls runPipeline.  The consumer goroutine runs one job at a time;
\* Parallel stands for `bop backup` processes next to it.
Begin(j) ==
    /\ pc[j] = "waiting"
    /\ Parallel \/ \A k \in Jobs : ~Running(k)
    /\ Goto(j, "resolving")
    /\ UNCHANGED <<config, loop, expired, temp, store, rows, history>>

\* No plugin config, the factory refuses it, or Discover fails: the job fails
\* with nothing attempted, retention included.
NothingDiscovered(j) ==
    /\ pc[j] = "resolving"
    /\ Goto(j, "broke")
    /\ UNCHANGED <<config, loop, expired, temp, store, rows, history>>

\* Discover returns; the logs plugin may find nothing to back up.
Discover(j) ==
    /\ pc[j] = "resolving"
    /\ \E S \in SUBSET Resources :
         /\ found' = [found EXCEPT ![j] = S]
         /\ todo' = [todo EXCEPT ![j] = S]
    /\ Goto(j, "looping")
    /\ UNCHANGED <<config, res, errs, expired, temp, store, rows, history>>

\* job_timeout elapses, or the daemon is told to stop.
Expire(j) ==
    /\ Running(j)
    /\ ~expired[j]
    /\ expired' = [expired EXCEPT ![j] = TRUE]
    /\ UNCHANGED <<config, pc, loop, temp, store, rows, history>>
-----------------------------------------------------------------------------
(* backupResource                                                          *)

\* plugin.Backup creates the temp file and starts dumping into it.
StartBackup(j, r) ==
    /\ pc[j] = "looping"
    /\ r \in todo[j]
    /\ todo' = [todo EXCEPT ![j] = @ \ {r}]
    /\ res' = [res EXCEPT ![j] = r]
    /\ temp' = temp \cup {<<j, r>>}
    /\ Goto(j, "dumping")
    /\ UNCHANGED <<config, found, errs, expired, store, rows, history>>

Dumped(j) ==
    /\ pc[j] = "dumping"
    /\ ~expired[j]
    /\ Goto(j, "checking")
    /\ UNCHANGED <<config, loop, expired, temp, store, rows, history>>

\* Mutant of Checked: the upload is skipped.
CheckedNotStored(j) ==
    /\ pc[j] = "checking"
    /\ Goto(j, "recording")
    /\ UNCHANGED <<config, loop, expired, temp, store, rows, history>>

\* plugin.Verify and checksumFile accept the artifact.
Checked(j) ==
    /\ pc[j] = "checking"
    /\ Goto(j, "storing")
    /\ UNCHANGED <<config, loop, expired, temp, store, rows, history>>

\* The snapshot enters the repository.
Commit(s) ==
    /\ repo' = repo \cup {s}
    /\ born' = [born EXCEPT ![s] = clock + 1]
    /\ clock' = clock + 1

\* Mutant of Stored: the row is written before the storage-level check, as
\* docs/02-architecture.md lists the steps.
StoredAndRecorded(j) ==
    /\ pc[j] = "storing"
    /\ ~expired[j]
    /\ Commit(Current(j))
    /\ rows' = rows \cup {Current(j)}
    /\ Goto(j, "confirming")
    /\ UNCHANGED <<config, loop, expired, temp, history>>

Stored(j) ==
    /\ pc[j] = "storing"
    /\ ~expired[j]
    /\ Commit(Current(j))
    /\ Goto(j, "confirming")
    /\ UNCHANGED <<config, loop, expired, temp, rows, history>>

\* StorageProvider.Verify: the repository lists the snapshot.
Confirmed(j) ==
    /\ pc[j] = "confirming"
    /\ ~expired[j]
    /\ Current(j) \in repo
    /\ confirmed' = confirmed \cup {Current(j)}
    /\ Goto(j, "recording")
    /\ UNCHANGED <<config, loop, expired, temp, store, rows, tested>>

\* backupResource returns, the deferred cleanup removing the artifact, and
\* runPipeline collects the error.  (A failing os.Remove is only logged.)
Settle(j, failed) ==
    /\ temp' = temp \ {Current(j)}
    /\ errs' = [errs EXCEPT ![j] = @ \cup failed]
    /\ res' = [res EXCEPT ![j] = NoResource]
    /\ Goto(j, "looping")
    /\ UNCHANGED <<found, todo, expired, config>>

\* RecordSnapshot; done unless a restore test is wanted.
Recorded(j) ==
    /\ pc[j] = "recording"
    /\ ~expired[j]
    /\ rows' = rows \cup {Current(j)}
    /\ IF Verification(host[j])
       THEN Goto(j, "restoring") /\ UNCHANGED <<config, loop, expired, temp>>
       ELSE Settle(j, {})
    /\ UNCHANGED <<store, history>>

\* plugin.Restore into the scratch target succeeds.
RestoreTested(j) ==
    /\ pc[j] = "restoring"
    /\ ~expired[j]
    /\ tested' = tested \cup {Current(j)}
    /\ Settle(j, {})
    /\ UNCHANGED <<store, rows, confirmed>>

\* Mutant of StageFails: an early return placed before the deferred cleanup.
StageFailsUncleaned(j) ==
    /\ pc[j] \in {"dumping", "checking", "confirming", "restoring"}
    /\ errs' = [errs EXCEPT ![j] = @ \cup {res[j]}]
    /\ res' = [res EXCEPT ![j] = NoResource]
    /\ Goto(j, "looping")
    /\ UNCHANGED <<config, found, todo, expired, temp, store, rows, history>>

\* Mutant of StageFails: the error of the restore test is only logged.
StageFailsTolerated(j) ==
    /\ pc[j] \in {"dumping", "checking", "confirming", "restoring"}
    /\ Settle(j, IF pc[j] = "restoring" THEN {} ELSE {res[j]})
    /\ UNCHANGED <<store, rows, history>>

\* Mutant of StageFails: the first broken resource ends the job's loop.
StageFailsStopsLoop(j) ==
    /\ pc[j] \in {"dumping", "checking", "confirming", "restoring"}
    /\ temp' = temp \ {Current(j)}
    /\ errs' = [errs EXCEPT ![j] = @ \cup {res[j]}]
    /\ res' = [res EXCEPT ![j] = NoResource]
    /\ todo' = [todo EXCEPT ![j] = {}]
    /\ Goto(j, "looping")
    /\ UNCHANGED <<config, found, expired, store, rows, history>>

\* Mutant of StageFails: a failed resource is put back and tried again.
StageFailsRetries(j) ==
    /\ pc[j] \in {"dumping", "checking", "confirming", "restoring"}
    /\ temp' = temp \ {Current(j)}
    /\ res' = [res EXCEPT ![j] = NoResource]
    /\ todo' = [todo EXCEPT ![j] = @ \cup {res[j]}]
    /\ Goto(j, "looping")
    /\ UNCHANGED <<config, found, errs, expired, store, rows, history>>

\* Backup (which removes its own file), the structural check, the checksum,
\* the storage check or the restore test fails.
StageFails(j) ==
    /\ pc[j] \in {"dumping", "checking", "confirming", "restoring"}
    /\ Settle(j, {res[j]})
    /\ UNCHANGED <<store, rows, history>>

\* Store fails: before the snapshot was written, or after (restic killed once
\* it is saved, its summary not understood), leaving it untracked.
StoreFails(j) ==
    /\ pc[j] = "storing"
    /\ Commit(Current(j)) \/ UNCHANGED store
    /\ Settle(j, {res[j]})
    /\ UNCHANGED <<rows, history>>

\* RecordSnapshot fails, its INSERT committed or not.
RecordFails(j) ==
    /\ pc[j] = "recording"
    /\ rows' = rows \cup {Current(j)} \/ UNCHANGED rows
    /\ Settle(j, {res[j]})
    /\ UNCHANGED <<store, history>>
-----------------------------------------------------------------------------
(* Retention, and the end of the pipeline                                  *)

\* No later snapshot of the same group is in the repository.
Newest(s) == \A t \in repo : Bucket(t) = Bucket(s) => born[t] <= born[s]

\* Mutant of Kept: --group-by host,tags is forgotten, so that only the newest
\* snapshot of the whole host is sure to survive.
KeptUngrouped(h, K) ==
    \A s \in repo :
        host[s[1]] # h \/ (\A t \in repo : host[t[1]] = h => born[t] <= born[s])
        => s \in K

\* Mutant of Kept: forget runs without --host, and groups by tags alone.
KeptUnscoped(h, K) ==
    \A s \in repo :
        (\A t \in repo : t[2] = s[2] => born[t] <= born[s]) => s \in K

\* What `restic forget --host h --group-by host,tags` may keep: everything of
\* other hosts, and the newest of each group, which every --keep-* keeps.
Kept(h, K) == \A s \in repo : host[s[1]] # h \/ Newest(s) => s \in K

Forget(h) ==
    /\ \E K \in SUBSET repo : Kept(h, K) /\ repo' = K
    /\ UNCHANGED <<born, clock>>

\* The job's verdict: runPipeline returns an error iff one was collected.
Return(j, errors) ==
    /\ errs' = [errs EXCEPT ![j] = errors]
    /\ Goto(j, IF errors = {} THEN "succeeded" ELSE "broke")

\* All resources attempted: ApplyRetention once, whatever their outcome.
Retain(j) ==
    /\ pc[j] = "looping" /\ todo[j] = {}
    /\ ~expired[j]
    /\ Forget(host[j])
    /\ Return(j, errs[j])
    /\ UNCHANGED <<config, found, todo, res, expired, temp, rows, history>>

\* It fails: no retention policy at all, the repository locked, the context
\* done, or the prune interrupted with snapshots already forgotten.
RetainFails(j) ==
    /\ pc[j] = "looping" /\ todo[j] = {}
    /\ Forget(host[j]) \/ UNCHANGED store
    /\ Return(j, errs[j] \cup {"retention"})
    /\ UNCHANGED <<config, found, todo, res, expired, temp, rows, history>>

\* The process dies; what it was doing stays as it is.
Crash(j) ==
    /\ Running(j)
    /\ Goto(j, "crashed")
    /\ UNCHANGED <<config, loop, expired, temp, store, rows, history>>

Step(j) ==
    \/ NothingDiscovered(j) \/ Discover(j)
    \/ \E r \in Resources : StartBackup(j, r)
    \/ Dumped(j) \/ Checked(j) \/ Stored(j) \/ Confirmed(j) \/ Recorded(j)
    \/ RestoreTested(j)
    \/ StageFails(j) \/ StoreFails(j) \/ RecordFails(j)
    \/ Retain(j) \/ RetainFails(j)

Next == \E j \in Jobs : Begin(j) \/ Step(j) \/ Expire(j) \/ Crash(j)

Spec == Init /\ [][Next]_vars

\* Every call returns: those that take the context because it expires, the
\* local ones because files are finite.
FairSpec == Spec /\ \A j \in Jobs : WF_vars(Step(j))
-----------------------------------------------------------------------------
(* Properties                                                              *)

\* Types of the pipeline's state; a snapshot somebody knows of has been stored
\* (core.Job, core.Snapshot, core.Artifact).
TypeOK ==
    /\ host \in [Jobs -> Hosts]
    /\ override \in [Hosts -> {"unset", "on", "off"}]
    /\ pc \in [Jobs -> States]
    /\ found \in [Jobs -> SUBSET Resources]
    /\ todo \in [Jobs -> SUBSET Resources]
    /\ res \in [Jobs -> Resources \cup {NoResource}]
    /\ errs \in [Jobs -> SUBSET (Resources \cup {"retention"})]
    /\ expired \in [Jobs -> BOOLEAN]
    /\ temp \subseteq Snapshots
    /\ repo \subseteq {s \in Snapshots : born[s] > 0}
    /\ clock \in Nat
    /\ born \in [Snapshots -> 0..clock]
    /\ rows \subseteq {s \in Snapshots : born[s] > 0}
    /\ confirmed \subseteq Snapshots
    /\ tested \subseteq Snapshots

\* "A snapshot that fails its integrity check must never appear in
\* ListSnapshots looking like a good one": a row exists only for a snapshot
\* that storage-level Verify has accepted (backupResource).
NeverRecordsUnverified == rows \subseteq confirmed

\* The temp disk does not fill up: an artifact file belongs to the resource
\* being worked on, or was left by a crashed process (cleanupArtifact).
NoTempLeak ==
    \A s \in temp : \/ pc[s[1]] = "crashed"
                    \/ pc[s[1]] \in Stages /\ res[s[1]] = s[2]

\* A completed job has backed up everything it discovered, restore tests
\* included where the host's verification settings ask for them
\* (runPipeline's errs, resolveVerification).
CompletedIsComplete ==
    \A j \in Jobs : pc[j] = "succeeded" =>
        \A r \in found[j] :
            /\ <<j, r>> \in rows
            /\ Verification(host[j]) => <<j, r>> \in tested

\* One resource's failure does not stop the others: when the pipeline returns
\* each discovered resource has a snapshot row or an error of its own
\* (runPipeline).
EveryResourceSettled ==
    \A j \in Jobs : pc[j] \in {"succeeded", "broke"} =>
        \A r \in found[j] : <<j, r>> \in rows \/ r \in errs[j]

\* Whatever was once recorded, the repository still holds a snapshot of the
\* same resource that is at least as recent: retention, however it fails or
\* overlaps, never takes a resource's last good backup (ApplyRetention).
StaysRestorable ==
    \A s \in rows : \E t \in repo : Bucket(t) = Bucket(s) /\ born[t] >= born[s]

\* A snapshot only disappears through the retention of a job of its own host,
\* under whose policy it was made (ApplyRetention's --host).
OtherHostsUntouched ==
    [][\A s \in repo \ repo' : \E j \in Jobs :
          /\ host[j] = host[s[1]]
          /\ pc[j] = "looping" /\ pc'[j] # "looping"]_vars

\* A row is written while its snapshot is still in the repository.  Holds as
\* long as pipelines do not overlap (runConsumer, backupResource).
RecordedWhileStored == [][rows' \ rows \subseteq repo']_vars

\* A pipeline that has begun ends, whatever fails on the way, and the job is
\* not run again (runPipeline, RunJob).
PipelineEnds == <>[](\A j \in Jobs : ~Running(j))
=============================================================================
