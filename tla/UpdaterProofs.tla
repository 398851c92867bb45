----------------------------- MODULE UpdaterProofs -----------------------------
(***************************************************************************)
(* The self-update, for any set of releases, any jobs, any number of       *)
(* faults and any number of directories kept.                              *)
(*                                                                         *)
(* The daemon keeps its own invariant under the script, because a unit     *)
(* that systemd stops dies as one that crashes does.  The script's safety  *)
(* rests on what it knows at each of its steps: what the symlink points to *)
(* and which directories are there (Disk), what the unit's process was     *)
(* started from (Unit), whether that release comes up (Comes), and which   *)
(* backups it has seen (Guards).                                           *)
(***************************************************************************)
EXTENDS Updater, DaemonProofs

\* Before the decision to update; and while the new release is in place.
Deciding == {"asking", "listing", "fetching"}
InPlace == {"swapped", "restarting", "settling", "deployed", "unhealthy"}
RollingBack == {"swappedBack", "restartingBack"}

\* The symlink, $tag and $previous, and the directories they name.
Disk ==
    /\ step # "idle" => tag \in Tags
    /\ current # NoTag => current \in releases
    /\ step \in Deciding => tag # current
    /\ step = "installed" => tag \in releases /\ previous = current
    /\ step \in InPlace => current = tag
    /\ step \in RollingBack => current = previous
    /\ step \in RollingBack \cup {"unhealthy"} => previous # NoTag
    /\ step \in AfterSwap /\ previous # NoTag => previous \in releases

\* Where the unit runs what the symlink says: from the restart on, and, unless
\* a script was killed in between, until the next swap.
InStep ==
    \/ step \in {"settling", "unhealthy", "deployed"}
    \/ step \in {"idle", "installed"} \cup Deciding /\ ~interrupted

\* The release of the unit's process; only a good one gets beyond being started.
Unit ==
    /\ phase \notin Gone \cup {"booted"} => release \in Good
    /\ Active /\ InStep => release = current

\* The release that is in place comes up if the one before it did.
Comes ==
    /\ step \in {"idle"} \cup Deciding /\ ~interrupted /\ previous \in Good
         => current \in Good
    /\ step = "deployed" => current \in Good

\* A guarded backup has begun, so it can only end.
Guards ==
    /\ \A j \in guarded : work[j] # "none"
    /\ step \notin {"idle", "asking"} => \A j \in guarded : work[j] # "running"

UpdaterInv == IInv /\ UpdaterTypeOK /\ Disk /\ Unit /\ Comes /\ Guards

USE DIsARunner, CapacityIsPositive, NoJobIsNotAJob, MaxFaultsIsNat,
    GoodAreTags, NoTagIsNotATag, KeepIsNat
-----------------------------------------------------------------------------
(* The daemon under the script                                             *)

\* The fault that kills the script is none of the daemon's (Killed).
LEMMA FaultElsewhere ==
    ASSUME IInv, faults' \in 0..MaxFaults,
           UNCHANGED <<ledger, announced, work, runnable, pc, cur, verdict,
                       reported, daemonVars>>
    PROVE  IInv'
  <1>1. TypeOK' /\ HoldsAJob'
    BY DEF IInv, TypeOK, RunTypeOK, Ledger!LedgerTypeOK, HoldsAJob, daemonVars
  <1>2. UNCHANGED <<InQueue, InHand, Claimed(D), Working(D), queue, handing, phase>>
    BY DEF InQueue, InHand, Claimed, Working, daemonVars
  <1>3. OnePlace' /\ WaitingIsQueued' /\ ConsumerAgrees' /\ HistoryAgrees' /\ PhaseAgrees'
    <2>1. OnePlace' /\ WaitingIsQueued'
      BY <1>2 DEF IInv, OnePlace, WaitingIsQueued
    <2>2. ConsumerAgrees' /\ HistoryAgrees' /\ PhaseAgrees'
      BY <1>2 DEF IInv, ConsumerAgrees, HistoryAgrees, PhaseAgrees
    <2> QED
      BY <2>1, <2>2
  <1> QED
    BY <1>1, <1>3 DEF IInv

\* systemctl stop, from the daemon's side: it shuts down, dies while it is
\* starting, or stops already (bop-update.sh's systemctl restart).
LEMMA StopIsTheDaemons ==
    ASSUME IInv, NEW from, NEW to, StopUnit(from, to)
    PROVE  IInv' /\ [Ledger!LedgerNext]_(Ledger!ledgerVars)
  <1>1. CASE Shutdown
    <2>1. Next
      BY <1>1 DEF Next
    <2> QED
      BY <2>1, NextIInv, NextRefines
  <1>2. CASE phase' = "down" /\ ProcessGone /\ UNCHANGED faults
    <2>1. phase' \in Gone /\ faults' \in 0..MaxFaults
      BY <1>2 DEF Gone, IInv, TypeOK, RunTypeOK
    <2> QED
      BY <1>2, <2>1, ProcessEnds
  <1>3. CASE UNCHANGED vars
    BY <1>3, NextIInv, NextRefines
  <1> QED
    BY <1>1, <1>2, <1>3 DEF StopUnit

\* Whatever the script, systemd and the daemon do, the daemon keeps its
\* invariant and the jobs table its promises (bop-update.sh, the unit).
LEMMA DaemonStep ==
    ASSUME IInv, [UpdaterNext]_updaterVars
    PROVE  IInv' /\ [Ledger!LedgerNext]_(Ledger!ledgerVars)
  <1>0. faults \in 0..MaxFaults
    BY DEF IInv, TypeOK, RunTypeOK
  <1>1. CASE DaemonGoesOn
    BY <1>1, NextIInv, NextRefines DEF DaemonGoesOn
  <1>2. CASE BadReleaseDies \/ StopTimeout
    <2>1. ProcessGone /\ phase' \in Gone /\ faults' = faults
      BY <1>2 DEF BadReleaseDies, StopTimeout, Gone
    <2> QED
      BY <1>0, <2>1, ProcessEnds
  <1>3. ASSUME NEW from, NEW to, StartUnit(from, to)
        PROVE  IInv' /\ [Ledger!LedgerNext]_(Ledger!ledgerVars)
    <2>1. Next
      BY <1>3 DEF StartUnit, Next
    <2> QED
      BY <2>1, NextIInv, NextRefines
  <1>4. CASE Killed
    <2>1. /\ faults' \in 0..MaxFaults
          /\ UNCHANGED <<ledger, announced, work, runnable, pc, cur, verdict,
                         reported, daemonVars>>
      BY <1>0, <1>4 DEF Killed, Fault
    <2> QED
      BY <2>1, FaultElsewhere DEF Ledger!ledgerVars
  <1>5. CASE UNCHANGED vars
    BY <1>5, NextIInv, NextRefines
  <1> QED
    BY <1>1, <1>2, <1>3, <1>4, <1>5, StopIsTheDaemons
       DEF UpdaterNext, updaterVars, Script, Rollback, Publish, Tick, Ask, Fetch,
           Swap, Healthy, Unhealthy, Prune

\* A pipeline that has begun has not begun afresh after any step, and one
\* that is over stays over (JobLedger).
LEMMA PipelinesOnlyEnd ==
    ASSUME IInv, [Ledger!LedgerNext]_(Ledger!ledgerVars),
           NEW j \in Jobs, work[j] # "none"
    PROVE  work'[j] # "none" /\ (work[j] # "running" => work'[j] # "running")
  <1> USE DEF IInv, TypeOK, RunTypeOK, Ledger!LedgerTypeOK
  <1>1. ASSUME NEW k \in Jobs, Ledger!Submit(k) \/ Ledger!Record(k)
        PROVE  work' = work
    BY <1>1 DEF Ledger!Submit, Ledger!Record
  <1>2. ASSUME NEW k \in Jobs, Ledger!Claim(k)
        PROVE  work'[j] = work[j]
    BY <1>2 DEF Ledger!Claim
  <1>3. ASSUME NEW k \in Jobs, Ledger!Return(k)
        PROVE  work'[j] # "none" /\ (work[j] # "running" => work'[j] # "running")
    BY <1>3 DEF Ledger!Return
  <1>4. ASSUME NEW S \in SUBSET Jobs, Ledger!Lose(S)
        PROVE  work'[j] # "none" /\ (work[j] # "running" => work'[j] # "running")
    BY <1>4 DEF Ledger!Lose
  <1>5. ASSUME NEW S \in SUBSET Jobs, Ledger!Abandon(S)
        PROVE  work' = work
    BY <1>5 DEF Ledger!Abandon
  <1> QED
    BY <1>1, <1>2, <1>3, <1>4, <1>5 DEF Ledger!LedgerNext, Ledger!ledgerVars
-----------------------------------------------------------------------------
(* The script, step by step                                                *)

\* Types, $tag being one of a release from the first question on.
LEMMA TypesStep ==
    ASSUME UpdaterInv, [UpdaterNext]_updaterVars
    PROVE  UpdaterTypeOK'
  <1>1. TypeOK'
    BY DaemonStep DEF UpdaterInv, IInv
  <1> USE DEF UpdaterInv, UpdaterTypeOK, Disk, disk, unit, script, seen, Advance,
              Steps
  <1>2. /\ latest' \in Tags /\ interrupted' \in BOOLEAN
        /\ guarded' \cup waiting' \subseteq Jobs
    BY DEF UpdaterNext, updaterVars, Script, Rollback, Publish, DaemonGoesOn,
           BadReleaseDies, StopTimeout, Killed, Tick, Ask, Fetch, Swap, StopUnit,
           StartUnit, Healthy, Unhealthy, Prune, Rows
  <1>3. step' \in Steps
    BY DEF UpdaterNext, updaterVars, Script, Rollback, Publish, DaemonGoesOn,
           BadReleaseDies, StopTimeout, Killed, Tick, Ask, Fetch, Swap, StopUnit,
           StartUnit, Healthy, Unhealthy, Prune
  <1>4. {current', release', tag', previous'} \subseteq Tags \cup {NoTag}
    BY DEF UpdaterNext, updaterVars, Script, Rollback, Publish, DaemonGoesOn,
           BadReleaseDies, StopTimeout, Killed, Tick, Ask, Fetch, Swap, StopUnit,
           StartUnit, Healthy, Unhealthy, Prune
  <1>5. releases' \subseteq Tags
    <2>1. CASE Fetch
      BY <2>1 DEF Fetch, Deciding
    <2>2. CASE Prune
      BY <2>2 DEF Prune, Spared
    <2>3. CASE releases' = releases
      BY <2>3
    <2> QED
      BY <2>1, <2>2, <2>3
         DEF UpdaterNext, updaterVars, Script, Rollback, Publish, DaemonGoesOn,
             BadReleaseDies, StopTimeout, Killed, Tick, Ask, Swap, StopUnit,
             StartUnit, Healthy, Unhealthy
  <1> QED
    BY <1>1, <1>2, <1>3, <1>4, <1>5

\* No step takes a directory that is in use, or will be for the rollback
\* (swap_to, the prune loop, the removal of an old attempt).
LEMMA DiskStep ==
    ASSUME UpdaterInv, [UpdaterNext]_updaterVars
    PROVE  Disk'
  <1> USE DEF UpdaterInv, Disk, Deciding, InPlace, RollingBack, AfterSwap,
              disk, script, Advance
  <1>1. CASE UNCHANGED <<disk, script>>
    BY <1>1
  <1>2. CASE Tick
    BY <1>2 DEF Tick, UpdaterTypeOK
  <1>3. CASE Ask("asking", "listing", "in_progress")
    BY <1>3 DEF Ask
  <1>4. CASE Ask("listing", "fetching", "queued")
    BY <1>4 DEF Ask
  <1>5. CASE Fetch
    BY <1>5 DEF Fetch
  <1>6. CASE Swap("installed", "swapped", tag)
    BY <1>6 DEF Swap
  <1>7. CASE Swap("unhealthy", "swappedBack", previous)
    BY <1>7 DEF Swap
  <1>8. CASE StopUnit("swapped", "restarting")
             \/ StopUnit("swappedBack", "restartingBack")
    BY <1>8 DEF StopUnit
  <1>9. CASE StartUnit("restarting", "settling")
             \/ StartUnit("restartingBack", "idle")
    BY <1>9 DEF StartUnit
  <1>10. CASE Healthy \/ Unhealthy \/ Killed
    BY <1>10 DEF Healthy, Unhealthy, Killed
  <1>11. CASE Prune
    BY <1>11 DEF Prune, Spared
  <1> QED
    BY <1>1, <1>2, <1>3, <1>4, <1>5, <1>6, <1>7, <1>8, <1>9, <1>10, <1>11
       DEF UpdaterNext, updaterVars, Script, Rollback, Publish, DaemonGoesOn,
           BadReleaseDies, StopTimeout

\* Outside its start a process stays in its phase or gets on by itself; one
\* that is gone is only ever started (Daemon's actions).
LEMMA GoneOnlyBoots ==
    ASSUME IInv, [Next]_vars, phase \in Gone
    PROVE  phase' \in Gone \cup {"booted"}
  BY DEF Gone, Next, vars, daemonVars, Boot, FailOrphanedJobs,
         reconcileQueuedJobs, StartServers, StartConsumer, Persist, PersistFails,
         Enqueue, Dequeue, RunNext, Shutdown, ConsumerReturns, StopScheduler,
         Exit, Crash

\* The unit is started from the symlink, and a release that does not come up
\* gets no further than that (systemd, bop controller's start).
LEMMA UnitStep ==
    ASSUME UpdaterInv, [UpdaterNext]_updaterVars
    PROVE  Unit'
  <1> USE DEF UpdaterInv, Unit, InStep, Active, Gone, Deciding,
              disk, unit, script, Advance
  <1>1. CASE DaemonGoesOn
    <2>1. phase \in Gone => phase' \in Gone \cup {"booted"}
      BY <1>1, GoneOnlyBoots DEF DaemonGoesOn
    <2> QED
      BY <1>1, <2>1 DEF DaemonGoesOn
  <1>2. CASE BadReleaseDies \/ StopTimeout
    BY <1>2 DEF BadReleaseDies, StopTimeout
  <1>3. CASE Publish \/ Tick \/ Fetch \/ Prune
             \/ Ask("asking", "listing", "in_progress")
             \/ Ask("listing", "fetching", "queued")
    BY <1>3 DEF Publish, Tick, Fetch, Prune, Ask, vars, daemonVars
  <1>4. CASE Swap("installed", "swapped", tag)
             \/ Swap("unhealthy", "swappedBack", previous)
    BY <1>4 DEF Swap, vars, daemonVars
  <1>5. CASE StopUnit("swapped", "restarting")
             \/ StopUnit("swappedBack", "restartingBack")
    BY <1>5 DEF StopUnit, Shutdown, Stopping, vars, daemonVars
  <1>6. CASE StartUnit("restarting", "settling")
             \/ StartUnit("restartingBack", "idle")
    BY <1>6 DEF StartUnit, Boot
  <1>7. CASE Healthy \/ Unhealthy
    <2>1. /\ step = "settling"
          /\ phase' = phase /\ release' = release /\ current' = current
      BY <1>7 DEF Healthy, Unhealthy, vars, daemonVars
    <2> QED
      BY <2>1
  <1>8. CASE Killed
    <2>1. /\ phase' = phase /\ release' = release /\ current' = current
          /\ step' = "idle"
          /\ interrupted' = (interrupted \/ step \in AfterSwap)
          /\ step \notin {"idle", "restarting", "restartingBack"}
      BY <1>8 DEF Killed, daemonVars
    <2>2. ~interrupted' => ~interrupted /\ step \notin AfterSwap
      BY <2>1
    <2> QED
      BY <2>1, <2>2 DEF AfterSwap, UpdaterTypeOK, Steps
  <1>9. CASE UNCHANGED updaterVars
    BY <1>9 DEF updaterVars, vars, daemonVars
  <1> QED
    BY <1>1, <1>2, <1>3, <1>4, <1>5, <1>6, <1>7, <1>8, <1>9
       DEF UpdaterNext, Script, Rollback

\* A health check can only succeed against a process of the release that is
\* in place (healthy).
LEMMA ComesStep ==
    ASSUME UpdaterInv, [UpdaterNext]_updaterVars
    PROVE  Comes'
  <1> USE DEF UpdaterInv, Comes, Deciding, disk, script, Advance
  <1>1. CASE UNCHANGED <<disk, script, interrupted>>
    BY <1>1
  <1>2. CASE Tick \/ Ask("asking", "listing", "in_progress")
             \/ Ask("listing", "fetching", "queued")
    BY <1>2 DEF Tick, Ask
  <1>3. CASE Fetch
    BY <1>3 DEF Fetch
  <1>4. CASE Swap("installed", "swapped", tag)
             \/ Swap("unhealthy", "swappedBack", previous)
             \/ StopUnit("swapped", "restarting")
             \/ StopUnit("swappedBack", "restartingBack")
             \/ StartUnit("restarting", "settling")
    BY <1>4 DEF Swap, StopUnit, StartUnit
  <1>5. CASE StartUnit("restartingBack", "idle")
    BY <1>5 DEF StartUnit, Disk, RollingBack
  <1>6. CASE Healthy
    <2>1. release \in Good /\ Active /\ release = current
      BY <1>6 DEF Healthy, ApiUp, LivePhases, Unit, Gone, Active, InStep
    <2> QED
      BY <1>6, <2>1 DEF Healthy
  <1>7. CASE Unhealthy
    BY <1>7, GoodAreTags, NoTagIsNotATag DEF Unhealthy
  <1>8. CASE Prune
    BY <1>8 DEF Prune
  <1>9. CASE Killed
    BY <1>9 DEF Killed, AfterSwap, Disk, UpdaterTypeOK, Steps
  <1> QED
    BY <1>1, <1>2, <1>3, <1>4, <1>5, <1>6, <1>7, <1>8, <1>9
       DEF UpdaterNext, updaterVars, Script, Rollback, Publish, DaemonGoesOn,
           BadReleaseDies, StopTimeout

\* The question about in_progress rows is answered by rows that say what the
\* daemon does, and backups do not begin twice (jobs_in, RunJob).
LEMMA GuardsStep ==
    ASSUME UpdaterInv, [UpdaterNext]_updaterVars
    PROVE  Guards'
  <1>1. \A j \in guarded :
            work'[j] # "none" /\ (work[j] # "running" => work'[j] # "running")
    BY DaemonStep, PipelinesOnlyEnd DEF UpdaterInv, Guards, UpdaterTypeOK
  <1>2. ASSUME guarded' = guarded,
               step' \notin {"idle", "asking"} => step \notin {"idle", "asking"}
        PROVE  Guards'
    BY <1>1, <1>2 DEF UpdaterInv, Guards
  <1>3. CASE Tick
    <2>1. work' = work /\ guarded' = {j \in Jobs : work[j] = "running" /\ phase \notin Stopping}
      BY <1>3 DEF Tick, vars, runVars
    <2>2. CASE step' = "asking"
      BY <2>1, <2>2 DEF Guards
    <2>3. CASE CheckSkipped
      <3>1. \A j \in Jobs : work[j] = "running" => pc[D] = "running"
        BY DEF UpdaterInv, IInv, HistoryAgrees
      <3>2. phase \in Gone => pc[D] = "idle"
        BY DEF UpdaterInv, IInv, PhaseAgrees, Gone
      <3>3. guarded' = {}
        BY <2>1, <2>3, <3>1, <3>2 DEF CheckSkipped, Active
      <3> QED
        BY <3>3 DEF Guards
    <2> QED
      BY <1>3, <2>2, <2>3 DEF Tick
  <1>4. CASE Ask("asking", "listing", "in_progress")
    <2>1. CASE step' = "idle"
      BY <1>1, <1>4, <2>1 DEF Ask, seen, UpdaterInv, Guards
    <2>2. CASE Rows("in_progress") = {}
      <3>1. work' = work /\ guarded' = guarded /\ guarded \subseteq Jobs
        BY <1>4 DEF Ask, seen, vars, runVars, UpdaterInv, UpdaterTypeOK
      <3>2. \A j \in Jobs : work[j] = "running" => ledger[j] = "in_progress"
        BY DEF UpdaterInv, IInv, HistoryAgrees, ConsumerAgrees
      <3>3. \A j \in Jobs : work[j] # "running"
        BY <2>2, <3>2 DEF Rows
      <3> QED
        BY <3>1, <3>3 DEF UpdaterInv, Guards
    <2> QED
      BY <1>4, <2>1, <2>2 DEF Ask, Advance
  <1>5. CASE Ask("listing", "fetching", "queued")
    BY <1>2, <1>5 DEF Ask, Advance, seen
  <1>6. CASE Killed
    BY <1>2, <1>6 DEF Killed, Advance, seen
  <1> QED
    BY <1>2, <1>3, <1>4, <1>5, <1>6
       DEF UpdaterNext, updaterVars, Script, Rollback, Publish, DaemonGoesOn,
           BadReleaseDies, StopTimeout, Fetch, Swap, StopUnit, StartUnit, Healthy,
           Unhealthy, Prune, Advance, script, seen
-----------------------------------------------------------------------------
(* Theorems                                                                *)

\* A host as bootstrap.sh leaves it.
LEMMA UpdaterStarts == UpdaterInit => UpdaterInv
  <1> SUFFICES ASSUME UpdaterInit PROVE UpdaterInv
    OBVIOUS
  <1>1. IInv
    BY InitIInv DEF UpdaterInit
  <1>2. UpdaterTypeOK
    BY <1>1 DEF UpdaterInit, UpdaterTypeOK, IInv, Steps
  <1>3. Disk
    BY DEF UpdaterInit, Disk, Deciding, InPlace, RollingBack, AfterSwap
  <1>4. Unit
    BY DEF UpdaterInit, Init, Unit, Active, Gone
  <1>5. Comes
    BY DEF UpdaterInit, Comes
  <1>6. Guards
    BY DEF UpdaterInit, Guards
  <1> QED
    BY <1>1, <1>2, <1>3, <1>4, <1>5, <1>6 DEF UpdaterInv

\* The invariant of the daemon and of the script that updates it
\* (bop-update.sh, bop controller).
THEOREM UpdaterInvariance == UpdaterSpec => []UpdaterInv
  <1>1. UpdaterInv /\ [UpdaterNext]_updaterVars => UpdaterInv'
    BY DaemonStep, TypesStep, DiskStep, UnitStep, ComesStep, GuardsStep
       DEF UpdaterInv
  <1> QED
    BY <1>1, UpdaterStarts, PTL DEF UpdaterSpec

\* Types of the daemon and of the script (bop-update.sh).
THEOREM UpdaterTypes == UpdaterSpec => []UpdaterTypeOK
  BY UpdaterInvariance, PTL DEF UpdaterInv

\* However many updates, kills and rollbacks there are, the symlink points to
\* an installed release, and so does $previous for as long as it may be needed
\* (swap_to, the prune loop).
THEOREM ReleasesInUseStay == UpdaterSpec => []InUseIsInstalled
  <1>1. UpdaterInv => InUseIsInstalled
    BY DEF UpdaterInv, Disk, InUseIsInstalled
  <1> QED
    BY <1>1, UpdaterInvariance, PTL

\* No update goes on before the backups that it saw running are over
\* (jobs_in).
THEOREM UpdatesWaitForBackups == UpdaterSpec => []SeenBackupsFinish
  <1>1. UpdaterInv => SeenBackupsFinish
    BY DEF UpdaterInv, Guards, SeenBackupsFinish
  <1> QED
    BY <1>1, UpdaterInvariance, PTL

\* Between undisturbed updates the unit runs the release that the symlink
\* names, through crashes and restarts of the daemon as well (systemctl
\* restart, rollback).
THEOREM UnitRunsCurrent == UpdaterSpec => []RunsWhatItPointsTo
  <1>1. UpdaterInv => RunsWhatItPointsTo
    BY DEF UpdaterInv, Unit, InStep, RunsWhatItPointsTo
  <1> QED
    BY <1>1, UpdaterInvariance, PTL

\* An update that nobody disturbs does not leave a release that fails to come
\* up where there was one that does (healthy, rollback).
THEOREM UpdatesLeaveGoodReleases == UpdaterSpec => []NeverLeftBroken
  <1>1. UpdaterInv => NeverLeftBroken
    BY DEF UpdaterInv, Comes, NeverLeftBroken
  <1> QED
    BY <1>1, UpdaterInvariance, PTL

\* The jobs table keeps its promises through updates at any moment of the
\* daemon's life (systemctl restart, FailOrphanedJobs).
THEOREM UpdatesRefineLedger == UpdaterSpec => UpdatesKeepLedger
  <1>1. UpdaterInit => Ledger!LedgerInit
    BY DEF UpdaterInit, Init, RunInit
  <1>2. UpdaterInv /\ [UpdaterNext]_updaterVars
            => [Ledger!LedgerNext]_(Ledger!ledgerVars)
    BY DaemonStep DEF UpdaterInv
  <1> QED
    BY <1>1, <1>2, UpdaterInvariance, PTL
       DEF UpdaterSpec, UpdatesKeepLedger, Ledger!LedgerSpec

\* What is true of "Never restarts mid-backup": the backup that a restart cuts
\* short is none that was running when the script began (jobs_in).
THEOREM RestartsSpareSeenBackups ==
    UpdaterSpec => [][step = "swapped" /\ step' = "restarting" /\ pc[D] = "running"
                        => cur[D] \notin guarded]_updaterVars
  <1>1. UpdaterInv => (step = "swapped" /\ pc[D] = "running" => cur[D] \notin guarded)
    BY DEF UpdaterInv, IInv, ConsumerAgrees, Guards
  <1> DEFINE A == step = "swapped" /\ step' = "restarting" /\ pc[D] = "running"
                     => cur[D] \notin guarded
  <1>2. UpdaterInv /\ [UpdaterNext]_updaterVars => [A]_updaterVars
    BY <1>1
  <1> QED
    BY <1>2, UpdaterInvariance, PTL DEF UpdaterSpec
=============================================================================
