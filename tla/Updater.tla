-------------------------------- MODULE Updater --------------------------------
(***************************************************************************)
(* deploy/bop-update.sh beside the daemon it updates.  A systemd timer     *)
(* runs the script, one instance at a time: it compares the newest release *)
(* with the `current` symlink, asks the daemon's API whether a job is      *)
(* active, downloads, swaps the symlink, restarts the unit, and swaps back *)
(* if the new release does not come up.  A started unit executes whatever  *)
(* `current` points to.                                                    *)
(***************************************************************************)
EXTENDS Daemon

CONSTANTS
    Tags,      \* releases
    Good,      \* those that come up; the others die while starting
    NoTag,     \* no symlink
    Keep       \* BOP_KEEP_RELEASES

ASSUME GoodAreTags == Good \subseteq Tags
ASSUME NoTagIsNotATag == NoTag \notin Tags
ASSUME KeepIsNat == Keep \in Nat

VARIABLES
    latest,       \* the newest release on the host's channel
    releases,     \* the directories under releases/
    current,      \* the symlink
    release,      \* what the unit's process was started from
    step,         \* where the script stands
    tag,          \* $tag
    previous,     \* $previous
    guarded,      \* history: jobs whose pipelines ran when the script began,
                  \* unless the daemon was being stopped already
    waiting,      \* history: jobs whose rows were queued then
    interrupted   \* history: killed after the swap, before it was done

unit == <<release>>
script == <<step, tag, previous>>
disk == <<releases, current>>
seen == <<guarded, waiting>>
updaterVars == <<vars, latest, disk, unit, script, seen, interrupted>>

\* asking and listing: before the first and the second API call; installed:
\* unpacked; swapped: symlink moved; restarting: systemctl waits for the unit
\* to stop; settling: the 15 seconds before the health check; the last three
\* are the same for the rollback.
Steps == {"idle", "asking", "listing", "fetching", "installed", "swapped",
          "restarting", "settling", "deployed",
          "unhealthy", "swappedBack", "restartingBack"}
AfterSwap == {"swapped", "restarting", "settling", "unhealthy", "swappedBack",
              "restartingBack"}

\* systemctl --user is-active; and whether the local API can answer.  A unit
\* that stops is "deactivating" to systemctl stop, still active to a plain kill.
Stopping == {"stopping", "drained", "closing"}
Active == phase \notin Gone
CheckSkipped == ~Active \/ phase \in Stopping
ApiUp == phase \in LivePhases["api"]

\* GET /v1/jobs?status=...: the rows with that status.
Rows(status) == {j \in Jobs : ledger[j] = status}

\* A host that bootstrap.sh has set up, with its first release or without.
UpdaterInit ==
    /\ Init
    /\ latest \in Tags
    /\ current \in Good \cup {NoTag}
    /\ releases = {current} \ {NoTag}
    /\ release = NoTag
    /\ step = "idle"
    /\ tag = NoTag
    /\ previous = NoTag
    /\ guarded = {}
    /\ waiting = {}
    /\ interrupted = FALSE
-----------------------------------------------------------------------------
(* Around the script                                                       *)

\* Another release becomes the newest of the channel.
Publish ==
    /\ latest' \in Tags
    /\ UNCHANGED <<vars, disk, unit, script, seen, interrupted>>

\* The daemon goes on.  While systemctl restart is under way only the script's
\* own job starts the unit; a release that is not good gets no further than
\* its process being started.
DaemonGoesOn ==
    /\ Next
    /\ phase' = "booted" /\ phase # "booted" =>
         current # NoTag /\ step \notin {"restarting", "restartingBack"}
    /\ release' = IF phase \in Gone /\ phase' = "booted" THEN current ELSE release
    /\ release \in Good \/ phase' \in Gone \cup {"booted"}
    /\ UNCHANGED <<latest, disk, script, seen, interrupted>>

\* The process of a release that does not come up exits with an error.
BadReleaseDies ==
    /\ phase = "booted"
    /\ release \notin Good
    /\ phase' = "crashed"
    /\ ProcessGone
    /\ UNCHANGED <<faults, latest, disk, unit, script, seen, interrupted>>
-----------------------------------------------------------------------------
(* The script                                                              *)

Advance(s) ==
    /\ step' = s
    /\ UNCHANGED <<tag, previous>>

\* Mutant of Tick: an answer without a tag name is not refused.
TickUnvalidated ==
    /\ step = "idle"
    /\ tag' = "null"
    /\ \/ Active /\ step' = "asking"
       \/ CheckSkipped /\ step' = "fetching"
    /\ guarded' = {j \in Jobs : work[j] = "running" /\ phase \notin Stopping}
    /\ waiting' = Rows("queued")
    /\ UNCHANGED <<vars, previous, latest, disk, unit, interrupted>>

\* A timer tick finds a release other than the current one.  (Without one, or
\* without an answer from GitHub, the script exits and nothing changes.)
Tick ==
    /\ step = "idle"
    /\ latest # current
    /\ tag' = latest
    /\ \/ Active /\ step' = "asking"
       \/ CheckSkipped /\ step' = "fetching"
    /\ guarded' = {j \in Jobs : work[j] = "running" /\ phase \notin Stopping}
    /\ waiting' = Rows("queued")
    /\ UNCHANGED <<vars, previous, latest, disk, unit, interrupted>>

\* Mutant of Ask: a call without an answer counts as idle.
AskTrusting(from, to, status) ==
    /\ step = from
    /\ \/ ApiUp /\ Rows(status) # {} /\ Advance("idle")
       \/ Advance(to)
    /\ UNCHANGED <<vars, latest, disk, unit, seen, interrupted>>

\* One jobs_in call.  An active row, or no answer (which any call may meet),
\* ends the script until the next tick.
Ask(from, to, status) ==
    /\ step = from
    /\ \/ Advance("idle")
       \/ ApiUp /\ Rows(status) = {} /\ Advance(to)
    /\ UNCHANGED <<vars, latest, disk, unit, seen, interrupted>>

\* Download, checksum, unpack, try the binary, move into place.  Any of them
\* may fail; the directory of an earlier attempt may be gone then.
Fetch ==
    /\ step = "fetching"
    /\ \/ /\ releases' = releases \cup {tag}
          /\ previous' = current
          /\ step' = "installed"
       \/ /\ releases' \in {releases, releases \ {tag}}
          /\ step' = "idle"
          /\ UNCHANGED previous
    /\ UNCHANGED <<vars, latest, current, unit, tag, seen, interrupted>>

\* swap_to: rename(2) of a new symlink over the old one.
Swap(from, to, target) ==
    /\ step = from
    /\ current' = target
    /\ Advance(to)
    /\ UNCHANGED <<vars, latest, releases, unit, seen, interrupted>>

\* systemctl restart, first half: SIGTERM.  A running daemon begins to shut
\* down, one that is still starting ends, one that stops already goes on.
StopUnit(from, to) ==
    /\ step = from
    /\ Advance(to)
    /\ \/ Shutdown
       \/ /\ phase \in {"booted", "recovered", "reconciled", "serving"}
          /\ phase' = "down"
          /\ ProcessGone
          /\ UNCHANGED faults
       \/ /\ phase \in Gone \cup Stopping
          /\ UNCHANGED vars
    /\ UNCHANGED <<latest, disk, unit, seen, interrupted>>

\* TimeoutStopSec has passed: SIGKILL.
StopTimeout ==
    /\ step \in {"restarting", "restartingBack"}
    /\ phase \in Stopping
    /\ phase' = "down"
    /\ ProcessGone
    /\ UNCHANGED <<faults, latest, disk, unit, script, seen, interrupted>>

\* Second half: the unit is started again.  After a rollback the script ends.
StartUnit(from, to) ==
    /\ step = from
    /\ Boot
    /\ release' = current
    /\ Advance(to)
    /\ interrupted' = (interrupted /\ to # "idle")
    /\ UNCHANGED <<latest, disk, seen>>

\* healthy: the unit is active and the API answers.  A call may time out.
Healthy ==
    /\ step = "settling"
    /\ ApiUp
    /\ Advance("deployed")
    /\ interrupted' = FALSE
    /\ UNCHANGED <<vars, latest, disk, unit, seen>>

\* Mutant of Unhealthy: the deployment fails, nothing is rolled back.
UnhealthyKept ==
    /\ step = "settling"
    /\ Advance("idle")
    /\ interrupted' = FALSE
    /\ UNCHANGED <<vars, latest, disk, unit, seen>>

\* Without a previous release there is nothing to go back to.
Unhealthy ==
    /\ step = "settling"
    /\ IF previous = NoTag
       THEN Advance("idle") /\ interrupted' = FALSE
       ELSE Advance("unhealthy") /\ UNCHANGED interrupted
    /\ UNCHANGED <<vars, latest, disk, unit, seen>>

\* Mutant of Spared: the release now running is forgotten.
SparedPreviousOnly == {previous}

\* Never the one now running or the rollback target.
Spared == {tag, previous}

\* All but the newest Keep directories are removed.  Their order is that of
\* modification times, which unpacking sets: any order.
Prune ==
    /\ step = "deployed"
    /\ \E S \in SUBSET releases :
         /\ Cardinality(S) = IF Cardinality(releases) < Keep
                             THEN Cardinality(releases) ELSE Keep
         /\ releases' = S \cup (releases \cap Spared)
    /\ Advance("idle")
    /\ UNCHANGED <<vars, latest, current, unit, seen, interrupted>>

\* The script is killed, or a command of it fails under set -e.  (Killed while
\* systemctl waits, the restart is completed by systemd all the same.)
Killed ==
    /\ step \notin {"idle", "restarting", "restartingBack"}
    /\ Fault
    /\ Advance("idle")
    /\ interrupted' = (interrupted \/ step \in AfterSwap)
    /\ UNCHANGED <<ledger, announced, work, runnable, pc, cur, verdict, reported,
                   daemonVars, latest, disk, unit, seen>>

\* Mutant of Rollback: the symlink is swapped back, the unit not restarted.
RollbackUnstarted ==
    /\ step = "unhealthy"
    /\ current' = previous
    /\ Advance("idle")
    /\ UNCHANGED <<vars, latest, releases, unit, seen, interrupted>>

Rollback ==
    \/ Swap("unhealthy", "swappedBack", previous)
    \/ StopUnit("swappedBack", "restartingBack")
    \/ StartUnit("restartingBack", "idle")

Script ==
    \/ Tick
    \/ Ask("asking", "listing", "in_progress")
    \/ Ask("listing", "fetching", "queued")
    \/ Fetch
    \/ Swap("installed", "swapped", tag)
    \/ StopUnit("swapped", "restarting")
    \/ StartUnit("restarting", "settling")
    \/ Healthy \/ Unhealthy
    \/ Rollback
    \/ Prune

UpdaterNext ==
    \/ Publish \/ DaemonGoesOn \/ BadReleaseDies
    \/ Script \/ StopTimeout \/ Killed

UpdaterSpec == UpdaterInit /\ [][UpdaterNext]_updaterVars
-----------------------------------------------------------------------------
(* Properties                                                              *)

\* Types of the script's state (bop-update.sh).
UpdaterTypeOK ==
    /\ TypeOK
    /\ latest \in Tags
    /\ releases \subseteq Tags
    /\ {current, release, tag, previous} \subseteq Tags \cup {NoTag}
    /\ step \in Steps
    /\ guarded \cup waiting \subseteq Jobs
    /\ interrupted \in BOOLEAN

\* The symlink never dangles, and as long as a rollback may be needed its
\* target is there: removal of an old attempt, pruning and swaps, over any
\* number of ticks, never take a directory in use (swap_to, the prune loop).
InUseIsInstalled ==
    /\ current # NoTag => current \in releases
    /\ step \in AfterSwap /\ previous # NoTag => previous \in releases

\* Once the script has decided to go on, no backup that was running when it
\* began, in a daemon that was not being stopped, is running still: what the busy check can see it respects, also when
\* the API does not answer (jobs_in).
SeenBackupsFinish ==
    step \notin {"idle", "asking"} => \A j \in guarded : work[j] # "running"

\* When the script has ended undisturbed, the unit runs what the symlink says
\* (swap_to and systemctl restart, rollback included).
RunsWhatItPointsTo ==
    step = "idle" /\ ~interrupted /\ Active => release = current

\* An update that ended undisturbed never exchanges a release that comes up
\* for one that does not (healthy, rollback).
NeverLeftBroken ==
    step = "idle" /\ ~interrupted /\ previous \in Good => current \in Good

\* Updates do not break what the jobs table promises (JobLedger), although they
\* stop the daemon at any point of its life (systemctl restart).
UpdatesKeepLedger == Ledger!LedgerSpec

\* bop-update.sh: "Never restarts mid-backup: if the controller's local API
\* reports a job in_progress or queued, this run is skipped".  A backup that is
\* cut short was neither under way nor queued when the script asked (jobs_in).
NeverRestartsMidBackup ==
    [][step = "swapped" /\ step' = "restarting" /\ pc[D] = "running" =>
          cur[D] \notin guarded \cup waiting]_updaterVars
=============================================================================
