# A TLA+ model of the Backup Orchestration Platform

`bop` backs up servers: plugins dump databases and directories of the hosts in
an inventory, restic stores the dumps, and a metadata database remembers jobs
and snapshots. The programs are `bop controller`, a daemon with a cron
scheduler, an HTTP API and one consumer of an in-memory queue; one-shot
commands such as `bop backup`; an updater script; and a web console over the
API. This directory holds TLA+ modules of that code, TLC configurations that
check them, and TLAPS proofs about them.

`PROJECT.json` names, for every definition, the source lines it stands for.

## Inventory

| Component | State | Operations | What makes it correct |
|---|---|---|---|
| Jobs table (`internal/metadata/jobs.go`) | one row per job: `queued`, `in_progress`, `completed`, `failed` | `CreateJob`, `UpdateJobStatus` (no guard), `FailOrphanedJobs`, `ListJobsByStatus` | terminal statuses are final; `completed` is true; no row is silently forgotten |
| `Controller.RunJob` | the job at hand, its verdict | refuse, mark, run the pipeline under `job_timeout`, publish the outcome, record it | each pipeline runs once; what was announced and recorded agree |
| Pipeline (`runPipeline`, `backupResource`) | discovered resources, errors, one temp artifact | discover; back up, verify, checksum, store, confirm, record, restore-test each resource; retention | rows only for confirmed snapshots; temp files removed; completed means complete; retention never takes the last good backup |
| restic repository | snapshots grouped by host and tags | `Store`, `Verify`, `ApplyRetention` (`forget --prune`) | each forget stays on its host and keeps the newest of every group |
| Memory queue | a buffered channel of 256 | non-blocking `Enqueue`, blocking `Dequeue(ctx)` | bounded; a refused job is reported |
| Producers: scheduler, `POST /v1/backups` | jobs persisted and not yet enqueued | persist, then enqueue | a crash in between loses nothing |
| Daemon (`bop controller`) | phase of its life | buildApp, sweep, reconcile, serve, consume, shut down in order | shutdown completes; recovery settles what a crash left |
| `bop backup` | its own job | create the row, `RunJob` inline | does not disturb the daemon, nor the daemon it |
| Events, metrics | events table, counters | publish to every subscriber, prune hourly | subscribers cannot fail a job; terminal events are durable |
| Plugins | scratch targets, temp files | discover, back up, verify, restore | a restore test never touches a target it did not create |
| API, tokens, plugin settings | token lists, settings table | read, trigger, edit settings | only read tokens read and only write tokens write |
| Updater (`deploy/bop-update.sh`) | `current` symlink, releases | check busy, download, swap, restart, roll back | never restarts in mid-backup; ends with a running release |
| Web: data hook (`hooks/useApi.ts`) | data, error, loading, `requestId`, timer | load, silent refresh, answers, stop and start with the tab's visibility | shows data of what was asked last, never older than before |
| Web: jobs page and trigger dialog | filter, dialog, submits under way | filter, retry, open, choose, submit, answer, close | an announced job is in the list; a dialog reports its own submit |
| Web: job page | two hooks over one job | poll the row; poll the events until the row shown has ended | shows the end of the job, and all of its timeline |
| Web: session (`api/client.ts`, `state/auth.tsx`) | token, connected flag | connect with a probe, disconnect, reload, 401 | pages only with a token; only denied reads end a session |
| Web: plugin settings page | form, lists as text, load and save flags | load, edit, save, leave | saves what was received and edited, says "Saved" when it is |
| Config, inventory, SSH, shell quoting, scripts, CI | none shared | parsing, I/O | not concurrent; unit-testable |

On the server, components meet in three places: the jobs table (every process),
the in-memory queue (producers and consumer) and the restic repository (every
pipeline). The hard behaviours are there: a crash between two writes, a status
write without a guard, a full queue, a shutdown in which producers outlive the
consumer, a context that dies in the middle of a pipeline, and a second process
that shares the table and the repository with the daemon. In the browser,
everything is one thread, and all that is hard comes from answers: they arrive
late, overtake each other, arrive for a page or a dialog that is gone or has
been opened again, or do not arrive at all. `PROJECT.json` lists these hazards
at their lines.

## Modules

| Module | Stands for |
|---|---|
| `JobLedger` | the abstract promise: a job is submitted, claimed and recorded once |
| `RunJob` | `RunJob` and the metadata calls, for any process ("runner") that executes jobs |
| `Daemon` | `bop controller`: start-up recovery, queue, producers, consumer, shutdown, crash, restart |
| `Deployment` | the daemon with `bop backup` commands beside it, sharing the jobs table |
| `Pipeline` | `runPipeline` and `backupResource`, with repository, snapshots table and temp directory |
| `Updater` | `deploy/bop-update.sh` beside the whole daemon |
| `FreshView` | the abstract promise to a page: what it shows answers what it asked last, and never goes back |
| `UseApi` | the hook `useApi`: requests, request numbers, timer, visibility |
| `JobsPage` | the jobs page, the trigger dialog and `POST /v1/backups` |
| `JobDetail` | the page of one job: two hooks, one of which stops on what the other has seen |
| `WebSession` | the token, the connect page and the API's token scopes |
| `ConfigForm` | the plugin settings form, with GET and PUT of the settings row |
| `MCPipeline`, `MCJobsPage`, `MCConfigForm` | the servers, the inventory and the symmetry that TLC uses |
| `DaemonProofs`, `DeploymentProofs`, `UpdaterProofs`, `PipelineProofs` | the theorems about the daemon and what runs beside it |
| `UseApiProofs`, `JobsPageProofs`, `JobDetailProofs`, `ConfigFormProofs` | the theorems about the console |

`Daemon` extends `RunJob` with the process around it; `Deployment` extends
`Daemon` with more runners, `Updater` with the script that restarts it. In
`RunJob` the pipeline is one step, which ends with or without an error;
`Pipeline` opens that step and takes from `RunJob` only the context and the
return value. `JobLedger` is instantiated in `RunJob` and is what `Daemon`
implements.

`JobsPage` extends `UseApi`, which instantiates `FreshView`; `JobDetail` holds
two instances of `UseApi` side by side. `ConfigForm` extends `WebSession`: the
form lives in a session that may end under it. The server appears to the
console as versions: `JobsPage!Accept` is the API's `CreateJob`, `Change`
whatever else alters the table, and `JobDetail` lets status and events advance
as `RunJob` writes them.

### State and actions

*Jobs table.* `ledger[j]` is the status column, `"absent"` before `CreateJob`.
A metadata call that returns an error (`Fault`) may or may not have been
committed: cancellation while waiting for the reply and a failing
`RowsAffected` both leave the caller ignorant. `work[j]` is a history variable:
what became of the pipeline of job `j`.

*RunJob.* `pc[r]` is where runner `r` stands: `claimed` (before the
`in_progress` write), `running`, `ended` (verdict known), `announced` (outcome
published). One action per exit of the Go function. `runnable[r]` is the set of
jobs whose host, plugin and repository the process knows: drawn anew at each
`Boot`, because configuration is read once per process, and it is what
`RefuseJob` tests. `reported[r]` holds the jobs about which `r` has logged or
returned an error; "silent" below means "not in `reported`".

*Daemon.* `phase` follows the body of `newControllerCmd`. `handing[p]` holds the
jobs that producer `p` has persisted and not yet enqueued, so that a crash may
fall in between; handlers of the API run concurrently, hence a set. `Dequeue`
stays enabled after the cancellation because Go's `select` picks at random.
The scheduler is stopped after the consumer and the API server last (deferred
calls run in reverse order), which `LivePhases` states. The API server and the
metrics server are one step, since neither touches jobs while starting, except
that API handlers may run from then on. The pruner goroutine is left out: it
touches only the events table.

*Deployment.* A command is a runner other than `D`. It calls `CreateJob` and
enters `RunJob` in one step: nothing in between touches shared state, and a
reader of the table sees the same rows either way. Its context is never
cancelled, and an interrupt kills it where it stands. `exposed` is a history
variable: the jobs that a command held while the daemon swept or reconciled.

*Pipeline.* `pc[j]` is the stage of the resource at hand, `res[j]`. Stages that
take the context fail once `expired[j]`; the structural check and the checksum
read local files and do not look at it. `Settle` is the return of
`backupResource`: deferred cleanup and collection of the error are one step
with the stage that returns. A snapshot is `<<job, resource>>`; `born` is its
place in the order of commits, since restic groups by host and tags and keeps
the newest of each group whatever the `--keep-*` counts. Everything beyond that
is the policy's choice, so `Kept` lets retention keep any larger set.

*Updater.* `step` is where the script stands; a timer tick starts it, one instance
at a time, since systemd does not start a service that is running. The two API
calls of the busy check are two actions, because the daemon moves between
them. `systemctl restart` is three: SIGTERM (`StopUnit`), the wait for
`TimeoutStopSec` which may end in SIGKILL (`StopTimeout`), the start
(`StartUnit`); the wait between the first and the last is that of the script.
`current` is the symlink and `release` what the running process was started
from, so that an automatic restart after a crash may pick up a swapped
symlink. `Good` is the set of releases that come up; the others get as far as
their process being started. The downloading, unpacking and trying of a release
is one step with three outcomes (installed; failed with an earlier attempt's
directory kept; failed with it removed). The order of release directories is
arbitrary, since modification times are those of the archive. A unit that
`systemctl stop` is stopping is not "active", so the script skips its busy check
(`CheckSkipped`); the running backup is lost to the stop, not to the update. `guarded` and
`waiting` are history variables, the jobs that were running or queued at the
tick, and so is `interrupted`: a script killed after its swap and before its
health check was acted on.

*Console data.* What the server has is a number, the count of its changes; an
answer carries some version between the sending of its request and its
arrival. A request under way is a record of what it asked for, whether it is a
load or a refresh, and whether its id is still `requestId.current` (`latest`).
`hook.asked` is a history variable, the version when the last load began. An
unmounted hook is not modelled: nothing shows what it holds. In `JobsPage` the
dialog stays mounted while it is closed, as in the code, so that a late answer
changes a dialog that is closed or open again; `told` is the last job announced
on an open dialog. `Close` includes the reload that `onClose` calls. In
`JobDetail`, `SyncPolling` is the render after which the events' effect is run
again; it is a step of its own since answers may arrive in between.

*Session and form.* `scope` says what each token is good for on the server;
`Rotate` is a restart of the controller with other token files. A request
carries the token it was sent with. `active` is the variable of that name in
the effect of `usePluginConfigForm`; for a PUT, which has no such flag, it says
that the page that sent it is still mounted (an unmounted page's state updates
do nothing). `Denied` composes the API client's listener with what it unmounts.
A config is a value for each input; lists are kept twice, as in the code, and
`splitList` makes `Pieces` of a list in which an item contains a comma or outer
blanks (`WithComma`). `base`, `touched` and `overtaken` are history fields.

## Runs

`expect: pass`:

| Run | Shows | Bounds, and why they suffice |
|---|---|---|
| `daemon` | durability contract (`NoSilentLoss`), orphan sweep (`NoSilentOrphan`), one place per job, truthful completion, `ImplementsLedger` (one pipeline per job and final statuses follow from it); shutdown completes, enqueued jobs settle, orphans are failed | 2 jobs and a queue of 1: one job running and one queued, or one queued and one refused. 2 faults: a crash during the recovery from a crash, or a failed write and a crash |
| `deployment_safety` | with a `bop backup` beside it, unexposed jobs keep the guarantees | 2 jobs, 1 command that may be used again and again, 1 fault |
| `pipeline` | what is recorded, cleaned up, reported and retained; retention keeps the last good backup and stays on its host; a pipeline ends | 2 serial jobs, 2 hosts, 2 resources: retention after a second backup of the same and of another host, a failure before and after a success. The first job is on host 1, where restore tests are off, the second on either |
| `updater` | the symlink and the rollback target exist, visible backups finish, the unit runs what the symlink says, a good release is not exchanged for a bad one, the jobs table still implements `JobLedger` | 3 releases, one of them bad, and `Keep` 1 (3 in the script): pruning removes something in every deployment; 1 job, 1 fault: a crash, or a script killed half-way |
| `jobs_page` | the list implements `FreshView`; a job the dialog announced is in the list behind it (`ToldJobsAreListed`); the dialog shows what came of its own submit (`NoticeIsOwn`) | 2 filters, 2 changes of the table, 2 requests of the list under way (one to be overtaken by another), 2 submits: a late answer in a dialog opened again. 3 offers on 2 hosts, of which one plugin is on both |
| `job_detail` | row and timeline implement `FreshView` each; a visible page comes to show the end of its job | 3 statuses, 2 events, 2 requests of each hook |
| `config_form` | "Saved" is true (`SavedIsStored`); a save leaves alone what nobody edited (`UntouchedPartsSurvive`); pages only with a token; only denied reads end sessions | 2 tokens with any scopes, 2 requests: a GET of a page that was left and one of the next, or a PUT of the old page and a load of the new. One plain input and one list, 3 values: empty, an item, an item with a comma |

`expect: violation`: each refutes one sentence of the repository.

| Run | The code does | The repository says |
|---|---|---|
| `daemon_stuck_row` | a failing final write leaves the row `in_progress` while the daemon goes on | controller.go:183 "never left in_progress on a live error path" |
| `deployment_sweep` | a starting daemon fails the job of a live command | docs/02-architecture.md:145 "from a previous run" |
| `updater_midbackup` | a job that goes from `queued` to `in_progress` between the two API calls is in neither answer, and is cut short | bop-update.sh "Never restarts mid-backup" |
| `use_api_loading` | a refresh takes the request number of a load under way; the load's outcome is dropped, `loading` stays true, and if the refresh fails there is neither data nor error nor Retry | useApi.ts:15 "silently, without flipping `loading` back to true" |
| `job_detail_missed` | the events poll stops when the row on screen is terminal, without a last fetch: the outcome event may never be shown | JobDetailPage.tsx:17 "stops once there's nothing left to watch for" |

Four more sentences disagree with the code in ways that need no model checker:
docs/05-operations.md:251 ("One job runs at a time", but `bop backup` runs
beside the daemon's job), docs/05-operations.md:245 ("persisted but never
dequeued", but the row of a live command that has yet to be marked is requeued
too), docs/02-architecture.md:89 (records before it verifies; the code verifies
first) and store.go:66 ("one row per job"; there is one per resource).

Of the console, these were met in the code and are not model-checked, or are part
of a model but no property's matter: the settings form's load error has no Retry
button although its test calls it "retryable" (PluginConfigPage.test.tsx:70); a
reload during a probe counts as connected with a token that no request has
succeeded with (`WebSession!Reload`; auth.tsx:23-24 says a token is "only as
good as a request that succeeds with it"); the jobs page shows no error when
the inventory cannot be fetched, only a disabled button; an error notice stays
after a silent refresh has brought data; a dialog opened again while a submit
is under way shows the old result and can submit a second time (hence `fresh`
in `NoticeIsOwn`); a late 401 of an old token drops a new session
(`WebSession!ReadDenied`); what is typed while a save is under way is
overwritten by its answer (`ConfigForm!PutAnswered`).

The run `pipeline` does not check deadlock: when every pipeline has ended
nothing is left to do. The other passing runs do: a daemon can always be
started again, a tab always be hidden, shown or left.

`MaxFaults` bounds crashes, failed metadata calls and interrupts; without it the
counter would be unbounded. A refused or unanswered API call and a failed
download are not faults and may always happen. `Capacity` is 256 in the code.
`MaxFlights` and `MaxRequests` bound the requests of a hook and of the session
that are under way at a time (the code has no bound, but a request that would
exceed it only waits for an earlier one to come back, as for a free
connection); `MaxVersion` and `MaxEvents` bound what the server does,
`MaxSubmits` what the user does.

### Fairness

`Daemon!Fairness` is weak fairness of what runs by itself: goroutines are
scheduled, a non-blocking `Enqueue` follows its `CreateJob`, a pipeline ends
because `job_timeout` (2h by default) ends its context and every blocking call
takes that context, the deferred calls of a shutdown are bounded (five seconds
each), and systemd restarts a crashed unit (`Restart=on-failure`). Nothing is
assumed of operators, signals, clients or cron, nor that a daemon which exits with
status 0 is started again. `Pipeline!FairSpec` is weak fairness of each
pipeline's own steps. With `job_timeout: 0` a hung plugin would make both
assumptions false. `Updater` is checked for safety only: the script's timer promises
no more than another attempt.

`JobDetail!FairSpec` assumes that the interval timer fires (weak), that
superseded requests come to an end (weak), and that the newest request is time
and again answered before the next tick supersedes it (strong). The last is an
assumption about the network, not the code: a server that always needs longer
than the interval would never be seen to answer, since each tick takes the
request number. `EndIsShown` excuses a hidden tab and an error page. Nothing is
assumed of the user.

## Proofs

The theorems hold for every value of the constants that satisfies the named
assumptions: any number of jobs, hosts, resources, commands, releases, faults,
tokens, filters, inputs, requests under way, and any queue. Together they state
every type invariant, safety invariant, action property and refinement that a
passing run checks.

| Run | Theorems |
|---|---|
| `daemon` | `DaemonProofs` |
| `deployment_safety` | `DeploymentProofs`, on lemmas of `DaemonProofs` |
| `updater` | `UpdaterProofs`, on the step theorems of `DaemonProofs` |
| `pipeline` | `PipelineProofs` |
| `jobs_page` | `JobsPageProofs`, on `UseApiProofs` |
| `job_detail` | `JobDetailProofs`, on two instances of `UseApiProofs` |
| `config_form` | `ConfigFormProofs` |

`DaemonProofs` proves every safety property of the run `daemon`, and that
pipelines run once (`RunsAtMostOnce`) and terminal statuses are final
(`TerminalIsFinal`). Its inductive invariant adds to the checked ones what makes
them inductive: how `pc`, `cur`, `ledger` and `work` of the consumer agree (a
claimed job is `queued` or already given up, a running job's row is
`in_progress`), that a queued row has never had a pipeline, and that memory is
empty while the process is gone. `OnePlace` and `NoSilentLoss` fail to be
inductive alone: taking a job from the queue is harmless only because no copy of
it is left elsewhere. The refinement `ImplementsLedger` follows step by step:
each action maps to one ledger step, or to a stutter.

`DeploymentProofs` cannot use that invariant, since most of it is false once a
command's job has been swept. Its own (`DeploymentInv`) splits in two. What
holds of every job: the daemon's memory holds a job in one place only, and
whatever anybody holds has a row, so no `CreateJob` takes its id. What holds of
the jobs that are not `exposed`: one process at most holds such a job
(`Apart`), and its row, its pipeline and its holder agree (`RunnersAgree`,
`HistoriesAgree`). A start-up recovery is where the second part could break,
and it breaks it for just those jobs that a command has at hand: a swept or
requeued job that no command holds has no holder left, for the daemon's memory
is empty then. The three `Unexposed` properties follow.
`UndisturbedRefinement` says what remains of `ImplementsLedger`: it holds of
daemon and commands together in every behaviour in which no daemon starts
while a command has a job at hand (`[](exposed = {})`), so start-up recovery is
the only place where the processes get in each other's way. Without the
hypothesis it is false, as the run `deployment_sweep` shows.

`UpdaterProofs` keeps the daemon's whole invariant under the script: for the
daemon, being stopped while it starts or killed by `TimeoutStopSec` is a
process that ends, which `IInv` survives at any point (the lemma
`ProcessEnds`), and a script that is killed is nothing at all. So
`UpdatesKeepLedger` follows. The script's properties rest on what it knows at
each step: what the symlink names and which directories are there (`Disk`), the
release of the unit's process (`Unit`: one that got beyond being started comes
up), whether the release in place comes up if the one before it did (`Comes`),
and that a backup the busy check has found is over before the script goes on
(`Guards`: a pipeline that has begun can only end, since no job runs twice).
The last also gives `RestartsSpareSeenBackups`, the true part of "Never
restarts mid-backup": the backup that a restart cuts short, in the run
`updater_midbackup`, is never one that ran when the script began.

`PipelineProofs` proves every safety property of the run `pipeline`. The
inductive invariant adds what each stage has already achieved (`AllProgress`: a
job that is `recording` has a confirmed snapshot, a settled resource has a row
or an error), that confirmed snapshots were stored, and that the newest
snapshot stored for a group still is in the repository. `RetentionIsSafe` then
needs, for any recorded snapshot, a newest one of its group among those stored:
the naturals are well-founded and a nonempty bounded set of commit times has a
greatest element (the library's lemma on well-foundedness is cited; no
induction scheme is instantiated). The theorems hold for overlapping pipelines
too, which the run does not explore, except `SerialRowsAreStored`, which assumes
`~Parallel`: of two overlapping pipelines of one host, one may record a snapshot
that the other's forget has removed since it was confirmed.

`UseApiProofs` proves that the hook implements `FreshView`. The invariant is the
request number's: at most one request bears the newest one (`LatestIsUnique`);
it asks for the deps now wanted, and was sent no earlier than the page asked
and than whatever is shown was current (`LatestIsWanted`). So an accepted answer
is a step `Show` of the view, a load is `Ask`, and all else stutters.

`JobsPageProofs` proves every property of the run `jobs_page`. Every step of the
page is a step of the hook (`PageUsesHook`), so the refinement is inherited, and
the page needs of the hook only what `FreshView` says: a settled view shows
something no older than the last question (`ViewSettles`). Closing the dialog is
a question put after everything the dialog said (`ToldBeforeAsked`), and that is
`ToldJobsAreListed`. `NoticeIsOwn` is strengthened by the press that `submitting`
implies (`OwnSubmit`); the cardinality is then that of a set of at most one.

`JobDetailProofs` uses the hook's lemmas twice: each step of the page is a step
of the row's hook, of the timeline's, of both (one event with two listeners when
the tab is hidden or shown again) or of neither (`PageUsesRow`, `PageUsesLog`).
A poll that the row stops is a step of the timeline's hook. What the page adds
of its own is that the timers follow the tab (`TimersFollowTab`), which its type
invariant needs.

`ConfigFormProofs` proves every property of the run `config_form` from three
invariants. Of the session: a probe under way is for the token that is set and
no page is shown meanwhile, so the `clearToken` of a failing probe takes no
session's token. Of the requests: at most one GET and one PUT is waited for, and
`loading` and `saving` say so. Of the form: an input nobody has touched holds
what was received last, in whichever of its two places it is kept. The last is
why `UntouchedPartsSurvive` holds; the second why no answer of an earlier page
can break it.

The inductive invariants were model-checked on the bounds of the runs before they
were proved; `DeploymentInv` also with two commands.

Only model-checked: liveness (`ShutdownCompletes`, `QueuedJobSettles`,
`OrphansSettle`, `PipelineEnds`, `EndIsShown`), since fairness and ENABLED are
beyond the prover, and the five sentences that are violated, which a
counterexample settles.

## Not modelled

- *Restore tests' leftovers.* Scratch databases and directories whose cleanup
  failed stay on the target, outside every process modelled; the plugins' answer
  is to refuse to reuse them, which ends a later test as an ordinary failure.
- *Progress events, fan-out, the pruner, metrics.* Nothing that decides anything
  reads them; the outcome event and its loss are in `RunJob`.
- *`bop restore`, `bop snapshot`, `bop health`, `bop version`.* One-shot
  commands that change none of the shared state.
- *The scheduler's loop over one tick.* Its jobs are persisted and enqueued one
  by one, which `Daemon` lets happen in any order; cron is external.
- *`resolvePluginConfig`* and the two spellings of a settings row's fields: pure
  lookups and renamings.
- *Console:* the dialog's exit animation, the link to the new job, required
  inputs, the tiers of the seal (a function of the events shown), the layout of
  dashboard, hosts, snapshots and events pages (whose fetches are uses of the
  hook with deps of their own, which `UseApi` covers for any use).
- Generated gRPC code, SSH and shell quoting, configuration parsing, log
  wording, charts, the server of the embedded files, developer scripts, CI.

What could be added next: a composition of `JobDetail` with `RunJob` in place of
its two counters, and of `Updater` with `Deployment`, where a restart by the
script is one more start-up recovery that a command's job may meet.

## Reproducing

    tlc -workers 2 -config daemon.cfg Daemon
    tlc -workers 2 -config deployment_safety.cfg Deployment
    tlc -workers 2 -config pipeline.cfg MCPipeline
    tlc -workers 2 -config updater.cfg Updater
    tlc -workers 2 -config jobs_page.cfg MCJobsPage
    tlc -workers 2 -config job_detail.cfg JobDetail
    tlc -workers 2 -config config_form.cfg MCConfigForm
    tlapm DaemonProofs.tla      # and the other seven

The violations: `daemon_stuck_row.cfg` with `Daemon`, `deployment_sweep.cfg` with
`Deployment`, `updater_midbackup.cfg` with `Updater`, `use_api_loading.cfg` with
`UseApi` and `job_detail_missed.cfg` with `JobDetail`. A run takes from seconds
to two and a half minutes.
