------------------------------- MODULE JobDetail -------------------------------
(***************************************************************************)
(* The page of one job (web/src/pages/JobDetailPage.tsx): two useApi hooks *)
(* side by side, one for the job's row and one for its events, over the    *)
(* rows that RunJob writes meanwhile.  The job is polled for as long as the*)
(* page is open; its events until the row that is shown has ended.  The    *)
(* seal (components/Seal.tsx) is drawn from the events, the status from the*)
(* row.                                                                    *)
(***************************************************************************)
EXTENDS Integers, FiniteSets

CONSTANTS
    Id,         \* the job of the route; another id is another page
    NoData,     \* data is null
    MaxEvents,  \* bound: events of the job
    MaxFlights  \* bound: requests of a hook under way at a time

ASSUME NoDataIsNoRow == NoData \notin [deps : {Id}, version : Nat]
ASSUME BoundsAreNat == MaxEvents \in Nat /\ MaxFlights \in Nat

VARIABLES
    hidden,  \* document.hidden
    rank,    \* metadata: the job's status, 0 queued, 1 in_progress, 2 ended
    log,     \* metadata: how many events of the job are persisted
    job,     \* jobState, over rank
    events   \* eventsState, over log

vars == <<hidden, rank, log, job, events>>

Ended == 2

Job == INSTANCE UseApi WITH
    Deps <- {Id}, MaxVersion <- Ended, version <- rank, hook <- job

Events == INSTANCE UseApi WITH
    Deps <- {Id}, MaxVersion <- MaxEvents, version <- log, hook <- events

\* The page may be opened at any moment of the job's life.
Init ==
    /\ hidden \in BOOLEAN
    /\ rank \in 0..Ended
    /\ log \in 0..MaxEvents
    /\ job = Job!Mounted(Id, TRUE)
    /\ events = Events!Mounted(Id, TRUE)
-----------------------------------------------------------------------------
(* The controller                                                          *)

\* RunJob and its pipeline publish events, the outcome last of all.
Publish ==
    /\ rank < Ended
    /\ log < MaxEvents
    /\ log' = log + 1
    /\ UNCHANGED <<hidden, rank, job, events>>

\* UpdateJobStatus.  FailOrphanedJobs ends a job without an event, as does a
\* RunJob whose outcome event was not persisted.
Advance ==
    /\ rank < Ended
    /\ rank' = rank + 1
    /\ UNCHANGED <<hidden, log, job, events>>
-----------------------------------------------------------------------------
(* The page                                                                *)

\* jobState.data?.status is completed or failed.
isTerminal == job.data # NoData /\ job.data.version = Ended

ServerUnchanged == UNCHANGED <<hidden, rank, log>>

\* The error page's Retry, which replaces everything else.
RetryJob == job.error /\ Job!Load(Id) /\ UNCHANGED events /\ ServerUnchanged

\* Retry in the timeline, which is there once the job is.
RetryEvents ==
    /\ ~job.error /\ job.data # NoData
    /\ events.error
    /\ Events!Load(Id)
    /\ UNCHANGED job /\ ServerUnchanged

JobTick == Job!Tick /\ UNCHANGED events /\ ServerUnchanged
EventsTick == Events!Tick /\ UNCHANGED job /\ ServerUnchanged

JobLands == Job!Lands /\ UNCHANGED events /\ ServerUnchanged
EventsLand == Events!Lands /\ UNCHANGED job /\ ServerUnchanged

\* Rendered again with another intervalMs: the events' timer stops or starts.
SyncPolling ==
    /\ Events!SetPolling(~isTerminal)
    /\ UNCHANGED job /\ ServerUnchanged

\* One visibilitychange event, two listeners.
Hide ==
    /\ ~hidden /\ hidden' = TRUE
    /\ Job!OnHidden /\ Events!OnHidden
    /\ UNCHANGED <<rank, log>>

Return ==
    /\ hidden /\ hidden' = FALSE
    /\ Job!OnVisible /\ Events!OnVisible
    /\ UNCHANGED <<rank, log>>

Next ==
    \/ Publish \/ Advance
    \/ RetryJob \/ RetryEvents
    \/ JobTick \/ EventsTick \/ JobLands \/ EventsLand
    \/ SyncPolling \/ Hide \/ Return

Spec == Init /\ [][Next]_vars

\* The timer of a visible tab fires, superseded requests come to an end, and
\* the newest request is time and again answered before the next tick, or
\* else a page that polls would never see an answer at all.
JobAnswered ==
    /\ \E f \in job.flights : Job!Loaded(f) \/ Job!Refreshed(f)
    /\ UNCHANGED events /\ ServerUnchanged
JobIgnored ==
    /\ \E f \in job.flights : Job!Ignored(f)
    /\ UNCHANGED events /\ ServerUnchanged

FairSpec ==
    /\ Spec
    /\ WF_vars(JobTick) /\ WF_vars(JobIgnored) /\ SF_vars(JobAnswered)
-----------------------------------------------------------------------------
(* Properties                                                              *)

\* Type invariant of the page; timers run exactly while the tab is visible
\* (useApi's effect on [intervalMs, refresh]).
JobDetailTypeOK ==
    /\ hidden \in BOOLEAN
    /\ rank \in 0..Ended
    /\ log \in 0..MaxEvents
    /\ job \in Job!HookStates
    /\ events \in Events!HookStates
    /\ job.timer = ~hidden
    /\ events.timer = (events.polling /\ ~hidden)

\* Row and timeline each show what FreshView promises: never an older state
\* after a newer one, never one from before the last Retry (useApi).
RowAndTimelineAreFresh ==
    Job!ImplementsFreshView /\ Events!ImplementsFreshView

\* A visible page comes to show that its job has ended, however often the
\* tab was hidden before and polls failed (JobDetailPage's jobState).
EndIsShown == rank = Ended ~> isTerminal \/ hidden \/ job.error

\* "The events poll stops once there's nothing left to watch for": a timeline
\* that is no longer polled, and waits for nothing, is the whole log
\* (JobDetailPage's eventsState).
TimelineIsComplete ==
    ~events.polling /\ events.flights = {} /\ ~events.loading /\ ~events.error
        => events.data.version = log
=============================================================================
