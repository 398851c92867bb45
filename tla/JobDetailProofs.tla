---------------------------- MODULE JobDetailProofs ----------------------------
(***************************************************************************)
(* The page of a job, for any number of events and of requests under way.  *)
(*                                                                         *)
(* Each step of the page is a step of its two hooks, or leaves one of them *)
(* alone, so what UseApiProofs says of the hook is said of both: the       *)
(* invariant of the request number, and that a hook implements FreshView.  *)
(***************************************************************************)
EXTENDS JobDetail, TLAPS

Row == INSTANCE UseApiProofs WITH
    Deps <- {Id}, MaxVersion <- Ended, version <- rank, hook <- job

Log == INSTANCE UseApiProofs WITH
    Deps <- {Id}, MaxVersion <- MaxEvents, version <- log, hook <- events

\* The job's hook always polls, the events' hook when told to; the timers of
\* both stop with the tab (JobDetailPage's intervalMs, useApi's listener).
TimersFollowTab ==
    /\ hidden \in BOOLEAN
    /\ rank \in 0..Ended
    /\ log \in 0..MaxEvents
    /\ job.polling = TRUE
    /\ job.timer = ~hidden
    /\ events.timer = (events.polling /\ ~hidden)

PageInv == Row!HookInv /\ Log!HookInv /\ TimersFollowTab

USE NoDataIsNoRow, BoundsAreNat
-----------------------------------------------------------------------------
(* The page as two hooks                                                   *)

\* A bound of the row's hook: its statuses are three (core.JobStatus).
LEMMA EndedIsNat == Ended \in Nat
  BY DEF Ended

\* What the page calls of jobState is what UseApiProofs speaks of.
LEMMA RowIsJob ==
    /\ Job!Load(Id) <=> Row!Load(Id)
    /\ Job!Tick <=> Row!Tick
    /\ Job!Lands <=> Row!Lands
    /\ Job!OnHidden <=> Row!OnHidden
    /\ Job!OnVisible <=> Row!OnVisible
    /\ Job!Mounted(Id, TRUE) = Row!Mounted(Id, TRUE)
    /\ Job!HookStates = Row!HookStates
  <1>1. /\ Job!Load(Id) <=> Row!Load(Id)
        /\ Job!Tick <=> Row!Tick
        /\ Job!OnHidden <=> Row!OnHidden
        /\ Job!OnVisible <=> Row!OnVisible
    BY DEF Job!Load, Row!Load, Job!Tick, Row!Tick, Job!refresh, Row!refresh,
           Job!MayRequest, Row!MayRequest, Job!Cardinality, Row!Cardinality,
           Job!Requested, Row!Requested,
           Job!OnHidden, Row!OnHidden, Job!OnVisible, Row!OnVisible
  <1>2. Job!Lands <=> Row!Lands
    BY DEF Job!Lands, Row!Lands, Job!Loaded, Row!Loaded, Job!LoadFails,
           Row!LoadFails, Job!Refreshed, Row!Refreshed, Job!RefreshFails,
           Row!RefreshFails, Job!Ignored, Row!Ignored, Job!Received,
           Row!Received, Job!Landed, Row!Landed
  <1>3. /\ Job!Mounted(Id, TRUE) = Row!Mounted(Id, TRUE)
        /\ Job!HookStates = Row!HookStates
    BY DEF Job!Mounted, Row!Mounted, Job!HookStates, Row!HookStates,
           Job!Flights, Row!Flights
  <1> QED
    BY <1>1, <1>2, <1>3

\* And so for eventsState.
LEMMA LogIsEvents ==
    /\ Events!Load(Id) <=> Log!Load(Id)
    /\ Events!Tick <=> Log!Tick
    /\ Events!Lands <=> Log!Lands
    /\ Events!OnHidden <=> Log!OnHidden
    /\ Events!OnVisible <=> Log!OnVisible
    /\ \A b \in BOOLEAN : Events!SetPolling(b) <=> Log!SetPolling(b)
    /\ Events!Mounted(Id, TRUE) = Log!Mounted(Id, TRUE)
    /\ Events!HookStates = Log!HookStates
  <1>1. /\ Events!Load(Id) <=> Log!Load(Id)
        /\ Events!Tick <=> Log!Tick
        /\ Events!OnHidden <=> Log!OnHidden
        /\ Events!OnVisible <=> Log!OnVisible
        /\ \A b \in BOOLEAN : Events!SetPolling(b) <=> Log!SetPolling(b)
    BY DEF Events!Load, Log!Load, Events!Tick, Log!Tick, Events!refresh,
           Log!refresh, Events!MayRequest, Log!MayRequest,
           Events!Cardinality, Log!Cardinality, Events!Requested,
           Log!Requested, Events!OnHidden, Log!OnHidden, Events!OnVisible,
           Log!OnVisible, Events!SetPolling, Log!SetPolling
  <1>2. Events!Lands <=> Log!Lands
    BY DEF Events!Lands, Log!Lands, Events!Loaded, Log!Loaded,
           Events!LoadFails, Log!LoadFails, Events!Refreshed, Log!Refreshed,
           Events!RefreshFails, Log!RefreshFails, Events!Ignored, Log!Ignored,
           Events!Received, Log!Received, Events!Landed, Log!Landed
  <1>3. /\ Events!Mounted(Id, TRUE) = Log!Mounted(Id, TRUE)
        /\ Events!HookStates = Log!HookStates
    BY DEF Events!Mounted, Log!Mounted, Events!HookStates, Log!HookStates,
           Events!Flights, Log!Flights
  <1> QED
    BY <1>1, <1>2, <1>3

\* Every step of the page is one of the job's hook, or leaves it alone.
LEMMA PageUsesRow ==
    ASSUME [Next]_vars
    PROVE  [Row!HookNext]_(Row!hookVars)
  <1> USE RowIsJob DEF Row!hookVars, ServerUnchanged
  <1>1. CASE Advance
    BY <1>1 DEF Advance, Row!HookNext, Row!Change
  <1>2. CASE RetryJob
    BY <1>2 DEF RetryJob, Row!HookNext, Row!PageUses
  <1>3. CASE JobTick \/ JobLands
    BY <1>3 DEF JobTick, JobLands, Row!HookNext
  <1>4. CASE Hide
    BY <1>4 DEF Hide, Row!HookNext, Row!Hide
  <1>5. CASE Return
    BY <1>5 DEF Return, Row!HookNext, Row!Return
  <1>6. CASE Publish \/ RetryEvents \/ EventsTick \/ EventsLand \/ SyncPolling
             \/ UNCHANGED vars
    BY <1>6 DEF Publish, RetryEvents, EventsTick, EventsLand, SyncPolling, vars
  <1> QED
    BY <1>1, <1>2, <1>3, <1>4, <1>5, <1>6 DEF Next

\* Every step of the page is one of the events' hook, or leaves it alone.
LEMMA PageUsesLog ==
    ASSUME [Next]_vars
    PROVE  [Log!HookNext]_(Log!hookVars)
  <1> USE LogIsEvents DEF Log!hookVars, ServerUnchanged
  <1>1. CASE Publish
    BY <1>1 DEF Publish, Log!HookNext, Log!Change
  <1>2. CASE RetryEvents
    BY <1>2 DEF RetryEvents, Log!HookNext, Log!PageUses
  <1>3. CASE EventsTick \/ EventsLand
    BY <1>3 DEF EventsTick, EventsLand, Log!HookNext
  <1>4. CASE SyncPolling
    <2>1. (~isTerminal) \in BOOLEAN
      BY DEF isTerminal
    <2>2. Log!SetPolling(~isTerminal)
      BY <1>4, <2>1 DEF SyncPolling
    <2> QED
      BY <1>4, <2>1, <2>2 DEF SyncPolling, Log!HookNext, Log!PageUses
  <1>5. CASE Hide
    BY <1>5 DEF Hide, Log!HookNext, Log!Hide
  <1>6. CASE Return
    BY <1>6 DEF Return, Log!HookNext, Log!Return
  <1>7. CASE Advance \/ RetryJob \/ JobTick \/ JobLands \/ UNCHANGED vars
    BY <1>7 DEF Advance, RetryJob, JobTick, JobLands, vars
  <1> QED
    BY <1>1, <1>2, <1>3, <1>4, <1>5, <1>6, <1>7 DEF Next
-----------------------------------------------------------------------------
(* The invariant of the page                                               *)

\* A page opened at any moment: both hooks start, nothing is shown yet
\* (JobDetailPage's two useApi calls).
LEMMA PageOpens ==
    ASSUME Init
    PROVE  PageInv /\ Row!View!ViewInit /\ Log!View!ViewInit
  <1>1. /\ hidden \in BOOLEAN /\ rank \in Nat /\ log \in Nat
        /\ TRUE \in BOOLEAN /\ Id \in {Id}
    BY EndedIsNat DEF Init
  <1>2. job = Row!Mounted(Id, TRUE) /\ events = Log!Mounted(Id, TRUE)
    BY RowIsJob, LogIsEvents DEF Init
  <1>3. Row!HookInv /\ Row!View!ViewInit
    BY <1>1, <1>2, EndedIsNat, Row!MountedStarts
  <1>4. Log!HookInv /\ Log!View!ViewInit
    BY <1>1, <1>2, EndedIsNat, Log!MountedStarts
  <1>5. TimersFollowTab
    <2>1. job.polling = TRUE /\ job.timer = (TRUE /\ ~hidden)
      BY <1>2 DEF Row!Mounted
    <2>2. events.polling = TRUE /\ events.timer = (TRUE /\ ~hidden)
      BY <1>2 DEF Log!Mounted
    <2>3. hidden = TRUE \/ hidden = FALSE
      BY DEF Init
    <2> QED
      BY <2>1, <2>2, <2>3 DEF Init, TimersFollowTab
  <1> QED
    BY <1>3, <1>4, <1>5 DEF PageInv

\* Every step of the page, seen from the job's hook (jobState).
LEMMA RowStep ==
    ASSUME PageInv, [Next]_vars
    PROVE  Row!HookInv' /\ [Row!View!ViewNext]_(Row!View!viewVars)
  BY PageUsesRow, EndedIsNat, Row!HookStep DEF PageInv

\* Every step of the page, seen from the events' hook (eventsState).
LEMMA LogStep ==
    ASSUME PageInv, [Next]_vars
    PROVE  Log!HookInv' /\ [Log!View!ViewNext]_(Log!View!viewVars)
  BY PageUsesLog, EndedIsNat, Log!HookStep DEF PageInv

\* What a request does to the other fields of a hook, or an answer: nothing
\* (useApi's load and refresh).
LEMMA RowTimer ==
    ASSUME Row!HookInv, Row!Load(Id) \/ Row!Tick \/ Row!Lands
    PROVE  job'.polling = job.polling /\ job'.timer = job.timer
  <1>1. job \in Row!HookStates
    BY DEF Row!HookInv, Row!HookTypeOK
  <1> QED
    BY <1>1 DEF Row!HookStates, Row!Load, Row!Tick, Row!refresh, Row!Lands,
                Row!Loaded, Row!LoadFails, Row!Refreshed, Row!RefreshFails,
                Row!Ignored, Row!Received, Row!Landed

\* The same of the events' hook.
LEMMA LogTimer ==
    ASSUME Log!HookInv, Log!Load(Id) \/ Log!Tick \/ Log!Lands
    PROVE  events'.polling = events.polling /\ events'.timer = events.timer
  <1>1. events \in Log!HookStates
    BY DEF Log!HookInv, Log!HookTypeOK
  <1> QED
    BY <1>1 DEF Log!HookStates, Log!Load, Log!Tick, Log!refresh, Log!Lands,
                Log!Loaded, Log!LoadFails, Log!Refreshed, Log!RefreshFails,
                Log!Ignored, Log!Received, Log!Landed

\* The timers stop and start with the tab, in one event for both hooks, and
\* the events' timer with intervalMs besides (onVisibility, JobDetailPage).
LEMMA TimersStep ==
    ASSUME PageInv, [Next]_vars
    PROVE  TimersFollowTab'
  <1> USE DEF PageInv, TimersFollowTab
  <1>1. job \in Row!HookStates /\ events \in Log!HookStates
    BY DEF Row!HookInv, Row!HookTypeOK, Log!HookInv, Log!HookTypeOK
  <1>2. CASE Publish \/ Advance \/ UNCHANGED vars
    BY <1>2, BoundsAreNat DEF Publish, Advance, vars, Ended
  <1>3. CASE RetryJob \/ JobTick \/ JobLands
    BY <1>3, RowIsJob, RowTimer DEF RetryJob, JobTick, JobLands, ServerUnchanged
  <1>4. CASE RetryEvents \/ EventsTick \/ EventsLand
    BY <1>4, LogIsEvents, LogTimer
       DEF RetryEvents, EventsTick, EventsLand, ServerUnchanged
  <1>5. CASE SyncPolling
    BY <1>1, <1>5 DEF SyncPolling, ServerUnchanged, isTerminal,
                      Events!SetPolling, Log!HookStates
  <1>6. CASE Hide
    BY <1>1, <1>6 DEF Hide, Job!OnHidden, Events!OnHidden,
                      Row!HookStates, Log!HookStates
  <1>7. CASE Return
    <2>1. job' = [job EXCEPT !.flights = Job!Requested(job.deps, FALSE),
                             !.timer = TRUE]
      BY <1>7 DEF Return, Job!OnVisible
    <2>2. job'.polling = TRUE /\ job'.timer = TRUE
      BY <1>1, <2>1 DEF Row!HookStates
    <2>3. CASE events.polling
      <3>1. events' = [events EXCEPT
                          !.flights = Events!Requested(events.deps, FALSE),
                          !.timer = TRUE]
        BY <1>7, <2>3 DEF Return, Events!OnVisible
      <3> QED
        BY <1>1, <1>7, <2>2, <2>3, <3>1 DEF Return, Log!HookStates
    <2>4. CASE ~events.polling
      BY <1>7, <2>2, <2>4 DEF Return, Events!OnVisible
    <2> QED
      BY <2>3, <2>4
  <1> QED
    BY <1>2, <1>3, <1>4, <1>5, <1>6, <1>7 DEF Next
-----------------------------------------------------------------------------
(* Theorems                                                                *)

\* The request numbers of both hooks and the timers of the page
\* (JobDetailPage, useApi).
THEOREM PageInvariance == Spec => []PageInv
  <1>1. Init => PageInv
    BY PageOpens
  <1>2. PageInv /\ [Next]_vars => PageInv'
    BY RowStep, LogStep, TimersStep DEF PageInv
  <1> QED
    BY <1>1, <1>2, PTL DEF Spec

\* Types of the page's state, and no timer ever runs in a hidden tab or
\* stands still in a visible one (JobDetailPage, useApi's onVisibility).
THEOREM JobDetailTypes == Spec => []JobDetailTypeOK
  <1>1. PageInv => JobDetailTypeOK
    BY RowIsJob, LogIsEvents
       DEF PageInv, TimersFollowTab, JobDetailTypeOK,
           Row!HookInv, Row!HookTypeOK, Log!HookInv, Log!HookTypeOK
  <1> QED
    BY <1>1, PageInvariance, PTL

\* FreshView as the page names it is FreshView as UseApiProofs names it.
LEMMA ViewsAgree ==
    /\ Row!View!ViewInit => Job!View!ViewInit
    /\ [Row!View!ViewNext]_(Row!View!viewVars)
            => [Job!View!ViewNext]_(Job!View!viewVars)
    /\ Log!View!ViewInit => Events!View!ViewInit
    /\ [Log!View!ViewNext]_(Log!View!viewVars)
            => [Events!View!ViewNext]_(Events!View!viewVars)
  <1>1. /\ Row!View!ViewInit => Job!View!ViewInit
        /\ Log!View!ViewInit => Events!View!ViewInit
    BY DEF Row!View!ViewInit, Job!View!ViewInit,
           Log!View!ViewInit, Events!View!ViewInit
  <1>2. [Row!View!ViewNext]_(Row!View!viewVars)
            => [Job!View!ViewNext]_(Job!View!viewVars)
    BY DEF Row!View!ViewNext, Job!View!ViewNext, Row!View!Change,
           Job!View!Change, Row!View!Ask, Job!View!Ask, Row!View!Show,
           Job!View!Show, Row!View!viewVars, Job!View!viewVars
  <1>3. [Log!View!ViewNext]_(Log!View!viewVars)
            => [Events!View!ViewNext]_(Events!View!viewVars)
    BY DEF Log!View!ViewNext, Events!View!ViewNext, Log!View!Change,
           Events!View!Change, Log!View!Ask, Events!View!Ask, Log!View!Show,
           Events!View!Show, Log!View!viewVars, Events!View!viewVars
  <1> QED
    BY <1>1, <1>2, <1>3

\* Row and timeline never show an older state after a newer one, nor one
\* from before the last Retry, however their requests overlap (useApi).
THEOREM PageRefinement == Spec => RowAndTimelineAreFresh
  <1>1. Init => Job!View!ViewInit /\ Events!View!ViewInit
    BY PageOpens, ViewsAgree
  <1>2. PageInv /\ [Next]_vars
            => /\ [Job!View!ViewNext]_(Job!View!viewVars)
               /\ [Events!View!ViewNext]_(Events!View!viewVars)
    BY RowStep, LogStep, ViewsAgree
  <1> QED
    BY <1>1, <1>2, PageInvariance, PTL
       DEF Spec, RowAndTimelineAreFresh, Job!ImplementsFreshView,
           Events!ImplementsFreshView, Job!View!ViewSpec, Events!View!ViewSpec
=============================================================================
