-------------------------------- MODULE UseApi --------------------------------
(***************************************************************************)
(* useApi (web/src/hooks/useApi.ts), the hook by which every page of the   *)
(* web console fetches: loads that follow the page's deps, silent          *)
(* background refreshes on a timer that stops while the tab is hidden, and *)
(* the request number that tells the newest request from those it          *)
(* supersedes.                                                             *)
(*                                                                         *)
(* What is fetched is a version, the number of changes the server has made *)
(* so far.  A request is answered with a version current at some moment    *)
(* between its sending and its answer, or it fails; answers overtake each  *)
(* other at will.                                                          *)
(***************************************************************************)
EXTENDS Integers, FiniteSets

CONSTANTS
    Deps,        \* values of the hook's dependency list
    NoData,      \* data is null
    MaxVersion,  \* bound: changes on the server
    MaxFlights   \* bound: requests under way at a time

ASSUME NoDataIsNoAnswer == NoData \notin [deps : Deps, version : Nat]
ASSUME BoundsAreNat == MaxVersion \in Nat /\ MaxFlights \in Nat

VARIABLES
    version,  \* the server's data, as the number of its changes
    hidden,   \* document.hidden
    hook      \* the hook's state, see HookStates

hookVars == <<version, hidden, hook>>

\* A request under way: what it asks for, the version when it was sent, load
\* or refresh, and whether its id is still requestId.current.  (Superseded
\* requests that agree in all of this count as one.)
Flights == [deps : Deps, since : Nat, foreground : BOOLEAN, latest : BOOLEAN]

\* data carries the deps it was fetched for; asked, a history field, is the
\* version when the last load began.
HookStates ==
    [deps : Deps, data : [deps : Deps, version : Nat] \cup {NoData},
     error : BOOLEAN, loading : BOOLEAN, asked : Nat,
     polling : BOOLEAN, timer : BOOLEAN, flights : SUBSET Flights]

\* The first render, and the effects that follow it: load() and start().
Mounted(d, polls) ==
    [deps |-> d, data |-> NoData, error |-> FALSE, loading |-> TRUE,
     asked |-> version, polling |-> polls, timer |-> polls /\ ~hidden,
     flights |-> {[deps |-> d, since |-> version,
                   foreground |-> TRUE, latest |-> TRUE]}]

HookInit ==
    /\ version = 0
    /\ hidden \in BOOLEAN
    /\ \E d \in Deps, polls \in BOOLEAN : hook = Mounted(d, polls)
-----------------------------------------------------------------------------
(* Requests                                                                *)

\* ++requestId.current: the new request supersedes the ones under way.
Requested(d, foreground) ==
    {[f EXCEPT !.latest = FALSE] : f \in hook.flights}
        \cup {[deps |-> d, since |-> version,
               foreground |-> foreground, latest |-> TRUE]}

MayRequest == Cardinality(hook.flights) < MaxFlights

\* load: the deps have changed, or the page calls reload.
Load(d) ==
    /\ MayRequest
    /\ hook' = [hook EXCEPT !.deps = d, !.loading = TRUE, !.error = FALSE,
                            !.asked = version, !.flights = Requested(d, TRUE)]

\* Mutant of refresh: it takes no request number of its own.
refreshUnnumbered ==
    /\ MayRequest
    /\ hook' = [hook EXCEPT !.flights = @ \cup
                  {[deps |-> hook.deps, since |-> version,
                    foreground |-> FALSE, latest |-> TRUE]}]

\* refresh: a request of which nothing is seen until its answer.
refresh ==
    /\ MayRequest
    /\ hook' = [hook EXCEPT !.flights = Requested(hook.deps, FALSE)]

\* setInterval calls refresh.
Tick == hook.timer /\ refresh

\* f is answered with version v, or fails, and is no longer under way.
Landed(f) == [hook EXCEPT !.flights = @ \ {f}]
Received(f, v) == [Landed(f) EXCEPT !.data = [deps |-> f.deps, version |-> v]]

Loaded(f) ==
    /\ f.latest /\ f.foreground
    /\ \E v \in f.since..version :
          hook' = [Received(f, v) EXCEPT !.loading = FALSE]

LoadFails(f) ==
    /\ f.latest /\ f.foreground
    /\ hook' = [Landed(f) EXCEPT !.error = TRUE, !.loading = FALSE]

Refreshed(f) ==
    /\ f.latest /\ ~f.foreground
    /\ \E v \in f.since..version : hook' = Received(f, v)

\* "Background refresh failures stay silent."
RefreshFails(f) ==
    /\ f.latest /\ ~f.foreground
    /\ hook' = Landed(f)

\* id !== requestId.current: the outcome of a superseded request is ignored.
Ignored(f) ==
    /\ ~f.latest
    /\ hook' = Landed(f)

Lands ==
    \E f \in hook.flights :
        Loaded(f) \/ LoadFails(f) \/ Refreshed(f) \/ RefreshFails(f) \/ Ignored(f)
-----------------------------------------------------------------------------
(* The timer                                                               *)

\* The page passes another intervalMs: the effect is torn down and run again.
SetPolling(b) ==
    /\ hook.polling # b
    /\ hook' = [hook EXCEPT !.polling = b, !.timer = b /\ ~hidden]

\* Mutant of OnHidden: the timer goes on in a hidden tab.
OnHiddenIgnored == UNCHANGED hook

\* onVisibility, the tab being hidden: the timer stops.
OnHidden == hook' = [hook EXCEPT !.timer = FALSE]

\* Mutant of OnVisible: it refreshes, but the timer is not started again.
OnVisibleOnce ==
    IF hook.polling THEN refresh ELSE UNCHANGED hook

\* onVisibility, the tab being shown again: refresh at once, then the timer.
\* Without an interval no listener is installed.
OnVisible ==
    IF hook.polling
    THEN /\ MayRequest
         /\ hook' = [hook EXCEPT !.flights = Requested(hook.deps, FALSE),
                                 !.timer = TRUE]
    ELSE UNCHANGED hook
-----------------------------------------------------------------------------
(* The hook on its own, with a page that may do anything with it           *)

PageUses == (\E d \in Deps : Load(d)) \/ (\E b \in BOOLEAN : SetPolling(b))

Change ==
    /\ version < MaxVersion
    /\ version' = version + 1
    /\ UNCHANGED <<hidden, hook>>

Hide == ~hidden /\ hidden' = TRUE /\ OnHidden /\ UNCHANGED version
Return == hidden /\ hidden' = FALSE /\ OnVisible /\ UNCHANGED version

HookNext ==
    \/ Change \/ Hide \/ Return
    \/ (PageUses \/ Tick \/ Lands) /\ UNCHANGED <<version, hidden>>

HookSpec == HookInit /\ [][HookNext]_hookVars
-----------------------------------------------------------------------------
(* Properties                                                              *)

\* The hook promises what FreshView says: the page settles on data of the
\* deps it wants, fetched after it asked, and never goes back to older data
\* (requestId in load and refresh).
View == INSTANCE FreshView WITH
    now <- version,
    wanted <- hook.deps,
    asked <- hook.asked,
    shown <- hook.data,
    settled <- ~hook.loading /\ ~hook.error

ImplementsFreshView == View!ViewSpec

\* A refresh is silent: whether it brings data or fails, the view stays
\* what it was.  So a page that shows "loading" is waiting for a request
\* (refresh, load).
LoadingWillEnd == hook.loading => \E f \in hook.flights : f.latest
=============================================================================
