----------------------------- MODULE UseApiProofs -----------------------------
(***************************************************************************)
(* The hook implements FreshView, for any deps, any number of changes and  *)
(* any number of requests under way.                                       *)
(*                                                                         *)
(* What makes it true is the request number: at most one request under way *)
(* bears the newest one, it asks for the deps the page now wants, and it   *)
(* was sent after the page asked and after whatever is shown was received. *)
(***************************************************************************)
EXTENDS UseApi, TLAPS

\* Types of the hook and of the data it reads (useApi's state and refs).
HookTypeOK ==
    /\ version \in Nat
    /\ hidden \in BOOLEAN
    /\ hook \in HookStates

\* Nobody knows of a version that is not there yet.
NothingFromTheFuture ==
    /\ hook.asked <= version
    /\ hook.data # NoData => hook.data.version <= version
    /\ \A f \in hook.flights : f.since <= version

\* The request whose answer would be accepted answers the question put last,
\* and no earlier than what is shown was fetched.
LatestIsWanted ==
    \A f \in hook.flights : f.latest =>
        /\ f.deps = hook.deps
        /\ hook.asked <= f.since
        /\ hook.data # NoData /\ hook.data.deps = hook.deps
              => hook.data.version <= f.since
        /\ f.foreground => hook.loading /\ ~hook.error

\* requestId.current belongs to one request at most.
LatestIsUnique ==
    \A f, g \in hook.flights : f.latest /\ g.latest => f = g

HookInv ==
    HookTypeOK /\ NothingFromTheFuture /\ LatestIsWanted /\ LatestIsUnique
-----------------------------------------------------------------------------
(* Requests                                                                *)

\* The request that load or refresh sends now.
New(d, fg) == [deps |-> d, since |-> version, foreground |-> fg, latest |-> TRUE]

\* After a request, the new one alone bears the newest number (load, refresh).
LEMMA RequestedFlights ==
    ASSUME HookInv, NEW d \in Deps, NEW fg \in BOOLEAN,
           NEW f \in Requested(d, fg)
    PROVE  f \in Flights /\ f.since <= version /\ (f.latest => f = New(d, fg))
  <1>1. CASE f = New(d, fg)
    BY <1>1 DEF HookInv, HookTypeOK, Flights, New
  <1>2. CASE f # New(d, fg)
    <2>1. PICK g \in hook.flights : f = [g EXCEPT !.latest = FALSE]
      BY <1>2 DEF Requested, New
    <2>2. g \in Flights /\ g.since <= version
      BY DEF HookInv, HookTypeOK, HookStates, NothingFromTheFuture
    <2> QED
      BY <2>1, <2>2 DEF Flights
  <1> QED
    BY <1>1, <1>2

\* load keeps the invariant, and is a question to the view (load).
LEMMA LoadAsks ==
    ASSUME HookInv, NEW d \in Deps, Load(d), UNCHANGED <<version, hidden>>
    PROVE  HookInv' /\ View!Ask
  <1> DEFINE F == Requested(d, TRUE)
  <1>1. /\ hook' = [hook EXCEPT !.deps = d, !.loading = TRUE, !.error = FALSE,
                                !.asked = version, !.flights = F]
        /\ version' = version /\ hidden' = hidden
    BY DEF Load
  <1>2. /\ hook \in HookStates /\ version \in Nat /\ hidden \in BOOLEAN
        /\ hook.data # NoData => hook.data.version \in Nat
    BY DEF HookInv, HookTypeOK, HookStates
  <1>3. \A f \in F : f \in Flights /\ f.since <= version /\ (f.latest => f = New(d, TRUE))
    BY RequestedFlights
  <1> HIDE DEF F
  <1>4. F \in SUBSET Flights
    BY <1>3
  <1>5. /\ hook'.deps = d /\ hook'.loading = TRUE /\ hook'.error = FALSE
        /\ hook'.asked = version /\ hook'.flights = F /\ hook'.data = hook.data
        /\ hook' \in HookStates
    BY <1>1, <1>2, <1>4 DEF HookStates
  <1>6. HookTypeOK'
    BY <1>1, <1>2, <1>5 DEF HookTypeOK
  <1>7. NothingFromTheFuture'
    <2>1. hook'.asked <= version'
      BY <1>1, <1>2, <1>5
    <2>2. hook'.data # NoData => hook'.data.version <= version'
      BY <1>1, <1>5 DEF HookInv, NothingFromTheFuture
    <2>3. \A f \in hook'.flights : f.since <= version'
      BY <1>1, <1>3, <1>5
    <2> QED
      BY <2>1, <2>2, <2>3 DEF NothingFromTheFuture
  <1>8. LatestIsWanted'
    BY <1>1, <1>2, <1>3, <1>5 DEF HookInv, NothingFromTheFuture, LatestIsWanted, New
  <1>9. LatestIsUnique'
    BY <1>3, <1>5 DEF LatestIsUnique
  <1>10. View!Ask
    BY <1>1, <1>5 DEF View!Ask
  <1> QED
    BY <1>6, <1>7, <1>8, <1>9, <1>10 DEF HookInv

\* A refresh keeps the invariant and shows nothing (refresh).
LEMMA RefreshIsSilent ==
    ASSUME HookInv, NEW b \in BOOLEAN, UNCHANGED version, hidden' \in BOOLEAN,
           hook' = [hook EXCEPT !.flights = Requested(hook.deps, FALSE), !.timer = b]
    PROVE  HookInv' /\ UNCHANGED View!viewVars
  <1> DEFINE d == hook.deps
             F == Requested(d, FALSE)
  <1>1. /\ hook \in HookStates /\ version \in Nat /\ version' = version
        /\ d \in Deps /\ hook.asked \in Nat
        /\ hook.data # NoData => hook.data.version \in Nat
    BY DEF HookInv, HookTypeOK, HookStates
  <1>2. \A f \in F : f \in Flights /\ f.since <= version /\ (f.latest => f = New(d, FALSE))
    BY <1>1, RequestedFlights
  <1>3. hook' = [hook EXCEPT !.flights = F, !.timer = b]
    OBVIOUS
  <1> HIDE DEF F
  <1>4. F \in SUBSET Flights
    BY <1>2
  <1>5. /\ hook'.deps = hook.deps /\ hook'.loading = hook.loading
        /\ hook'.error = hook.error /\ hook'.asked = hook.asked
        /\ hook'.flights = F /\ hook'.data = hook.data
        /\ hook' \in HookStates
    BY <1>1, <1>3, <1>4 DEF HookStates
  <1>6. HookTypeOK'
    BY <1>1, <1>5 DEF HookTypeOK
  <1>7. NothingFromTheFuture'
    BY <1>1, <1>2, <1>5 DEF HookInv, NothingFromTheFuture
  <1>8. LatestIsWanted'
    <2> SUFFICES ASSUME NEW f \in F, f.latest
                 PROVE  /\ f.deps = d /\ hook.asked <= f.since
                        /\ hook.data # NoData => hook.data.version <= f.since
                        /\ ~f.foreground
      BY <1>5 DEF LatestIsWanted
    <2>1. f.deps = d /\ f.since = version /\ ~f.foreground
      BY <1>2 DEF New
    <2> QED
      BY <2>1 DEF HookInv, NothingFromTheFuture
  <1>9. LatestIsUnique'
    BY <1>2, <1>5 DEF LatestIsUnique
  <1>10. UNCHANGED View!viewVars
    BY <1>1, <1>5 DEF View!viewVars
  <1> QED
    BY <1>6, <1>7, <1>8, <1>9, <1>10 DEF HookInv
-----------------------------------------------------------------------------
(* Answers                                                                 *)

\* An accepted answer is shown, and keeps the invariant (the then branches).
LEMMA AnswerShows ==
    ASSUME HookInv, UNCHANGED <<version, hidden>>,
           NEW f \in hook.flights, f.latest, NEW v \in f.since..version,
           NEW b \in BOOLEAN, b \/ ~f.foreground, b => f.foreground,
           hook' = [Received(f, v) EXCEPT !.loading = IF b THEN FALSE ELSE @]
    PROVE  HookInv' /\ View!Show
  <1>1. /\ hook \in HookStates /\ f \in Flights
        /\ version \in Nat /\ version' = version /\ hidden' = hidden
    BY DEF HookInv, HookTypeOK, HookStates
  <1>2. /\ f.deps = hook.deps /\ hook.asked <= f.since /\ f.since <= version
        /\ hook.data # NoData /\ hook.data.deps = hook.deps
              => hook.data.version <= f.since
    BY DEF HookInv, LatestIsWanted, NothingFromTheFuture
  <1>3. v \in Nat /\ f.since <= v /\ v <= version /\ f.since \in Nat
    BY <1>1 DEF Flights
  <1> DEFINE A == [deps |-> f.deps, version |-> v]
  <1>4. A \in [deps : Deps, version : Nat] /\ A # NoData
    BY <1>1, <1>3, NoDataIsNoAnswer DEF Flights
  <1>5. /\ hook'.deps = hook.deps /\ hook'.error = hook.error
        /\ hook'.loading = (IF b THEN FALSE ELSE hook.loading)
        /\ hook'.asked = hook.asked /\ hook'.flights = hook.flights \ {f}
        /\ hook'.data = A /\ hook' \in HookStates
    BY <1>1, <1>4 DEF HookStates, Received, Landed
  <1>6. \A g \in hook.flights \ {f} : ~g.latest
    BY DEF HookInv, LatestIsUnique
  <1>7. HookTypeOK'
    BY <1>1, <1>5 DEF HookInv, HookTypeOK
  <1>8. NothingFromTheFuture'
    BY <1>1, <1>3, <1>5 DEF HookInv, NothingFromTheFuture
  <1>9. LatestIsWanted' /\ LatestIsUnique'
    BY <1>5, <1>6 DEF LatestIsWanted, LatestIsUnique
  <1>10. View!Show
    <2>1. v \in hook.asked..version
      BY <1>1, <1>2, <1>3 DEF HookStates
    <2>2. hook.data # NoData => hook.data.deps # hook.deps \/ hook.data.version <= v
      BY <1>1, <1>2, <1>3 DEF HookStates
    <2>3. hook'.data = [deps |-> hook.deps, version |-> v]
      BY <1>2, <1>5
    <2>4. (~hook'.loading /\ ~hook'.error) \in {~hook.loading /\ ~hook.error, TRUE}
      <3>1. CASE b
        BY <3>1, <1>5 DEF HookInv, LatestIsWanted
      <3>2. CASE ~b
        BY <3>2, <1>5
      <3> QED
        BY <3>1, <3>2
    <2> QED
      BY <2>1, <2>2, <2>3, <2>4, <1>1, <1>5 DEF View!Show
  <1> QED
    BY <1>7, <1>8, <1>9, <1>10 DEF HookInv

\* A request that brings nothing leaves the view as it is: a failed load
\* leaves it unsettled, which it was (the catch branches, and the early
\* returns).
LEMMA NothingShown ==
    ASSUME HookInv, UNCHANGED <<version, hidden>>, NEW f \in hook.flights,
           LoadFails(f) \/ RefreshFails(f) \/ Ignored(f)
    PROVE  HookInv' /\ UNCHANGED View!viewVars
  <1>1. /\ hook \in HookStates /\ f \in Flights
        /\ version \in Nat /\ version' = version /\ hidden' = hidden
    BY DEF HookInv, HookTypeOK, HookStates
  <1>2. /\ hook'.deps = hook.deps /\ hook'.asked = hook.asked
        /\ hook'.flights = hook.flights \ {f} /\ hook'.data = hook.data
        /\ hook' \in HookStates
    BY <1>1 DEF HookStates, LoadFails, RefreshFails, Ignored, Landed
  <1>3. \/ hook'.loading = hook.loading /\ hook'.error = hook.error
        \/ /\ f.latest /\ f.foreground
           /\ hook'.loading = FALSE /\ hook'.error = TRUE
    BY <1>1 DEF HookStates, LoadFails, RefreshFails, Ignored, Landed
  <1>4. f.latest /\ f.foreground => hook.loading
    BY DEF HookInv, LatestIsWanted
  <1>5. f.latest => \A g \in hook.flights \ {f} : ~g.latest
    BY DEF HookInv, LatestIsUnique
  <1>6. HookTypeOK'
    BY <1>1, <1>2 DEF HookInv, HookTypeOK
  <1>7. NothingFromTheFuture'
    BY <1>1, <1>2 DEF HookInv, NothingFromTheFuture
  <1>8. LatestIsWanted'
    BY <1>2, <1>3, <1>5 DEF HookInv, LatestIsWanted
  <1>9. LatestIsUnique'
    BY <1>2 DEF HookInv, LatestIsUnique
  <1>10. UNCHANGED View!viewVars
    BY <1>1, <1>2, <1>3, <1>4 DEF View!viewVars
  <1> QED
    BY <1>6, <1>7, <1>8, <1>9, <1>10 DEF HookInv
-----------------------------------------------------------------------------
(* The steps                                                               *)

\* Each answer, accepted or not, shows what FreshView allows (load and
\* refresh, after the await).
LEMMA LandsShows ==
    ASSUME HookInv, Lands, UNCHANGED <<version, hidden>>
    PROVE  HookInv' /\ (View!Show \/ UNCHANGED View!viewVars)
  <1>1. PICK f \in hook.flights :
            Loaded(f) \/ LoadFails(f) \/ Refreshed(f) \/ RefreshFails(f) \/ Ignored(f)
    BY DEF Lands
  <1>2. hook \in HookStates /\ f \in Flights
    BY DEF HookInv, HookTypeOK, HookStates
  <1>3. CASE Loaded(f)
    <2>1. PICK v \in f.since..version :
              hook' = [Received(f, v) EXCEPT !.loading = FALSE]
      BY <1>3 DEF Loaded
    <2>2. f.latest /\ f.foreground
      BY <1>3 DEF Loaded
    <2> DEFINE b == TRUE
    <2>3. hook' = [Received(f, v) EXCEPT !.loading = IF b THEN FALSE ELSE @]
      BY <2>1
    <2> QED
      BY <2>2, <2>3, AnswerShows
  <1>4. CASE Refreshed(f)
    <2>1. PICK v \in f.since..version : hook' = Received(f, v)
      BY <1>4 DEF Refreshed
    <2>2. f.latest /\ ~f.foreground
      BY <1>4 DEF Refreshed
    <2> DEFINE b == FALSE
    <2>3. hook' = [Received(f, v) EXCEPT !.loading = IF b THEN FALSE ELSE @]
      BY <1>2, <2>1 DEF Received, Landed, HookStates
    <2> QED
      BY <2>2, <2>3, AnswerShows
  <1>5. CASE LoadFails(f) \/ RefreshFails(f) \/ Ignored(f)
    BY <1>5, NothingShown
  <1> QED
    BY <1>1, <1>3, <1>4, <1>5

\* What touches neither the data nor the requests is a stutter of the view
\* (the timer's effect, onVisibility of a hidden tab).
LEMMA TimerIsSilent ==
    ASSUME HookInv, UNCHANGED version, hidden' \in BOOLEAN,
           NEW p \in BOOLEAN, NEW t \in BOOLEAN,
           hook' = [hook EXCEPT !.polling = p, !.timer = t]
    PROVE  HookInv' /\ UNCHANGED View!viewVars
  <1>1. hook \in HookStates /\ version \in Nat /\ version' = version
    BY DEF HookInv, HookTypeOK
  <1>2. /\ hook'.deps = hook.deps /\ hook'.loading = hook.loading
        /\ hook'.error = hook.error /\ hook'.asked = hook.asked
        /\ hook'.flights = hook.flights /\ hook'.data = hook.data
        /\ hook' \in HookStates
    BY <1>1 DEF HookStates
  <1>3. HookTypeOK' /\ NothingFromTheFuture'
    BY <1>1, <1>2 DEF HookInv, HookTypeOK, NothingFromTheFuture
  <1>4. LatestIsWanted' /\ LatestIsUnique'
    BY <1>2 DEF HookInv, LatestIsWanted, LatestIsUnique
  <1>5. UNCHANGED View!viewVars
    BY <1>1, <1>2 DEF View!viewVars
  <1> QED
    BY <1>3, <1>4, <1>5 DEF HookInv

\* The server changes the data: what is known stays known (a write by
\* anybody, while requests are under way).
LEMMA ServerChanges ==
    ASSUME HookInv, Change
    PROVE  HookInv' /\ View!Change
  <1>1. /\ version' = version + 1 /\ hidden' = hidden /\ hook' = hook
        /\ version \in Nat /\ hook \in HookStates
    BY DEF Change, HookInv, HookTypeOK
  <1>2. HookTypeOK'
    BY <1>1 DEF HookInv, HookTypeOK
  <1>3. NothingFromTheFuture'
    <2>1. hook.asked \in Nat /\ (hook.data # NoData => hook.data.version \in Nat)
      BY <1>1 DEF HookStates
    <2>2. \A f \in hook.flights : f.since \in Nat
      BY <1>1 DEF HookStates, Flights
    <2>3. hook.asked <= version + 1
      BY <1>1, <2>1 DEF HookInv, NothingFromTheFuture
    <2>4. hook.data # NoData => hook.data.version <= version + 1
      BY <1>1, <2>1 DEF HookInv, NothingFromTheFuture
    <2>5. \A f \in hook.flights : f.since <= version + 1
      BY <1>1, <2>2 DEF HookInv, NothingFromTheFuture
    <2> QED
      BY <1>1, <2>3, <2>4, <2>5 DEF NothingFromTheFuture
  <1>4. LatestIsWanted' /\ LatestIsUnique'
    BY <1>1 DEF HookInv, LatestIsWanted, LatestIsUnique
  <1>5. View!Change
    BY <1>1 DEF View!Change
  <1> QED
    BY <1>2, <1>3, <1>4, <1>5 DEF HookInv

\* Every step of the hook keeps the invariant and is one FreshView allows
\* (useApi).
LEMMA HookStep ==
    ASSUME HookInv, [HookNext]_hookVars
    PROVE  HookInv' /\ [View!ViewNext]_(View!viewVars)
  <1>1. hook \in HookStates /\ hidden \in BOOLEAN
    BY DEF HookInv, HookTypeOK
  <1>2. CASE Change
    BY <1>2, ServerChanges DEF View!ViewNext
  <1>3. CASE Hide
    <2>1. hook' = [hook EXCEPT !.polling = @, !.timer = FALSE]
      BY <1>1, <1>3 DEF Hide, OnHidden, HookStates
    <2>2. hook.polling \in BOOLEAN
      BY <1>1 DEF HookStates
    <2> QED
      BY <1>3, <2>1, <2>2, TimerIsSilent DEF Hide
  <1>4. CASE Return
    <2>1. version' = version /\ hidden' = FALSE
      BY <1>4 DEF Return
    <2>2. CASE hook.polling
      <3>1. hook' = [hook EXCEPT !.flights = Requested(hook.deps, FALSE),
                                 !.timer = TRUE]
        BY <1>4, <2>2 DEF Return, OnVisible
      <3> QED
        BY <2>1, <3>1, RefreshIsSilent
    <2>3. CASE ~hook.polling
      <3>1. hook' = [hook EXCEPT !.polling = @, !.timer = @]
        BY <1>1, <1>4, <2>3 DEF Return, OnVisible, HookStates
      <3>2. hook.polling \in BOOLEAN /\ hook.timer \in BOOLEAN
        BY <1>1 DEF HookStates
      <3> QED
        BY <2>1, <3>1, <3>2, TimerIsSilent
    <2> QED
      BY <2>2, <2>3
  <1>5. ASSUME NEW d \in Deps, Load(d), UNCHANGED <<version, hidden>>
        PROVE  HookInv' /\ View!Ask
    BY <1>5, LoadAsks
  <1>6. ASSUME NEW p \in BOOLEAN, SetPolling(p), UNCHANGED <<version, hidden>>
        PROVE  HookInv' /\ UNCHANGED View!viewVars
    <2>1. hook' = [hook EXCEPT !.polling = p, !.timer = p /\ ~hidden]
      BY <1>6 DEF SetPolling
    <2>2. (p /\ ~hidden) \in BOOLEAN /\ hidden' \in BOOLEAN
      BY <1>1, <1>6
    <2> QED
      BY <1>6, <2>1, <2>2, TimerIsSilent
  <1>7. CASE Tick /\ UNCHANGED <<version, hidden>>
    <2>1. hook' = [hook EXCEPT !.flights = Requested(hook.deps, FALSE), !.timer = @]
      BY <1>1, <1>7 DEF Tick, refresh, HookStates
    <2>2. hook.timer \in BOOLEAN /\ hidden' \in BOOLEAN
      BY <1>1, <1>7 DEF HookStates
    <2> QED
      BY <1>7, <2>1, <2>2, RefreshIsSilent
  <1>8. CASE Lands /\ UNCHANGED <<version, hidden>>
    BY <1>8, LandsShows DEF View!ViewNext
  <1>9. CASE UNCHANGED hookVars
    <2>1. hook' = [hook EXCEPT !.polling = @, !.timer = @]
      BY <1>1, <1>9 DEF hookVars, HookStates
    <2>2. hook.polling \in BOOLEAN /\ hook.timer \in BOOLEAN
      BY <1>1 DEF HookStates
    <2> QED
      BY <1>1, <1>9, <2>1, <2>2, TimerIsSilent DEF hookVars
  <1> QED
    BY <1>2, <1>3, <1>4, <1>5, <1>6, <1>7, <1>8, <1>9
       DEF HookNext, PageUses, View!ViewNext

\* A page mounted at any moment of the server's life starts as FreshView says
\* (useState, useEffect).
LEMMA MountedStarts ==
    ASSUME version \in Nat, hidden \in BOOLEAN,
           NEW d \in Deps, NEW polls \in BOOLEAN, hook = Mounted(d, polls)
    PROVE  HookInv /\ View!ViewInit
  <1>1. /\ hook.deps = d /\ hook.data = NoData /\ hook.error = FALSE
        /\ hook.loading = TRUE /\ hook.asked = version
        /\ hook.flights = {New(d, TRUE)}
    BY DEF Mounted, New
  <1>2. New(d, TRUE) \in Flights
    BY DEF New, Flights
  <1>3. hook \in HookStates
    BY <1>1, <1>2 DEF HookStates, Mounted, New
  <1>4. HookTypeOK
    BY <1>3 DEF HookTypeOK
  <1>5. NothingFromTheFuture /\ LatestIsWanted /\ LatestIsUnique
    BY <1>1 DEF NothingFromTheFuture, LatestIsWanted, LatestIsUnique, New
  <1>6. View!ViewInit
    BY <1>1 DEF View!ViewInit
  <1> QED
    BY <1>4, <1>5, <1>6 DEF HookInv

\* The first render of the hook on its own (useState, useEffect).
LEMMA HookStarts ==
    ASSUME HookInit
    PROVE  HookInv /\ View!ViewInit
  BY MountedStarts DEF HookInit

\* The invariant behind the request number (useApi).
THEOREM HookInvariance == HookSpec => []HookInv
  <1>1. HookInit => HookInv
    BY HookStarts
  <1>2. HookInv /\ [HookNext]_hookVars => HookInv'
    BY HookStep
  <1> QED
    BY <1>1, <1>2, PTL DEF HookSpec

\* The hook keeps FreshView's promise: what is shown answers the question
\* asked last and never grows older, however loads, refreshes and answers
\* overlap or fail (useApi).
THEOREM HookRefinement == HookSpec => ImplementsFreshView
  <1>1. HookInit => View!ViewInit
    BY HookStarts
  <1>2. HookInv /\ [HookNext]_hookVars => [View!ViewNext]_(View!viewVars)
    BY HookStep
  <1> QED
    BY <1>1, <1>2, HookInvariance, PTL DEF HookSpec, ImplementsFreshView, View!ViewSpec
=============================================================================
