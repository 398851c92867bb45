------------------------------ MODULE FreshView ------------------------------
(***************************************************************************)
(* What a page of the web console may rely on for data it fetches from the *)
(* API, whatever requests run, overlap or fail underneath.  Somebody asks  *)
(* for the data of some deps (a filter, an id); from then on, what is      *)
(* shown is replaced only by data of these deps, at least as recent as the *)
(* question and as what was shown before, and the view is called settled   *)
(* only once such an answer is on screen.                                  *)
(***************************************************************************)
EXTENDS Integers

CONSTANTS
    Deps,    \* what can be asked for
    NoData   \* nothing shown yet

VARIABLES
    now,     \* changes the server has made to the data so far
    wanted,  \* the deps last asked for
    asked,   \* the value of now when they were
    shown,   \* NoData, or the deps and the version on screen
    settled  \* the view says it is up to date: no spinner, no error

viewVars == <<now, wanted, asked, shown, settled>>

ViewInit ==
    /\ now \in Nat
    /\ wanted \in Deps
    /\ asked = now
    /\ shown = NoData
    /\ settled = FALSE

\* The data changes on the server.
Change ==
    /\ now' \in Nat
    /\ now' > now
    /\ UNCHANGED <<wanted, asked, shown, settled>>

\* A page asks: for the first time, for other deps, or again.
Ask ==
    /\ wanted' \in Deps
    /\ asked' = now
    /\ settled' = FALSE
    /\ UNCHANGED <<now, shown>>

\* An answer is shown.  It does not go back behind what was shown for the
\* same deps; it may leave the view unsettled, never unsettle it.
Show ==
    /\ \E v \in asked..now :
          /\ shown # NoData => shown.deps # wanted \/ shown.version <= v
          /\ shown' = [deps |-> wanted, version |-> v]
    /\ settled' \in {settled, TRUE}
    /\ UNCHANGED <<now, wanted, asked>>

ViewNext == Change \/ Ask \/ Show

ViewSpec == ViewInit /\ [][ViewNext]_viewVars
=============================================================================
