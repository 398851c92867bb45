------------------------------ MODULE WebSession ------------------------------
(***************************************************************************)
(* The session of the web console: the token kept by web/src/api/client.ts *)
(* (and in sessionStorage), the connected flag of state/auth.tsx, the      *)
(* connect page, and the scopes by which internal/api/auth.go answers.     *)
(*                                                                         *)
(* A token is good for nothing, for reading, or for reading and writing.   *)
(* A read that comes back 401 ends the session; the two writes of the API  *)
(* leave it alone.                                                         *)
(***************************************************************************)
EXTENDS Integers, FiniteSets

CONSTANTS
    Tokens,      \* what can be pasted into the connect page
    NoToken,     \* token is null
    MaxRequests  \* bound: requests of the console under way at a time

ASSUME NoTokenIsNone == NoToken \notin Tokens

VARIABLES
    scope,       \* the API's token lists: scope[t] is "none", "read" or "write"
    token,       \* client.ts: the token sent with every request
    connected,   \* auth.tsx: the pages are shown, not the connect page
    submitting,  \* ConnectPage: its button is disabled
    probes,      \* tokens whose probe (listHosts in connect) is under way
    reads        \* GET requests of pages under way, see Reads

client == <<token, connected, submitting, probes>>
sessionVars == <<scope, client, reads>>

Scopes == {"none", "read", "write"}
MayRead(t) == t \in Tokens /\ scope[t] # "none"
MayWrite(t) == t \in Tokens /\ scope[t] = "write"

\* active: the page that asked still waits for the answer.
Reads == [token : Tokens \cup {NoToken}, active : BOOLEAN]

Deactivated(requests) == {[r EXCEPT !.active = FALSE] : r \in requests}

\* A tab is opened: sessionStorage is empty.
SessionInit ==
    /\ scope \in [Tokens -> Scopes]
    /\ token = NoToken
    /\ connected = FALSE
    /\ submitting = FALSE
    /\ probes = {}
    /\ reads = {}
-----------------------------------------------------------------------------
(* The server                                                              *)

\* The controller is restarted with other token files.
Rotate ==
    /\ scope' \in [Tokens -> Scopes]
    /\ UNCHANGED <<client, reads>>
-----------------------------------------------------------------------------
(* connect, disconnect, reload                                             *)

\* Mutant of Connect: the button stays enabled while a probe is under way.
ConnectAgain(t) ==
    /\ ~connected
    /\ token' = t
    /\ submitting' = TRUE
    /\ probes' = probes \cup {t}
    /\ UNCHANGED <<scope, connected, reads>>

\* The form is submitted: setToken, then the probe.
Connect(t) ==
    /\ ~connected
    /\ ~submitting
    /\ token' = t
    /\ submitting' = TRUE
    /\ probes' = probes \cup {t}
    /\ UNCHANGED <<scope, connected, reads>>

\* listHosts answers 200.  The connect page is replaced by the pages; its
\* state is gone.
ProbeAccepted(t) ==
    /\ MayRead(t)
    /\ connected' = TRUE
    /\ submitting' = FALSE
    /\ probes' = probes \ {t}
    /\ UNCHANGED <<scope, token, reads>>

\* 401, or no answer at all: clearToken.
ProbeFails(t) ==
    /\ token' = NoToken
    /\ connected' = FALSE
    /\ submitting' = FALSE
    /\ probes' = probes \ {t}
    /\ UNCHANGED <<scope, reads>>

\* The Disconnect button of the shell, which is there when connected.
disconnect ==
    /\ connected
    /\ token' = NoToken
    /\ connected' = FALSE
    /\ reads' = Deactivated(reads)
    /\ UNCHANGED <<scope, submitting, probes>>

\* The tab is reloaded: requests are dropped, sessionStorage is read, and
\* whatever token is there counts as connected.
Reload ==
    /\ connected' = (token # NoToken)
    /\ submitting' = FALSE
    /\ probes' = {}
    /\ reads' = {}
    /\ UNCHANGED <<scope, token>>
-----------------------------------------------------------------------------
(* Requests of the pages                                                   *)

\* The only GET a page still waits for is the one it sent last.
Asked == Deactivated(reads) \cup {[token |-> token, active |-> TRUE]}

\* 200 or 404, or an error other than 401, or none.
ReadEnds(r) ==
    /\ reads' = reads \ {r}
    /\ UNCHANGED <<scope, client>>

\* 401: the listener of AuthProvider; the token stays where it is.
ReadDenied(r) ==
    /\ ~MayRead(r.token)
    /\ reads' = Deactivated(reads \ {r})
    /\ connected' = FALSE
    /\ UNCHANGED <<scope, token, submitting, probes>>

SessionTypeOK ==
    /\ scope \in [Tokens -> Scopes]
    /\ token \in Tokens \cup {NoToken}
    /\ connected \in BOOLEAN
    /\ submitting \in BOOLEAN
    /\ probes \subseteq Tokens
    /\ reads \subseteq Reads
-----------------------------------------------------------------------------
(* Properties                                                              *)

\* The pages are never shown without a token to ask for their data with:
\* connect's clearToken never takes the token of a session that stands
\* (connect, ConnectPage's submitting).
ConnectedHasToken == connected => token # NoToken

\* A session ends only when the user disconnects or a read has been denied;
\* a token that may not write loses an action, not the session
\* (suppressGlobalUnauthorized).
OnlyDeniedReadsEndSessions ==
    [][connected /\ ~connected' =>
          token' = NoToken \/ \E r \in reads \ reads' : ~MayRead(r.token)]_sessionVars
=============================================================================
