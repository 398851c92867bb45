------------------------------- MODULE JobsPage -------------------------------
(***************************************************************************)
(* The jobs page (web/src/pages/JobsPage.tsx) with the dialog that triggers*)
(* a backup (components/TriggerBackupModal.tsx) and POST /v1/backups behind*)
(* it.  The dashboard uses the same hook and dialog, without a filter.     *)
(*                                                                         *)
(* version counts the changes of the jobs table; a job accepted by the API *)
(* is named by the version that has it first.  hook is jobsState, its deps *)
(* the status filter.                                                      *)
(***************************************************************************)
EXTENDS UseApi

CONSTANTS
    Offers,     \* inventory: the <<host, plugin>> pairs listHosts returns
    MaxSubmits  \* bound: presses of "Trigger backup" in the dialog

ASSUME OffersArePairs == Offers # {} /\ \A o \in Offers : o = <<o[1], o[2]>>
ASSUME MaxSubmitsIsNat == MaxSubmits \in Nat

VARIABLES
    hosts,    \* hostsState: "loading", "known" or "failed"
    dialog,   \* the state of TriggerBackupModal, see Dialogs
    presses,  \* submits so far, at most MaxSubmits
    submits,  \* the POST requests under way
    told      \* history: the last job the dialog said was queued, 0 if none

pageVars == <<hookVars, hosts, dialog, presses, submits, told>>

\* queued: queuedJobId, 0 for null.  History: pressed, the dialog was
\* submitted since it was opened; fresh, no submit was under way then.
Dialogs == [open : BOOLEAN, pair : Offers, submitting : BOOLEAN,
            error : BOOLEAN, queued : 0..MaxVersion,
            pressed : BOOLEAN, fresh : BOOLEAN]

\* job: the row the server has made of it, 0 as long as there is none.
Submits == [no : 1..MaxSubmits, job : 0..MaxVersion]

\* hosts[0] and its first plugin.
FirstOffer == CHOOSE o \in Offers : TRUE

PageInit ==
    /\ version = 0
    /\ hidden \in BOOLEAN
    /\ \E d \in Deps : hook = Mounted(d, TRUE)
    /\ hosts = "loading"
    /\ dialog = [open |-> FALSE, pair |-> FirstOffer, submitting |-> FALSE,
                 error |-> FALSE, queued |-> 0, pressed |-> FALSE, fresh |-> TRUE]
    /\ presses = 0
    /\ submits = {}
    /\ told = 0
-----------------------------------------------------------------------------
(* The list                                                                *)

DialogUnchanged == UNCHANGED <<hosts, dialog, presses, submits, told>>

\* The select sets status, or Retry is pressed under an error notice.  The
\* dialog covers both.
Filter(d) == ~dialog.open /\ d # hook.deps /\ Load(d)
Retry == ~dialog.open /\ hook.error /\ Load(hook.deps)

List ==
    /\ (\E d \in Deps : Filter(d)) \/ Retry \/ Tick \/ Lands
    /\ UNCHANGED <<version, hidden>>
    /\ DialogUnchanged

\* The document is hidden or shown; scheduler and consumer change the table.
Surroundings == (Hide \/ Return \/ Change) /\ DialogUnchanged

\* listHosts is asked once; its error is shown nowhere.
HostsAnswer ==
    /\ hosts = "loading"
    /\ hosts' \in {"known", "failed"}
    /\ UNCHANGED <<hookVars, dialog, presses, submits, told>>
-----------------------------------------------------------------------------
(* The dialog                                                              *)

ListUnchanged == UNCHANGED <<hookVars, hosts>>

\* Mutant of Open: the dialog stays mounted, and nothing resets it.
OpenAsLeft ==
    /\ hosts = "known" /\ ~dialog.open
    /\ dialog' = [dialog EXCEPT !.open = TRUE, !.pressed = FALSE,
                                !.fresh = submits = {}]
    /\ ListUnchanged /\ UNCHANGED <<presses, submits, told>>

\* "Trigger backup" on the page, disabled without hosts; the effect on [open].
Open ==
    /\ hosts = "known" /\ ~dialog.open
    /\ dialog' = [open |-> TRUE, pair |-> FirstOffer, submitting |-> FALSE,
                  error |-> FALSE, queued |-> 0,
                  pressed |-> FALSE, fresh |-> submits = {}]
    /\ ListUnchanged /\ UNCHANGED <<presses, submits, told>>

\* The form is on screen, and not "Backup queued".
Editing == dialog.open /\ dialog.queued = 0

\* Mutant of Choose: no effect on [host], the plugin stays what it was.
ChooseHostOnly ==
    /\ Editing
    /\ \E o \in Offers :
         dialog' = [dialog EXCEPT !.pair = <<o[1], dialog.pair[2]>>]
    /\ ListUnchanged /\ UNCHANGED <<presses, submits, told>>

\* The effect on [host]: only a plugin that the host does not have is replaced.
KeepsPlugin(o) ==
    o[1] # dialog.pair[1] =>
        o[2] = dialog.pair[2] \/ <<o[1], dialog.pair[2]>> \notin Offers

\* The select of the host, and that of the plugin.
Choose ==
    /\ Editing
    /\ \E o \in Offers :
         /\ KeepsPlugin(o)
         /\ dialog' = [dialog EXCEPT !.pair = o]
    /\ ListUnchanged /\ UNCHANGED <<presses, submits, told>>

\* handleSubmit, up to the POST; the button is disabled while submitting.
Submit ==
    /\ Editing
    /\ ~dialog.submitting
    /\ presses < MaxSubmits
    /\ presses' = presses + 1
    /\ submits' = submits \cup {[no |-> presses', job |-> 0]}
    /\ dialog' = [dialog EXCEPT !.submitting = TRUE, !.error = FALSE, !.pressed = TRUE]
    /\ ListUnchanged /\ UNCHANGED told

\* triggerBackupHandler: CreateJob has committed the row.
Accept(s) ==
    /\ s.job = 0
    /\ version < MaxVersion
    /\ version' = version + 1
    /\ submits' = (submits \ {s}) \cup {[s EXCEPT !.job = version']}
    /\ UNCHANGED <<hidden, hook, hosts, dialog, presses, told>>

\* The 202 arrives: setQueuedJobId, and finally setSubmitting(false), whether
\* the dialog is still the one that was submitted, closed, or open again.
Queued(s) ==
    /\ s.job # 0
    /\ submits' = submits \ {s}
    /\ dialog' = [dialog EXCEPT !.queued = s.job, !.submitting = FALSE]
    /\ told' = IF dialog.open THEN s.job ELSE told
    /\ ListUnchanged /\ UNCHANGED presses

\* 401, 400, 404 or 500, or no answer at all, the row made or not.
Refused(s) ==
    /\ submits' = submits \ {s}
    /\ dialog' = [dialog EXCEPT !.error = TRUE, !.submitting = FALSE]
    /\ ListUnchanged /\ UNCHANGED <<presses, told>>

\* Mutant of Close: the list is left to its timer.
CloseUnreloaded ==
    /\ dialog.open
    /\ dialog' = [dialog EXCEPT !.open = FALSE]
    /\ ListUnchanged /\ UNCHANGED <<presses, submits, told>>

\* onClose: Cancel, Close, Escape or the backdrop; submits go on.
Close ==
    /\ dialog.open
    /\ dialog' = [dialog EXCEPT !.open = FALSE]
    /\ Load(hook.deps)
    /\ UNCHANGED <<version, hidden, hosts, presses, submits, told>>

Dialog ==
    \/ Open \/ Choose \/ Submit \/ Close
    \/ \E s \in submits : Accept(s) \/ Queued(s) \/ Refused(s)

PageNext == List \/ Surroundings \/ HostsAnswer \/ Dialog

PageSpec == PageInit /\ [][PageNext]_pageVars
-----------------------------------------------------------------------------
(* Properties                                                              *)

\* Type invariant of the page; what may be submitted is in the inventory
\* (useApi, TriggerBackupModal).
JobsPageTypeOK ==
    /\ version \in 0..MaxVersion
    /\ hidden \in BOOLEAN
    /\ hook \in HookStates
    /\ hosts \in {"loading", "known", "failed"}
    /\ dialog \in Dialogs
    /\ presses \in 0..MaxSubmits
    /\ submits \subseteq Submits
    /\ told \in 0..MaxVersion

\* Once the dialog is closed, a list without spinner or error shows a state
\* of the table with every job the dialog has said was queued (JobsPage's
\* onClose, whatever load, filter and refresh do to each other meanwhile).
ToldJobsAreListed ==
    ~dialog.open /\ ~hook.loading /\ ~hook.error => hook.data.version >= told

\* A dialog opened with no submit under way shows only what came of its own
\* submit, and has one at a time, exactly while it says so
\* (TriggerBackupModal's reset on open, handleSubmit).
NoticeIsOwn ==
    dialog.open /\ dialog.fresh =>
        /\ dialog.error \/ dialog.queued # 0 => dialog.pressed
        /\ dialog.submitting <=> submits # {}
        /\ Cardinality(submits) <= 1
=============================================================================
