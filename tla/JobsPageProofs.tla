---------------------------- MODULE JobsPageProofs ----------------------------
(***************************************************************************)
(* The jobs page, for any filters and inventory and any number of submits. *)
(*                                                                         *)
(* The list is a use of the hook, so what the page needs of it is taken    *)
(* from FreshView alone: a settled view shows something fetched after the  *)
(* last question.  Closing the dialog is a question put after everything   *)
(* the dialog has said.                                                    *)
(***************************************************************************)
EXTENDS JobsPage, UseApiProofs, FiniteSetTheorems

\* A view without spinner or error answers the last question (useApi).
SettledIsFresh ==
    ~hook.loading /\ ~hook.error =>
        hook.data # NoData /\ hook.asked <= hook.data.version

\* Types of what the page and its dialog keep (JobsPage, TriggerBackupModal).
DialogTypeOK ==
    /\ version \in 0..MaxVersion
    /\ hosts \in {"loading", "known", "failed"}
    /\ dialog \in Dialogs
    /\ presses \in 0..MaxSubmits
    /\ submits \subseteq Submits
    /\ told \in 0..MaxVersion

\* The jobs that answers name are in the table (CreateJob commits first).
JobsAreThere == told <= version /\ \A s \in submits : s.job <= version

\* Nothing was announced after the list last asked, unless the dialog still
\* covers it (JobsPage's onClose).
ToldBeforeAsked == ~dialog.open => told <= hook.asked

\* In a dialog opened with nothing under way, submitting, the submit and the
\* press that caused it go together (handleSubmit).
OwnSubmit ==
    dialog.open /\ dialog.fresh =>
        /\ dialog.error \/ dialog.queued # 0 \/ dialog.submitting => dialog.pressed
        /\ dialog.submitting <=> submits # {}
        /\ \A s, t \in submits : s = t

PageInv ==
    /\ HookInv /\ SettledIsFresh
    /\ DialogTypeOK /\ JobsAreThere /\ ToldBeforeAsked /\ OwnSubmit
-----------------------------------------------------------------------------
(* The list                                                                *)

\* Whatever the page does is a use of the hook, or leaves it alone (useApi).
LEMMA PageUsesHook ==
    ASSUME HookInv, [PageNext]_pageVars
    PROVE  [HookNext]_hookVars
  <1>0. hook.deps \in Deps
    BY DEF HookInv, HookTypeOK, HookStates
  <1>1. CASE List
    BY <1>0, <1>1 DEF List, Filter, Retry, PageUses, HookNext
  <1>2. CASE Surroundings
    BY <1>2 DEF Surroundings, HookNext
  <1>3. CASE HostsAnswer \/ UNCHANGED pageVars
    BY <1>3 DEF HostsAnswer, pageVars, hookVars
  <1>4. CASE Open \/ Choose \/ Submit
    BY <1>4 DEF Open, Choose, Submit, ListUnchanged, hookVars
  <1>5. CASE Close
    BY <1>0, <1>5 DEF Close, PageUses, HookNext
  <1>6. ASSUME NEW s \in submits, Accept(s)
        PROVE  Change
    BY <1>6 DEF Accept, Change
  <1>7. ASSUME NEW s \in submits, Queued(s) \/ Refused(s)
        PROVE  UNCHANGED hookVars
    BY <1>7 DEF Queued, Refused, ListUnchanged, hookVars
  <1> QED
    BY <1>1, <1>2, <1>3, <1>4, <1>5, <1>6, <1>7 DEF PageNext, Dialog, HookNext

\* What a view step says of questions and answers (FreshView).
LEMMA ViewSettles ==
    ASSUME HookInv, SettledIsFresh, [HookNext]_hookVars
    PROVE  /\ HookInv' /\ SettledIsFresh'
           /\ hook'.asked = hook.asked \/ hook'.asked = version
           /\ version <= version'
  <1>1. HookInv' /\ [View!ViewNext]_(View!viewVars)
    BY HookStep
  <1>2. /\ version \in Nat /\ hook.asked \in Nat /\ hook.deps \in Deps
        /\ hook.asked <= version
    BY DEF HookInv, HookTypeOK, HookStates, NothingFromTheFuture
  <1>3. CASE View!Change
    BY <1>1, <1>2, <1>3 DEF View!Change, SettledIsFresh
  <1>4. CASE View!Ask
    BY <1>1, <1>2, <1>4 DEF View!Ask, SettledIsFresh
  <1>5. CASE View!Show
    <2>1. PICK v \in hook.asked..version :
              hook'.data = [deps |-> hook.deps, version |-> v]
      BY <1>5 DEF View!Show
    <2>2. hook'.data # NoData
      BY <1>2, <2>1, NoDataIsNoAnswer
    <2>3. hook'.asked = hook.asked /\ version' = version
      BY <1>5 DEF View!Show
    <2>4. hook'.asked <= hook'.data.version
      BY <1>2, <2>1, <2>3
    <2> QED
      BY <1>1, <1>2, <2>2, <2>3, <2>4 DEF SettledIsFresh
  <1>6. CASE UNCHANGED View!viewVars
    BY <1>1, <1>2, <1>6 DEF View!viewVars, SettledIsFresh
  <1> QED
    BY <1>1, <1>3, <1>4, <1>5, <1>6 DEF View!ViewNext
-----------------------------------------------------------------------------
(* The dialog                                                              *)

\* The dialog as it is when it opens (TriggerBackupModal's useState, effect).
LEMMA FirstOfferIsOffered == FirstOffer \in Offers
  BY OffersArePairs DEF FirstOffer

\* Types survive every step (JobsPage, TriggerBackupModal).
LEMMA DialogTypeStep ==
    ASSUME PageInv, [PageNext]_pageVars
    PROVE  DialogTypeOK'
  <1> USE DEF DialogTypeOK
  <1>0. /\ DialogTypeOK /\ MaxVersion \in Nat /\ MaxSubmits \in Nat
        /\ 0 \in 0..MaxVersion
    BY BoundsAreNat, MaxSubmitsIsNat DEF PageInv
  <1>1. CASE List \/ Surroundings
    <2>1. UNCHANGED <<hosts, dialog, presses, submits, told>>
      BY <1>1 DEF List, Surroundings, DialogUnchanged
    <2>2. version' \in 0..MaxVersion
      BY <1>0, <1>1 DEF List, Surroundings, Hide, Return, Change
    <2> QED
      BY <1>0, <2>1, <2>2
  <1>2. CASE HostsAnswer
    BY <1>0, <1>2 DEF HostsAnswer, hookVars
  <1>3. CASE Open
    <2>1. dialog' \in Dialogs
      BY <1>0, <1>3, FirstOfferIsOffered DEF Open, Dialogs
    <2> QED
      BY <1>0, <1>3, <2>1 DEF Open, ListUnchanged, hookVars
  <1>4. CASE Choose
    <2>1. dialog' \in Dialogs
      BY <1>0, <1>4 DEF Choose, Dialogs
    <2> QED
      BY <1>0, <1>4, <2>1 DEF Choose, ListUnchanged, hookVars
  <1>5. CASE Submit
    <2>1. dialog' \in Dialogs
      BY <1>0, <1>5 DEF Submit, Dialogs
    <2>2. presses' \in 0..MaxSubmits /\ presses' \in 1..MaxSubmits
      BY <1>0, <1>5 DEF Submit
    <2>3. submits' \subseteq Submits
      BY <1>0, <1>5, <2>2 DEF Submit, Submits
    <2> QED
      BY <1>0, <1>5, <2>1, <2>2, <2>3 DEF Submit, ListUnchanged, hookVars
  <1>6. CASE Close
    <2>1. dialog' \in Dialogs
      BY <1>0, <1>6 DEF Close, Dialogs
    <2> QED
      BY <1>0, <1>6, <2>1 DEF Close
  <1>7. ASSUME NEW s \in submits, Accept(s)
        PROVE  DialogTypeOK'
    <2>1. version' \in 0..MaxVersion
      BY <1>0, <1>7 DEF Accept
    <2>2. [s EXCEPT !.job = version'] \in Submits
      BY <1>0, <2>1 DEF Submits
    <2>3. submits' \subseteq Submits
      BY <1>0, <1>7, <2>2 DEF Accept
    <2> QED
      BY <1>0, <1>7, <2>1, <2>3 DEF Accept
  <1>8. ASSUME NEW s \in submits, Queued(s)
        PROVE  DialogTypeOK'
    <2>1. s.job \in 0..MaxVersion
      BY <1>0 DEF Submits
    <2>2. dialog' \in Dialogs /\ told' \in 0..MaxVersion
      BY <1>0, <1>8, <2>1 DEF Queued, Dialogs
    <2> QED
      BY <1>0, <1>8, <2>2 DEF Queued, ListUnchanged, hookVars
  <1>9. ASSUME NEW s \in submits, Refused(s)
        PROVE  DialogTypeOK'
    <2>1. dialog' \in Dialogs
      BY <1>0, <1>9 DEF Refused, Dialogs
    <2> QED
      BY <1>0, <1>9, <2>1 DEF Refused, ListUnchanged, hookVars
  <1>10. CASE UNCHANGED pageVars
    BY <1>0, <1>10 DEF pageVars, hookVars
  <1> QED
    BY <1>1, <1>2, <1>3, <1>4, <1>5, <1>6, <1>7, <1>8, <1>9, <1>10
       DEF PageNext, Dialog

\* No answer names a job before the table has it (triggerBackupHandler).
LEMMA JobsAreThereStep ==
    ASSUME PageInv, [PageNext]_pageVars, version <= version'
    PROVE  JobsAreThere'
  <1>1. /\ told \in Nat /\ version \in Nat /\ version' \in Nat
        /\ \A s \in submits : s \in Submits /\ s.job \in Nat
    BY DialogTypeStep DEF PageInv, DialogTypeOK, Submits
  <1>2. told <= version /\ \A s \in submits : s.job <= version
    BY DEF PageInv, JobsAreThere
  <1>3. CASE UNCHANGED <<submits, told>>
    BY <1>1, <1>2, <1>3 DEF JobsAreThere
  <1>4. CASE Submit
    <2>1. told' = told /\ submits' = submits \cup {[no |-> presses', job |-> 0]}
      BY <1>4 DEF Submit
    <2>2. \A s \in submits' : s.job <= version'
      BY <1>1, <1>2, <2>1
    <2> QED
      BY <1>1, <1>2, <2>1, <2>2 DEF JobsAreThere
  <1>5. ASSUME NEW s \in submits, Accept(s)
        PROVE  JobsAreThere'
    <2>1. /\ told' = told
          /\ submits' = (submits \ {s}) \cup {[s EXCEPT !.job = version']}
      BY <1>5 DEF Accept
    <2>2. [s EXCEPT !.job = version'].job = version'
      BY <1>1 DEF Submits
    <2>3. ASSUME NEW t \in submits'
          PROVE  t.job <= version'
      <3>1. CASE t \in submits
        BY <1>1, <1>2, <3>1
      <3>2. CASE t = [s EXCEPT !.job = version']
        BY <1>1, <2>2, <3>2
      <3> QED
        BY <2>1, <3>1, <3>2
    <2> QED
      BY <1>1, <1>2, <2>1, <2>3 DEF JobsAreThere
  <1>6. ASSUME NEW s \in submits, Queued(s) \/ Refused(s)
        PROVE  JobsAreThere'
    <2>1. submits' = submits \ {s} /\ (told' = told \/ told' = s.job)
      BY <1>6 DEF Queued, Refused
    <2> QED
      BY <1>1, <1>2, <2>1 DEF JobsAreThere
  <1> QED
    BY <1>3, <1>4, <1>5, <1>6
       DEF PageNext, Dialog, List, Surroundings, DialogUnchanged, HostsAnswer,
           Open, Choose, Close, pageVars

\* While the dialog is closed nothing is announced, and closing it asks
\* (onClose).
LEMMA ToldStep ==
    ASSUME PageInv, [PageNext]_pageVars,
           hook'.asked = hook.asked \/ hook'.asked = version
    PROVE  ToldBeforeAsked'
  <1>1. told <= version /\ (~dialog.open => told <= hook.asked)
    BY DEF PageInv, JobsAreThere, ToldBeforeAsked
  <1>2. dialog \in Dialogs
    BY DEF PageInv, DialogTypeOK
  <1>3. CASE UNCHANGED <<dialog, told>>
    BY <1>1, <1>3 DEF ToldBeforeAsked
  <1>4. CASE Open
    BY <1>4 DEF Open, ToldBeforeAsked
  <1>5. CASE Choose \/ Submit
    <2>1. dialog.open /\ dialog'.open
      BY <1>2, <1>5 DEF Choose, Submit, Editing, Dialogs
    <2> QED
      BY <2>1 DEF ToldBeforeAsked
  <1>6. CASE Close
    <2>1. told' = told /\ hook' = [hook EXCEPT !.deps = hook.deps, !.loading = TRUE,
                                      !.error = FALSE, !.asked = version,
                                      !.flights = Requested(hook.deps, TRUE)]
      BY <1>6 DEF Close, Load
    <2>2. hook \in HookStates
      BY DEF PageInv, HookInv, HookTypeOK
    <2>3. hook'.asked = version
      BY <2>1, <2>2 DEF HookStates
    <2> QED
      BY <1>1, <2>1, <2>3 DEF ToldBeforeAsked
  <1>7. ASSUME NEW s \in submits, Queued(s) \/ Refused(s)
        PROVE  ToldBeforeAsked'
    <2>1. dialog'.open = dialog.open
      BY <1>2, <1>7 DEF Queued, Refused, Dialogs
    <2>2. ~dialog.open => told' = told
      BY <1>7 DEF Queued, Refused
    <2> QED
      BY <1>1, <2>1, <2>2 DEF ToldBeforeAsked
  <1> QED
    BY <1>3, <1>4, <1>5, <1>6, <1>7
       DEF PageNext, Dialog, List, Surroundings, DialogUnchanged, HostsAnswer,
           Accept, pageVars

\* One submit at a time, and its outcome shown once (handleSubmit).
LEMMA OwnSubmitStep ==
    ASSUME PageInv, [PageNext]_pageVars
    PROVE  OwnSubmit'
  <1>1. dialog \in Dialogs /\ OwnSubmit
    BY DEF PageInv, DialogTypeOK
  <1>2. CASE UNCHANGED <<dialog, submits>>
    BY <1>1, <1>2 DEF OwnSubmit
  <1>3. CASE Open
    BY <1>3 DEF Open, OwnSubmit
  <1>4. CASE Choose
    <2>1. /\ submits' = submits /\ dialog'.open = dialog.open
          /\ dialog'.fresh = dialog.fresh /\ dialog'.error = dialog.error
          /\ dialog'.queued = dialog.queued /\ dialog'.pressed = dialog.pressed
          /\ dialog'.submitting = dialog.submitting
      BY <1>1, <1>4 DEF Choose, Dialogs
    <2> QED
      BY <1>1, <2>1 DEF OwnSubmit
  <1>5. CASE Submit
    <2>1. /\ submits' = submits \cup {[no |-> presses', job |-> 0]}
          /\ ~dialog.submitting
          /\ dialog'.open = dialog.open /\ dialog'.fresh = dialog.fresh
          /\ dialog'.submitting = TRUE /\ dialog'.pressed = TRUE
      BY <1>1, <1>5 DEF Submit, Dialogs
    <2> QED
      BY <1>1, <2>1 DEF OwnSubmit
  <1>6. CASE Close
    <2>1. dialog'.open = FALSE
      BY <1>1, <1>6 DEF Close, Dialogs
    <2> QED
      BY <2>1 DEF OwnSubmit
  <1>7. ASSUME NEW s \in submits, Accept(s)
        PROVE  OwnSubmit'
    BY <1>1, <1>7 DEF Accept, OwnSubmit
  <1>8. ASSUME NEW s \in submits, Queued(s) \/ Refused(s)
        PROVE  OwnSubmit'
    <2>1. /\ submits' = submits \ {s}
          /\ dialog'.open = dialog.open /\ dialog'.fresh = dialog.fresh
          /\ dialog'.submitting = FALSE /\ dialog'.pressed = dialog.pressed
      BY <1>1, <1>8 DEF Queued, Refused, Dialogs
    <2> QED
      BY <1>1, <2>1 DEF OwnSubmit
  <1> QED
    BY <1>2, <1>3, <1>4, <1>5, <1>6, <1>7, <1>8
       DEF PageNext, Dialog, List, Surroundings, DialogUnchanged, HostsAnswer,
           pageVars
-----------------------------------------------------------------------------
(* The page                                                                *)

\* The page as it is first shown (JobsPage, TriggerBackupModal).
LEMMA PageStarts ==
    ASSUME PageInit
    PROVE  HookInit /\ PageInv
  <1>1. HookInit
    BY DEF PageInit, HookInit
  <1>2. HookInv /\ hook.loading
    <2>1. HookInv
      BY <1>1, HookStarts
    <2>2. hook.loading
      BY <1>1 DEF HookInit, Mounted
    <2> QED
      BY <2>1, <2>2
  <1>3. /\ version = 0 /\ hosts = "loading" /\ presses = 0 /\ submits = {} /\ told = 0
        /\ dialog = [open |-> FALSE, pair |-> FirstOffer, submitting |-> FALSE,
                     error |-> FALSE, queued |-> 0, pressed |-> FALSE, fresh |-> TRUE]
    BY DEF PageInit
  <1>4. MaxVersion \in Nat /\ MaxSubmits \in Nat
    BY BoundsAreNat, MaxSubmitsIsNat
  <1>5. DialogTypeOK
    BY <1>3, <1>4, FirstOfferIsOffered DEF DialogTypeOK, Dialogs, Submits
  <1>6. hook.asked \in Nat
    BY <1>2 DEF HookInv, HookTypeOK, HookStates
  <1>7. JobsAreThere /\ ToldBeforeAsked /\ OwnSubmit /\ SettledIsFresh
    BY <1>2, <1>3, <1>6 DEF JobsAreThere, ToldBeforeAsked, OwnSubmit, SettledIsFresh
  <1> QED
    BY <1>1, <1>2, <1>5, <1>7 DEF PageInv

\* The invariant of page and dialog (JobsPage, TriggerBackupModal).
THEOREM PageInvariance == PageSpec => []PageInv
  <1>1. PageInit => PageInv
    BY PageStarts
  <1>2. PageInv /\ [PageNext]_pageVars => PageInv'
    BY PageUsesHook, ViewSettles, DialogTypeStep, JobsAreThereStep, ToldStep,
       OwnSubmitStep DEF PageInv
  <1> QED
    BY <1>1, <1>2, PTL DEF PageSpec

\* Every variable of the page keeps its type, and what may be submitted is
\* in the inventory (TriggerBackupModal).
THEOREM PageTypeCorrect == PageSpec => []JobsPageTypeOK
  <1>1. PageInv => JobsPageTypeOK
    BY DEF PageInv, HookInv, HookTypeOK, DialogTypeOK, JobsPageTypeOK
  <1> QED
    BY <1>1, PageInvariance, PTL

\* A job the dialog has announced is in the list behind it once that settles
\* (JobsPage's onClose).
THEOREM AnnouncedJobsAreListed == PageSpec => []ToldJobsAreListed
  <1>1. PageInv => ToldJobsAreListed
    <2> SUFFICES ASSUME PageInv, ~dialog.open, ~hook.loading, ~hook.error
                 PROVE  hook.data.version >= told
      BY DEF ToldJobsAreListed
    <2>1. hook.data # NoData /\ hook.asked <= hook.data.version /\ told <= hook.asked
      BY DEF PageInv, SettledIsFresh, ToldBeforeAsked
    <2>2. hook.asked \in Nat /\ told \in Nat /\ hook.data.version \in Nat
      BY <2>1 DEF PageInv, HookInv, HookTypeOK, HookStates, DialogTypeOK
    <2> QED
      BY <2>1, <2>2
  <1> QED
    BY <1>1, PageInvariance, PTL

\* A dialog opened with no submit under way reports on its own, and on one at
\* a time (TriggerBackupModal).
THEOREM NoticesAreOwn == PageSpec => []NoticeIsOwn
  <1>1. PageInv => NoticeIsOwn
    <2> SUFFICES ASSUME PageInv, dialog.open, dialog.fresh
                 PROVE  /\ dialog.error \/ dialog.queued # 0 => dialog.pressed
                        /\ dialog.submitting <=> submits # {}
                        /\ Cardinality(submits) <= 1
      BY DEF NoticeIsOwn
    <2>1. /\ dialog.error \/ dialog.queued # 0 => dialog.pressed
          /\ dialog.submitting <=> submits # {}
          /\ \A s, t \in submits : s = t
      BY DEF PageInv, OwnSubmit
    <2>2. CASE submits = {}
      BY <2>1, <2>2, FS_EmptySet
    <2>3. CASE submits # {}
      <3>1. PICK s : submits = {s}
        BY <2>1, <2>3
      <3>2. Cardinality(submits) = 1
        BY <3>1, FS_Singleton
      <3> QED
        BY <2>1, <3>2
    <2> QED
      BY <2>2, <2>3
  <1> QED
    BY <1>1, PageInvariance, PTL

\* On this page, too, the list keeps FreshView's promise (JobsPage's
\* jobsState).
THEOREM ListRefinement == PageSpec => ImplementsFreshView
  <1>1. PageInit => View!ViewInit
    BY PageStarts, HookStarts
  <1>2. PageInv /\ [PageNext]_pageVars => [View!ViewNext]_(View!viewVars)
    BY PageUsesHook, HookStep DEF PageInv
  <1> QED
    BY <1>1, <1>2, PageInvariance, PTL DEF PageSpec, ImplementsFreshView, View!ViewSpec
=============================================================================
