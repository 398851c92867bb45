--------------------------- MODULE ConfigFormProofs ---------------------------
(***************************************************************************)
(* The plugin settings form and its session, for any tokens, any form and  *)
(* any number of requests under way.                                       *)
(*                                                                         *)
(* Three invariants: of the session (a probe under way is for the token    *)
(* that is set), of the requests (the page waits for one answer to each    *)
(* kind of question), and of the form (what is not touched is as received).*)
(***************************************************************************)
EXTENDS ConfigForm, TLAPS

\* The probe under way, if any, is for the token that is set, and the connect
\* page is shown meanwhile (connect, ConnectPage).
SessionInv ==
    /\ SessionTypeOK
    /\ submitting <=> probes # {}
    /\ \A t \in probes : t = token
    /\ submitting => ~connected
    /\ ConnectedHasToken

\* One GET and one PUT at a time are waited for, and the page's flags say so
\* (usePluginConfigForm).
RequestsInv ==
    /\ puts \subseteq Puts
    /\ \A r, s \in reads : r.active /\ s.active => r = s
    /\ \A p, q \in puts : p.active /\ q.active => p = q
    /\ page.mounted => connected
    /\ page.saving => page.mounted
    /\ page.saving <=> \E p \in puts : p.active
    /\ page.mounted /\ page.loading <=> \E r \in reads : r.active

\* An input nobody has touched holds what the server last told the page
\* (setForm, onConfigLoaded).
AsReceived(q) ==
    IF q \in ListParts THEN page.text[q] = page.base[q]
                       ELSE page.form[q] = page.base[q]

ShownIsKnown ==
    FormShown => /\ page.base # NoConfig
                 /\ \A q \in Parts \ page.touched : AsReceived(q)

\* The form: its flags exclude each other, and "Saved" is true.
PageInv ==
    /\ stored \in Config \cup {NoConfig}
    /\ page \in Pages
    /\ page.loading => ~page.saved /\ ~page.saving
    /\ page.saving => ~page.saved
    /\ page.saved => page.base # NoConfig
    /\ SavedIsStored
    /\ ShownIsKnown

FormInv == SessionInv /\ RequestsInv /\ PageInv
-----------------------------------------------------------------------------
(* Data                                                                    *)

\* The empty form is a config (emptyInformixConfig and its like).
LEMMA EmptyIsConfig == emptyConfig \in Config
  BY ValuesAreClosed DEF emptyConfig, Config

\* What is saved is a config (handleSubmit, splitList).
LEMMA PayloadIsConfig ==
    ASSUME page \in Pages
    PROVE  Payload \in Config
  <1>1. page.form \in [Parts -> Values] /\ page.text \in [ListParts -> Values]
    BY DEF Pages, Config
  <1>2. \A v \in Values : splitList(v) \in Values
    BY ValuesAreClosed DEF splitList
  <1> QED
    BY <1>1, <1>2, ListsAreParts DEF Payload, Config

\* The page when mounted, and when gone (useState).
LEMMA FreshPage ==
    /\ Fresh \in Pages /\ Elsewhere \in Pages
    /\ Fresh.mounted /\ ~Elsewhere.mounted
    /\ Fresh.loading /\ ~Fresh.saving /\ ~Fresh.saved
    /\ Elsewhere.loading /\ ~Elsewhere.saving /\ ~Elsewhere.saved
  BY EmptyIsConfig, ValuesAreClosed DEF Fresh, Elsewhere, Pages

\* What a received config makes of the page (setForm, onConfigLoaded).
LEMMA AdoptedPage ==
    ASSUME page \in Pages, NEW cfg \in Config
    PROVE  /\ Adopt(cfg) \in Pages
           /\ Adopt(cfg).base = cfg /\ Adopt(cfg).form = cfg
           /\ \A p \in ListParts : Adopt(cfg).text[p] = cfg[p]
           /\ Adopt(cfg).mounted = page.mounted
           /\ Adopt(cfg).loading = page.loading
           /\ Adopt(cfg).saving = page.saving /\ Adopt(cfg).saved = page.saved
  <1>1. [p \in ListParts |-> cfg[p]] \in [ListParts -> Values]
    BY ListsAreParts DEF Config
  <1> QED
    BY <1>1 DEF Adopt, Pages

\* No request of a page that is gone is waited for (active = false).
LEMMA DeactivatedReads ==
    ASSUME NEW R, R \subseteq Reads
    PROVE  Deactivated(R) \subseteq Reads /\ \A r \in Deactivated(R) : ~r.active
  BY DEF Deactivated, Reads

\* Nor is any write of such a page.
LEMMA DeactivatedPuts ==
    ASSUME NEW P, P \subseteq Puts
    PROVE  Deactivated(P) \subseteq Puts /\ \A p \in Deactivated(P) : ~p.active
  BY DEF Deactivated, Puts
-----------------------------------------------------------------------------
(* The session                                                             *)

\* The session keeps its invariant, whatever the form does (auth.tsx,
\* client.ts).
LEMMA SessionStep ==
    ASSUME FormInv, [FormNext]_allVars
    PROVE  SessionInv'
  <1> USE DEF SessionInv, SessionTypeOK, ConnectedHasToken
  <1>1. SessionInv /\ reads \subseteq Reads
    BY DEF FormInv
  <1>2. Deactivated(reads) \subseteq Reads /\ Asked \subseteq Reads
    <2>1. Deactivated(reads) \subseteq Reads
      BY <1>1, DeactivatedReads
    <2>2. [token |-> token, active |-> TRUE] \in Reads
      BY <1>1 DEF Reads
    <2> QED
      BY <2>1, <2>2 DEF Asked
  <1>3. \A r \in reads : Deactivated(reads \ {r}) \subseteq Reads
    BY <1>1, DeactivatedReads
  <1>4. CASE Rotate /\ UNCHANGED formVars
    BY <1>1, <1>4 DEF Rotate, client
  <1>5. ASSUME NEW t \in Tokens, Connect(t)
        PROVE  SessionInv'
    BY <1>1, <1>5, NoTokenIsNone DEF Connect
  <1>6. ASSUME NEW t \in probes, ProbeAccepted(t)
        PROVE  SessionInv'
    BY <1>1, <1>6, NoTokenIsNone DEF ProbeAccepted
  <1>7. ASSUME NEW t \in probes, ProbeFails(t)
        PROVE  SessionInv'
    BY <1>1, <1>7 DEF ProbeFails
  <1>8. CASE Disconnect
    BY <1>1, <1>2, <1>8 DEF Disconnect, disconnect
  <1>9. CASE ReloadTab
    BY <1>1, <1>9 DEF ReloadTab, Reload
  <1>10. CASE Mount
    BY <1>1, <1>2, <1>10 DEF Mount, client
  <1>11. CASE Leave
    BY <1>1, <1>2, <1>11 DEF Leave, client
  <1>12. ASSUME NEW r \in reads, LoadOK(r) \/ LoadFails(r) \/ StaleReadEnds(r)
         PROVE  SessionInv'
    BY <1>1, <1>12 DEF LoadOK, LoadFails, StaleReadEnds, ReadEnds, client
  <1>13. ASSUME NEW r \in reads, Denied(r)
         PROVE  SessionInv'
    BY <1>1, <1>3, <1>13 DEF Denied, ReadDenied
  <1>14. ASSUME UNCHANGED sessionVars
         PROVE  SessionInv'
    BY <1>1, <1>14 DEF sessionVars, client
  <1>15. ASSUME \/ \E p \in Parts, v \in Values : Edit(p, v)
                \/ Save
                \/ \E p \in puts : PutAnswered(p) \/ PutUnanswered(p) \/ PutRefused(p)
                \/ StoredElsewhere
         PROVE  UNCHANGED sessionVars
    BY <1>15 DEF Edit, Save, PutAnswered, PutUnanswered, PutRefused, StoredElsewhere
  <1>16. CASE UNCHANGED allVars
    BY <1>14, <1>16 DEF allVars
  <1> QED
    BY <1>4, <1>5, <1>6, <1>7, <1>8, <1>9, <1>10, <1>11, <1>12, <1>13, <1>14,
       <1>15, <1>16 DEF FormNext, Connecting

-----------------------------------------------------------------------------
(* The requests and the page                                               *)

\* The page after the end of a PUT that brought no config, and after somebody
\* else's: only the notices change, and overtaken (save).
LEMMA KeptPage ==
    ASSUME page \in Pages
    PROVE  /\ SaveError \in Pages /\ Overtaken \in Pages
           /\ \A s \in {SaveError, Overtaken} :
                 /\ s.mounted = page.mounted /\ s.loading = page.loading
                 /\ s.loadError = page.loadError /\ s.base = page.base
                 /\ s.form = page.form /\ s.text = page.text
                 /\ s.touched = page.touched /\ s.saved = page.saved
           /\ ~SaveError.saving
           /\ Overtaken.saving = page.saving
           /\ Overtaken.overtaken <=> page.base # NoConfig
  BY DEF SaveError, Overtaken, Pages

\* An edit changes the input and touched (setTablesText, update).
LEMMA EditedPage ==
    ASSUME page \in Pages, NEW p \in Parts, NEW v \in Values, Edit(p, v)
    PROVE  /\ page' \in Pages
           /\ page'.mounted = page.mounted /\ page'.loading = page.loading
           /\ page'.loadError = page.loadError /\ page'.base = page.base
           /\ page'.saving = page.saving /\ page'.saved = page.saved
           /\ page'.overtaken = page.overtaken
           /\ page'.touched = page.touched \cup {p}
           /\ \A q \in ListParts \ {p} : page'.text[q] = page.text[q]
           /\ \A q \in (Parts \ ListParts) \ {p} : page'.form[q] = page.form[q]
  <1>1. CASE p \in ListParts
    BY <1>1 DEF Edit, Pages, Config
  <1>2. CASE p \notin ListParts
    BY <1>2 DEF Edit, Pages, Config
  <1> QED
    BY <1>1, <1>2

\* A PUT is sent by a page that waits for none (save).
LEMMA SavedPage ==
    ASSUME page \in Pages, Save
    PROVE  /\ page' \in Pages
           /\ page'.mounted = page.mounted /\ page'.loading = page.loading
           /\ page'.loadError = page.loadError /\ page'.base = page.base
           /\ page'.form = page.form /\ page'.text = page.text
           /\ page'.touched = page.touched
           /\ page'.saving /\ ~page'.saved
  BY DEF Save, Pages

\* A page that goes away waits for nothing (Unmounted, the cleanups).
LEMMA GoneRequests ==
    ASSUME FormInv, Unmounted, reads' \subseteq Reads,
           \A r \in reads' : ~r.active
    PROVE  RequestsInv'
  <1>1. puts' \subseteq Puts /\ \A p \in puts' : ~p.active
    BY DeactivatedPuts DEF FormInv, RequestsInv, Unmounted
  <1>2. ~page'.mounted /\ ~page'.saving
    BY FreshPage DEF Unmounted
  <1> QED
    BY <1>1, <1>2 DEF RequestsInv

\* The page waits for one answer of each kind (usePluginConfigForm).
LEMMA RequestsStep ==
    ASSUME FormInv, [FormNext]_allVars
    PROVE  RequestsInv'
  <1>1. /\ SessionInv /\ RequestsInv /\ page \in Pages
        /\ stored \in Config \cup {NoConfig}
        /\ page.loading => ~page.saving
    BY DEF FormInv, PageInv
  <1>2. reads \subseteq Reads /\ Deactivated(reads) \subseteq Reads
        /\ \A r \in Deactivated(reads) : ~r.active
    BY <1>1, DeactivatedReads DEF SessionInv, SessionTypeOK
  <1>3. ASSUME reads' = reads, page' = page, puts' = puts,
               page.mounted => connected'
        PROVE  RequestsInv'
    BY <1>1, <1>3 DEF RequestsInv
  <1>4. CASE Rotate /\ UNCHANGED formVars
    BY <1>1, <1>3, <1>4 DEF Rotate, formVars, client, RequestsInv
  <1>5. CASE Connecting
    <2>1. reads' = reads /\ page' = page /\ puts' = puts
      BY <1>5 DEF Connecting, Connect, ProbeAccepted, ProbeFails, formVars
    <2>2. page.mounted => connected'
      BY <1>1, <1>5 DEF Connecting, Connect, ProbeAccepted, ProbeFails,
                        SessionInv, RequestsInv
    <2> QED
      BY <1>3, <2>1, <2>2
  <1>6. CASE Disconnect
    BY <1>2, <1>6, GoneRequests DEF Disconnect, disconnect
  <1>7. CASE ReloadTab
    BY <1>2, <1>7, GoneRequests DEF ReloadTab, Reload
  <1>8. CASE Mount
    <2>1. page'.mounted /\ page'.loading /\ ~page'.saving
      BY <1>8, FreshPage DEF Mount
    <2>2. connected' /\ puts' = puts /\ ~page.saving
      BY <1>1, <1>8 DEF Mount, client, RequestsInv
    <2>3. \A r \in reads' : r.active => r = [token |-> token, active |-> TRUE]
      BY <1>2, <1>8 DEF Mount, Asked
    <2>4. \E r \in reads' : r.active
      <3>1. [token |-> token, active |-> TRUE] \in reads'
        BY <1>8 DEF Mount, Asked
      <3> QED
        BY <3>1
    <2> QED
      BY <1>1, <2>1, <2>2, <2>3, <2>4 DEF RequestsInv
  <1>9. CASE Leave
    BY <1>2, <1>9, GoneRequests DEF Leave
  <1>10. ASSUME NEW r \in reads, LoadOK(r)
         PROVE  RequestsInv'
    <2> DEFINE cfg == IF stored = NoConfig THEN emptyConfig ELSE stored
    <2>1. cfg \in Config
      BY <1>1, EmptyIsConfig
    <2>2. page' = [Adopt(cfg) EXCEPT !.loading = FALSE]
      BY <1>10 DEF LoadOK
    <2> HIDE DEF cfg
    <2>3. /\ page'.mounted = page.mounted /\ ~page'.loading
          /\ page'.saving = page.saving
      BY <1>1, <2>1, <2>2, AdoptedPage DEF Pages
    <2>4. reads' = reads \ {r} /\ r.active /\ connected' = connected /\ puts' = puts
      BY <1>10 DEF LoadOK, ReadEnds, client
    <2> QED
      BY <1>1, <2>3, <2>4 DEF RequestsInv
  <1>11. ASSUME NEW r \in reads, LoadFails(r)
         PROVE  RequestsInv'
    <2>1. /\ page'.mounted = page.mounted /\ ~page'.loading
          /\ page'.saving = page.saving
      BY <1>1, <1>11 DEF LoadFails, Pages
    <2>2. reads' = reads \ {r} /\ r.active /\ connected' = connected /\ puts' = puts
      BY <1>11 DEF LoadFails, ReadEnds, client
    <2> QED
      BY <1>1, <2>1, <2>2 DEF RequestsInv
  <1>12. ASSUME NEW r \in reads, StaleReadEnds(r)
         PROVE  RequestsInv'
    BY <1>1, <1>12 DEF StaleReadEnds, ReadEnds, client, formVars, RequestsInv
  <1>13. ASSUME NEW r \in reads, Denied(r)
         PROVE  RequestsInv'
    BY <1>2, <1>13, DeactivatedReads, GoneRequests DEF Denied, ReadDenied
  <1>14. ASSUME NEW p \in Parts, NEW v \in Values, Edit(p, v)
         PROVE  RequestsInv'
    <2>1. connected' = connected /\ reads' = reads /\ puts' = puts
      BY <1>14 DEF Edit, sessionVars, client
    <2> QED
      BY <1>1, <1>14, <2>1, EditedPage DEF RequestsInv
  <1>15. CASE Save
    <2> DEFINE new == [config |-> Payload, token |-> token, active |-> TRUE]
    <2>1. puts' = puts \cup {new} /\ FormShown /\ ~page.saving
      BY <1>15 DEF Save
    <2>2. new \in Puts /\ new.active
      BY <1>1, PayloadIsConfig DEF Puts, SessionInv, SessionTypeOK
    <2>3. connected' = connected /\ reads' = reads
      BY <1>15 DEF Save, sessionVars, client
    <2>4. /\ page'.mounted /\ ~page'.loading /\ page'.saving
          /\ page.mounted /\ ~page.loading
      BY <1>1, <1>15, <2>1, SavedPage DEF FormShown
    <2> HIDE DEF new
    <2> QED
      BY <1>1, <2>1, <2>2, <2>3, <2>4 DEF RequestsInv
  <1>16. ASSUME NEW p \in puts, PutAnswered(p)
         PROVE  RequestsInv'
    <2>1. /\ p.active /\ p.config \in Config
          /\ page' = [Adopt(p.config) EXCEPT !.saved = TRUE, !.saving = FALSE]
          /\ puts' = puts \ {p} /\ connected' = connected /\ reads' = reads
      BY <1>1, <1>16 DEF PutAnswered, sessionVars, client, RequestsInv, Puts
    <2>2. /\ page'.mounted = page.mounted /\ page'.loading = page.loading
          /\ ~page'.saving
      BY <1>1, <2>1, AdoptedPage DEF Pages
    <2> QED
      BY <1>1, <2>1, <2>2 DEF RequestsInv
  <1>17. ASSUME NEW p \in puts, PutUnanswered(p) \/ PutRefused(p)
         PROVE  RequestsInv'
    <2>1. puts' = puts \ {p} /\ connected' = connected /\ reads' = reads
      BY <1>17 DEF PutUnanswered, PutRefused, sessionVars, client
    <2>2. /\ page'.mounted = page.mounted /\ page'.loading = page.loading
          /\ IF p.active THEN ~page'.saving ELSE page'.saving = page.saving
      BY <1>1, <1>17, KeptPage DEF PutUnanswered, PutRefused
    <2> QED
      BY <1>1, <2>1, <2>2 DEF RequestsInv
  <1>18. CASE StoredElsewhere
    <2>1. puts' = puts /\ connected' = connected /\ reads' = reads
      BY <1>18 DEF StoredElsewhere, sessionVars, client
    <2> QED
      BY <1>1, <1>18, <2>1, KeptPage DEF StoredElsewhere, RequestsInv
  <1>19. CASE UNCHANGED allVars
    BY <1>1, <1>3, <1>19 DEF allVars, sessionVars, client, formVars, RequestsInv
  <1> QED
    BY <1>4, <1>5, <1>6, <1>7, <1>8, <1>9, <1>10, <1>11, <1>12, <1>13, <1>14,
       <1>15, <1>16, <1>17, <1>18, <1>19 DEF FormNext

\* A page just mounted, or gone, has nothing to be wrong about (Mount,
\* Unmounted).
LEMMA NewPage ==
    ASSUME stored' \in Config \cup {NoConfig}, page' = Fresh \/ page' = Elsewhere
    PROVE  PageInv'
  BY FreshPage DEF PageInv, SavedIsStored, ShownIsKnown, FormShown

\* A page that takes over what is stored knows all it shows (onConfigLoaded).
LEMMA AdoptedIsKnown ==
    ASSUME page \in Pages, NEW cfg \in Config,
           stored' \in Config \cup {NoConfig},
           page'.base = cfg, page'.form = cfg, page' \in Pages,
           \A p \in ListParts : page'.text[p] = cfg[p],
           page'.saved => stored' = cfg,
           ~page'.loading /\ ~page'.saving
    PROVE  PageInv'
  BY NoConfigIsNone DEF PageInv, SavedIsStored, ShownIsKnown, FormShown, AsReceived

\* What the page shows stays what it has received and what was typed
\* (usePluginConfigForm, the handleSubmit of each form).
LEMMA PageStep ==
    ASSUME FormInv, [FormNext]_allVars
    PROVE  PageInv'
  <1>1. RequestsInv /\ PageInv /\ page \in Pages /\ stored \in Config \cup {NoConfig}
    BY DEF FormInv, PageInv
  <1>2. ASSUME page' = page, stored' = stored
        PROVE  PageInv'
    BY <1>1, <1>2
       DEF PageInv, SavedIsStored, ShownIsKnown, FormShown, AsReceived
  <1>3. CASE (Rotate /\ UNCHANGED formVars) \/ Connecting \/ UNCHANGED allVars
    BY <1>2, <1>3 DEF Connecting, formVars, allVars
  <1>4. CASE Disconnect \/ ReloadTab \/ Mount \/ Leave
    BY <1>1, <1>4, NewPage DEF Disconnect, ReloadTab, Mount, Leave, Unmounted
  <1>5. ASSUME NEW r \in reads, LoadOK(r)
        PROVE  PageInv'
    <2> DEFINE cfg == IF stored = NoConfig THEN emptyConfig ELSE stored
    <2>1. cfg \in Config
      BY <1>1, EmptyIsConfig
    <2>2. page' = [Adopt(cfg) EXCEPT !.loading = FALSE]
      BY <1>5 DEF LoadOK
    <2>3. stored' = stored /\ page.loading
      BY <1>1, <1>5 DEF LoadOK, RequestsInv
    <2> HIDE DEF cfg
    <2>4. ~page.saved /\ ~page.saving
      BY <1>1, <2>3 DEF PageInv
    <2>5. /\ page' \in Pages
          /\ page'.base = cfg /\ page'.form = cfg
          /\ \A p \in ListParts : page'.text[p] = cfg[p]
          /\ ~page'.loading /\ ~page'.saving /\ ~page'.saved
      BY <1>1, <2>1, <2>2, <2>4, AdoptedPage DEF Pages
    <2> QED
      BY <1>1, <2>1, <2>3, <2>5, AdoptedIsKnown
  <1>6. ASSUME NEW r \in reads, LoadFails(r)
        PROVE  PageInv'
    <2>1. stored' = stored /\ page.loading
      BY <1>1, <1>6 DEF LoadFails, RequestsInv
    <2>2. ~page.saved /\ ~page.saving
      BY <1>1, <2>1 DEF PageInv
    <2>3. /\ page' \in Pages /\ page'.loadError
          /\ ~page'.saved /\ ~page'.saving
      BY <1>1, <1>6, <2>2 DEF LoadFails, Pages
    <2> QED
      BY <1>1, <2>1, <2>3 DEF PageInv, SavedIsStored, ShownIsKnown, FormShown
  <1>7. ASSUME NEW r \in reads, StaleReadEnds(r) \/ Denied(r)
        PROVE  PageInv'
    BY <1>1, <1>2, <1>7, NewPage DEF StaleReadEnds, Denied, Unmounted, formVars
  <1>8. ASSUME NEW p \in Parts, NEW v \in Values, Edit(p, v)
        PROVE  PageInv'
    <2>1. FormShown /\ stored' = stored
      BY <1>8 DEF Edit
    <2>2. ASSUME NEW q \in Parts \ page'.touched
          PROVE  AsReceived(q)'
      <3>1. q \in Parts \ page.touched /\ q # p
        BY <1>1, <1>8, EditedPage
      <3>2. AsReceived(q)
        BY <1>1, <2>1, <3>1 DEF PageInv, ShownIsKnown
      <3> QED
        BY <1>1, <1>8, <3>1, <3>2, EditedPage DEF AsReceived
    <2>3. page.base # NoConfig
      BY <1>1, <2>1 DEF PageInv, ShownIsKnown
    <2> QED
      BY <1>1, <1>8, <2>1, <2>2, <2>3, EditedPage
         DEF PageInv, SavedIsStored, ShownIsKnown
  <1>9. CASE Save
    <2>1. FormShown /\ stored' = stored
      BY <1>9 DEF Save
    <2>2. ~page.loading
      BY <2>1 DEF FormShown
    <2> QED
      BY <1>1, <1>9, <2>1, <2>2, SavedPage
         DEF PageInv, SavedIsStored, ShownIsKnown, AsReceived
  <1>10. ASSUME NEW p \in puts, PutAnswered(p)
         PROVE  PageInv'
    <2>1. /\ p.active /\ p.config \in Config
          /\ page' = [Adopt(p.config) EXCEPT !.saved = TRUE, !.saving = FALSE]
          /\ stored' = p.config
      BY <1>1, <1>10 DEF PutAnswered, Write, RequestsInv, Puts
    <2>2. page.saving /\ ~page.loading
      BY <1>1, <2>1 DEF RequestsInv, PageInv
    <2>3. /\ page' \in Pages
          /\ page'.base = p.config /\ page'.form = p.config
          /\ \A q \in ListParts : page'.text[q] = p.config[q]
          /\ ~page'.loading /\ ~page'.saving
      BY <1>1, <2>1, <2>2, AdoptedPage DEF Pages
    <2> QED
      BY <1>1, <2>1, <2>3, AdoptedIsKnown
  <1>11. ASSUME NEW p \in puts, p.active, page' = SaveError,
                stored' \in Config \cup {NoConfig}
         PROVE  PageInv'
    <2>1. page.saving /\ ~page.saved /\ ~page.loading
      BY <1>1, <1>11 DEF RequestsInv, PageInv
    <2> QED
      BY <1>1, <1>11, <2>1, KeptPage
         DEF PageInv, SavedIsStored, ShownIsKnown, FormShown, AsReceived
  <1>12. ASSUME page' = Overtaken, stored' \in Config \cup {NoConfig}
         PROVE  PageInv'
    BY <1>1, <1>12, KeptPage
       DEF PageInv, SavedIsStored, ShownIsKnown, FormShown, AsReceived
  <1>13. ASSUME NEW p \in puts, PutUnanswered(p)
         PROVE  PageInv'
    <2>1. stored' \in Config
      BY <1>1, <1>13 DEF PutUnanswered, Write, RequestsInv, Puts
    <2> QED
      BY <1>11, <1>12, <1>13, <2>1 DEF PutUnanswered
  <1>14. ASSUME NEW p \in puts, PutRefused(p)
         PROVE  PageInv'
    BY <1>1, <1>2, <1>11, <1>14 DEF PutRefused
  <1>15. CASE StoredElsewhere
    BY <1>12, <1>15 DEF StoredElsewhere
  <1> QED
    BY <1>3, <1>4, <1>5, <1>6, <1>7, <1>8, <1>9, <1>10, <1>13, <1>14, <1>15
       DEF FormNext
-----------------------------------------------------------------------------
(* Theorems                                                                *)

\* A tab just opened has nothing under way.
LEMMA FormStarts == FormInit => FormInv
  BY FreshPage
     DEF FormInit, SessionInit, FormInv, SessionInv, SessionTypeOK, Scopes,
         ConnectedHasToken, RequestsInv, PageInv, SavedIsStored, ShownIsKnown,
         FormShown

\* The session, the requests and the form keep their invariants.
THEOREM FormInvariance == FormSpec => []FormInv
  <1>1. FormInv /\ [FormNext]_allVars => FormInv'
    BY SessionStep, RequestsStep, PageStep DEF FormInv
  <1> QED
    BY <1>1, FormStarts, PTL DEF FormSpec

\* A form is only there in a session and waits for one answer at a time
\* (usePluginConfigForm).
THEOREM FormTypeCorrect == FormSpec => []ConfigFormTypeOK
  <1>1. FormInv => ConfigFormTypeOK
    BY DEF FormInv, SessionInv, RequestsInv, PageInv, ConfigFormTypeOK
  <1> QED
    BY <1>1, FormInvariance, PTL

\* The pages are never shown without a token (connect, clearToken).
THEOREM SessionHasToken == FormSpec => []ConnectedHasToken
  <1>1. FormInv => ConnectedHasToken
    BY DEF FormInv, SessionInv
  <1> QED
    BY <1>1, FormInvariance, PTL

\* "Saved" is said of what is stored (SaveFeedback).
THEOREM SavedNoticeIsTrue == FormSpec => []SavedIsStored
  <1>1. FormInv => SavedIsStored
    BY DEF FormInv, PageInv
  <1> QED
    BY <1>1, FormInvariance, PTL

\* A save is of a config the page has received, changed where somebody has
\* typed (onConfigLoaded, handleSubmit).
THEOREM SavesKeepTheRest == FormSpec => UntouchedPartsSurvive
  <1> DEFINE Kept(p) ==
         p.active =>
            /\ page.base # NoConfig
            /\ \A q \in Parts \ page.touched :
                 \/ p.config[q] = page.base[q]
                 \/ q \in ListParts /\ page.base[q] \in WithComma
  <1>1. ASSUME FormInv, Save
        PROVE  \A p \in puts' \ puts : Kept(p)
    <2>1. \A p \in puts' \ puts : p.config = Payload
      BY <1>1 DEF Save
    <2>2. page.base # NoConfig /\ \A q \in Parts \ page.touched : AsReceived(q)
      BY <1>1 DEF Save, FormInv, PageInv, ShownIsKnown
    <2>3. ASSUME NEW q \in Parts \ page.touched
          PROVE  \/ Payload[q] = page.base[q]
                 \/ q \in ListParts /\ page.base[q] \in WithComma
      BY <2>2, <2>3 DEF Payload, splitList, AsReceived
    <2> QED
      BY <2>1, <2>2, <2>3
  <1>2. ASSUME FormInv, [FormNext]_allVars, ~Save
        PROVE  \A p \in puts' \ puts : ~p.active
    <2>1. CASE puts' = Deactivated(puts)
      BY <1>2, <2>1, DeactivatedPuts DEF FormInv, RequestsInv
    <2>2. CASE puts' \subseteq puts
      BY <2>2
    <2> QED
      BY <1>2, <2>1, <2>2
         DEF FormNext, Connecting, Disconnect, ReloadTab, Mount, Leave, LoadOK,
             LoadFails, StaleReadEnds, Denied, Edit, PutAnswered, PutUnanswered,
             PutRefused, StoredElsewhere, Unmounted, formVars, allVars
  <1>3. FormInv /\ [FormNext]_allVars => [\A p \in puts' \ puts : Kept(p)]_allVars
    BY <1>1, <1>2
  <1> QED
    BY <1>3, FormInvariance, PTL DEF FormSpec, UntouchedPartsSurvive

\* A session ends at its own wish or because a read was denied, never because
\* a write was (suppressGlobalUnauthorized).
THEOREM SessionsEndForCause == FormSpec => OnlyDeniedReadsEndSessions
  <1> DEFINE Cause == connected /\ ~connected' =>
         token' = NoToken \/ \E r \in reads \ reads' : ~MayRead(r.token)
  <1>1. ASSUME FormInv, NEW r \in reads, Denied(r)
        PROVE  Cause
    <2>1. reads \subseteq Reads /\ ~MayRead(r.token) /\ reads' = Deactivated(reads \ {r})
      BY <1>1 DEF FormInv, SessionInv, SessionTypeOK, Denied, ReadDenied
    <2>2. CASE r \notin reads'
      BY <2>1, <2>2
    <2>3. CASE r \in reads'
      <3>1. PICK q \in reads \ {r} : r = [q EXCEPT !.active = FALSE]
        BY <2>1, <2>3 DEF Deactivated
      <3>2. q.active /\ q.token = r.token
        BY <2>1, <3>1 DEF Reads
      <3>3. q \notin reads'
        BY <2>1, <3>2, DeactivatedReads
      <3> QED
        BY <2>1, <3>2, <3>3
    <2> QED
      BY <2>2, <2>3
  <1>2. ASSUME FormInv, [FormNext]_allVars, \A r \in reads : ~Denied(r)
        PROVE  Cause
    <2>1. CASE ReloadTab
      BY <1>2, <2>1 DEF FormInv, SessionInv, ConnectedHasToken, ReloadTab, Reload
    <2>2. CASE Connecting \/ Disconnect
      BY <2>2 DEF Connecting, Connect, ProbeAccepted, ProbeFails, Disconnect, disconnect
    <2>3. ASSUME ~ReloadTab, ~(Connecting \/ Disconnect)
          PROVE  connected' = connected
      BY <1>2, <2>3
         DEF FormNext, Rotate, Mount, Leave, LoadOK, LoadFails, StaleReadEnds,
             ReadEnds, Edit, Save, PutAnswered, PutUnanswered, PutRefused,
             StoredElsewhere, client, sessionVars, allVars
    <2> QED
      BY <2>1, <2>2, <2>3
  <1>3. FormInv /\ [FormNext]_allVars => [Cause]_sessionVars
    BY <1>1, <1>2
  <1> QED
    BY <1>3, FormInvariance, PTL DEF FormSpec, OnlyDeniedReadsEndSessions
=============================================================================
