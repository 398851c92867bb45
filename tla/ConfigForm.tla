------------------------------ MODULE ConfigForm ------------------------------
(***************************************************************************)
(* The plugin settings page (web/src/pages/PluginConfigPage.tsx): the load *)
(* and save cycle of usePluginConfigForm, which the forms of the informix, *)
(* postgres and filesystem plugins share, over GET and PUT                 *)
(* /v1/hosts/{host}/plugins/{plugin}/config (internal/api/plugin_config.go)*)
(* and the session they run in.                                            *)
(*                                                                         *)
(* A config is a value for each part of the form.  The parts that are lists*)
(* (tables, databases, paths, excludes) are edited as text, joined with    *)
(* commas when a config arrives and split again when it is saved.          *)
(***************************************************************************)
EXTENDS WebSession

CONSTANTS
    Parts,      \* the inputs of the form
    ListParts,  \* those that are lists; all of them for filesystem
    Values,     \* what an input may hold
    Empty,      \* what it holds in emptyConfig
    WithComma,  \* lists with an item that has a comma or blanks around it
    Pieces,     \* what splitting makes of such a list
    NoConfig    \* nothing stored; nothing loaded

ASSUME ListsAreParts == ListParts \subseteq Parts
ASSUME ValuesAreClosed ==
    /\ Empty \in Values \ WithComma
    /\ Pieces \in Values \ WithComma
    /\ WithComma \subseteq Values

Config == [Parts -> Values]
ASSUME NoConfigIsNone == NoConfig \notin Config

VARIABLES
    stored,  \* metadata: the row of plugin_settings
    page,    \* the state of the mounted form, see Pages
    puts     \* PUT requests under way, see Puts

formVars == <<stored, page, puts>>
allVars == <<sessionVars, formVars>>

emptyConfig == [p \in Parts |-> Empty]

\* form and text are the two places a list is kept in.  History: base, the
\* config last received; touched, the inputs edited since; overtaken, whether
\* somebody else has stored a config since.
Pages ==
    [mounted : BOOLEAN, form : Config, text : [ListParts -> Values],
     loading : BOOLEAN, loadError : BOOLEAN,
     saving : BOOLEAN, saveError : BOOLEAN, saved : BOOLEAN,
     base : Config \cup {NoConfig}, touched : SUBSET Parts, overtaken : BOOLEAN]

Puts == [config : Config, token : Tokens \cup {NoToken}, active : BOOLEAN]

\* useState's initial values; elsewhere, no form is mounted.
Fresh ==
    [mounted |-> TRUE, form |-> emptyConfig, text |-> [p \in ListParts |-> Empty],
     loading |-> TRUE, loadError |-> FALSE,
     saving |-> FALSE, saveError |-> FALSE, saved |-> FALSE,
     base |-> NoConfig, touched |-> {}, overtaken |-> FALSE]
Elsewhere == [Fresh EXCEPT !.mounted = FALSE]

FormInit ==
    /\ SessionInit
    /\ stored = NoConfig
    /\ page = Elsewhere
    /\ puts = {}
-----------------------------------------------------------------------------
(* Mounting and loading                                                    *)

MayRequest == Cardinality(reads) + Cardinality(puts) < MaxRequests

\* The route is entered, or shown again after connecting; the effect on
\* [host, plugin] asks for the stored config.
Mount ==
    /\ connected /\ ~page.mounted
    /\ MayRequest
    /\ page' = Fresh
    /\ reads' = Asked
    /\ UNCHANGED <<scope, client, stored, puts>>

\* The page goes away, for another route or the connect page.
Unmounted == page' = Elsewhere /\ puts' = Deactivated(puts)

\* Mutant of Leave: the effect has no cleanup that sets active to false.
LeaveUncleaned ==
    /\ page.mounted
    /\ Unmounted
    /\ UNCHANGED <<sessionVars, stored>>

\* Another route is shown; the effect's cleanup.
Leave ==
    /\ page.mounted
    /\ Unmounted
    /\ reads' = Deactivated(reads)
    /\ UNCHANGED <<scope, client, stored>>

\* Mutant of Adopt: the text inputs are not told of the config.
AdoptForm(cfg) ==
    [page EXCEPT !.form = cfg, !.base = cfg, !.touched = {}, !.overtaken = FALSE]

\* setForm and onConfigLoaded.
Adopt(cfg) ==
    [page EXCEPT !.form = cfg, !.text = [p \in ListParts |-> cfg[p]],
                 !.base = cfg, !.touched = {}, !.overtaken = FALSE]

\* GET answers 200, or 404 when there is no row.
LoadOK(r) ==
    /\ r.active
    /\ MayRead(r.token)
    /\ page' = [Adopt(IF stored = NoConfig THEN emptyConfig ELSE stored)
                  EXCEPT !.loading = FALSE]
    /\ ReadEnds(r)
    /\ UNCHANGED <<stored, puts>>

\* Any other answer but 401, or none: an error notice and no form.
LoadFails(r) ==
    /\ r.active
    /\ page' = [page EXCEPT !.loadError = TRUE, !.loading = FALSE]
    /\ ReadEnds(r)
    /\ UNCHANGED <<stored, puts>>

\* The request of a page that is gone; active is false in its effect.
StaleReadEnds(r) ==
    /\ ~r.active
    /\ ReadEnds(r)
    /\ UNCHANGED formVars

\* 401, whoever asked: the session is dropped and the page with it.
Denied(r) ==
    /\ ReadDenied(r)
    /\ Unmounted
    /\ UNCHANGED stored
-----------------------------------------------------------------------------
(* Editing and saving                                                      *)

FormShown == page.mounted /\ ~page.loading /\ ~page.loadError

\* setTablesText and its like, or update; also while a save is under way.
Edit(p, v) ==
    /\ FormShown
    /\ page' = IF p \in ListParts
               THEN [page EXCEPT !.text[p] = v, !.touched = @ \cup {p}]
               ELSE [page EXCEPT !.form[p] = v, !.touched = @ \cup {p}]
    /\ UNCHANGED <<sessionVars, stored, puts>>

\* splitList of the joined text.
splitList(v) == IF v \in WithComma THEN Pieces ELSE v

\* What handleSubmit saves: the form, the lists taken from their texts.
Payload == [p \in Parts |-> IF p \in ListParts THEN splitList(page.text[p])
                                               ELSE page.form[p]]

\* Mutant of Save: the notice of the last success stays.
SaveKeepsNotice ==
    /\ FormShown /\ ~page.saving
    /\ MayRequest
    /\ page' = [page EXCEPT !.saving = TRUE, !.saveError = FALSE]
    /\ puts' = puts \cup {[config |-> Payload, token |-> token, active |-> TRUE]}
    /\ UNCHANGED <<sessionVars, stored>>

\* save, up to the PUT; the button is disabled while saving.
Save ==
    /\ FormShown /\ ~page.saving
    /\ MayRequest
    /\ page' = [page EXCEPT !.saving = TRUE, !.saveError = FALSE, !.saved = FALSE]
    /\ puts' = puts \cup {[config |-> Payload, token |-> token, active |-> TRUE]}
    /\ UNCHANGED <<sessionVars, stored>>

\* SetPluginSettings.
Write(p) == MayWrite(p.token) /\ stored' = p.config

\* The PUT is answered with the config it stored, and the page takes it over,
\* with it whatever was typed since.
PutAnswered(p) ==
    /\ p.active
    /\ Write(p)
    /\ page' = [Adopt(p.config) EXCEPT !.saved = TRUE, !.saving = FALSE]
    /\ puts' = puts \ {p}
    /\ UNCHANGED sessionVars

\* Somebody else has stored a config after the one the page has.
Overtaken == [page EXCEPT !.overtaken = page.base # NoConfig]

SaveError == [page EXCEPT !.saveError = TRUE, !.saving = FALSE]

\* It was stored, but no answer arrives, or nobody waits for it.
PutUnanswered(p) ==
    /\ Write(p)
    /\ page' = IF p.active THEN SaveError ELSE Overtaken
    /\ puts' = puts \ {p}
    /\ UNCHANGED sessionVars

\* Mutant of PutRefused: a 401 is announced to the session like any other.
PutRefusedAloud(p) ==
    /\ ~MayWrite(p.token)
    /\ connected' = FALSE
    /\ page' = Elsewhere
    /\ puts' = Deactivated(puts \ {p})
    /\ reads' = Deactivated(reads)
    /\ UNCHANGED <<scope, token, submitting, probes, stored>>

\* 401 without write scope, 400 from validate, 500, or the request is lost.
PutRefused(p) ==
    /\ page' = IF p.active THEN SaveError ELSE page
    /\ puts' = puts \ {p}
    /\ UNCHANGED <<sessionVars, stored>>

\* Another tab, or another client of the API, stores a config.
StoredElsewhere ==
    /\ stored' \in Config
    /\ page' = Overtaken
    /\ UNCHANGED <<sessionVars, puts>>
-----------------------------------------------------------------------------
(* The page in its session                                                 *)

\* On the connect page no form is mounted.
Connecting ==
    /\ \/ \E t \in Tokens : Connect(t)
       \/ \E t \in probes : ProbeAccepted(t) \/ ProbeFails(t)
    /\ UNCHANGED formVars

\* The session ends or begins anew, under the page if there is one.
Disconnect == disconnect /\ Unmounted /\ UNCHANGED stored
ReloadTab == Reload /\ Unmounted /\ UNCHANGED stored

FormNext ==
    \/ Rotate /\ UNCHANGED formVars
    \/ Connecting \/ Disconnect \/ ReloadTab
    \/ Mount \/ Leave
    \/ \E r \in reads : LoadOK(r) \/ LoadFails(r) \/ StaleReadEnds(r) \/ Denied(r)
    \/ \E p \in Parts, v \in Values : Edit(p, v)
    \/ Save
    \/ \E p \in puts : PutAnswered(p) \/ PutUnanswered(p) \/ PutRefused(p)
    \/ StoredElsewhere

FormSpec == FormInit /\ [][FormNext]_allVars
-----------------------------------------------------------------------------
(* Properties                                                              *)

\* Type invariant of session and form; a form is only there in a session, and
\* waits for one answer at a time (usePluginConfigForm).
ConfigFormTypeOK ==
    /\ SessionTypeOK
    /\ stored \in Config \cup {NoConfig}
    /\ page \in Pages
    /\ puts \subseteq Puts
    /\ page.mounted => connected
    /\ page.saving <=> \E p \in puts : p.active
    /\ page.mounted /\ page.loading <=> \E r \in reads : r.active

\* A save changes what was edited and nothing else: every other part goes
\* back as the server last told it, so nothing is ever saved over a config
\* the page has not seen.  (Lists with a comma inside an item excepted.)
\* (usePluginConfigForm's onConfigLoaded, the handleSubmit of each form.)
UntouchedPartsSurvive ==
    [][\A p \in puts' \ puts : p.active =>
          /\ page.base # NoConfig
          /\ \A q \in Parts \ page.touched :
               \/ p.config[q] = page.base[q]
               \/ q \in ListParts /\ page.base[q] \in WithComma]_allVars

\* "Saved. The next backup job for this host will use it.": what the page
\* took over is what is stored, unless somebody else stored a config since,
\* whatever became of saves before and after it (save, SaveFeedback).
SavedIsStored == page.saved => stored = page.base \/ page.overtaken
=============================================================================
