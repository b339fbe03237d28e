----------------------------- MODULE PopupViews -----------------------------
(***************************************************************************)
(* The popup's views of what the native host keeps: the page memory, the   *)
(* updates, the search models, an action that runs, and the decision       *)
(* service (popup/MemoryView.tsx, RuntimeUpdates.tsx, ConnectionView.tsx,  *)
(* useLocalAction.ts, ProviderSettings.tsx).  Each asks, saves and shows     *)
(* what comes back; background/runtime-popup.ts carries it to the host,    *)
(* and answers come in any order, or not at all.                           *)
(*                                                                         *)
(* What the host keeps is a version number, one more with every change.    *)
(* The two calls of a refresh of the memory count as one.                  *)
(***************************************************************************)
EXTENDS Naturals, FiniteSets

CONSTANTS Views,              \* the views that are modelled in a run
          Scopes,             \* the activity the memory's statistics cover
          Routes, NoKey,      \* services of the decision provider
          MaxViewSteps, MaxLoads  \* bounds

VARIABLES open,       \* the view that is shown
          kept,       \* the host's version
          loads,      \* questions under way: [id, scope, got]
          writing,    \* changes under way: [kind, scope, got]
          viewBusy,   \* memoryBusy, semanticBusy, saving
          revision,   \* requestId, revision
          scope,      \* the statistics that are chosen
          shown,      \* [version, scope, asked], version 0 for nothing
          acked,      \* the version of the last change that was confirmed
          stale,      \* a refresh of an earlier scope was started
          edits,      \* typed and not saved, of "purge" and "quota"
          dirty,      \* the fields that an answer leaves alone
          timer,      \* the quota waits 300 ms to be saved
          editLost,
          jobs, action, starts, polls, reached,     \* an action that runs, and what was shown to have ended
          service, loaded, storedService, submitted, typedFor, sharedFor,  \* the service
          viewSteps

popupViewsVars == <<open, kept, loads, writing, viewBusy, revision, scope, shown, acked, stale, edits, dirty, timer, editLost, jobs, action,
                    starts, polls, reached, service, loaded, storedService, submitted, typedFor, sharedFor, viewSteps>>
memoryEdits == <<edits, dirty, timer, editLost>>
actionVars == <<jobs, action, starts, polls, reached>>
serviceVars == <<service, loaded, storedService, submitted, typedFor, sharedFor>>
versionVars == <<kept, loads, writing, viewBusy, revision, scope, shown, acked, stale>>

Nothing == [version |-> 0, scope |-> "none", asked |-> FALSE]
NoAction == [operation |-> 0, job |-> 0, state |-> 0]
Jobs == 1..2     \* a bound: actions started
Ended == 2       \* 1: queued or running
Off == [route |-> "off", share |-> FALSE, key |-> NoKey]

PopupViewsTypeOK ==
  /\ open \in Views /\ scope \in Scopes /\ shown.scope \in Scopes \cup {"none"}
  /\ \A l \in loads : l.got \in 0..kept /\ l.id <= revision
  /\ edits \subseteq {"purge", "quota"} /\ dirty \subseteq {"purge", "quota"}
  /\ {viewBusy, stale, timer, editLost, loaded} \subseteq BOOLEAN
  /\ jobs \in [Jobs -> 0..Ended] /\ service.route \in Routes \cup {"off"}

PopupViewsInit ==
  /\ open \in Views
  /\ kept = 1 /\ loads = {} /\ writing = {} /\ viewBusy = FALSE /\ revision = 0
  /\ scope = CHOOSE s \in Scopes : TRUE
  /\ shown = Nothing /\ acked = 0 /\ stale = FALSE
  /\ edits = {} /\ dirty = {} /\ timer = FALSE /\ editLost = FALSE
  /\ jobs = [j \in Jobs |-> 0] /\ action = NoAction /\ starts = {} /\ polls = {} /\ reached = {}
  /\ service = Off /\ loaded = FALSE /\ submitted = {} /\ typedFor = {} /\ sharedFor = {}
  /\ storedService \in IF open = "provider" THEN {Off} \cup {[route |-> r, share |-> TRUE, key |-> NoKey] : r \in Routes} ELSE {Off}
  /\ viewSteps = 0

Step == viewSteps < MaxViewSteps /\ viewSteps' = viewSteps + 1

-----------------------------------------------------------------------------
(***************************************************************************)
(* Asking.  A refresh of the memory counts, and the last one is shown; the *)
(* updates and the models are asked for on a timer.                        *)
(***************************************************************************)
restVars == <<open, kept, writing, viewBusy, scope, shown, acked, stale, edits, dirty, timer, editLost, jobs, action,
              starts, polls, reached, service, loaded, storedService, submitted, typedFor, sharedFor>>
Asks(id) == Cardinality(loads) < MaxLoads /\ loads' = loads \cup {[id |-> id, scope |-> scope, got |-> 0]}
RefreshMemory ==
  /\ open = "memory" /\ Step
  /\ revision' = revision + 1 /\ Asks(revision + 1) /\ UNCHANGED restVars
RefreshUpdates ==
  /\ open = "updates" /\ ~ viewBusy /\ loads = {} /\ Step
  /\ Asks(revision) /\ UNCHANGED <<restVars, revision>>
LoadSemantic ==
  /\ open = "semantic" /\ Step
  /\ Asks(revision) /\ UNCHANGED <<restVars, revision>>

\* The host answers with what it keeps at that moment.
Serve(l) ==
  /\ l.got = 0
  /\ loads' = (loads \ {l}) \cup {[l EXCEPT !.got = kept]}
  /\ UNCHANGED <<open, kept, writing, viewBusy, revision, scope, shown, acked, stale, memoryEdits,
                 actionVars, serviceVars, viewSteps>>

\* Which answers a view still shows.
Shows_Anything(l) == open # "updates" \/ ~ viewBusy
Shows(l) ==
  CASE open = "memory" -> l.id = revision
    [] open = "updates" -> ~ viewBusy /\ l.id = revision
    [] OTHER -> TRUE
Answered(l) ==
  /\ l.got > 0
  /\ loads' = loads \ {l}
  /\ IF Shows(l)
     THEN /\ shown' = [version |-> l.got, scope |-> IF open = "memory" THEN l.scope ELSE "none", asked |-> FALSE]
          /\ stale' = (stale /\ l.scope # scope)
          /\ edits' = edits \cap dirty
          /\ editLost' = (editLost \/ ~ edits \subseteq dirty)
     ELSE UNCHANGED <<shown, stale, edits, editLost>>
  /\ UNCHANGED <<open, kept, writing, viewBusy, revision, scope, acked, dirty, timer, actionVars,
                 serviceVars, viewSteps>>
LoadFails(l) ==
  /\ Step /\ loads' = loads \ {l}
  /\ UNCHANGED <<open, kept, writing, viewBusy, revision, scope, shown, acked, stale, memoryEdits,
                 actionVars, serviceVars>>

\* Something else changes what the host keeps.
HostChanges ==
  /\ open \in {"memory", "updates", "semantic"} /\ Step /\ kept' = kept + 1
  /\ UNCHANGED <<open, loads, writing, viewBusy, revision, scope, shown, acked, stale, memoryEdits,
                 actionVars, serviceVars>>

-----------------------------------------------------------------------------
(***************************************************************************)
(* Changing.                                                               *)
(***************************************************************************)
Change(kind) == writing' = writing \cup {[kind |-> kind, scope |-> scope, got |-> 0]} /\ viewBusy' = TRUE

\* A button of the memory, or a switch of the models.
Act ==
  /\ ~ viewBusy /\ shown # Nothing /\ open \in {"memory", "semantic"} /\ Step
  /\ Change("act")
  /\ UNCHANGED <<open, kept, loads, revision, scope, shown, acked, stale, memoryEdits, actionVars,
                 serviceVars>>
\* The switch of the updates is shown at once as it was asked for, and the
\* questions under way are abandoned.
Configure ==
  /\ ~ viewBusy /\ shown # Nothing /\ open = "updates" /\ Step
  /\ Change("act")
  /\ revision' = revision + 1 /\ shown' = [shown EXCEPT !.asked = TRUE]
  /\ UNCHANGED <<open, kept, loads, scope, acked, stale, memoryEdits, actionVars, serviceVars>>

\* The fields of the memory's settings: days, saved when the field is left,
\* and a quota, saved when the slider has rested.
Type(field) ==
  /\ open = "memory" /\ ~ viewBusy /\ shown # Nothing /\ field \notin edits /\ Step
  /\ edits' = edits \cup {field} /\ dirty' = dirty \cup {field}
  /\ timer' = (timer \/ field = "quota")
  /\ UNCHANGED <<open, versionVars, editLost, actionVars, serviceVars>>
Submit(field) ==
  /\ field \in edits /\ (field = "quota" => timer)
  /\ Change(field)
  /\ edits' = edits \ {field} /\ timer' = (timer /\ field # "quota")
  /\ UNCHANGED <<open, kept, loads, revision, scope, shown, acked, stale, dirty, editLost,
                 actionVars, serviceVars, viewSteps>>

Apply(w) ==
  /\ w.got = 0
  /\ kept' = kept + 1
  /\ writing' = (writing \ {w}) \cup {[w EXCEPT !.got = kept + 1]}
  /\ UNCHANGED <<open, loads, viewBusy, revision, scope, shown, acked, stale, memoryEdits,
                 actionVars, serviceVars, viewSteps>>

\* A change is confirmed, or it fails: what failed is reported and not shown.
Finished(w, ok) ==
  /\ IF ok THEN w.got > 0 /\ UNCHANGED viewSteps ELSE Step
  /\ writing' = writing \ {w} /\ viewBusy' = FALSE
  /\ acked' = IF ok /\ w.got > acked THEN w.got ELSE acked
  /\ UNCHANGED <<open, kept, scope, edits, timer, editLost, actionVars, serviceVars>>
\* The memory is asked anew, for the scope of the moment the change began.
MemoryFinished(w, ok) ==
  /\ open = "memory" /\ Finished(w, ok)
  /\ dirty' = IF ok /\ w.kind # "act" THEN {} ELSE dirty
  /\ revision' = revision + 1
  /\ loads' = loads \cup {[id |-> revision + 1, scope |-> w.scope, got |-> 0]}
  /\ stale' = (stale \/ w.scope # scope)
  /\ UNCHANGED shown
\* The others show the answer.
UpdatesFinished(w, ok) ==
  /\ open = "updates" /\ Finished(w, ok)
  /\ revision' = revision + 1
  /\ shown' = IF ok THEN [shown EXCEPT !.version = w.got, !.asked = FALSE] ELSE [shown EXCEPT !.asked = FALSE]
  /\ UNCHANGED <<loads, dirty, stale>>
SemanticFinished(w, ok) ==
  /\ open = "semantic" /\ Finished(w, ok)
  /\ shown' = IF ok THEN [shown EXCEPT !.version = w.got] ELSE shown
  /\ UNCHANGED <<loads, dirty, stale, revision>>

\* Another scope: nothing is shown until it is answered.
ChooseScope_Kept(s) ==
  /\ open = "memory" /\ s # scope /\ shown # Nothing /\ Step
  /\ scope' = s /\ shown' = Nothing
  /\ UNCHANGED <<open, kept, loads, writing, viewBusy, revision, acked, stale, memoryEdits,
                 actionVars, serviceVars>>
ChooseScope(s) ==
  /\ open = "memory" /\ s # scope /\ shown # Nothing /\ Step
  /\ scope' = s /\ shown' = Nothing /\ revision' = revision + 1
  /\ UNCHANGED <<open, kept, loads, writing, viewBusy, acked, stale, memoryEdits, actionVars, serviceVars>>

-----------------------------------------------------------------------------
(***************************************************************************)
(* An action that runs (useLocalAction.ts): started, and asked for every   *)
(* second while it runs, one question at a time.                           *)
(***************************************************************************)
Start ==
  /\ open = "action" /\ revision < 2 /\ revision' = revision + 1
  /\ starts' = starts \cup {[operation |-> revision + 1, job |-> 0]}
  /\ action' = NoAction
  /\ UNCHANGED <<open, kept, loads, writing, viewBusy, scope, shown, acked, stale, memoryEdits,
                 jobs, polls, reached, serviceVars, viewSteps>>
Runs(s) ==
  /\ s.job = 0
  /\ \E j \in Jobs :
       /\ jobs[j] < Ended /\ \A i \in Jobs : i < j => jobs[i] > jobs[j]
       /\ jobs' = [jobs EXCEPT ![j] = 1]
       /\ starts' = (starts \ {s}) \cup {[s EXCEPT !.job = j]}
  /\ UNCHANGED <<open, versionVars, memoryEdits, action, polls, reached, serviceVars, viewSteps>>
Ends(j) ==
  /\ jobs[j] = 1 /\ jobs' = [jobs EXCEPT ![j] = Ended]
  /\ UNCHANGED <<open, versionVars, memoryEdits, action, starts, polls, reached, serviceVars, viewSteps>>
\* An answer counts if nothing was started since.
IsLast_Any(operation) == TRUE
IsLast(operation) == operation = revision
Started(s) ==
  /\ s.job > 0 /\ starts' = starts \ {s}
  /\ IF IsLast(s.operation)
     THEN /\ action' = [operation |-> s.operation, job |-> s.job, state |-> 1]
          /\ polls' = {}      \* the effect of the last action is disposed of
     ELSE UNCHANGED <<action, polls>>
  /\ UNCHANGED <<open, versionVars, memoryEdits, jobs, reached, serviceVars, viewSteps>>
Poll ==
  /\ action.state = 1 /\ polls = {}
  /\ polls' = {[operation |-> revision, job |-> action.job, state |-> 0]}
  /\ UNCHANGED <<open, versionVars, memoryEdits, jobs, action, starts, reached, serviceVars, viewSteps>>
PollServed(p) ==
  /\ p.state = 0 /\ polls' = {[p EXCEPT !.state = jobs[p.job]]}
  /\ UNCHANGED <<open, versionVars, memoryEdits, jobs, action, starts, reached, serviceVars, viewSteps>>
Polled(p) ==
  /\ p.state > 0 /\ polls' = {}
  /\ IF IsLast(p.operation) /\ p.job = action.job
     THEN action' = [action EXCEPT !.state = p.state] /\ reached' = reached \cup {j \in Jobs : j = p.job /\ p.state = Ended}
     ELSE UNCHANGED <<action, reached>>
  /\ UNCHANGED <<open, versionVars, memoryEdits, jobs, starts, serviceVars, viewSteps>>

-----------------------------------------------------------------------------
(***************************************************************************)
(* The decision service (ProviderSettings.tsx): its settings are loaded,   *)
(* edited, and sent with the key that was typed.  typedFor and sharedFor   *)
(* are the services a key was typed for, and images were allowed for.      *)
(***************************************************************************)
LoadSettings ==
  /\ open = "provider" /\ ~ loaded
  /\ loaded' = TRUE /\ service' = storedService
  /\ sharedFor' = IF storedService.share THEN {storedService.route} ELSE {}
  /\ UNCHANGED <<open, versionVars, memoryEdits, actionVars, storedService, submitted, typedFor, viewSteps>>
Editable == loaded /\ submitted = {}
Choose_KeepKey(route) ==
  /\ Editable /\ route # service.route /\ Step
  /\ service' = [service EXCEPT !.route = route, !.share = FALSE]
  /\ sharedFor' = {}
  /\ UNCHANGED <<open, versionVars, memoryEdits, actionVars, loaded, storedService, submitted, typedFor>>
Choose(route) ==
  /\ Editable /\ route # service.route /\ Step
  /\ service' = [route |-> route, share |-> FALSE, key |-> NoKey]
  /\ sharedFor' = {} /\ typedFor' = {}
  /\ UNCHANGED <<open, versionVars, memoryEdits, actionVars, loaded, storedService, submitted>>
TypeKey ==
  /\ Editable /\ service.route # "off" /\ service.key = NoKey /\ Step
  /\ service' = [service EXCEPT !.key = service.route]
  /\ typedFor' = {service.route}
  /\ UNCHANGED <<open, versionVars, memoryEdits, actionVars, loaded, storedService, submitted, sharedFor>>
ShareImages ==
  /\ Editable /\ service.route # "off" /\ Step
  /\ service' = [service EXCEPT !.share = ~ @]
  /\ sharedFor' = IF service.share THEN {} ELSE {service.route}
  /\ UNCHANGED <<open, versionVars, memoryEdits, actionVars, loaded, storedService, submitted, typedFor>>
SaveSettings ==
  /\ Editable /\ submitted' = {service}
  /\ UNCHANGED <<open, versionVars, memoryEdits, actionVars, service, loaded, storedService,
                 typedFor, sharedFor, viewSteps>>
\* A service that is turned on is tested first, and stored if it answers; the
\* answer can get lost.
SettingsSaved(f, ok) ==
  /\ IF ok THEN UNCHANGED viewSteps ELSE Step
  /\ storedService' \in IF ok THEN {[f EXCEPT !.key = NoKey]} ELSE {storedService, [f EXCEPT !.key = NoKey]}
  /\ IF ok THEN service' = storedService' /\ typedFor' = {} ELSE UNCHANGED <<service, typedFor>>
  /\ submitted' = {}
  /\ UNCHANGED <<open, versionVars, memoryEdits, actionVars, loaded, sharedFor>>
\* The stored key of the service in use is removed: what is stored is shown.
RemoveKey ==
  /\ Editable /\ storedService.route # "off" /\ Step
  /\ service' = storedService /\ typedFor' = {}
  /\ sharedFor' = IF storedService.share THEN {storedService.route} ELSE {}
  /\ UNCHANGED <<open, versionVars, memoryEdits, actionVars, loaded, storedService, submitted>>

PopupViewsNext ==
  \/ RefreshMemory \/ RefreshUpdates \/ LoadSemantic \/ \E l \in loads : Serve(l) \/ Answered(l) \/ LoadFails(l)
  \/ HostChanges \/ Act \/ Configure
  \/ \E field \in {"purge", "quota"} : Type(field) \/ Submit(field)
  \/ \E w \in writing : Apply(w) \/ \E ok \in BOOLEAN : MemoryFinished(w, ok) \/ UpdatesFinished(w, ok) \/ SemanticFinished(w, ok)
  \/ \E s \in Scopes : ChooseScope(s)
  \/ Start \/ \E s \in starts : Runs(s) \/ Started(s)
  \/ \E j \in Jobs : Ends(j)
  \/ Poll \/ \E p \in polls : PollServed(p) \/ Polled(p)
  \/ LoadSettings \/ \E route \in Routes \cup {"off"} : Choose(route)
  \/ TypeKey \/ ShareImages \/ SaveSettings \/ RemoveKey
  \/ \E f \in submitted : \E ok \in BOOLEAN : SettingsSaved(f, ok)

-----------------------------------------------------------------------------
\* The updates show the change that was confirmed, or a later state: no answer
\* that was read before it passes for a later one, and a switch is not left as
\* it was asked for.
UpdatesAreCurrent == open = "updates" /\ ~ viewBusy => shown.version >= acked /\ ~ shown.asked

\* Statistics are those of the chosen scope, unless a change that began under
\* another one has just been finished.
ScopeIsShown == shown = Nothing \/ shown.scope \in {scope, "none"} \/ stale

\* The action that is shown is of the last start, and does not run again once
\* it was shown to have ended.
ActionIsLast == 
  action # NoAction => /\ action.operation = revision /\ action.state <= jobs[action.job]
                       /\ action.state < Ended => action.job \notin reached

\* A key goes to the service it was typed for, images to one they were
\* allowed for, here or in what was stored.
SentAsChosen ==
  \A f \in submitted : /\ f.key \in {NoKey, f.route}
                       /\ f.share => f.route \in sharedFor

PopupViewsSound == UpdatesAreCurrent /\ ScopeIsShown /\ ActionIsLast /\ SentAsChosen

(***************************************************************************)
(* Not true:                                                               *)
(***************************************************************************)
\* The models show an answer that was read before a change was made, when it
\* arrives after it (ConnectionView.tsx:94-105 compares no revision).
ModelsNoneOlder == open = "semantic" /\ ~ viewBusy => shown.version >= acked
\* A change that was started before another scope was chosen asks for the
\* earlier scope again, and its answer is shown (MemoryView.tsx:130-156).
ScopeAlwaysShown == shown = Nothing \/ shown.scope \in {scope, "none"}
\* A field that is being typed in is reset by the saving of the other one,
\* which marks both as clean (MemoryView.tsx:148).
EditsKept == ~ editLost
=============================================================================
