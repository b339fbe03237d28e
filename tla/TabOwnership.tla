---------------------------- MODULE TabOwnership ----------------------------
(***************************************************************************)
(* Who controls which tab, in the browser extension's background script.   *)
(*                                                                         *)
(* A session (one agent's work) owns the tabs it created or claimed.  The  *)
(* background script keeps the sessions in a Map from session id to a      *)
(* mutable object, and writes the whole Map to chrome.storage after most   *)
(* changes.  JavaScript runs to completion between awaits, so a handler is *)
(* modelled as one action per stretch of code between two awaits.          *)
(* Handlers of different calls, tab events, the restore that a restarted   *)
(* background script runs, and the release of abandoned sessions that the  *)
(* controller asks for, interleave at the awaits.                          *)
(*                                                                         *)
(* The objects have identities: a handler that took a reference to a       *)
(* session before an await still holds that object after the Map has       *)
(* dropped it.                                                             *)
(*                                                                         *)
(* Abstractions: "recent" stands for lastActivityAt later than the         *)
(* controller's inactiveBefore; a session's name, policy, active tab and   *)
(* tab origins are left out.  A tab in a tab group cannot be claimed, but  *)
(* grouping is best effort (its failure is caught, and without             *)
(* chrome.tabGroups it does nothing), so here no tab is in a group.        *)
(***************************************************************************)
EXTENDS Naturals, FiniteSets, FiniteSetsExt, Functions

CONSTANTS Sessions,     \* session ids
          Tabs,         \* tab ids; the browser never gives one twice
          UserTabs,     \* the tabs open at the start, the user's own
          Calls,        \* calls the extension may be serving at once
          None,         \* no session, no tab
          Mortal,       \* the sessions whose harness may die
          MaxCalls,     \* bound: calls that begin, not counting Talk and Act
          MaxRestarts   \* bound: how often the background script restarts

ASSUME OwnershipAssumption ==
    /\ UserTabs \subseteq Tabs /\ Mortal \subseteq Sessions
    /\ None \notin Sessions \cup Tabs
    /\ IsFiniteSet(Sessions) /\ IsFiniteSet(Calls)
    /\ MaxCalls \in Nat /\ MaxRestarts \in Nat

VARIABLES mem,      \* the Map: where each session's object is, and the objects
          stored,   \* what chrome.storage holds for each session
          open,     \* tabs open in the browser
          used,     \* tab ids given so far
          calls,    \* the calls being served
          restore,  \* restoreSessions, between its awaits
          rec,      \* reconcileAbandonedSessions, between its awaits
          lease,    \* per session, its harness as the controller's leases show it
          begun,    \* calls begun so far
          restarts, \* restarts of the background script so far
          granted,  \* history: <<s, t>> granted to s and not given back since
          early     \* history: the extension has served in the middle of a restore

bounds == <<begun, restarts>>
vars == <<mem, stored, open, used, calls, restore, rec, lease, bounds, granted, early>>

\* Every session, call and the restore may hold one object each.
Objects == 1 .. (Cardinality(Sessions) + Cardinality(Calls) + 1)
SessionValue == [tabs : SUBSET Tabs, recent : BOOLEAN]
Absent == [tabs |-> {}, recent |-> FALSE]

NoCall == [op |-> "none", s |-> None, t |-> None, obj |-> 0, todo |-> {}]
NoRestore == [pc |-> "off", snap |-> [s \in Sessions |-> Absent], todo |-> {},
              s |-> None, obj |-> 0, tabs |-> {}]
NoReconcile == [pc |-> "off", asked |-> {}, s |-> None, tabs |-> {}, settled |-> {}]
EmptyMap == [at |-> [s \in Sessions |-> 0], obj |-> [o \in Objects |-> Absent]]

Call == [op : {"none", "create", "created", "claim", "grouping", "release",
               "leave", "close", "remove", "finalize", "finalized"},
         s : Sessions \cup {None}, t : Tabs \cup {None},
         obj : Objects \cup {0}, todo : SUBSET Tabs]
Restoring == [pc : {"off", "read", "turn", "tab"}, snap : [Sessions -> SessionValue],
              todo : SUBSET Sessions, s : Sessions \cup {None},
              obj : Objects \cup {0}, tabs : SUBSET Tabs]
Reconciling == [pc : {"off", "asked", "turn", "tab"}, asked : SUBSET Sessions,
                s : Sessions \cup {None}, tabs : SUBSET Tabs, settled : SUBSET Sessions]

TypeOK ==
    /\ mem \in [at : [Sessions -> Objects \cup {0}], obj : [Objects -> SessionValue]]
    /\ \A s, r \in Sessions : mem.at[s] = mem.at[r] /\ mem.at[s] # 0 => s = r
    /\ stored \in [Sessions -> SessionValue]
    /\ used \in SUBSET Tabs /\ open \subseteq used
    /\ calls \in [Calls -> Call] /\ restore \in Restoring /\ rec \in Reconciling
    /\ lease \in [Sessions -> {"live", "dead", "expired", "gone"}]
    /\ begun \in 0 .. MaxCalls /\ restarts \in 0 .. MaxRestarts
    /\ granted \subseteq Sessions \X Tabs /\ early \in BOOLEAN

-----------------------------------------------------------------------------
(* The Map and its objects.                                                *)

TabsOf(m, s) == IF m.at[s] = 0 THEN {} ELSE m.obj[m.at[s]].tabs
Owners(m, t) == {s \in Sessions : t \in TabsOf(m, s)}

\* An object nobody refers to.
Fresh(m) == Min(Objects \ (Range(m.at) \cup {calls[c].obj : c \in Calls} \cup {restore.obj}))

\* sessionState(): the session's object, made on first use.
sessionState(m, s) ==
    IF m.at[s] # 0 THEN m
    ELSE [at |-> [m.at EXCEPT ![s] = Fresh(m)],
          obj |-> [m.obj EXCEPT ![Fresh(m)] = [tabs |-> {}, recent |-> TRUE]]]

\* sessionState() and updateTurn().
updateTurn(m, s) ==
    LET n == sessionState(m, s) IN [n EXCEPT !.obj[n.at[s]].recent = TRUE]

\* The synchronous part of trackTab(), for a tab no other session owns.
Track(m, s, t) ==
    LET n == sessionState(m, s) IN [n EXCEPT !.obj[n.at[s]].tabs = @ \cup {t}]

\* sessions.delete(); nobody reads the activity time of a dropped object.
Drop(m, s) ==
    IF m.at[s] = 0 THEN m ELSE [m EXCEPT !.at[s] = 0, !.obj[m.at[s]].recent = FALSE]

\* untrackTab() of the tabs in T: an emptied session leaves the Map.
Untrack(m, s, T) ==
    IF m.at[s] = 0 THEN m
    ELSE LET n == [m EXCEPT !.obj[m.at[s]].tabs = @ \ T]
         IN  IF TabsOf(n, s) = {} THEN Drop(n, s) ELSE n

\* persistSessions() serialises the Map at the moment it is called.
Serialized(m) == [s \in Sessions |-> IF m.at[s] = 0 THEN Absent ELSE m.obj[m.at[s]]]

\* Mutation: the Map is changed and not persisted.
UntrackAndPersist_NotStored(s, T) ==
    /\ mem' = Untrack(mem, s, T)
    /\ stored' = stored
    /\ granted' = granted \ ({s} \X T)

\* untrackTab(): returns before it persists when the session is gone.
UntrackAndPersist(s, T) ==
    /\ mem' = Untrack(mem, s, T)
    /\ stored' = IF mem.at[s] = 0 THEN stored ELSE Serialized(mem')
    /\ granted' = granted \ ({s} \X T)

Answered(c) == calls' = [calls EXCEPT ![c] = NoCall]
Becomes(c, op) == calls' = [calls EXCEPT ![c].op = op]

\* Only a session whose harness lives makes calls.  The background script connects
\* to the host without waiting for the restore, so they may arrive in the middle of it.
MayCall(s) == lease[s] = "live"

Begins(c, s) ==
    /\ calls[c] = NoCall /\ MayCall(s)
    /\ begun < MaxCalls /\ begun' = begun + 1
    /\ UNCHANGED restarts

Starts(c, op, s, t) ==
    /\ Begins(c, s)
    /\ calls' = [calls EXCEPT ![c] = [NoCall EXCEPT !.op = op, !.s = s, !.t = t]]

-----------------------------------------------------------------------------
(* The session methods.                                                    *)

\* A method that names its session only: getTabs, nameSession, turnEnded.
Talk(s) ==
    /\ MayCall(s)
    /\ mem' = updateTurn(mem, s)
    /\ UNCHANGED <<stored, open, used, calls, restore, rec, lease, bounds, granted>>

\* A method that acts on a tab: ensureControlledTab().
Act(s, t) ==
    /\ MayCall(s) /\ s \in Owners(mem, t)
    /\ mem' = updateTurn(mem, s)
    /\ stored' = Serialized(mem')
    /\ UNCHANGED <<open, used, calls, restore, rec, lease, bounds, granted>>

\* createTab, up to chrome.tabs.create.
BeginCreate(c, s) ==
    /\ Starts(c, "create", s, None)
    /\ mem' = updateTurn(mem, s)
    /\ UNCHANGED <<stored, open, used, restore, rec, lease, granted>>

\* The browser opens the tab; its answer is on the way.
Create(c, t) ==
    /\ calls[c].op = "create" /\ t \notin used
    /\ open' = open \cup {t} /\ used' = used \cup {t}
    /\ calls' = [calls EXCEPT ![c].op = "created", ![c].t = t]
    /\ UNCHANGED <<mem, stored, restore, rec, lease, bounds, granted>>

\* Mutation: the owner is not looked at again after the await.
TrackOrFail_Unchecked(c) ==
    LET s == calls[c].s  t == calls[c].t IN
    /\ mem' = Track(mem, s, t)
    /\ granted' = granted \cup {<<s, t>>}
    /\ Becomes(c, "grouping")

\* trackTab() checks the owner and adds the tab in one stretch.
TrackOrFail(c) ==
    LET s == calls[c].s  t == calls[c].t IN
    \/ /\ Owners(mem, t) \subseteq {s}
       /\ mem' = Track(mem, s, t)
       /\ granted' = granted \cup {<<s, t>>}
       /\ Becomes(c, "grouping")
    \/ /\ ~(Owners(mem, t) \subseteq {s})
       /\ Answered(c)
       /\ UNCHANGED <<mem, granted>>

Created(c) ==
    /\ calls[c].op = "created"
    /\ TrackOrFail(c)
    /\ UNCHANGED <<stored, open, used, restore, rec, lease, bounds>>

\* claimUserTab, up to getTab().
BeginClaim(c, s, t) ==
    /\ t \in open /\ Starts(c, "claim", s, t)
    /\ mem' = updateTurn(mem, s)
    /\ UNCHANGED <<stored, open, used, restore, rec, lease, granted>>

\* The tab is there, nobody owns it, and it becomes the session's.
Claim(c) ==
    /\ calls[c].op = "claim" /\ calls[c].t \in open
    /\ Owners(mem, calls[c].t) = {}
    /\ TrackOrFail(c)
    /\ UNCHANGED <<stored, open, used, restore, rec, lease, bounds>>

ClaimRefused(c) ==
    /\ calls[c].op = "claim"
    /\ calls[c].t \notin open \/ Owners(mem, calls[c].t) # {}
    /\ Answered(c)
    /\ UNCHANGED <<mem, stored, open, used, restore, rec, lease, bounds, granted>>

\* Mutation: trackTab() does not persist.
Grouped_NotStored(c) ==
    /\ calls[c].op = "grouping"
    /\ Answered(c)
    /\ UNCHANGED <<mem, stored, open, used, restore, rec, lease, bounds, granted>>

\* The end of trackTab(): the tab is grouped (or not), the Map persisted.
Grouped(c) ==
    /\ calls[c].op = "grouping"
    /\ stored' = Serialized(mem)
    /\ Answered(c)
    /\ UNCHANGED <<mem, open, used, restore, rec, lease, bounds, granted>>

\* releaseTab and closeTab, up to detachTab().
BeginLeave(c, op, s, t) ==
    /\ Starts(c, op, s, t) /\ s \in Owners(mem, t)
    /\ mem' = updateTurn(mem, s)
    /\ stored' = Serialized(mem')
    /\ UNCHANGED <<open, used, restore, rec, lease, granted>>

Detached(c) ==
    /\ \/ calls[c].op = "release" /\ Becomes(c, "leave")
       \/ calls[c].op = "close" /\ Becomes(c, "remove")
    /\ UNCHANGED <<mem, stored, open, used, restore, rec, lease, bounds, granted>>

\* tabs.onRemoved: whoever owns the tab is untracked.
Removed(t) ==
    /\ open' = open \ {t}
    /\ \/ \E s \in Owners(mem, t) : UntrackAndPersist(s, {t})
       \/ Owners(mem, t) = {} /\ UNCHANGED <<mem, stored, granted>>

\* closeTab: chrome.tabs.remove, whoever owns the tab by now.
CloseTab(c) ==
    /\ calls[c].op = "remove" /\ calls[c].t \in open
    /\ Removed(calls[c].t)
    /\ Becomes(c, "leave")
    /\ UNCHANGED <<used, restore, rec, lease, bounds>>

\* detachTab() throws, or the tab to close is gone: the call fails.
LeaveFails(c) ==
    /\ \/ calls[c].op \in {"release", "close"}
       \/ calls[c].op = "remove" /\ calls[c].t \notin open
    /\ Answered(c)
    /\ UNCHANGED <<mem, stored, open, used, restore, rec, lease, bounds, granted>>

\* Both end in untrackTab().
Leave(c) ==
    /\ calls[c].op = "leave"
    /\ UntrackAndPersist(calls[c].s, {calls[c].t})
    /\ Answered(c)
    /\ UNCHANGED <<open, used, restore, rec, lease, bounds>>

-----------------------------------------------------------------------------
(* finalizeTabs: it holds the session's object across its awaits.          *)

BeginFinalize(c, s) ==
    /\ Begins(c, s)
    /\ mem' = updateTurn(mem, s)
    /\ calls' = [calls EXCEPT ![c] = [op |-> "finalize", s |-> s, t |-> None,
                                      obj |-> mem'.at[s], todo |-> TabsOf(mem', s)]]
    /\ UNCHANGED <<stored, open, used, restore, rec, lease, granted>>

\* The tabs that were detached and delivered are untracked side by side; a
\* tab that is blocked or handed off stays.
FinalizeUntrack(c, ready) ==
    /\ calls[c].op = "finalize" /\ ready \in (SUBSET calls[c].todo) \ {{}}
    /\ UntrackAndPersist(calls[c].s, ready)
    /\ calls' = [calls EXCEPT ![c].op = "finalized", ![c].todo = {}]
    /\ UNCHANGED <<open, used, restore, rec, lease, bounds>>

\* "if (!session.tabIds.size) sessions.delete(id)", session being the object
\* taken at the start.  With nothing to untrack there is no await before it.
FinalizeEnd(c) ==
    /\ calls[c].op \in {"finalize", "finalized"}
    /\ mem' = IF mem.obj[calls[c].obj].tabs = {} THEN Drop(mem, calls[c].s) ELSE mem
    /\ stored' = Serialized(mem')
    /\ Answered(c)
    /\ UNCHANGED <<open, used, restore, rec, lease, bounds, granted>>

-----------------------------------------------------------------------------
(* Tabs the user opens and closes.                                         *)

UserOpens(t) ==
    /\ t \notin used
    /\ open' = open \cup {t} /\ used' = used \cup {t}
    /\ UNCHANGED <<mem, stored, calls, restore, rec, lease, bounds, granted>>

\* The answer to tabs.create always arrives before the tab's removal does.
TabRemoved(t) ==
    /\ t \in open /\ \A c \in Calls : calls[c].op = "created" => calls[c].t # t
    /\ Removed(t)
    /\ UNCHANGED <<used, calls, restore, rec, lease, bounds>>

(* A restart of the background script, and restoreSessions.                *)

\* The Map and the calls are lost; storage is read before anything writes it.
Restart ==
    /\ restarts < MaxRestarts
    /\ restarts' = restarts + 1
    /\ mem' = EmptyMap
    /\ calls' = [c \in Calls |-> NoCall]
    /\ restore' = [NoRestore EXCEPT !.pc = "read", !.snap = stored]
    /\ rec' = NoReconcile
    /\ UNCHANGED <<stored, open, used, lease, begun, granted>>

RestoreRead ==
    /\ restore.pc = "read"
    /\ restore' = [restore EXCEPT !.pc = "turn",
                                  !.todo = {s \in Sessions : restore.snap[s].tabs # {}}]
    /\ UNCHANGED <<mem, stored, open, used, calls, rec, lease, bounds, granted>>

\* The next stored session: its object, with the activity time that was stored.
RestoreSession(s) ==
    /\ restore.pc = "turn" /\ s \in restore.todo
    /\ LET m == sessionState(mem, s) IN
           /\ mem' = [m EXCEPT !.obj[m.at[s]].recent = restore.snap[s].recent]
           /\ restore' = [restore EXCEPT !.pc = "tab", !.todo = @ \ {s}, !.s = s,
                                         !.obj = m.at[s], !.tabs = restore.snap[s].tabs]
    /\ UNCHANGED <<stored, open, used, calls, rec, lease, bounds, granted>>

\* getTab() answers for one tab: an open one joins the object, whoever owns it.
\* After the last one an empty object's session leaves the Map.
RestoreTab(t) ==
    /\ restore.pc = "tab" /\ t \in restore.tabs
    /\ LET m == IF t \in open THEN [mem EXCEPT !.obj[restore.obj].tabs = @ \cup {t}] ELSE mem
           last == restore.tabs = {t}
       IN  /\ mem' = IF last /\ m.obj[restore.obj].tabs = {} THEN Drop(m, restore.s) ELSE m
           /\ restore' = IF last
                         THEN [restore EXCEPT !.pc = "turn", !.s = None, !.obj = 0, !.tabs = {}]
                         ELSE [restore EXCEPT !.tabs = @ \ {t}]
    /\ UNCHANGED <<stored, open, used, calls, rec, lease, bounds, granted>>

RestoreEnd ==
    /\ restore.pc = "turn" /\ restore.todo = {}
    /\ restore' = NoRestore
    /\ UNCHANGED <<mem, stored, open, used, calls, rec, lease, bounds, granted>>

-----------------------------------------------------------------------------
(* The harness behind a session, and the release of abandoned sessions.    *)

HarnessDies(s) ==
    /\ s \in Mortal /\ lease[s] = "live"
    /\ lease' = [lease EXCEPT ![s] = "dead"]
    /\ UNCHANGED <<mem, stored, open, used, calls, restore, rec, bounds, granted>>

\* participantEligible(): five minutes have passed since its last heartbeat,
\* and no call or release takes that long.
LeaseExpires(s) ==
    /\ lease[s] = "dead"
    /\ rec = NoReconcile /\ restore = NoRestore /\ \A c \in Calls : calls[c].s # s
    /\ lease' = [lease EXCEPT ![s] = "expired"]
    /\ UNCHANGED <<mem, stored, open, used, calls, restore, rec, bounds, granted>>

\* A new process takes up the session, under a lease of its own.
Resume(s) ==
    /\ lease[s] # "live"
    /\ lease' = [lease EXCEPT ![s] = "live"]
    /\ UNCHANGED <<mem, stored, open, used, calls, restore, rec, bounds, granted>>

\* Five minutes pass with nothing done for the session, which only matters to
\* a release: the session has no live harness.
Quiet(s) ==
    /\ lease[s] # "live"
    /\ rec = NoReconcile /\ restore = NoRestore
    /\ \A c \in Calls : calls[c].s # s
    /\ TRUE \in {stored[s].recent} \cup {mem.obj[o].recent : o \in {mem.at[s]} \ {0}}
    /\ mem' = IF mem.at[s] = 0 THEN mem ELSE [mem EXCEPT !.obj[mem.at[s]].recent = FALSE]
    /\ stored' = [stored EXCEPT ![s].recent = FALSE]
    /\ UNCHANGED <<open, used, calls, restore, rec, lease, bounds, granted>>

\* reconcileRuntimeState(): the sessions whose lease has expired, less those
\* some live lease names, go to the extension in one request.
AskReconcile ==
    /\ rec = NoReconcile
    /\ \E s \in Sessions : lease[s] = "expired"
    /\ rec' = [NoReconcile EXCEPT !.pc = "asked",
                                  !.asked = {s \in Sessions : lease[s] = "expired"}]
    /\ UNCHANGED <<mem, stored, open, used, calls, restore, lease, bounds, granted>>

\* commandHealth.idle(): nothing is being detached.
Idle == \A c \in Calls : calls[c].op \notin {"release", "close", "finalize"}

BeginReconcile ==
    /\ rec.pc = "asked"
    /\ rec' = IF Idle THEN [rec EXCEPT !.pc = "turn"] ELSE NoReconcile
    /\ UNCHANGED <<mem, stored, open, used, calls, restore, lease, bounds, granted>>

\* The next session of the request: unknown, recent, or to be released.
ReconcileSession(s) ==
    /\ rec.pc = "turn" /\ s \in rec.asked
    /\ LET o == mem.at[s] IN
       rec' = CASE o = 0 -> [rec EXCEPT !.asked = @ \ {s}, !.settled = @ \cup {s}]
                [] o # 0 /\ mem.obj[o].recent -> [rec EXCEPT !.asked = @ \ {s}]
                [] OTHER -> [rec EXCEPT !.pc = "tab", !.asked = @ \ {s}, !.s = s,
                                        !.tabs = TabsOf(mem, s)]
    /\ UNCHANGED <<mem, stored, open, used, calls, restore, lease, bounds, granted>>

\* The tab is detached, ungrouped and untracked; it stays open.
ReconcileTab(t) ==
    /\ rec.pc = "tab" /\ t \in rec.tabs
    /\ UntrackAndPersist(rec.s, {t})
    /\ rec' = [rec EXCEPT !.tabs = @ \ {t}]
    /\ UNCHANGED <<open, used, calls, restore, lease, bounds>>

\* A dialog is open in it, or detaching it fails: it stays owned.
ReconcileBlocked(t) ==
    /\ rec.pc = "tab" /\ t \in rec.tabs
    /\ rec' = [rec EXCEPT !.tabs = @ \ {t}]
    /\ UNCHANGED <<mem, stored, open, used, calls, restore, lease, bounds, granted>>

\* Mutation: a session whose tabs are blocked is settled too.
ReconcileSettle_Blocked ==
    /\ rec.pc = "tab" /\ rec.tabs = {}
    /\ mem' = IF TabsOf(mem, rec.s) = {} THEN Drop(mem, rec.s) ELSE mem
    /\ rec' = [rec EXCEPT !.pc = "turn", !.s = None, !.settled = @ \cup {rec.s}]
    /\ UNCHANGED <<stored, open, used, calls, restore, lease, bounds, granted>>

\* A session with no tab left is settled.
ReconcileSettle ==
    /\ rec.pc = "tab" /\ rec.tabs = {}
    /\ mem' = IF TabsOf(mem, rec.s) = {} THEN Drop(mem, rec.s) ELSE mem
    /\ rec' = [rec EXCEPT !.pc = "turn", !.s = None,
                          !.settled = IF TabsOf(mem, rec.s) = {} THEN @ \cup {rec.s} ELSE @]
    /\ UNCHANGED <<stored, open, used, calls, restore, lease, bounds, granted>>

\* The answer, which the controller may have stopped waiting for, removes the
\* leases of the settled sessions: the dead ones, not one taken since.
ReconcileEnd(heard) ==
    /\ rec.pc = "turn" /\ rec.asked = {}
    /\ stored' = Serialized(mem)
    /\ lease' = [s \in Sessions |-> IF heard /\ s \in rec.settled /\ lease[s] = "expired"
                                    THEN "gone" ELSE lease[s]]
    /\ rec' = NoReconcile
    /\ UNCHANGED <<mem, open, used, calls, restore, bounds, granted>>

-----------------------------------------------------------------------------
Init ==
    /\ mem = EmptyMap
    /\ stored = [s \in Sessions |-> Absent]
    /\ open = UserTabs /\ used = UserTabs
    /\ calls = [c \in Calls |-> NoCall]
    /\ restore = NoRestore /\ rec = NoReconcile
    /\ lease = [s \in Sessions |-> "live"]
    /\ begun = 0 /\ restarts = 0 /\ granted = {} /\ early = FALSE

\* The parts of restoreSessions and of reconcileAbandonedSessions that run on
\* to the next await.
RunOn ==
    \/ \E s \in Sessions : RestoreSession(s) \/ ReconcileSession(s)
    \/ RestoreEnd
    \/ \E heard \in BOOLEAN : ReconcileEnd(heard)

Serve(c) ==
    \/ \E s \in Sessions :
           \/ BeginCreate(c, s) \/ BeginFinalize(c, s)
           \/ \E t \in Tabs :
                  \/ BeginClaim(c, s, t)
                  \/ \E op \in {"release", "close"} : BeginLeave(c, op, s, t)
    \/ \E t \in Tabs : Create(c, t)
    \/ Created(c) \/ Claim(c) \/ ClaimRefused(c) \/ Grouped(c)
    \/ Detached(c) \/ CloseTab(c) \/ LeaveFails(c) \/ Leave(c) \/ FinalizeEnd(c)
    \/ \E ready \in SUBSET calls[c].todo : FinalizeUntrack(c, ready)

\* What a session or the controller asks of the extension.
Asked ==
    \/ \E c \in Calls : Serve(c)
    \/ \E s \in Sessions : Talk(s) \/ \E t \in Tabs : Act(s, t)
    \/ BeginReconcile

Environment ==
    \/ \E t \in Tabs : UserOpens(t) \/ TabRemoved(t)
    \/ Restart
    \/ \E s \in Sessions : HarnessDies(s) \/ LeaseExpires(s) \/ Resume(s) \/ Quiet(s)

InTurn == restore.pc = "turn" \/ rec.pc = "turn"

Next ==
    \/ InTurn /\ RunOn /\ UNCHANGED early
    \/ ~InTurn /\ Asked /\ early' = (early \/ restore # NoRestore)
    \/ /\ ~InTurn
       /\ \/ Environment
          \/ AskReconcile \/ RestoreRead \/ ReconcileSettle
          \/ \E t \in Tabs : RestoreTab(t) \/ ReconcileTab(t) \/ ReconcileBlocked(t)
       /\ UNCHANGED early

Spec == Init /\ [][Next]_vars

-----------------------------------------------------------------------------
(* Properties.                                                             *)

Owns == {p \in Sessions \X Tabs : p[2] \in TabsOf(mem, p[1])}

\* No tab is controlled by two sessions: assertTabAccess refuses a tab of
\* another session, whatever createTab and claimUserTab awaited before.
OneOwner == \A t \in Tabs : Cardinality(Owners(mem, t)) <= 1

\* It is not so for calls that the extension serves in the middle of a restore: a
\* restored tab joins its session unchecked.  Until the first such call it is.
OneOwnerUnlessEarly == ~early => OneOwner

\* A session controls only tabs that it created or claimed and has not given
\* back since, also after restarts of the background script.
OwnsOnlyGranted == Owns \subseteq granted

\* Not so either once a call was served in the middle of a restore, which brings
\* back what that call gave up; until then storage forgets with the Map.
GrantedUnlessEarly == ~early => OwnsOnlyGranted

\* While no call is being served, storage names every tab that a session
\* controls, so that a restart of the background script loses none.
SurvivesRestart ==
    (restore = NoRestore /\ rec = NoReconcile /\ \A c \in Calls : calls[c] = NoCall)
        => \A s \in Sessions : TabsOf(mem, s) \subseteq stored[s].tabs

\* "if the profile reconnects before cleanup, it keeps its sessions"
\* (runtime-updates.md:19): so storage must name them even where no call is served
\* in the middle of a restore, and a tab is closed then.
SurvivesUnlessEarly == ~early => SurvivesRestart

\* It does as long as no background script restarts.
StorageCatchesUp == restarts = 0 => SurvivesRestart

\* A lease is removed only when its session holds no tab any more: nothing
\* else would ever release the tabs of a harness that died.
SettledHoldsNothing == \A s \in Sessions : lease[s] = "gone" => TabsOf(mem, s) = {}

\* A release served in the middle of a restore settles sessions that are not restored
\* yet.  Until one is, failed detaches and restarts never cost a session its lease.
SettledUnlessEarly == ~early => SettledHoldsNothing

\* A tab that a session created or claimed stays the session's until it is
\* closed, released, finalized or reconciled.
GrantedIsOwned == granted \subseteq Owns

\* A session with activity within the grace period is not reconciled.
RecentUntouched ==
    [][\A t \in Tabs : ReconcileTab(t) /\ TabsOf(mem, rec.s) # {}
           => ~mem.obj[mem.at[rec.s]].recent]_vars

\* Reconciliation takes no tab of a session that a live harness holds.
LiveSessionsKept ==
    [][\A t \in Tabs : ReconcileTab(t) /\ t \in TabsOf(mem, rec.s) => lease[rec.s] # "live"]_vars
=============================================================================
