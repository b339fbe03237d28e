----------------------------- MODULE TabCreation -----------------------------
(***************************************************************************)
(* How a session of an agent gets tabs, over the browser profiles that are *)
(* connected.  A call chooses a profile, lists the session's tabs there,   *)
(* asks for a new one, and, when the connection fails it, looks for the    *)
(* tab that may have been made all the same.  Calls of one session         *)
(* interleave wherever they wait, and the browsers go on meanwhile.        *)
(*                                                                         *)
(* A creation carries an id of its own, represented by the call; a tab id  *)
(* is given once.                                                          *)
(***************************************************************************)
EXTENDS Naturals, FiniteSets

CONSTANTS Profiles,       \* the browser profiles
          CreateCalls,    \* calls of the session that need a new tab
          TabIds,         \* the tabs there may be
          NoTab, NoBrowser, Expired,
          MaxTurns        \* bound on what happens beside the calls

ASSUME CreationAssumption == NoTab \notin CreateCalls /\ NoBrowser \notin Profiles

VARIABLES connected,      \* the profiles whose host answers
          listed,         \* the list of them that the client keeps, or Expired
          chosen,         \* the profile the session selected
          used,           \* the profiles the session used
          tabs,           \* the tabs, see TabCreationTypeOK
          newTab,         \* the calls
          finalizing,     \* the profiles that a finalization still asks
          partial,        \* one of them did not finish
          crossed,        \* profiles in which a tab was asked for beside a finalization (history)
          turns           \* what happened beside the calls so far

tabCreationVars == <<connected, listed, chosen, used, tabs, newTab, finalizing, partial, crossed, turns>>

\* A tab is untracked, tracked by the session, stored with it, or released.
NoSuchTab == [stage |-> "none", at |-> NoBrowser, by |-> NoTab, marked |-> FALSE, blank |-> FALSE]

TabCreationTypeOK ==
  /\ connected \subseteq Profiles /\ used \subseteq Profiles /\ crossed \subseteq Profiles /\ finalizing \subseteq Profiles
  /\ listed \in (SUBSET Profiles) \cup {Expired}
  /\ chosen \in Profiles \cup {NoBrowser}
  /\ tabs \in [TabIds -> [stage : {"none", "opened", "tracked", "stored", "released", "closed"},
                          at : Profiles \cup {NoBrowser}, by : CreateCalls \cup {NoTab},
                          marked : BOOLEAN, blank : BOOLEAN]]
  /\ newTab \in [CreateCalls -> [at : {"idle", "choose", "list", "create", "recover", "made", "over", "failed"},
                                 profile : Profiles \cup {NoBrowser}, before : SUBSET TabIds, answer : TabIds \cup {NoTab}]]
  /\ partial \in BOOLEAN /\ turns \in 0 .. MaxTurns

TabCreationInit ==
  /\ connected \in (SUBSET Profiles) \ {{}} /\ listed = Expired
  /\ chosen = NoBrowser /\ used = {}
  /\ tabs = [t \in TabIds |-> NoSuchTab]
  /\ newTab = [c \in CreateCalls |-> [at |-> "idle", profile |-> NoBrowser, before |-> {}, answer |-> NoTab]]
  /\ finalizing = {} /\ partial = FALSE /\ crossed = {} /\ turns = 0

-----------------------------------------------------------------------------
(***************************************************************************)
(* The choice of a profile: the selected one, the only one used, or the    *)
(* only one there is.  The list is kept for a moment; a profile that is    *)
(* not on it is looked for in a fresh one.                                 *)
(***************************************************************************)
WantedProfile == CASE chosen # NoBrowser -> chosen
            [] chosen = NoBrowser /\ Cardinality(used) = 1 -> CHOOSE p \in used : TRUE
            [] OTHER -> NoBrowser
Known == IF listed = Expired THEN connected ELSE listed
Listing(p) == IF p # NoBrowser /\ p \notin Known THEN connected ELSE Known
ChoicesFor(p) == IF p # NoBrowser THEN {p} \cap Listing(p)
              ELSE IF Cardinality(Known) = 1 THEN Known ELSE {}

SetCall(c, new) == newTab' = [newTab EXCEPT ![c] = new]
ShiftTo(c, at) == SetCall(c, [newTab[c] EXCEPT !.at = at, !.before = IF at = "recover" THEN @ ELSE {}])

\* The session's wish is read, then the list is awaited.
NewTab(c) ==
  /\ newTab[c].at = "idle"
  /\ SetCall(c, [newTab[c] EXCEPT !.at = "choose", !.profile = WantedProfile])
  /\ UNCHANGED <<connected, listed, chosen, used, tabs, finalizing, partial, crossed, turns>>
\* The profile counts as used before anything is asked of it.
ChooseProfile(c) ==
  /\ newTab[c].at = "choose"
  /\ listed' = Listing(newTab[c].profile)
  /\ \/ \E p \in ChoicesFor(newTab[c].profile) :
          used' = used \cup {p} /\ SetCall(c, [newTab[c] EXCEPT !.at = "list", !.profile = p])
          /\ crossed' = IF finalizing = {} THEN crossed ELSE crossed \cup {p}
     \/ /\ ChoicesFor(newTab[c].profile) = {} /\ UNCHANGED <<used, crossed>>
        /\ SetCall(c, [newTab[c] EXCEPT !.at = "failed", !.profile = NoBrowser])
  /\ UNCHANGED <<connected, chosen, tabs, finalizing, partial, turns>>

\* browser_select_profile
SelectProfile(p) ==
  /\ turns < MaxTurns /\ turns' = turns + 1
  /\ listed' = Listing(p)
  /\ p \in ChoicesFor(p)
  /\ chosen' = p /\ used' = used \cup {p}
  /\ UNCHANGED <<connected, tabs, newTab, finalizing, partial, crossed>>

-----------------------------------------------------------------------------
(***************************************************************************)
(* The extension of a profile.                                             *)
(***************************************************************************)
Owned(p) == {t \in TabIds : tabs[t].at = p /\ tabs[t].stage \in {"tracked", "stored"}}
\* Where a call is served while its answer may be lost already.
Served(c) == newTab[c].at \in {"create", "recover", "failed"} /\ newTab[c].profile # NoBrowser
TabBy(c) == {t \in TabIds : tabs[t].by = c}
Free == {t \in TabIds : tabs[t].stage = "none"}
MoveTabs(ts, stage) == tabs' = [t \in TabIds |-> IF t \in ts THEN [tabs[t] EXCEPT !.stage = stage] ELSE tabs[t]]

\* The tabs the session has, before one is added.
ListBefore(c) ==
  /\ newTab[c].at = "list"
  /\ listed' = Listing(newTab[c].profile)
  /\ \/ /\ newTab[c].profile \in connected
        /\ SetCall(c, [newTab[c] EXCEPT !.at = "create", !.before = Owned(newTab[c].profile)])
     \/ SetCall(c, [newTab[c] EXCEPT !.at = "failed", !.profile = NoBrowser])
  /\ UNCHANGED <<connected, chosen, used, tabs, finalizing, partial, crossed, turns>>
\* The browser opens the tab; the extension marks and tracks it, and stores its sessions.
Open(c) ==
  /\ Served(c) /\ TabBy(c) = {} /\ newTab[c].profile \in connected
  /\ Free # {}
  /\ LET t == CHOOSE t \in Free : TRUE
     IN tabs' = [tabs EXCEPT ![t] = [stage |-> "opened", at |-> newTab[c].profile, by |-> c, marked |-> FALSE, blank |-> TRUE]]
  /\ UNCHANGED <<connected, listed, chosen, used, newTab, finalizing, partial, crossed, turns>>
Track(c) ==
  /\ \E t \in TabBy(c) :
       /\ tabs[t].stage = "opened" /\ ~ tabs[t].marked
       /\ tabs' = [tabs EXCEPT ![t].stage = "tracked", ![t].marked = TRUE]
  /\ UNCHANGED <<connected, listed, chosen, used, newTab, finalizing, partial, crossed, turns>>
StoreSessions(p) ==
  /\ \E t \in TabIds : tabs[t].at = p /\ tabs[t].stage = "tracked"
  /\ MoveTabs(Owned(p), "stored")
  /\ UNCHANGED <<connected, listed, chosen, used, newTab, finalizing, partial, crossed, turns>>
\* The answer comes.
CreationAnswered(c) ==
  /\ newTab[c].at = "create"
  /\ \E t \in TabBy(c) : /\ tabs[t].stage \in {"stored", "released", "closed"}
                         /\ SetCall(c, [newTab[c] EXCEPT !.at = "made", !.before = {}, !.answer = t])
  /\ UNCHANGED <<connected, listed, chosen, used, tabs, finalizing, partial, crossed, turns>>

-----------------------------------------------------------------------------
(***************************************************************************)
(* An answer fails to come.  The creation is never repeated: a tab that is *)
(* new, was made for this very call and is untouched is taken, if the      *)
(* connection answers again.                                               *)
(***************************************************************************)
Fails(c) ==
  /\ newTab[c].at = "create"
  /\ listed' = Expired
  /\ ShiftTo(c, "recover") \/ ShiftTo(c, "failed")
  /\ UNCHANGED <<connected, chosen, used, tabs, finalizing, partial, crossed, turns>>

Matching_AnyNew(c) ==
  {t \in Owned(newTab[c].profile) \ newTab[c].before : tabs[t].blank}
Matching(c) ==
  {t \in Owned(newTab[c].profile) \ newTab[c].before : tabs[t].marked /\ tabs[t].by = c /\ tabs[t].blank}
Reconcile(c) ==
  /\ newTab[c].at = "recover"
  /\ \/ /\ newTab[c].profile \in connected /\ Cardinality(Matching(c)) = 1
        /\ \E t \in Matching(c) : SetCall(c, [newTab[c] EXCEPT !.at = "made", !.answer = t])
     \/ /\ newTab[c].profile \notin connected \/ Cardinality(Matching(c)) # 1
        /\ ShiftTo(c, "failed")
  /\ UNCHANGED <<connected, listed, chosen, used, tabs, finalizing, partial, crossed, turns>>

\* browser_navigate goes on with the tab, in the profile that is chosen by then.
NavigateNew(c) ==
  /\ newTab[c].at = "made"
  /\ LET t == newTab[c].answer
         went == ChoicesFor(WantedProfile)
     IN /\ listed' = Listing(WantedProfile)
        /\ IF went = {tabs[t].at} /\ t \in Owned(tabs[t].at)
           THEN tabs' = [tabs EXCEPT ![t].blank = FALSE] /\ ShiftTo(c, "over")
           ELSE ShiftTo(c, "failed") /\ UNCHANGED tabs
  /\ UNCHANGED <<connected, chosen, used, finalizing, partial, crossed, turns>>

-----------------------------------------------------------------------------
(***************************************************************************)
(* The end of a session: every profile it used is asked, at once, to       *)
(* release its tabs; if all did, the profiles are forgotten.               *)
(***************************************************************************)
\* A tab is asked for in the profile, or will be, and not tracked yet.
Asks(c) == \/ newTab[c].at = "list"
           \/ Served(c) /\ \A t \in TabBy(c) : tabs[t].stage = "opened"
AskedIn(p) == \E c \in CreateCalls : newTab[c].profile = p /\ Asks(c)
Finalize ==
  /\ finalizing = {} /\ used # {} /\ turns < MaxTurns /\ turns' = turns + 1
  /\ finalizing' = used /\ partial' = FALSE
  /\ crossed' = crossed \cup {p \in used : AskedIn(p)}
  /\ UNCHANGED <<connected, listed, chosen, used, tabs, newTab>>
FinalizeTabs(p) ==
  /\ p \in finalizing
  /\ finalizing' = finalizing \ {p}
  /\ \/ p \in connected /\ MoveTabs(Owned(p), "released") /\ UNCHANGED partial
     \/ partial' = TRUE /\ UNCHANGED tabs
  /\ IF finalizing' = {} /\ ~ partial'
     THEN used' = {} ELSE UNCHANGED used
  /\ UNCHANGED <<connected, listed, chosen, newTab, crossed, turns>>

-----------------------------------------------------------------------------
\* The list gets old.
ListExpires == listed \notin {Expired, connected} /\ listed' = Expired
          /\ UNCHANGED <<connected, chosen, used, tabs, newTab, finalizing, partial, crossed, turns>>
\* A browser is closed or opened again.
Reconnect(p) ==
  /\ turns < MaxTurns /\ turns' = turns + 1
  /\ connected' = IF p \in connected THEN connected \ {p} ELSE connected \cup {p}
  /\ UNCHANGED <<listed, chosen, used, tabs, newTab, finalizing, partial, crossed>>
\* The extension restarts: its marks are lost, and the tabs it did not store.
RestartExtension(p) ==
  /\ turns < MaxTurns /\ turns' = turns + 1
  /\ tabs' = [t \in TabIds |->
                IF tabs[t].at # p THEN tabs[t]
                ELSE [tabs[t] EXCEPT !.marked = FALSE, !.stage = IF @ \in {"opened", "tracked"} THEN "released" ELSE @]]
  /\ newTab' = [c \in CreateCalls |-> IF Served(c) /\ newTab[c].profile = p THEN [newTab[c] EXCEPT !.at = "failed", !.profile = NoBrowser]
                                      ELSE newTab[c]]
  /\ UNCHANGED <<connected, listed, chosen, used, finalizing, partial, crossed>>
\* The user closes a tab, or the agent navigates one that it listed.
TouchTab(t) ==
  /\ turns < MaxTurns /\ turns' = turns + 1
  /\ \/ t \in Owned(tabs[t].at) /\ tabs' = [tabs EXCEPT ![t].stage = "closed", ![t].marked = FALSE]
     \/ t \in Owned(tabs[t].at) /\ tabs[t].blank /\ tabs' = [tabs EXCEPT ![t].blank = FALSE]
  /\ UNCHANGED <<connected, listed, chosen, used, newTab, finalizing, partial, crossed>>

TabCreationNext ==
  \/ \E c \in CreateCalls : NewTab(c) \/ ChooseProfile(c) \/ ListBefore(c) \/ Open(c) \/ Track(c) \/ CreationAnswered(c)
                            \/ Fails(c) \/ Reconcile(c) \/ NavigateNew(c)
  \/ \E p \in Profiles : SelectProfile(p) \/ StoreSessions(p) \/ FinalizeTabs(p) \/ Reconnect(p) \/ RestartExtension(p)
  \/ \E t \in TabIds : TouchTab(t)
  \/ Finalize \/ ListExpires

TabCreationSpec == TabCreationInit /\ [][TabCreationNext]_tabCreationVars

-----------------------------------------------------------------------------
\* A call that lost its answer is not given the tab of another: what two calls
\* recover at once is never mixed up.
AnswerIsOwn == \A c \in CreateCalls : newTab[c].answer # NoTab => tabs[newTab[c].answer].by = c

\* The end of a session reaches every tab it has: it has tabs only in profiles that
\* it knows it used, unless a call asked for one beside a finalization, which forgets
\* the profiles when all have answered, those that came into use meanwhile as well.
UsedCoversTabs == \A p \in Profiles : Owned(p) # {} => p \in used \cup crossed

\* Not true: a creation that fails may have made a tab, which is then the session's
\* although no call was told so.
FailedLeavesNothing == \A c \in CreateCalls : newTab[c].at = "failed" => newTab[c].answer # NoTab \/ TabBy(c) = {}

\* Not true: the profile is resolved anew after the creation.
NavigatesWhatItMade ==
  \A c \in CreateCalls : newTab[c].at = "failed" /\ newTab[c].answer # NoTab =>
    LET t == newTab[c].answer IN tabs[t].stage \in {"released", "closed"} \/ tabs[t].at \notin connected
=============================================================================
