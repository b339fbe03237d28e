------------------------------ MODULE CoreSession ------------------------------
(***************************************************************************)
(* What the core runtime keeps of a session of an agent (core/runtime.ts,  *)
(* environment-cleanup.ts, artifacts.ts): its profile, its active tab, the *)
(* tabs it configured, and the artifacts it stored.  Every call holds the  *)
(* session object it found when it began, reads and writes it around its   *)
(* requests to the browser, and interleaves with the other calls of the    *)
(* session wherever it waits.                                              *)
(*                                                                         *)
(* A tab is a profile and a number: the same number may name a tab in      *)
(* each profile.  The tab operations below, which follow the profile that  *)
(* was selected last, are abstracted to what they do to the tab.           *)
(***************************************************************************)
EXTENDS Naturals, Sequences, FiniteSets

CONSTANTS CoreCalls,
          ActionOf,       \* of each call: open, claim, configure, reset, release, finalize, capture or diff
          AskedProfile,   \* the profile each call names, or Unset
          AskedTab,       \* the tab number each call names, or 0
          CoreProfiles, Unset, TabNumbers,
          ArtifactLimit,  \* artifacts kept
          CorePlans,      \* the sets of calls that are made in one behaviour
          MaxTogether     \* bound on the calls under way together

VARIABLES objects,        \* the session objects made so far
          standing,       \* the one under the session's id, or 0
          coreCall,       \* the calls
          browserProfile, \* the profile the tab operations go to
          ownedTabs, overridden,  \* tabs of the session, tabs with overrides, in the browsers
          stored,         \* the artifacts, oldest first
          mixed,          \* the profile changed under a call that had chosen its own
          clashed         \* a configuration or a capture overlapped a removal

coreSessionVars == <<objects, standing, coreCall, browserProfile, ownedTabs, overridden, stored,
                     mixed, clashed>>

BrowserTabs == CoreProfiles \X TabNumbers
MaybeProfile == CoreProfiles \cup {Unset}
NewObject == [profile |-> Unset, active |-> 0, from |-> Unset, configured |-> {}, environment |-> FALSE]
NoBaseline == [profile |-> Unset, tab |-> 0, of |-> Unset]
Idle == [at |-> "idle", object |-> 0, profile |-> Unset, tab |-> 0, left |-> {}, blocked |-> {},
         backTo |-> Unset, active |-> 0, from |-> Unset, baseline |-> NoBaseline]
Over == [Idle EXCEPT !.at = "over"]

CoreSessionTypeOK ==
  /\ \A o \in DOMAIN objects : objects[o] \in
       [profile : MaybeProfile, active : TabNumbers \cup {0}, from : MaybeProfile,
        configured : SUBSET BrowserTabs, environment : BOOLEAN]
  /\ standing \in 0 .. Len(objects)
  /\ \A c \in CoreCalls : coreCall[c].object \in 0 .. Len(objects) /\ coreCall[c].left \subseteq BrowserTabs
  /\ browserProfile \in MaybeProfile
  /\ ownedTabs \subseteq BrowserTabs /\ overridden \subseteq BrowserTabs
  /\ Len(stored) <= ArtifactLimit

\* A session that has its tabs and has selected a profile.
CoreSessionInit ==
  /\ \E p \in CoreProfiles : objects = <<[NewObject EXCEPT !.profile = p]>> /\ browserProfile = p
  /\ standing = 1 /\ (\E plan \in CorePlans : coreCall = [c \in CoreCalls |-> IF c \in plan THEN Idle ELSE Over])
  /\ ownedTabs = BrowserTabs /\ overridden = {} /\ stored = <<>>
  /\ mixed = FALSE /\ clashed = FALSE

-----------------------------------------------------------------------------
UnderWay(c) == coreCall[c].at \notin {"idle", "over"}
AtRest == ~ \E c \in CoreCalls : UnderWay(c)
Obj(c) == objects[coreCall[c].object]
To(c, new) == coreCall' = [coreCall EXCEPT ![c] = new]
At(c, at) == To(c, [coreCall[c] EXCEPT !.at = at])
Ends(c) == To(c, Over)
Write(c, object) == objects' = [objects EXCEPT ![coreCall[c].object] = object]

\* Calls that add something which a removal of another call may overlap.
Adding(c) == UnderWay(c) /\ ActionOf[c] \in {"configure", "claim", "capture", "diff"}
Removing(c) == UnderWay(c) /\ ActionOf[c] \in {"reset", "release", "finalize"}

\* getSession: the session's object, a new one if there is none.
Begin(c) ==
  /\ coreCall[c].at = "idle" /\ Cardinality({d \in CoreCalls : UnderWay(d)}) < MaxTogether
  /\ IF standing = 0 THEN objects' = Append(objects, NewObject) /\ standing' = Len(objects')
     ELSE UNCHANGED <<objects, standing>>
  /\ To(c, [Idle EXCEPT !.at = "profiles", !.object = standing'])
  /\ LET Meets(d) == IF ActionOf[c] \in {"configure", "claim", "capture", "diff"} THEN Removing(d)
                     ELSE ActionOf[c] \in {"reset", "release", "finalize"} /\ Adding(d)
     IN clashed' = (clashed \/ \E d \in CoreCalls : Meets(d))
  /\ UNCHANGED <<browserProfile, ownedTabs, overridden, stored, mixed>>

(***************************************************************************)
(* selectProfile: the profile the call names, or the session's.  Which one *)
(* the session has is read after the list of the profiles was awaited; it  *)
(* is set, and the active tab forgotten, after the browser side has it.    *)
(***************************************************************************)
\* The steps at which a call has a selection of its own under way, and what follows each.
AfterSelect == [selecting |-> "ready", groupSelecting |-> "listing", returning |-> "returned"]
Serving == [selecting |-> "selected", groupSelecting |-> "groupSelected", returning |-> "returnSelected"]
Selects(c, profile, at, chosen) ==
  IF profile = Obj(c).profile THEN To(c, [coreCall[c] EXCEPT !.profile = profile, !.at = chosen])
  ELSE To(c, [coreCall[c] EXCEPT !.profile = profile, !.at = at])
Choose(c) ==
  /\ coreCall[c].at = "profiles"
  /\ LET selector == IF AskedProfile[c] # Unset THEN AskedProfile[c] ELSE Obj(c).profile
     IN IF selector = Unset THEN Ends(c) ELSE Selects(c, selector, "selecting", "ready")
  /\ mixed' = (mixed \/ \E d \in CoreCalls \ {c}, step \in DOMAIN Serving : coreCall[d].at = Serving[step])
  /\ UNCHANGED <<objects, standing, browserProfile, ownedTabs, overridden, stored, clashed>>
Group(c) == {t \in coreCall[c].left : t[1] = coreCall[c].profile}
GroupFails(c) == To(c, [coreCall[c] EXCEPT !.at = "groups", !.left = @ \ Group(c), !.blocked = @ \cup Group(c)])
SelectServed(c) ==
  /\ coreCall[c].at \in DOMAIN Serving
  /\ \/ browserProfile' = coreCall[c].profile /\ At(c, Serving[coreCall[c].at])
     \/ \* The profile has just gone.
        /\ IF coreCall[c].at = "groupSelecting" THEN GroupFails(c) ELSE Ends(c)
        /\ UNCHANGED browserProfile
  /\ mixed' = (mixed \/ \E d \in CoreCalls \ {c} : UnderWay(d) /\ coreCall[d].at # "profiles")
  /\ UNCHANGED <<objects, standing, ownedTabs, overridden, stored, clashed>>
SelectKept(c) ==
  \E step \in DOMAIN Serving :
    /\ coreCall[c].at = Serving[step]
    /\ Write(c, [Obj(c) EXCEPT !.profile = coreCall[c].profile, !.active = 0, !.from = Unset])
    /\ At(c, AfterSelect[step])
    /\ UNCHANGED <<standing, browserProfile, ownedTabs, overridden, stored, mixed, clashed>>

-----------------------------------------------------------------------------
(***************************************************************************)
(* browser_session's actions.  The agent means a tab of the profile that   *)
(* the session has when the call is dispatched; the browser side acts in   *)
(* its own selection.                                                      *)
(***************************************************************************)
Ready(c, action) == coreCall[c].at = "ready" /\ ActionOf[c] = action
TabFor(c) == IF AskedTab[c] # 0 THEN AskedTab[c] ELSE IF coreCall[c].tab # 0 THEN coreCall[c].tab ELSE Obj(c).active
There(c) == <<browserProfile, coreCall[c].tab>>
Meant(c) == <<Obj(c).profile, TabFor(c)>>
Activate(c, n) == [Obj(c) EXCEPT !.active = n, !.from = Obj(c).profile]

Opened(c) ==
  /\ Ready(c, "open") /\ Ends(c)
  /\ UNCHANGED <<objects, standing, browserProfile, ownedTabs, overridden, stored, mixed, clashed>>
\* Without a tab, the one that is selected in the browser is asked for.
AskTab(c) ==
  /\ coreCall[c].at = "ready" /\ ActionOf[c] \in {"configure", "reset", "capture", "diff"} /\ TabFor(c) = 0
  /\ \/ \E n \in TabNumbers : <<browserProfile, n>> \in ownedTabs /\ To(c, [coreCall[c] EXCEPT !.tab = n])
     \/ Ends(c)
  /\ UNCHANGED <<objects, standing, browserProfile, ownedTabs, overridden, stored, mixed, clashed>>
\* configure: the tab is noted before anything is sent.
SendConfigure(c) ==
  /\ Ready(c, "configure") /\ TabFor(c) # 0
  /\ Write(c, [Activate(c, TabFor(c)) EXCEPT !.configured = @ \cup {Meant(c)}])
  /\ To(c, [coreCall[c] EXCEPT !.at = "configuring", !.tab = TabFor(c)])
  /\ UNCHANGED <<standing, browserProfile, ownedTabs, overridden, stored, mixed, clashed>>
\* It is applied, or in part, or not at all: only then the answer may fail.
ConfigureServed(c) ==
  /\ coreCall[c].at = "configuring"
  /\ \/ There(c) \in ownedTabs /\ overridden' = overridden \cup {There(c)} /\ (At(c, "configured") \/ Ends(c))
     \/ Ends(c) /\ UNCHANGED overridden
  /\ UNCHANGED <<objects, standing, browserProfile, ownedTabs, stored, mixed, clashed>>
Configured(c) ==
  /\ coreCall[c].at = "configured"
  /\ Write(c, [Obj(c) EXCEPT !.environment = TRUE]) /\ Ends(c)
  /\ UNCHANGED <<standing, browserProfile, ownedTabs, overridden, stored, mixed, clashed>>
\* A reset, asked for or before a release, is under the key the tab had when it was sent.
SendReset(c) ==
  /\ \/ Ready(c, "reset") /\ TabFor(c) # 0 /\ Write(c, Activate(c, TabFor(c)))
     \/ Ready(c, "release") /\ Meant(c) \in Obj(c).configured /\ UNCHANGED objects
  /\ To(c, [coreCall[c] EXCEPT !.at = "resetting", !.tab = TabFor(c), !.left = {Meant(c)}])
  /\ UNCHANGED <<standing, browserProfile, ownedTabs, overridden, stored, mixed, clashed>>
ResetServed(c) ==
  /\ coreCall[c].at = "resetting"
  /\ \/ There(c) \in ownedTabs /\ overridden' = overridden \ {There(c)} /\ (At(c, "reset") \/ Ends(c))
     \/ Ends(c) /\ UNCHANGED overridden
  /\ UNCHANGED <<objects, standing, browserProfile, ownedTabs, stored, mixed, clashed>>
ResetDone(c) ==
  /\ coreCall[c].at = "reset"
  /\ LET object == [Obj(c) EXCEPT !.configured = @ \ coreCall[c].left]
     IN IF ActionOf[c] = "release" THEN Write(c, object) /\ To(c, [coreCall[c] EXCEPT !.at = "releasing", !.left = {}])
        ELSE Write(c, [object EXCEPT !.environment = FALSE]) /\ Ends(c)
  /\ UNCHANGED <<standing, browserProfile, ownedTabs, overridden, stored, mixed, clashed>>
\* releaseTab goes to the profile that the call chose.
SendRelease(c) ==
  /\ Ready(c, "release") /\ Meant(c) \notin Obj(c).configured
  /\ To(c, [coreCall[c] EXCEPT !.at = "releasing", !.tab = TabFor(c)])
  /\ UNCHANGED <<objects, standing, browserProfile, ownedTabs, overridden, stored, mixed, clashed>>
ReleaseServed(c) ==
  /\ coreCall[c].at = "releasing"
  /\ \/ ownedTabs' = ownedTabs \ {<<coreCall[c].profile, coreCall[c].tab>>} /\ At(c, "released")
     \/ Ends(c) /\ UNCHANGED ownedTabs
  /\ UNCHANGED <<objects, standing, browserProfile, overridden, stored, mixed, clashed>>
Released(c) ==
  /\ coreCall[c].at = "released" /\ Ends(c)
  /\ IF Obj(c).active = coreCall[c].tab THEN Write(c, [Obj(c) EXCEPT !.active = 0, !.from = Unset]) ELSE UNCHANGED objects
  /\ UNCHANGED <<standing, browserProfile, ownedTabs, overridden, stored, mixed, clashed>>
\* new-tab and claim-tab
TabServed(c) ==
  /\ Ready(c, "claim")
  /\ \/ \E t \in BrowserTabs \ overridden :
          /\ t[1] = browserProfile /\ AskedTab[c] \in {0, t[2]}
          /\ ownedTabs' = ownedTabs \cup {t} /\ To(c, [coreCall[c] EXCEPT !.at = "got", !.tab = t[2], !.profile = t[1]])
     \/ Ends(c) /\ UNCHANGED ownedTabs
  /\ UNCHANGED <<objects, standing, browserProfile, overridden, stored, mixed, clashed>>
GotTab(c) ==
  /\ coreCall[c].at = "got" /\ Ends(c)
  /\ Write(c, [Obj(c) EXCEPT !.active = coreCall[c].tab, !.from = coreCall[c].profile])
  /\ UNCHANGED <<standing, browserProfile, ownedTabs, overridden, stored, mixed, clashed>>

-----------------------------------------------------------------------------
(***************************************************************************)
(* finalize.  The overrides are removed profile by profile, the tabs of a  *)
(* profile at once; those that could not be reset stay with the session.   *)
(***************************************************************************)
BeginCleanup(c) ==
  /\ Ready(c, "finalize")
  /\ LET fallback == IF Obj(c).environment /\ Obj(c).active # 0 THEN {<<Obj(c).profile, Obj(c).active>>} ELSE {}
     IN To(c, [coreCall[c] EXCEPT !.at = "groups", !.backTo = Obj(c).profile, !.active = Obj(c).active, !.from = Obj(c).from,
                 !.left = IF Obj(c).configured # {} THEN Obj(c).configured ELSE fallback])
  /\ UNCHANGED <<objects, standing, browserProfile, ownedTabs, overridden, stored, mixed, clashed>>
NextGroup(c) ==
  /\ coreCall[c].at = "groups"
  /\ \E t \in coreCall[c].left : Selects(c, t[1], "groupSelecting", "listing")
  /\ UNCHANGED <<objects, standing, browserProfile, ownedTabs, overridden, stored, mixed, clashed>>
\* A tab that is the session's no more is not reset, it is only forgotten.
Listed(c) ==
  /\ coreCall[c].at = "listing"
  /\ \/ LET gone == {t \in Group(c) : <<browserProfile, t[2]>> \notin ownedTabs}
        IN /\ Write(c, [Obj(c) EXCEPT !.configured = @ \ gone])
           /\ To(c, [coreCall[c] EXCEPT !.at = IF Group(c) = gone THEN "groups" ELSE "cleaning", !.left = @ \ gone])
     \/ GroupFails(c) /\ UNCHANGED objects
  /\ UNCHANGED <<standing, browserProfile, ownedTabs, overridden, stored, mixed, clashed>>
CleanTab_ForgetsFailed(c) ==
  /\ coreCall[c].at = "cleaning"
  /\ \E t \in Group(c) :
       LET at == IF Group(c) = {t} THEN "groups" ELSE "cleaning"
           here == <<browserProfile, t[2]>>
       IN /\ overridden' \in {overridden, overridden \ ({here} \cap ownedTabs)}
          /\ Write(c, [Obj(c) EXCEPT !.configured = @ \ {t}])
          /\ To(c, [coreCall[c] EXCEPT !.at = at, !.left = @ \ {t}, !.blocked = IF overridden' = overridden THEN @ \cup {t} ELSE @])
  /\ UNCHANGED <<standing, browserProfile, ownedTabs, stored, mixed, clashed>>
CleanTab(c) ==
  /\ coreCall[c].at = "cleaning"
  /\ \E t \in Group(c) :
       LET at == IF Group(c) = {t} THEN "groups" ELSE "cleaning"
           here == <<browserProfile, t[2]>>
       IN \/ /\ here \in ownedTabs /\ overridden' = overridden \ {here}
             /\ Write(c, [Obj(c) EXCEPT !.configured = @ \ {t}])
             /\ To(c, [coreCall[c] EXCEPT !.at = at, !.left = @ \ {t}])
          \/ /\ To(c, [coreCall[c] EXCEPT !.at = at, !.left = @ \ {t}, !.blocked = @ \cup {t}])
             /\ UNCHANGED <<objects, overridden>>
  /\ UNCHANGED <<standing, browserProfile, ownedTabs, stored, mixed, clashed>>
\* The session gets its profile and its active tab back.
Cleaned(c) ==
  /\ coreCall[c].at = "groups" /\ coreCall[c].left = {}
  /\ LET object == IF coreCall[c].blocked = {} THEN [Obj(c) EXCEPT !.environment = FALSE] ELSE Obj(c)
     IN IF Obj(c).profile # coreCall[c].backTo
        THEN Write(c, object) /\ Selects(c, coreCall[c].backTo, "returning", "returned")
        ELSE Write(c, [object EXCEPT !.active = coreCall[c].active, !.from = coreCall[c].from]) /\ At(c, "closing")
  /\ UNCHANGED <<standing, browserProfile, ownedTabs, overridden, stored, mixed, clashed>>
Returned(c) ==
  /\ coreCall[c].at = "returned"
  /\ Write(c, [Obj(c) EXCEPT !.active = coreCall[c].active, !.from = coreCall[c].from]) /\ At(c, "closing")
  /\ UNCHANGED <<standing, browserProfile, ownedTabs, overridden, stored, mixed, clashed>>
\* browser_finalize releases all the session's tabs but the blocked ones, or not all of them.
Finalized(c) ==
  /\ coreCall[c].at = "closing"
  /\ \/ ownedTabs' = ownedTabs \cap coreCall[c].blocked
        /\ IF coreCall[c].blocked # {} THEN Ends(c) ELSE At(c, "closed")
     \/ Ends(c) /\ UNCHANGED ownedTabs
  /\ UNCHANGED <<objects, standing, browserProfile, overridden, stored, mixed, clashed>>
\* Then the session is forgotten with its artifacts, whatever object it has by now.
Forget(c) ==
  /\ coreCall[c].at = "closed" /\ Ends(c)
  /\ standing' = 0
  /\ stored' = <<>>
  /\ UNCHANGED <<objects, browserProfile, ownedTabs, overridden, mixed, clashed>>

-----------------------------------------------------------------------------
(***************************************************************************)
(* Artifacts: a new one may push out the oldest.                           *)
(* browser_observation_capture stores what it saw with the profile the     *)
(* session has by then; browser_observation_diff accepts a baseline of the *)
(* session's profile and the same tab, and takes a new look.               *)
(***************************************************************************)
Keep(a) == LET all == Append(stored, a) IN IF Len(all) > ArtifactLimit THEN Tail(all) ELSE all
InScope(c, a) == a.profile = Obj(c).profile /\ a.tab = TabFor(c)
SendCapture(c) ==
  /\ coreCall[c].at = "ready" /\ ActionOf[c] \in {"capture", "diff"} /\ TabFor(c) # 0
  /\ Write(c, Activate(c, TabFor(c)))
  /\ IF ActionOf[c] = "capture" THEN To(c, [coreCall[c] EXCEPT !.at = "looking", !.tab = TabFor(c)])
     ELSE \/ \E i \in DOMAIN stored : /\ InScope(c, stored[i])
                                      /\ To(c, [coreCall[c] EXCEPT !.at = "looking", !.tab = TabFor(c), !.baseline = stored[i]])
          \/ Ends(c)
  /\ UNCHANGED <<standing, browserProfile, ownedTabs, overridden, stored, mixed, clashed>>
Looked(c) ==
  /\ coreCall[c].at = "looking"
  /\ \/ There(c) \in ownedTabs /\ To(c, [coreCall[c] EXCEPT !.at = "looked", !.from = browserProfile])
     \/ Ends(c)
  /\ UNCHANGED <<objects, standing, browserProfile, ownedTabs, overridden, stored, mixed, clashed>>
Captured(c) ==
  /\ coreCall[c].at = "looked" /\ Ends(c)
  /\ stored' = IF ActionOf[c] = "diff" THEN stored
               ELSE Keep([profile |-> Obj(c).profile, tab |-> coreCall[c].tab, of |-> coreCall[c].from])
  /\ UNCHANGED <<objects, standing, browserProfile, ownedTabs, overridden, mixed, clashed>>
\* The oldest gets too old, or is pushed out by one of another session.
Expire ==
  /\ stored # <<>> /\ stored' = Tail(stored)
  /\ UNCHANGED <<objects, standing, coreCall, browserProfile, ownedTabs, overridden, mixed, clashed>>

CoreSessionNext ==
  \/ \E c \in CoreCalls :
       \/ Begin(c) \/ Choose(c) \/ SelectServed(c) \/ SelectKept(c)
       \/ Opened(c) \/ AskTab(c) \/ SendConfigure(c) \/ ConfigureServed(c) \/ Configured(c)
       \/ SendReset(c) \/ ResetServed(c) \/ ResetDone(c) \/ SendRelease(c) \/ ReleaseServed(c) \/ Released(c)
       \/ TabServed(c) \/ GotTab(c)
       \/ BeginCleanup(c) \/ NextGroup(c) \/ Listed(c) \/ CleanTab(c) \/ Cleaned(c) \/ Returned(c)
       \/ Finalized(c) \/ Forget(c)
       \/ SendCapture(c) \/ Looked(c) \/ Captured(c)
  \/ Expire

-----------------------------------------------------------------------------
\* While no call is under way, every tab of the session whose environment is still
\* overridden is noted by the session that stands, so that its end will reset it:
\* after failures, in every profile, and after any finalization.  Only a call that
\* configured while another removed, or under a changed profile, may be forgotten.
OverridesRemembered ==
  AtRest /\ ~ mixed /\ ~ clashed =>
    \A t \in overridden \cap ownedTabs : standing # 0 /\ t \in objects[standing].configured

\* The active tab is one of the profile that the session has.
ActiveIsHere ==
  AtRest /\ ~ mixed /\ standing # 0 /\ objects[standing].active # 0 => objects[standing].from = objects[standing].profile

\* What a diff compares was seen in one tab of one profile.
DiffsInScope ==
  \A c \in CoreCalls : coreCall[c].at = "looked" /\ ActionOf[c] = "diff" /\ ~ mixed =>
    coreCall[c].baseline.of = coreCall[c].from /\ coreCall[c].baseline.tab = coreCall[c].tab

\* A session that was finalized leaves no artifact behind.
NothingLeftBehind == AtRest /\ standing = 0 /\ ~ clashed => stored = <<>>

CoreSessionSound == OverridesRemembered /\ ActiveIsHere /\ DiffsInScope /\ NothingLeftBehind
=============================================================================
