---------------------------- MODULE FrameRouting ----------------------------
(***************************************************************************)
(* Commands for the frames of one tab (frame-routing.ts): each command     *)
(* discovers the frames anew, through the tab's debugger session and those *)
(* of its child frames, and then runs in a context of the frame it is for. *)
(* The frames navigate, change process and go away between the requests.   *)
(*                                                                         *)
(* An answer and the events before it are taken in the order the browser   *)
(* sent them, so each request is one step.  The frames are children of the *)
(* page; a document is named by a number, which also names its context.    *)
(***************************************************************************)
EXTENDS Naturals, FiniteSets, FiniteSetsExt

CONSTANTS Frames,         \* numbers; where two overlap the larger is above
          OwnProcess,     \* those that begin in a process of their own
          RootTold,       \* the page's session reports navigations: Page or Runtime is enabled
          FrameCalls, CallKind, FrameOf,
          FramePlans,     \* calls that may overlap, and a bound on changes of the frames
          NoCaller

VARIABLES site,       \* the frames as they are: document, address, session, place
          documents,  \* documents made so far
          sessions,   \* this.sessions: the child sessions that are known
          routes,     \* call -> the routes its tree found
          current,    \* this.frames: the routes of the last tree
          frameCall,  \* call -> its step
          given,      \* the contexts that were answered: frame and document
          frameTurns, \* changes that are left
          crossed     \* a frame has changed unreported, or while a tree was read

frameRoutingVars == <<site, documents, sessions, routes, current, frameCall, given, frameTurns, crossed>>

Urls == {"open", "closed"}      \* the policy of the session allows the first
Ends == {"idle", "done", "failed", "not found", "refused", "stale", "timeout", "never"}

NoRoute == [there |-> FALSE, url |-> "open", session |-> 0, contextId |-> 0]
NoRoutes == [f \in Frames |-> NoRoute]
NoContext == [frame |-> 0, doc |-> 0]
NoCall == [at |-> "idle", known |-> NoCaller, next |-> 0, seen |-> {}, asked |-> NoContext, point |-> 0,
           moved |-> FALSE, acted |-> NoContext, url |-> "open", checked |-> "open"]

Alive(f, session) == site[f].up /\ site[f].session = session
HitAt(point) == LET there == {f \in Frames : site[f].up /\ site[f].place = point}
                IN IF there = {} THEN 0 ELSE Max(there)
RoutesOf(caller) == IF caller = NoCaller THEN NoRoutes ELSE routes[caller]

-----------------------------------------------------------------------------
(* Events.  A navigation, or a context that goes, makes the router forget  *)
(* the contexts of all routes it keeps.  A child session reports if it     *)
(* could be enabled.                                                       *)
Reported(session) == IF session = 0 THEN RootTold ELSE \E s \in sessions : s.id = session /\ s.told

Forgotten_Nothing(map) == map
Forgotten(map) == [f \in Frames |-> [map[f] EXCEPT !.contextId = 0]]

Detached(map, session) == [f \in Frames |-> IF session > 0 /\ map[f].session = session THEN NoRoute ELSE map[f]]

(* Target.detachedFromTarget for a session that ends, frameNavigated or    *)
(* executionContextDestroyed for one that reports, attachedToTarget.       *)
event(old, new) ==
    LET kept == Detached(RoutesOf(current), IF old = new THEN 0 ELSE old)
    IN /\ routes' = IF current = NoCaller THEN routes
                    ELSE [routes EXCEPT ![current] = IF Reported(old) THEN Forgotten(kept) ELSE kept]
       /\ sessions' = {s \in sessions : s.id # old \/ old = new}
                      \cup (IF new \in {0, old} THEN {} ELSE {[id |-> new, ready |-> FALSE, told |-> FALSE]})

Changes(reported) ==
    /\ frameTurns > 0 /\ frameTurns' = frameTurns - 1
    /\ frameCall' = [c \in FrameCalls |-> IF frameCall[c].at \in Ends THEN frameCall[c]
                                          ELSE [frameCall[c] EXCEPT !.moved = TRUE]]
    /\ crossed' = (crossed \/ ~ reported \/ \E c \in FrameCalls : frameCall[c].at \in {"root", "child"})
    /\ UNCHANGED <<current, given>>

Navigate(f) ==
    /\ site[f].up
    /\ \E url \in Urls, new \in {0, site[f].session, documents + 1} :
           /\ site' = [site EXCEPT ![f].doc = documents + 1, ![f].url = url, ![f].session = new]
           /\ event(site[f].session, new)
    /\ documents' = documents + 1
    /\ Changes(Reported(site[f].session))

Leave(f) ==
    /\ site[f].up
    /\ site' = [site EXCEPT ![f].up = FALSE, ![f].session = 0]
    /\ event(site[f].session, 0)
    /\ Changes(Reported(site[f].session))
    /\ UNCHANGED documents

(* Only a mouse event depends on where the frames are.                     *)
Shift(f) ==
    /\ site[f].up /\ \E c \in FrameCalls : CallKind[c] = "press" /\ frameCall[c].at \notin Ends
    /\ site' = [site EXCEPT ![f].place = 1 - @]
    /\ Changes(TRUE)
    /\ UNCHANGED <<documents, sessions, routes>>

(* enable(): it may fail, and the session is ready nevertheless.           *)
enable ==
    /\ \E s \in sessions, told \in BOOLEAN :
           /\ ~ s.ready
           /\ sessions' = (sessions \ {s}) \cup {[s EXCEPT !.ready = TRUE, !.told = told]}
    /\ UNCHANGED <<site, documents, routes, current, frameCall, given, frameTurns, crossed>>

-----------------------------------------------------------------------------
(* tree()                                                                  *)
Set(c, call) == frameCall' = [frameCall EXCEPT ![c] = call]
End(c, how) == Set(c, [NoCall EXCEPT !.at = how, !.moved = how = "failed" /\ frameCall[c].moved])

command(c) ==
    /\ frameCall[c].at = "idle"
    /\ \E asked \in (IF CallKind[c] = "qualified" THEN {g \in given : g.frame = FrameOf[c]} ELSE {NoContext}) :
           Set(c, [NoCall EXCEPT !.at = "root", !.known = current, !.asked = asked])
    /\ UNCHANGED <<site, documents, sessions, routes, current, given, frameTurns, crossed>>

(* A frame that is found again, by its id, in the same session and at the  *)
(* same address keeps its context.                                         *)
Previous_ByUrl(known, f) ==
    LET same == {g \in Frames : known[g].there /\ known[g].url = site[f].url}
    IN IF same = {} THEN NoRoute ELSE known[Max(same)]
Previous(known, f) == known[f]

visit(c, f) ==
    LET previous == Previous(RoutesOf(frameCall[c].known), f)
        session == site[f].session
    IN [there |-> TRUE, url |-> site[f].url, session |-> session,
        contextId |-> IF previous.there /\ previous.session = session /\ previous.url = site[f].url
                      THEN previous.contextId ELSE 0]

(* What follows once all sessions were read: the routes are kept, the      *)
(* frame must be among them, and its address allowed.                      *)
route(c, map) ==
    LET it == map[FrameOf[c]]
    IN /\ current' = c
       /\ IF ~ it.there THEN End(c, "not found")
          ELSE IF it.url = "closed" THEN End(c, "refused")
          ELSE Set(c, [frameCall[c] EXCEPT !.checked = it.url, !.known = NoCaller, !.next = 0, !.seen = {},
                       !.at = IF CallKind[c] = "press" THEN "owner"
                              ELSE IF it.contextId = 0 THEN "world" ELSE "run"])

NextSession(c, map, seen) ==
    LET rest == {s.id : s \in sessions'} \ seen
    IN IF rest = {} THEN route(c, map)
       ELSE /\ Set(c, [frameCall[c] EXCEPT !.at = "child", !.next = Min(rest), !.seen = seen])
            /\ UNCHANGED current

ReadRoot(c) ==
    /\ frameCall[c].at = "root"
    /\ LET map == [f \in Frames |-> IF Alive(f, 0) THEN visit(c, f) ELSE NoRoute]
       IN routes' = [routes EXCEPT ![c] = map] /\ UNCHANGED sessions /\ NextSession(c, map, {})
    /\ UNCHANGED <<site, documents, given, frameTurns, crossed>>

(* A child session that does not answer is forgotten.                      *)
ReadChild(c) ==
    LET session == frameCall[c].next
        map == [f \in Frames |-> IF Alive(f, session) THEN visit(c, f) ELSE routes[c][f]]
    IN /\ frameCall[c].at = "child"
       /\ \A s \in sessions : s.id = session => s.ready
       /\ routes' = [routes EXCEPT ![c] = map]
       /\ sessions' = {s \in sessions : s.id # session \/ \E f \in Frames : Alive(f, session)}
       /\ NextSession(c, map, frameCall[c].seen \cup {session})
       /\ UNCHANGED <<site, documents, given, frameTurns, crossed>>

Expire(c) ==
    /\ frameCall[c].at \notin Ends
    /\ End(c, "timeout")
    /\ UNCHANGED <<site, documents, sessions, routes, current, given, frameTurns, crossed>>

-----------------------------------------------------------------------------
(* Page.createIsolatedWorld in the frame, whatever its document is by now. *)
world(c) ==
    LET it == routes[c][FrameOf[c]]
    IN /\ frameCall[c].at = "world"
       /\ IF Alive(FrameOf[c], it.session)
          THEN /\ routes' = [routes EXCEPT ![c][FrameOf[c]].contextId = site[FrameOf[c]].doc]
               /\ Set(c, [frameCall[c] EXCEPT !.at = "run"])
          ELSE End(c, "not found") /\ UNCHANGED routes
       /\ UNCHANGED <<site, documents, sessions, current, given, frameTurns, crossed>>

(* A context that was answered names its frame and its document.           *)
SameContext_Frame(asked, f, contextId) == asked.frame = f
SameContext(asked, f, contextId) == asked.frame = f /\ asked.doc = contextId

Answer(c) ==
    LET f == FrameOf[c]
    IN /\ CallKind[c] = "make" /\ frameCall[c].at = "run"
       /\ given' = given \cup {[frame |-> f, doc |-> routes[c][f].contextId]}
       /\ End(c, "done")
       /\ UNCHANGED <<site, documents, sessions, routes, current, frameTurns, crossed>>

(* The browser runs it in the document the context belongs to, if that is  *)
(* still there.                                                            *)
Run(c) ==
    LET f == FrameOf[c]
        it == routes[c][f]
        hit == {g \in Frames : Alive(g, it.session) /\ site[g].doc = it.contextId}
    IN /\ CallKind[c] \in {"evaluate", "qualified"} /\ frameCall[c].at = "run"
       /\ IF CallKind[c] = "qualified" /\ ~ SameContext(frameCall[c].asked, f, it.contextId) THEN End(c, "stale")
          ELSE IF hit = {} THEN End(c, "failed")
          ELSE \E g \in hit :
                   Set(c, [NoCall EXCEPT !.at = "done", !.asked = frameCall[c].asked,
                                         !.checked = frameCall[c].checked, !.url = site[g].url,
                                         !.acted = [frame |-> g, doc |-> site[g].doc]])
       /\ UNCHANGED <<site, documents, sessions, routes, current, given, frameTurns, crossed>>

(* point(): the element of the frame in its parent, then where it is and   *)
(* that nothing covers it, and then the mouse event at that point.         *)
Owner(c) ==
    /\ frameCall[c].at = "owner"
    /\ IF site[FrameOf[c]].up THEN Set(c, [frameCall[c] EXCEPT !.at = "geometry"]) ELSE End(c, "failed")
    /\ UNCHANGED <<site, documents, sessions, routes, current, given, frameTurns, crossed>>

Geometry(c) ==
    LET f == FrameOf[c]
    IN /\ frameCall[c].at = "geometry"
       /\ IF site[f].up /\ HitAt(site[f].place) = f
          THEN Set(c, [frameCall[c] EXCEPT !.at = "dispatch", !.point = site[f].place])
          ELSE End(c, "refused")
       /\ UNCHANGED <<site, documents, sessions, routes, current, given, frameTurns, crossed>>

Dispatch(c) ==
    /\ frameCall[c].at = "dispatch"
    /\ Set(c, [NoCall EXCEPT !.at = "done", !.acted = [frame |-> HitAt(frameCall[c].point), doc |-> 0]])
    /\ UNCHANGED <<site, documents, sessions, routes, current, given, frameTurns, crossed>>

-----------------------------------------------------------------------------
FrameRoutingInit ==
    /\ site = [f \in Frames |-> [up |-> TRUE, doc |-> f, url |-> "open", place |-> f % 2,
                                 session |-> IF f \in OwnProcess THEN f ELSE 0]]
    /\ documents = Max(Frames)
    /\ sessions = {[id |-> f, ready |-> TRUE, told |-> TRUE] : f \in OwnProcess}
    /\ routes = [c \in FrameCalls |-> NoRoutes]
    /\ current = NoCaller /\ given = {} /\ crossed = FALSE
    /\ \E plan \in FramePlans :
        /\ frameTurns = plan.turns
        /\ frameCall = [c \in FrameCalls |-> [NoCall EXCEPT !.at = IF c \in plan.calls THEN "idle" ELSE "never"]]

FrameRoutingNext ==
    \/ \E f \in Frames : Navigate(f) \/ Leave(f) \/ Shift(f)
    \/ enable
    \/ \E c \in FrameCalls :
        \/ command(c) \/ ReadRoot(c) \/ ReadChild(c) \/ Expire(c)
        \/ world(c) \/ Answer(c) \/ Run(c) \/ Owner(c) \/ Geometry(c) \/ Dispatch(c)

FrameRoutingTypeOK ==
    /\ \A f \in Frames : site[f].doc \in 0..documents /\ site[f].url \in Urls
    /\ sessions \subseteq [id : 1..documents, ready : BOOLEAN, told : BOOLEAN]
    /\ current \in FrameCalls \cup {NoCaller}
    /\ \A c \in FrameCalls : DOMAIN frameCall[c] = DOMAIN NoCall
    /\ given \subseteq [frame : Frames, doc : 0..documents]
    /\ frameTurns \in Nat

Done(c, kinds) == CallKind[c] \in kinds /\ frameCall[c].at = "done"

(* A command runs in the frame it is for, however alike others are; and,   *)
(* with a context, in the document that context was made for.              *)
RunsInItsFrame ==
    \A c \in FrameCalls :
        /\ Done(c, {"evaluate", "qualified"}) => frameCall[c].acted.frame = FrameOf[c]
        /\ Done(c, {"qualified"}) => frameCall[c].acted = frameCall[c].asked

(* A command finds no context only if a frame changed while it was under   *)
(* way, or had changed unreported or while frames were being discovered.   *)
FailsOnlyByChange ==
    \A c \in FrameCalls : frameCall[c].at = "failed" => frameCall[c].moved \/ crossed

FrameRoutingSound == RunsInItsFrame /\ FailsOnlyByChange

-----------------------------------------------------------------------------
(* Not true, even if every navigation is reported.  A command does not     *)
(* fail while the frames are still: a tree that was being read when a      *)
(* frame reloaded puts the context back that the event had cleared         *)
(* (frame-routing.ts:48-58, :71), and each later tree keeps it.            *)
StillFramesWork == \A c \in FrameCalls : frameCall[c].at = "failed" => frameCall[c].moved

(* Not true.  The routes that are kept name contexts that are there.       *)
RoutesAreCurrent ==
    \A f \in Frames : LET it == RoutesOf(current)[f]
                      IN it.contextId # 0 /\ site[f].up /\ it.session = site[f].session => it.contextId = site[f].doc

(* Not true.  The document a command runs in has the address that was      *)
(* checked: it may navigate before its context is made (:114-119).         *)
CheckedIsRun == \A c \in FrameCalls : Done(c, {"evaluate"}) => frameCall[c].url = frameCall[c].checked

(* Not true.  A mouse event is dispatched over its frame: the point is     *)
(* sought before it (:126-127).                                            *)
PressIsInItsFrame == \A c \in FrameCalls : Done(c, {"press"}) => frameCall[c].acted.frame = FrameOf[c]
=============================================================================
