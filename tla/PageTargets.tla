---------------------------- MODULE PageTargets ----------------------------
(***************************************************************************)
(* What a session sees of a page and what its clicks then act on: page     *)
(* searches, visual maps, screenshots, inspections and clicks              *)
(* (operation-groups/inspection.ts and session.ts), over a page that       *)
(* changes by itself between the steps of a call.  Each step is one        *)
(* expression evaluated in the page, and so atomic there: page-state.ts    *)
(* gives elements their ids, interaction-helpers.ts finds them again.      *)
(*                                                                         *)
(* An element is in one of two places of the document, and a higher one    *)
(* covers a lower one; the viewport is scrolled or not.  A node is one     *)
(* incarnation of an element in one document.                              *)
(***************************************************************************)
EXTENDS Naturals, FiniteSets

CONSTANTS Elements,       \* numbers from 1 on
          Dialogs,        \* those that are dialogs
          InSelector,     \* those that the selector in use matches
          PageCalls, CallKind,     \* call -> what it does
          PagePlans,      \* sets of calls that may overlap
          MaxPageTurns    \* bound on changes of the page

VARIABLES web,        \* the page: its document, revision, scroll and elements
          nodes,      \* agentState.nodes: the nodes of the document that have an id
          told,       \* what the session has been told: ids with the place of their box
          pageCall,   \* call -> its step and what it knows
          pageTurns

pageTargetsVars == <<web, nodes, told, pageCall, pageTurns>>

-----------------------------------------------------------------------------
(* The page                                                                *)
FreshElement == [made |-> 0, up |-> TRUE, shown |-> TRUE, off |-> FALSE, place |-> 0]
NoNode == [doc |-> 0, el |-> 0, made |-> 0]
Node(w, e) == [doc |-> w.doc, el |-> e, made |-> w.els[e].made]

Visible(w, e) == w.els[e].up /\ w.els[e].shown
Top(es) == IF es = {} THEN 0 ELSE CHOOSE e \in es : \A f \in es : f <= e
InView(w, e) == (w.els[e].place + w.scroll) % 2
HitAt(w, point) == Top({e \in Elements : Visible(w, e) /\ InView(w, e) = point})
NodeAt(w, point) == LET hit == HitAt(w, point) IN IF hit = 0 THEN NoNode ELSE Node(w, hit)
Covered(w, e) == HitAt(w, InView(w, e)) # e
There(w) == {Node(w, e) : e \in {f \in Elements : w.els[f].up}}
agentDialogRoot(w) == Top({e \in Dialogs : Visible(w, e)})
Boxes(w, es) == {[node |-> Node(w, e), point |-> InView(w, e)] : e \in es}

(* The page changes: an element goes, comes back as another one, is hidden *)
(* or shown, moves, is disabled or enabled; or the page is only scrolled;  *)
(* or another document is loaded, with elements that look the same.  The   *)
(* revision counts mutations of the document: what comes or goes is one,   *)
(* but a style sheet, a transition, the pointer or the size of the window  *)
(* hide, show, move and disarm elements without one.                       *)
Alter(e) ==
    LET it == web.els[e]
    IN \E new \in {[it EXCEPT !.up = FALSE], [it EXCEPT !.shown = ~ @],
                   [it EXCEPT !.off = ~ @], [it EXCEPT !.place = 1 - @]}
                  \cup (IF it.up THEN {} ELSE {[FreshElement EXCEPT !.made = it.made + 1]}),
          mutation \in {1} \cup (IF it.up THEN {0} ELSE {}) :
           /\ new # it /\ (it.up \/ new.up) /\ (new.up = it.up \/ mutation = 1)
           /\ web' = [web EXCEPT !.els[e] = new, !.rev = @ + mutation]
           /\ UNCHANGED nodes
Scroll == web' = [web EXCEPT !.scroll = 1 - @] /\ UNCHANGED nodes
Load ==
    /\ web' = [doc |-> web.doc + 1, rev |-> 0, scroll |-> 0, els |-> [e \in Elements |-> FreshElement]]
    /\ nodes' = {}
PageTurn ==
    /\ pageTurns < MaxPageTurns /\ pageTurns' = pageTurns + 1
    /\ \E e \in Elements : Alter(e)
       \/ Scroll
       \/ Load
    /\ UNCHANGED <<told, pageCall>>

-----------------------------------------------------------------------------
(* Ids.  An id names a document and a number; it finds its node while the  *)
(* document is there and the node is in it.                                *)
IdOf_NoDocument(n) == [el |-> n.el, made |-> n.made]
IdOf(n) == n

Found(id) == {n \in nodes : IdOf(n) = id}
agentNodeById_Detached(id) == {e \in Elements : \E n \in Found(id) : n.el = e}
agentNodeById(id) ==
    {e \in Elements : web.els[e].up /\ Node(web, e) \in Found(id)}

(* A selector is for the one element that is visible, or else the only one.*)
agentUnique ==
    LET there == {e \in InSelector : web.els[e].up}
        seen == {e \in there : Visible(web, e)}
    IN IF seen # {} THEN seen ELSE there

(* agentObservation also gives the dialog an id.                           *)
Root(w) == LET root == agentDialogRoot(w) IN IF root = 0 THEN {} ELSE {Node(w, root)}
Observation(w) == [doc |-> w.doc, rev |-> w.rev, root |-> Root(w)]

(* The scope of a search is the dialog that is open, or the page.          *)
Units(w) ==
    LET root == agentDialogRoot(w)
    IN IF root # 0 THEN {root} ELSE {e \in Elements : Visible(w, e)}

-----------------------------------------------------------------------------
(* Calls                                                                   *)
NoObservation == [doc |-> 0, rev |-> 0, root |-> {}]
NoStamp == [doc |-> 0, rev |-> 0, scroll |-> 0]
Stamp(w) == [doc |-> w.doc, rev |-> w.rev, scroll |-> w.scroll]
NoCall == [at |-> "idle", seen |-> NoObservation, there |-> {}, units |-> {}, tries |-> 0, full |-> FALSE,
           view |-> NoStamp, size |-> NoStamp, picture |-> NoStamp, changed |-> FALSE, current |-> TRUE,
           meant |-> NoNode, point |-> 0, acted |-> NoNode, safe |-> TRUE]
Ends == {"idle", "done", "stale", "failed", "refused"}

Set(c, call) == pageCall' = [pageCall EXCEPT ![c] = call]
(* What a finished call leaves: the properties ask no more of it.          *)
EndCall(c, how) == Set(c, [NoCall EXCEPT !.at = how])

(* browser_page_search: what is captured is ranked by the host, which may  *)
(* fail, and then compared with the page; a page that changed is captured  *)
(* a second time, and then given up (freshSearch).                         *)
Capture(c) ==
    /\ CallKind[c] = "search" /\ pageCall[c].at \in {"idle", "capture"}
    /\ LET units == Units(web)
       IN /\ Set(c, [NoCall EXCEPT !.at = "rank", !.seen = Observation(web), !.tries = pageCall[c].tries + 1,
                                   !.there = There(web), !.units = Boxes(web, units)])
          /\ nodes' = nodes \cup {Node(web, e) : e \in units} \cup Root(web)
    /\ UNCHANGED <<web, told, pageTurns>>

RankUnits(c) ==
    /\ pageCall[c].at = "rank"
    /\ Set(c, [pageCall[c] EXCEPT !.at = "compare"]) \/ EndCall(c, "failed")
    /\ UNCHANGED <<web, nodes, told, pageTurns>>

SamePage_Document(a, b) == a.doc = b.doc
SamePage(a, b) == a = b

Compare(c) ==
    LET call == pageCall[c]
        same == SamePage(call.seen, Observation(web))
    IN /\ call.at = "compare"
       /\ nodes' = nodes \cup Root(web)
       /\ IF same
          THEN /\ told' = told \cup call.units
               /\ Set(c, [NoCall EXCEPT !.at = "done",
                          !.current = (call.there = There(web) /\ call.seen.root = Root(web)),
                          !.changed = call.units # Boxes(web, Units(web))])
          ELSE IF call.tries < 2
          THEN Set(c, [call EXCEPT !.at = "capture"]) /\ UNCHANGED told
          ELSE EndCall(c, "stale") /\ UNCHANGED told
       /\ UNCHANGED <<web, pageTurns>>

(* browser_screenshot: what the page is, its size if all of it is taken,   *)
(* the picture, a second one if the first is too large, and again what the *)
(* page is.                                                                *)
Observe(c) ==
    /\ CallKind[c] = "shot" /\ pageCall[c].at = "idle"
    /\ \E full \in BOOLEAN :
           Set(c, [NoCall EXCEPT !.at = IF full THEN "size" ELSE "picture", !.full = full,
                                 !.seen = Observation(web), !.view = Stamp(web)])
    /\ nodes' = nodes \cup Root(web)
    /\ UNCHANGED <<web, told, pageTurns>>

Measure(c) ==
    /\ pageCall[c].at = "size"
    /\ Set(c, [pageCall[c] EXCEPT !.at = "picture", !.size = Stamp(web)])
    /\ UNCHANGED <<web, nodes, told, pageTurns>>

TakePicture(c) ==
    /\ pageCall[c].at \in {"picture", "smaller"} /\ CallKind[c] = "shot"
    /\ \E next \in {"check"} \cup (IF pageCall[c].at = "picture" THEN {"smaller"} ELSE {}) :
           Set(c, [pageCall[c] EXCEPT !.at = next, !.picture = Stamp(web)])
    /\ UNCHANGED <<web, nodes, told, pageTurns>>

CheckPicture_Trusted(c) ==
    LET call == pageCall[c]
    IN /\ call.at = "check"
       /\ nodes' = nodes \cup Root(web)
       /\ Set(c, [call EXCEPT !.at = "done", !.changed = Observation(web).rev # call.seen.rev])
       /\ UNCHANGED <<web, told, pageTurns>>
CheckPicture(c) ==
    LET call == pageCall[c]
    IN /\ call.at = "check"
       /\ nodes' = nodes \cup Root(web)
       /\ IF web.doc # call.seen.doc THEN EndCall(c, "stale")
          ELSE Set(c, [call EXCEPT !.at = "done", !.changed = Observation(web).rev # call.seen.rev])
       /\ UNCHANGED <<web, told, pageTurns>>

(* browser_visual_map: boxes from the document, and those that a detector  *)
(* finds in a picture, if it is asked for or the document gives none; a    *)
(* detector that fails leaves the map without.                             *)
MapPage(c) ==
    /\ CallKind[c] = "map" /\ pageCall[c].at = "idle"
    /\ LET units == Units(web)
           map == [NoCall EXCEPT !.view = Stamp(web), !.units = Boxes(web, units), !.picture = Stamp(web)]
       IN /\ \E force \in BOOLEAN :
                 IF force \/ units = {}
                 THEN Set(c, [map EXCEPT !.at = "look"]) /\ UNCHANGED told
                 ELSE Set(c, [map EXCEPT !.at = "done"]) /\ told' = told \cup map.units
          /\ nodes' = nodes \cup {Node(web, e) : e \in units} \cup Root(web)
    /\ UNCHANGED <<web, pageTurns>>

Look(c) ==
    /\ pageCall[c].at = "look"
    /\ Set(c, [pageCall[c] EXCEPT !.at = "detect", !.picture = Stamp(web)])
    /\ UNCHANGED <<web, nodes, told, pageTurns>>

Detect(c) ==
    LET call == pageCall[c]
    IN /\ call.at \in {"look", "detect"}
       /\ \E used \in (IF call.at = "detect" THEN BOOLEAN ELSE {FALSE}) :
              Set(c, [call EXCEPT !.at = "done", !.picture = IF used THEN @ ELSE call.view])
       /\ told' = told \cup call.units
       /\ UNCHANGED <<web, nodes, pageTurns>>

(* browser_page_inspect: an element by its id, or the dialog or the whole  *)
(* page, with what is around it.                                           *)
Inspect(c) ==
    /\ CallKind[c] = "inspect" /\ pageCall[c].at = "idle"
    /\ \E asked \in {NoNode} \cup {b.node : b \in told} :
       LET target == agentNodeById(IdOf(asked))
           around == {e \in Elements : Visible(web, e)} \cup target
       IN IF asked # NoNode /\ target = {} THEN EndCall(c, "stale") /\ UNCHANGED <<nodes, told>>
          ELSE /\ EndCall(c, "done")
               /\ nodes' = nodes \cup {Node(web, e) : e \in around} \cup Root(web)
               /\ told' = told \cup Boxes(web, around)
    /\ UNCHANGED <<web, pageTurns>>

-----------------------------------------------------------------------------
(* Clicks.  A click first brings the cursor over its target, as well as it *)
(* can, which may scroll the page.                                         *)
ByElement == {"click", "frame", "press"}

Aim(c) ==
    /\ pageCall[c].at = "idle"
    /\ \/ /\ CallKind[c] \in ByElement
          /\ \E box \in told : Set(c, [NoCall EXCEPT !.at = "target", !.meant = box.node])
          /\ \E scroll \in 0..1 : web' = [web EXCEPT !.scroll = scroll]
       \/ /\ CallKind[c] = "select"
          /\ Set(c, [NoCall EXCEPT !.at = "target"])
          /\ \E scroll \in 0..1 : web' = [web EXCEPT !.scroll = scroll]
       \/ /\ CallKind[c] = "point"
          /\ \E box \in told : Set(c, [NoCall EXCEPT !.at = "target", !.meant = box.node, !.point = box.point])
          /\ UNCHANGED web
    /\ UNCHANGED <<nodes, told, pageTurns>>

TargetsOf(c) ==
    CASE CallKind[c] = "select" -> agentUnique
      [] CallKind[c] = "point"  -> {HitAt(web, pageCall[c].point)} \ {0}
      [] OTHER                  -> agentNodeById(IdOf(pageCall[c].meant))

(* clickTarget and assertPointerInteractable: the element is enabled, in   *)
(* sight, and not covered at the point.                                    *)
MayClick_Covered(e) == Visible(web, e) /\ ~ web.els[e].off
MayClick(e) == Visible(web, e) /\ ~ web.els[e].off /\ ~ Covered(web, e)

(* No element, or several, or one that may not be clicked.                 *)
Refused(c) ==
    /\ pageCall[c].at \in {"target", "again"}
    /\ LET targets == TargetsOf(c)
       IN /\ Cardinality(targets) # 1 \/ \E e \in targets : ~ MayClick(e)
          /\ EndCall(c, IF targets = {} THEN "stale" ELSE "refused")
          /\ nodes' = nodes \cup {Node(web, e) : e \in {f \in targets : Covered(web, f)}}
                            \cup ({NodeAt(web, InView(web, e)) : e \in {f \in targets : Covered(web, f)}} \ {NoNode})
    /\ UNCHANGED <<web, told, pageTurns>>

(* backgroundClick, in the same expression: the element itself is clicked. *)
Acted(c, e) ==
    Set(c, [NoCall EXCEPT !.at = "done", !.meant = pageCall[c].meant, !.point = pageCall[c].point,
                          !.acted = Node(web, e),
                          !.safe = Visible(web, e) /\ ~ web.els[e].off /\ ~ Covered(web, e)])

ClickInPage(c) ==
    /\ \/ CallKind[c] \in {"click", "select", "point"} /\ pageCall[c].at = "target"
       \/ CallKind[c] = "frame" /\ pageCall[c].at = "again"
    /\ \E e \in TargetsOf(c) :
           /\ TargetsOf(c) = {e} /\ MayClick(e)
           /\ Acted(c, e)
           /\ \E scroll \in (IF CallKind[c] = "point" THEN {web.scroll} ELSE 0..1) :
                  web' = [web EXCEPT !.scroll = scroll]
    /\ UNCHANGED <<nodes, told, pageTurns>>

(* In a frame the point is first sought, and checked against the frames    *)
(* around it; in Firefox it is sought, and then pressed by the browser.    *)
Seek(c) ==
    /\ CallKind[c] \in {"frame", "press"} /\ pageCall[c].at = "target"
    /\ \E e \in TargetsOf(c) :
           /\ MayClick(e)
           /\ \E scroll \in 0..1 :
                  /\ web' = [web EXCEPT !.scroll = scroll]
                  /\ Set(c, [pageCall[c] EXCEPT !.at = IF CallKind[c] = "frame" THEN "geometry" ELSE "down",
                                                !.point = InView(web', e)])
    /\ UNCHANGED <<nodes, told, pageTurns>>

framePoint(c) ==
    /\ pageCall[c].at = "geometry"
    /\ Set(c, [pageCall[c] EXCEPT !.at = "again"]) \/ EndCall(c, "refused")
    /\ UNCHANGED <<web, nodes, told, pageTurns>>

Press(c) ==
    /\ pageCall[c].at = "down"
    /\ Set(c, [pageCall[c] EXCEPT !.at = "release", !.acted = NodeAt(web, pageCall[c].point)])
    /\ UNCHANGED <<web, nodes, told, pageTurns>>

(* The browser makes a click of a press and a release over one element.    *)
ReleaseClick(c) ==
    /\ pageCall[c].at = "release"
    /\ Set(c, [pageCall[c] EXCEPT !.at = "done",
                   !.acted = IF @ = NodeAt(web, pageCall[c].point) THEN @ ELSE NoNode])
    /\ UNCHANGED <<web, nodes, told, pageTurns>>

-----------------------------------------------------------------------------
PageTargetsInit ==
    /\ web = [doc |-> 1, rev |-> 0, scroll |-> 0, els |-> [e \in Elements |-> [FreshElement EXCEPT !.place = e % 2]]]
    /\ nodes = {} /\ told = {} /\ pageTurns = 0
    /\ \E plan \in PagePlans :
           pageCall = [c \in PageCalls |-> IF c \in plan THEN NoCall ELSE [NoCall EXCEPT !.at = "failed"]]

PageTargetsNext ==
    \/ PageTurn
    \/ \E c \in PageCalls :
        \/ Capture(c) \/ RankUnits(c) \/ Compare(c)
        \/ Observe(c) \/ Measure(c) \/ TakePicture(c) \/ CheckPicture(c)
        \/ MapPage(c) \/ Look(c) \/ Detect(c) \/ Inspect(c)
        \/ Aim(c) \/ Refused(c) \/ ClickInPage(c) \/ Seek(c) \/ framePoint(c) \/ Press(c) \/ ReleaseClick(c)

PageTargetsTypeOK ==
    /\ nodes \subseteq [doc : {web.doc}, el : Elements, made : Nat]
    /\ \A b \in told : b.node.el \in Elements /\ b.point \in 0..1
    /\ \A c \in PageCalls : DOMAIN pageCall[c] = DOMAIN NoCall
    /\ pageTurns \in 0..MaxPageTurns

DoneAs(c, kinds) == CallKind[c] \in kinds /\ pageCall[c].at = "done"

(* However the page changed since its id was listed, a click that is       *)
(* reported acted on that node and no other, and on one that could be seen *)
(* and clicked at that moment.                                             *)
ClickIsOnItsNode ==
    \A c \in PageCalls : /\ DoneAs(c, {"click", "frame"}) => pageCall[c].acted = pageCall[c].meant
                         /\ DoneAs(c, {"click", "frame", "select", "point"}) => pageCall[c].safe

(* When a search answers, nothing has come into the document or left it    *)
(* since what it ranked was captured, and the dialog it was limited to, if *)
(* any, is the one that is open.  What is in the document may have been    *)
(* hidden, shown or moved since.                                           *)
SearchIsCurrent == \A c \in PageCalls : DoneAs(c, {"search"}) => pageCall[c].current

(* A picture, and the size it was taken with, is of the document it is     *)
(* reported for, and of its revision unless it is said to have changed.    *)
PictureIsObserved ==
    \A c \in PageCalls : DoneAs(c, {"shot"}) =>
        LET call == pageCall[c]
            stamps == {call.picture} \cup (IF call.full THEN {call.size} ELSE {})
        IN \A s \in stamps : s.doc = call.seen.doc /\ (call.changed \/ s.rev = call.seen.rev)

PageTargetsSound == ClickIsOnItsNode /\ SearchIsCurrent /\ PictureIsObserved

-----------------------------------------------------------------------------
(* Not true.  A search lists what can be seen, where it is: a scroll and   *)
(* what style sheets do change no revision (page-state.ts:14-19).          *)
BoxesAreCurrent == \A c \in PageCalls : DoneAs(c, {"search"}) => ~ pageCall[c].changed

(* Not true.  A picture that is not said to have changed shows the         *)
(* viewport of its observation: it may have been scrolled since.           *)
PictureIsOfItsView ==
    \A c \in PageCalls : (DoneAs(c, {"shot"}) /\ ~ pageCall[c].changed) =>
        pageCall[c].picture.scroll = pageCall[c].view.scroll

(* Not true.  A map is of one state of the page: its boxes are from the    *)
(* document as it was, those of the detector from a picture taken later    *)
(* (inspection.ts:110-127), and nothing is compared.                       *)
MapIsOneState == \A c \in PageCalls : DoneAs(c, {"map"}) => pageCall[c].picture = pageCall[c].view

(* Not true.  In Firefox a click is on the element it was asked for: the   *)
(* point is pressed after two more waits (page-backend.ts:40-44).          *)
PressIsOnItsNode ==
    \A c \in PageCalls : DoneAs(c, {"press"}) =>
        pageCall[c].acted = pageCall[c].meant

(* Not true.  A click at the middle of a listed box is on what was listed. *)
PointIsOnItsNode ==
    \A c \in PageCalls : DoneAs(c, {"point"}) => pageCall[c].acted = pageCall[c].meant
=============================================================================
