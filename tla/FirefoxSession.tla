--------------------------- MODULE FirefoxSession ---------------------------
(***************************************************************************)
(* The session with a Firefox profile (native-host/src/firefox/backend.ts, *)
(* background/firefox-bridge.ts): one WebSocket shared by the tabs, which  *)
(* attach and detach on their own.  An attached tab has a context, and a   *)
(* script in Firefox that keeps file pickers shut (its guard).  The session*)
(* is opened by the first tab that attaches, ended by the last that leaves *)
(* and lost when Firefox goes away.                                        *)
(***************************************************************************)
EXTENDS Naturals, FiniteSets

CONSTANTS FoxTabs, MaxSessions, MaxFaults

VARIABLES
    session,    \* the number of the open session, 0 if there is none
    ready,      \* its connection: "none", "connecting", "ready"
    opened,     \* how many sessions there have been
    contexts,   \* the context of a tab: the session it was found in, or 0
    preloads,   \* the guard the backend knows of, by session, or 0
    guards,     \* the guards in Firefox: [tab, session]
    work,       \* what a tab is in the middle of
    attachedFox,\* attachedTabs in the extension
    undoLost,   \* a detach that makes up for a late attach has failed
    faults

firefoxSessionVars == <<session, ready, opened, contexts, preloads, guards, work, attachedFox,
                        undoLost, faults>>

None == [t \in FoxTabs |-> 0]

-----------------------------------------------------------------------------
FirefoxSessionInit ==
    /\ session = 0 /\ ready = "none" /\ opened = 0
    /\ contexts = None /\ preloads = None /\ guards = {}
    /\ work = [t \in FoxTabs |-> "idle"] /\ attachedFox = {}
    /\ undoLost = FALSE /\ faults = MaxFaults

\* attach: the first to come opens the connection, the others wait for it.
Attach(t) ==
    /\ work[t] = "idle" /\ t \notin attachedFox
    /\ \/ ready # "none" /\ UNCHANGED <<session, ready, opened>>
       \/ /\ ready = "none" /\ opened < MaxSessions
          /\ opened' = opened + 1 /\ session' = opened + 1 /\ ready' = "connecting"
    /\ work' = [work EXCEPT ![t] = "connect"]
    /\ UNCHANGED <<contexts, preloads, guards, attachedFox, undoLost, faults>>

Connected ==
    /\ ready = "connecting" /\ ready' = "ready"
    /\ UNCHANGED <<session, opened, contexts, preloads, guards, work, attachedFox, undoLost, faults>>

\* What goes with a socket that closes: everything kept for its session; and
\* who waits for an answer on it gets an error.
Failing == [t \in FoxTabs |-> IF work[t] \in {"connect", "guard"} THEN "idle" ELSE work[t]]
Closed_KeepsContexts ==
    /\ session' = 0 /\ ready' = "none"
    /\ preloads' = None /\ guards' = {}
    /\ UNCHANGED contexts
Closed ==
    /\ session' = 0 /\ ready' = "none"
    /\ contexts' = None /\ preloads' = None /\ guards' = {}

\* Firefox goes away, or does not answer the connection or its first commands.
SocketCloses ==
    /\ session # 0 /\ faults > 0 /\ faults' = faults - 1
    /\ Closed /\ work' = Failing
    /\ UNCHANGED <<opened, attachedFox, undoLost>>

\* The tab's marker is found in one context.
Match(t) ==
    /\ work[t] = "connect" /\ ready = "ready"
    /\ contexts' = [contexts EXCEPT ![t] = session]
    /\ work' = [work EXCEPT ![t] = "guard"]
    /\ UNCHANGED <<session, ready, opened, preloads, guards, attachedFox, undoLost, faults>>

\* No tab has the marker, or the deadline is over.
MatchFails(t) ==
    /\ work[t] = "connect" /\ faults > 0 /\ faults' = faults - 1
    /\ work' = [work EXCEPT ![t] = "idle"]
    /\ UNCHANGED <<session, ready, opened, contexts, preloads, guards, attachedFox, undoLost>>

Guard(t) ==
    /\ work[t] = "guard"
    /\ guards' = guards \cup {[tab |-> t, session |-> session]}
    /\ preloads' = [preloads EXCEPT ![t] = session]
    /\ work' = [work EXCEPT ![t] = "answer"]
    /\ UNCHANGED <<session, ready, opened, contexts, attachedFox, undoLost, faults>>

\* Installing the guard fails or is late: what was installed is removed again.
GuardFails(t) ==
    /\ work[t] = "guard" /\ faults > 0 /\ faults' = faults - 1
    /\ contexts' = [contexts EXCEPT ![t] = 0]
    /\ work' = [work EXCEPT ![t] = "idle"]
    /\ UNCHANGED <<session, ready, opened, preloads, guards, attachedFox, undoLost>>

\* createFirefoxAttacher: the tab is attached once the answer is there, unless
\* the deadline or another attachment came first; then it is detached again.
AttachAnswered(t) ==
    /\ work[t] = "answer"
    /\ attachedFox' = attachedFox \cup {t}
    /\ work' = [work EXCEPT ![t] = "idle"]
    /\ UNCHANGED <<session, ready, opened, contexts, preloads, guards, undoLost, faults>>

AnswerLate(t) ==
    /\ work[t] = "answer" /\ faults > 0 /\ faults' = faults - 1
    /\ work' = [work EXCEPT ![t] = "undo"]
    /\ UNCHANGED <<session, ready, opened, contexts, preloads, guards, attachedFox, undoLost>>

DetachStart(t) ==
    /\ work[t] = "idle" /\ t \in attachedFox
    /\ work' = [work EXCEPT ![t] = "detach"]
    /\ UNCHANGED <<session, ready, opened, contexts, preloads, guards, attachedFox, undoLost, faults>>

\* detach: the guard goes, then what is kept for the tab; with the last tab the
\* session is ended, which takes an answer from Firefox.
Left(t) == [contexts EXCEPT ![t] = 0]
DetachNow(t) ==
    /\ work[t] \in {"detach", "undo"}
    /\ guards' = guards \ {[tab |-> t, session |-> preloads[t]]}
    /\ preloads' = [preloads EXCEPT ![t] = 0]
    /\ contexts' = Left(t)
    /\ LET last == Left(t) = None
       IN  /\ work' = [work EXCEPT ![t] = IF last THEN "close" ELSE "idle"]
           /\ attachedFox' = IF last THEN attachedFox ELSE attachedFox \ {t}
    /\ UNCHANGED <<session, ready, opened, undoLost, faults>>

DetachTimesOut(t) ==
    /\ work[t] \in {"detach", "undo"} /\ session # 0 /\ faults > 0 /\ faults' = faults - 1
    /\ undoLost' = (undoLost \/ work[t] = "undo")
    /\ work' = [work EXCEPT ![t] = "idle"]
    /\ UNCHANGED <<session, ready, opened, contexts, preloads, guards, attachedFox>>

\* close, after its session.end: whatever socket there is now is closed.
Close(t) ==
    /\ work[t] = "close"
    /\ Closed
    /\ work' = [Failing EXCEPT ![t] = "idle"]
    /\ attachedFox' = attachedFox \ {t}
    /\ UNCHANGED <<opened, undoLost, faults>>

\* sendCdpCommand: a command for a tab that the backend does not know makes the
\* extension forget it too, and the next one attaches it again.
Command(t) ==
    /\ work[t] = "idle" /\ t \in attachedFox /\ contexts[t] = 0
    /\ attachedFox' = attachedFox \ {t}
    /\ UNCHANGED <<session, ready, opened, contexts, preloads, guards, work, undoLost, faults>>

\* The user closes the tab.
TabCloses(t) ==
    /\ t \in attachedFox /\ work[t] = "idle" /\ faults > 0 /\ faults' = faults - 1
    /\ attachedFox' = attachedFox \ {t}
    /\ contexts' = [contexts EXCEPT ![t] = 0]
    /\ guards' = {g \in guards : g.tab # t}
    /\ UNCHANGED <<session, ready, opened, preloads, work, undoLost>>

FirefoxSessionNext ==
    \/ \E t \in FoxTabs :
        \/ Attach(t) \/ Match(t) \/ MatchFails(t) \/ Guard(t) \/ GuardFails(t) \/ AttachAnswered(t) \/ AnswerLate(t)
        \/ DetachStart(t) \/ DetachNow(t) \/ DetachTimesOut(t) \/ Close(t) \/ Command(t) \/ TabCloses(t)
    \/ Connected \/ SocketCloses

FirefoxSessionSpec == FirefoxSessionInit /\ [][FirefoxSessionNext]_firefoxSessionVars

-----------------------------------------------------------------------------
FirefoxSessionTypeOK ==
    /\ session \in 0..MaxSessions /\ opened \in 0..MaxSessions /\ ready \in {"none", "connecting", "ready"}
    /\ contexts \in [FoxTabs -> 0..MaxSessions] /\ preloads \in [FoxTabs -> 0..MaxSessions]
    /\ guards \subseteq [tab : FoxTabs, session : 1..MaxSessions]
    /\ work \in [FoxTabs -> {"idle", "connect", "guard", "answer", "undo", "detach", "close"}]
    /\ attachedFox \subseteq FoxTabs /\ undoLost \in BOOLEAN /\ faults \in 0..MaxFaults

\* backend.ts, firefox-bridge.ts: no command goes to a context of a session that
\* is over, a tab that takes commands has its guard, and a guard is that of a
\* tab attached or at work, unless the detach that was to remove it failed.
FirefoxSound ==
    /\ \A t \in FoxTabs : contexts[t] \in {0, session}
    /\ \A t \in attachedFox : contexts[t] # 0 => [tab |-> t, session |-> session] \in guards
    /\ \A g \in guards : undoLost \/ g.tab \in attachedFox \/ work[g.tab] # "idle"

\* Not so: a tab the extension has attached has a context.  The last other tab
\* that leaves ends the session under one that has just attached.
AttachedHasContext == \A t \in attachedFox : work[t] = "idle" => contexts[t] # 0
=============================================================================
