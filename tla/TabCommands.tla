---------------------------- MODULE TabCommands ----------------------------
(***************************************************************************)
(* The commands of one tab inside the extension: the lane that queues them *)
(* (command-health.ts), the attachment of the debugger                     *)
(* (debugger-attach.ts), what is sent through it (runtime-cdp.ts) and the  *)
(* detachments that do not wait for the lane (runtime.ts).                 *)
(*                                                                         *)
(* A call checks that its session controls the tab, queues, and may be     *)
(* answered at its deadline while its task still runs.  Chrome is          *)
(* external: whether the debugger is really attached is `debugger', what   *)
(* the extension believes is `attached'.  Deadlines are choices.           *)
(***************************************************************************)
EXTENDS Naturals, Sequences, FiniteSets

CONSTANTS Commands,     \* calls of attach, executeCdp and inputGesture, used anew when they end
          Detachers,    \* calls of detach and releaseTab
          NoCommand, Sessions, NoSession,
          MaxEvents     \* claims and cancelled debuggers (a bound)

ASSUME TabAssumption == NoCommand \notin Commands
ASSUME SessionAssumption == NoSession \notin Sessions

VARIABLES owner,        \* the session that controls the tab
          attached,     \* attachedTabs: for whom the tab is attached
          debugger,     \* Chrome's debugger is attached to the tab
          current,      \* the attachments and detachments under way, begun in this generation
          tail,         \* the call the next one will queue behind
          quarantined,  \* the call whose task was the last to outlive its deadline
          orphaned,     \* the queue was given up while a call before its end was left in it (history)
          command,      \* the calls
          detacher,     \* the detachments under way
          events        \* environment steps so far

tabVars == <<owner, attached, debugger, current, tail, quarantined, orphaned, command, detacher, events>>

NewCommand == [pc |-> "new", session |-> NoSession, kind |-> "none", after |-> {}]
NewDetacher == [pc |-> "new", session |-> NoSession]

TabInit == /\ owner \in Sessions /\ attached = NoSession /\ debugger = FALSE /\ current = {}
           /\ tail = NoCommand /\ quarantined = NoCommand /\ orphaned = FALSE
           /\ command = [c \in Commands |-> NewCommand]
           /\ detacher = [d \in Detachers |-> NewDetacher] /\ events = 0

Running == {"preflight", "attaching", "setup", "cleanup", "sending"}

Move(c, pc) == command' = [command EXCEPT ![c].pc = pc]

\* A call that is answered opens its gate for those behind it; the last one
\* takes the queue of the tab with it, also while others are still before it.
Opened(c) == [d \in Commands |-> [command[d] EXCEPT !.after = @ \ {c}]]
Answered(c, record) ==
    /\ command' = [Opened(c) EXCEPT ![c] = record]
    /\ tail' = IF tail = c THEN NoCommand ELSE tail
    /\ orphaned' = (orphaned \/ (tail = c /\ \E d \in Commands \ {c} : command[d].pc \in Running \cup {"queued"}))
Done(c) == Answered(c, NewCommand)

\* Behind the last call of the queue, and so behind all it waits for; the gate of
\* a gesture that queues again has been opened.
Queued(c, record) == [record EXCEPT !.pc = "queued", !.after =
                        IF tail \in {c, NoCommand} THEN {} ELSE (command[tail].after \cup {tail}) \ {c}]

\* The promises that make the lane refuse further calls: a detachment, what
\* Chrome has not answered, the last task that outlived its call.
Lifecycle == {d \in Detachers : detacher[d].pc = "detaching"}
                \cup {c \in Commands : command[c].pc \in {"lateAttach", "lateSend"}}

\* Control of the tab is checked here, before the call waits for anything.
Call(c, s, kind) ==
    /\ command[c].pc = "new" /\ s = owner
    /\ kind # "cdp" \/ attached # NoSession
    /\ command' = [command EXCEPT ![c] = Queued(c, [NewCommand EXCEPT !.session = s, !.kind = kind])]
    /\ tail' = c
    /\ UNCHANGED <<owner, attached, debugger, current, quarantined, orphaned, detacher, events>>

\* The deadline passes in the queue: the call is answered, never to be started.
ExpireQueued(c) ==
    /\ command[c].pc = "queued"
    /\ Done(c)
    /\ UNCHANGED <<owner, attached, debugger, current, quarantined, detacher, events>>

Begins(c) == Move(c, IF command[c].kind = "cdp" THEN "sending" ELSE "preflight") /\ UNCHANGED <<tail, orphaned>>
Enter_Unchecked(c) ==
    /\ command[c].pc = "queued" /\ command[c].after = {}
    /\ Begins(c)
    /\ UNCHANGED <<owner, attached, debugger, current, quarantined, detacher, events>>
Enter(c) ==
    /\ command[c].pc = "queued" /\ command[c].after = {}
    /\ IF Lifecycle # {} \/ quarantined # NoCommand THEN Done(c) ELSE Begins(c)
    /\ UNCHANGED <<owner, attached, debugger, current, quarantined, detacher, events>>

\* A gesture whose attachment is made queues again, for its own steps.
AttachDone(c) ==
    IF command[c].kind = "gesture"
    THEN /\ command' = [Opened(c) EXCEPT ![c] = Queued(c, [command[c] EXCEPT !.kind = "cdp"])]
         /\ tail' = c /\ UNCHANGED orphaned
    ELSE Done(c)

\* getTab has answered: the tab is attached already, or Chrome is asked to.
Preflight(c) ==
    /\ command[c].pc = "preflight"
    /\ \/ attached # NoSession /\ AttachDone(c) /\ UNCHANGED current
       \/ /\ attached = NoSession
          /\ Move(c, "attaching") /\ current' = current \cup {c}
          /\ UNCHANGED <<tail, orphaned>>
    /\ UNCHANGED <<owner, attached, debugger, quarantined, detacher, events>>

\* Chrome answers; another debugger may hold the tab.  An attachment that comes
\* after its deadline or after the tab has changed is detached again at once;
\* only a current one is recorded.
DebuggerAttached(c) ==
    /\ command[c].pc = "attaching"
    /\ \/ Done(c) /\ current' = current \ {c} /\ UNCHANGED <<debugger, attached>>
       \/ /\ c \in current /\ ~debugger /\ UNCHANGED current
          /\ debugger' = TRUE /\ attached' = command[c].session
          /\ Move(c, "setup") /\ UNCHANGED <<tail, orphaned>>
    /\ UNCHANGED <<owner, quarantined, detacher, events>>

LateAttachment(c) ==
    /\ command[c].pc = "lateAttach" /\ Done(c)
    /\ UNCHANGED <<owner, attached, debugger, current, quarantined, detacher, events>>

\* Interception and frames are set up; a failure takes the attachment back,
\* unless a native dialog keeps it for its own recovery.
Setup(c) ==
    /\ command[c].pc = "setup"
    /\ \/ debugger /\ c \in current /\ AttachDone(c) /\ UNCHANGED attached
       \/ Done(c) /\ UNCHANGED attached
       \/ /\ attached' = NoSession
          /\ Move(c, "cleanup") /\ UNCHANGED <<tail, orphaned>>
    /\ current' = current \ {c}
    /\ UNCHANGED <<owner, debugger, quarantined, detacher, events>>

\* A setup that ran out of time has changed the tab.
Cleanup(c) ==
    /\ command[c].pc \in {"cleanup", "lateCleanup"}
    /\ debugger' = FALSE /\ Done(c)
    /\ quarantined' = IF quarantined = c THEN NoCommand ELSE quarantined
    /\ current' \in {current, {}}
    /\ UNCHANGED <<owner, attached, detacher, events>>

\* Chrome answers a command, with an error if there is no debugger.
Send(c) ==
    /\ command[c].pc \in {"sending", "lateSend"}
    /\ Done(c)
    /\ quarantined' = IF quarantined = c THEN NoCommand ELSE quarantined
    /\ UNCHANGED <<owner, attached, debugger, current, detacher, events>>

Late == [attaching |-> "lateAttach", cleanup |-> "lateCleanup", sending |-> "lateSend"]

\* The deadline of a call that has begun: it is answered, those behind it may
\* begin, and what it started is kept in quarantine until it ends.  The steps of
\* an attachment end a little before, and with them its task.
Timeout(c) ==
    /\ \/ command[c].pc = "preflight" /\ Done(c) /\ UNCHANGED quarantined
       \/ /\ command[c].pc \in DOMAIN Late
          /\ Answered(c, [command[c] EXCEPT !.pc = Late[command[c].pc]])
          /\ quarantined' = IF command[c].pc = "attaching" THEN quarantined ELSE c
    /\ current' = {}
    /\ UNCHANGED <<owner, attached, debugger, detacher, events>>

-----------------------------------------------------------------------------
\* detach is open to every caller; releaseTab only to the owner.
Detach(d, releases) ==
    /\ detacher[d].pc = "new"
    /\ releases => owner # NoSession
    /\ current' = {d}
    /\ detacher' = [detacher EXCEPT ![d] =
                      [pc |-> IF attached = NoSession THEN "released" ELSE "detaching",
                       session |-> IF releases THEN owner ELSE NoSession]]
    /\ UNCHANGED <<owner, attached, debugger, tail, quarantined, orphaned, command, events>>

\* Chrome has answered.  Only the latest change of the tab may forget the
\* attachment; a debugger that was already gone is an error for the caller.
Detached(d) ==
    /\ detacher[d].pc = "detaching"
    /\ debugger' = FALSE
    /\ attached' = IF debugger /\ d \in current THEN NoSession ELSE attached
    /\ detacher' = [detacher EXCEPT ![d].pc = IF debugger THEN "released" ELSE "failed"]
    /\ UNCHANGED <<owner, current, tail, quarantined, orphaned, command, events>>

Untrack(d) ==
    /\ detacher[d].pc = "released"
    /\ owner' = IF owner = detacher[d].session THEN NoSession ELSE owner
    /\ detacher' = [detacher EXCEPT ![d].pc = "done"]
    /\ UNCHANGED <<attached, debugger, current, tail, quarantined, orphaned, command, events>>

Claim(s) ==
    /\ owner = NoSession /\ events < MaxEvents
    /\ owner' = s /\ events' = events + 1
    /\ UNCHANGED <<attached, debugger, current, tail, quarantined, orphaned, command, detacher>>

\* The user dismisses the debugger: onDetach.
Cancelled ==
    /\ debugger /\ events < MaxEvents
    /\ debugger' = FALSE /\ attached' = NoSession
    /\ current' = {} /\ events' = events + 1
    /\ UNCHANGED <<owner, tail, quarantined, orphaned, command, detacher>>

Progress(c) == Enter(c) \/ Preflight(c) \/ DebuggerAttached(c) \/ LateAttachment(c) \/ Setup(c) \/ Cleanup(c) \/ Send(c)

TabNext ==
    \/ \E c \in Commands : \/ \E s \in Sessions, kind \in {"attach", "cdp", "gesture"} : Call(c, s, kind)
                           \/ ExpireQueued(c) \/ Progress(c) \/ Timeout(c)
    \/ \E d \in Detachers : (\E releases \in BOOLEAN : Detach(d, releases)) \/ Detached(d) \/ Untrack(d)
    \/ \E s \in Sessions : Claim(s)
    \/ Cancelled

TabSpec == TabInit /\ [][TabNext]_tabVars

-----------------------------------------------------------------------------
TabTypeOK ==
    /\ {owner, attached} \subseteq Sessions \cup {NoSession}
    /\ {tail, quarantined} \subseteq Commands \cup {NoCommand}
    /\ {debugger, orphaned} \subseteq BOOLEAN
    /\ current \subseteq Commands \cup Detachers
    /\ \A c \in Commands : command[c].session \in Sessions \cup {NoSession} /\ command[c].after \subseteq Commands

\* At most one call's work is under way in the tab, counting the work of calls
\* that were answered at their deadline.  Not so: a call that expires as the last
\* of the queue gives the queue up under those that are before it.
OneAtATime == Cardinality({c \in Commands : command[c].pc \in Running \cup {"lateAttach", "lateCleanup", "lateSend"}}) <= 1

\* Nothing else lets two calls work in the tab at a time.
ApartUnlessOrphaned == orphaned \/ OneAtATime

\* When nothing is under way, a debugger Chrome holds is one the extension knows.
Quiet == /\ \A c \in Commands : command[c].pc \in {"new", "queued"}
         /\ \A d \in Detachers : detacher[d].pc # "detaching"
DebuggerIsKnown == Quiet /\ debugger => attached # NoSession
KnownIsAttached == Quiet /\ attached # NoSession => debugger

\* A tab is attached for the session that controls it.
AttachedToOwner == Quiet /\ attached # NoSession /\ debugger => attached = owner
NoForeignCommand == \A c \in Commands : command[c].pc = "sending" /\ debugger => command[c].session = owner
=============================================================================
