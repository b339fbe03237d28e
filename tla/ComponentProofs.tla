-------------------------- MODULE ComponentProofs --------------------------
(***************************************************************************)
(* Proofs about the components that MCComponents checks side by side: for  *)
(* each, its inductive invariant, and the property that follows from it,   *)
(* for every value of the constants.                                       *)
(***************************************************************************)
EXTENDS RunSteps, TabCommands, Uploads, Decisions,
        DebuggerSession, TabEnvironment, TabCreation, FirefoxSession, CursorMoves,
        PageInput, PageTargets, SemanticModels, HostStatus, BrowserMarketplace,
        FiniteSetTheorems, SequenceTheorems, WellFoundedInduction, TLAPS

-----------------------------------------------------------------------------
(***************************************************************************)
(* The tab.  As long as the queue was not given up, the calls that are not *)
(* answered wait for each other in one order, of which tail is the last,   *)
(* and the first alone works.                                              *)
(***************************************************************************)
Labels == {"new", "queued", "lateAttach", "lateCleanup", "lateSend"} \cup Running
Record == [pc : Labels, session : Sessions \cup {NoSession},
           kind : {"none", "attach", "cdp", "gesture"}, after : SUBSET Commands]

LaneTypeOK ==
    /\ command \in [Commands -> Record]
    /\ tail \in Commands \cup {NoCommand} /\ quarantined \in Commands \cup {NoCommand}
    /\ orphaned \in BOOLEAN

Unanswered == {"queued"} \cup Running
Working == Running \cup {"lateAttach", "lateCleanup", "lateSend"}

\* Two calls of the queue wait one for the other, all for none after themselves, and the
\* last for all others.  A call that works waits for none.
InLine ==
    /\ \A c, d \in Commands : c # d /\ {command[c].pc, command[d].pc} \subseteq Unanswered
          => c \in command[d].after \/ d \in command[c].after
    /\ \A c \in Commands : command[c].pc \in Unanswered =>
          /\ tail \in Commands /\ command[tail].pc \in Unanswered
          /\ c # tail => c \in command[tail].after

\* What outlived its call is alone in the tab, and keeps others out of it.
Alone ==
    /\ \A c, d \in Commands : {command[c].pc, command[d].pc} \subseteq Working => c = d
    /\ \A c \in Commands : command[c].pc = "lateCleanup" => quarantined = c

LaneInv ==
    /\ LaneTypeOK
    /\ \A c \in Commands : c \notin command[c].after
    /\ \A c \in Commands : command[c].pc \in Running => command[c].after = {}
    /\ ~orphaned => InLine /\ Alone

\* A call is answered, with or without work that goes on.
LEMMA AnsweredInv ==
  ASSUME LaneInv, NEW c \in Commands, NEW rec \in Record, Answered(c, rec),
         rec.pc \in {"new", "lateAttach", "lateCleanup", "lateSend"}, rec.after = {},
         rec.pc # "new" => command[c].pc \in Running,
         rec.pc = "lateCleanup" => quarantined' = c,
         \/ quarantined' = quarantined
         \/ quarantined = c /\ quarantined' = NoCommand
         \/ quarantined' = c /\ command[c].pc \in Running
  PROVE  LaneInv'
<1> USE TabAssumption
<1>1. /\ command \in [Commands -> Record] /\ tail \in Commands \cup {NoCommand}
      /\ quarantined \in Commands \cup {NoCommand} /\ orphaned \in BOOLEAN
  BY DEF LaneInv, LaneTypeOK
<1>2. /\ command'[c] = rec
      /\ \A d \in Commands \ {c} : command'[d] = [command[d] EXCEPT !.after = @ \ {c}]
      /\ command' = [d \in Commands |-> command'[d]]
  BY DEF Answered, Opened
<1>3. /\ tail' = IF tail = c THEN NoCommand ELSE tail
      /\ orphaned' = (orphaned \/ (tail = c /\ \E d \in Commands \ {c} : command[d].pc \in Running \cup {"queued"}))
  BY DEF Answered
<1>4. \A d \in Commands \ {c} : /\ command'[d] \in Record
                                /\ command'[d].pc = command[d].pc
                                /\ command'[d].after = command[d].after \ {c}
  BY <1>1, <1>2 DEF Record
<1>5. LaneTypeOK'
  <2>1. command' \in [Commands -> Record]
    BY <1>2, <1>4
  <2>2. tail' \in Commands \cup {NoCommand} /\ quarantined' \in Commands \cup {NoCommand}
    BY <1>1, <1>3
  <2>3. orphaned' \in BOOLEAN
    BY <1>1, <1>3
  <2> QED BY <2>1, <2>2, <2>3 DEF LaneTypeOK
<1>6. /\ \A d \in Commands : d \notin command'[d].after
      /\ \A d \in Commands : command'[d].pc \in Running => command'[d].after = {}
  BY <1>2, <1>4 DEF LaneInv
<1>7. ASSUME ~orphaned' PROVE InLine' /\ Alone'
  <2>1. /\ InLine /\ Alone
        /\ tail = c => \A d \in Commands \ {c} : command[d].pc \notin Unanswered
    BY <1>1, <1>3, <1>7 DEF LaneInv, Unanswered
  <2>2. command'[c].pc \notin Unanswered
    BY <1>2 DEF Unanswered, Running
  <2>3. InLine'
    <3>1. ASSUME NEW a \in Commands, NEW d \in Commands, a # d,
                 {command'[a].pc, command'[d].pc} \subseteq Unanswered
          PROVE  a \in command'[d].after \/ d \in command'[a].after
      <4>1. a # c /\ d # c
        BY <2>2, <3>1
      <4>2. a \in command[d].after \/ d \in command[a].after
        BY <1>4, <2>1, <3>1, <4>1 DEF InLine
      <4> QED BY <1>4, <4>1, <4>2
    <3>2. ASSUME NEW d \in Commands, command'[d].pc \in Unanswered
          PROVE  /\ tail' \in Commands /\ command'[tail'].pc \in Unanswered
                 /\ d # tail' => d \in command'[tail'].after
      <4>1. d # c /\ command[d].pc \in Unanswered
        BY <1>4, <2>2, <3>2
      <4>2. tail \in Commands /\ command[tail].pc \in Unanswered /\ (d # tail => d \in command[tail].after)
        BY <2>1, <4>1 DEF InLine
      <4>3. tail # c /\ tail' = tail
        BY <1>3, <2>1, <4>1
      <4> QED BY <1>4, <4>1, <4>2, <4>3
    <3> QED BY <3>1, <3>2 DEF InLine
  <2>4. \A d \in Commands : command'[d].pc \in Working => command[d].pc \in Working
    BY <1>2, <1>4 DEF Working, Running
  <2>5. \A d \in Commands : command'[d].pc = "lateCleanup" => quarantined' = d
    <3> SUFFICES ASSUME NEW d \in Commands, d # c, command'[d].pc = "lateCleanup"
                 PROVE  quarantined' = d
      BY <1>2
    <3>1. command[d].pc = "lateCleanup" /\ quarantined = d
      BY <1>4, <2>1 DEF Alone
    <3>2. command[c].pc \notin Running
      BY <2>1, <3>1 DEF Alone, Working
    <3> QED BY <3>1, <3>2
  <2> QED BY <2>1, <2>3, <2>4, <2>5 DEF Alone
<1> QED BY <1>5, <1>6, <1>7 DEF LaneInv

\* The first of the queue begins, or goes on.
LEMMA MovedInv ==
  ASSUME LaneInv, NEW c \in Commands, NEW pc \in Running, Move(c, pc), UNCHANGED <<tail, orphaned, quarantined>>,
         command[c].pc \in Unanswered, command[c].after = {},
         ~orphaned => \A d \in Commands \ {c} : command[d].pc \notin Working
  PROVE  LaneInv'
<1> USE TabAssumption
<1>1. command \in [Commands -> Record] /\ command' = [command EXCEPT ![c].pc = pc]
  BY DEF LaneInv, LaneTypeOK, Move
<1>2. /\ \A d \in Commands : command'[d].after = command[d].after
      /\ \A d \in Commands \ {c} : command'[d] = command[d]
      /\ command'[c].pc = pc /\ command'[c] \in Record /\ command' \in [Commands -> Record]
  BY <1>1 DEF Record, Labels
<1>3. \A d \in Commands : command'[d].pc \in Unanswered <=> command[d].pc \in Unanswered
  BY <1>2 DEF Unanswered
<1>4. LaneTypeOK'
  BY <1>2 DEF LaneInv, LaneTypeOK
<1>5. ASSUME ~orphaned PROVE InLine' /\ Alone'
  <2>1. InLine /\ Alone /\ \A d \in Commands \ {c} : command'[d].pc \notin Working
    BY <1>2, <1>5 DEF LaneInv
  <2>2. InLine'
    BY <1>2, <1>3, <2>1 DEF InLine
  <2>3. Alone'
    BY <1>2, <2>1 DEF Alone, Running
  <2> QED BY <2>2, <2>3
<1> QED BY <1>2, <1>4, <1>5 DEF LaneInv

\* A call takes its place at the end of the queue, for the first time or again.
LEMMA QueuedInv ==
  ASSUME LaneInv, NEW c \in Commands, NEW rec \in Record, NEW others,
         others \in {command, Opened(c)}, command' = [others EXCEPT ![c] = Queued(c, rec)],
         tail' = c, UNCHANGED <<orphaned, quarantined>>, command[c].pc \in {"new"} \cup Running
  PROVE  LaneInv'
<1> USE TabAssumption
<1>1. /\ command \in [Commands -> Record] /\ tail \in Commands \cup {NoCommand}
  BY DEF LaneInv, LaneTypeOK
<1>2. \A d \in Commands \ {c} : /\ command'[d] \in Record /\ command'[d].pc = command[d].pc
                                /\ command'[d].after \subseteq command[d].after
                                /\ command[d].after \ {c} \subseteq command'[d].after
  <2>1. CASE others = command
    BY <1>1, <2>1
  <2>2. CASE others = Opened(c)
    BY <1>1, <2>2 DEF Opened, Record
  <2> QED BY <2>1, <2>2
<1> DEFINE before == IF tail \in {c, NoCommand} THEN {} ELSE (command[tail].after \cup {tail}) \ {c}
<1>3. before \subseteq Commands /\ c \notin before
  BY <1>1 DEF Record
<1>4. Queued(c, rec) = [rec EXCEPT !.pc = "queued", !.after = before]
  BY DEF Queued
<1> HIDE DEF before
<1>5. /\ command'[c] = Queued(c, rec) /\ DOMAIN command' = Commands
      /\ command' = [d \in Commands |-> command'[d]]
  BY <1>1 DEF Opened
<1>6. command'[c] \in Record /\ command'[c].pc = "queued" /\ command'[c].after = before
  BY <1>3, <1>4, <1>5 DEF Record, Labels
<1>7. LaneTypeOK'
  <2>1. command' \in [Commands -> Record]
    BY <1>2, <1>5, <1>6
  <2> QED BY <2>1 DEF LaneInv, LaneTypeOK
<1>8. /\ \A d \in Commands : d \notin command'[d].after
      /\ \A d \in Commands : command'[d].pc \in Running => command'[d].after = {}
  BY <1>2, <1>3, <1>6 DEF LaneInv, Running
<1>9. ASSUME ~orphaned PROVE InLine' /\ Alone'
  <2>1. InLine /\ Alone
    BY <1>9 DEF LaneInv
  <2>2. ASSUME NEW d \in Commands \ {c}, command'[d].pc \in Unanswered PROVE d \in before
    <3>1. command[d].pc \in Unanswered
      BY <1>2, <2>2
    <3>2. tail \in Commands /\ command[tail].pc \in Unanswered /\ (d # tail => d \in command[tail].after)
      BY <2>1, <3>1 DEF InLine
    <3>3. tail # c
      <4> SUFFICES ASSUME tail = c PROVE FALSE
        OBVIOUS
      <4>1. command[c].pc \in Running
        BY <3>2 DEF Unanswered, Running
      <4>2. command[c].after = {}
        BY <4>1 DEF LaneInv
      <4> QED BY <3>2, <4>2
    <3> QED BY <3>2, <3>3 DEF before
  <2>3. InLine'
    <3>1. ASSUME NEW a \in Commands, NEW d \in Commands, a # d,
                 {command'[a].pc, command'[d].pc} \subseteq Unanswered
          PROVE  a \in command'[d].after \/ d \in command'[a].after
      <4>1. CASE a = c \/ d = c
        BY <1>6, <2>2, <3>1, <4>1
      <4>2. CASE a # c /\ d # c
        <5>1. a \in command[d].after \/ d \in command[a].after
          BY <1>2, <2>1, <3>1, <4>2 DEF InLine
        <5> QED BY <1>2, <4>2, <5>1
      <4> QED BY <4>1, <4>2
    <3>2. \A d \in Commands : command'[d].pc \in Unanswered =>
             /\ tail' \in Commands /\ command'[tail'].pc \in Unanswered
             /\ d # tail' => d \in command'[tail'].after
      BY <1>6, <2>2 DEF Unanswered
    <3> QED BY <3>1, <3>2 DEF InLine
  <2>4. Alone'
    BY <1>2, <1>6, <2>1 DEF Alone, Working, Running
  <2> QED BY <2>3, <2>4
<1> QED BY <1>7, <1>8, <1>9 DEF LaneInv

\* Only the call that works is in the tab, so it may go on.
LEMMA GoesOnInv ==
  ASSUME LaneInv, NEW c \in Commands, NEW pc \in Running, Move(c, pc), UNCHANGED <<tail, orphaned, quarantined>>,
         command[c].pc \in Running
  PROVE  LaneInv'
<1> USE TabAssumption
<1>1. ~orphaned => \A d \in Commands \ {c} : command[d].pc \notin Working
  BY DEF LaneInv, Alone, Working
<1>2. command[c].pc \in Unanswered /\ command[c].after = {}
  BY DEF LaneInv, Unanswered
<1> QED BY <1>1, <1>2, MovedInv

LEMMA DoneInv ==
  ASSUME LaneInv, NEW c \in Commands, Done(c),
         \/ quarantined' = quarantined
         \/ quarantined = c /\ quarantined' = NoCommand
  PROVE  LaneInv'
<1> USE TabAssumption
<1>1. NewCommand \in Record /\ NewCommand.pc = "new" /\ NewCommand.after = {}
  BY DEF NewCommand, Record, Labels
<1> QED BY <1>1, AnsweredInv DEF Done

LEMMA AttachDoneInv ==
  ASSUME LaneInv, NEW c \in Commands, AttachDone(c), UNCHANGED quarantined,
         command[c].pc \in Running
  PROVE  LaneInv'
<1> USE TabAssumption
<1>1. CASE command[c].kind = "gesture"
  <2>1. /\ command' = [Opened(c) EXCEPT ![c] = Queued(c, [command[c] EXCEPT !.kind = "cdp"])]
        /\ tail' = c /\ UNCHANGED orphaned
    BY <1>1 DEF AttachDone
  <2>2. [command[c] EXCEPT !.kind = "cdp"] \in Record
    BY DEF LaneInv, LaneTypeOK, Record
  <2> QED BY <2>1, <2>2, QueuedInv
<1>2. CASE command[c].kind # "gesture"
  BY <1>2, DoneInv DEF AttachDone
<1> QED BY <1>1, <1>2

\* Only the first of the queue begins, and only in a tab that nobody works in.
LEMMA EnterInv ==
  ASSUME LaneInv, NEW c \in Commands, Enter(c)
  PROVE  LaneInv'
<1> USE TabAssumption
<1>1. command[c].pc = "queued" /\ command[c].after = {} /\ UNCHANGED quarantined
  BY DEF Enter
<1>2. CASE Done(c)
  BY <1>1, <1>2, DoneInv
<1>3. CASE Begins(c) /\ Lifecycle = {} /\ quarantined = NoCommand
  <2>1. PICK pc \in Running : Move(c, pc)
    BY <1>3 DEF Begins, Running
  <2>2. ASSUME ~orphaned, NEW d \in Commands \ {c} PROVE command[d].pc \notin Working
    <3>1. InLine /\ Alone
      BY <2>2 DEF LaneInv
    <3>2. command[d].pc \notin {"lateAttach", "lateSend"}
      BY <1>3 DEF Lifecycle
    <3>3. command[d].pc # "lateCleanup"
      BY <1>3, <3>1 DEF Alone
    <3>4. command[d].pc \notin Running
      <4> SUFFICES ASSUME command[d].pc \in Running PROVE FALSE
        OBVIOUS
      <4>1. command[d].after = {} /\ {command[c].pc, command[d].pc} \subseteq Unanswered
        BY <1>1 DEF LaneInv, Unanswered
      <4> QED BY <1>1, <3>1, <4>1 DEF InLine
    <3> QED BY <3>2, <3>3, <3>4 DEF Working
  <2>3. UNCHANGED <<tail, orphaned, quarantined>> /\ command[c].pc \in Unanswered
    BY <1>1, <1>3 DEF Begins, Unanswered
  <2> QED BY <1>1, <2>1, <2>2, <2>3, MovedInv
<1> QED BY <1>2, <1>3 DEF Enter

LEMMA TimeoutInv ==
  ASSUME LaneInv, NEW c \in Commands, Timeout(c)
  PROVE  LaneInv'
<1> USE TabAssumption
<1>1. CASE command[c].pc = "preflight" /\ Done(c) /\ UNCHANGED quarantined
  BY <1>1, DoneInv
<1>2. CASE /\ command[c].pc \in DOMAIN Late
           /\ Answered(c, [command[c] EXCEPT !.pc = Late[command[c].pc]])
           /\ quarantined' = IF command[c].pc = "attaching" THEN quarantined ELSE c
  <2> DEFINE rec == [command[c] EXCEPT !.pc = Late[command[c].pc]]
  <2>1. /\ command[c].pc \in {"attaching", "cleanup", "sending"}
        /\ Late["attaching"] = "lateAttach" /\ Late["cleanup"] = "lateCleanup" /\ Late["sending"] = "lateSend"
    BY <1>2 DEF Late
  <2>2. command[c] \in Record /\ command[c].pc \in Running /\ command[c].after = {}
    BY <2>1 DEF LaneInv, LaneTypeOK, Running
  <2>3. /\ rec \in Record /\ rec.after = {}
        /\ rec.pc \in {"lateAttach", "lateCleanup", "lateSend"}
        /\ rec.pc = "lateCleanup" => command[c].pc # "attaching"
    BY <2>1, <2>2 DEF Record, Labels
  <2>4. Answered(c, rec)
    BY <1>2
  <2> HIDE DEF rec
  <2> QED BY <1>2, <2>2, <2>3, <2>4, AnsweredInv
<1> QED BY <1>1, <1>2 DEF Timeout

LEMMA LaneStep == LaneInv /\ [TabNext]_tabVars => LaneInv'
<1> USE TabAssumption
<1> SUFFICES ASSUME LaneInv, [TabNext]_tabVars PROVE LaneInv'
  OBVIOUS
<1>1. ASSUME NEW c \in Commands, NEW s \in Sessions, NEW kind \in {"attach", "cdp", "gesture"}, Call(c, s, kind)
      PROVE  LaneInv'
  <2> DEFINE rec == [NewCommand EXCEPT !.session = s, !.kind = kind]
  <2>1. rec \in Record
    BY DEF NewCommand, Record, Labels
  <2>2. /\ command' = [command EXCEPT ![c] = Queued(c, rec)] /\ tail' = c
        /\ UNCHANGED <<orphaned, quarantined>> /\ command[c].pc = "new"
    BY <1>1 DEF Call
  <2> HIDE DEF rec
  <2> QED BY <2>1, <2>2, QueuedInv
<1>2. ASSUME NEW c \in Commands, ExpireQueued(c) \/ LateAttachment(c) \/ Cleanup(c) \/ Send(c) PROVE LaneInv'
  <2>1. /\ Done(c)
        /\ quarantined' = quarantined \/ (quarantined = c /\ quarantined' = NoCommand)
    BY <1>2 DEF ExpireQueued, LateAttachment, Cleanup, Send
  <2> QED BY <2>1, DoneInv
<1>3. ASSUME NEW c \in Commands, Preflight(c) PROVE LaneInv'
  <2>1. command[c].pc \in Running /\ UNCHANGED quarantined
    BY <1>3 DEF Preflight, Running
  <2>2. CASE AttachDone(c)
    BY <2>1, <2>2, AttachDoneInv
  <2>3. CASE Move(c, "attaching") /\ UNCHANGED <<tail, orphaned>>
    BY <2>1, <2>3, GoesOnInv DEF Running
  <2> QED BY <1>3, <2>2, <2>3 DEF Preflight
<1>4. ASSUME NEW c \in Commands, DebuggerAttached(c) PROVE LaneInv'
  <2>1. command[c].pc \in Running /\ UNCHANGED quarantined
    BY <1>4 DEF DebuggerAttached, Running
  <2>2. CASE Done(c)
    BY <2>1, <2>2, DoneInv
  <2>3. CASE Move(c, "setup") /\ UNCHANGED <<tail, orphaned>>
    BY <2>1, <2>3, GoesOnInv DEF Running
  <2> QED BY <1>4, <2>2, <2>3 DEF DebuggerAttached
<1>5. ASSUME NEW c \in Commands, Setup(c) PROVE LaneInv'
  <2>1. command[c].pc \in Running /\ UNCHANGED quarantined
    BY <1>5 DEF Setup, Running
  <2>2. CASE AttachDone(c)
    BY <2>1, <2>2, AttachDoneInv
  <2>3. CASE Done(c)
    BY <2>1, <2>3, DoneInv
  <2>4. CASE Move(c, "cleanup") /\ UNCHANGED <<tail, orphaned>>
    BY <2>1, <2>4, GoesOnInv DEF Running
  <2> QED BY <1>5, <2>2, <2>3, <2>4 DEF Setup
<1>6. ASSUME UNCHANGED <<command, tail, quarantined, orphaned>> PROVE LaneInv'
  BY <1>6 DEF LaneInv, LaneTypeOK, InLine, Alone
<1>7. ASSUME NEW d \in Detachers, NEW releases \in BOOLEAN, Detach(d, releases) PROVE LaneInv'
  BY <1>6, <1>7 DEF Detach
<1>8. ASSUME NEW d \in Detachers, Detached(d) \/ Untrack(d) PROVE LaneInv'
  BY <1>6, <1>8 DEF Detached, Untrack
<1>9. ASSUME NEW s \in Sessions, Claim(s) PROVE LaneInv'
  BY <1>6, <1>9 DEF Claim
<1>10. CASE Cancelled \/ UNCHANGED tabVars
  BY <1>6, <1>10 DEF Cancelled, tabVars
<1> QED BY <1>1, <1>2, <1>3, <1>4, <1>5, <1>7, <1>8, <1>9, <1>10, EnterInv, TimeoutInv DEF TabNext, Progress

LEMMA LaneInit == TabInit => LaneInv
<1> SUFFICES ASSUME TabInit PROVE LaneInv
  OBVIOUS
<1>1. \A c \in Commands : command[c] = NewCommand
  BY DEF TabInit
<1>2. NewCommand \in Record /\ NewCommand.pc = "new" /\ NewCommand.after = {}
  BY DEF NewCommand, Record, Labels
<1>3. LaneTypeOK
  BY <1>2 DEF TabInit, LaneTypeOK
<1>4. InLine /\ Alone
  BY <1>1, <1>2 DEF InLine, Alone, Unanswered, Working, Running
<1> QED BY <1>1, <1>2, <1>3, <1>4 DEF LaneInv

\* The lane keeps the commands of a tab apart (command-health.ts), however many calls
\* queue, expire, outlive their deadline or queue again, until a call gives the queue
\* up by expiring as its last.
THEOREM ApartTheorem == TabSpec => []ApartUnlessOrphaned
<1>1. LaneInv => ApartUnlessOrphaned
  <2> SUFFICES ASSUME LaneInv, ~orphaned PROVE OneAtATime
    BY DEF ApartUnlessOrphaned
  <2> DEFINE Busy == {c \in Commands : command[c].pc \in Working}
  <2>1. \A c, d \in Busy : c = d
    BY DEF LaneInv, Alone
  <2>2. CASE Busy = {}
    BY <2>2, FS_EmptySet DEF OneAtATime, Working
  <2>3. CASE Busy # {}
    <3>1. PICK c : Busy = {c}
      BY <2>1, <2>3
    <3>2. Cardinality(Busy) = 1
      BY <3>1, FS_Singleton
    <3> QED BY <3>2 DEF OneAtATime, Working
  <2> QED BY <2>2, <2>3
<1>2. LaneInv /\ [TabNext]_tabVars => LaneInv'
  BY LaneStep
<1> QED BY <1>1, <1>2, LaneInit, PTL DEF TabSpec

(***************************************************************************)
(* A debugger that the extension does not know is being detached: by the   *)
(* call whose attachment failed, late or not, or by a detachment.          *)
(***************************************************************************)
BeingDetached ==
    \/ \E c \in Commands : command[c].pc \in {"cleanup", "lateCleanup"}
    \/ \E d \in Detachers : detacher[d].pc = "detaching"

DebuggerInv ==
    /\ owner \in Sessions \cup {NoSession}
    /\ detacher \in [Detachers -> [pc : {"new", "detaching", "released", "failed", "done"},
                                   session : Sessions \cup {NoSession}]]
    /\ \A c \in Commands : command[c].pc # "new" => command[c].session \in Sessions
    /\ debugger /\ attached = NoSession => BeingDetached

\* The other calls keep their places, and the call is for whom it was.
Keeps(c) ==
    /\ \A d \in Commands \ {c} : command'[d].pc = command[d].pc /\ command'[d].session = command[d].session
    /\ command'[c].pc # "new" => command'[c].session = command[c].session

LEMMA DoneKeeps ==
  ASSUME LaneInv, NEW c \in Commands, Done(c)
  PROVE  Keeps(c) /\ command'[c].pc = "new"
<1>1. command \in [Commands -> Record]
  BY DEF LaneInv, LaneTypeOK
<1>2. /\ command'[c] = NewCommand
      /\ \A d \in Commands \ {c} : command'[d] = [command[d] EXCEPT !.after = @ \ {c}]
  BY DEF Done, Answered, Opened
<1>3. \A d \in Commands \ {c} : command'[d].pc = command[d].pc /\ command'[d].session = command[d].session
  BY <1>1, <1>2, Zenon DEF Record
<1>4. command'[c].pc = "new"
  BY <1>2 DEF NewCommand
<1> QED BY <1>3, <1>4 DEF Keeps

LEMMA MoveKeeps ==
  ASSUME LaneInv, NEW c \in Commands, NEW pc, Move(c, pc)
  PROVE  Keeps(c) /\ command'[c].pc = pc
BY DEF LaneInv, LaneTypeOK, Keeps, Move, Record

LEMMA AttachDoneKeeps ==
  ASSUME LaneInv, NEW c \in Commands, AttachDone(c)
  PROVE  Keeps(c)
<1>1. command \in [Commands -> Record]
  BY DEF LaneInv, LaneTypeOK
<1>2. CASE command[c].kind = "gesture"
  <2> DEFINE rec == Queued(c, [command[c] EXCEPT !.kind = "cdp"])
  <2>1. rec.session = command[c].session
    BY <1>1 DEF Queued, Record
  <2>2. command' = [Opened(c) EXCEPT ![c] = rec]
    BY <1>2 DEF AttachDone
  <2> HIDE DEF rec
  <2>3. /\ command'[c] = rec
        /\ \A d \in Commands \ {c} : command'[d] = [command[d] EXCEPT !.after = @ \ {c}]
    BY <2>2 DEF Opened
  <2> QED BY <1>1, <2>1, <2>3, Zenon DEF Keeps, Record
<1>3. CASE command[c].kind # "gesture"
  BY <1>3, DoneKeeps DEF AttachDone
<1> QED BY <1>2, <1>3

\* A call that is not for a new session, and after which a debugger is unknown only
\* if it was before or the call detaches it.
LEMMA CallKeepsDebuggerInv ==
  ASSUME LaneInv, DebuggerInv, NEW c \in Commands, Keeps(c), command[c].pc # "new",
         UNCHANGED <<owner, detacher>>,
         debugger' /\ attached' = NoSession =>
            \/ command'[c].pc \in {"cleanup", "lateCleanup"}
            \/ debugger /\ attached = NoSession /\ command[c].pc \notin {"cleanup", "lateCleanup"}
  PROVE  DebuggerInv'
<1>1. \A d \in Commands : command'[d].pc # "new" => command'[d].session \in Sessions
  BY DEF DebuggerInv, Keeps
<1>2. ASSUME debugger', attached' = NoSession PROVE BeingDetached'
  <2>1. CASE command'[c].pc \in {"cleanup", "lateCleanup"}
    BY <2>1 DEF BeingDetached
  <2>2. CASE BeingDetached /\ command[c].pc \notin {"cleanup", "lateCleanup"}
    BY <2>2 DEF BeingDetached, Keeps
  <2> QED BY <1>2, <2>1, <2>2 DEF DebuggerInv
<1> QED BY <1>1, <1>2 DEF DebuggerInv

LEMMA DebuggerStep == LaneInv /\ DebuggerInv /\ [TabNext]_tabVars => DebuggerInv'
<1> USE SessionAssumption
<1> SUFFICES ASSUME LaneInv, DebuggerInv, [TabNext]_tabVars PROVE DebuggerInv'
  OBVIOUS
<1>1. ASSUME NEW c \in Commands, NEW s \in Sessions, NEW kind \in {"attach", "cdp", "gesture"}, Call(c, s, kind)
      PROVE  DebuggerInv'
  <2> DEFINE rec == Queued(c, [NewCommand EXCEPT !.session = s, !.kind = kind])
  <2>1. rec.session = s /\ rec.pc = "queued"
    BY DEF Queued, NewCommand
  <2>2. command' = [command EXCEPT ![c] = rec] /\ command[c].pc = "new" /\ command \in [Commands -> Record]
    BY <1>1 DEF Call, LaneInv, LaneTypeOK
  <2> HIDE DEF rec
  <2>3. \A d \in Commands : command'[d] = IF d = c THEN rec ELSE command[d]
    BY <2>2
  <2>4. \A d \in Commands : command'[d].pc # "new" => command'[d].session \in Sessions
    BY <2>1, <2>3 DEF DebuggerInv
  <2>5. BeingDetached => BeingDetached'
    BY <1>1, <2>2, <2>3 DEF BeingDetached, Call
  <2> QED BY <1>1, <2>4, <2>5 DEF DebuggerInv, Call
<1>2. ASSUME NEW c \in Commands, ExpireQueued(c) \/ LateAttachment(c) \/ Cleanup(c) \/ Send(c) \/ Enter(c)
      PROVE  DebuggerInv'
  <2>1. CASE Done(c)
    BY <1>2, <2>1, DoneKeeps, CallKeepsDebuggerInv DEF ExpireQueued, LateAttachment, Cleanup, Send, Enter
  <2>2. CASE Enter(c) /\ Begins(c)
    BY <2>2, MoveKeeps, CallKeepsDebuggerInv DEF Enter, Begins
  <2> QED BY <1>2, <2>1, <2>2 DEF ExpireQueued, LateAttachment, Cleanup, Send, Enter
<1>3. ASSUME NEW c \in Commands, Preflight(c) PROVE DebuggerInv'
  <2>1. command[c].pc = "preflight" /\ Keeps(c)
    BY <1>3, AttachDoneKeeps, MoveKeeps DEF Preflight
  <2> QED BY <1>3, <2>1, CallKeepsDebuggerInv DEF Preflight
<1>4. ASSUME NEW c \in Commands, DebuggerAttached(c) PROVE DebuggerInv'
  <2>1. command[c].pc = "attaching" /\ Keeps(c)
    BY <1>4, DoneKeeps, MoveKeeps DEF DebuggerAttached
  <2>2. attached' # NoSession \/ UNCHANGED <<debugger, attached>>
    BY <1>4, <2>1 DEF DebuggerAttached, DebuggerInv
  <2> QED BY <1>4, <2>1, <2>2, CallKeepsDebuggerInv DEF DebuggerAttached
<1>5. ASSUME NEW c \in Commands, Setup(c) PROVE DebuggerInv'
  <2>1. command[c].pc = "setup" /\ Keeps(c)
    BY <1>5, AttachDoneKeeps, DoneKeeps, MoveKeeps DEF Setup
  <2>2. command'[c].pc = "cleanup" \/ UNCHANGED attached
    BY <1>5, MoveKeeps DEF Setup
  <2> QED BY <1>5, <2>1, <2>2, CallKeepsDebuggerInv DEF Setup
<1>6. ASSUME NEW c \in Commands, Timeout(c) PROVE DebuggerInv'
  <2>1. CASE command[c].pc = "preflight" /\ Done(c)
    BY <1>6, <2>1, DoneKeeps, CallKeepsDebuggerInv DEF Timeout
  <2>2. CASE command[c].pc \in DOMAIN Late /\ Answered(c, [command[c] EXCEPT !.pc = Late[command[c].pc]])
    <3> DEFINE rec == [command[c] EXCEPT !.pc = Late[command[c].pc]]
    <3>1. command \in [Commands -> Record] /\ command[c].pc \in {"attaching", "cleanup", "sending"}
      BY <2>2 DEF Late, LaneInv, LaneTypeOK
    <3>2. rec.session = command[c].session /\ (command[c].pc = "cleanup" => rec.pc = "lateCleanup")
      BY <3>1 DEF Late, Record
    <3>3. command' = [Opened(c) EXCEPT ![c] = rec]
      BY <2>2 DEF Answered
    <3> HIDE DEF rec
    <3>4. /\ command'[c] = rec
          /\ \A d \in Commands \ {c} : command'[d] = [command[d] EXCEPT !.after = @ \ {c}]
      BY <3>3 DEF Opened
    <3>5. Keeps(c)
      BY <3>1, <3>2, <3>4, Zenon DEF Keeps, Record
    <3> QED BY <1>6, <3>1, <3>2, <3>4, <3>5, CallKeepsDebuggerInv DEF Timeout
  <2> QED BY <1>6, <2>1, <2>2 DEF Timeout
<1>7. ASSUME NEW d \in Detachers, NEW releases \in BOOLEAN, Detach(d, releases) PROVE DebuggerInv'
  <2>1. BeingDetached => BeingDetached'
    BY <1>7 DEF Detach, BeingDetached, DebuggerInv
  <2>2. detacher' \in [Detachers -> [pc : {"new", "detaching", "released", "failed", "done"},
                                     session : Sessions \cup {NoSession}]]
    BY <1>7 DEF Detach, DebuggerInv
  <2> QED BY <1>7, <2>1, <2>2 DEF Detach, DebuggerInv
<1>8. ASSUME NEW d \in Detachers, Detached(d) PROVE DebuggerInv'
  <2>1. /\ detacher' \in [Detachers -> [pc : {"new", "detaching", "released", "failed", "done"},
                                        session : Sessions \cup {NoSession}]]
        /\ debugger' = FALSE /\ UNCHANGED <<owner, command>>
    BY <1>8 DEF Detached, DebuggerInv
  <2> QED BY <2>1 DEF DebuggerInv
<1>9. ASSUME NEW d \in Detachers, Untrack(d) PROVE DebuggerInv'
  <2>1. /\ detacher' \in [Detachers -> [pc : {"new", "detaching", "released", "failed", "done"},
                                        session : Sessions \cup {NoSession}]]
        /\ owner' \in Sessions \cup {NoSession} /\ UNCHANGED <<debugger, attached, command>>
    BY <1>9 DEF Untrack, DebuggerInv
  <2>2. BeingDetached => BeingDetached'
    BY <1>9 DEF Untrack, BeingDetached, DebuggerInv
  <2> QED BY <2>1, <2>2 DEF DebuggerInv
<1>10. CASE (\E s \in Sessions : Claim(s)) \/ Cancelled \/ UNCHANGED tabVars
  BY <1>10 DEF Claim, Cancelled, tabVars, DebuggerInv, BeingDetached
<1> QED BY <1>1, <1>2, <1>3, <1>4, <1>5, <1>6, <1>7, <1>8, <1>9, <1>10 DEF TabNext, Progress

\* debugger-attach.ts: when nothing is under way in a tab, a debugger that Chrome holds
\* there is one the extension knows, whatever was late, failed, cancelled or detached.
THEOREM DebuggerTheorem == TabSpec => []DebuggerIsKnown
<1>1. TabInit => DebuggerInv
  BY DEF TabInit, DebuggerInv, NewCommand, NewDetacher
<1>2. DebuggerInv => DebuggerIsKnown
  BY DEF DebuggerInv, DebuggerIsKnown, BeingDetached, Quiet
<1> QED BY <1>1, <1>2, LaneInit, LaneStep, DebuggerStep, PTL DEF TabSpec

-----------------------------------------------------------------------------
(***************************************************************************)
(* The run.  A call that is under way has done what its steps before the   *)
(* one it stands at ask for, once, and doubts or reports the rest.         *)
(***************************************************************************)
Kinds == {"read", "write", "settled", "risky"}
LEMMA PlanFacts == Plans \subseteq Seq(Kinds) \ {<<>>}
BY PlanAssumption DEF Kinds

RunRecord ==
    [phase : {"idle", "prepare", "recall", "dispatch", "settle", "close"},
     plan : Plans \cup {<<>>}, token : 0..runs, mode : {"plain", "replay"}, at : Nat,
     again : BOOLEAN, failed : BOOLEAN, unverified : BOOLEAN,
     mutated : BOOLEAN, doubt : BOOLEAN,
     unsettled : SUBSET Nat, misreported : SUBSET Nat]
Approval(last) == [token : 1..last, plan : Plans, expired : BOOLEAN]
Statuses == {"none", "approval_required", "APPROVAL_TOKEN_INVALID", "failed", "memory_replay",
             "partial", "completed"}
RunTypes ==
    /\ run \in RunRecord
    /\ approvals \subseteq Approval(runs)
    /\ applied \in [DOMAIN applied -> Nat] /\ runs \in Nat
    /\ reply \in [ok : BOOLEAN, plan : Plans \cup {<<>>}, status : Statuses]

\* Where a call that is under way stands in its plan.
UnderWay ==
    /\ run.plan \in Plans /\ applied \in [DOMAIN run.plan -> Nat]
    /\ run.at \in 1..Len(run.plan) + 1
    /\ run.phase \in {"dispatch", "settle"} => run.at \in DOMAIN run.plan /\ ~run.doubt
    /\ run.phase \in {"prepare", "recall"} =>
          /\ run.at = 1 /\ run.mode = "plain" /\ run.unsettled = {} /\ run.misreported = {}
          /\ ~run.failed /\ ~run.mutated /\ ~run.doubt

\* What is still to come was not applied, unless by a replay whose condition timed
\* out, or behind an error that said otherwise.
Ahead ==
    \A i \in DOMAIN run.plan :
        i > run.at \/ (i = run.at /\ run.phase \in {"prepare", "recall", "dispatch"}) =>
            \/ applied[i] = 0 \/ i \in run.misreported
            \/ run.mode = "plain" /\ i \in run.unsettled /\ applied[i] = 1

\* A replay applies nothing twice, and what it applied makes it known that it did,
\* unless an error said otherwise.
ReplayKnows ==
    run.mode = "replay" =>
        \A i \in DOMAIN run.plan :
            /\ applied[i] <= 1 \/ i \in run.misreported
            /\ applied[i] > 0 => run.mutated \/ run.doubt \/ i \in run.unsettled \cup run.misreported
                                     \/ (i = run.at /\ run.phase = "settle")
\* As long as no step failed, every mutation up to here was applied, and nothing else.
Behind ==
    /\ \A i \in DOMAIN run.plan : applied[i] > 0 => Mutating(run.plan[i])
    /\ ~run.failed =>
          /\ \A i \in DOMAIN run.plan :
                i < run.at \/ (i = run.at /\ run.phase = "settle") =>
                    (Mutating(run.plan[i]) => applied[i] > 0)
          /\ run.phase = "close" => run.at = Len(run.plan) + 1

OneApprovalEach == \A a, b \in approvals : a.token = b.token => a = b

RunInv ==
    /\ RunTypes
    /\ run.phase # "idle" => UnderWay /\ Ahead /\ ReplayKnows /\ Behind
    /\ OneApprovalEach
    /\ RepeatedOnlyUntold /\ OkMeansApplied /\ ConsequentialOnlyApproved

\* Later, more tokens have been given out.
LEMMA ApprovalGrows ==
  ASSUME NEW a, NEW last \in Nat, a \in Approval(last)
  PROVE  a \in Approval(last + 1) /\ a.token \in 1..last /\ a.plan \in Plans
<1>1. a.token \in 1..last + 1 /\ a.plan \in Plans /\ a.expired \in BOOLEAN /\ a.token \in 1..last
  BY DEF Approval
<1>2. a = [token |-> a.token, plan |-> a.plan, expired |-> a.expired]
  BY DEF Approval
<1>3. QED
  BY <1>1, <1>2 DEF Approval

LEMMA RunInitInv == RunInit => RunInv
<1> SUFFICES ASSUME RunInit PROVE RunInv
  OBVIOUS
<1>1. run \in RunRecord /\ run.phase = "idle" /\ run.plan = <<>>
  BY DEF RunInit, Idle, RunRecord
<1>2. RunTypes
  BY <1>1 DEF RunInit, RunTypes, Untouched, NoReply, Statuses
<1>3. RepeatedOnlyUntold /\ OkMeansApplied /\ ConsequentialOnlyApproved /\ OneApprovalEach
  BY <1>1 DEF RunInit, Untouched, NoReply, RepeatedOnlyUntold, OkMeansApplied,
     ConsequentialOnlyApproved, OneApprovalEach, RequiresApproval
<1>4. QED
  BY <1>1, <1>2, <1>3 DEF RunInv

\* A call that begins has nothing behind it.
LEMMA BeginInv ==
  ASSUME RunInv, NEW plan \in Plans, NEW ticket \in 0..runs', Begin(plan, ticket),
         runs' = runs + 1, approvals' \subseteq approvals,
         RequiresApproval(plan) => ticket # 0 /\ \A a \in approvals' : a.token # ticket
  PROVE  RunInv'
<1>1. /\ run'.phase = "prepare" /\ run'.plan = plan /\ run'.token = ticket /\ run'.mode = "plain" /\ run'.at = 1
      /\ run'.unsettled = {} /\ run'.misreported = {} /\ ~run'.failed /\ ~run'.mutated /\ ~run'.doubt
      /\ run' \in RunRecord'
  BY DEF Begin, Idle, RunRecord, RunInv, RunTypes
<1>2. plan \in Seq(Kinds) /\ plan # <<>> /\ Len(plan) \in Nat /\ DOMAIN plan = 1..Len(plan)
  BY PlanFacts
<1>3. applied' = [i \in DOMAIN plan |-> 0] /\ UNCHANGED reply
  BY DEF Begin, Untouched
<1>4. RunTypes'
  <2>1. approvals' \subseteq Approval(runs')
    BY ApprovalGrows DEF RunInv, RunTypes
  <2>2. QED
    BY <1>1, <1>2, <1>3, <2>1 DEF RunInv, RunTypes
<1>5. UnderWay' /\ Ahead' /\ ReplayKnows' /\ Behind'
  BY <1>1, <1>2, <1>3 DEF UnderWay, Ahead, ReplayKnows, Behind
<1>6. RepeatedOnlyUntold' /\ OkMeansApplied' /\ ConsequentialOnlyApproved' /\ OneApprovalEach'
  BY <1>1, <1>3 DEF RepeatedOnlyUntold, OkMeansApplied, ConsequentialOnlyApproved, OneApprovalEach, RunInv
<1>7. QED
  BY <1>4, <1>5, <1>6 DEF RunInv

\* What does not touch the call, nor adds to what it may have been answered.
LEMMA BesideInv ==
  ASSUME RunInv, UNCHANGED <<run, applied>>, RunTypes', OneApprovalEach',
         UNCHANGED reply \/ ~reply'.ok,
         \A a \in approvals' : a.token > runs \/ \E b \in approvals : a.token = b.token
  PROVE  RunInv'
<1>1. run.token \in 0..runs /\ runs \in Nat
  BY DEF RunInv, RunTypes, RunRecord
<1>2. ConsequentialOnlyApproved'
  BY <1>1 DEF RunInv, ConsequentialOnlyApproved, RunTypes
<1>3. run.phase # "idle" => UnderWay' /\ Ahead' /\ ReplayKnows' /\ Behind'
  BY DEF RunInv, UnderWay, Ahead, ReplayKnows, Behind
<1>4. RepeatedOnlyUntold' /\ OkMeansApplied'
  BY DEF RunInv, RepeatedOnlyUntold, OkMeansApplied
<1>5. QED
  BY <1>2, <1>3, <1>4 DEF RunInv

LEMMA SubmitInv ==
  ASSUME RunInv, NEW plan \in Plans, Submit(plan)
  PROVE  RunInv'
<1>1. runs' = runs + 1 /\ runs \in Nat
  BY DEF Submit, RunInv, RunTypes
<1>2. CASE RequiresApproval(plan)
  <2> DEFINE new == [token |-> runs', plan |-> plan, expired |-> FALSE]
  <2>1. /\ approvals' = Kept(approvals) \cup {new} /\ UNCHANGED <<run, applied>>
        /\ reply' = [ok |-> FALSE, plan |-> plan, status |-> "approval_required"]
    BY <1>2 DEF Submit
  <2>2. Kept(approvals) \subseteq approvals /\ \A a \in approvals : a.token \in 1..runs
    BY <1>1, ApprovalGrows DEF Kept, RunInv, RunTypes
  <2>3. approvals' \subseteq Approval(runs')
    <3>1. new \in Approval(runs')
      BY <1>1 DEF Approval
    <3>2. approvals \subseteq Approval(runs')
      BY <1>1, ApprovalGrows DEF RunInv, RunTypes
    <3>3. QED
      BY <2>1, <2>2, <3>1, <3>2
  <2>4. run \in RunRecord'
    BY <1>1, <2>1 DEF RunInv, RunTypes, RunRecord
  <2>5. RunTypes'
    BY <1>1, <2>1, <2>3, <2>4 DEF RunInv, RunTypes, Statuses
  <2>6. OneApprovalEach'
    <3>1. \A a \in approvals : a.token # new.token
      BY <1>1, <2>2
    <3>2. QED
      BY <2>1, <2>2, <3>1 DEF RunInv, OneApprovalEach
  <2>7. QED
    BY <1>1, <2>1, <2>2, <2>5, <2>6, BesideInv
<1>3. CASE ~RequiresApproval(plan)
  BY <1>1, <1>3, BeginInv DEF Submit
<1>4. QED
  BY <1>2, <1>3

\* The ticket leads to one approval, which is taken.
LEMMA FollowUpInv ==
  ASSUME RunInv, NEW ticket \in 1..MaxRuns, FollowUp(ticket)
  PROVE  RunInv'
<1>1. runs' = runs + 1 /\ runs \in Nat
  BY DEF FollowUp, RunInv, RunTypes
<1>2. ASSUME NEW a \in approvals, a.token = ticket, TakeApproval(a), Begin(a.plan, ticket)
      PROVE  RunInv'
  <2>1. a.plan \in Plans /\ ticket \in 1..runs
    BY <1>1, <1>2, ApprovalGrows DEF RunInv, RunTypes
  <2>2. approvals' \subseteq approvals /\ a \notin approvals'
    BY <1>2 DEF TakeApproval, Kept
  <2>3. \A b \in approvals' : b.token # ticket
    BY <1>2, <2>2 DEF RunInv, OneApprovalEach
  <2>4. ticket \in 0..runs' /\ ticket # 0
    BY <1>1, <2>1
  <2>5. QED
    BY <1>1, <1>2, <2>1, <2>2, <2>3, <2>4, BeginInv
<1>3. CASE /\ approvals' = Kept(approvals) /\ UNCHANGED <<run, applied>>
           /\ reply' = [ok |-> FALSE, plan |-> <<>>, status |-> "APPROVAL_TOKEN_INVALID"]
  <2>1. approvals' \subseteq approvals
    BY <1>3 DEF Kept
  <2>2. run \in RunRecord'
    BY <1>1, <1>3 DEF RunInv, RunTypes, RunRecord
  <2>3. RunTypes'
    <3>1. approvals' \subseteq Approval(runs')
      BY <1>1, <2>1, ApprovalGrows DEF RunInv, RunTypes
    <3>2. QED
      BY <1>1, <1>3, <2>2, <3>1 DEF RunInv, RunTypes, Statuses
  <2>4. OneApprovalEach'
    BY <2>1 DEF RunInv, OneApprovalEach
  <2>5. QED
    BY <1>3, <2>1, <2>3, <2>4, BesideInv
<1>4. QED
  BY <1>2, <1>3 DEF FollowUp

LEMMA ApprovalTimeoutInv == ASSUME RunInv, ApprovalTimeout PROVE RunInv'
<1>1. PICK a \in Kept(approvals) : approvals' = (approvals \ {a}) \cup {[a EXCEPT !.expired = TRUE]}
  BY DEF ApprovalTimeout
<1> DEFINE timedOut == [a EXCEPT !.expired = TRUE]
<1>2. a \in approvals /\ a \in Approval(runs)
  BY DEF Kept, RunInv, RunTypes
<1>3. timedOut \in Approval(runs) /\ timedOut.token = a.token
  BY <1>2 DEF Approval
<1>4. UNCHANGED <<run, applied, runs, reply>>
  BY DEF ApprovalTimeout
<1>4a. approvals' = (approvals \ {a}) \cup {timedOut}
  BY <1>1
<1> HIDE DEF timedOut
<1>5. RunTypes'
  BY <1>4a, <1>2, <1>3, <1>4 DEF RunInv, RunTypes, RunRecord
<1>6. \A c \in approvals' : \E b \in approvals : c.token = b.token
  BY <1>4a, <1>2, <1>3
<1>7. OneApprovalEach'
  BY <1>4a, <1>2, <1>3 DEF RunInv, OneApprovalEach
<1>8. QED
  BY <1>4, <1>5, <1>6, <1>7, BesideInv

\* A step of the call that is under way, which leaves the approvals alone.
LEMMA CallInv ==
  ASSUME RunInv, UNCHANGED <<approvals, runs, reply>>, run' \in RunRecord, applied' \in [DOMAIN run.plan -> Nat],
         run'.phase # "idle", run'.plan = run.plan, run'.token = run.token,
         run'.mode = run.mode \/ run'.mode = "plain",
         UnderWay', Ahead', ReplayKnows', Behind', RepeatedOnlyUntold'
  PROVE  RunInv'
<1>1. run' \in RunRecord' /\ applied' \in [DOMAIN applied' -> Nat]
  BY DEF RunRecord
<1>2. RunTypes'
  BY <1>1 DEF RunInv, RunTypes
<1>3. OkMeansApplied' /\ OneApprovalEach'
  BY DEF OkMeansApplied, RunInv, OneApprovalEach
<1>4. ConsequentialOnlyApproved'
  BY DEF RunInv, ConsequentialOnlyApproved
<1>5. QED
  BY <1>2, <1>3, <1>4 DEF RunInv

\* The call is answered.
LEMMA AnswerInv ==
  ASSUME RunInv, UNCHANGED <<approvals, runs, applied>>, run' \in RunRecord, run'.phase = "idle",
         run' = Idle \/ (run'.plan = run.plan /\ run'.token = run.token /\ run'.mode = run.mode),
         reply' \in [ok : BOOLEAN, plan : Plans \cup {<<>>}, status : Statuses],
         RepeatedOnlyUntold', OkMeansApplied'
  PROVE  RunInv'
<1>1. run' \in RunRecord'
  BY DEF RunRecord
<1>2. RunTypes' /\ OneApprovalEach'
  BY <1>1 DEF RunInv, RunTypes, OneApprovalEach
<1>3. ConsequentialOnlyApproved'
  BY DEF RunInv, ConsequentialOnlyApproved, Idle, RequiresApproval
<1>4. QED
  BY <1>2, <1>3 DEF RunInv

LEMMA PrepareInv == ASSUME RunInv, Prepare PROVE RunInv'
<1>1. run.phase = "prepare" /\ run \in RunRecord /\ UNCHANGED <<approvals, applied, runs>>
  BY DEF Prepare, RunInv, RunTypes
<1>2. UnderWay /\ Ahead /\ ReplayKnows /\ Behind
  BY <1>1 DEF RunInv
<1>3. run.plan \in Seq(Kinds) /\ DOMAIN run.plan = 1..Len(run.plan)
  BY <1>2, PlanFacts DEF UnderWay
<1>4. \A i \in DOMAIN run.plan : applied[i] = 0
  BY <1>1, <1>2, <1>3 DEF UnderWay, Ahead
<1>5. CASE Failure
  <2>1. run' \in RunRecord /\ run'.phase = "idle" /\ run' = Idle
    BY <1>5, <1>1 DEF Failure, Idle, RunRecord, RunInv, RunTypes
  <2>2. reply' = [ok |-> FALSE, plan |-> run.plan, status |-> "failed"] /\ run.plan \in Plans
    BY <1>5, <1>2 DEF Failure, UnderWay
  <2>3. RepeatedOnlyUntold' /\ OkMeansApplied'
    BY <1>1, <1>2, <1>4, <2>2 DEF RepeatedOnlyUntold, OkMeansApplied, UnderWay
  <2>4. QED
    BY <1>1, <2>1, <2>2, <2>3, AnswerInv DEF Statuses
<1>6. CASE run' = [run EXCEPT !.phase = "recall"] /\ UNCHANGED reply
  <2>1. /\ run' \in RunRecord /\ run'.phase = "recall"
        /\ run'.plan = run.plan /\ run'.token = run.token /\ run'.mode = run.mode /\ run'.at = run.at
        /\ run'.unsettled = run.unsettled /\ run'.misreported = run.misreported /\ run'.failed = run.failed
        /\ run'.mutated = run.mutated /\ run'.doubt = run.doubt
    BY <1>1, <1>6 DEF RunRecord
  <2>2. UnderWay' /\ Ahead' /\ ReplayKnows' /\ Behind' /\ RepeatedOnlyUntold'
    BY <1>1, <1>2, <1>4, <2>1 DEF UnderWay, Ahead, ReplayKnows, Behind, RepeatedOnlyUntold
  <2>3. QED
    BY <1>1, <1>2, <1>6, <2>1, <2>2, CallInv DEF UnderWay
<1>7. QED
  BY <1>5, <1>6 DEF Prepare

LEMMA TryMemoryReplayInv == ASSUME RunInv, TryMemoryReplay PROVE RunInv'
<1>1. run.phase = "recall" /\ run \in RunRecord /\ UNCHANGED <<approvals, applied, runs, reply>>
  BY DEF TryMemoryReplay, RunInv, RunTypes
<1>2. UnderWay /\ Ahead /\ ReplayKnows /\ Behind
  BY <1>1 DEF RunInv
<1>3. run.plan \in Seq(Kinds) \ {<<>>} /\ DOMAIN run.plan = 1..Len(run.plan) /\ Len(run.plan) \in Nat \ {0}
  BY <1>2, PlanFacts DEF UnderWay
<1>4. \A i \in DOMAIN run.plan : applied[i] = 0
  BY <1>1, <1>2, <1>3 DEF UnderWay, Ahead
<1>5. /\ run' \in RunRecord /\ run'.phase = "dispatch"
      /\ run'.plan = run.plan /\ run'.token = run.token /\ run'.at = run.at
      /\ run'.unsettled = run.unsettled /\ run'.misreported = run.misreported /\ run'.failed = run.failed
      /\ run'.mutated = run.mutated /\ run'.doubt = run.doubt
      /\ run'.mode = run.mode \/ (run'.mode = "replay" /\ ~RequiresApproval(run.plan))
  BY <1>1 DEF TryMemoryReplay, RunRecord
<1>6. UnderWay' /\ Ahead' /\ ReplayKnows' /\ Behind' /\ RepeatedOnlyUntold'
  BY <1>1, <1>2, <1>3, <1>4, <1>5 DEF UnderWay, Ahead, ReplayKnows, Behind, RepeatedOnlyUntold
<1>7. RunTypes' /\ OneApprovalEach'
  BY <1>1, <1>5 DEF RunInv, RunTypes, RunRecord, OneApprovalEach
<1>8. ConsequentialOnlyApproved' /\ OkMeansApplied'
  BY <1>1, <1>5 DEF RunInv, ConsequentialOnlyApproved, OkMeansApplied
<1>9. QED
  BY <1>5, <1>6, <1>7, <1>8 DEF RunInv

LEMMA AdvanceFacts ==
  ASSUME NEW r \in RunRecord, NEW q, q = Advance(r)
  PROVE  /\ q \in RunRecord /\ q.at = r.at + 1
         /\ q.phase = IF r.at = Len(r.plan) THEN "close" ELSE "dispatch"
         /\ q.plan = r.plan /\ q.token = r.token /\ q.mode = r.mode /\ q.unsettled = r.unsettled /\ q.misreported = r.misreported
         /\ q.failed = r.failed /\ q.mutated = r.mutated /\ q.doubt = r.doubt
<1> DEFINE phase == IF r.at = Len(r.plan) THEN "close" ELSE "dispatch"
<1>1. phase \in {"close", "dispatch"}
  OBVIOUS
<1>2. q = [r EXCEPT !.at = r.at + 1, !.again = FALSE, !.phase = phase]
  BY DEF Advance
<1> HIDE DEF phase
<1>2a. r.at + 1 \in Nat
  BY DEF RunRecord
<1>2b. q \in RunRecord
  BY <1>1, <1>2, <1>2a DEF RunRecord
<1>3. /\ q \in RunRecord /\ q.at = r.at + 1 /\ q.phase = phase
      /\ q.plan = r.plan /\ q.token = r.token /\ q.mode = r.mode /\ q.unsettled = r.unsettled /\ q.misreported = r.misreported
      /\ q.failed = r.failed /\ q.mutated = r.mutated /\ q.doubt = r.doubt
  BY <1>1, <1>2, <1>2a, <1>2b DEF RunRecord
<1>4. QED
  BY <1>3 DEF phase

\* A failed step ends a replay, which then knows whether the page may have changed;
\* a plain run may go on.
LEMMA FailFacts ==
  ASSUME run \in RunRecord, NEW uncertain \in BOOLEAN, NEW goOn \in BOOLEAN,
         NEW q, q = StepFails(uncertain, goOn)
  PROVE  /\ q \in RunRecord /\ q.failed
         /\ q.plan = run.plan /\ q.token = run.token /\ q.mode = run.mode
         /\ q.unsettled = run.unsettled /\ q.misreported = run.misreported /\ q.mutated = run.mutated
         /\ \/ q.phase = "close" /\ q.at = run.at
            \/ /\ q.phase = IF run.at = Len(run.plan) THEN "close" ELSE "dispatch"
               /\ q.at = run.at + 1
         /\ run.mode = "replay" =>
               q.phase = "close" /\ q.at = run.at /\ q.doubt = (Mutating(Kind) /\ uncertain)
         /\ run.mode = "plain" => q.doubt = run.doubt
<1> DEFINE f == [run EXCEPT !.failed = TRUE]
<1>1. /\ f \in RunRecord /\ f.failed /\ f.plan = run.plan /\ f.token = run.token /\ f.mode = run.mode
      /\ f.at = run.at /\ f.unsettled = run.unsettled /\ f.misreported = run.misreported /\ f.mutated = run.mutated /\ f.doubt = run.doubt
  BY DEF RunRecord
<1>2. CASE run.mode = "replay"
  BY <1>2 DEF StepFails, RunRecord, Mutating
<1>3. CASE run.mode = "plain" /\ goOn
  <2>1. StepFails(uncertain, goOn) = Advance(f)
    BY <1>3 DEF StepFails
  <2> HIDE DEF f
  <2>2. /\ q \in RunRecord /\ q.at = f.at + 1
        /\ q.phase = IF f.at = Len(f.plan) THEN "close" ELSE "dispatch"
        /\ q.plan = f.plan /\ q.token = f.token /\ q.mode = f.mode /\ q.unsettled = f.unsettled /\ q.misreported = f.misreported
        /\ q.failed = f.failed /\ q.mutated = f.mutated /\ q.doubt = f.doubt
    BY <1>1, <2>1, AdvanceFacts
  <2>3. QED
    BY <1>1, <1>3, <2>2
<1>4. CASE run.mode = "plain" /\ ~goOn
  BY <1>4 DEF StepFails, RunRecord
<1>5. QED
  BY <1>2, <1>3, <1>4 DEF RunRecord

LEMMA SucceedFacts ==
  ASSUME run \in RunRecord, NEW verified \in BOOLEAN, NEW q, q = StepSucceeds(verified)
  PROVE  /\ q \in RunRecord /\ q.at = run.at + 1
         /\ q.phase = IF run.at = Len(run.plan) THEN "close" ELSE "dispatch"
         /\ q.plan = run.plan /\ q.token = run.token /\ q.mode = run.mode /\ q.unsettled = run.unsettled /\ q.misreported = run.misreported
         /\ q.failed = run.failed /\ q.doubt = run.doubt
         /\ q.mutated = (run.mutated \/ Mutating(Kind))
<1> DEFINE f == [run EXCEPT !.unverified = @ \/ ~verified, !.mutated = @ \/ Mutating(Kind)]
<1>1. /\ f \in RunRecord /\ f.failed = run.failed /\ f.plan = run.plan /\ f.token = run.token /\ f.mode = run.mode
      /\ f.at = run.at /\ f.unsettled = run.unsettled /\ f.misreported = run.misreported /\ f.doubt = run.doubt
      /\ f.mutated = (run.mutated \/ Mutating(Kind))
  BY DEF RunRecord, Mutating
<1>2. StepSucceeds(verified) = Advance(f)
  BY DEF StepSucceeds
<1> HIDE DEF f
<1>3. QED
  BY <1>1, <1>2, AdvanceFacts

\* Where a call stands that is at a step.
LEMMA AtStep ==
  ASSUME RunInv, run.phase \in {"dispatch", "settle"}
  PROVE  /\ UnderWay /\ Ahead /\ ReplayKnows /\ Behind /\ RepeatedOnlyUntold
         /\ run \in RunRecord /\ run.plan \in Seq(Kinds) /\ run.plan \in Plans
         /\ DOMAIN run.plan = 1..Len(run.plan) /\ Len(run.plan) \in Nat
         /\ run.at \in DOMAIN run.plan /\ ~run.doubt
         /\ applied \in [DOMAIN run.plan -> Nat]
<1>1. UnderWay /\ Ahead /\ ReplayKnows /\ Behind /\ RepeatedOnlyUntold /\ run \in RunRecord
  BY DEF RunInv, RunTypes
<1>2. QED
  BY <1>1, PlanFacts DEF UnderWay

LEMMA ReachesFacts ==
  ASSUME RunInv, run.phase = "dispatch"
  PROVE  /\ Reaches \in [DOMAIN run.plan -> Nat]
         /\ \A i \in DOMAIN run.plan : i # run.at => Reaches[i] = applied[i]
         /\ Mutating(Kind) => Reaches[run.at] = applied[run.at] + 1
         /\ ~Mutating(Kind) => Reaches = applied
<1>1. run.at \in DOMAIN run.plan /\ applied \in [DOMAIN run.plan -> Nat]
  BY AtStep
<1>2. QED
  BY <1>1 DEF Reaches

LEMMA SaysUntouchedFacts ==
  ASSUME NEW r \in RunRecord, NEW touched \in BOOLEAN, run.at \in Nat, NEW q, q = SaysUntouched(r, touched)
  PROVE  /\ q \in RunRecord
         /\ q.phase = r.phase /\ q.at = r.at /\ q.plan = r.plan /\ q.token = r.token /\ q.mode = r.mode
         /\ q.unsettled = r.unsettled /\ q.failed = r.failed /\ q.mutated = r.mutated /\ q.doubt = r.doubt
         /\ r.misreported \subseteq q.misreported /\ (touched => run.at \in q.misreported)
BY DEF SaysUntouched, RunRecord

LEMMA DispatchInv == ASSUME RunInv, Dispatch PROVE RunInv'
<1>1. run.phase = "dispatch" /\ UNCHANGED <<approvals, runs, reply>>
  BY DEF Dispatch
<1>2. Kind = run.plan[run.at]
  BY DEF Kind
<1>3. CASE run' = [run EXCEPT !.phase = "settle"] /\ applied' = Reaches
  <2>1. /\ run' \in RunRecord /\ run'.phase = "settle" /\ run'.at = run.at
        /\ run'.plan = run.plan /\ run'.token = run.token /\ run'.mode = run.mode
        /\ run'.unsettled = run.unsettled /\ run'.misreported = run.misreported /\ run'.failed = run.failed
        /\ run'.mutated = run.mutated /\ run'.doubt = run.doubt
    BY <1>1, <1>3, AtStep DEF RunRecord
  <2>2. /\ applied' \in [DOMAIN run.plan -> Nat]
        /\ \A i \in DOMAIN run.plan : i # run.at => applied'[i] = applied[i]
        /\ applied'[run.at] \in {applied[run.at], applied[run.at] + 1}
    BY <1>1, <1>3, AtStep, ReachesFacts
  <2>2a. UnderWay'
    BY <1>1, <2>1, <2>2, AtStep DEF UnderWay
  <2>2b. Ahead'
    BY <1>1, <2>1, <2>2, AtStep DEF Ahead
  <2>2c. RepeatedOnlyUntold'
    <3>1. \/ applied[run.at] = 0 \/ run.at \in run.misreported
          \/ run.at \in run.unsettled /\ applied[run.at] = 1
      BY <1>1, AtStep DEF Ahead
    <3>2. QED
      BY <1>1, <2>1, <2>2, <3>1, AtStep DEF RepeatedOnlyUntold
  <2>3. ReplayKnows'
    BY <1>1, <1>3, <2>1, AtStep, ReachesFacts DEF ReplayKnows, Ahead
  <2>4. Behind'
    <3>1. \A i \in DOMAIN run.plan : applied'[i] > 0 => Mutating(run.plan[i])
      BY <1>1, <1>2, <1>3, AtStep, ReachesFacts DEF Behind
    <3>2. Mutating(run.plan[run.at]) => applied'[run.at] > 0
      BY <1>1, <1>2, <1>3, AtStep, ReachesFacts
    <3>3. \A i \in DOMAIN run.plan : i # run.at => applied'[i] = applied[i]
      BY <1>1, <1>3, ReachesFacts
    <3>4. QED
      BY <1>1, <2>1, <3>1, <3>2, <3>3, AtStep DEF Behind
  <2>5. QED
    BY <1>1, <2>1, <2>2, <2>2a, <2>2b, <2>2c, <2>3, <2>4, CallInv
<1>4. ASSUME NEW touched \in {FALSE, Mutating(Kind)}, applied' = (IF touched THEN Reaches ELSE applied),
             run' = SaysUntouched([run EXCEPT !.again = TRUE], touched)
      PROVE  RunInv'
  <2> DEFINE r == [run EXCEPT !.again = TRUE]
  <2>1. /\ r \in RunRecord /\ r.phase = run.phase /\ r.at = run.at
        /\ r.plan = run.plan /\ r.token = run.token /\ r.mode = run.mode
        /\ r.unsettled = run.unsettled /\ r.misreported = run.misreported /\ r.failed = run.failed
        /\ r.mutated = run.mutated /\ r.doubt = run.doubt
    BY <1>1, AtStep DEF RunRecord
  <2>2. touched \in BOOLEAN /\ run.at \in Nat /\ run' = SaysUntouched(r, touched)
    BY <1>1, <1>4, AtStep DEF RunRecord, Mutating
  <2> HIDE DEF r
  <2>3. /\ run' \in RunRecord /\ run'.phase = run.phase /\ run'.at = run.at
        /\ run'.plan = run.plan /\ run'.token = run.token /\ run'.mode = run.mode
        /\ run'.unsettled = run.unsettled /\ run'.failed = run.failed
        /\ run'.mutated = run.mutated /\ run'.doubt = run.doubt
        /\ run.misreported \subseteq run'.misreported /\ (touched => run.at \in run'.misreported)
    BY <2>1, <2>2, SaysUntouchedFacts
  <2>4. /\ applied' \in [DOMAIN run.plan -> Nat]
        /\ \A i \in DOMAIN run.plan : applied'[i] = applied[i] \/ (i \in run'.misreported /\ Mutating(run.plan[i]))
        /\ \A i \in DOMAIN run.plan : applied'[i] >= applied[i]
    BY <1>1, <1>2, <1>4, <2>2, <2>3, AtStep, ReachesFacts
  <2>5. UnderWay'
    BY <1>1, <2>3, <2>4, AtStep DEF UnderWay
  <2>6. Ahead'
    BY <1>1, <2>3, <2>4, AtStep DEF Ahead
  <2>7. ReplayKnows'
    BY <1>1, <2>3, <2>4, AtStep DEF ReplayKnows
  <2>8. RepeatedOnlyUntold'
    BY <1>1, <2>3, <2>4, AtStep DEF RepeatedOnlyUntold
  <2>9. Behind'
    BY <1>1, <2>3, <2>4, AtStep DEF Behind
  <2>10. QED
    BY <1>1, <2>3, <2>4, <2>5, <2>6, <2>7, <2>8, <2>9, CallInv
<1>5. ASSUME NEW touched \in {FALSE, Mutating(Kind)}, applied' = (IF touched THEN Reaches ELSE applied),
             NEW uncertain \in BOOLEAN, NEW goOn \in BOOLEAN,
             run' = SaysUntouched(StepFails(uncertain, goOn), touched /\ ~uncertain)
      PROVE  RunInv'
  <2>0. /\ touched \in BOOLEAN /\ (touched /\ ~uncertain) \in BOOLEAN /\ run.at \in Nat /\ run \in RunRecord
        /\ touched => Mutating(Kind)
    BY <1>1, <1>5, AtStep DEF RunRecord, Mutating
  <2> DEFINE q == StepFails(uncertain, goOn)
  <2>1a. /\ q \in RunRecord /\ q.failed
         /\ q.plan = run.plan /\ q.token = run.token /\ q.mode = run.mode
         /\ q.unsettled = run.unsettled /\ q.misreported = run.misreported /\ q.mutated = run.mutated
         /\ \/ q.phase = "close" /\ q.at = run.at
            \/ /\ q.phase = IF run.at = Len(run.plan) THEN "close" ELSE "dispatch"
               /\ q.at = run.at + 1
         /\ run.mode = "replay" =>
               q.phase = "close" /\ q.at = run.at /\ q.doubt = (Mutating(Kind) /\ uncertain)
         /\ run.mode = "plain" => q.doubt = run.doubt
    BY <2>0, FailFacts
  <2>1b. run' = SaysUntouched(q, touched /\ ~uncertain)
    BY <1>5
  <2> HIDE DEF q
  <2>1c. /\ run' \in RunRecord
         /\ run'.phase = q.phase /\ run'.at = q.at /\ run'.plan = q.plan /\ run'.token = q.token
         /\ run'.mode = q.mode /\ run'.unsettled = q.unsettled /\ run'.failed = q.failed
         /\ run'.mutated = q.mutated /\ run'.doubt = q.doubt
         /\ q.misreported \subseteq run'.misreported
         /\ (touched /\ ~uncertain) => run.at \in run'.misreported
    <3> DEFINE says == touched /\ ~uncertain
    <3>1. says \in BOOLEAN /\ run' = SaysUntouched(q, says)
      BY <2>0, <2>1b
    <3> HIDE DEF says
    <3>1a. q \in RunRecord /\ run.at \in Nat
      BY <2>0, <2>1a
    <3>2. /\ run' \in RunRecord
          /\ run'.phase = q.phase /\ run'.at = q.at /\ run'.plan = q.plan /\ run'.token = q.token
          /\ run'.mode = q.mode /\ run'.unsettled = q.unsettled /\ run'.failed = q.failed
          /\ run'.mutated = q.mutated /\ run'.doubt = q.doubt
          /\ q.misreported \subseteq run'.misreported /\ (says => run.at \in run'.misreported)
      BY <3>1, <3>1a, SaysUntouchedFacts
    <3>3. (touched /\ ~uncertain) => says
      BY DEF says
    <3>4. QED
      BY <3>2, <3>3
  <2>1. /\ run' \in RunRecord /\ run'.failed
        /\ run'.plan = run.plan /\ run'.token = run.token /\ run'.mode = run.mode
        /\ run'.unsettled = run.unsettled /\ run'.mutated = run.mutated
        /\ run.misreported \subseteq run'.misreported
        /\ (touched /\ ~uncertain) => run.at \in run'.misreported
        /\ \/ run'.phase = "close" /\ run'.at = run.at
           \/ /\ run'.phase = IF run.at = Len(run.plan) THEN "close" ELSE "dispatch"
              /\ run'.at = run.at + 1
        /\ run.mode = "replay" =>
              run'.phase = "close" /\ run'.at = run.at /\ run'.doubt = (Mutating(Kind) /\ uncertain)
        /\ run.mode = "plain" => run'.doubt = run.doubt
    BY <2>1a, <2>1c
  <2>2. applied' \in [DOMAIN run.plan -> Nat]
    BY <1>1, <1>5, <2>0, AtStep, ReachesFacts
  <2>3. run.mode \in {"plain", "replay"}
    BY <1>1, AtStep DEF RunRecord
  <2>4. UnderWay'
    <3>1. run.at \in 1..Len(run.plan) /\ Len(run.plan) \in Nat /\ DOMAIN run.plan = 1..Len(run.plan) /\ run.plan \in Plans
      BY <1>1, AtStep
    <3>2. run'.at \in 1..Len(run.plan) + 1 /\ run'.phase \in {"close", "dispatch"}
      BY <2>1, <3>1
    <3>3. run'.phase = "dispatch" => run'.at \in DOMAIN run.plan
      BY <2>1, <3>1
    <3>4. run'.phase = "dispatch" => ~run'.doubt
      BY <1>1, <2>1, <2>3, AtStep
    <3>5. QED
      BY <2>1, <2>2, <3>1, <3>2, <3>3, <3>4 DEF UnderWay
  <2>5. RepeatedOnlyUntold'
    BY <1>1, <1>5, <2>0, <2>1, AtStep, ReachesFacts DEF RepeatedOnlyUntold, Ahead
  <2>6. Ahead'
    <3>1. \A i \in DOMAIN run.plan : i # run.at => applied'[i] = applied[i]
      BY <1>1, <1>5, ReachesFacts
    <3>2. \A i \in DOMAIN run'.plan :
             i > run'.at \/ (i = run'.at /\ run'.phase \in {"prepare", "recall", "dispatch"}) => i > run.at
      BY <1>1, <2>1, AtStep
    <3>3. QED
      BY <2>1, <3>1, <3>2, AtStep, <1>1 DEF Ahead
  <2>7. ReplayKnows'
    <3> SUFFICES ASSUME run.mode = "replay", NEW i \in DOMAIN run.plan
                 PROVE  /\ applied'[i] <= 1 \/ i \in run'.misreported
                        /\ applied'[i] > 0 => run'.mutated \/ run'.doubt \/ i \in run'.unsettled \cup run'.misreported
      BY <2>1 DEF ReplayKnows
    <3>1. CASE i # run.at \/ ~touched
      <4>1. applied'[i] = applied[i]
        BY <1>1, <1>5, <3>1, ReachesFacts
      <4>2. /\ applied[i] <= 1 \/ i \in run.misreported
            /\ applied[i] > 0 => run.mutated \/ i \in run.unsettled \cup run.misreported
        BY <1>1, AtStep DEF ReplayKnows
      <4>3. QED
        BY <2>1, <4>1, <4>2
    <3>2. CASE i = run.at /\ touched
      <4>1. applied'[i] = applied[i] + 1
        BY <1>1, <1>5, <2>0, <3>2, ReachesFacts
      <4>2. applied[i] = 0 \/ i \in run.misreported
        BY <1>1, <3>2, AtStep DEF Ahead
      <4>3. uncertain => run'.doubt
        BY <2>0, <2>1, <3>2
      <4>4. QED
        BY <2>0, <2>1, <3>2, <4>1, <4>2, <4>3
    <3>3. QED
      BY <2>0, <3>1, <3>2
  <2>8. Behind'
    BY <1>1, <1>2, <1>5, <2>0, <2>1, AtStep, ReachesFacts DEF Behind
  <2>9. run'.phase # "idle"
    BY <2>1
  <2>10. QED
    BY <1>1, <2>1, <2>2, <2>4, <2>5, <2>6, <2>7, <2>8, <2>9, CallInv
<1>6. ASSUME NEW touched \in {FALSE, Mutating(Kind)}, applied' = (IF touched THEN Reaches ELSE applied),
             NEW goOn \in BOOLEAN,
             \/ run' = SaysUntouched(StepFails(FALSE, goOn), touched)
             \/ run' = StepFails(TRUE, goOn)
      PROVE  RunInv'
  <2>1. SaysUntouched(StepFails(TRUE, goOn), touched /\ ~TRUE) = StepFails(TRUE, goOn)
    BY DEF SaysUntouched
  <2>2. touched \in BOOLEAN
    BY DEF Mutating
  <2>3. CASE run' = StepFails(TRUE, goOn)
    BY <1>5, <1>6, <2>1, <2>3
  <2>4. CASE run' = SaysUntouched(StepFails(FALSE, goOn), touched)
    <3>1. (touched /\ ~FALSE) = touched
      BY <2>2
    <3>2. QED
      BY <1>5, <1>6, <2>4, <3>1
  <2>5. QED
    BY <1>6, <2>3, <2>4
<1>7. QED
  BY <1>3, <1>4, <1>6 DEF Dispatch

LEMMA SettleStepInv == ASSUME RunInv, SettleStep PROVE RunInv'
<1>1. run.phase = "settle" /\ UNCHANGED <<approvals, runs, reply, applied>>
  BY DEF SettleStep
<1>2. Kind = run.plan[run.at]
  BY DEF Kind
<1>3. ASSUME NEW verified \in BOOLEAN, run' = StepSucceeds(verified) PROVE RunInv'
  <2>1. /\ run' \in RunRecord /\ run'.at = run.at + 1
        /\ run'.phase = IF run.at = Len(run.plan) THEN "close" ELSE "dispatch"
        /\ run'.plan = run.plan /\ run'.token = run.token /\ run'.mode = run.mode
        /\ run'.unsettled = run.unsettled /\ run'.misreported = run.misreported /\ run'.failed = run.failed /\ run'.doubt = run.doubt
        /\ run'.mutated = (run.mutated \/ Mutating(Kind))
    BY <1>1, <1>3, AtStep, SucceedFacts
  <2>2. UnderWay' /\ RepeatedOnlyUntold'
    BY <1>1, <2>1, AtStep DEF UnderWay, RepeatedOnlyUntold
  <2>3. Ahead'
    BY <1>1, <2>1, AtStep DEF Ahead
  <2>4. ReplayKnows'
    BY <1>1, <1>2, <2>1, AtStep DEF ReplayKnows, Behind
  <2>5. Behind'
    BY <1>1, <1>2, <2>1, AtStep DEF Behind
  <2>6. run'.phase # "idle"
    BY <2>1
  <2>7. QED
    BY <1>1, <2>1, <2>2, <2>3, <2>4, <2>5, <2>6, CallInv, AtStep
<1>4. ASSUME NEW goOn \in BOOLEAN, run' = [StepFails(FALSE, goOn) EXCEPT !.unsettled = @ \cup {run.at}]
      PROVE  RunInv'
  <2> DEFINE q == StepFails(FALSE, goOn)
  <2>1. /\ q \in RunRecord /\ q.failed
        /\ q.plan = run.plan /\ q.token = run.token /\ q.mode = run.mode
        /\ q.unsettled = run.unsettled /\ q.misreported = run.misreported /\ q.mutated = run.mutated
        /\ \/ q.phase = "close" /\ q.at = run.at
           \/ /\ q.phase = IF run.at = Len(run.plan) THEN "close" ELSE "dispatch"
              /\ q.at = run.at + 1
        /\ run.mode = "replay" => q.phase = "close" /\ q.at = run.at /\ ~q.doubt
        /\ run.mode = "plain" => q.doubt = run.doubt
    <3>1. run \in RunRecord
      BY <1>1, AtStep
    <3>2. FALSE \in BOOLEAN /\ (Mutating(Kind) /\ FALSE) = FALSE
      OBVIOUS
    <3>3. QED
      BY <3>1, <3>2, FailFacts
  <2>2. run' = [q EXCEPT !.unsettled = @ \cup {run.at}] /\ run.at \in Nat
    BY <1>1, <1>4, AtStep DEF RunRecord
  <2> HIDE DEF q
  <2>3. /\ run' \in RunRecord /\ run'.failed
        /\ run'.plan = run.plan /\ run'.token = run.token /\ run'.mode = run.mode
        /\ run'.unsettled = run.unsettled \cup {run.at} /\ run'.misreported = run.misreported /\ run'.mutated = run.mutated
        /\ run'.phase = q.phase /\ run'.at = q.at /\ run'.doubt = q.doubt
    BY <2>1, <2>2 DEF RunRecord
  <2>4. run.mode \in {"plain", "replay"}
    BY <1>1, AtStep DEF RunRecord
  <2>5. UnderWay' /\ RepeatedOnlyUntold'
    <3>1. run.at \in 1..Len(run.plan) /\ Len(run.plan) \in Nat /\ DOMAIN run.plan = 1..Len(run.plan) /\ run.plan \in Plans
      BY <1>1, AtStep
    <3>2. run'.at \in 1..Len(run.plan) + 1 /\ run'.phase \in {"close", "dispatch"}
      BY <2>1, <2>3, <3>1
    <3>3. run'.phase = "dispatch" => run'.at \in DOMAIN run.plan
      BY <2>1, <2>3, <3>1
    <3>4. run'.phase = "dispatch" => ~run'.doubt
      BY <1>1, <2>1, <2>3, <2>4, AtStep
    <3>5. UnderWay'
      BY <1>1, <2>3, <3>1, <3>2, <3>3, <3>4, AtStep DEF UnderWay
    <3>6. RepeatedOnlyUntold'
      BY <1>1, <2>3, AtStep DEF RepeatedOnlyUntold
    <3>7. QED
      BY <3>5, <3>6
  <2>6. Ahead'
    BY <1>1, <2>1, <2>3, AtStep DEF Ahead
  <2>7. ReplayKnows'
    BY <1>1, <2>1, <2>3, AtStep DEF ReplayKnows
  <2>8. Behind'
    BY <1>1, <2>1, <2>3, AtStep DEF Behind
  <2>9. run'.phase # "idle"
    BY <2>1, <2>3
  <2>10. QED
    BY <1>1, <2>3, <2>5, <2>6, <2>7, <2>8, <2>9, CallInv, AtStep
<1>5. QED
  BY <1>3, <1>4 DEF SettleStep

\* Where a call stands whose steps are over.
LEMMA AtClose ==
  ASSUME RunInv, run.phase = "close"
  PROVE  /\ UnderWay /\ Ahead /\ ReplayKnows /\ Behind /\ RepeatedOnlyUntold
         /\ run \in RunRecord /\ run.plan \in Seq(Kinds) \ {<<>>} /\ run.plan \in Plans
         /\ DOMAIN run.plan = 1..Len(run.plan) /\ Len(run.plan) \in Nat \ {0}
         /\ applied \in [DOMAIN run.plan -> Nat]
<1>1. UnderWay /\ Ahead /\ ReplayKnows /\ Behind /\ RepeatedOnlyUntold /\ run \in RunRecord
  BY DEF RunInv, RunTypes
<1>2. QED
  BY <1>1, PlanFacts DEF UnderWay

\* Only a call without a failed step is answered ok, and it has applied its mutations.
LEMMA ClosedInv ==
  ASSUME RunInv, run.phase = "close", UNCHANGED <<approvals, runs, applied>>,
         NEW ok \in BOOLEAN, NEW status \in Statuses, Answer(ok, status), ok => ~run.failed
  PROVE  RunInv'
<1>1. /\ run' = [run EXCEPT !.phase = "idle"]
      /\ reply' = [ok |-> ok, plan |-> run.plan, status |-> status]
  BY DEF Answer
<1>2. /\ run' \in RunRecord /\ run'.phase = "idle" /\ run'.plan = run.plan /\ run'.token = run.token
      /\ run'.mode = run.mode /\ run'.unsettled = run.unsettled /\ run'.misreported = run.misreported
  BY <1>1, AtClose DEF RunRecord
<1>3. /\ reply' \in [ok : BOOLEAN, plan : Plans \cup {<<>>}, status : Statuses]
      /\ reply'.ok = ok /\ reply'.plan = run.plan
  BY <1>1, AtClose
<1>4. ok => \A i \in DOMAIN run.plan : Mutating(run.plan[i]) => applied[i] > 0
  BY AtClose DEF Behind
<1>5. RepeatedOnlyUntold' /\ OkMeansApplied'
  BY <1>2, <1>3, <1>4, AtClose DEF RepeatedOnlyUntold, OkMeansApplied
<1>6. QED
  BY <1>2, <1>3, <1>5, AnswerInv

LEMMA CloseReplayInv == ASSUME RunInv, CloseReplay PROVE RunInv'
<1>1. run.phase = "close" /\ run.mode = "replay" /\ UNCHANGED <<approvals, applied, runs>>
  BY DEF CloseReplay
<1>2. ASSUME Verified, NEW observed \in BOOLEAN,
             Answer(observed, IF observed THEN "memory_replay" ELSE "partial")
      PROVE  RunInv'
  BY <1>1, <1>2, ClosedInv DEF Verified, Statuses
<1>3. CASE Answer(FALSE, "partial")
  BY <1>1, <1>3, ClosedInv DEF Statuses
<1>4. CASE /\ MayFallBack
           /\ run' = [run EXCEPT !.phase = "dispatch", !.mode = "plain", !.at = 1, !.again = FALSE,
                                 !.failed = FALSE, !.unverified = FALSE, !.doubt = FALSE]
           /\ UNCHANGED reply
  <2>1. /\ run' \in RunRecord /\ run'.phase = "dispatch" /\ run'.mode = "plain" /\ run'.at = 1
        /\ run'.plan = run.plan /\ run'.token = run.token /\ run'.unsettled = run.unsettled /\ run'.misreported = run.misreported
        /\ ~run'.failed /\ ~run'.doubt /\ run'.mutated = run.mutated
    BY <1>4, AtClose, <1>1 DEF RunRecord
  <2>2. \A i \in DOMAIN run.plan : 
             /\ applied[i] <= 1 \/ i \in run.misreported
             /\ applied[i] > 0 => i \in run.unsettled \cup run.misreported
    BY <1>1, <1>4, AtClose DEF ReplayKnows, MayFallBack
  <2>3. \A i \in DOMAIN run.plan : 
             applied[i] = 0 \/ i \in run.misreported \/ (i \in run.unsettled /\ applied[i] = 1)
    BY <1>1, <2>2, AtClose
  <2>4. UnderWay' /\ Ahead' /\ ReplayKnows' /\ RepeatedOnlyUntold'
    BY <1>1, <2>1, <2>3, AtClose DEF UnderWay, Ahead, ReplayKnows, RepeatedOnlyUntold
  <2>5. Behind'
    BY <1>1, <2>1, AtClose DEF Behind
  <2>6. QED
    BY <1>1, <1>4, <2>1, <2>4, <2>5, CallInv, AtClose
<1>5. QED
  BY <1>2, <1>3, <1>4 DEF CloseReplay

LEMMA CloseRunInv == ASSUME RunInv, CloseRun PROVE RunInv'
<1>1. run.phase = "close" /\ UNCHANGED <<approvals, applied, runs>>
  BY DEF CloseRun
<1>2. PICK observed \in BOOLEAN :
        Answer(~run.failed /\ observed, IF run.failed \/ ~observed THEN "partial" ELSE "completed")
  BY DEF CloseRun
<1>3. run.failed \in BOOLEAN
  BY <1>1, AtClose DEF RunRecord
<1>4. QED
  BY <1>1, <1>2, <1>3, ClosedInv DEF Statuses

LEMMA RunInvStep == RunInv /\ [RunNext]_runVars => RunInv'
<1> SUFFICES ASSUME RunInv, [RunNext]_runVars PROVE RunInv'
  OBVIOUS
<1>1. CASE UNCHANGED runVars
  <2>1. UNCHANGED <<run, approvals, applied, runs, reply>>
    BY <1>1 DEF runVars
  <2>2. RunTypes' /\ OneApprovalEach'
    BY <2>1 DEF RunInv, RunTypes, RunRecord, Approval, OneApprovalEach
  <2>3. QED
    BY <2>1, <2>2, BesideInv
<1>2. QED
  BY <1>1, SubmitInv, FollowUpInv, ApprovalTimeoutInv, PrepareInv, TryMemoryReplayInv,
     DispatchInv, SettleStepInv, CloseReplayInv, CloseRunInv DEF RunNext

\* core/runtime.ts: no call repeats a mutation silently, claims one that did not
\* happen, or spends an approval on anything but its request, for any plans.
THEOREM RunTheorem == RunSpec => []RunIsHonest
<1>1. RunInit => RunInv
  BY RunInitInv
<1>2. RunInv /\ [RunNext]_runVars => RunInv'
  BY RunInvStep
<1>3. RunInv => RunIsHonest
  BY DEF RunInv, RunIsHonest
<1>4. QED
  BY <1>1, <1>2, <1>3, PTL DEF RunSpec

-----------------------------------------------------------------------------
(***************************************************************************)
(* The uploads.  What the host keeps for a call is what it listed for it,  *)
(* and nothing is given before the hand-over.                              *)
(***************************************************************************)
ShownPages == [doc : Nat, url : Nat]
CallRecords == [at : Waiting \cup {"idle", "over"}, page : ShownPages, file : Nat]
HostCopies == [is : {"none", "listed", "copied"}, file : Nat]
GivenRecords == [page : ShownPages, file : Nat]

UploadTypes ==
    /\ upload \in [UploadCalls -> CallRecords] /\ copies \in [UploadCalls -> HostCopies]
    /\ given \in [UploadCalls -> GivenRecords] /\ holding \subseteq UploadCalls
    /\ pages \in [UploadTabs -> ShownPages] /\ file \in Nat /\ changes \in Nat

\* What the host keeps is what it listed for the call, and nothing is given before the
\* hand-over.
KeptAsListed ==
    \A u \in UploadCalls : copies[u].is # "none" => copies[u].file = upload[u].file
GivenLast ==
    \A u \in UploadCalls : given[u].file # 0 => upload[u].at \in {"handed", "over"}

\* A drag that is about to be dispatched has seen the address of its tab, unless it
\* has changed since.
LookedAt(u) ==
    upload[u].at = "checked" /\ u \in DragCalls => pages[TabOf[u]].url = upload[u].page.url \/ u \in strayed
AddressSeen == \A u \in UploadCalls : LookedAt(u)
GivenRight(u) ==
    given[u].file # 0 =>
      /\ given[u].file = upload[u].file
      /\ u \notin DragCalls => given[u].page.doc = upload[u].page.doc
      /\ u \in DragCalls => given[u].page.url = upload[u].page.url \/ u \in strayed

AttachedOver == \A u \in holding : upload[u].at = "over"

UploadInv == /\ UploadTypes /\ KeptAsListed /\ GivenLast /\ AttachedOver /\ AddressSeen
             /\ GivenAsListed /\ CopiesAccounted /\ QuestionsBounded

LEMMA UploadInitInv == UploadInit => UploadInv
<1> SUFFICES ASSUME UploadInit PROVE UploadInv
  OBVIOUS
<1>1. UploadTypes /\ KeptAsListed /\ GivenLast /\ AttachedOver /\ AddressSeen /\ GivenAsListed /\ CopiesAccounted
  BY UploadAssumption DEF UploadInit, UploadTypes, CallRecords, HostCopies, GivenRecords, AttachedOver, AddressSeen, LookedAt,
     Waiting, Fresh, NoPage, ShownPages, Nothing, KeptAsListed, GivenLast, GivenAsListed, CopiesAccounted
<1>2. Asked = {}
  BY DEF UploadInit, Fresh, Asked
<1>3. QuestionsBounded
  BY <1>2, FS_EmptySet, UploadAssumption DEF QuestionsBounded
<1>4. QED
  BY <1>1, <1>3 DEF UploadInv

\* No question is opened but by Consent.
LEMMA NoQuestionMore ==
  ASSUME UploadInv,
         \A u \in UploadCalls : upload'[u].at = "asked" => upload[u].at = "asked"
  PROVE  QuestionsBounded'
<1>1. Asked' \subseteq Asked /\ Asked \subseteq UploadCalls
  BY DEF Asked
<1>2. IsFiniteSet(Asked)
  BY <1>1, FS_Subset, UploadAssumption
<1>3. Cardinality(Asked') <= Cardinality(Asked) /\ Cardinality(Asked) \in Nat /\ Cardinality(Asked') \in Nat
  BY <1>1, <1>2, FS_Subset, FS_CardinalityType
<1>4. QED
  BY <1>3, UploadAssumption DEF UploadInv, QuestionsBounded

\* A step of one call, by what it leaves of the call, the host's copy and what was given.
OthersKept(u) ==
  /\ \A v \in UploadCalls \ {u} : upload'[v] = upload[v] /\ copies'[v] = copies[v] /\ given'[v] = given[v]
  /\ holding' \in {holding, holding \cup {u}}
  /\ UNCHANGED <<pages, strayed, file, changes>>
OwnTypes(u) ==
  /\ upload' \in [UploadCalls -> CallRecords] /\ copies' \in [UploadCalls -> HostCopies] /\ given' \in [UploadCalls -> GivenRecords]
LEMMA OneCall ==
  ASSUME UploadInv, NEW u \in UploadCalls, OwnTypes(u), OthersKept(u),
         copies'[u].is # "none" => copies'[u].file = upload'[u].file,
         given'[u].file # 0 => upload'[u].at \in {"handed", "over"},
         GivenRight(u)', LookedAt(u)',
         copies'[u] # Nothing => upload'[u].at \in Waiting \/ u \in holding',
         u \in holding' => upload'[u].at = "over",
         upload'[u].at # "asked"
  PROVE  UploadInv'
<1>1. UploadTypes'
  BY DEF UploadInv, UploadTypes, OwnTypes, OthersKept
<1>2. KeptAsListed' /\ GivenLast'
  BY DEF UploadInv, KeptAsListed, GivenLast, OthersKept
<1>3. AttachedOver'
  BY DEF UploadInv, UploadTypes, AttachedOver, OthersKept
<1>4. GivenAsListed' /\ AddressSeen'
  BY DEF UploadInv, GivenAsListed, GivenRight, AddressSeen, LookedAt, OthersKept
<1>5. CopiesAccounted'
  BY DEF UploadInv, CopiesAccounted, Held, OthersKept
<1>6. QuestionsBounded'
  BY NoQuestionMore DEF OthersKept
<1>7. QED
  BY <1>1, <1>2, <1>3, <1>4, <1>5, <1>6 DEF UploadInv

\* The records of a call, before a step of it.
CallIs(u) ==
  /\ upload \in [UploadCalls -> CallRecords] /\ copies \in [UploadCalls -> HostCopies] /\ given \in [UploadCalls -> GivenRecords]
  /\ upload[u] \in CallRecords /\ copies[u] \in HostCopies /\ given[u] \in GivenRecords /\ pages[TabOf[u]] \in ShownPages /\ file \in Nat
  /\ copies[u].is # "none" => copies[u].file = upload[u].file
  /\ given[u].file # 0 => upload[u].at \in {"handed", "over"}
  /\ GivenRight(u) /\ LookedAt(u)
  /\ copies[u] # Nothing => upload[u].at \in Waiting \/ u \in holding
  /\ u \in holding => upload[u].at = "over"
LEMMA CallFacts ==
  ASSUME UploadInv, NEW u \in UploadCalls
  PROVE  CallIs(u)
BY UploadAssumption DEF UploadInv, UploadTypes, KeptAsListed, GivenLast, GivenAsListed, GivenRight, AddressSeen, CopiesAccounted, AttachedOver, Held, CallIs

\* A step that only moves the call on.
LEMMA MoveOn ==
  ASSUME UploadInv, NEW u \in UploadCalls, NEW step \in Waiting, step # "asked",
         upload[u].at \in Waiting, upload[u].at # "handed",
         To(u, step), UNCHANGED <<copies, holding, given, pages, strayed, file, changes>>,
         step = "checked" => pages[TabOf[u]].url = upload[u].page.url
  PROVE  UploadInv'
<1>1. CallIs(u)
  BY CallFacts
<1>2. /\ upload' \in [UploadCalls -> CallRecords] /\ \A v \in UploadCalls \ {u} : upload'[v] = upload[v]
      /\ upload'[u].at = step /\ upload'[u].file = upload[u].file /\ upload'[u].page = upload[u].page
  BY <1>1 DEF CallIs, To, CallRecords
<1>3. OwnTypes(u) /\ OthersKept(u)
  BY <1>1, <1>2 DEF CallIs, OwnTypes, OthersKept
<1>4. given[u].file = 0 /\ u \notin holding
  BY <1>1 DEF CallIs, Waiting
<1>5. GivenRight(u)' /\ LookedAt(u)'
  BY <1>2, <1>4 DEF GivenRight, LookedAt
<1>6. QED
  BY <1>1, <1>2, <1>3, <1>4, <1>5, OneCall DEF CallIs

LEMMA LocateInv ==
  ASSUME UploadInv, NEW u \in UploadCalls, LocatePage(u)
  PROVE  UploadInv'
<1>1. CallIs(u)
  BY CallFacts
<1>2. /\ upload' \in [UploadCalls -> CallRecords] /\ \A v \in UploadCalls \ {u} : upload'[v] = upload[v]
      /\ upload'[u].at = "located"
  BY <1>1 DEF CallIs, LocatePage, CallRecords, Waiting
<1>3. UNCHANGED <<copies, holding, given, pages, strayed, file, changes>> /\ upload[u].at = "idle"
  BY DEF LocatePage
<1>4. OwnTypes(u) /\ OthersKept(u)
  BY <1>1, <1>2, <1>3 DEF CallIs, OwnTypes, OthersKept
<1>5. given[u].file = 0 /\ u \notin holding /\ copies[u] = Nothing
  BY <1>1, <1>3 DEF CallIs, Waiting
<1>6. copies'[u] = Nothing /\ copies'[u].is = "none" /\ given'[u].file = 0 /\ u \notin holding'
  BY <1>3, <1>5 DEF Nothing
<1>7. GivenRight(u)' /\ LookedAt(u)'
  BY <1>2, <1>6 DEF GivenRight, LookedAt
<1>8. QED
  BY <1>2, <1>4, <1>6, <1>7, OneCall

LEMMA DescribeInv ==
  ASSUME UploadInv, NEW u \in UploadCalls, Describe(u)
  PROVE  UploadInv'
<1>1. CallIs(u)
  BY CallFacts
<1>2. /\ upload' \in [UploadCalls -> CallRecords] /\ \A v \in UploadCalls \ {u} : upload'[v] = upload[v]
      /\ upload'[u].at = "described" /\ upload'[u].file = file
  BY <1>1 DEF CallIs, Describe, CallRecords, Waiting
<1>3. /\ copies' \in [UploadCalls -> HostCopies] /\ \A v \in UploadCalls \ {u} : copies'[v] = copies[v]
      /\ copies'[u].is = "listed" /\ copies'[u].file = file
  BY <1>1 DEF CallIs, Describe, HostCopies
<1>4. UNCHANGED <<holding, given, pages, strayed, file, changes>> /\ upload[u].at = "located"
  BY DEF Describe
<1>5. OwnTypes(u) /\ OthersKept(u)
  BY <1>1, <1>2, <1>3, <1>4 DEF CallIs, OwnTypes, OthersKept
<1>6. given[u].file = 0 /\ u \notin holding
  BY <1>1, <1>4 DEF CallIs, Waiting
<1>7. GivenRight(u)' /\ LookedAt(u)'
  BY <1>2, <1>4, <1>6 DEF GivenRight, LookedAt
<1>8. QED
  BY <1>2, <1>3, <1>4, <1>5, <1>6, <1>7, OneCall DEF Waiting

\* The copy is of what was listed, or nothing is kept.
LEMMA SnapshotInv ==
  ASSUME UploadInv, NEW u \in UploadCalls, Snapshot(u)
  PROVE  UploadInv'
<1>1. CallIs(u)
  BY CallFacts
<1>2. PICK step \in {"copied", "failed"} : To(u, step)
  BY DEF Snapshot
<1>3. /\ upload' \in [UploadCalls -> CallRecords] /\ \A v \in UploadCalls \ {u} : upload'[v] = upload[v]
      /\ upload'[u].at = step /\ upload'[u].file = upload[u].file
  BY <1>1, <1>2 DEF CallIs, To, CallRecords, Waiting
<1>4. /\ copies' \in [UploadCalls -> HostCopies] /\ \A v \in UploadCalls \ {u} : copies'[v] = copies[v]
      /\ copies'[u].is # "none" => copies'[u].file = upload[u].file
  <2>1. CASE copies[u] = [is |-> "listed", file |-> file]
    <3>1. copies' = [copies EXCEPT ![u].is = "copied"]
      BY <2>1 DEF Snapshot
    <3>2. copies[u].is = "listed"
      BY <2>1
    <3>3. QED
      BY <1>1, <3>1, <3>2 DEF CallIs, HostCopies
  <2>2. CASE copies[u] # [is |-> "listed", file |-> file]
    <3>1. copies' = [copies EXCEPT ![u] = Nothing]
      BY <2>2 DEF Snapshot
    <3>2. QED
      BY <1>1, <3>1 DEF CallIs, HostCopies, Nothing
  <2>3. QED
    BY <2>1, <2>2
<1>5. UNCHANGED <<holding, given, pages, strayed, file, changes>> /\ upload[u].at = "approved"
  BY DEF Snapshot
<1>6. OwnTypes(u) /\ OthersKept(u)
  BY <1>1, <1>3, <1>4, <1>5 DEF CallIs, OwnTypes, OthersKept
<1>7. given[u].file = 0 /\ u \notin holding
  BY <1>1, <1>5 DEF CallIs, Waiting
<1>8. GivenRight(u)' /\ LookedAt(u)'
  BY <1>3, <1>5, <1>7 DEF GivenRight, LookedAt
<1>9. QED
  BY <1>3, <1>4, <1>5, <1>6, <1>7, <1>8, OneCall DEF Waiting

\* What is handed over is a copy the host still keeps, in the document that was
\* located or on what the tab shows.
LEMMA HandOverInv ==
  ASSUME UploadInv, NEW u \in UploadCalls, HandOver(u)
  PROVE  UploadInv'
<1> DEFINE now == pages[TabOf[u]]
           reached == now # NoPage /\ (u \in DragCalls \/ now.doc = upload[u].page.doc)
<1>1. CallIs(u)
  BY CallFacts
<1>2. UNCHANGED <<copies, holding, pages, strayed, file, changes>> /\ upload[u].at = "checked"
  BY DEF HandOver
<1>3. CASE reached /\ copies[u].is = "copied"
  <2>1. To(u, "handed") /\ given' = [given EXCEPT ![u] = [page |-> now, file |-> copies[u].file]]
    BY <1>3 DEF HandOver
  <2>2. /\ upload' \in [UploadCalls -> CallRecords] /\ \A v \in UploadCalls \ {u} : upload'[v] = upload[v]
        /\ upload'[u].at = "handed" /\ upload'[u].file = upload[u].file /\ upload'[u].page = upload[u].page
    BY <1>1, <2>1 DEF CallIs, To, CallRecords, Waiting
  <2>3. /\ given' \in [UploadCalls -> GivenRecords] /\ \A v \in UploadCalls \ {u} : given'[v] = given[v]
        /\ given'[u].page = now /\ given'[u].file = copies[u].file
    BY <1>1, <2>1 DEF CallIs, GivenRecords, HostCopies
  <2>4. OwnTypes(u) /\ OthersKept(u)
    BY <1>1, <1>2, <2>2, <2>3 DEF CallIs, OwnTypes, OthersKept
  <2>5. copies[u].file = upload[u].file /\ u \notin holding
    BY <1>1, <1>2, <1>3 DEF CallIs
  <2>6. GivenRight(u)' /\ LookedAt(u)'
    <3>1. u \in DragCalls => now.url = upload[u].page.url \/ u \in strayed
      BY <1>1, <1>2 DEF CallIs, LookedAt
    <3>2. u \notin DragCalls => now.doc = upload[u].page.doc
      BY <1>3
    <3>3. QED
      BY <1>2, <2>2, <2>3, <2>5, <3>1, <3>2 DEF GivenRight, LookedAt
  <2>7. QED
    BY <1>1, <1>2, <2>2, <2>3, <2>4, <2>5, <2>6, OneCall DEF Waiting, CallIs
<1>4. CASE ~(reached /\ copies[u].is = "copied")
  <2>1. To(u, "failed") /\ UNCHANGED given
    BY <1>4 DEF HandOver
  <2>2. QED
    BY <1>2, <2>1, MoveOn DEF Waiting
<1>5. QED
  BY <1>3, <1>4

LEMMA NoteAttachedInv ==
  ASSUME UploadInv, NEW u \in UploadCalls, NoteAttached(u)
  PROVE  UploadInv'
<1>1. CallIs(u)
  BY CallFacts
<1>2. /\ upload' \in [UploadCalls -> CallRecords] /\ \A v \in UploadCalls \ {u} : upload'[v] = upload[v]
      /\ upload'[u].at = "over" /\ upload'[u].file = upload[u].file /\ upload'[u].page = upload[u].page
  BY <1>1 DEF CallIs, NoteAttached, To, CallRecords
<1>3. UNCHANGED <<copies, given, pages, strayed, file, changes>> /\ holding' = holding \cup {u}
  BY DEF NoteAttached
<1>4. OwnTypes(u) /\ OthersKept(u)
  BY <1>1, <1>2, <1>3 DEF CallIs, OwnTypes, OthersKept
<1>5. GivenRight(u)' /\ LookedAt(u)'
  BY <1>1, <1>2, <1>3 DEF CallIs, GivenRight, LookedAt, NoteAttached
<1>6. QED
  BY <1>1, <1>2, <1>3, <1>4, <1>5, OneCall DEF CallIs

LEMMA ReleaseInv ==
  ASSUME UploadInv, NEW u \in UploadCalls, Release(u)
  PROVE  UploadInv'
<1>1. CallIs(u)
  BY CallFacts
<1>2. /\ upload' \in [UploadCalls -> CallRecords] /\ \A v \in UploadCalls \ {u} : upload'[v] = upload[v]
      /\ upload'[u].at = "over"
  BY <1>1 DEF CallIs, Release, To, CallRecords
<1>3. /\ copies' \in [UploadCalls -> HostCopies] /\ \A v \in UploadCalls \ {u} : copies'[v] = copies[v]
      /\ copies'[u] = Nothing /\ copies'[u].is = "none"
  BY <1>1 DEF CallIs, Release, HostCopies, Nothing
<1>4. UNCHANGED <<holding, given, pages, strayed, file, changes>> /\ upload[u].at = "failed"
  BY DEF Release
<1>5. OwnTypes(u) /\ OthersKept(u)
  BY <1>1, <1>2, <1>3, <1>4 DEF CallIs, OwnTypes, OthersKept
<1>6. given[u].file = 0 /\ u \notin holding
  BY <1>1, <1>4 DEF CallIs
<1>7. GivenRight(u)' /\ LookedAt(u)'
  BY <1>2, <1>4, <1>6 DEF GivenRight, LookedAt
<1>8. QED
  BY <1>2, <1>3, <1>4, <1>5, <1>6, <1>7, OneCall

LEMMA CallStep ==
  ASSUME UploadInv, NEW u \in UploadCalls,
         \/ LocatePage(u) \/ Describe(u) \/ Settle(u, "approved") \/ Settle(u, "failed") \/ Snapshot(u)
         \/ CheckPage(u) \/ HandOver(u) \/ NoteAttached(u) \/ Release(u)
  PROVE  UploadInv'
<1>1. ASSUME NEW step \in {"approved", "failed"}, Settle(u, step) PROVE UploadInv'
  BY <1>1, MoveOn DEF Settle, Waiting
<1>2. CASE CheckPage(u)
  <2>1. PICK step \in {"checked", "failed"} :
          To(u, step) /\ (step = "checked" => pages[TabOf[u]].url = upload[u].page.url)
    BY <1>2 DEF CheckPage
  <2>2. QED
    BY <1>2, <2>1, MoveOn DEF CheckPage, Waiting
<1>3. QED
  BY <1>1, <1>2, LocateInv, DescribeInv, SnapshotInv, HandOverInv, NoteAttachedInv, ReleaseInv

\* A question is opened only where there is room for it.
LEMMA ConsentInv ==
  ASSUME UploadInv, NEW u \in UploadCalls, Consent(u)
  PROVE  UploadInv'
<1>1. CallIs(u)
  BY CallFacts
<1>2. UNCHANGED <<copies, holding, given, pages, strayed, file, changes>> /\ upload[u].at = "described"
  BY DEF Consent
<1>3. CASE To(u, "approved") \/ To(u, "failed")
  <2>1. PICK step \in {"approved", "failed"} : To(u, step)
    BY <1>3
  <2>2. QED
    BY <1>2, <2>1, MoveOn DEF Waiting
<1>4. CASE To(u, "asked") /\ ~(Cardinality(Asked) >= QuestionLimit)
  <2>1. /\ upload' \in [UploadCalls -> CallRecords] /\ \A v \in UploadCalls \ {u} : upload'[v] = upload[v]
        /\ upload'[u].at = "asked" /\ upload'[u].file = upload[u].file /\ upload'[u].page = upload[u].page
    BY <1>1, <1>4 DEF CallIs, To, CallRecords, Waiting
  <2>2. given[u].file = 0 /\ u \notin holding
    BY <1>1, <1>2 DEF CallIs
  <2>3. UploadTypes' /\ AttachedOver'
    BY <1>2, <2>1, <2>2 DEF UploadInv, UploadTypes, AttachedOver
  <2>4. KeptAsListed' /\ GivenLast' /\ GivenAsListed' /\ AddressSeen'
    BY <1>2, <2>1, <2>2 DEF UploadInv, KeptAsListed, GivenLast, GivenAsListed, AddressSeen, LookedAt
  <2>5. CopiesAccounted'
    BY <1>2, <2>1 DEF UploadInv, CopiesAccounted, Held, Waiting
  <2>6. IsFiniteSet(Asked) /\ Cardinality(Asked) \in Nat
    BY FS_Subset, FS_CardinalityType, UploadAssumption DEF Asked
  <2>7. Asked' = Asked \cup {u} /\ u \notin Asked
    BY <1>2, <2>1 DEF Asked
  <2>8. Cardinality(Asked') = Cardinality(Asked) + 1
    BY <2>6, <2>7, FS_AddElement
  <2>9. QED
    BY <1>4, <2>3, <2>4, <2>5, <2>6, <2>8, UploadAssumption DEF UploadInv, QuestionsBounded
<1>5. QED
  BY <1>3, <1>4 DEF Consent

\* What happens around the calls takes copies away, or changes what nobody has noted.
LEMMA AroundInv ==
  ASSUME UploadInv, UNCHANGED <<upload, given>>, holding' \subseteq holding,
         copies' \in [UploadCalls -> HostCopies],
         \A u \in UploadCalls : copies'[u] = Nothing \/ (copies'[u] = copies[u] /\ (u \in holding => u \in holding')),
         pages' \in [UploadTabs -> ShownPages], file' \in Nat, changes' \in Nat, strayed \subseteq strayed',
         \A u \in UploadCalls : upload[u].at = "checked" => pages'[TabOf[u]].url = pages[TabOf[u]].url \/ u \in strayed'
  PROVE  UploadInv'
<1>1. UploadTypes' /\ KeptAsListed' /\ GivenLast' /\ AttachedOver' /\ GivenAsListed' /\ CopiesAccounted'
  BY DEF UploadInv, AttachedOver, HostCopies, UploadTypes, KeptAsListed, GivenLast, GivenAsListed, CopiesAccounted, Nothing, Held
<1>2. AddressSeen'
  BY DEF UploadInv, AddressSeen, LookedAt
<1>3. QED
  BY <1>1, <1>2, NoQuestionMore DEF UploadInv

LEMMA UploadInvStep == UploadInv /\ [UploadNext]_uploadVars => UploadInv'
<1> SUFFICES ASSUME UploadInv, [UploadNext]_uploadVars PROVE UploadInv'
  OBVIOUS
<1> USE DEF UploadInv
<1>1. ASSUME NEW t \in UploadTabs, NEW next \in NextPages(pages[t]), LeavePage(t, next) PROVE UploadInv'
  <2>1. next \in ShownPages
    BY DEF NextPages, NoPage, ShownPages, UploadTypes
  <2>2. pages' = [pages EXCEPT ![t] = next] /\ changes' \in Nat /\ UNCHANGED <<upload, given, file>>
    BY <1>1 DEF LeavePage, Change, UploadTypes
  <2>3. pages' \in [UploadTabs -> ShownPages] /\ \A v \in UploadTabs : v # t => pages'[v] = pages[v]
    BY <2>1, <2>2 DEF UploadTypes
  <2>4. CASE next.url = pages[t].url
    <3>1. UNCHANGED <<copies, holding, strayed>> /\ pages'[t].url = pages[t].url
      BY <1>1, <2>2, <2>4 DEF LeavePage, UploadTypes
    <3>2. QED
      BY <2>2, <2>3, <3>1, AroundInv, UploadAssumption DEF UploadTypes
  <2>5. CASE next.url # pages[t].url
    <3> DEFINE leaving == {u \in holding : TabOf[u] = t}
    <3>1. /\ holding' = holding \ leaving
          /\ copies' = [u \in UploadCalls |-> IF u \in leaving THEN Nothing ELSE copies[u]]
          /\ strayed' = strayed \cup {u \in UploadCalls : TabOf[u] = t /\ upload[u].at = "checked"}
      BY <1>1, <2>5 DEF LeavePage, ReleaseTab
    <3>2. \A u \in UploadCalls : upload[u].at = "checked" => pages'[TabOf[u]].url = pages[TabOf[u]].url \/ u \in strayed'
      BY <2>3, <3>1, UploadAssumption
    <3> HIDE DEF leaving
    <3>3. copies' \in [UploadCalls -> HostCopies]
      BY <3>1 DEF UploadTypes, HostCopies, Nothing
    <3>4. QED
      BY <2>2, <2>3, <3>1, <3>2, <3>3, AroundInv DEF UploadTypes
  <2>6. QED
    BY <2>4, <2>5
<1>2. CASE EditFile \/ SetAllowAll
  BY <1>2, AroundInv DEF EditFile, SetAllowAll, Change, UploadTypes
<1>3. ASSUME NEW u \in UploadCalls, HostTimer(u) PROVE UploadInv'
  <2>1. copies' = [copies EXCEPT ![u] = Nothing] /\ changes' \in Nat
    BY <1>3 DEF HostTimer, Change, UploadTypes
  <2>2. copies' \in [UploadCalls -> HostCopies]
    BY <2>1 DEF UploadTypes, HostCopies, Nothing
  <2>3. QED
    BY <1>3, <2>1, <2>2, AroundInv DEF HostTimer, UploadTypes
<1>4. CASE HostExits
  <2>1. copies' = [u \in UploadCalls |-> Nothing] /\ changes' \in Nat
    BY <1>4 DEF HostExits, Change, UploadTypes
  <2>2. copies' \in [UploadCalls -> HostCopies]
    BY <2>1 DEF UploadTypes, HostCopies, Nothing
  <2>3. QED
    BY <1>4, <2>1, <2>2, AroundInv DEF HostExits, UploadTypes
<1>5. CASE UNCHANGED uploadVars
  BY <1>5, AroundInv DEF uploadVars, UploadTypes
<1>6. QED
  BY <1>1, <1>2, <1>3, <1>4, <1>5, CallStep, ConsentInv DEF UploadNext

\* upload-gate.ts, uploads.ts: pages get the files that were listed, a file input in the
\* document that was located and a drag at the address last looked at, copies are
\* accounted for, and questions stay within their limit, for any calls and tabs.
THEOREM UploadsTheorem == UploadSpec => []UploadsSound
<1>1. UploadInit => UploadInv
  BY UploadInitInv
<1>2. UploadInv /\ [UploadNext]_uploadVars => UploadInv'
  BY UploadInvStep
<1>3. UploadInv => UploadsSound
  BY DEF UploadInv, UploadsSound
<1>4. QED
  BY <1>1, <1>2, <1>3, PTL DEF UploadSpec

-----------------------------------------------------------------------------
(***************************************************************************)
(* The decisions.  A question that is asked is its host's, and the provider *)
(* an image was queued with was made to send images.                       *)
(***************************************************************************)
Passive == {"new", "joined", "done"}
Active == {"text", "textQueued", "textSent", "unsure", "captured", "image", "imageQueued", "imageSent"}
Providers == [kind : {"none", "text", "image"}, images : BOOLEAN, other : {1, 2}]
Questions == [pc : Passive \cup Active, images : BOOLEAN, provider : Providers]

DecisionTypes ==
    /\ settings \in Settings /\ slot \in [Hosts -> Providers]
    /\ question \in [Searches -> Questions] /\ asking \in [Topics -> Searches \cup {Nobody}]

\* A question is its host's, and the provider an image was queued with was made to send images.
AskedByLeader == \A s \in Searches : question[s].pc \in Active => Leader(s)
QueuedForImages == \A s \in Searches : question[s].pc = "imageQueued" => question[s].provider.images

DecisionInv == DecisionTypes /\ AskedByLeader /\ JoinedIsAnswered /\ QueuedForImages

LEMMA DecisionInitInv == DecisionInit => DecisionInv
<1> SUFFICES ASSUME DecisionInit PROVE DecisionInv
  OBVIOUS
<1>1. NoProvider \in Providers /\ Unasked \in Questions /\ Unasked.pc = "new"
  BY DEF NoProvider, Providers, Unasked, Questions, Passive
<1>2. settings \in Settings
  BY DEF DecisionInit
<1>3. DecisionTypes
  BY <1>1, <1>2 DEF DecisionInit, DecisionTypes
<1>4. AskedByLeader /\ JoinedIsAnswered /\ QueuedForImages
  BY <1>1 DEF DecisionInit, AskedByLeader, JoinedIsAnswered, QueuedForImages, Active
<1>5. QED
  BY <1>3, <1>4 DEF DecisionInv

\* The question of the leader moves on, or is given up for everyone who joined it.
Moved(s) ==
    /\ question' \in [Searches -> Questions] /\ \A t \in Searches \ {s} : question'[t] = question[t]
    /\ question'[s].pc \in Active /\ question'[s].images = question[s].images /\ UNCHANGED asking
    /\ question'[s].pc = "imageQueued" => question'[s].provider.images
LEMMA QuestionMovedInv ==
  ASSUME DecisionInv, NEW s \in Searches, Leader(s), Moved(s), settings' \in Settings,
         slot' \in [Hosts -> Providers]
  PROVE  DecisionInv'
<1>1. DecisionTypes'
  BY DEF DecisionInv, DecisionTypes, Moved
<1>2. \A t \in Searches : Topic(t)' = Topic(t)
  BY DEF Moved, Topic
<1>3. AskedByLeader'
  BY <1>2 DEF DecisionInv, AskedByLeader, Moved, Leader
<1>4. JoinedIsAnswered'
  BY <1>2 DEF DecisionInv, JoinedIsAnswered, Moved, Active
<1>5. QueuedForImages'
  BY DEF DecisionInv, QueuedForImages, Moved
<1>6. QED
  BY <1>1, <1>3, <1>4, <1>5 DEF DecisionInv

LEMMA TopicsOf == DecisionTypes => \A s \in Searches : Topic(s) \in Topics
BY DecisionAssumption DEF DecisionTypes, Questions, Topic, Topics

LEMMA FinishFacts ==
  ASSUME DecisionInv, NEW s \in Searches, Finish(s)
  PROVE  /\ question' \in [Searches -> Questions]
         /\ \A t \in Searches : \/ question'[t].pc = "done"
                                \/ /\ question'[t] = question[t] /\ t # s
                                   /\ question[t].pc = "joined" => Topic(t) # Topic(s)
         /\ asking' = [asking EXCEPT ![Topic(s)] = Nobody]
<1> DEFINE done == [Unasked EXCEPT !.pc = "done"]
<1>1. done \in Questions /\ done.pc = "done"
  BY DEF Unasked, NoProvider, Providers, Questions, Passive
<1>2. question' = [t \in Searches |-> IF t = s \/ (Topic(t) = Topic(s) /\ question[t].pc = "joined")
                                      THEN done ELSE question[t]]
  BY DEF Finish
<1>3. asking' = [asking EXCEPT ![Topic(s)] = Nobody]
  BY DEF Finish
<1> HIDE DEF done
<1>4. QED
  BY <1>1, <1>2, <1>3 DEF DecisionInv, DecisionTypes

LEMMA FinishInv ==
  ASSUME DecisionInv, NEW s \in Searches, Leader(s), Finish(s), settings' \in Settings,
         slot' \in [Hosts -> Providers]
  PROVE  DecisionInv'
<1>1. /\ question' \in [Searches -> Questions]
      /\ \A t \in Searches : \/ question'[t].pc = "done"
                             \/ /\ question'[t] = question[t] /\ t # s
                                /\ question[t].pc = "joined" => Topic(t) # Topic(s)
      /\ asking' = [asking EXCEPT ![Topic(s)] = Nobody]
  BY FinishFacts
<1>2. asking \in [Topics -> Searches \cup {Nobody}] /\ \A t \in Searches : Topic(t) \in Topics
  BY TopicsOf DEF DecisionInv, DecisionTypes
<1>3. DecisionTypes'
  BY <1>1, <1>2 DEF DecisionInv, DecisionTypes
<1>4. \A t \in Searches : Topic(t) # Topic(s) => asking'[Topic(t)] = asking[Topic(t)]
  BY <1>1, <1>2
<1>5. \A t \in Searches : Leader(t) /\ t # s => Topic(t) # Topic(s)
  BY DEF Leader
<1>6. \A t \in Searches : question'[t] = question[t] => Topic(t)' = Topic(t)
  BY DEF Topic
<1>7. AskedByLeader'
  BY <1>1, <1>4, <1>5, <1>6 DEF DecisionInv, AskedByLeader, Leader, Active
<1>8. JoinedIsAnswered'
  BY <1>1, <1>4, <1>6 DEF DecisionInv, JoinedIsAnswered
<1>9. QueuedForImages'
  BY <1>1 DEF DecisionInv, QueuedForImages
<1>10. QED
  BY <1>3, <1>7, <1>8, <1>9 DEF DecisionInv

LEMMA GotoMoved ==
  ASSUME DecisionInv, NEW s \in Searches, NEW pc \in Active, pc # "imageQueued", Goto(s, pc), UNCHANGED asking
  PROVE  Moved(s)
BY DEF DecisionInv, DecisionTypes, Goto, Questions, Moved

\* decideSearch dispatches to the provider the host has kept, or to a new one.
LEMMA DispatchMoved ==
  ASSUME DecisionInv, NEW s \in Searches, NEW kind \in {"text", "image"}, NEW pc \in {"textQueued", "imageQueued"},
         Employ(s, kind, pc), UNCHANGED asking, pc = "imageQueued" => settings.images
  PROVE  Moved(s) /\ slot' \in [Hosts -> Providers]
<1> DEFINE p == Provider(HostOf[s], kind)
<1>1. HostOf[s] \in Hosts /\ slot[HostOf[s]] \in Providers
  BY DecisionAssumption DEF DecisionInv, DecisionTypes
<1>2. p \in Providers /\ p.images = settings.images
  BY <1>1 DEF DecisionInv, DecisionTypes, Settings, Providers, Provider, Fitting
<1>3. /\ slot' = [slot EXCEPT ![HostOf[s]] = p]
      /\ question' = [question EXCEPT ![s].pc = pc, ![s].provider = p]
  BY DEF Employ
<1> HIDE DEF p
<1>4. slot' \in [Hosts -> Providers]
  BY <1>2, <1>3 DEF DecisionInv, DecisionTypes
<1>5. /\ question' \in [Searches -> Questions] /\ \A t \in Searches \ {s} : question'[t] = question[t]
      /\ question'[s].pc = pc /\ question'[s].images = question[s].images /\ question'[s].provider = p
  BY <1>2, <1>3 DEF DecisionInv, DecisionTypes, Questions, Active
<1>6. QED
  BY <1>2, <1>4, <1>5 DEF Moved, Active

LEMMA SendMoved ==
  ASSUME DecisionInv, NEW s \in Searches, NEW sent \in {"textSent", "imageSent"},
         question' = [question EXCEPT ![s].pc = sent, ![s].provider = NoProvider], UNCHANGED asking
  PROVE  Moved(s) /\ question'[s].pc = sent
<1>1. NoProvider \in Providers
  BY DEF NoProvider, Providers
<1>2. /\ question' \in [Searches -> Questions] /\ \A t \in Searches \ {s} : question'[t] = question[t]
      /\ question'[s].pc = sent /\ question'[s].images = question[s].images
  BY <1>1 DEF DecisionInv, DecisionTypes, Questions, Active
<1>3. QED
  BY <1>2 DEF Moved, Active

\* A search is answered at once, joins the question that is asked, or asks one.
LEMMA SearchInv ==
  ASSUME DecisionInv, NEW s \in Searches, Search(s)
  PROVE  /\ DecisionInv'
         /\ \A t \in Searches : question'[t].pc # question[t].pc => question'[t].pc \notin {"textSent", "imageSent"}
<1> DEFINE topic == <<HostOf[s], settings.images>>
<1>1. /\ question \in [Searches -> Questions] /\ asking \in [Topics -> Searches \cup {Nobody}] /\ topic \in Topics
      /\ UNCHANGED <<settings, slot>> /\ question[s].pc = "new"
  BY DecisionAssumption DEF Search, DecisionInv, DecisionTypes, Settings, Topics
<1>2. \A t \in Searches : Topic(t) \in Topics
  BY TopicsOf DEF DecisionInv
<1>3. CASE Goto(s, "done") /\ UNCHANGED asking
  <2>1. /\ question' \in [Searches -> Questions] /\ \A t \in Searches \ {s} : question'[t] = question[t]
        /\ question'[s].pc = "done"
    BY <1>1, <1>3 DEF Goto, Questions, Passive
  <2>2. DecisionTypes'
    BY <1>1, <1>3, <2>1 DEF DecisionInv, DecisionTypes
  <2>3. AskedByLeader' /\ JoinedIsAnswered' /\ QueuedForImages'
    BY <1>3, <2>1 DEF DecisionInv, AskedByLeader, JoinedIsAnswered, QueuedForImages, Leader, Topic, Active
  <2>4. QED
    BY <2>1, <2>2, <2>3 DEF DecisionInv
<1>4. ASSUME NEW pc \in {"joined", "unsure", "text"}, Raise(s, pc)
      PROVE  /\ question' \in [Searches -> Questions] /\ \A t \in Searches \ {s} : question'[t] = question[t]
             /\ question'[s].pc = pc /\ Topic(s)' = topic /\ \A t \in Searches \ {s} : Topic(t)' = Topic(t)
  <2> DEFINE q == [Unasked EXCEPT !.pc = pc, !.images = settings.images]
  <2>1. q \in Questions /\ q.pc = pc /\ q.images = settings.images
    BY DEF DecisionInv, DecisionTypes, Settings, Unasked, NoProvider, Providers, Questions, Active, Passive
  <2>2. question' = [question EXCEPT ![s] = q]
    BY <1>4 DEF Raise
  <2> HIDE DEF q
  <2>3. /\ question' \in [Searches -> Questions] /\ \A t \in Searches \ {s} : question'[t] = question[t]
        /\ question'[s] = q
    BY <1>1, <2>1, <2>2
  <2>4. QED
    BY <2>1, <2>3 DEF Topic
<1>5. CASE Raise(s, "joined") /\ asking[topic] # Nobody /\ UNCHANGED asking
  <2>1. /\ question' \in [Searches -> Questions] /\ \A t \in Searches \ {s} : question'[t] = question[t]
        /\ question'[s].pc = "joined" /\ Topic(s)' = topic /\ \A t \in Searches \ {s} : Topic(t)' = Topic(t)
    BY <1>4, <1>5
  <2>2. DecisionTypes'
    BY <1>1, <1>5, <2>1 DEF DecisionInv, DecisionTypes
  <2>3. AskedByLeader' /\ JoinedIsAnswered' /\ QueuedForImages'
    BY <1>5, <2>1 DEF DecisionInv, AskedByLeader, JoinedIsAnswered, QueuedForImages, Leader, Active
  <2>4. QED
    BY <2>1, <2>2, <2>3 DEF DecisionInv
<1>6. ASSUME NEW pc \in {"unsure", "text"},
             asking[topic] = Nobody, asking' = [asking EXCEPT ![topic] = s], Raise(s, pc)
      PROVE  /\ DecisionInv'
             /\ \A t \in Searches : question'[t].pc # question[t].pc => question'[t].pc \notin {"textSent", "imageSent"}
  <2>1. /\ question' \in [Searches -> Questions] /\ \A t \in Searches \ {s} : question'[t] = question[t]
        /\ question'[s].pc = pc /\ Topic(s)' = topic /\ \A t \in Searches \ {s} : Topic(t)' = Topic(t)
    BY <1>4, <1>6
  <2>2. /\ asking' \in [Topics -> Searches \cup {Nobody}] /\ asking'[topic] = s
        /\ \A k \in Topics \ {topic} : asking'[k] = asking[k]
    BY <1>1, <1>6
  <2>3. \A t \in Searches : Leader(t) => Topic(t) # topic
    BY <1>6, DecisionAssumption DEF Leader
  <2>4. DecisionTypes'
    BY <1>1, <2>1, <2>2 DEF DecisionInv, DecisionTypes
  <2>5. AskedByLeader'
    BY <1>2, <2>1, <2>2, <2>3 DEF DecisionInv, AskedByLeader, Leader
  <2>6. JoinedIsAnswered'
    BY <1>2, <2>1, <2>2, DecisionAssumption DEF DecisionInv, JoinedIsAnswered
  <2>7. QueuedForImages'
    BY <2>1 DEF DecisionInv, QueuedForImages
  <2>8. QED
    BY <2>1, <2>4, <2>5, <2>6, <2>7 DEF DecisionInv
<1> DEFINE First(pc) == asking' = [asking EXCEPT ![topic] = s] /\ Raise(s, pc)
<1>7. \/ Goto(s, "done") /\ UNCHANGED asking
      \/ Raise(s, "joined") /\ asking[topic] # Nobody /\ UNCHANGED asking
      \/ asking[topic] = Nobody /\ (First("unsure") \/ First("text"))
  BY DEF Search
<1>8. QED
  BY <1>3, <1>5, <1>6, <1>7

\* What is sent, whichever step it is.
Sent(s) == /\ question'[s].pc = "textSent" => settings.ready
           /\ question'[s].pc = "imageSent" => settings.ready /\ settings.images
UnderConsent == \A s \in Searches : question'[s].pc # question[s].pc => Sent(s)

LEMMA MovedSent ==
  ASSUME NEW s \in Searches, Moved(s) \/ (DecisionInv /\ Finish(s)), Sent(s)
  PROVE  UnderConsent
BY FinishFacts DEF UnderConsent, Moved, Sent

LEMMA QuietSent ==
  ASSUME NEW s \in Searches,
         (Moved(s) /\ question'[s].pc \notin {"textSent", "imageSent"}) \/ (DecisionInv /\ Finish(s))
  PROVE  UnderConsent
BY FinishFacts, MovedSent DEF Sent

\* Every step of a question, with what it sends.
LEMMA QuestionStep ==
  ASSUME DecisionInv, NEW s \in Searches,
         \/ DecideText(s) \/ SendText(s) \/ TextAnswer(s)
         \/ Escalate(s) \/ Captured(s) \/ DecideImage(s) \/ SendImage(s) \/ ImageAnswer(s)
  PROVE  DecisionInv' /\ UnderConsent
<1>1. /\ settings \in Settings /\ slot \in [Hosts -> Providers] /\ settings' = settings /\ Leader(s)
  BY DEF DecisionInv, DecisionTypes, DecideText, SendText, SendQueued, TextAnswer, Escalate, Captured, DecideImage, SendImage,
     ImageAnswer
<1>2. CASE Finish(s) /\ UNCHANGED slot
  BY <1>1, <1>2, FinishInv, QuietSent
<1>3. ASSUME NEW pc \in Active, pc \notin {"imageQueued", "textSent", "imageSent"}, Goto(s, pc), UNCHANGED <<asking, slot>>
      PROVE  DecisionInv' /\ UnderConsent
  <2>1. Moved(s) /\ question'[s].pc = pc
    BY <1>3, GotoMoved DEF Goto, DecisionInv, DecisionTypes, Questions
  <2>2. QED
    BY <1>1, <1>3, <2>1, QuestionMovedInv, QuietSent
<1>4. CASE DecideText(s)
  <2>1. CASE Employ(s, "text", "textQueued") /\ UNCHANGED asking
    <3>1. Moved(s) /\ slot' \in [Hosts -> Providers]
      BY <2>1, DispatchMoved
    <3>2. question'[s].pc = "textQueued"
      BY <2>1 DEF Employ, DecisionInv, DecisionTypes, Questions
    <3>3. QED
      BY <1>1, <3>1, <3>2, QuestionMovedInv, QuietSent
  <2>2. QED
    BY <1>2, <1>4, <2>1 DEF DecideText
<1>5. CASE DecideImage(s)
  <2>1. CASE Employ(s, "image", "imageQueued") /\ settings.images /\ UNCHANGED asking
    <3>1. Moved(s) /\ slot' \in [Hosts -> Providers]
      BY <2>1, DispatchMoved
    <3>2. question'[s].pc = "imageQueued"
      BY <2>1 DEF Employ, DecisionInv, DecisionTypes, Questions
    <3>3. QED
      BY <1>1, <3>1, <3>2, QuestionMovedInv, QuietSent
  <2>2. QED
    BY <1>2, <1>5, <2>1 DEF DecideImage
<1>6. ASSUME NEW queued, NEW sent, <<queued, sent>> \in {<<"textQueued", "textSent">>, <<"imageQueued", "imageSent">>},
             SendQueued(s, queued, sent)
      PROVE  DecisionInv' /\ UnderConsent
  <2>1. CASE /\ CanSend(question[s].provider) /\ UNCHANGED asking
             /\ question' = [question EXCEPT ![s].pc = sent, ![s].provider = NoProvider]
    <3>1. Moved(s) /\ question'[s].pc = sent /\ sent \in {"textSent", "imageSent"}
      BY <1>6, <2>1, SendMoved
    <3>2. sent = "imageSent" => question[s].provider.images
      BY <1>6 DEF SendQueued, DecisionInv, QueuedForImages
    <3>3. Sent(s)
      BY <2>1, <3>1, <3>2 DEF Sent, CanSend
    <3>4. UNCHANGED slot
      BY <1>6 DEF SendQueued
    <3>5. QED
      BY <1>1, <3>1, <3>3, <3>4, QuestionMovedInv, MovedSent
  <2>2. CASE Finish(s)
    BY <1>2, <1>6, <2>2 DEF SendQueued
  <2>3. QED
    BY <1>6, <2>1, <2>2 DEF SendQueued
<1>7. CASE TextAnswer(s)
  BY <1>2, <1>3, <1>7 DEF TextAnswer, Active
<1>8. CASE Escalate(s)
  BY <1>2, <1>3, <1>8 DEF Escalate, Active
<1>9. CASE Captured(s)
  BY <1>2, <1>3, <1>9 DEF Captured, Active
<1>10. CASE ImageAnswer(s)
  BY <1>2, <1>10 DEF ImageAnswer
<1>11. QED
  BY <1>4, <1>5, <1>6, <1>7, <1>8, <1>9, <1>10 DEF SendText, SendImage

LEMMA DecisionStep ==
  DecisionInv /\ [DecisionNext]_decisionVars => DecisionInv' /\ UnderConsent
<1> SUFFICES ASSUME DecisionInv, [DecisionNext]_decisionVars PROVE DecisionInv' /\ UnderConsent
  OBVIOUS
<1>1. ASSUME UNCHANGED <<question, asking>>, settings' \in Settings, slot' \in [Hosts -> Providers]
      PROVE  DecisionInv' /\ UnderConsent
  BY <1>1 DEF DecisionInv, DecisionTypes, AskedByLeader, JoinedIsAnswered, QueuedForImages, Leader, Topic, UnderConsent
<1>2. settings \in Settings /\ slot \in [Hosts -> Providers]
  BY DEF DecisionInv, DecisionTypes
<1>3. ASSUME NEW s \in Settings, Save(s) PROVE DecisionInv' /\ UnderConsent
  <2>1. NoProvider \in Providers
    BY DEF NoProvider, Providers
  <2>2. slot' \in [Hosts -> Providers]
    BY <1>2, <1>3, <2>1 DEF Save
  <2>3. QED
    BY <1>1, <1>3, <2>2 DEF Save
<1>4. ASSUME NEW topic \in Topics, Expire(topic) PROVE DecisionInv' /\ UnderConsent
  BY <1>1, <1>2, <1>4 DEF Expire
<1>5. CASE Tick
  BY <1>1, <1>2, <1>5 DEF Tick
<1>6. CASE UNCHANGED decisionVars
  BY <1>1, <1>2, <1>6 DEF decisionVars
<1>7. ASSUME NEW s \in Searches, Search(s) PROVE DecisionInv' /\ UnderConsent
  BY <1>7, SearchInv DEF UnderConsent, Sent
<1>8. QED
  BY <1>3, <1>4, <1>5, <1>6, <1>7, QuestionStep DEF DecisionNext

LEMMA SharedFromInv == DecisionInv => QuestionsShared
BY DEF DecisionInv, DecisionTypes, AskedByLeader, JoinedIsAnswered, QuestionsShared, OneQuestion, Leader, Questions, Passive,
   Active

\* decisions/search.ts: nothing is sent that the user does not share at that moment,
\* and a host asks each question once at a time, which answers all who joined it, for any
\* searches and hosts.
THEOREM ConsentTheorem == DecisionSpec => SentUnderConsent
<1>1. DecisionInit => DecisionInv
  BY DecisionInitInv
<1>2. DecisionInv /\ [DecisionNext]_decisionVars => DecisionInv' /\ UnderConsent
  BY DecisionStep
<1>3. DecisionInv => QuestionsShared
  BY SharedFromInv
<1>4. UnderConsent =>
        [\A s \in Searches : question'[s].pc # question[s].pc =>
          /\ question'[s].pc = "textSent" => settings.ready
          /\ question'[s].pc = "imageSent" => settings.ready /\ settings.images]_decisionVars
  BY DEF UnderConsent, Sent
<1>5. QED
  BY <1>1, <1>2, <1>3, <1>4, PTL DEF DecisionSpec, SentUnderConsent, ConsentKept

-----------------------------------------------------------------------------
(***************************************************************************)
(* A command is performed once (DebuggerSession)                           *)
(***************************************************************************)

\* The command of a call is the last it sends, and nothing of it is performed before.
NotYet(c) == /\ domainCall[c].at \in {"idle", "attach", "send"} /\ performed[c] = 0
             /\ domainCall[c].at # "idle" => domainCall[c].next \in 1..LastOfCall(c)
CallEnded(c) == /\ domainCall[c].at \in {"over", "failed"} /\ performed[c] \in {0, 1}
                /\ domainCall[c].at = "over" => performed[c] = 1

CallRecord(call) == DOMAIN call = {"at", "set", "next", "again"}

DomainInv ==
  /\ domainCall = [c \in DomainCalls |-> domainCall[c]]
  /\ performed = [c \in DomainCalls |-> performed[c]]
  /\ \A c \in DomainCalls : CallRecord(domainCall[c]) /\ (NotYet(c) \/ CallEnded(c))

\* A call sends at least its command.
LEMMA LastFacts == ASSUME NEW c \in DomainCalls PROVE LastOfCall(c) \in Nat /\ LastOfCall(c) >= 1
<1>1. Len(WantedBy[c]) \in Nat
  BY DomainAssumption
<1> QED BY <1>1 DEF LastOfCall

\* The least of some numbers is one of them.
LEMMA LeastIsIn ==
  ASSUME NEW T, T \subseteq Nat, T # {}
  PROVE  Min(T) \in T
<1>1. PICK x \in T : \A y \in T : ~(<<y, x>> \in OpToRel(<, Nat))
  BY WFMin, NatLessThanWellFounded, Zenon
<1>2. ASSUME NEW y \in T PROVE x =< y
  <2>1. x \in Nat /\ y \in Nat /\ <<y, x>> \in Nat \X Nat
    OBVIOUS
  <2>2. ~(<<y, x>>[1] < <<y, x>>[2])
    BY <1>1, <2>1 DEF OpToRel
  <2> QED BY <2>1, <2>2
<1> QED BY <1>2 DEF Min

\* One call moves, and stays as it must be.
LEMMA OneDomainCall ==
  ASSUME DomainInv, NEW c \in DomainCalls, NEW call, CallRecord(call),
         domainCall' = [domainCall EXCEPT ![c] = call],
         performed' = performed \/ \E n : performed' = [performed EXCEPT ![c] = n],
         (NotYet(c) \/ CallEnded(c))'
  PROVE  DomainInv'
<1>1. /\ domainCall' = [d \in DomainCalls |-> domainCall'[d]] /\ domainCall'[c] = call
      /\ \A d \in DomainCalls \ {c} : domainCall'[d] = domainCall[d]
  BY DEF DomainInv
<1>2. /\ performed' = [d \in DomainCalls |-> performed'[d]]
      /\ \A d \in DomainCalls \ {c} : performed'[d] = performed[d]
  BY DEF DomainInv
<1>3. ASSUME NEW d \in DomainCalls PROVE (CallRecord(domainCall[d]) /\ (NotYet(d) \/ CallEnded(d)))'
  <2>1. CASE d = c
    BY <1>1, <2>1 DEF CallRecord
  <2>2. CASE d # c
    BY <1>1, <1>2, <2>2 DEF DomainInv, CallRecord, NotYet, CallEnded
  <2> QED BY <2>1, <2>2
<1> QED BY <1>1, <1>2, <1>3 DEF DomainInv

\* Where a call goes on from command i.
LEMMA GoOnFacts ==
  ASSUME DomainInv, NEW c \in DomainCalls, NEW set, NEW i \in Nat, i >= 1, NEW contents,
         GoOn(c, set, i, contents)
  PROVE  \E call : /\ CallRecord(call) /\ domainCall' = [domainCall EXCEPT ![c] = call] /\ domainCall'[c] = call
                   /\ i > LastOfCall(c) => call.at = "over"
                   /\ i <= LastOfCall(c) => call.at = "attach" /\ call.next \in 1..LastOfCall(c)
<1> DEFINE left == {j \in i .. LastOfCall(c) : j = LastOfCall(c) \/ WantedBy[c][j] \notin contents}
<1>1. LastOfCall(c) \in Nat /\ LastOfCall(c) >= 1
  BY LastFacts
<1>2. CASE i > LastOfCall(c)
  <2> DEFINE call == [domainCall[c] EXCEPT !.at = "over", !.set = 0]
  <2>1. CallRecord(domainCall[c]) /\ domainCall = [d \in DomainCalls |-> domainCall[d]]
    BY DEF DomainInv
  <2>2. ~(i <= LastOfCall(c))
    BY <1>1, <1>2
  <2>3. domainCall' = [domainCall EXCEPT ![c].at = "over", ![c].set = 0]
    BY <2>2 DEF GoOn
  <2>4. domainCall' = [domainCall EXCEPT ![c] = call]
    BY <2>1, <2>3 DEF CallRecord
  <2>5. call.at = "over" /\ CallRecord(call)
    BY <2>1 DEF CallRecord
  <2>6. domainCall'[c] = call
    BY <2>1, <2>4
  <2> HIDE DEF call
  <2> WITNESS call
  <2> QED BY <2>2, <2>4, <2>5, <2>6
<1>3. CASE i <= LastOfCall(c)
  <2> DEFINE call == [at |-> "attach", set |-> set, next |-> NextToRun(c, i, contents), again |-> FALSE]
  <2>1. domainCall' = [domainCall EXCEPT ![c] = call]
    BY <1>1, <1>3 DEF GoOn
  <2>2. left \subseteq Nat /\ LastOfCall(c) \in left /\ left \subseteq 1..LastOfCall(c)
    BY <1>1, <1>3
  <2>3. NextToRun(c, i, contents) \in 1..LastOfCall(c)
    <3>1. NextToRun(c, i, contents) = Min(left)
      BY DEF NextToRun
    <3> HIDE DEF left
    <3> QED BY <2>2, <3>1, LeastIsIn
  <2>4. CallRecord(call) /\ call.at = "attach" /\ call.next = NextToRun(c, i, contents)
    BY DEF CallRecord
  <2>5. domainCall'[c] = call
    BY <2>1 DEF DomainInv
  <2> HIDE DEF call
  <2> WITNESS call
  <2> QED BY <1>1, <1>3, <2>1, <2>3, <2>4, <2>5
<1> QED BY <1>1, <1>2, <1>3

\* A call that gives up skips a domain, or fails.
LEMMA GiveUpInv ==
  ASSUME DomainInv, NEW c \in DomainCalls, domainCall[c].at = "send", GiveUp(c),
         performed' = [performed EXCEPT ![c] = IF domainCall[c].next = LastOfCall(c) THEN @ + 1 ELSE @]
           \/ performed' = performed
  PROVE  DomainInv'
<1>1. /\ performed[c] = 0 /\ domainCall[c].next \in 1..LastOfCall(c) /\ LastOfCall(c) \in Nat /\ CallRecord(domainCall[c])
      /\ domainCall = [d \in DomainCalls |-> domainCall[d]] /\ performed = [d \in DomainCalls |-> performed[d]]
  BY LastFacts DEF DomainInv, NotYet, CallEnded
<1>2. performed' = performed \/ \E n : performed' = [performed EXCEPT ![c] = n]
  OBVIOUS
<1>3. performed'[c] \in {0, 1} /\ (domainCall[c].next # LastOfCall(c) => performed'[c] = 0)
  BY <1>1
<1>4. CASE domainCall[c].next < LastOfCall(c)
  <2>1. GoOn(c, domainCall[c].set, domainCall[c].next + 1, sets[domainCall[c].set])
    BY <1>4 DEF GiveUp
  <2>2. PICK call : /\ CallRecord(call) /\ domainCall' = [domainCall EXCEPT ![c] = call] /\ domainCall'[c] = call
                    /\ domainCall[c].next + 1 <= LastOfCall(c) => call.at = "attach" /\ call.next \in 1..LastOfCall(c)
    BY <1>1, <2>1, GoOnFacts
  <2>3. NotYet(c)'
    BY <1>1, <1>3, <1>4, <2>2 DEF NotYet, LastOfCall
  <2> QED BY <1>2, <2>2, <2>3, OneDomainCall
<1>5. CASE ~(domainCall[c].next < LastOfCall(c))
  <2> DEFINE call == [domainCall[c] EXCEPT !.at = "failed", !.set = 0]
  <2>1. domainCall' = [domainCall EXCEPT ![c] = call]
    BY <1>1, <1>5 DEF GiveUp
  <2>3. CallRecord(call) /\ domainCall'[c].at = "failed"
    BY <1>1, <2>1 DEF CallRecord
  <2>4. CallEnded(c)'
    BY <1>3, <2>3 DEF CallEnded
  <2> QED BY <1>2, <2>1, <2>3, <2>4, OneDomainCall
<1> QED BY <1>4, <1>5

\* Every step keeps the invariant.
LEMMA DomainStep == DomainInv /\ [DomainNext]_domainVars => DomainInv'
<1> SUFFICES ASSUME DomainInv, [DomainNext]_domainVars PROVE DomainInv'
  OBVIOUS
<1>1. CASE UNCHANGED <<domainCall, performed>>
  BY <1>1 DEF DomainInv, CallRecord, NotYet, CallEnded, LastOfCall
<1>2. ASSUME NEW c \in DomainCalls, EnableDomains(c) PROVE DomainInv'
  <2>1. PICK set, contents : GoOn(c, set, 1, contents)
    BY <1>2 DEF EnableDomains
  <2>2. PICK call : /\ CallRecord(call) /\ domainCall' = [domainCall EXCEPT ![c] = call] /\ domainCall'[c] = call
                    /\ 1 <= LastOfCall(c) => call.at = "attach" /\ call.next \in 1..LastOfCall(c)
    BY <2>1, GoOnFacts
  <2>3. performed' = performed /\ performed[c] = 0
    BY <1>2 DEF EnableDomains, DomainInv, NotYet, CallEnded
  <2>4. NotYet(c)'
    BY <2>2, <2>3, LastFacts DEF NotYet, LastOfCall
  <2> QED BY <2>2, <2>3, <2>4, OneDomainCall
<1>3. ASSUME NEW c \in DomainCalls, EnsureAttached(c) PROVE DomainInv'
  <2> DEFINE call == [domainCall[c] EXCEPT !.at = "send"]
  <2>1. /\ domainCall' = [domainCall EXCEPT ![c] = call] /\ performed' = performed
        /\ CallRecord(domainCall[c]) /\ performed[c] = 0 /\ domainCall[c].next \in 1..LastOfCall(c)
        /\ domainCall = [d \in DomainCalls |-> domainCall[d]]
    BY <1>3 DEF EnsureAttached, DomainInv, NotYet, CallEnded
  <2>3. CallRecord(call) /\ domainCall'[c].at = "send" /\ domainCall'[c].next = domainCall[c].next
    BY <2>1 DEF CallRecord
  <2>4. NotYet(c)'
    BY <2>1, <2>3 DEF NotYet, LastOfCall
  <2> QED BY <2>1, <2>3, <2>4, OneDomainCall
<1>4. ASSUME NEW c \in DomainCalls, Perform(c) PROVE DomainInv'
  <2>1. /\ performed[c] = 0 /\ domainCall[c].next \in 1..LastOfCall(c) /\ LastOfCall(c) \in Nat
        /\ performed = [d \in DomainCalls |-> performed[d]] /\ domainCall[c].at = "send"
    BY <1>4, LastFacts DEF Perform, DomainInv, NotYet, CallEnded
  <2>2. CASE domainCall[c].next = LastOfCall(c)
    <3>1. GoOn(c, domainCall[c].set, domainCall[c].next + 1, {}) /\ performed' = [performed EXCEPT ![c] = @ + 1]
      BY <1>4, <2>2 DEF Perform
    <3>2. PICK call : /\ CallRecord(call) /\ domainCall' = [domainCall EXCEPT ![c] = call] /\ domainCall'[c] = call
                      /\ domainCall[c].next + 1 > LastOfCall(c) => call.at = "over"
      BY <2>1, <3>1, GoOnFacts
    <3>3. performed'[c] = 1 /\ performed' = [performed EXCEPT ![c] = performed[c] + 1]
      BY <2>1, <3>1
    <3>4. CallEnded(c)'
      BY <2>1, <2>2, <3>2, <3>3 DEF CallEnded
    <3> QED BY <3>2, <3>3, <3>4, OneDomainCall
  <2>3. CASE domainCall[c].next # LastOfCall(c)
    <3>1. PICK contents : GoOn(c, domainCall[c].set, domainCall[c].next + 1, contents) /\ performed' = performed
      BY <1>4, <2>3 DEF Perform
    <3>2. PICK call : /\ CallRecord(call) /\ domainCall' = [domainCall EXCEPT ![c] = call] /\ domainCall'[c] = call
                      /\ domainCall[c].next + 1 <= LastOfCall(c) => call.at = "attach" /\ call.next \in 1..LastOfCall(c)
      BY <2>1, <3>1, GoOnFacts
    <3>3. NotYet(c)'
      BY <2>1, <2>3, <3>1, <3>2 DEF NotYet, LastOfCall
    <3> QED BY <3>1, <3>2, <3>3, OneDomainCall
  <2> QED BY <2>2, <2>3
<1>5. ASSUME NEW c \in DomainCalls, Refuse(c) PROVE DomainInv'
  <2>1. /\ CallRecord(domainCall[c]) /\ performed[c] = 0 /\ domainCall[c].next \in 1..LastOfCall(c)
        /\ domainCall = [d \in DomainCalls |-> domainCall[d]] /\ performed' = performed /\ domainCall[c].at = "send"
    BY <1>5 DEF Refuse, DomainInv, NotYet, CallEnded
  <2>2. CASE domainCall[c].again
    BY <1>5, <2>1, <2>2, GiveUpInv DEF Refuse
  <2>3. CASE ~domainCall[c].again
    <3> DEFINE call == [domainCall[c] EXCEPT !.at = "attach", !.again = TRUE]
    <3>1. domainCall' = [domainCall EXCEPT ![c] = call]
      BY <1>5, <2>1, <2>3 DEF Refuse
    <3>3. CallRecord(call) /\ domainCall'[c].at = "attach" /\ domainCall'[c].next = domainCall[c].next
      BY <2>1, <3>1 DEF CallRecord
    <3>4. NotYet(c)'
      BY <2>1, <3>3 DEF NotYet, LastOfCall
    <3> QED BY <2>1, <3>1, <3>3, <3>4, OneDomainCall
  <2> QED BY <2>2, <2>3
<1>6. ASSUME NEW c \in DomainCalls, LoseAnswer(c) PROVE DomainInv'
  BY <1>6, GiveUpInv DEF LoseAnswer
<1> QED BY <1>1, <1>2, <1>3, <1>4, <1>5, <1>6 DEF DomainNext, domainVars, LoseDebugger, EndTurn

\* session-runtime.ts: however attachments come and go, the command of a call is
\* performed at most once, and a call that is over had it performed.
THEOREM PerformedOnceTheorem == DomainSpec => []PerformedOnce
<1>1. DomainInit => DomainInv
  BY DEF DomainInit, DomainInv, CallRecord, NotYet
<1>2. DomainInv => PerformedOnce
  BY DEF DomainInv, PerformedOnce, NotYet, CallEnded
<1> QED BY <1>1, <1>2, DomainStep, PTL DEF DomainSpec

-----------------------------------------------------------------------------
(***************************************************************************)
(* Overrides are not lost track of (TabEnvironment)                        *)
(***************************************************************************)

EnvCallRecord == [at : EnvRunning \cup {"idle", "over", "failed"}, record : {0} \cup Records,
                  field : Fields \cup {"none"}, done : Nat, missed : SUBSET Fields]

EnvTypes ==
  /\ envCall \in [EnvCalls -> EnvCallRecord]
  /\ tabRecord \in {0} \cup Records /\ fields \in [Records -> SUBSET Fields]
  /\ configured \in BOOLEAN

\* What a configuration has noted, or is applying, is in the record of the tab.
ConfigureInv(c) ==
  /\ Under(c) => configured
  /\ envCall[c].record # 0 => envCall[c].record = tabRecord
  /\ envCall[c].at \in {"send", "wait"} => envCall[c].field \in fields[tabRecord]

\* A reset has the record of the tab, or one that another reset has emptied.
ResetInv(c) ==
  /\ envCall[c].record # 0 => tabRecord \in {0, envCall[c].record}
  /\ envCall[c].at = "wait" => envCall[c].field \notin overrides

OneKind == \A c, d \in EnvCalls : Under(c) /\ Under(d) => (IsReset(c) <=> IsReset(d))
EveryCall == \A c \in EnvCalls : (IsReset(c) => ResetInv(c)) /\ (~IsReset(c) => ConfigureInv(c))
HoldsRecord == \A c \in EnvCalls : envCall[c].record # 0 <=> envCall[c].at \in EnvRunning \ {"look"}
Tracked == overrides # {} => configured /\ tabRecord # 0 /\ overrides \subseteq fields[tabRecord]

EnvKnown == EnvTypes /\ OneKind /\ EveryCall /\ HoldsRecord /\ Tracked
EnvInv == overlapped \in BOOLEAN /\ (overlapped \/ EnvKnown)

\* Records are numbers other than 0, and there are some if there are calls.
LEMMA RecordsFacts ==
  /\ 0 \notin Records /\ Records \subseteq Nat
  /\ EnvCalls # {} => Records # {}
<1>1. Cardinality(EnvCalls) \in Nat /\ (EnvCalls # {} => Cardinality(EnvCalls) # 0)
  BY EnvAssumption, FS_CardinalityType, FS_EmptySet
<1> QED BY <1>1 DEF Records

\* What a configuration sets.
LEMMA FieldsFacts ==
  ASSUME NEW c \in EnvCalls
  PROVE  /\ Len(FieldsOf[c]) \in Nat
         /\ \A i \in 1..Len(FieldsOf[c]) : FieldsOf[c][i] \in Fields
         /\ WantedFields(c) \subseteq Fields
<1>1. FieldsOf[c] \in Seq(Fields)
  BY EnvAssumption
<1> QED BY <1>1 DEF WantedFields

\* Until a configuration and a reset overlap, each action keeps what is known.
LEMMA StartConfigureKnown == ASSUME EnvKnown, ~overlapped', NEW c \in EnvCalls, StartConfigure(c) PROVE EnvKnown'
<1>1. EnvTypes'
  BY DEF StartConfigure, EnvKnown, EnvTypes, EnvCallRecord, EnvRunning, ToStep
<1>2. /\ \A d \in EnvCalls \ {c} : envCall'[d] = envCall[d]
      /\ envCall[c].at = "idle" /\ envCall'[c].at = "look" /\ envCall'[c].record = envCall[c].record
      /\ configured' = (configured \/ ~IsReset(c)) /\ UNCHANGED <<tabRecord, fields, overrides>>
      /\ \A d \in EnvCalls : Under(d) => (IsReset(d) <=> IsReset(c))
  BY DEF StartConfigure, EnvKnown, EnvTypes, EnvCallRecord, Under, ToStep
<1>3. OneKind'
  BY <1>2 DEF EnvKnown, OneKind, Under, EnvRunning
<1>4. HoldsRecord'
  BY <1>2 DEF EnvKnown, HoldsRecord, EnvRunning
<1>5. EveryCall'
  BY <1>2 DEF EnvKnown, EnvTypes, OneKind, EveryCall, HoldsRecord, ConfigureInv, ResetInv, Under, EnvRunning
<1>6. Tracked'
  BY <1>2 DEF EnvKnown, EnvTypes, Tracked, EveryCall, HoldsRecord, ConfigureInv, ResetInv, Under, EnvRunning
<1> QED BY <1>1, <1>3, <1>4, <1>5, <1>6 DEF EnvKnown

LEMMA LookUpKnown == ASSUME EnvKnown, ~overlapped', NEW c \in EnvCalls, LookUp(c) PROVE EnvKnown'
<1>1. /\ envCall[c].at = "look" /\ envCall[c].record = 0 /\ Under(c) /\ UNCHANGED overrides
      /\ envCall[c] \in EnvCallRecord /\ EnvTypes
  BY DEF LookUp, EnvKnown, EnvTypes, HoldsRecord, Under, EnvRunning
<1>2. CASE IsReset(c) /\ tabRecord = 0
  <2>1. EnvTypes'
    BY <1>1, <1>2 DEF LookUp, ReportDone, Ended, EnvTypes, EnvCallRecord
  <2>2. /\ \A d \in EnvCalls \ {c} : envCall'[d] = envCall[d]
        /\ envCall'[c].at = "over" /\ envCall'[c].record = 0 /\ UNCHANGED <<tabRecord, fields>>
    BY <1>1, <1>2 DEF LookUp, ReportDone, Ended, EnvTypes, EnvCallRecord
  <2>3. overrides = {} /\ UNCHANGED overrides
    BY <1>2 DEF EnvKnown, Tracked, LookUp
  <2>4. OneKind' /\ HoldsRecord' /\ Tracked'
    BY <2>2, <2>3 DEF EnvKnown, OneKind, HoldsRecord, Tracked, Under, EnvRunning
  <2>5. \A d \in EnvCalls : Under(d) => IsReset(d)
    BY <1>1, <1>2 DEF EnvKnown, OneKind
  <2>6. EveryCall'
    BY <2>2, <2>3, <2>5 DEF EnvKnown, EveryCall, HoldsRecord, ResetInv, ConfigureInv, Under, EnvRunning
  <2> QED BY <2>1, <2>4, <2>6 DEF EnvKnown
<1>3. CASE ~(IsReset(c) /\ tabRecord = 0)
  <2>1. PICK r : /\ r = IF tabRecord # 0 THEN tabRecord
                        ELSE Min({s \in Records : \A d \in EnvCalls : envCall[d].record # s})
                 /\ envCall' = [envCall EXCEPT ![c].at = "next", ![c].record = r]
                 /\ tabRecord' = r
                 /\ fields' = IF tabRecord = 0 THEN [fields EXCEPT ![r] = {}] ELSE fields
                 /\ UNCHANGED <<configured, environment>>
    BY <1>3 DEF LookUp
  <2>2. r \in Records
    <3>1. CASE tabRecord # 0
      BY <1>1, <2>1, <3>1 DEF EnvTypes
    <3>2. CASE tabRecord = 0
      <4> DEFINE free == {s \in Records : \A d \in EnvCalls : envCall[d].record # s}
      <4>1. \A d \in EnvCalls : envCall[d].record = 0
        BY <1>1, <1>3, <3>2 DEF EnvKnown, OneKind, EveryCall, ConfigureInv, HoldsRecord, Under, EnvRunning
      <4>2. free # {} /\ free \subseteq Nat /\ free \subseteq Records
        BY <4>1, RecordsFacts
      <4>3. r = Min(free)
        BY <2>1, <3>2
      <4> HIDE DEF free
      <4> QED BY <4>2, <4>3, LeastIsIn
    <3> QED BY <3>1, <3>2
  <2>3. EnvTypes'
    BY <1>1, <2>1, <2>2, Zenon DEF EnvTypes, EnvCallRecord, EnvRunning
  <2>4. /\ \A d \in EnvCalls \ {c} : envCall'[d] = envCall[d]
        /\ envCall'[c].at = "next" /\ envCall'[c].record = r /\ r # 0 /\ UNCHANGED <<overrides, configured>>
    BY <1>1, <2>1, <2>2, RecordsFacts DEF EnvTypes, EnvCallRecord
  <2>5. OneKind' /\ HoldsRecord'
    BY <1>1, <2>4 DEF EnvKnown, OneKind, HoldsRecord, Under, EnvRunning
  <2>6. CASE tabRecord # 0
    <3>1. tabRecord' = tabRecord /\ r = tabRecord /\ fields' = fields
      BY <2>1, <2>6
    <3>2. EveryCall'
      BY <1>1, <2>4, <3>1 DEF EnvKnown, EveryCall, ConfigureInv, ResetInv, Under
    <3>3. Tracked'
      BY <2>4, <3>1 DEF EnvKnown, Tracked
    <3> QED BY <2>3, <2>5, <3>2, <3>3 DEF EnvKnown
  <2>7. CASE tabRecord = 0
    <3>1. overrides' = {} /\ ~IsReset(c) /\ (\A d \in EnvCalls : Under(d) => ~IsReset(d))
      BY <1>1, <1>3, <2>4, <2>7 DEF EnvKnown, Tracked, OneKind
    <3>2. \A d \in EnvCalls : envCall[d].record = 0
      BY <1>1, <2>7, <3>1 DEF EnvKnown, EveryCall, ConfigureInv, HoldsRecord, Under, EnvRunning
    <3>3. \A d \in EnvCalls \ {c} : envCall'[d].record = 0 /\ envCall'[d].at \notin {"send", "wait"}
      BY <2>4, <3>2 DEF EnvKnown, HoldsRecord, EnvRunning
    <3>4. \A d \in EnvCalls : ~IsReset(d) /\ Under(d)' => configured'
      BY <1>1, <2>4, <3>1 DEF EnvKnown, EveryCall, ConfigureInv, Under
    <3>5. envCall'[c].at = "next" /\ envCall'[c].record = tabRecord'
      BY <2>1, <2>4
    <3>6. EveryCall'
      <4>1. ASSUME NEW d \in EnvCalls, ~IsReset(d) PROVE ConfigureInv(d)'
        BY <3>3, <3>4, <3>5, <4>1 DEF ConfigureInv
      <4>2. ASSUME NEW d \in EnvCalls, IsReset(d) PROVE ResetInv(d)'
        BY <3>1, <3>3, <4>2 DEF ResetInv
      <4> QED BY <4>1, <4>2 DEF EveryCall
    <3>7. Tracked'
      BY <3>1 DEF Tracked
    <3> QED BY <2>3, <2>5, <3>6, <3>7 DEF EnvKnown
  <2> QED BY <2>6, <2>7
<1> QED BY <1>2, <1>3

LEMMA ApplyFieldKnown == ASSUME EnvKnown, ~overlapped', NEW c \in EnvCalls, ApplyField(c) PROVE EnvKnown'
<1>1. EnvTypes'
  <2>1. FieldsOf[c][envCall[c].done + 1] \in Fields
    BY FieldsFacts DEF ApplyField, EnvKnown, EnvTypes, EnvCallRecord
  <2>2. envCall[c] \in EnvCallRecord /\ EnvTypes
    BY DEF EnvKnown, EnvTypes
  <2>3. envCall' = [envCall EXCEPT ![c].at = "send", ![c].field = FieldsOf[c][envCall[c].done + 1], ![c].done = @ + 1]
    BY DEF ApplyField
  <2>4. envCall' \in [EnvCalls -> EnvCallRecord]
    BY <2>1, <2>2, <2>3 DEF EnvTypes, EnvCallRecord, EnvRunning
  <2>5. fields' \in [Records -> SUBSET Fields] /\ UNCHANGED <<tabRecord, configured>>
    BY <2>1, <2>2 DEF ApplyField, EnvTypes
  <2> QED BY <2>2, <2>4, <2>5 DEF EnvTypes
<1>2. /\ \A d \in EnvCalls \ {c} : envCall'[d] = envCall[d]
      /\ envCall[c].at = "next" /\ ~IsReset(c) /\ envCall'[c].at = "send" /\ envCall'[c].record = envCall[c].record
      /\ fields' = [fields EXCEPT ![envCall[c].record] = @ \cup {envCall'[c].field}]
      /\ UNCHANGED <<tabRecord, overrides, configured>>
  BY DEF ApplyField, EnvKnown, EnvTypes, EnvCallRecord, Under
<1>3. OneKind'
  BY <1>2 DEF EnvKnown, OneKind, Under, EnvRunning
<1>4. HoldsRecord'
  BY <1>2 DEF EnvKnown, HoldsRecord, EnvRunning
<1>5. EveryCall'
  BY <1>2 DEF EnvKnown, EnvTypes, OneKind, EveryCall, HoldsRecord, ConfigureInv, ResetInv, Under, EnvRunning
<1>6. Tracked'
  BY <1>2 DEF EnvKnown, EnvTypes, Tracked, EveryCall, HoldsRecord, ConfigureInv, ResetInv, Under, EnvRunning
<1> QED BY <1>1, <1>3, <1>4, <1>5, <1>6 DEF EnvKnown

LEMMA ResetFieldKnown == ASSUME EnvKnown, ~overlapped', NEW c \in EnvCalls, NEW field \in Fields, ResetField(c, field) PROVE EnvKnown'
<1>1. EnvTypes'
  BY ZenonT(40) DEF ResetField, EnvKnown, EnvTypes, EnvCallRecord, EnvRunning
<1>2. /\ \A d \in EnvCalls \ {c} : envCall'[d] = envCall[d]
      /\ envCall[c].at = "next" /\ IsReset(c) /\ envCall'[c].at = "send" /\ envCall'[c].record = envCall[c].record
      /\ UNCHANGED <<tabRecord, fields, overrides, configured>>
  BY DEF ResetField, EnvKnown, EnvTypes, EnvCallRecord, Under
<1>3. OneKind'
  BY <1>2 DEF EnvKnown, OneKind, Under, EnvRunning
<1>4. HoldsRecord'
  BY <1>2 DEF EnvKnown, HoldsRecord, EnvRunning
<1>5. EveryCall'
  BY <1>2 DEF EnvKnown, EnvTypes, OneKind, EveryCall, HoldsRecord, ConfigureInv, ResetInv, Under, EnvRunning
<1>6. Tracked'
  BY <1>2 DEF EnvKnown, EnvTypes, Tracked, EveryCall, HoldsRecord, ConfigureInv, ResetInv, Under, EnvRunning
<1> QED BY <1>1, <1>3, <1>4, <1>5, <1>6 DEF EnvKnown

LEMMA OverrideKnown == ASSUME EnvKnown, ~overlapped', NEW c \in EnvCalls, Override(c) PROVE EnvKnown'
<1>1. EnvTypes'
  BY DEF Override, EnvKnown, EnvTypes, EnvCallRecord, EnvRunning, ToStep
<1>2. /\ \A d \in EnvCalls \ {c} : envCall'[d] = envCall[d]
      /\ envCall[c].at = "send" /\ envCall'[c].at = "wait"
      /\ envCall'[c].record = envCall[c].record /\ envCall'[c].field = envCall[c].field
      /\ IsReset(c) => overrides' = overrides \ {envCall[c].field}
      /\ ~IsReset(c) => overrides' = overrides \cup {envCall[c].field}
      /\ UNCHANGED <<tabRecord, fields, configured>>
  BY DEF Override, EnvKnown, EnvTypes, EnvCallRecord, Under, ToStep
<1>3. OneKind'
  BY <1>2 DEF EnvKnown, OneKind, Under, EnvRunning
<1>4. HoldsRecord'
  BY <1>2 DEF EnvKnown, HoldsRecord, EnvRunning
<1>5. EveryCall'
  BY <1>2 DEF EnvKnown, EnvTypes, OneKind, EveryCall, HoldsRecord, ConfigureInv, ResetInv, Under, EnvRunning
<1>6. Tracked'
  BY <1>2 DEF EnvKnown, EnvTypes, Tracked, EveryCall, HoldsRecord, ConfigureInv, ResetInv, Under, EnvRunning
<1> QED BY <1>1, <1>3, <1>4, <1>5, <1>6 DEF EnvKnown

LEMMA AcknowledgeKnown == ASSUME EnvKnown, ~overlapped', NEW c \in EnvCalls, Acknowledge(c) PROVE EnvKnown'
<1>1. EnvTypes'
  BY DEF Acknowledge, EnvKnown, EnvTypes, EnvCallRecord, EnvRunning, ToStep
<1>2. /\ \A d \in EnvCalls \ {c} : envCall'[d] = envCall[d]
      /\ envCall[c].at = "wait" /\ envCall'[c].at = "next" /\ envCall'[c].record = envCall[c].record
      /\ IsReset(c) => fields' = [fields EXCEPT ![envCall[c].record] = @ \ {envCall[c].field}]
      /\ ~IsReset(c) => fields' = fields
      /\ UNCHANGED <<tabRecord, overrides, configured>>
  BY DEF Acknowledge, EnvKnown, EnvTypes, EnvCallRecord, Under, ToStep
<1>3. OneKind'
  BY <1>2 DEF EnvKnown, OneKind, Under, EnvRunning
<1>4. HoldsRecord'
  BY <1>2 DEF EnvKnown, HoldsRecord, EnvRunning
<1>5. EveryCall'
  BY <1>2 DEF EnvKnown, EnvTypes, OneKind, EveryCall, HoldsRecord, ConfigureInv, ResetInv, Under, EnvRunning
<1>6. Tracked'
  BY <1>2 DEF EnvKnown, EnvTypes, Tracked, EveryCall, HoldsRecord, ConfigureInv, ResetInv, Under, EnvRunning
<1> QED BY <1>1, <1>3, <1>4, <1>5, <1>6 DEF EnvKnown

LEMMA FailCommandKnown == ASSUME EnvKnown, ~overlapped', NEW c \in EnvCalls, FailCommand(c) PROVE EnvKnown'
<1>1. EnvTypes'
  BY DEF FailCommand, EnvKnown, EnvTypes, EnvCallRecord, EnvRunning, Ended
<1>2. /\ \A d \in EnvCalls \ {c} : envCall'[d] = envCall[d]
      /\ envCall[c].at \in {"send", "wait"}
      /\ \/ IsReset(c) /\ envCall'[c].at = "next" /\ envCall'[c].record = envCall[c].record
         \/ ~IsReset(c) /\ envCall'[c].at = "failed" /\ envCall'[c].record = 0
      /\ UNCHANGED <<tabRecord, fields, overrides, configured>>
  BY DEF FailCommand, EnvKnown, EnvTypes, EnvCallRecord, Under, Ended
<1>3. OneKind'
  BY <1>2 DEF EnvKnown, OneKind, Under, EnvRunning
<1>4. HoldsRecord'
  BY <1>2 DEF EnvKnown, HoldsRecord, EnvRunning
<1>5. EveryCall'
  BY <1>2 DEF EnvKnown, EnvTypes, OneKind, EveryCall, HoldsRecord, ConfigureInv, ResetInv, Under, EnvRunning
<1>6. Tracked'
  BY <1>2 DEF EnvKnown, EnvTypes, Tracked, EveryCall, HoldsRecord, ConfigureInv, ResetInv, Under, EnvRunning
<1> QED BY <1>1, <1>3, <1>4, <1>5, <1>6 DEF EnvKnown

LEMMA FinishConfigureKnown == ASSUME EnvKnown, ~overlapped', NEW c \in EnvCalls, FinishConfigure(c) PROVE EnvKnown'
<1>1. EnvTypes'
  BY DEF FinishConfigure, EnvKnown, EnvTypes, EnvCallRecord, EnvRunning, ReportDone, Ended
<1>2. /\ \A d \in EnvCalls \ {c} : envCall'[d] = envCall[d]
      /\ envCall[c].at = "next" /\ ~IsReset(c) /\ envCall'[c].at = "over" /\ envCall'[c].record = 0
      /\ configured' = configured /\ UNCHANGED <<tabRecord, fields, overrides>>
  BY DEF FinishConfigure, EnvKnown, EnvTypes, EnvCallRecord, Under, ReportDone, Ended
<1>3. OneKind'
  BY <1>2 DEF EnvKnown, OneKind, Under, EnvRunning
<1>4. HoldsRecord'
  BY <1>2 DEF EnvKnown, HoldsRecord, EnvRunning
<1>5. EveryCall'
  BY <1>2 DEF EnvKnown, EnvTypes, OneKind, EveryCall, HoldsRecord, ConfigureInv, ResetInv, Under, EnvRunning
<1>6. Tracked'
  BY <1>2 DEF EnvKnown, EnvTypes, Tracked, EveryCall, HoldsRecord, ConfigureInv, ResetInv, Under, EnvRunning
<1> QED BY <1>1, <1>3, <1>4, <1>5, <1>6 DEF EnvKnown

LEMMA FinishResetKnown == ASSUME EnvKnown, ~overlapped', NEW c \in EnvCalls, FinishReset(c) PROVE EnvKnown'
<1>1. EnvTypes'
  <2>1. \E step \in {"over", "failed"} : Ended(c, step)
    BY DEF FinishReset, ReportDone
  <2>2. configured' \in BOOLEAN /\ tabRecord' \in {0, tabRecord} /\ fields' = fields
    BY DEF FinishReset, ReportDone, EnvKnown, EnvTypes
  <2> QED BY <2>1, <2>2 DEF Ended, EnvKnown, EnvTypes, EnvCallRecord
<1>2. /\ \A d \in EnvCalls \ {c} : envCall'[d] = envCall[d]
      /\ envCall[c].at = "next" /\ IsReset(c) /\ envCall'[c].at \in {"over", "failed"} /\ envCall'[c].record = 0
      /\ tabRecord' = IF fields[envCall[c].record] = {} THEN 0 ELSE tabRecord
      /\ configured' # configured => fields[envCall[c].record] = {}
      /\ UNCHANGED <<fields, overrides>>
  BY DEF FinishReset, EnvKnown, EnvTypes, EnvCallRecord, Under, ReportDone, Ended
<1>3. OneKind'
  BY <1>2 DEF EnvKnown, OneKind, Under, EnvRunning
<1>4. HoldsRecord'
  BY <1>2 DEF EnvKnown, HoldsRecord, EnvRunning
<1>5. EveryCall'
  BY <1>2 DEF EnvKnown, EnvTypes, OneKind, EveryCall, HoldsRecord, ConfigureInv, ResetInv, Under, EnvRunning
<1>6. Tracked'
  BY <1>2 DEF EnvKnown, EnvTypes, Tracked, EveryCall, HoldsRecord, ConfigureInv, ResetInv, Under, EnvRunning
<1> QED BY <1>1, <1>3, <1>4, <1>5, <1>6 DEF EnvKnown

LEMMA DropOverridesKnown == ASSUME EnvKnown, ~overlapped', DropOverrides PROVE EnvKnown'
BY DEF DropOverrides, EnvKnown, EnvTypes, OneKind, EveryCall, HoldsRecord, Tracked, ConfigureInv, ResetInv, Under

\* Every step keeps the invariant.
LEMMA EnvStep == EnvInv /\ [EnvNext]_envVars => EnvInv'
<1> SUFFICES ASSUME EnvInv, [EnvNext]_envVars PROVE EnvInv'
  OBVIOUS
<1>1. overlapped' \in BOOLEAN /\ (overlapped => overlapped')
  <2>1. overlapped \in BOOLEAN
    BY DEF EnvInv
  <2>2. CASE UNCHANGED overlapped
    BY <2>1, <2>2
  <2>3. ASSUME NEW c \in EnvCalls, StartConfigure(c) PROVE <1>1!1 /\ <1>1!2
    BY <2>1, <2>3, Zenon DEF StartConfigure
  <2>4. ASSUME NEW c \in EnvCalls,
               LookUp(c) \/ ApplyField(c) \/ (\E field \in Fields : ResetField(c, field)) \/ Override(c)
               \/ Acknowledge(c) \/ FailCommand(c) \/ FinishConfigure(c) \/ FinishReset(c)
        PROVE UNCHANGED overlapped
    BY <2>4, Zenon DEF LookUp, ApplyField, ResetField, Override, Acknowledge, FailCommand, FinishConfigure, FinishReset
  <2>5. CASE UNCHANGED envVars \/ DropOverrides
    BY <2>2, <2>5, Zenon DEF envVars, DropOverrides
  <2> QED BY <2>2, <2>3, <2>4, <2>5, Zenon DEF EnvNext
<1>2. ASSUME ~overlapped' PROVE EnvKnown'
  <2>1. EnvKnown
    BY <1>1, <1>2 DEF EnvInv
  <2>2. CASE UNCHANGED envVars
    BY <2>1, <2>2 DEF envVars, EnvKnown, EnvTypes, OneKind, EveryCall, HoldsRecord, Tracked, ConfigureInv, ResetInv, Under
  <2> QED BY <1>2, <2>1, <2>2, StartConfigureKnown, LookUpKnown, ApplyFieldKnown, ResetFieldKnown, OverrideKnown, AcknowledgeKnown, FailCommandKnown, FinishConfigureKnown, FinishResetKnown, DropOverridesKnown DEF EnvNext
<1> QED BY <1>1, <1>2 DEF EnvInv

\* environment.ts: every override in the browser is in the record of the tab and the tab
\* is listed, so a reset or the finalization will remove it, whatever failed or got
\* lost; unless a configuration and a reset overlapped.
THEOREM OverridesTheorem == EnvSpec => []OverridesTracked
<1>1. EnvInit => EnvInv
  <2> SUFFICES ASSUME EnvInit PROVE EnvInv
    OBVIOUS
  <2>1. EnvTypes
    BY DEF EnvInit, EnvTypes, EnvCallRecord, EnvRunning
  <2>2. \A c \in EnvCalls : envCall[c].at = "idle" /\ envCall[c].record = 0
    BY DEF EnvInit
  <2>3. overlapped = FALSE /\ overrides = {}
    BY DEF EnvInit
  <2> QED BY <2>1, <2>2, <2>3 DEF EnvInv, EnvKnown, OneKind, EveryCall, HoldsRecord, Tracked, ConfigureInv, ResetInv, Under, EnvRunning
<1>2. EnvInv => OverridesTracked
  BY DEF EnvInv, EnvKnown, Tracked, OverridesTracked
<1> QED BY <1>1, <1>2, EnvStep, PTL DEF EnvSpec

-----------------------------------------------------------------------------
(***************************************************************************)
(* The creation of tabs.  Every tab that is or may become the session's is *)
(* in a profile that counts as used, or one in which it was asked for      *)
(* beside a finalization; while one runs, the tabs it has not reached are  *)
(* in profiles it still asks.                                              *)
(***************************************************************************)
CreateRecord == [at : {"idle", "choose", "list", "create", "recover", "made", "over", "failed"},
            profile : Profiles \cup {NoBrowser}, before : SUBSET TabIds, answer : TabIds \cup {NoTab}]
TabRecord == [stage : {"none", "opened", "tracked", "stored", "released", "closed"},
           at : Profiles \cup {NoBrowser}, by : CreateCalls \cup {NoTab}, marked : BOOLEAN, blank : BOOLEAN]

CreationTypes ==
  /\ connected \subseteq Profiles /\ used \subseteq Profiles /\ crossed \subseteq Profiles /\ finalizing \subseteq Profiles
  /\ listed \in (SUBSET Profiles) \cup {Expired}
  /\ chosen \in Profiles \cup {NoBrowser}
  /\ tabs \in [TabIds -> TabRecord]
  /\ newTab \in [CreateCalls -> CreateRecord]
  /\ partial \in BOOLEAN

HeldTab(t) == tabs[t].stage \in {"opened", "tracked", "stored"}

\* A tab that is open has a profile, and no other was made for the same call; until it
\* is tracked its call is served.  A call that has its tab knows which.
TabsOfCalls ==
  /\ \A t \in TabIds : tabs[t].stage = "none" <=> tabs[t].by = NoTab
  /\ \A t \in TabIds : HeldTab(t) => tabs[t].at \in Profiles
  /\ \A t, u \in TabIds : tabs[t].by = tabs[u].by /\ tabs[t].by # NoTab => t = u
  /\ \A t \in TabIds : tabs[t].stage = "opened" => Served(tabs[t].by) /\ newTab[tabs[t].by].profile = tabs[t].at
  /\ \A c \in CreateCalls : newTab[c].at = "made" => newTab[c].answer \in TabIds /\ tabs[newTab[c].answer].by = c
  /\ AnswerIsOwn

ProfilesCover ==
  /\ \A c \in CreateCalls : Asks(c) => newTab[c].profile \in used \cup crossed
  /\ \A t \in TabIds : HeldTab(t) => tabs[t].at \in used \cup crossed

FinalizationReaches ==
  /\ finalizing # {} => \A c \in CreateCalls : Asks(c) => newTab[c].profile \in crossed
  /\ finalizing # {} /\ ~partial => \A t \in TabIds : HeldTab(t) => tabs[t].at \in finalizing \cup crossed

CreationInv == CreationTypes /\ TabsOfCalls /\ ProfilesCover /\ FinalizationReaches

\* What a step of one call, or of the browsers, may change without a new tab: tabs are
\* let go of, calls stop to ask, or ask in a profile that counts.
Gentle ==
  /\ \A t \in TabIds : /\ tabs'[t].by = tabs[t].by /\ tabs'[t].at = tabs[t].at
                       /\ tabs'[t].stage = "none" <=> tabs[t].stage = "none"
                       /\ HeldTab(t)' => HeldTab(t)
                       /\ tabs'[t].stage = "opened" => /\ tabs[t].stage = "opened"
                                                       /\ Served(tabs[t].by)'
                                                       /\ newTab'[tabs[t].by].profile = newTab[tabs[t].by].profile
  /\ \A c \in CreateCalls :
       /\ \/ newTab'[c].answer = newTab[c].answer
          \/ newTab'[c].answer \in TabIds /\ tabs[newTab'[c].answer].by = c
       /\ newTab'[c].at = "made" => \/ newTab[c].at = "made" /\ newTab'[c].answer = newTab[c].answer
                                    \/ newTab'[c].answer \in TabIds /\ tabs[newTab'[c].answer].by = c
       /\ Asks(c)' => \/ Asks(c) /\ newTab'[c].profile = newTab[c].profile
                      \/ newTab'[c].profile \in used' \cup crossed' /\ (finalizing # {} => newTab'[c].profile \in crossed')
  /\ used \subseteq used' /\ crossed \subseteq crossed'
  /\ finalizing' = finalizing /\ partial' = partial

\* Such a step keeps the invariant.
LEMMA GentleInv == ASSUME CreationInv, CreationTypes', Gentle PROVE CreationInv'
<1>1. /\ tabs \in [TabIds -> TabRecord]
      /\ newTab' \in [CreateCalls -> CreateRecord]
  BY DEF CreationInv, CreationTypes
<1>2. TabsOfCalls'
  <2>1. \A t \in TabIds : tabs'[t].stage = "none" <=> tabs'[t].by = NoTab
    BY DEF CreationInv, TabsOfCalls, Gentle
  <2>2. \A t \in TabIds : HeldTab(t)' => tabs'[t].at \in Profiles
    BY DEF CreationInv, TabsOfCalls, Gentle
  <2>3. \A t, u \in TabIds : tabs'[t].by = tabs'[u].by /\ tabs'[t].by # NoTab => t = u
    BY DEF CreationInv, TabsOfCalls, Gentle
  <2>4. \A t \in TabIds : tabs'[t].stage = "opened" => Served(tabs[t].by)' /\ newTab'[tabs'[t].by].profile = tabs'[t].at
    BY DEF CreationInv, TabsOfCalls, Gentle
  <2>5. \A c \in CreateCalls : newTab'[c].at = "made" => newTab'[c].answer \in TabIds /\ tabs'[newTab'[c].answer].by = c
    BY DEF CreationInv, TabsOfCalls, Gentle
  <2>6. AnswerIsOwn'
    BY <1>1 DEF CreationInv, TabsOfCalls, Gentle, AnswerIsOwn, CreateRecord
  <2> QED BY <2>1, <2>2, <2>3, <2>4, <2>5, <2>6 DEF TabsOfCalls
<1>3. ProfilesCover'
  BY DEF CreationInv, ProfilesCover, Gentle
<1>4. FinalizationReaches'
  BY DEF CreationInv, FinalizationReaches, Gentle
<1> QED BY <1>2, <1>3, <1>4 DEF CreationInv

\* What the choice of a profile gives.
LEMMA ChoiceFacts ==
  ASSUME CreationTypes
  PROVE  /\ WantedProfile \in Profiles \cup {NoBrowser}
         /\ \A p \in Profiles \cup {NoBrowser} : /\ Listing(p) \in (SUBSET Profiles) \cup {Expired}
                                                 /\ ChoicesFor(p) \subseteq Profiles
<1>1. Cardinality(used) = 1 => used # {}
  BY FS_EmptySet
<1>2. WantedProfile \in Profiles \cup {NoBrowser}
  BY <1>1 DEF CreationTypes, WantedProfile
<1>3. Known \subseteq Profiles
  BY DEF CreationTypes, Known
<1> QED BY <1>2, <1>3 DEF CreationTypes, Listing, ChoicesFor

\* Of a call whose tab has been tracked: no tab of it waits to be.
LEMMA TrackedAsks ==
  ASSUME CreationInv, NEW c \in CreateCalls, NEW t \in TabIds, tabs[t].by = c, tabs[t].stage # "opened"
  PROVE  \A u \in TabIds : tabs[u].stage = "opened" => tabs[u].by # c
BY CreationAssumption DEF CreationInv, CreationTypes, TabsOfCalls

\* A tab that waits to be tracked is asked for.
LEMMA OpenedAsks ==
  ASSUME CreationInv, NEW t \in TabIds, tabs[t].stage = "opened"
  PROVE  /\ tabs[t].by \in CreateCalls /\ Asks(tabs[t].by) /\ newTab[tabs[t].by].profile = tabs[t].at
<1>1. tabs[t].by \in CreateCalls
  BY DEF CreationInv, CreationTypes, TabsOfCalls, TabRecord
<1>2. Served(tabs[t].by) /\ newTab[tabs[t].by].profile = tabs[t].at
  BY DEF CreationInv, TabsOfCalls
<1>3. \A u \in TabBy(tabs[t].by) : u = t
  BY <1>1, CreationAssumption DEF CreationInv, TabsOfCalls, TabBy
<1> QED BY <1>1, <1>2, <1>3 DEF Asks

\* One call takes a step, and no tab changes.
LEMMA CallMoves ==
  ASSUME CreationInv, CreationTypes', NEW c \in CreateCalls, tabs' = tabs,
         \A d \in CreateCalls : d # c => newTab'[d] = newTab[d],
         \/ newTab'[c].answer = newTab[c].answer
         \/ newTab'[c].answer \in TabIds /\ tabs[newTab'[c].answer].by = c,
         newTab'[c].at = "made" => \/ newTab[c].at = "made" /\ newTab'[c].answer = newTab[c].answer
                                   \/ newTab'[c].answer \in TabIds /\ tabs[newTab'[c].answer].by = c,
         Asks(c)' => \/ Asks(c) /\ newTab'[c].profile = newTab[c].profile
                     \/ newTab'[c].profile \in used' \cup crossed' /\ (finalizing # {} => newTab'[c].profile \in crossed'),
         \A t \in TabIds : tabs[t].stage = "opened" /\ tabs[t].by = c =>
                             Served(c)' /\ newTab'[c].profile = newTab[c].profile,
         used \subseteq used', crossed \subseteq crossed', finalizing' = finalizing, partial' = partial
  PROVE  CreationInv'
<1>1. \A d \in CreateCalls : d # c => (Asks(d)' <=> Asks(d)) /\ (Served(d)' <=> Served(d))
  BY DEF Asks, Served, TabBy
<1>2. \A t \in TabIds : tabs[t].stage = "opened" => tabs[t].by \in CreateCalls /\ Served(tabs[t].by)
  BY OpenedAsks DEF CreationInv, TabsOfCalls
<1>3. \A t \in TabIds : tabs'[t].stage = "opened" => Served(tabs[t].by)' /\ newTab'[tabs[t].by].profile = newTab[tabs[t].by].profile
  <2> TAKE t \in TabIds
  <2> HAVE tabs'[t].stage = "opened"
  <2> DEFINE d == tabs[t].by
  <2>1. d \in CreateCalls /\ Served(d) /\ tabs'[t].by = d
    BY <1>2
  <2>2. CASE d = c
    BY <2>1, <2>2
  <2>3. CASE d # c
    BY <2>1, <2>3, <1>1
  <2> QED BY <2>2, <2>3
<1>4. Gentle
  <2>1. \A t \in TabIds : HeldTab(t)' => HeldTab(t)
    BY DEF HeldTab
  <2>2. \A d \in CreateCalls : newTab'[d].at = "made" =>
           \/ newTab[d].at = "made" /\ newTab'[d].answer = newTab[d].answer
           \/ newTab'[d].answer \in TabIds /\ tabs[newTab'[d].answer].by = d
    <3> TAKE d \in CreateCalls
    <3>1. CASE d = c
      BY <3>1
    <3>2. CASE d # c
      BY <3>2
    <3> QED BY <3>1, <3>2
  <2> QED BY <1>1, <1>3, <2>1, <2>2 DEF Gentle
<1> QED BY <1>4, GentleInv

\* Tabs change, none is opened, and calls do not move.
LEMMA TabsMove ==
  ASSUME CreationInv, CreationTypes', newTab' = newTab,
         \A t \in TabIds : /\ tabs'[t].by = tabs[t].by /\ tabs'[t].at = tabs[t].at
                           /\ tabs'[t].stage = "none" <=> tabs[t].stage = "none"
                           /\ HeldTab(t)' => HeldTab(t)
                           /\ tabs'[t].stage = "opened" => tabs[t].stage = "opened",
         used \subseteq used', crossed \subseteq crossed', finalizing' = finalizing, partial' = partial
  PROVE  CreationInv'
<1>1. \A c \in CreateCalls : (Asks(c)' => Asks(c)) /\ (Served(c)' <=> Served(c))
  BY DEF Asks, Served, TabBy
<1>2. \A t \in TabIds : tabs[t].stage = "opened" => tabs[t].by \in CreateCalls /\ Served(tabs[t].by)
  BY OpenedAsks DEF CreationInv, TabsOfCalls
<1>3. \A t \in TabIds : tabs'[t].stage = "opened" => Served(tabs[t].by)' /\ newTab'[tabs[t].by].profile = newTab[tabs[t].by].profile
  <2> TAKE t \in TabIds
  <2> HAVE tabs'[t].stage = "opened"
  <2> DEFINE d == tabs[t].by
  <2>1. d \in CreateCalls /\ Served(d) /\ tabs'[t].by = d
    BY <1>2
  <2> QED BY <2>1, <1>1
<1> QED BY <1>1, <1>3, GentleInv DEF Gentle

\* The record of a call is replaced.
LEMMA SetCallFacts ==
  ASSUME newTab \in [CreateCalls -> CreateRecord], NEW c \in CreateCalls, NEW rec \in CreateRecord, SetCall(c, rec)
  PROVE  newTab' \in [CreateCalls -> CreateRecord] /\ newTab'[c] = rec /\ \A d \in CreateCalls : d # c => newTab'[d] = newTab[d]
BY DEF SetCall

\* The steps of a call up to its tab, and without it.
LEMMA CallSteps ==
  ASSUME CreationInv, NEW c \in CreateCalls,
         NewTab(c) \/ ChooseProfile(c) \/ ListBefore(c) \/ CreationAnswered(c) \/ Fails(c) \/ Reconcile(c)
  PROVE  CreationInv'
<1>1. tabs \in [TabIds -> TabRecord] /\ newTab \in [CreateCalls -> CreateRecord] /\ CreationTypes
  BY DEF CreationInv, CreationTypes, TabRecord, CreateRecord
<1>2. /\ WantedProfile \in Profiles \cup {NoBrowser}
      /\ \A p \in Profiles \cup {NoBrowser} : /\ Listing(p) \in (SUBSET Profiles) \cup {Expired}
                                              /\ ChoicesFor(p) \subseteq Profiles
  BY <1>1, ChoiceFacts
<1>3. newTab[c].profile \in Profiles \cup {NoBrowser} /\ newTab[c] \in CreateRecord
  BY <1>1 DEF CreateRecord
<1>4. \A t \in TabIds : tabs[t].stage = "opened" /\ tabs[t].by = c => Served(c)
  BY OpenedAsks DEF CreationInv, TabsOfCalls
<1>5. CASE NewTab(c)
  <2>1. newTab' \in [CreateCalls -> CreateRecord] /\ CreationTypes'
    BY <1>1, <1>2, <1>3, <1>5 DEF NewTab, SetCall, CreateRecord, CreationTypes, TabRecord
  <2>2. /\ newTab[c].at = "idle" /\ newTab'[c].at = "choose" /\ newTab'[c].answer = newTab[c].answer
        /\ \A d \in CreateCalls : d # c => newTab'[d] = newTab[d]
    BY <1>1, <1>3, <1>5 DEF NewTab, SetCall, CreateRecord
  <2>3. ~Served(c) /\ ~Asks(c)'
    BY <2>2 DEF Asks, Served
  <2> QED BY <2>1, <2>2, <2>3, <1>4, <1>5, CallMoves DEF NewTab
<1>6. CASE ChooseProfile(c)
  <2>a. ASSUME NEW p \in ChoicesFor(newTab[c].profile), used' = used \cup {p},
               SetCall(c, [newTab[c] EXCEPT !.at = "list", !.profile = p]),
               crossed' = IF finalizing = {} THEN crossed ELSE crossed \cup {p}
        PROVE  \E rec \in CreateRecord :
                  /\ SetCall(c, rec) /\ rec.answer = newTab[c].answer
                  /\ used' \subseteq Profiles /\ crossed' \subseteq Profiles /\ used \subseteq used' /\ crossed \subseteq crossed'
                  /\ rec.at = "list" /\ rec.profile \in used' /\ (finalizing # {} => rec.profile \in crossed')
    <3> DEFINE rec == [newTab[c] EXCEPT !.at = "list", !.profile = p]
    <3>1. p \in Profiles
      BY <1>2, <1>3
    <3>2. rec \in CreateRecord /\ rec.answer = newTab[c].answer /\ rec.at = "list" /\ rec.profile = p
      BY <1>3, <3>1 DEF CreateRecord
    <3>3. SetCall(c, rec)
      BY <2>a
    <3>4. /\ used' \subseteq Profiles /\ crossed' \subseteq Profiles /\ used \subseteq used' /\ crossed \subseteq crossed'
          /\ p \in used' /\ (finalizing # {} => p \in crossed')
      BY <1>1, <2>a, <3>1 DEF CreationTypes
    <3> HIDE DEF rec
    <3> QED BY <3>2, <3>3, <3>4
  <2>b. ASSUME UNCHANGED <<used, crossed>>, SetCall(c, [newTab[c] EXCEPT !.at = "failed", !.profile = NoBrowser])
        PROVE  \E rec \in CreateRecord :
                  /\ SetCall(c, rec) /\ rec.answer = newTab[c].answer
                  /\ used' \subseteq Profiles /\ crossed' \subseteq Profiles /\ used \subseteq used' /\ crossed \subseteq crossed'
                  /\ rec.at = "failed" /\ rec.profile = NoBrowser
    <3> DEFINE rec == [newTab[c] EXCEPT !.at = "failed", !.profile = NoBrowser]
    <3>1. rec \in CreateRecord /\ rec.answer = newTab[c].answer /\ rec.at = "failed" /\ rec.profile = NoBrowser
      BY <1>3 DEF CreateRecord
    <3>2. SetCall(c, rec)
      BY <2>b
    <3>3. used' \subseteq Profiles /\ crossed' \subseteq Profiles /\ used \subseteq used' /\ crossed \subseteq crossed'
      BY <1>1, <2>b DEF CreationTypes
    <3> HIDE DEF rec
    <3> QED BY <3>1, <3>2, <3>3
  <2>1. PICK rec \in CreateRecord :
                  /\ SetCall(c, rec) /\ rec.answer = newTab[c].answer
                  /\ used' \subseteq Profiles /\ crossed' \subseteq Profiles /\ used \subseteq used' /\ crossed \subseteq crossed'
                  /\ \/ rec.at = "list" /\ rec.profile \in used' /\ (finalizing # {} => rec.profile \in crossed')
                     \/ rec.at = "failed" /\ rec.profile = NoBrowser
    <3>1. \/ \E p \in ChoicesFor(newTab[c].profile) :
               /\ used' = used \cup {p} /\ SetCall(c, [newTab[c] EXCEPT !.at = "list", !.profile = p])
               /\ crossed' = IF finalizing = {} THEN crossed ELSE crossed \cup {p}
          \/ UNCHANGED <<used, crossed>> /\ SetCall(c, [newTab[c] EXCEPT !.at = "failed", !.profile = NoBrowser])
      BY <1>6, Zenon DEF ChooseProfile
    <3> QED BY <3>1, <2>a, <2>b, Zenon
  <2>2. listed' \in (SUBSET Profiles) \cup {Expired}
    BY <1>2, <1>3, <1>6, Zenon DEF ChooseProfile
  <2>3. newTab' \in [CreateCalls -> CreateRecord] /\ newTab'[c] = rec /\ \A d \in CreateCalls : d # c => newTab'[d] = newTab[d]
    BY <1>1, <2>1, SetCallFacts
  <2>4. CreationTypes'
    BY <1>1, <2>1, <2>2, <2>3, <1>6, Zenon DEF ChooseProfile, CreationTypes, CreateRecord
  <2>5. /\ newTab[c].at = "choose" /\ newTab'[c].answer = newTab[c].answer
        /\ newTab'[c].at \in {"list", "failed"}
        /\ newTab'[c].at = "list" => newTab'[c].profile \in used' /\ (finalizing # {} => newTab'[c].profile \in crossed')
        /\ newTab'[c].at = "failed" => newTab'[c].profile = NoBrowser
    BY <1>6, <2>1, <2>3, Zenon DEF ChooseProfile
  <2>6. ~Served(c) /\ (Asks(c)' => newTab'[c].at = "list")
    BY <2>5 DEF Asks, Served
  <2>7. tabs' = tabs /\ finalizing' = finalizing /\ partial' = partial
    BY <1>6, Zenon DEF ChooseProfile
  <2>8. Asks(c)' => newTab'[c].profile \in used' \cup crossed' /\ (finalizing # {} => newTab'[c].profile \in crossed')
    BY <2>5, <2>6
  <2> QED BY <2>1, <2>3, <2>4, <2>5, <2>6, <2>7, <2>8, <1>4, CallMoves
<1>7. CASE ListBefore(c)
  <2>1. PICK rec \in CreateRecord :
           /\ SetCall(c, rec) /\ rec.answer = newTab[c].answer
           /\ \/ rec.at = "create" /\ rec.profile = newTab[c].profile
              \/ rec.at = "failed" /\ rec.profile = NoBrowser
    <3>1. Owned(newTab[c].profile) \subseteq TabIds
      BY DEF Owned
    <3>2. CASE SetCall(c, [newTab[c] EXCEPT !.at = "create", !.before = Owned(newTab[c].profile)])
      <4> DEFINE rec == [newTab[c] EXCEPT !.at = "create", !.before = Owned(newTab[c].profile)]
      <4>1. rec \in CreateRecord /\ rec.answer = newTab[c].answer /\ rec.at = "create" /\ rec.profile = newTab[c].profile
        BY <1>3, <3>1 DEF CreateRecord
      <4>2. SetCall(c, rec)
        BY <3>2
      <4> HIDE DEF rec
      <4> QED BY <4>1, <4>2
    <3>3. CASE SetCall(c, [newTab[c] EXCEPT !.at = "failed", !.profile = NoBrowser])
      <4> DEFINE rec == [newTab[c] EXCEPT !.at = "failed", !.profile = NoBrowser]
      <4>1. rec \in CreateRecord /\ rec.answer = newTab[c].answer /\ rec.at = "failed" /\ rec.profile = NoBrowser
        BY <1>3 DEF CreateRecord
      <4>2. SetCall(c, rec)
        BY <3>3
      <4> HIDE DEF rec
      <4> QED BY <4>1, <4>2
    <3> QED BY <1>7, <3>2, <3>3 DEF ListBefore
  <2>2. listed' \in (SUBSET Profiles) \cup {Expired}
    BY <1>2, <1>3, <1>7 DEF ListBefore
  <2>4. newTab' \in [CreateCalls -> CreateRecord] /\ newTab'[c] = rec /\ \A d \in CreateCalls : d # c => newTab'[d] = newTab[d]
    BY <1>1, <2>1, SetCallFacts
  <2>5. CreationTypes'
    BY <1>1, <2>2, <2>4, <1>7 DEF ListBefore, CreationTypes, CreateRecord
  <2>6. /\ newTab[c].at = "list" /\ newTab'[c].answer = newTab[c].answer
        /\ \A d \in CreateCalls : d # c => newTab'[d] = newTab[d]
        /\ \/ newTab'[c].at = "create" /\ newTab'[c].profile = newTab[c].profile
           \/ newTab'[c].at = "failed" /\ newTab'[c].profile = NoBrowser
    BY <1>7, <2>1, <2>4 DEF ListBefore
  <2>7. ~Served(c) /\ Asks(c) /\ (Asks(c)' => newTab'[c].profile = newTab[c].profile)
    BY <2>6 DEF Asks, Served
  <2> QED BY <2>5, <2>6, <2>7, <1>4, <1>7, CallMoves DEF ListBefore
<1>8. CASE CreationAnswered(c)
  <2>1. PICK t \in TabBy(c) : /\ tabs[t].stage \in {"stored", "released", "closed"}
                             /\ SetCall(c, [newTab[c] EXCEPT !.at = "made", !.before = {}, !.answer = t])
    BY <1>8, Zenon DEF CreationAnswered
  <2>2. t \in TabIds /\ tabs[t].by = c
    BY <2>1 DEF TabBy
  <2>3. newTab' \in [CreateCalls -> CreateRecord]
    BY <1>1, <1>3, <2>1, <2>2 DEF SetCall, CreateRecord
  <2>4. CreationTypes'
    BY <1>1, <2>3, <1>8, Zenon DEF CreationAnswered, CreationTypes, CreateRecord
  <2>5. /\ newTab'[c].answer = t /\ newTab'[c].at = "made"
        /\ \A d \in CreateCalls : d # c => newTab'[d] = newTab[d]
    BY <1>1, <1>3, <1>8, <2>1, Zenon DEF CreationAnswered, SetCall, CreateRecord
  <2>6. ~Asks(c)'
    BY <2>5 DEF Asks, Served
  <2>7. \A u \in TabIds : tabs[u].stage = "opened" => tabs[u].by # c
    BY <2>1, <2>2, TrackedAsks
  <2> QED BY <2>2, <2>4, <2>5, <2>6, <2>7, <1>8, CallMoves, Zenon DEF CreationAnswered
<1>9. CASE Fails(c)
  <2>1. PICK at \in {"recover", "failed"} :
          SetCall(c, [newTab[c] EXCEPT !.at = at, !.before = IF at = "recover" THEN @ ELSE {}])
    BY <1>9 DEF Fails, ShiftTo
  <2>2. newTab' \in [CreateCalls -> CreateRecord]
    BY <1>1, <1>3, <2>1 DEF SetCall, CreateRecord
  <2>3. CreationTypes'
    BY <1>1, <2>2, <1>9 DEF Fails, CreationTypes, CreateRecord
  <2>4. /\ newTab[c].at = "create" /\ newTab'[c].answer = newTab[c].answer /\ newTab'[c].profile = newTab[c].profile
        /\ newTab'[c].at \in {"recover", "failed"}
        /\ \A d \in CreateCalls : d # c => newTab'[d] = newTab[d]
    BY <1>1, <1>3, <1>9, <2>1 DEF Fails, SetCall, CreateRecord
  <2>5. tabs' = tabs
    BY <1>9 DEF Fails
  <2>6. (Served(c)' <=> Served(c)) /\ (Asks(c)' => Asks(c))
    BY <2>4, <2>5 DEF Asks, Served, TabBy
  <2> QED BY <2>3, <2>4, <2>5, <2>6, <1>4, <1>9, CallMoves DEF Fails
<1>10. CASE Reconcile(c)
  <2>0. Matching(c) \subseteq {t \in TabIds : tabs[t].by = c /\ tabs[t].stage # "opened"}
    BY DEF Matching, Owned
  <2>1. PICK rec \in CreateRecord :
           /\ SetCall(c, rec) /\ rec.profile = newTab[c].profile
           /\ \/ rec.at = "made" /\ rec.answer \in Matching(c)
              \/ rec.at = "failed" /\ rec.answer = newTab[c].answer
    <3>1. ASSUME NEW t \in Matching(c), SetCall(c, [newTab[c] EXCEPT !.at = "made", !.answer = t])
          PROVE  \E rec \in CreateRecord : /\ SetCall(c, rec) /\ rec.profile = newTab[c].profile
                                      /\ rec.at = "made" /\ rec.answer \in Matching(c)
      <4> DEFINE rec == [newTab[c] EXCEPT !.at = "made", !.answer = t]
      <4>1. rec \in CreateRecord /\ rec.answer = t /\ rec.at = "made" /\ rec.profile = newTab[c].profile
        BY <1>3, <2>0 DEF CreateRecord
      <4>2. SetCall(c, rec)
        BY <3>1
      <4> HIDE DEF rec
      <4> QED BY <4>1, <4>2
    <3>2. CASE ShiftTo(c, "failed")
      <4> DEFINE rec == [newTab[c] EXCEPT !.at = "failed", !.before = {}]
      <4>1. rec \in CreateRecord /\ rec.answer = newTab[c].answer /\ rec.at = "failed" /\ rec.profile = newTab[c].profile
        BY <1>3 DEF CreateRecord
      <4>2. SetCall(c, rec)
        BY <3>2 DEF ShiftTo
      <4> HIDE DEF rec
      <4> QED BY <4>1, <4>2
    <3>3. (\E t \in Matching(c) : SetCall(c, [newTab[c] EXCEPT !.at = "made", !.answer = t])) \/ ShiftTo(c, "failed")
      BY <1>10, Zenon DEF Reconcile
    <3> QED BY <3>1, <3>2, <3>3, Zenon
  <2>2. newTab' \in [CreateCalls -> CreateRecord] /\ newTab'[c] = rec /\ \A d \in CreateCalls : d # c => newTab'[d] = newTab[d]
    BY <1>1, <2>1, SetCallFacts
  <2>3. CreationTypes'
    BY <1>1, <2>2, <1>10, Zenon DEF Reconcile, CreationTypes, CreateRecord
  <2>4. /\ newTab[c].at = "recover" /\ newTab'[c].profile = newTab[c].profile
        /\ \A d \in CreateCalls : d # c => newTab'[d] = newTab[d]
        /\ newTab'[c].at \in {"made", "failed"}
        /\ newTab'[c].at = "made" => newTab'[c].answer \in Matching(c)
        /\ newTab'[c].at = "failed" => newTab'[c].answer = newTab[c].answer
    BY <1>10, <2>1, <2>2, Zenon DEF Reconcile
  <2>5. tabs' = tabs
    BY <1>10, Zenon DEF Reconcile
  <2>6. CASE newTab'[c].at = "made"
    <3>1. newTab'[c].answer \in TabIds /\ tabs[newTab'[c].answer].by = c /\ tabs[newTab'[c].answer].stage # "opened"
      BY <2>0, <2>4, <2>6
    <3>2. ~Asks(c)'
      BY <2>6 DEF Asks, Served
    <3>3. \A u \in TabIds : tabs[u].stage = "opened" => tabs[u].by # c
      BY <3>1, TrackedAsks
    <3> QED BY <2>3, <2>4, <2>5, <3>1, <3>2, <3>3, <1>10, CallMoves, Zenon DEF Reconcile
  <2>7. CASE newTab'[c].at = "failed"
    <3>1. (Served(c)' <=> Served(c)) /\ (Asks(c)' => Asks(c))
      BY <2>4, <2>5, <2>7 DEF Asks, Served, TabBy
    <3> QED BY <2>3, <2>4, <2>5, <2>7, <3>1, <1>4, <1>10, CallMoves, Zenon DEF Reconcile
  <2> QED BY <2>4, <2>6, <2>7
<1> QED BY <1>5, <1>6, <1>7, <1>8, <1>9, <1>10

\* The sessions are stored, a tab is tracked, touched or closed; the browsers come and go.
LEMMA BrowserSteps ==
  ASSUME CreationInv,
         \/ \E c \in CreateCalls : Track(c)
         \/ \E p \in Profiles : SelectProfile(p) \/ StoreSessions(p) \/ Reconnect(p)
         \/ \E t \in TabIds : TouchTab(t)
         \/ ListExpires
  PROVE  CreationInv'
<1>1. tabs \in [TabIds -> TabRecord] /\ newTab \in [CreateCalls -> CreateRecord] /\ CreationTypes
  BY DEF CreationInv, CreationTypes, TabRecord, CreateRecord
<1>2. /\ WantedProfile \in Profiles \cup {NoBrowser}
      /\ \A p \in Profiles \cup {NoBrowser} : /\ Listing(p) \in (SUBSET Profiles) \cup {Expired}
                                              /\ ChoicesFor(p) \subseteq Profiles
  BY <1>1, ChoiceFacts
<1>3. ASSUME NEW c \in CreateCalls, Track(c) PROVE CreationInv'
  <2>1. PICK t \in TabBy(c) : /\ tabs[t].stage = "opened"
                             /\ tabs' = [tabs EXCEPT ![t].stage = "tracked", ![t].marked = TRUE]
    BY <1>3 DEF Track
  <2>2. t \in TabIds
    BY DEF TabBy
  <2>a. tabs[t].stage = "opened"
    BY <2>1
  <2>3. tabs' \in [TabIds -> TabRecord]
    BY <1>1, <2>1, <2>2, Zenon DEF TabRecord
  <2>4. CreationTypes' /\ newTab' = newTab
    BY <1>1, <2>3, <1>3 DEF Track, CreationTypes, TabRecord
  <2>5. \A u \in TabIds : /\ tabs'[u].by = tabs[u].by /\ tabs'[u].at = tabs[u].at
                          /\ tabs'[u].stage = IF u = t THEN "tracked" ELSE tabs[u].stage
    BY <1>1, <2>1, <2>2 DEF TabRecord
  <2>6. used' = used /\ crossed' = crossed /\ finalizing' = finalizing /\ partial' = partial
    BY <1>3 DEF Track
  <2>7. \A u \in TabIds : HeldTab(u)' => HeldTab(u)
    BY <2>1, <2>5 DEF HeldTab
  <2>8. \A u \in TabIds : /\ tabs'[u].stage = "none" <=> tabs[u].stage = "none"
                          /\ tabs'[u].stage = "opened" => tabs[u].stage = "opened"
    <3> TAKE u \in TabIds
    <3>1. CASE u = t
      <4>1. tabs[u].stage = "opened" /\ tabs'[u].stage = "tracked"
        BY <2>a, <2>5, <3>1
      <4> QED BY <4>1
    <3>2. CASE u # t
      BY <2>5, <3>2
    <3> QED BY <3>1, <3>2
  <2> QED BY <2>4, <2>5, <2>6, <2>7, <2>8, TabsMove
<1>4. ASSUME NEW p \in Profiles, SelectProfile(p) PROVE CreationInv'
  <2>1. CreationTypes' /\ used \subseteq used'
    BY <1>1, <1>2, <1>4 DEF SelectProfile, CreationTypes
  <2> QED BY <2>1, <1>4, TabsMove DEF SelectProfile, HeldTab
<1>5. ASSUME NEW p \in Profiles, StoreSessions(p) PROVE CreationInv'
  <2>1. tabs' = [t \in TabIds |-> IF t \in Owned(p) THEN [tabs[t] EXCEPT !.stage = "stored"] ELSE tabs[t]]
    BY <1>5 DEF StoreSessions, MoveTabs
  <2>2. tabs' \in [TabIds -> TabRecord]
    BY <1>1, <2>1 DEF TabRecord
  <2>3. CreationTypes' /\ newTab' = newTab
    BY <1>1, <2>2, <1>5 DEF StoreSessions, CreationTypes, TabRecord
  <2>4. \A u \in TabIds : /\ tabs'[u].by = tabs[u].by /\ tabs'[u].at = tabs[u].at
                          /\ tabs'[u].stage = IF u \in Owned(p) THEN "stored" ELSE tabs[u].stage
    BY <1>1, <2>1 DEF TabRecord
  <2>5. \A u \in Owned(p) : tabs[u].stage \in {"tracked", "stored"}
    BY DEF Owned
  <2> QED BY <2>3, <2>4, <2>5, <1>5, TabsMove DEF StoreSessions, HeldTab
<1>6. ASSUME NEW p \in Profiles, Reconnect(p) PROVE CreationInv'
  <2>1. CreationTypes'
    BY <1>1, <1>6 DEF Reconnect, CreationTypes
  <2> QED BY <2>1, <1>6, TabsMove DEF Reconnect, HeldTab
<1>7. ASSUME NEW t \in TabIds, TouchTab(t) PROVE CreationInv'
  <2>1. CASE tabs' = [tabs EXCEPT ![t].stage = "closed", ![t].marked = FALSE]
    <3>1. tabs' \in [TabIds -> TabRecord]
      BY <1>1, <2>1, Zenon DEF TabRecord
    <3>2. CreationTypes' /\ newTab' = newTab
      BY <1>1, <3>1, <1>7 DEF TouchTab, CreationTypes, TabRecord
    <3>3. \A u \in TabIds : /\ tabs'[u].by = tabs[u].by /\ tabs'[u].at = tabs[u].at
                            /\ tabs'[u].stage = IF u = t THEN "closed" ELSE tabs[u].stage
      BY <1>1, <2>1 DEF TabRecord
    <3>4. tabs[t].stage # "none"
      BY <1>7 DEF TouchTab, Owned
    <3> QED BY <3>2, <3>3, <3>4, <1>7, TabsMove DEF TouchTab, HeldTab
  <2>2. CASE tabs' = [tabs EXCEPT ![t].blank = FALSE]
    <3>1. tabs' \in [TabIds -> TabRecord]
      BY <1>1, <2>2 DEF TabRecord
    <3>2. CreationTypes' /\ newTab' = newTab
      BY <1>1, <3>1, <1>7 DEF TouchTab, CreationTypes, TabRecord
    <3>3. \A u \in TabIds : /\ tabs'[u].by = tabs[u].by /\ tabs'[u].at = tabs[u].at
                            /\ tabs'[u].stage = tabs[u].stage
      BY <1>1, <2>2 DEF TabRecord
    <3> QED BY <3>2, <3>3, <1>7, TabsMove DEF TouchTab, HeldTab
  <2> QED BY <1>7, <2>1, <2>2 DEF TouchTab
<1>8. CASE ListExpires
  <2>1. CreationTypes'
    BY <1>1, <1>8 DEF ListExpires, CreationTypes
  <2> QED BY <2>1, <1>8, TabsMove DEF ListExpires, HeldTab
<1> QED BY <1>3, <1>4, <1>5, <1>6, <1>7, <1>8

\* The browser opens a tab, for a call that has none.
LEMMA OpenStep == ASSUME CreationInv, NEW c \in CreateCalls, Open(c) PROVE CreationInv'
<1> USE CreationAssumption
<1>1. tabs \in [TabIds -> TabRecord] /\ newTab \in [CreateCalls -> CreateRecord] /\ CreationTypes
  BY DEF CreationInv, CreationTypes, TabRecord, CreateRecord
<1>2. PICK t \in TabIds :
         /\ tabs[t].stage = "none"
         /\ tabs' = [tabs EXCEPT ![t] = [stage |-> "opened", at |-> newTab[c].profile, by |-> c, marked |-> FALSE, blank |-> TRUE]]
  <2> DEFINE t == CHOOSE t \in Free : TRUE
  <2>1. t \in Free
    BY DEF Open
  <2>2. t \in TabIds /\ tabs[t].stage = "none"
    BY <2>1 DEF Free
  <2>3. tabs' = [tabs EXCEPT ![t] = [stage |-> "opened", at |-> newTab[c].profile, by |-> c, marked |-> FALSE, blank |-> TRUE]]
    BY DEF Open
  <2> HIDE DEF t
  <2> QED BY <2>2, <2>3
<1>3. Served(c) /\ newTab[c].profile \in Profiles /\ \A u \in TabIds : tabs[u].by # c
  BY <1>1 DEF Open, Served, TabBy, CreateRecord
<1>4. newTab' = newTab /\ used' = used /\ crossed' = crossed /\ finalizing' = finalizing /\ partial' = partial
  BY DEF Open
<1>5. tabs' \in [TabIds -> TabRecord] /\ CreationTypes'
  <2>1. tabs' \in [TabIds -> TabRecord]
    BY <1>1, <1>2, <1>3 DEF TabRecord
  <2> QED BY <2>1, <1>1, <1>4 DEF Open, CreationTypes, TabRecord
<1>6. /\ tabs'[t].stage = "opened" /\ tabs'[t].at = newTab[c].profile /\ tabs'[t].by = c
      /\ \A u \in TabIds : u # t => tabs'[u] = tabs[u]
  BY <1>1, <1>2
<1>7. Asks(c)
  BY <1>3 DEF Asks, TabBy
<1>8. \A d \in CreateCalls : (Asks(d)' => Asks(d)) /\ (Served(d)' <=> Served(d))
  <2> TAKE d \in CreateCalls
  <2>1. Served(d)' <=> Served(d)
    BY <1>4 DEF Served
  <2>2. CASE d = c
    BY <1>7, <2>1, <2>2
  <2>3. CASE d # c
    <3>1. \A u \in TabIds : tabs[u].by = d => u # t
      BY <1>2, <2>3 DEF CreationInv, TabsOfCalls
    <3>2. TabBy(d)' = TabBy(d) /\ \A u \in TabBy(d) : tabs'[u] = tabs[u]
      BY <3>1, <1>6, <2>3 DEF TabBy
    <3> QED BY <2>1, <3>2, <1>4 DEF Asks
  <2> QED BY <2>2, <2>3
<1>9. TabsOfCalls'
  <2>1. \A u \in TabIds : tabs'[u].stage = "none" <=> tabs'[u].by = NoTab
    BY <1>6 DEF CreationInv, TabsOfCalls
  <2>2. \A u \in TabIds : HeldTab(u)' => tabs'[u].at \in Profiles
    BY <1>3, <1>6 DEF CreationInv, TabsOfCalls, HeldTab
  <2>3. \A u, w \in TabIds : tabs'[u].by = tabs'[w].by /\ tabs'[u].by # NoTab => u = w
    <3> TAKE u \in TabIds, w \in TabIds
    <3> HAVE tabs'[u].by = tabs'[w].by /\ tabs'[u].by # NoTab
    <3>1. CASE u = t
      BY <3>1, <1>3, <1>6
    <3>2. CASE w = t
      BY <3>2, <1>3, <1>6
    <3>3. CASE u # t /\ w # t
      BY <3>3, <1>6 DEF CreationInv, TabsOfCalls
    <3> QED BY <3>1, <3>2, <3>3
  <2>4. \A u \in TabIds : tabs'[u].stage = "opened" => Served(tabs'[u].by) /\ newTab'[tabs'[u].by].profile = tabs'[u].at
    BY <1>3, <1>4, <1>6 DEF CreationInv, TabsOfCalls
  <2>5. \A u \in TabIds : tabs'[u].stage = "opened" => Served(tabs[u].by)' /\ newTab'[tabs'[u].by].profile = tabs'[u].at
    BY <2>4, <1>4 DEF Served
  <2>6. \A d \in CreateCalls : newTab'[d].at = "made" => newTab'[d].answer \in TabIds /\ tabs'[newTab'[d].answer].by = d
    <3> TAKE d \in CreateCalls
    <3> HAVE newTab'[d].at = "made"
    <3>1. newTab[d].answer \in TabIds /\ tabs[newTab[d].answer].by = d
      BY <1>4 DEF CreationInv, TabsOfCalls
    <3>2. newTab[d].answer # t
      BY <3>1, <1>2 DEF CreationInv, TabsOfCalls
    <3> QED BY <3>1, <3>2, <1>4, <1>6
  <2>7. \A d \in CreateCalls : newTab'[d].answer # NoTab => tabs'[newTab'[d].answer].by = d
    <3> TAKE d \in CreateCalls
    <3> HAVE newTab'[d].answer # NoTab
    <3>1. newTab[d].answer \in TabIds /\ tabs[newTab[d].answer].by = d
      BY <1>1, <1>4 DEF CreationInv, TabsOfCalls, AnswerIsOwn, CreateRecord
    <3>2. newTab[d].answer # t
      BY <3>1, <1>2 DEF CreationInv, TabsOfCalls
    <3> QED BY <3>1, <3>2, <1>4, <1>6
  <2> QED BY <2>1, <2>2, <2>3, <2>5, <2>6, <2>7 DEF TabsOfCalls, AnswerIsOwn
<1>10. newTab[c].profile \in used \cup crossed /\ (finalizing # {} => newTab[c].profile \in crossed)
  BY <1>7 DEF CreationInv, ProfilesCover, FinalizationReaches
<1>11. \A u \in TabIds : u # t => (HeldTab(u)' <=> HeldTab(u)) /\ tabs'[u].at = tabs[u].at
  BY <1>6 DEF HeldTab
<1>12. ProfilesCover'
  BY <1>4, <1>6, <1>8, <1>10, <1>11 DEF CreationInv, ProfilesCover
<1>13. FinalizationReaches'
  <2>1. finalizing' # {} => \A d \in CreateCalls : Asks(d)' => newTab'[d].profile \in crossed'
    BY <1>4, <1>8 DEF CreationInv, FinalizationReaches
  <2>2. ASSUME finalizing' # {}, ~partial', NEW u \in TabIds, HeldTab(u)'
        PROVE  tabs'[u].at \in finalizing' \cup crossed'
    <3>1. CASE u = t
      BY <3>1, <2>2, <1>4, <1>6, <1>10
    <3>2. CASE u # t
      BY <3>2, <2>2, <1>4, <1>11 DEF CreationInv, FinalizationReaches
    <3> QED BY <3>1, <3>2
  <2> QED BY <2>1, <2>2 DEF FinalizationReaches
<1> QED BY <1>5, <1>9, <1>12, <1>13 DEF CreationInv

\* browser_navigate goes on with the tab that was made.
LEMMA NavigateStep == ASSUME CreationInv, NEW c \in CreateCalls, NavigateNew(c) PROVE CreationInv'
<1>1. tabs \in [TabIds -> TabRecord] /\ newTab \in [CreateCalls -> CreateRecord] /\ CreationTypes /\ newTab[c] \in CreateRecord
  BY DEF CreationInv, CreationTypes, TabRecord, CreateRecord
<1>2. listed' \in (SUBSET Profiles) \cup {Expired}
  BY <1>1, ChoiceFacts DEF NavigateNew
<1>3. newTab[c].at = "made" /\ newTab[c].answer \in TabIds /\ tabs[newTab[c].answer].by = c
  BY DEF NavigateNew, CreationInv, TabsOfCalls
<1>4. tabs' = tabs \/ tabs' = [tabs EXCEPT ![newTab[c].answer].blank = FALSE]
  BY DEF NavigateNew
<1>5. tabs' \in [TabIds -> TabRecord] /\ \A u \in TabIds : /\ tabs'[u].by = tabs[u].by /\ tabs'[u].at = tabs[u].at
                                                         /\ tabs'[u].stage = tabs[u].stage
  <2>1. CASE tabs' = tabs
    BY <2>1, <1>1
  <2>2. CASE tabs' = [tabs EXCEPT ![newTab[c].answer].blank = FALSE]
    BY <2>2, <1>1, <1>3, Zenon DEF TabRecord
  <2> QED BY <1>4, <2>1, <2>2
<1>6. PICK rec \in CreateRecord : SetCall(c, rec) /\ rec.at \in {"over", "failed"} /\ rec.answer = newTab[c].answer
  <2>1. PICK at \in {"over", "failed"} : ShiftTo(c, at)
    BY DEF NavigateNew
  <2> DEFINE rec == [newTab[c] EXCEPT !.at = at, !.before = IF at = "recover" THEN @ ELSE {}]
  <2>2. rec \in CreateRecord /\ rec.at \in {"over", "failed"} /\ rec.answer = newTab[c].answer
    BY <1>1 DEF CreateRecord
  <2>3. SetCall(c, rec)
    BY <2>1 DEF ShiftTo
  <2> HIDE DEF rec
  <2> QED BY <2>2, <2>3
<1>7. newTab' \in [CreateCalls -> CreateRecord] /\ newTab'[c] = rec /\ \A d \in CreateCalls : d # c => newTab'[d] = newTab[d]
  BY <1>1, <1>6, SetCallFacts
<1>8. CreationTypes'
  BY <1>1, <1>2, <1>5, <1>7 DEF NavigateNew, CreationTypes, TabRecord, CreateRecord
<1>9. ~Served(c)
  BY <1>3 DEF Served
<1>10. \A u \in TabIds : tabs[u].stage = "opened" => tabs[u].by # c /\ tabs[u].by \in CreateCalls /\ Served(tabs[u].by)
  BY <1>9, OpenedAsks DEF CreationInv, TabsOfCalls
<1>11. ~Asks(c)'
  <2>1. newTab[c].answer \in TabBy(c)' /\ tabs'[newTab[c].answer].stage # "opened"
    BY <1>3, <1>5, <1>10 DEF TabBy
  <2>2. newTab'[c].at # "list"
    BY <1>6, <1>7
  <2> QED BY <2>1, <2>2 DEF Asks
<1>12. \A d \in CreateCalls : d # c => (Asks(d)' <=> Asks(d)) /\ (Served(d)' <=> Served(d)) /\ newTab'[d].profile = newTab[d].profile
  BY <1>5, <1>7 DEF Asks, Served, TabBy
<1>13. \A u \in TabIds : tabs'[u].stage = "opened" => Served(tabs[u].by)' /\ newTab'[tabs[u].by].profile = newTab[tabs[u].by].profile
  <2> TAKE u \in TabIds
  <2> HAVE tabs'[u].stage = "opened"
  <2> DEFINE d == tabs[u].by
  <2>1. d \in CreateCalls /\ d # c /\ Served(d) /\ tabs'[u].by = d
    BY <1>5, <1>10
  <2> QED BY <2>1, <1>12
<1>14. \A d \in CreateCalls : newTab'[d].answer = newTab[d].answer /\ (newTab'[d].at = "made" => newTab[d].at = "made")
  <2> TAKE d \in CreateCalls
  <2>1. CASE d = c
    BY <2>1, <1>6, <1>7
  <2>2. CASE d # c
    BY <2>2, <1>7
  <2> QED BY <2>1, <2>2
<1>15. used' = used /\ crossed' = crossed /\ finalizing' = finalizing /\ partial' = partial
  BY DEF NavigateNew
<1>16. \A d \in CreateCalls : Asks(d)' => Asks(d) /\ newTab'[d].profile = newTab[d].profile
  BY <1>11, <1>12
<1>17. \A u \in TabIds : HeldTab(u)' <=> HeldTab(u)
  BY <1>5 DEF HeldTab
<1> QED BY <1>5, <1>8, <1>13, <1>14, <1>15, <1>16, <1>17, GentleInv DEF Gentle

\* The extension of a profile restarts, under what it serves.
LEMMA RestartStep == ASSUME CreationInv, NEW p \in Profiles, RestartExtension(p) PROVE CreationInv'
<1> USE CreationAssumption
<1>1. tabs \in [TabIds -> TabRecord] /\ newTab \in [CreateCalls -> CreateRecord] /\ CreationTypes
  BY DEF CreationInv, CreationTypes, TabRecord, CreateRecord
<1>2. /\ tabs' \in [TabIds -> TabRecord]
      /\ \A u \in TabIds : /\ tabs'[u].by = tabs[u].by /\ tabs'[u].at = tabs[u].at
                            /\ tabs'[u].stage = IF tabs[u].at = p /\ tabs[u].stage \in {"opened", "tracked"} THEN "released" ELSE tabs[u].stage
  BY <1>1, Zenon DEF RestartExtension, TabRecord
<1>3. /\ newTab' \in [CreateCalls -> CreateRecord]
      /\ \A c \in CreateCalls :
           /\ newTab'[c].answer = newTab[c].answer
           /\ IF Served(c) /\ newTab[c].profile = p
              THEN newTab'[c].at = "failed" /\ newTab'[c].profile = NoBrowser
              ELSE newTab'[c] = newTab[c]
  <2>1. newTab' = [c \in CreateCalls |-> IF Served(c) /\ newTab[c].profile = p
                                        THEN [newTab[c] EXCEPT !.at = "failed", !.profile = NoBrowser] ELSE newTab[c]]
    BY Zenon DEF RestartExtension
  <2>2. \A c \in CreateCalls : /\ [newTab[c] EXCEPT !.at = "failed", !.profile = NoBrowser] \in CreateRecord
                               /\ [newTab[c] EXCEPT !.at = "failed", !.profile = NoBrowser].answer = newTab[c].answer
                               /\ [newTab[c] EXCEPT !.at = "failed", !.profile = NoBrowser].at = "failed"
                               /\ [newTab[c] EXCEPT !.at = "failed", !.profile = NoBrowser].profile = NoBrowser
    BY <1>1 DEF CreateRecord
  <2> QED BY <1>1, <2>1, <2>2, Zenon
<1>4. CreationTypes'
  BY <1>1, <1>2, <1>3, Zenon DEF RestartExtension, CreationTypes, TabRecord, CreateRecord
<1>5. used' = used /\ crossed' = crossed /\ finalizing' = finalizing /\ partial' = partial
  BY Zenon DEF RestartExtension
<1>6. \A c \in CreateCalls : Asks(c)' => Asks(c) /\ newTab'[c].profile = newTab[c].profile
  <2> TAKE c \in CreateCalls
  <2>1. CASE Served(c) /\ newTab[c].profile = p
    BY <2>1, <1>3 DEF Asks, Served
  <2>2. CASE ~(Served(c) /\ newTab[c].profile = p)
    BY <2>2, <1>2, <1>3 DEF Asks, Served, TabBy
  <2> QED BY <2>1, <2>2
<1>7. \A u \in TabIds : tabs'[u].stage = "opened" => /\ tabs[u].stage = "opened" /\ Served(tabs[u].by)'
                                                    /\ newTab'[tabs[u].by].profile = newTab[tabs[u].by].profile
  <2> TAKE u \in TabIds
  <2> HAVE tabs'[u].stage = "opened"
  <2> DEFINE d == tabs[u].by
  <2>1. tabs[u].stage = "opened" /\ tabs[u].at # p
    BY <1>2
  <2>2. d \in CreateCalls /\ Served(d) /\ newTab[d].profile # p /\ tabs'[u].by = d
    BY <1>2, <2>1, OpenedAsks DEF CreationInv, TabsOfCalls
  <2>3. newTab'[d] = newTab[d]
    BY <1>3, <2>2
  <2> QED BY <2>1, <2>2, <2>3 DEF Served
<1>8. \A u \in TabIds : (HeldTab(u)' => HeldTab(u)) /\ (tabs'[u].stage = "none" <=> tabs[u].stage = "none")
  BY <1>2 DEF HeldTab
<1>9. \A c \in CreateCalls : newTab'[c].at = "made" => newTab[c].at = "made"
  BY <1>3
<1> QED BY <1>2, <1>3, <1>4, <1>5, <1>6, <1>7, <1>8, <1>9, GentleInv DEF Gentle

\* A finalization begins: it asks every profile that counts as used.
LEMMA FinalizeStep == ASSUME CreationInv, Finalize PROVE CreationInv'
<1>1. /\ tabs' = tabs /\ newTab' = newTab /\ used' = used /\ finalizing' = used /\ partial' = FALSE
      /\ crossed' = crossed \cup {p \in used : AskedIn(p)}
  BY DEF Finalize
<1>2. CreationTypes'
  BY <1>1 DEF Finalize, CreationInv, CreationTypes
<1>3. \A c \in CreateCalls : (Asks(c)' <=> Asks(c)) /\ (Served(c)' <=> Served(c))
  BY <1>1 DEF Asks, Served, TabBy
<1>4. TabsOfCalls'
  BY <1>1, <1>3 DEF CreationInv, TabsOfCalls, HeldTab, AnswerIsOwn, Served
<1>5. ProfilesCover'
  BY <1>1, <1>3 DEF CreationInv, ProfilesCover, HeldTab
<1>6. FinalizationReaches'
  <2>1. ASSUME NEW c \in CreateCalls, Asks(c)' PROVE newTab'[c].profile \in crossed'
    <3>1. Asks(c) /\ newTab[c].profile \in used \cup crossed
      BY <1>3, <2>1 DEF CreationInv, ProfilesCover
    <3>2. newTab[c].profile \in used => AskedIn(newTab[c].profile)
      BY <3>1 DEF AskedIn
    <3> QED BY <1>1, <3>1, <3>2
  <2>2. ASSUME NEW t \in TabIds, HeldTab(t)' PROVE tabs'[t].at \in finalizing' \cup crossed'
    BY <1>1, <2>2 DEF CreationInv, ProfilesCover, HeldTab
  <2> QED BY <2>1, <2>2 DEF FinalizationReaches
<1> QED BY <1>2, <1>4, <1>5, <1>6 DEF CreationInv

\* A profile answers a finalization, or fails it; the last one ends it.
LEMMA FinalizeTabsStep == ASSUME CreationInv, NEW p \in Profiles, FinalizeTabs(p) PROVE CreationInv'
<1>1. tabs \in [TabIds -> TabRecord] /\ newTab \in [CreateCalls -> CreateRecord] /\ CreationTypes
  BY DEF CreationInv, CreationTypes, TabRecord, CreateRecord
<1>2. /\ p \in finalizing /\ finalizing' = finalizing \ {p} /\ newTab' = newTab /\ crossed' = crossed
      /\ used' = IF finalizing' = {} /\ ~partial' THEN {} ELSE used
  BY DEF FinalizeTabs
<1>3. /\ tabs' \in [TabIds -> TabRecord] /\ partial' \in BOOLEAN /\ (~partial' => ~partial)
      /\ \A u \in TabIds :
           /\ tabs'[u].by = tabs[u].by /\ tabs'[u].at = tabs[u].at
           /\ \/ tabs'[u].stage = tabs[u].stage /\ (~partial' => u \notin Owned(p))
              \/ tabs'[u].stage = "released" /\ u \in Owned(p)
  <2>1. CASE MoveTabs(Owned(p), "released") /\ partial' = partial
    <3>1. tabs' = [t \in TabIds |-> IF t \in Owned(p) THEN [tabs[t] EXCEPT !.stage = "released"] ELSE tabs[t]]
      BY <2>1 DEF MoveTabs
    <3>2. tabs' \in [TabIds -> TabRecord]
      BY <1>1, <3>1 DEF TabRecord
    <3>3. \A u \in TabIds : /\ tabs'[u].by = tabs[u].by /\ tabs'[u].at = tabs[u].at
                            /\ tabs'[u].stage = IF u \in Owned(p) THEN "released" ELSE tabs[u].stage
      BY <1>1, <3>1 DEF TabRecord
    <3>4. partial' \in BOOLEAN
      BY <1>1, <2>1 DEF CreationTypes
    <3> QED BY <2>1, <3>2, <3>3, <3>4
  <2>2. CASE partial' = TRUE /\ tabs' = tabs
    BY <1>1, <2>2
  <2> QED BY <2>1, <2>2 DEF FinalizeTabs
<1>4. CreationTypes'
  BY <1>1, <1>2, <1>3 DEF FinalizeTabs, CreationTypes, TabRecord, CreateRecord
<1>5. \A u \in TabIds : /\ HeldTab(u)' => HeldTab(u) /\ tabs'[u].stage = tabs[u].stage
                        /\ tabs'[u].stage = "opened" => tabs[u].stage = "opened"
                        /\ tabs'[u].stage = "none" <=> tabs[u].stage = "none"
  BY <1>3 DEF HeldTab, Owned
<1>6. \A c \in CreateCalls : (Asks(c)' => Asks(c)) /\ (Served(c)' <=> Served(c))
  BY <1>2, <1>3, <1>5 DEF Asks, Served, TabBy
<1>7. \A c \in CreateCalls : Asks(c) => newTab[c].profile \in crossed
  BY <1>2 DEF CreationInv, FinalizationReaches
\* What was not released is elsewhere, or waits to be tracked.
<1>8. ~partial' => \A u \in TabIds : HeldTab(u)' => tabs'[u].at \in finalizing' \cup crossed'
  <2> SUFFICES ASSUME ~partial', NEW u \in TabIds, HeldTab(u)' PROVE tabs'[u].at \in finalizing' \cup crossed'
    OBVIOUS
  <2>1. tabs[u].at \in finalizing \cup crossed
    BY <1>2, <1>3, <1>5 DEF CreationInv, FinalizationReaches
  <2>2. CASE tabs[u].stage = "opened"
    BY <2>2, <1>2, <1>3, <1>7, OpenedAsks
  <2>3. CASE tabs[u].stage # "opened"
    <3>1. u \notin Owned(p) /\ tabs[u].stage \in {"tracked", "stored"}
      BY <1>3, <1>5, <2>3 DEF HeldTab
    <3> QED BY <2>1, <3>1, <1>2, <1>3 DEF Owned
  <2> QED BY <2>2, <2>3
<1>9. TabsOfCalls'
  <2>1. \A u \in TabIds : tabs'[u].stage = "opened" => Served(tabs[u].by)' /\ newTab'[tabs'[u].by].profile = tabs'[u].at
    BY <1>2, <1>3, <1>5 DEF CreationInv, TabsOfCalls, Served
  <2>2. \A t, u \in TabIds : tabs'[t].by = tabs'[u].by /\ tabs'[t].by # NoTab => t = u
    BY <1>3 DEF CreationInv, TabsOfCalls
  <2>3. \A c \in CreateCalls : newTab'[c].at = "made" => newTab'[c].answer \in TabIds /\ tabs'[newTab'[c].answer].by = c
    BY <1>2, <1>3 DEF CreationInv, TabsOfCalls
  <2>4. AnswerIsOwn'
    BY <1>1, <1>2, <1>3 DEF CreationInv, TabsOfCalls, AnswerIsOwn, CreateRecord
  <2>5. \A t \in TabIds : tabs'[t].stage = "none" <=> tabs'[t].by = NoTab
    BY <1>3, <1>5 DEF CreationInv, TabsOfCalls
  <2>6. \A t \in TabIds : HeldTab(t)' => tabs'[t].at \in Profiles
    BY <1>3, <1>5 DEF CreationInv, TabsOfCalls
  <2> QED BY <1>3, <2>1, <2>2, <2>3, <2>4, <2>5, <2>6 DEF TabsOfCalls
<1>10. ProfilesCover'
  <2>1. \A c \in CreateCalls : Asks(c)' => newTab'[c].profile \in used' \cup crossed'
    BY <1>2, <1>6, <1>7
  <2>2. ASSUME NEW u \in TabIds, HeldTab(u)' PROVE tabs'[u].at \in used' \cup crossed'
    <3>1. CASE finalizing' = {} /\ ~partial'
      BY <3>1, <1>8, <2>2
    <3>2. CASE ~(finalizing' = {} /\ ~partial')
      BY <3>2, <2>2, <1>2, <1>3, <1>5 DEF CreationInv, ProfilesCover
    <3> QED BY <3>1, <3>2
  <2> QED BY <2>1, <2>2 DEF ProfilesCover
<1>11. FinalizationReaches'
  BY <1>2, <1>6, <1>7, <1>8 DEF FinalizationReaches
<1> QED BY <1>4, <1>9, <1>10, <1>11 DEF CreationInv

\* client.ts, configuration.ts, session-runtime.ts: a call is answered with a tab made for
\* it, and the profiles in use cover the tabs of the session.
THEOREM CreationTheorem == TabCreationSpec => [](AnswerIsOwn /\ UsedCoversTabs)
<1>1. TabCreationInit => CreationInv
  <2> SUFFICES ASSUME TabCreationInit PROVE CreationInv
    OBVIOUS
  <2>1. CreationTypes
    BY DEF TabCreationInit, CreationTypes, NoSuchTab, CreateRecord, TabRecord
  <2>2. /\ \A t \in TabIds : tabs[t].stage = "none" /\ tabs[t].by = NoTab
        /\ \A c \in CreateCalls : newTab[c].at = "idle" /\ newTab[c].answer = NoTab
        /\ finalizing = {}
    BY DEF TabCreationInit, NoSuchTab
  <2>3. (\A t \in TabIds : ~HeldTab(t)) /\ (\A c \in CreateCalls : ~Asks(c))
    BY <2>2 DEF HeldTab, Asks, Served
  <2>4. TabsOfCalls
    BY <2>2, <2>3 DEF TabsOfCalls, AnswerIsOwn
  <2>5. ProfilesCover /\ FinalizationReaches
    BY <2>2, <2>3 DEF ProfilesCover, FinalizationReaches
  <2> QED BY <2>1, <2>4, <2>5 DEF CreationInv
<1>2. CreationInv /\ [TabCreationNext]_tabCreationVars => CreationInv'
  <2> SUFFICES ASSUME CreationInv, [TabCreationNext]_tabCreationVars PROVE CreationInv'
    OBVIOUS
  <2>1. CASE UNCHANGED tabCreationVars
    BY <2>1 DEF tabCreationVars, CreationInv, CreationTypes, TabsOfCalls, ProfilesCover, FinalizationReaches,
                HeldTab, Asks, Served, TabBy, AnswerIsOwn
  <2>2. CASE TabCreationNext
    <3>1. \/ \E c \in CreateCalls : NewTab(c) \/ ChooseProfile(c) \/ ListBefore(c) \/ CreationAnswered(c) \/ Fails(c) \/ Reconcile(c)
          \/ \E c \in CreateCalls : Open(c)
          \/ \E c \in CreateCalls : NavigateNew(c)
          \/ \E p \in Profiles : RestartExtension(p)
          \/ \E p \in Profiles : FinalizeTabs(p)
          \/ Finalize
          \/ \/ \E c \in CreateCalls : Track(c)
             \/ \E p \in Profiles : SelectProfile(p) \/ StoreSessions(p) \/ Reconnect(p)
             \/ \E t \in TabIds : TouchTab(t)
             \/ ListExpires
      BY <2>2 DEF TabCreationNext
    <3> QED BY <3>1, CallSteps, OpenStep, NavigateStep, RestartStep, FinalizeTabsStep, FinalizeStep, BrowserSteps
  <2> QED BY <2>1, <2>2
<1>3. CreationInv => AnswerIsOwn /\ UsedCoversTabs
  BY DEF CreationInv, TabsOfCalls, ProfilesCover, UsedCoversTabs, Owned, HeldTab
<1> QED BY <1>1, <1>2, <1>3, PTL DEF TabCreationSpec

-----------------------------------------------------------------------------
(***************************************************************************)
(* Guards and contexts are those of the open session (FirefoxSession)      *)
(***************************************************************************)

FoxTypes ==
  /\ session \in Nat /\ opened \in Nat /\ undoLost \in BOOLEAN
  /\ contexts \in [FoxTabs -> Nat] /\ preloads \in [FoxTabs -> Nat]
  /\ work \in [FoxTabs -> {"idle", "connect", "guard", "answer", "undo", "detach", "close"}]
  /\ guards \subseteq [tab : FoxTabs, session : Nat] /\ attachedFox \subseteq FoxTabs

\* A tab that takes commands, or is about to, has its guard if it has a context; one on
\* its way to that is not attached.
FoxTabInv(t) ==
  /\ contexts[t] \in {0, session}
  /\ work[t] \in {"connect", "guard"} => session # 0
  /\ work[t] = "guard" => contexts[t] = session
  /\ work[t] \in {"connect", "guard", "answer", "undo"} => t \notin attachedFox
  /\ work[t] = "detach" => t \in attachedFox
  /\ (t \in attachedFox \/ work[t] = "answer") /\ contexts[t] # 0
       => [tab |-> t, session |-> session] \in guards

\* A guard is the one the backend knows of, and its tab will be detached, unless a
\* detachment that made up for a late attachment failed.
FoxGuardInv(g) ==
  /\ session # 0 /\ g.session = session /\ preloads[g.tab] = session
  /\ \/ undoLost
     \/ contexts[g.tab] # 0 /\ (g.tab \in attachedFox \/ work[g.tab] \in {"answer", "undo"})

FoxInv ==
  /\ FoxTypes
  /\ session = 0 <=> ready = "none"
  /\ \A t \in FoxTabs : FoxTabInv(t)
  /\ \A g \in guards : FoxGuardInv(g)

\* A guard is its tab and its session.
LEMMA GuardRecord ==
  ASSUME NEW g \in [tab : FoxTabs, session : Nat]
  PROVE  g = [tab |-> g.tab, session |-> g.session] /\ g.tab \in FoxTabs /\ g.session \in Nat
OBVIOUS

\* Each action keeps the invariant.
LEMMA AttachFoxInv == ASSUME FoxInv, NEW t \in FoxTabs, Attach(t) PROVE FoxInv'
<1>1. FoxTypes'
  BY DEF Attach, FoxInv, FoxTypes
<1>2. (session = 0 <=> ready = "none")'
  BY DEF Attach, FoxInv, FoxTypes
<1>3. ASSUME NEW u \in FoxTabs PROVE FoxTabInv(u)'
  <2>1. /\ contexts' = contexts /\ guards' = guards /\ attachedFox' = attachedFox
        /\ work'[u] = (IF u = t THEN "connect" ELSE work[u]) /\ t \notin attachedFox
    BY DEF Attach, FoxInv, FoxTypes
  <2>2. CASE ready # "none"
    <3>1. session' = session /\ session # 0
      BY <2>2 DEF Attach, FoxInv
    <3> QED BY <1>3, <2>1, <3>1 DEF FoxInv, FoxTabInv
  <2>3. CASE ready = "none"
    <3>1. session = 0 /\ session' # 0
      BY <2>3 DEF Attach, FoxInv, FoxTypes
    <3>2. contexts[u] = 0 /\ work[u] \notin {"connect", "guard"}
      BY <1>3, <3>1 DEF FoxInv, FoxTabInv
    <3> QED BY <1>3, <2>1, <3>1, <3>2 DEF FoxInv, FoxTabInv
  <2> QED BY <2>2, <2>3
<1>4. ASSUME NEW g \in guards' PROVE FoxGuardInv(g)'
  BY <1>1, <1>4, GuardRecord DEF Attach, FoxInv, FoxTypes, FoxTabInv, FoxGuardInv
<1> QED BY <1>1, <1>2, <1>3, <1>4 DEF FoxInv

LEMMA MatchFoxInv == ASSUME FoxInv, NEW t \in FoxTabs, Match(t) PROVE FoxInv'
<1>1. FoxTypes'
  BY DEF Match, FoxInv, FoxTypes
<1>2. (session = 0 <=> ready = "none")'
  BY DEF Match, FoxInv, FoxTypes
<1>3. ASSUME NEW u \in FoxTabs PROVE FoxTabInv(u)'
  BY <1>3 DEF Match, FoxInv, FoxTypes, FoxTabInv, FoxGuardInv
<1>4. ASSUME NEW g \in guards' PROVE FoxGuardInv(g)'
  BY <1>1, <1>4, GuardRecord DEF Match, FoxInv, FoxTypes, FoxTabInv, FoxGuardInv
<1> QED BY <1>1, <1>2, <1>3, <1>4 DEF FoxInv

LEMMA MatchFailsFoxInv == ASSUME FoxInv, NEW t \in FoxTabs, MatchFails(t) PROVE FoxInv'
<1>1. FoxTypes'
  BY DEF MatchFails, FoxInv, FoxTypes
<1>2. (session = 0 <=> ready = "none")'
  BY DEF MatchFails, FoxInv, FoxTypes
<1>3. ASSUME NEW u \in FoxTabs PROVE FoxTabInv(u)'
  BY <1>3 DEF MatchFails, FoxInv, FoxTypes, FoxTabInv, FoxGuardInv
<1>4. ASSUME NEW g \in guards' PROVE FoxGuardInv(g)'
  BY <1>1, <1>4, GuardRecord DEF MatchFails, FoxInv, FoxTypes, FoxTabInv, FoxGuardInv
<1> QED BY <1>1, <1>2, <1>3, <1>4 DEF FoxInv

LEMMA GuardFoxInv == ASSUME FoxInv, NEW t \in FoxTabs, Guard(t) PROVE FoxInv'
<1>1. FoxTypes'
  BY DEF Guard, FoxInv, FoxTypes
<1>2. (session = 0 <=> ready = "none")'
  BY DEF Guard, FoxInv, FoxTypes
<1>3. ASSUME NEW u \in FoxTabs PROVE FoxTabInv(u)'
  BY <1>3 DEF Guard, FoxInv, FoxTypes, FoxTabInv, FoxGuardInv
<1>4. ASSUME NEW g \in guards' PROVE FoxGuardInv(g)'
  BY <1>1, <1>4, GuardRecord DEF Guard, FoxInv, FoxTypes, FoxTabInv, FoxGuardInv
<1> QED BY <1>1, <1>2, <1>3, <1>4 DEF FoxInv

LEMMA GuardFailsFoxInv == ASSUME FoxInv, NEW t \in FoxTabs, GuardFails(t) PROVE FoxInv'
<1>1. FoxTypes'
  BY DEF GuardFails, FoxInv, FoxTypes
<1>2. (session = 0 <=> ready = "none")'
  BY DEF GuardFails, FoxInv, FoxTypes
<1>3. ASSUME NEW u \in FoxTabs PROVE FoxTabInv(u)'
  BY <1>3 DEF GuardFails, FoxInv, FoxTypes, FoxTabInv, FoxGuardInv
<1>4. ASSUME NEW g \in guards' PROVE FoxGuardInv(g)'
  BY <1>1, <1>4, GuardRecord DEF GuardFails, FoxInv, FoxTypes, FoxTabInv, FoxGuardInv
<1> QED BY <1>1, <1>2, <1>3, <1>4 DEF FoxInv

LEMMA AttachAnsweredFoxInv == ASSUME FoxInv, NEW t \in FoxTabs, AttachAnswered(t) PROVE FoxInv'
<1>1. FoxTypes'
  BY DEF AttachAnswered, FoxInv, FoxTypes
<1>2. (session = 0 <=> ready = "none")'
  BY DEF AttachAnswered, FoxInv, FoxTypes
<1>3. ASSUME NEW u \in FoxTabs PROVE FoxTabInv(u)'
  BY <1>3 DEF AttachAnswered, FoxInv, FoxTypes, FoxTabInv, FoxGuardInv
<1>4. ASSUME NEW g \in guards' PROVE FoxGuardInv(g)'
  BY <1>1, <1>4, GuardRecord DEF AttachAnswered, FoxInv, FoxTypes, FoxTabInv, FoxGuardInv
<1> QED BY <1>1, <1>2, <1>3, <1>4 DEF FoxInv

LEMMA AnswerLateFoxInv == ASSUME FoxInv, NEW t \in FoxTabs, AnswerLate(t) PROVE FoxInv'
<1>1. FoxTypes'
  BY DEF AnswerLate, FoxInv, FoxTypes
<1>2. (session = 0 <=> ready = "none")'
  BY DEF AnswerLate, FoxInv, FoxTypes
<1>3. ASSUME NEW u \in FoxTabs PROVE FoxTabInv(u)'
  BY <1>3 DEF AnswerLate, FoxInv, FoxTypes, FoxTabInv, FoxGuardInv
<1>4. ASSUME NEW g \in guards' PROVE FoxGuardInv(g)'
  BY <1>1, <1>4, GuardRecord DEF AnswerLate, FoxInv, FoxTypes, FoxTabInv, FoxGuardInv
<1> QED BY <1>1, <1>2, <1>3, <1>4 DEF FoxInv

LEMMA DetachStartFoxInv == ASSUME FoxInv, NEW t \in FoxTabs, DetachStart(t) PROVE FoxInv'
<1>1. FoxTypes'
  BY DEF DetachStart, FoxInv, FoxTypes
<1>2. (session = 0 <=> ready = "none")'
  BY DEF DetachStart, FoxInv, FoxTypes
<1>3. ASSUME NEW u \in FoxTabs PROVE FoxTabInv(u)'
  BY <1>3 DEF DetachStart, FoxInv, FoxTypes, FoxTabInv, FoxGuardInv
<1>4. ASSUME NEW g \in guards' PROVE FoxGuardInv(g)'
  BY <1>1, <1>4, GuardRecord DEF DetachStart, FoxInv, FoxTypes, FoxTabInv, FoxGuardInv
<1> QED BY <1>1, <1>2, <1>3, <1>4 DEF FoxInv

LEMMA DetachNowFoxInv == ASSUME FoxInv, NEW t \in FoxTabs, DetachNow(t) PROVE FoxInv'
<1>1. FoxTypes'
  BY DEF DetachNow, FoxInv, FoxTypes, Left, None
<1>2. (session = 0 <=> ready = "none")'
  BY DEF DetachNow, FoxInv, FoxTypes, Left, None
<1>3. ASSUME NEW u \in FoxTabs PROVE FoxTabInv(u)'
  BY <1>3 DEF DetachNow, FoxInv, FoxTypes, FoxTabInv, FoxGuardInv, Left, None
<1>4. ASSUME NEW g \in guards' PROVE FoxGuardInv(g)'
  BY <1>1, <1>4, GuardRecord DEF DetachNow, FoxInv, FoxTypes, FoxTabInv, FoxGuardInv, Left, None
<1> QED BY <1>1, <1>2, <1>3, <1>4 DEF FoxInv

LEMMA DetachTimesOutFoxInv == ASSUME FoxInv, NEW t \in FoxTabs, DetachTimesOut(t) PROVE FoxInv'
<1>1. FoxTypes'
  BY DEF DetachTimesOut, FoxInv, FoxTypes
<1>2. (session = 0 <=> ready = "none")'
  BY DEF DetachTimesOut, FoxInv, FoxTypes
<1>3. ASSUME NEW u \in FoxTabs PROVE FoxTabInv(u)'
  BY <1>3 DEF DetachTimesOut, FoxInv, FoxTypes, FoxTabInv, FoxGuardInv
<1>4. ASSUME NEW g \in guards' PROVE FoxGuardInv(g)'
  BY <1>1, <1>4, GuardRecord DEF DetachTimesOut, FoxInv, FoxTypes, FoxTabInv, FoxGuardInv
<1> QED BY <1>1, <1>2, <1>3, <1>4 DEF FoxInv

LEMMA CloseFoxInv == ASSUME FoxInv, NEW t \in FoxTabs, Close(t) PROVE FoxInv'
<1>1. FoxTypes'
  BY DEF Close, FoxInv, FoxTypes, Closed, Failing, None
<1>2. (session = 0 <=> ready = "none")'
  BY DEF Close, FoxInv, FoxTypes, Closed, Failing, None
<1>3. ASSUME NEW u \in FoxTabs PROVE FoxTabInv(u)'
  BY <1>3 DEF Close, FoxInv, FoxTypes, FoxTabInv, FoxGuardInv, Closed, Failing, None
<1>4. ASSUME NEW g \in guards' PROVE FoxGuardInv(g)'
  BY <1>1, <1>4, GuardRecord DEF Close, FoxInv, FoxTypes, FoxTabInv, FoxGuardInv, Closed, Failing, None
<1> QED BY <1>1, <1>2, <1>3, <1>4 DEF FoxInv

LEMMA CommandFoxInv == ASSUME FoxInv, NEW t \in FoxTabs, Command(t) PROVE FoxInv'
<1>1. FoxTypes'
  BY DEF Command, FoxInv, FoxTypes
<1>2. (session = 0 <=> ready = "none")'
  BY DEF Command, FoxInv, FoxTypes
<1>3. ASSUME NEW u \in FoxTabs PROVE FoxTabInv(u)'
  BY <1>3 DEF Command, FoxInv, FoxTypes, FoxTabInv, FoxGuardInv
<1>4. ASSUME NEW g \in guards' PROVE FoxGuardInv(g)'
  BY <1>1, <1>4, GuardRecord DEF Command, FoxInv, FoxTypes, FoxTabInv, FoxGuardInv
<1> QED BY <1>1, <1>2, <1>3, <1>4 DEF FoxInv

LEMMA TabClosesFoxInv == ASSUME FoxInv, NEW t \in FoxTabs, TabCloses(t) PROVE FoxInv'
<1>1. FoxTypes'
  BY DEF TabCloses, FoxInv, FoxTypes
<1>2. (session = 0 <=> ready = "none")'
  BY DEF TabCloses, FoxInv, FoxTypes
<1>3. ASSUME NEW u \in FoxTabs PROVE FoxTabInv(u)'
  BY <1>3 DEF TabCloses, FoxInv, FoxTypes, FoxTabInv, FoxGuardInv
<1>4. ASSUME NEW g \in guards' PROVE FoxGuardInv(g)'
  BY <1>1, <1>4, GuardRecord DEF TabCloses, FoxInv, FoxTypes, FoxTabInv, FoxGuardInv
<1> QED BY <1>1, <1>2, <1>3, <1>4 DEF FoxInv

LEMMA ConnectedFoxInv == ASSUME FoxInv, Connected PROVE FoxInv'
<1>1. FoxTypes'
  BY DEF Connected, FoxInv, FoxTypes
<1>2. (session = 0 <=> ready = "none")'
  BY DEF Connected, FoxInv, FoxTypes
<1>3. ASSUME NEW u \in FoxTabs PROVE FoxTabInv(u)'
  BY <1>3 DEF Connected, FoxInv, FoxTypes, FoxTabInv, FoxGuardInv
<1>4. ASSUME NEW g \in guards' PROVE FoxGuardInv(g)'
  BY <1>1, <1>4, GuardRecord DEF Connected, FoxInv, FoxTypes, FoxTabInv, FoxGuardInv
<1> QED BY <1>1, <1>2, <1>3, <1>4 DEF FoxInv

LEMMA SocketClosesFoxInv == ASSUME FoxInv, SocketCloses PROVE FoxInv'
<1>1. FoxTypes'
  BY DEF SocketCloses, FoxInv, FoxTypes, Closed, Failing, None
<1>2. (session = 0 <=> ready = "none")'
  BY DEF SocketCloses, FoxInv, FoxTypes, Closed, Failing, None
<1>3. ASSUME NEW u \in FoxTabs PROVE FoxTabInv(u)'
  BY <1>3 DEF SocketCloses, FoxInv, FoxTypes, FoxTabInv, FoxGuardInv, Closed, Failing, None
<1>4. ASSUME NEW g \in guards' PROVE FoxGuardInv(g)'
  BY <1>1, <1>4, GuardRecord DEF SocketCloses, FoxInv, FoxTypes, FoxTabInv, FoxGuardInv, Closed, Failing, None
<1> QED BY <1>1, <1>2, <1>3, <1>4 DEF FoxInv

\* Every step keeps the invariant.
LEMMA FoxStep == FoxInv /\ [FirefoxSessionNext]_firefoxSessionVars => FoxInv'
<1> SUFFICES ASSUME FoxInv, [FirefoxSessionNext]_firefoxSessionVars PROVE FoxInv'
  OBVIOUS
<1>1. CASE UNCHANGED firefoxSessionVars
  BY <1>1 DEF firefoxSessionVars, FoxInv, FoxTypes, FoxTabInv, FoxGuardInv
<1> QED BY <1>1, AttachFoxInv, MatchFoxInv, MatchFailsFoxInv, GuardFoxInv, GuardFailsFoxInv, AttachAnsweredFoxInv, AnswerLateFoxInv, DetachStartFoxInv, DetachNowFoxInv, DetachTimesOutFoxInv, CloseFoxInv, CommandFoxInv, TabClosesFoxInv, ConnectedFoxInv, SocketClosesFoxInv DEF FirefoxSessionNext

\* firefox/backend.ts, firefox-bridge.ts: no command goes to a context of a session
\* that is over, a tab that takes commands has its guard, and a guard is that of a tab
\* attached or at work, unless the detach that was to remove it failed.
THEOREM FirefoxTheorem == FirefoxSessionSpec => []FirefoxSound
<1>1. FirefoxSessionInit => FoxInv
  <2> SUFFICES ASSUME FirefoxSessionInit PROVE FoxInv
    OBVIOUS
  <2>1. FoxTypes
    BY DEF FirefoxSessionInit, None, FoxTypes
  <2>2. session = 0 /\ ready = "none" /\ guards = {} /\ attachedFox = {}
    BY DEF FirefoxSessionInit
  <2>3. \A t \in FoxTabs : contexts[t] = 0 /\ work[t] = "idle"
    BY DEF FirefoxSessionInit, None
  <2> QED BY <2>1, <2>2, <2>3 DEF FoxInv, FoxTabInv
<1>2. FoxInv => FirefoxSound
  BY GuardRecord DEF FirefoxSound, FoxInv, FoxTypes, FoxTabInv, FoxGuardInv
<1> QED BY <1>1, <1>2, FoxStep, PTL DEF FirefoxSessionSpec

-----------------------------------------------------------------------------
(***************************************************************************)
(* A move that has arrived brought the pointer there (CursorMoves)         *)
(***************************************************************************)

States == [move : Everyone, sequence : Nat, shown : BOOLEAN]

CursorTypes ==
  /\ published \in States /\ messages \subseteq States
  /\ counted \in [Gestures -> Nat]
  /\ outcome \in [MouseMoves \cup Gestures -> {"idle", "waits", "arrived", "timedOut"}]
  /\ waiters \in [Numbers -> Everyone]
  /\ script \in [target : Everyone, at : Everyone, pending : Nat, gliding : BOOLEAN, shown : BOOLEAN]
  /\ arrivals \subseteq Nat

\* Of a state that was published: a move waits for no number but its own.
OfItsMove(state) ==
  /\ state.sequence <= published.sequence
  /\ state.sequence \in Numbers /\ waiters[state.sequence] # NoMove =>
       state.shown /\ state.move = waiters[state.sequence]

CountedBefore == \A g \in Gestures : counted[g] <= published.sequence
NobodyAhead == \A n \in Numbers : n > published.sequence => waiters[n] = NoMove
PublishedOnce == \A state \in messages \cup {published} : OfItsMove(state)

\* The page owes the number of the point it glides to.
PageOwes ==
  /\ script.pending <= published.sequence
  /\ script.pending # 0 => script.gliding
  /\ script.pending \in Numbers /\ waiters[script.pending] # NoMove => script.target = waiters[script.pending]

ArrivalsAreThere ==
  \A n \in arrivals : n <= published.sequence /\ (n \in Numbers /\ waiters[n] # NoMove => waiters[n] \in been)

CursorKnown ==
  /\ CursorTypes /\ CountedBefore /\ NobodyAhead /\ PublishedOnce /\ PageOwes /\ ArrivalsAreThere
  /\ ArrivedIsThere

CursorInv == lowered \in BOOLEAN /\ (lowered \/ CursorKnown)

\* What is published is a state.
LEMMA PublishTypes ==
  ASSUME messages \subseteq States, NEW m \in Everyone, NEW n \in Nat, NEW shown \in BOOLEAN, Publish(m, n, shown)
  PROVE  published' \in States /\ messages' \subseteq States
<1>1. [move |-> m, sequence |-> n, shown |-> shown] \in States
  BY DEF States
<1> QED BY <1>1 DEF Publish

\* Until a gesture lowers the number, each action keeps what is known.
LEMMA MoveMouseKnown == ASSUME CursorKnown, ~lowered', NEW m \in MouseMoves, MoveMouse(m) PROVE CursorKnown'
<1> USE CursorAssumption DEF Everyone
<1>1. CursorTypes'
  <2>1. m \in Everyone /\ published.sequence + 1 \in Nat /\ CursorTypes
    BY DEF MoveMouse, CursorKnown, CursorTypes, States
  <2>4. Publish(m, published.sequence + 1, TRUE)
    BY DEF MoveMouse
  <2>2. published' \in States /\ messages' \subseteq States
    BY <2>1, <2>4, PublishTypes DEF CursorTypes, Everyone
  <2>3. waiters' = [waiters EXCEPT ![published.sequence + 1] = m] /\ outcome' = [outcome EXCEPT ![m] = "waits"]
        /\ UNCHANGED <<counted, script, arrivals>>
    BY DEF MoveMouse
  <2> QED BY <2>1, <2>2, <2>3 DEF CursorTypes
<1>2. CountedBefore'
  BY <1>1 DEF MoveMouse, CursorKnown, CursorTypes, States, CountedBefore, NobodyAhead, Numbers, Publish
<1>3. NobodyAhead'
  BY <1>1 DEF MoveMouse, CursorKnown, CursorTypes, States, NobodyAhead, CountedBefore, Numbers, Publish
<1>4. PublishedOnce'
  BY <1>1 DEF MoveMouse, CursorKnown, CursorTypes, States, PublishedOnce, OfItsMove, CountedBefore, NobodyAhead, Numbers, Publish
<1>5. PageOwes'
  BY <1>1 DEF MoveMouse, CursorKnown, CursorTypes, States, PageOwes, CountedBefore, NobodyAhead, Numbers, Publish
<1>6. ArrivalsAreThere'
  BY <1>1 DEF MoveMouse, CursorKnown, CursorTypes, States, ArrivalsAreThere, CountedBefore, NobodyAhead, Numbers, Publish
<1>7. ArrivedIsThere'
  BY <1>1 DEF MoveMouse, CursorKnown, CursorTypes, States, ArrivedIsThere, CountedBefore, NobodyAhead, Numbers, Publish
<1> QED BY <1>1, <1>2, <1>3, <1>4, <1>5, <1>6, <1>7 DEF CursorKnown

LEMMA TimesOutKnown == ASSUME CursorKnown, ~lowered', NEW m \in MouseMoves, TimesOut(m) PROVE CursorKnown'
<1> USE CursorAssumption DEF Everyone
<1>1. CursorTypes'
  BY DEF TimesOut, CursorKnown, CursorTypes, States, CountedBefore, Numbers
<1>2. CountedBefore'
  BY <1>1 DEF TimesOut, CursorKnown, CursorTypes, States, CountedBefore, Numbers
<1>3. NobodyAhead'
  BY <1>1 DEF TimesOut, CursorKnown, CursorTypes, States, NobodyAhead, Numbers
<1>4. PublishedOnce'
  BY <1>1 DEF TimesOut, CursorKnown, CursorTypes, States, PublishedOnce, OfItsMove, Numbers
<1>5. PageOwes'
  BY <1>1 DEF TimesOut, CursorKnown, CursorTypes, States, PageOwes, Numbers
<1>6. ArrivalsAreThere'
  BY <1>1 DEF TimesOut, CursorKnown, CursorTypes, States, ArrivalsAreThere, Numbers
<1>7. ArrivedIsThere'
  BY <1>1 DEF TimesOut, CursorKnown, CursorTypes, States, ArrivedIsThere, Numbers
<1> QED BY <1>1, <1>2, <1>3, <1>4, <1>5, <1>6, <1>7 DEF CursorKnown

LEMMA GestureReadsKnown == ASSUME CursorKnown, ~lowered', NEW g \in Gestures, GestureReads(g) PROVE CursorKnown'
<1> USE CursorAssumption DEF Everyone
<1>1. CursorTypes'
  BY DEF GestureReads, CursorKnown, CursorTypes, States, CountedBefore, Numbers
<1>2. CountedBefore'
  BY <1>1 DEF GestureReads, CursorKnown, CursorTypes, States, CountedBefore, Numbers
<1>3. NobodyAhead'
  BY <1>1 DEF GestureReads, CursorKnown, CursorTypes, States, NobodyAhead, Numbers
<1>4. PublishedOnce'
  BY <1>1 DEF GestureReads, CursorKnown, CursorTypes, States, PublishedOnce, OfItsMove, Numbers
<1>5. PageOwes'
  BY <1>1 DEF GestureReads, CursorKnown, CursorTypes, States, PageOwes, Numbers
<1>6. ArrivalsAreThere'
  BY <1>1 DEF GestureReads, CursorKnown, CursorTypes, States, ArrivalsAreThere, Numbers
<1>7. ArrivedIsThere'
  BY <1>1 DEF GestureReads, CursorKnown, CursorTypes, States, ArrivedIsThere, Numbers
<1> QED BY <1>1, <1>2, <1>3, <1>4, <1>5, <1>6, <1>7 DEF CursorKnown

LEMMA GestureMovesKnown == ASSUME CursorKnown, ~lowered', NEW g \in Gestures, GestureMoves(g) PROVE CursorKnown'
<1> USE CursorAssumption DEF Everyone
<1>1. CursorTypes'
  <2>1. g \in Everyone /\ counted[g] + 1 \in Nat /\ CursorTypes
    BY DEF GestureMoves, CursorKnown, CursorTypes, States
  <2>4. Publish(g, counted[g] + 1, TRUE)
    BY DEF GestureMoves
  <2>2. published' \in States /\ messages' \subseteq States
    BY <2>1, <2>4, PublishTypes DEF CursorTypes, Everyone
  <2>3. outcome' = [outcome EXCEPT ![g] = "arrived"] /\ UNCHANGED <<counted, waiters, script, arrivals>>
    BY DEF GestureMoves
  <2> QED BY <2>1, <2>2, <2>3 DEF CursorTypes
<1>2. CountedBefore'
  BY <1>1 DEF GestureMoves, CursorKnown, CursorTypes, States, CountedBefore, NobodyAhead, Numbers, Publish
<1>3. NobodyAhead'
  BY <1>1 DEF GestureMoves, CursorKnown, CursorTypes, States, NobodyAhead, CountedBefore, Numbers, Publish
<1>4. PublishedOnce'
  BY <1>1 DEF GestureMoves, CursorKnown, CursorTypes, States, PublishedOnce, OfItsMove, CountedBefore, NobodyAhead, Numbers, Publish
<1>5. PageOwes'
  BY <1>1 DEF GestureMoves, CursorKnown, CursorTypes, States, PageOwes, CountedBefore, NobodyAhead, Numbers, Publish
<1>6. ArrivalsAreThere'
  BY <1>1 DEF GestureMoves, CursorKnown, CursorTypes, States, ArrivalsAreThere, CountedBefore, NobodyAhead, Numbers, Publish
<1>7. ArrivedIsThere'
  BY <1>1 DEF GestureMoves, CursorKnown, CursorTypes, States, ArrivedIsThere, CountedBefore, NobodyAhead, Numbers, Publish
<1> QED BY <1>1, <1>2, <1>3, <1>4, <1>5, <1>6, <1>7 DEF CursorKnown

LEMMA ArriveKnown == ASSUME CursorKnown, ~lowered', NEW n \in Numbers, Arrive(n) PROVE CursorKnown'
<1> USE CursorAssumption DEF Everyone
<1>1. CursorTypes'
  BY DEF Arrive, CursorKnown, CursorTypes, States, CountedBefore, Numbers, Resolves
<1>2. CountedBefore'
  BY <1>1 DEF Arrive, CursorKnown, CursorTypes, States, CountedBefore, ArrivalsAreThere, Numbers, Resolves
<1>3. NobodyAhead'
  BY <1>1 DEF Arrive, CursorKnown, CursorTypes, States, NobodyAhead, ArrivalsAreThere, Numbers, Resolves
<1>4. PublishedOnce'
  BY <1>1 DEF Arrive, CursorKnown, CursorTypes, States, PublishedOnce, OfItsMove, ArrivalsAreThere, Numbers, Resolves
<1>5. PageOwes'
  BY <1>1 DEF Arrive, CursorKnown, CursorTypes, States, PageOwes, ArrivalsAreThere, Numbers, Resolves
<1>6. ArrivalsAreThere'
  BY <1>1 DEF Arrive, CursorKnown, CursorTypes, States, ArrivalsAreThere, Numbers, Resolves
<1>7. ArrivedIsThere'
  BY <1>1 DEF Arrive, CursorKnown, CursorTypes, States, ArrivedIsThere, ArrivalsAreThere, Numbers, Resolves
<1> QED BY <1>1, <1>2, <1>3, <1>4, <1>5, <1>6, <1>7 DEF CursorKnown

LEMMA HideKnown == ASSUME CursorKnown, ~lowered', Hide PROVE CursorKnown'
<1> USE CursorAssumption DEF Everyone
<1>1. CursorTypes'
  <2>1. published.move \in Everyone /\ published.sequence + 1 \in Nat /\ CursorTypes
    BY DEF Hide, CursorKnown, CursorTypes, States
  <2>4. Publish(published.move, published.sequence + 1, FALSE)
    BY DEF Hide
  <2>2. published' \in States /\ messages' \subseteq States
    BY <2>1, <2>4, PublishTypes DEF CursorTypes, Everyone
  <2>3. UNCHANGED <<counted, outcome, waiters, script, arrivals>>
    BY DEF Hide
  <2> QED BY <2>1, <2>2, <2>3 DEF CursorTypes
<1>2. CountedBefore'
  BY <1>1 DEF Hide, CursorKnown, CursorTypes, States, CountedBefore, NobodyAhead, Numbers, Publish
<1>3. NobodyAhead'
  BY <1>1 DEF Hide, CursorKnown, CursorTypes, States, NobodyAhead, CountedBefore, Numbers, Publish
<1>4. PublishedOnce'
  BY <1>1 DEF Hide, CursorKnown, CursorTypes, States, PublishedOnce, OfItsMove, CountedBefore, NobodyAhead, Numbers, Publish
<1>5. PageOwes'
  BY <1>1 DEF Hide, CursorKnown, CursorTypes, States, PageOwes, CountedBefore, NobodyAhead, Numbers, Publish
<1>6. ArrivalsAreThere'
  BY <1>1 DEF Hide, CursorKnown, CursorTypes, States, ArrivalsAreThere, CountedBefore, NobodyAhead, Numbers, Publish
<1>7. ArrivedIsThere'
  BY <1>1 DEF Hide, CursorKnown, CursorTypes, States, ArrivedIsThere, CountedBefore, NobodyAhead, Numbers, Publish
<1> QED BY <1>1, <1>2, <1>3, <1>4, <1>5, <1>6, <1>7 DEF CursorKnown

\* The page takes a state: it is there at once, glides to it, or is hidden.
LEMMA DeliverKnown == ASSUME CursorKnown, ~lowered', Deliver PROVE CursorKnown'
<1> USE CursorAssumption DEF Everyone
<1>1. PICK state \in messages : Apply(state) /\ messages' = messages \ {state}
  BY DEF Deliver
<1>2. /\ UNCHANGED <<published, counted, outcome, waiters>>
      /\ state \in States /\ OfItsMove(state) /\ CursorTypes
  BY <1>1 DEF Deliver, CursorKnown, CursorTypes, PublishedOnce
<1> DEFINE page == [script EXCEPT !.target = state.move, !.pending = state.sequence, !.shown = state.shown,
                               !.at = IF state.shown /\ ~script.shown THEN NoMove ELSE @, !.gliding = FALSE]
<1>3. /\ page \in [target : Everyone, at : Everyone, pending : Nat, gliding : BOOLEAN, shown : BOOLEAN]
      /\ page.target = state.move /\ page.pending = state.sequence /\ page.gliding = FALSE
  BY <1>2 DEF CursorTypes, States
<1>4. \/ /\ ~state.shown \/ state.move \in been'
         /\ arrivals' = arrivals \cup ({state.sequence} \ {0}) /\ been \subseteq been'
         /\ script'.pending = 0 /\ script'.gliding = FALSE /\ script'.target = state.move
      \/ /\ UNCHANGED <<arrivals, been>>
         /\ script'.gliding = TRUE /\ script'.pending = state.sequence /\ script'.target = state.move /\ state.shown
  <2>1. CASE ~state.shown
    BY <1>1, <1>3, <2>1 DEF Apply, Report
  <2>2. CASE state.shown /\ (~watched \/ page.at = state.move)
    BY <1>1, <1>3, <2>2 DEF Apply, Report
  <2>3. CASE state.shown /\ watched /\ page.at # state.move
    BY <1>1, <1>3, <2>3 DEF Apply
  <2> QED BY <2>1, <2>2, <2>3
<1>5. script' \in [target : Everyone, at : Everyone, pending : Nat, gliding : BOOLEAN, shown : BOOLEAN]
  <2> HIDE DEF page
  <2>1. CASE ~state.shown
    <3>1. script' = [page EXCEPT !.pending = 0]
      BY <1>1, <1>2, <2>1 DEF Apply, Report, States, page
    <3> QED BY <1>3, <3>1
  <2>2. CASE state.shown /\ (~watched \/ page.at = state.move)
    <3>1. script' = [[page EXCEPT !.at = state.move] EXCEPT !.pending = 0] /\ state.move \in Everyone
      BY <1>1, <1>2, <2>2 DEF Apply, Report, States, page
    <3> QED BY <1>3, <3>1
  <2>3. CASE state.shown /\ watched /\ page.at # state.move
    <3>1. script' = [page EXCEPT !.gliding = TRUE]
      BY <1>1, <1>2, <2>3 DEF Apply, Report, States, page
    <3> QED BY <1>3, <3>1
  <2> QED BY <2>1, <2>2, <2>3
<1> HIDE DEF page
<1>6. CursorTypes'
  BY <1>1, <1>2, <1>4, <1>5 DEF CursorTypes, States
<1>7. CountedBefore' /\ NobodyAhead' /\ PublishedOnce'
  BY <1>1, <1>2 DEF CursorKnown, CountedBefore, NobodyAhead, PublishedOnce, OfItsMove
<1>8. PageOwes'
  BY <1>2, <1>4 DEF PageOwes, OfItsMove, CursorTypes, States, Numbers
<1>9. ArrivalsAreThere'
  BY <1>2, <1>4 DEF CursorKnown, ArrivalsAreThere, OfItsMove, States
<1>10. ArrivedIsThere'
  BY <1>2, <1>4 DEF CursorKnown, ArrivedIsThere, Deliver
<1> QED BY <1>6, <1>7, <1>8, <1>9, <1>10 DEF CursorKnown

LEMMA GlideEndsKnown == ASSUME CursorKnown, ~lowered', GlideEnds PROVE CursorKnown'
<1> USE CursorAssumption DEF Everyone
<1>1. CursorTypes'
  BY DEF GlideEnds, CursorKnown, CursorTypes, States, CountedBefore, Numbers, Report
<1>2. CountedBefore'
  BY <1>1 DEF GlideEnds, CursorKnown, CursorTypes, States, CountedBefore, PageOwes, Numbers, Report
<1>3. NobodyAhead'
  BY <1>1 DEF GlideEnds, CursorKnown, CursorTypes, States, NobodyAhead, PageOwes, Numbers, Report
<1>4. PublishedOnce'
  BY <1>1 DEF GlideEnds, CursorKnown, CursorTypes, States, PublishedOnce, OfItsMove, PageOwes, Numbers, Report
<1>5. PageOwes'
  BY <1>1 DEF GlideEnds, CursorKnown, CursorTypes, States, PageOwes, Numbers, Report
<1>6. ArrivalsAreThere'
  BY <1>1 DEF GlideEnds, CursorKnown, CursorTypes, States, ArrivalsAreThere, PageOwes, Numbers, Report
<1>7. ArrivedIsThere'
  BY <1>1 DEF GlideEnds, CursorKnown, CursorTypes, States, ArrivedIsThere, PageOwes, Numbers, Report
<1> QED BY <1>1, <1>2, <1>3, <1>4, <1>5, <1>6, <1>7 DEF CursorKnown

LEMMA RefreshKnown == ASSUME CursorKnown, ~lowered', Refresh PROVE CursorKnown'
<1> USE CursorAssumption DEF Everyone
<1>1. CursorTypes'
  BY DEF Refresh, CursorKnown, CursorTypes, States, CountedBefore, Numbers
<1>2. CountedBefore'
  BY <1>1 DEF Refresh, CursorKnown, CursorTypes, States, CountedBefore, PublishedOnce, OfItsMove, Numbers
<1>3. NobodyAhead'
  BY <1>1 DEF Refresh, CursorKnown, CursorTypes, States, NobodyAhead, PublishedOnce, OfItsMove, Numbers
<1>4. PublishedOnce'
  BY <1>1 DEF Refresh, CursorKnown, CursorTypes, States, PublishedOnce, OfItsMove, Numbers
<1>5. PageOwes'
  BY <1>1 DEF Refresh, CursorKnown, CursorTypes, States, PageOwes, PublishedOnce, OfItsMove, Numbers
<1>6. ArrivalsAreThere'
  BY <1>1 DEF Refresh, CursorKnown, CursorTypes, States, ArrivalsAreThere, PublishedOnce, OfItsMove, Numbers
<1>7. ArrivedIsThere'
  BY <1>1 DEF Refresh, CursorKnown, CursorTypes, States, ArrivedIsThere, PublishedOnce, OfItsMove, Numbers
<1> QED BY <1>1, <1>2, <1>3, <1>4, <1>5, <1>6, <1>7 DEF CursorKnown

LEMMA NavigateKnown == ASSUME CursorKnown, ~lowered', Navigate PROVE CursorKnown'
<1> USE CursorAssumption DEF Everyone
<1>1. CursorTypes'
  BY DEF Navigate, CursorKnown, CursorTypes, States, CountedBefore, Numbers, Blank
<1>2. CountedBefore'
  BY <1>1 DEF Navigate, CursorKnown, CursorTypes, States, CountedBefore, Numbers, Blank
<1>3. NobodyAhead'
  BY <1>1 DEF Navigate, CursorKnown, CursorTypes, States, NobodyAhead, Numbers, Blank
<1>4. PublishedOnce'
  BY <1>1 DEF Navigate, CursorKnown, CursorTypes, States, PublishedOnce, OfItsMove, Numbers, Blank
<1>5. PageOwes'
  BY <1>1 DEF Navigate, CursorKnown, CursorTypes, States, PageOwes, Numbers, Blank
<1>6. ArrivalsAreThere'
  BY <1>1 DEF Navigate, CursorKnown, CursorTypes, States, ArrivalsAreThere, Numbers, Blank
<1>7. ArrivedIsThere'
  BY <1>1 DEF Navigate, CursorKnown, CursorTypes, States, ArrivedIsThere, Numbers, Blank
<1> QED BY <1>1, <1>2, <1>3, <1>4, <1>5, <1>6, <1>7 DEF CursorKnown

LEMMA LookAwayKnown == ASSUME CursorKnown, ~lowered', LookAway PROVE CursorKnown'
<1> USE CursorAssumption DEF Everyone
<1>1. CursorTypes'
  BY DEF LookAway, CursorKnown, CursorTypes, States, CountedBefore, Numbers
<1>2. CountedBefore'
  BY <1>1 DEF LookAway, CursorKnown, CursorTypes, States, CountedBefore, Numbers
<1>3. NobodyAhead'
  BY <1>1 DEF LookAway, CursorKnown, CursorTypes, States, NobodyAhead, Numbers
<1>4. PublishedOnce'
  BY <1>1 DEF LookAway, CursorKnown, CursorTypes, States, PublishedOnce, OfItsMove, Numbers
<1>5. PageOwes'
  BY <1>1 DEF LookAway, CursorKnown, CursorTypes, States, PageOwes, Numbers
<1>6. ArrivalsAreThere'
  BY <1>1 DEF LookAway, CursorKnown, CursorTypes, States, ArrivalsAreThere, Numbers
<1>7. ArrivedIsThere'
  BY <1>1 DEF LookAway, CursorKnown, CursorTypes, States, ArrivedIsThere, Numbers
<1> QED BY <1>1, <1>2, <1>3, <1>4, <1>5, <1>6, <1>7 DEF CursorKnown

\* Every step keeps the invariant.
LEMMA CursorStep == CursorInv /\ [CursorMovesNext]_cursorMovesVars => CursorInv'
<1> SUFFICES ASSUME CursorInv, [CursorMovesNext]_cursorMovesVars PROVE CursorInv'
  OBVIOUS
<1>1. lowered' \in BOOLEAN /\ (lowered => lowered')
  BY DEF CursorInv, CursorMovesNext, cursorMovesVars, MoveMouse, TimesOut, GestureReads, GestureMoves,
     Arrive, Hide, Deliver, GlideEnds, Refresh, Navigate, LookAway
<1>2. ASSUME ~lowered' PROVE CursorKnown'
  <2>1. CursorKnown
    BY <1>1, <1>2 DEF CursorInv
  <2>2. CASE UNCHANGED cursorMovesVars
    BY <2>1, <2>2 DEF cursorMovesVars, CursorKnown, CursorTypes, CountedBefore, NobodyAhead, PublishedOnce, PageOwes, ArrivalsAreThere, ArrivedIsThere, OfItsMove
  <2> QED BY <1>2, <2>1, <2>2, MoveMouseKnown, TimesOutKnown, GestureReadsKnown, GestureMovesKnown, ArriveKnown, HideKnown, DeliverKnown, GlideEndsKnown, RefreshKnown, NavigateKnown, LookAwayKnown DEF CursorMovesNext
<1> QED BY <1>1, <1>2 DEF CursorInv

\* runtime-cursor.ts, cursor.ts: a move that is said to have arrived brought the pointer
\* to its point, however states, frames and pages come and go, until a gesture
\* publishes under a number that is behind the last one.
THEOREM CursorTheorem == CursorMovesSpec => []ArrivedIsThere
<1>1. CursorMovesInit => CursorInv
  <2> SUFFICES ASSUME CursorMovesInit PROVE CursorInv
    OBVIOUS
  <2>1. CursorTypes
    BY DEF CursorMovesInit, CursorTypes, States, Blank, Everyone
  <2>2. CountedBefore /\ NobodyAhead /\ PublishedOnce /\ PageOwes /\ ArrivalsAreThere /\ ArrivedIsThere
    BY DEF CursorMovesInit, Blank, Numbers, OfItsMove, CountedBefore, NobodyAhead, PublishedOnce, PageOwes, ArrivalsAreThere, ArrivedIsThere
  <2> QED BY <2>1, <2>2 DEF CursorMovesInit, CursorInv, CursorKnown
<1>2. CursorInv => ArrivedIsThere
  BY DEF CursorInv, CursorKnown, ArrivedIsThere
<1> QED BY <1>1, <1>2, CursorStep, PTL DEF CursorMovesSpec

-----------------------------------------------------------------------------
\* session-runtime.ts, environment.ts: a command is performed once however the
\* debugger comes and goes, and an override of a tab is not lost track of.
\* client.ts, session-runtime.ts: a call is answered with a tab of its own, and
\* the profiles in use cover the session's tabs.  firefox/backend.ts: guards and
\* contexts are those of the open session.  cursor.ts: a move that has arrived
\* brought the pointer to its point.
TabStateTracked ==
  /\ PerformedOnce /\ OverridesTracked
  /\ AnswerIsOwn /\ UsedCoversTabs
  /\ FirefoxSound /\ ArrivedIsThere

\* What the five components keep of the tabs, each by itself, they keep together.
THEOREM TabStateTheorem ==
  DomainSpec /\ EnvSpec /\ TabCreationSpec /\ FirefoxSessionSpec /\ CursorMovesSpec => []TabStateTracked
<1>1. PerformedOnce /\ OverridesTracked /\ (AnswerIsOwn /\ UsedCoversTabs) /\ FirefoxSound /\ ArrivedIsThere => TabStateTracked
  BY DEF TabStateTracked
<1> QED BY <1>1, PerformedOnceTheorem, OverridesTheorem, CreationTheorem, FirefoxTheorem, CursorTheorem, PTL

-----------------------------------------------------------------------------
(***************************************************************************)
(* Input.  A fill that is past its first command is where the focus is, or *)
(* has been moved; a key or a button that is down is that of a gesture     *)
(* past its first command, or of one that is called unknown.               *)
(***************************************************************************)
InputTexts == Seq(InputCalls \cup {"page"})
InputForm == [focus : Editables \cup {NoEditable}, text : [Editables -> InputTexts],
              all : [Editables -> BOOLEAN], held : SUBSET {"key", "modifier", "button"}]
InputRecord == [status : {"idle", "runs", "done", "failed"}, step : Nat \ {0},
                before : [text : InputTexts, all : BOOLEAN],
                verdict : {"none", "completed", "not_started", "unknown"},
                touched : BOOLEAN, moved : BOOLEAN, left : InputTexts]

InputTypes == form \in InputForm /\ input \in [InputCalls -> InputRecord] /\ busy \in InputCalls \cup {NoInput}

\* A call is at one of its commands, if it runs or its last command is under way.
AtItsStep(c) ==
    /\ input[c].status \in {"idle", "runs"} => input[c].verdict = "none"
    /\ input[c].status = "idle" => input[c].step = 1
    /\ input[c].status = "runs" \/ busy = c => input[c].step <= Len(CommandsOf(c))
    /\ busy = c => \/ Gesture(c) /\ input[c].status = "runs"
                   \/ input[c].status = "failed" /\ input[c].verdict = "unknown"

MidWay(c) == input[c].status = "runs" /\ input[c].step > 1
Presses(c, k) == KindOf[c] = (IF k = "button" THEN "drag" ELSE "chord")
AccountsFor(c, k) ==
    /\ Presses(c, k)
    /\ input[c].verdict = "unknown" \/ (busy = c /\ MidWay(c))
HeldByCalls == \A k \in {"modifier", "button"} \cap form.held : \E c \in InputCalls : AccountsFor(c, k)

FillAtFocus(c) == Replaces(c) /\ MidWay(c) /\ ~input[c].moved => form.focus = TargetOf[c]
FillExact(c) == Replaces(c) /\ input[c].status = "done" /\ ~input[c].moved => input[c].left = Wanted(c)

InputInv ==
    /\ InputTypes /\ HeldByCalls
    /\ \A c \in InputCalls : AtItsStep(c) /\ FillAtFocus(c) /\ FillExact(c)

LEMMA PressKeyIs == PressKey = <<"focus", "modifierDown", "selectAll", "keyUp", "modifierUp">>
<1> DEFINE press == <<"focus", "modifierDown", "selectAll", "keyUp", "modifierUp">>
           names == {"focus", "modifierDown", "selectAll", "keyUp", "modifierUp"}
<1>1. <<"focus">> \in Seq(names) /\ Chord \in Seq(names) /\ press \in Seq(names)
  BY DEF Chord
<1>2. PressKey \in Seq(names) /\ Len(PressKey) = Len(press)
  BY <1>1, ConcatProperties DEF PressKey, Chord
<1>3. \A i \in 1..Len(PressKey) : PressKey[i] = press[i]
  BY <1>1, ConcatProperties DEF PressKey, Chord
<1> QED BY <1>1, <1>2, <1>3, SeqEqual

\* Where each command stands among those of its operation.
LEMMA CommandTable ==
  ASSUME InputTypes, NEW c \in InputCalls, input[c].step <= Len(CommandsOf(c))
  PROVE  /\ CommandAt(c) \in {"modifierDown", "modifierUp"} => KindOf[c] = "chord"
         /\ CommandAt(c) \in {"buttonDown", "buttonUp"} => KindOf[c] = "drag"
         /\ CommandAt(c) \in {"modifierDown", "buttonDown"} => input[c].step > 1
         /\ AtLast(c) => /\ KindOf[c] = "chord" => CommandAt(c) = "modifierUp"
                         /\ KindOf[c] = "drag" => CommandAt(c) = "buttonUp"
                         /\ ~Gesture(c) => CommandAt(c) = "verify"
         /\ CommandAt(c) \in {"select", "toEnd", "look"} => input[c].step = 1 /\ ~AtLast(c) /\ ~Gesture(c)
         /\ CommandAt(c) = "verify" => ~Gesture(c)
         /\ Replaces(c) => (CommandAt(c) = "select" <=> input[c].step = 1) /\ CommandAt(c) \notin {"toEnd", "focus"}
<1> USE InputAssumption
<1>1. PressKey = <<"focus", "modifierDown", "selectAll", "keyUp", "modifierUp">>
  BY PressKeyIs
<1>2. input[c].step \in Nat \ {0}
  BY DEF InputTypes, InputRecord
<1>3. CASE KindOf[c] = "fill"
  <2>1. CommandsOf(c) = <<"select", "insert", "verify">>
    BY <1>3 DEF CommandsOf, Fill
  <2>2. input[c].step \in 1..3
    BY <1>2, <2>1
  <2> QED BY <1>3, <2>1, <2>2 DEF CommandAt, AtLast, Gesture, Replaces
<1>4. CASE KindOf[c] = "clear"
  <2>1. CommandsOf(c) = <<"select", "verify">> \/ CommandsOf(c) = <<"select", "deleteDown", "deleteUp", "verify">>
    BY <1>4 DEF CommandsOf, Clear
  <2>2. CASE CommandsOf(c) = <<"select", "verify">>
    <3>1. input[c].step \in 1..2
      BY <1>2, <2>2
    <3> QED BY <1>4, <2>2, <3>1 DEF CommandAt, AtLast, Gesture, Replaces
  <2>3. CASE CommandsOf(c) = <<"select", "deleteDown", "deleteUp", "verify">>
    <3>1. input[c].step \in 1..4
      BY <1>2, <2>3
    <3> QED BY <1>4, <2>3, <3>1 DEF CommandAt, AtLast, Gesture, Replaces
  <2> QED BY <2>1, <2>2, <2>3
<1>5. CASE KindOf[c] = "append"
  <2>1. CommandsOf(c) = <<"toEnd", "insert", "verify">>
    BY <1>5 DEF CommandsOf, AppendText
  <2>2. input[c].step \in 1..3
    BY <1>2, <2>1
  <2> QED BY <1>5, <2>1, <2>2 DEF CommandAt, AtLast, Gesture, Replaces
<1>6. CASE KindOf[c] = "type"
  <2>1. CommandsOf(c) = <<"look", "insert", "verify">>
    BY <1>6 DEF CommandsOf, TypeText
  <2>2. input[c].step \in 1..3
    BY <1>2, <2>1
  <2> QED BY <1>6, <2>1, <2>2 DEF CommandAt, AtLast, Gesture, Replaces
<1>7. CASE KindOf[c] = "chord"
  <2>1. CommandsOf(c) = <<"focus", "modifierDown", "selectAll", "keyUp", "modifierUp">>
    BY <1>1, <1>7 DEF CommandsOf
  <2>2. input[c].step \in 1..5
    BY <1>2, <2>1
  <2> QED BY <1>7, <2>1, <2>2 DEF CommandAt, AtLast, Gesture, Replaces
<1>8. CASE KindOf[c] = "drag"
  <2>1. CommandsOf(c) = <<"move", "buttonDown", "drag", "buttonUp">>
    BY <1>8 DEF CommandsOf, Drag
  <2>2. input[c].step \in 1..4
    BY <1>2, <2>1
  <2> QED BY <1>8, <2>1, <2>2 DEF CommandAt, AtLast, Gesture, Replaces
<1> QED BY <1>3, <1>4, <1>5, <1>6, <1>7, <1>8

\* What a command makes of the page.
LEMMA EffectOfCommand ==
  ASSUME InputTypes, NEW c \in InputCalls
  PROVE  /\ Effect(c) \in InputForm
         /\ Effect(c).focus = IF CommandAt(c) \in {"select", "toEnd", "focus"} THEN TargetOf[c] ELSE form.focus
         /\ "modifier" \in Effect(c).held =>
                CommandAt(c) = "modifierDown" \/ ("modifier" \in form.held /\ CommandAt(c) # "modifierUp")
         /\ "button" \in Effect(c).held =>
                CommandAt(c) = "buttonDown" \/ ("button" \in form.held /\ CommandAt(c) # "buttonUp")
<1> USE InputAssumption
<1>1. form \in InputForm /\ TargetOf[c] \in Editables
  BY DEF InputTypes
<1>2. ASSUME NEW all \in BOOLEAN
      PROVE  Focus(c, all) \in InputForm /\ Focus(c, all).focus = TargetOf[c] /\ Focus(c, all).held = form.held
  BY <1>1, Zenon DEF Focus, InputForm
<1>3. form.all[TargetOf[c]] \in BOOLEAN
  BY <1>1 DEF InputForm
<1>4. ASSUME Focused, NEW text \in InputTexts, NEW all \in BOOLEAN
      PROVE  /\ Has(form.focus, text, all) \in InputForm
             /\ Has(form.focus, text, all).focus = form.focus /\ Has(form.focus, text, all).held = form.held
  BY <1>1, <1>4 DEF Has, InputForm, Focused
<1>5. Focused => Looked.text \in InputTexts /\ Looked.all \in BOOLEAN
  BY <1>1 DEF Focused, Looked, InputForm
<1>6. <<c>> \in InputTexts /\ <<>> \in InputTexts
  BY DEF InputTexts
<1>7. ASSUME NEW t \in InputTexts PROVE Append(t, c) \in InputTexts /\ (t # <<>> => Front(t) \in InputTexts)
  <2>1. Append(t, c) \in InputTexts
    BY DEF InputTexts
  <2>2. t # <<>> => Len(t) \in Nat \ {0}
    BY DEF InputTexts
  <2>3. t # <<>> => SubSeq(t, 1, Len(t) - 1) \in InputTexts
    BY <2>2 DEF InputTexts
  <2> QED BY <2>1, <2>3 DEF Front
<1>8. CASE CommandAt(c) \in {"select", "toEnd", "focus"}
  BY <1>2, <1>3, <1>8 DEF Effect
<1>9. CASE CommandAt(c) = "insert" /\ Focused
  <2> DEFINE text == IF Looked.all THEN <<c>> ELSE Append(Looked.text, c)
  <2>1. text \in InputTexts /\ Effect(c) = Has(form.focus, text, FALSE)
    BY <1>5, <1>6, <1>7, <1>9 DEF Effect
  <2> HIDE DEF text
  <2> QED BY <1>4, <1>9, <2>1
<1>10. CASE CommandAt(c) = "deleteDown" /\ Focused
  <2> DEFINE text == IF Looked.all \/ Looked.text = <<>> THEN <<>> ELSE Front(Looked.text)
             typed == Has(form.focus, text, FALSE)
  <2>1. text \in InputTexts /\ Effect(c) = [typed EXCEPT !.held = @ \cup {"key"}]
    BY <1>5, <1>6, <1>7, <1>10 DEF Effect
  <2>2. typed \in InputForm /\ typed.focus = form.focus /\ typed.held = form.held
    BY <1>4, <1>10, <2>1
  <2> HIDE DEF typed
  <2> QED BY <1>10, <2>1, <2>2 DEF InputForm
<1>11. CASE CommandAt(c) = "selectAll" /\ Focused
  BY <1>4, <1>5, <1>11 DEF Effect
<1>12. CASE CommandAt(c) = "modifierDown"
  BY <1>1, <1>12 DEF Effect, InputForm
<1>13. CASE CommandAt(c) = "modifierUp"
  BY <1>1, <1>13 DEF Effect, InputForm
<1>14. CASE CommandAt(c) = "buttonDown"
  BY <1>1, <1>14 DEF Effect, InputForm
<1>15. CASE CommandAt(c) = "buttonUp"
  BY <1>1, <1>15 DEF Effect, InputForm
<1>16. CASE CommandAt(c) = "deleteUp"
  BY <1>1, <1>16 DEF Effect, InputForm
<1>17. CASE /\ CommandAt(c) \notin {"select", "toEnd", "focus", "modifierDown", "modifierUp", "buttonDown", "buttonUp", "deleteUp"}
            /\ CommandAt(c) \in {"insert", "deleteDown", "selectAll"} => ~Focused
  <2>1. Effect(c) = form
    BY <1>17 DEF Effect
  <2> QED BY <1>1, <1>17, <2>1
<1> QED BY <1>8, <1>9, <1>10, <1>11, <1>12, <1>13, <1>14, <1>15, <1>16, <1>17

\* A call that a step is not of: the focus may leave its field.
GoesOn(d) ==
    /\ input'[d].status = input[d].status /\ input'[d].step = input[d].step /\ input'[d].before = input[d].before
    /\ input'[d].verdict = input[d].verdict /\ input'[d].left = input[d].left
    /\ input[d].moved => input'[d].moved
    /\ ~input'[d].moved /\ MidWay(d) => form'.focus = form.focus

\* A step of a call, or of the page, keeps the invariant, if it does for that call.
LEMMA InputStepOf ==
  ASSUME InputInv, NEW c, InputTypes', \A d \in InputCalls \ {c} : GoesOn(d),
         busy' = busy \/ (busy \in {c, NoInput} /\ busy' \in {c, NoInput}),
         c \in InputCalls => (AtItsStep(c) /\ FillAtFocus(c) /\ FillExact(c))',
         \A k \in {"modifier", "button"} \cap form'.held :
            \/ c \in InputCalls /\ AccountsFor(c, k)'
            \/ k \in form.held /\ (c \in InputCalls => ~AccountsFor(c, k))
  PROVE  InputInv'
<1> USE InputAssumption
<1>1. ASSUME NEW d \in InputCalls \ {c} PROVE (AtItsStep(d) /\ FillAtFocus(d) /\ FillExact(d))'
  <2>1. AtItsStep(d) /\ FillAtFocus(d) /\ FillExact(d) /\ GoesOn(d)
    BY DEF InputInv
  <2>2. CommandsOf(d)' = CommandsOf(d)
    BY <2>1 DEF CommandsOf, GoesOn
  <2>3. busy' = d => busy = d
    OBVIOUS
  <2>4. AtItsStep(d)'
    BY <2>1, <2>2, <2>3 DEF AtItsStep, GoesOn, Gesture
  <2>5. FillAtFocus(d)'
    BY <2>1 DEF FillAtFocus, GoesOn, MidWay, Replaces
  <2>6. FillExact(d)'
    BY <2>1 DEF FillExact, GoesOn, Replaces, Wanted
  <2> QED BY <2>4, <2>5, <2>6
<1>2. HeldByCalls'
  <2> SUFFICES ASSUME NEW k \in {"modifier", "button"} \cap form'.held PROVE \E w \in InputCalls : AccountsFor(w, k)'
    BY DEF HeldByCalls
  <2>1. CASE c \in InputCalls /\ AccountsFor(c, k)'
    BY <2>1
  <2>2. CASE k \in form.held /\ (c \in InputCalls => ~AccountsFor(c, k))
    <3>1. PICK w \in InputCalls : AccountsFor(w, k)
      BY <2>2 DEF InputInv, HeldByCalls
    <3>2. w # c /\ GoesOn(w)
      BY <2>2, <3>1
    <3>3. AccountsFor(w, k)'
      BY <3>1, <3>2 DEF AccountsFor, GoesOn, MidWay, Presses
    <3> QED BY <3>3
  <2> QED BY <2>1, <2>2
<1> QED BY <1>1, <1>2 DEF InputInv

LEMMA MovesGoOn ==
  ASSUME InputTypes, form' \in InputForm, NEW c
  PROVE  /\ Moves(form', c) \in [InputCalls -> InputRecord]
         /\ \A d \in InputCalls :
               /\ Moves(form', c)[d].status = input[d].status /\ Moves(form', c)[d].step = input[d].step
               /\ Moves(form', c)[d].before = input[d].before /\ Moves(form', c)[d].verdict = input[d].verdict
               /\ Moves(form', c)[d].left = input[d].left
               /\ Moves(form', c)[d].moved = (input[d].moved \/ (d # c /\ MidWay(d) /\ form'.focus # form.focus))
<1>1. ASSUME NEW d \in InputCalls
      PROVE  LET rec == Moves(form', c)[d] IN
             /\ rec \in InputRecord /\ rec.status = input[d].status /\ rec.step = input[d].step
             /\ rec.before = input[d].before /\ rec.verdict = input[d].verdict /\ rec.left = input[d].left
             /\ rec.moved = (input[d].moved \/ (d # c /\ MidWay(d) /\ form'.focus # form.focus))
  <2> DEFINE moved == input[d].moved \/ (d # c /\ input[d].status = "runs" /\ input[d].step > 1 /\ form'.focus # form.focus)
  <2>1. Moves(form', c)[d] = [input[d] EXCEPT !.moved = moved]
    BY DEF Moves
  <2>2. input[d] \in InputRecord /\ moved \in BOOLEAN
    BY DEF InputTypes, InputRecord
  <2>3. moved = (input[d].moved \/ (d # c /\ MidWay(d) /\ form'.focus # form.focus))
    BY DEF MidWay
  <2> HIDE DEF moved
  <2> QED BY <2>1, <2>2, <2>3 DEF InputRecord
<1> QED BY <1>1 DEF Moves

\* A call ends in an error: if it is unknown whether it has an effect, it is called so.
LEMMA FailedInput ==
  ASSUME InputInv, NEW c \in InputCalls, NEW verdict \in {"not_started", "unknown"},
         input' = End(input, c, "failed", verdict), UNCHANGED form,
         \/ busy' = busy /\ busy # c
         \/ busy \in {c, NoInput} /\ busy' = NoInput
         \/ busy \in {c, NoInput} /\ busy' = c /\ verdict = "unknown" /\ input[c].status = "runs",
         busy = c /\ MidWay(c) => verdict = "unknown",
         input[c].status \in {"idle", "runs"}
  PROVE  InputInv'
<1> USE InputAssumption
<1>1. InputTypes /\ AtItsStep(c)
  BY DEF InputInv
<1>2. input' \in [InputCalls -> InputRecord] /\ busy' \in InputCalls \cup {NoInput}
  <2> DEFINE rec == [[input[c] EXCEPT !.status = "failed"] EXCEPT !.verdict = verdict]
  <2>0. input[c] \in InputRecord
    BY <1>1 DEF InputTypes
  <2>1. rec \in InputRecord
    BY <2>0 DEF InputRecord
  <2>2. input' = [input EXCEPT ![c] = rec] /\ input \in [InputCalls -> InputRecord]
    BY <1>1 DEF End, InputTypes
  <2> HIDE DEF rec
  <2> QED BY <1>1, <2>1, <2>2 DEF InputTypes
<1>3. /\ input'[c].status = "failed" /\ input'[c].verdict = verdict /\ input'[c].step = input[c].step
      /\ input'[c].before = input[c].before
      /\ \A d \in InputCalls \ {c} : input'[d] = input[d]
  BY <1>1 DEF End, InputTypes, InputRecord
<1>4. CommandsOf(c)' = CommandsOf(c)
  BY <1>3 DEF CommandsOf
<1>5. (AtItsStep(c) /\ FillAtFocus(c) /\ FillExact(c))'
  BY <1>1, <1>3, <1>4 DEF AtItsStep, FillAtFocus, FillExact, MidWay
<1>6. \A d \in InputCalls \ {c} : GoesOn(d)
  BY <1>3 DEF GoesOn
<1>7. ASSUME NEW k \in {"modifier", "button"} \cap form'.held
      PROVE  AccountsFor(c, k)' \/ (k \in form.held /\ ~AccountsFor(c, k))
  BY <1>1, <1>3 DEF AccountsFor, AtItsStep, Presses
<1> QED BY <1>1, <1>2, <1>5, <1>6, <1>7, InputStepOf DEF InputTypes

LEMMA PerformedInput ==
  ASSUME InputInv, NEW c \in InputCalls, PerformCommand(c)
  PROVE  InputInv'
<1> USE InputAssumption
<1> DEFINE moved == Moves(form', c)
           prepared == CommandAt(c) \in {"select", "toEnd", "look"}
           before == IF prepared THEN [text |-> form'.text[form'.focus], all |-> form'.all[form'.focus]] ELSE moved[c].before
           touched == moved[c].touched \/ ~(prepared \/ CommandAt(c) = "focus")
           next == [moved EXCEPT ![c].step = @ + 1, ![c].before = before, ![c].touched = touched]
<1>1. InputTypes /\ AtItsStep(c) /\ input[c].status = "runs" /\ input[c].verdict = "none"
  BY DEF InputInv, AtItsStep, PerformCommand, Turn
<1>2. input[c].step \in Nat \ {0} /\ input[c].step <= Len(CommandsOf(c))
  BY <1>1 DEF AtItsStep, InputTypes, InputRecord
<1>3. form' = Effect(c) /\ form' \in InputForm
  BY <1>1, EffectOfCommand DEF PerformCommand
<1>4. /\ moved \in [InputCalls -> InputRecord] /\ moved[c].status = "runs" /\ moved[c].step = input[c].step
      /\ moved[c].before = input[c].before /\ moved[c].verdict = "none" /\ moved[c].left = input[c].left
      /\ moved[c].moved = input[c].moved
  <2>1. input[c].moved \in BOOLEAN
    BY <1>1 DEF InputTypes, InputRecord
  <2>2. /\ moved \in [InputCalls -> InputRecord] /\ moved[c].status = input[c].status /\ moved[c].step = input[c].step
        /\ moved[c].before = input[c].before /\ moved[c].verdict = input[c].verdict /\ moved[c].left = input[c].left
        /\ moved[c].moved = (input[c].moved \/ (c # c /\ MidWay(c) /\ form'.focus # form.focus))
    BY <1>1, <1>3, MovesGoOn
  <2> QED BY <1>1, <2>1, <2>2
<1>5. \A d \in InputCalls \ {c} :
         /\ moved[d].status = input[d].status /\ moved[d].step = input[d].step /\ moved[d].before = input[d].before
         /\ moved[d].verdict = input[d].verdict /\ moved[d].left = input[d].left
         /\ moved[d].moved = (input[d].moved \/ (MidWay(d) /\ form'.focus # form.focus))
  BY <1>1, <1>3, MovesGoOn
<1>6. before \in [text : InputTexts, all : BOOLEAN]
  <2>1. prepared => form'.focus \in Editables
    <3>1. form'.focus = IF CommandAt(c) \in {"select", "toEnd", "focus"} THEN TargetOf[c] ELSE form.focus
      BY <1>1, <1>3, EffectOfCommand
    <3>2. form.focus \in Editables \cup {NoEditable} /\ (CommandAt(c) = "look" => form.focus # NoEditable)
      BY <1>1 DEF InputTypes, InputForm, PerformCommand, Focused
    <3> QED BY <3>1, <3>2
  <2>2. prepared => form'.text[form'.focus] \in InputTexts /\ form'.all[form'.focus] \in BOOLEAN
    BY <1>3, <2>1 DEF InputForm
  <2>3. moved[c].before \in [text : InputTexts, all : BOOLEAN]
    BY <1>4 DEF InputRecord
  <2> QED BY <2>2, <2>3
<1>7. touched \in BOOLEAN
  BY <1>4 DEF InputRecord
<1> DEFINE rec == [[[moved[c] EXCEPT !.step = @ + 1] EXCEPT !.before = before] EXCEPT !.touched = touched]
           ended == [[rec EXCEPT !.status = "done"] EXCEPT !.verdict = "completed"]
           after == IF AtLast(c) THEN ended ELSE rec
<1>8. input' = IF AtLast(c) THEN End(next, c, "done", "completed") ELSE next
  BY DEF PerformCommand
<1> HIDE DEF moved, before, touched, prepared
<1>9. /\ rec \in InputRecord /\ rec.status = "runs" /\ rec.step = input[c].step + 1 /\ rec.before = before
      /\ rec.verdict = "none" /\ rec.left = input[c].left /\ rec.moved = input[c].moved
  <2>1. moved[c] \in InputRecord /\ input[c].step + 1 \in Nat \ {0}
    BY <1>2, <1>4
  <2>2. rec \in InputRecord
    BY <1>4, <1>6, <1>7, <2>1 DEF InputRecord
  <2>3. /\ rec.status = moved[c].status /\ rec.step = moved[c].step + 1 /\ rec.before = before
        /\ rec.verdict = moved[c].verdict /\ rec.left = moved[c].left
    BY <2>1 DEF InputRecord
  <2>4. rec.moved = moved[c].moved
    BY <2>1 DEF InputRecord
  <2> HIDE DEF rec
  <2> QED BY <1>4, <2>2, <2>3, <2>4
<1>10. next = [moved EXCEPT ![c] = rec]
  BY <1>4
<1> HIDE DEF rec
<1>11. /\ ended \in InputRecord /\ ended.status = "done" /\ ended.step = input[c].step + 1
       /\ ended.verdict = "completed" /\ ended.moved = input[c].moved
  BY <1>9 DEF InputRecord
<1>12. input' = [moved EXCEPT ![c] = after]
  <2>1. End([moved EXCEPT ![c] = rec], c, "done", "completed") = [moved EXCEPT ![c] = ended]
    BY <1>4 DEF End
  <2> QED BY <1>8, <1>10, <2>1
<1> HIDE DEF next, ended
<1>13. input' \in [InputCalls -> InputRecord] /\ input'[c] = after /\ \A d \in InputCalls \ {c} : input'[d] = moved[d]
  BY <1>4, <1>9, <1>11, <1>12
<1>14. \A d \in InputCalls \ {c} : GoesOn(d)
  BY <1>5, <1>13 DEF GoesOn
<1>15. busy' = (IF AtLast(c) THEN NoInput ELSE busy) /\ busy = (IF Gesture(c) THEN c ELSE NoInput)
  BY DEF PerformCommand, Turn
<1>16. ~AtLast(c) => input'[c].step <= Len(CommandsOf(c)')
  <2> SUFFICES ASSUME ~AtLast(c) PROVE input[c].step + 1 <= Len(CommandsOf(c)')
    BY <1>9, <1>13
  <2>1. input[c].step < Len(CommandsOf(c))
    <3>1. Len(CommandsOf(c)) \in Nat
      BY InputAssumption, PressKeyIs DEF CommandsOf, Fill, Clear, AppendText, TypeText, Drag
    <3> QED BY <1>2, <3>1 DEF AtLast
  <2>2. CASE prepared /\ KindOf[c] = "clear"
    <3>1. input[c].step = 1
      BY <1>1, <1>2, <2>2, CommandTable DEF prepared
    <3>2. Len(CommandsOf(c)') \in {2, 4}
      BY <2>2 DEF CommandsOf, Clear
    <3> DEFINE len == Len(CommandsOf(c)')
    <3>3. len \in {2, 4}
      BY <3>2
    <3> HIDE DEF len
    <3>4. input[c].step + 1 <= len
      BY <3>1, <3>3
    <3> QED BY <3>4 DEF len
  <2>3. CASE ~(prepared /\ KindOf[c] = "clear")
    <3>1. prepared \/ input'[c].before = input[c].before
      BY <1>4, <1>9, <1>13 DEF before
    <3>2. CommandsOf(c)' = CommandsOf(c)
      BY <2>3, <3>1, InputAssumption DEF CommandsOf
    <3> QED BY <1>2, <2>1, <3>2
  <2> QED BY <2>2, <2>3
<1>17. AtItsStep(c)'
  BY <1>9, <1>11, <1>13, <1>15, <1>16 DEF AtItsStep, Gesture
<1>18. Replaces(c) /\ input[c].step # 1 => form'.focus = form.focus
  BY <1>1, <1>2, <1>3, CommandTable, EffectOfCommand
<1>19. FillAtFocus(c)'
  <2> SUFFICES ASSUME Replaces(c), ~AtLast(c), ~input[c].moved PROVE form'.focus = TargetOf[c]
    BY <1>9, <1>11, <1>13 DEF FillAtFocus, MidWay, Replaces
  <2>1. CASE input[c].step = 1
    BY <1>1, <1>2, <1>3, <2>1, CommandTable, EffectOfCommand
  <2>2. CASE input[c].step # 1
    BY <1>1, <1>2, <1>18, <2>2 DEF FillAtFocus, MidWay, InputInv
  <2> QED BY <2>1, <2>2
<1>20. FillExact(c)'
  <2>1. Replaces(c) => ~AtLast(c)
    BY <1>1, <1>2, CommandTable DEF Replaces, Gesture, PerformCommand
  <2> QED BY <1>9, <1>13, <2>1 DEF FillExact, Replaces
<1>21. ASSUME NEW k \in {"modifier", "button"} \cap form'.held
       PROVE  AccountsFor(c, k)' \/ (k \in form.held /\ ~AccountsFor(c, k))
  <2>1. ASSUME Presses(c, k), ~AtLast(c) PROVE AccountsFor(c, k)'
    <3>1. busy' = c /\ Presses(c, k)'
      BY <1>15, <2>1 DEF Gesture, Presses
    <3>2. input'[c].status = "runs" /\ input'[c].step > 1
      BY <1>2, <1>9, <1>13, <2>1
    <3> QED BY <3>1, <3>2 DEF AccountsFor, MidWay
  <2>2. CASE k = "modifier"
    <3>1. CommandAt(c) = "modifierDown" \/ (k \in form.held /\ CommandAt(c) # "modifierUp")
      BY <1>1, <1>3, <1>21, <2>2, EffectOfCommand
    <3>2. CommandAt(c) = "modifierDown" => Presses(c, k)
      BY <1>1, <1>2, <2>2, CommandTable DEF Presses
    <3>3. Presses(c, k) /\ CommandAt(c) # "modifierUp" => ~AtLast(c)
      BY <1>1, <1>2, <2>2, CommandTable DEF Presses
    <3> QED BY <2>1, <3>1, <3>2, <3>3 DEF AccountsFor
  <2>3. CASE k = "button"
    <3>1. CommandAt(c) = "buttonDown" \/ (k \in form.held /\ CommandAt(c) # "buttonUp")
      BY <1>1, <1>3, <1>21, <2>3, EffectOfCommand
    <3>2. CommandAt(c) = "buttonDown" => Presses(c, k)
      BY <1>1, <1>2, <2>3, CommandTable DEF Presses
    <3>3. Presses(c, k) /\ CommandAt(c) # "buttonUp" => ~AtLast(c)
      BY <1>1, <1>2, <2>3, CommandTable DEF Presses
    <3> QED BY <2>1, <3>1, <3>2, <3>3 DEF AccountsFor
  <2> QED BY <1>21, <2>2, <2>3
<1>22. InputTypes'
  BY <1>1, <1>3, <1>13, <1>15 DEF InputTypes
<1> QED BY <1>14, <1>15, <1>17, <1>19, <1>20, <1>21, <1>22, InputStepOf

LEMMA SettledInput ==
  ASSUME InputInv, NEW c \in InputCalls, SettleInput(c)
  PROVE  InputInv'
<1> USE InputAssumption
<1>1. /\ InputTypes /\ AtItsStep(c) /\ FillAtFocus(c) /\ FillExact(c)
      /\ busy = c /\ busy' = NoInput /\ input[c].status = "failed"
  BY DEF InputInv, SettleInput
<1>2. input[c].verdict = "unknown" /\ input[c].step <= Len(CommandsOf(c))
  BY <1>1 DEF AtItsStep
<1>3. form' \in InputForm
  BY <1>1, EffectOfCommand DEF SettleInput, InputTypes
<1>4. input' = Moves(form', c)
  BY DEF SettleInput
<1>5. /\ input' \in [InputCalls -> InputRecord]
      /\ \A d \in InputCalls :
            /\ input'[d].status = input[d].status /\ input'[d].step = input[d].step /\ input'[d].before = input[d].before
            /\ input'[d].verdict = input[d].verdict /\ input'[d].left = input[d].left
            /\ input'[d].moved = (input[d].moved \/ (d # c /\ MidWay(d) /\ form'.focus # form.focus))
  BY <1>1, <1>3, <1>4, MovesGoOn
<1>6. \A d \in InputCalls \ {c} : GoesOn(d)
  BY <1>5 DEF GoesOn
<1>7. AtItsStep(c)'
  BY <1>1, <1>2, <1>5 DEF AtItsStep
<1>8. FillAtFocus(c)' /\ FillExact(c)'
  BY <1>1, <1>5 DEF FillAtFocus, FillExact, MidWay
<1>9. ASSUME NEW k \in {"modifier", "button"} \cap form'.held
      PROVE  AccountsFor(c, k)' \/ (k \in form.held /\ ~AccountsFor(c, k))
  <2>1. Presses(c, k) => AccountsFor(c, k)'
    BY <1>2, <1>5 DEF AccountsFor, Presses
  <2>2. k \in form.held \/ Presses(c, k)
    <3>1. CASE form' = form
      BY <1>9, <3>1
    <3>2. CASE form' = Effect(c)
      BY <1>1, <1>2, <1>9, <3>2, CommandTable, EffectOfCommand DEF Presses
    <3> QED BY <3>1, <3>2 DEF SettleInput
  <2>3. AccountsFor(c, k) => Presses(c, k)
    BY DEF AccountsFor
  <2> QED BY <2>1, <2>2, <2>3
<1>10. InputTypes'
  BY <1>1, <1>3, <1>5 DEF InputTypes
<1> QED BY <1>1, <1>6, <1>7, <1>8, <1>9, <1>10, InputStepOf

LEMMA VerifiedInput ==
  ASSUME InputInv, NEW c \in InputCalls, Verify(c)
  PROVE  InputInv'
<1> USE InputAssumption
<1>1. /\ InputTypes /\ AtItsStep(c) /\ FillAtFocus(c) /\ HeldByCalls /\ input[c].status = "runs"
      /\ input[c].verdict = "none" /\ input[c].step <= Len(CommandsOf(c)) /\ CommandAt(c) = "verify"
  BY DEF InputInv, Verify, Turn, AtItsStep
<1>2. ~Gesture(c) /\ busy = NoInput /\ UNCHANGED <<form, busy>>
  BY <1>1, CommandTable DEF Verify, Turn
<1>3. CASE ~TextVerified(c)
  <2>1. input' = End(input, c, "failed", "unknown")
    BY <1>3 DEF Verify
  <2> QED BY <1>1, <1>2, <2>1, FailedInput
<1>4. CASE TextVerified(c)
  <2> DEFINE rec == [[[input[c] EXCEPT !.status = "done"] EXCEPT !.verdict = "completed"] EXCEPT !.left = form.text[TargetOf[c]]]
  <2>1. input[c] \in InputRecord /\ form.text[TargetOf[c]] \in InputTexts
    BY <1>1 DEF InputTypes, InputForm
  <2>2. /\ rec \in InputRecord /\ rec.status = "done" /\ rec.verdict = "completed" /\ rec.left = form.text[TargetOf[c]]
        /\ rec.step = input[c].step /\ rec.before = input[c].before
    BY <2>1 DEF InputRecord
  <2>3. rec.moved = input[c].moved
    BY <2>1 DEF InputRecord
  <2>4. input' = [input EXCEPT ![c] = rec] /\ input \in [InputCalls -> InputRecord]
    BY <1>1, <1>4 DEF Verify, End, InputTypes
  <2> HIDE DEF rec
  <2>5. input' \in [InputCalls -> InputRecord] /\ input'[c] = rec /\ \A d \in InputCalls \ {c} : input'[d] = input[d]
    BY <2>2, <2>4
  <2>6. \A d \in InputCalls \ {c} : GoesOn(d)
    BY <1>2, <2>5 DEF GoesOn
  <2>7. AtItsStep(c)' /\ FillAtFocus(c)'
    BY <1>2, <2>2, <2>5 DEF AtItsStep, FillAtFocus, MidWay
  <2>8. FillExact(c)'
    <3> SUFFICES ASSUME Replaces(c), ~input[c].moved PROVE form.text[TargetOf[c]] = Wanted(c)
      BY <2>2, <2>3, <2>5 DEF FillExact, Replaces, Wanted
    <3>1. MidWay(c)
      BY <1>1, CommandTable DEF MidWay, InputTypes, InputRecord
    <3>2. form.focus = TargetOf[c]
      BY <1>1, <3>1 DEF FillAtFocus
    <3> QED BY <1>4, <3>2 DEF TextVerified, Looked
  <2>9. ASSUME NEW k \in {"modifier", "button"} \cap form'.held
        PROVE  k \in form.held /\ ~AccountsFor(c, k)
    BY <1>1, <1>2, <2>9 DEF AccountsFor
  <2>10. InputTypes'
    BY <1>1, <1>2, <2>5 DEF InputTypes
  <2> QED BY <1>2, <2>6, <2>7, <2>8, <2>9, <2>10, InputStepOf
<1> QED BY <1>3, <1>4

LEMMA BegunInput ==
  ASSUME InputInv, NEW c \in InputCalls, BeginInput(c)
  PROVE  InputInv'
<1> USE InputAssumption
<1>1. /\ InputTypes /\ AtItsStep(c) /\ input[c].status = "idle" /\ input[c].step = 1 /\ input[c].verdict = "none"
      /\ input[c] \in InputRecord /\ UNCHANGED form
  BY DEF InputInv, BeginInput, AtItsStep, InputTypes
<1> DEFINE rec == [input[c] EXCEPT !.status = "runs"]
<1>2. rec \in InputRecord /\ rec.status = "runs" /\ rec.step = 1 /\ rec.before = input[c].before /\ rec.verdict = "none"
  BY <1>1 DEF InputRecord
<1>3. input' = [input EXCEPT ![c] = rec] /\ input \in [InputCalls -> InputRecord]
  BY <1>1 DEF BeginInput, InputTypes
<1> HIDE DEF rec
<1>4. input' \in [InputCalls -> InputRecord] /\ input'[c] = rec /\ \A d \in InputCalls \ {c} : input'[d] = input[d]
  BY <1>2, <1>3
<1>5. \A d \in InputCalls \ {c} : GoesOn(d)
  BY <1>1, <1>4 DEF GoesOn
<1>6. CommandsOf(c)' = CommandsOf(c)
  BY <1>2, <1>4 DEF CommandsOf
<1>7. 1 <= Len(CommandsOf(c))
  BY PressKeyIs DEF CommandsOf, Fill, Clear, AppendText, TypeText, Drag
<1>8. busy' = (IF Gesture(c) THEN c ELSE busy) /\ (Gesture(c) => busy = NoInput)
  BY DEF BeginInput
<1>9. busy # c
  BY <1>1, <1>8 DEF AtItsStep
<1>10. AtItsStep(c)'
  BY <1>2, <1>4, <1>6, <1>7, <1>8, <1>9 DEF AtItsStep, Gesture
<1>11. (FillAtFocus(c) /\ FillExact(c))'
  BY <1>2, <1>4 DEF FillAtFocus, FillExact, MidWay
<1>12. ASSUME NEW k \in {"modifier", "button"} \cap form'.held
       PROVE  k \in form.held /\ ~AccountsFor(c, k)
  BY <1>1, <1>12 DEF AccountsFor, MidWay
<1>13. InputTypes'
  BY <1>1, <1>4, <1>8 DEF InputTypes
<1> QED BY <1>5, <1>8, <1>10, <1>11, <1>12, <1>13, InputStepOf

LEMMA InputStep == InputInv /\ [PageInputNext]_pageInputVars => InputInv'
<1> USE InputAssumption
<1> SUFFICES ASSUME InputInv, [PageInputNext]_pageInputVars PROVE InputInv'
  OBVIOUS
<1>1. InputTypes /\ \A c \in InputCalls : AtItsStep(c)
  BY DEF InputInv
<1>2. ASSUME NEW c \in InputCalls, RefuseInput(c) PROVE InputInv'
  <2>1. busy # c
    BY <1>1, <1>2 DEF RefuseInput, AtItsStep
  <2> QED BY <1>2, <2>1, FailedInput DEF RefuseInput
<1>3. ASSUME NEW c \in InputCalls, NothingFocused(c) PROVE InputInv'
  <2>1. input[c].status = "runs" /\ input[c].step <= Len(CommandsOf(c)) /\ CommandAt(c) = "look"
    BY <1>1, <1>3 DEF NothingFocused, Turn, AtItsStep
  <2>2. ~Gesture(c) /\ busy = NoInput
    BY <1>1, <1>3, <2>1, CommandTable DEF NothingFocused, Turn
  <2> QED BY <1>3, <2>1, <2>2, FailedInput DEF NothingFocused
<1>4. ASSUME NEW c \in InputCalls, Reject(c) PROVE InputInv'
  <2> DEFINE verdict == IF Gesture(c) THEN Partial(c) ELSE "not_started"
  <2>1. /\ input[c].status = "runs" /\ busy \in {c, NoInput} /\ busy' = NoInput
        /\ input' = End(input, c, "failed", verdict) /\ UNCHANGED form
    BY <1>4 DEF Reject, Turn
  <2>2. verdict \in {"not_started", "unknown"} /\ (busy = c /\ MidWay(c) => verdict = "unknown")
    BY <1>4 DEF Reject, Turn, Partial, MidWay
  <2> HIDE DEF verdict
  <2> QED BY <2>1, <2>2, FailedInput
<1>5. ASSUME NEW c \in InputCalls, ExpireInput(c) PROVE InputInv'
  <2>1. input[c].status = "runs" /\ busy \in {c, NoInput}
    BY <1>5 DEF ExpireInput, Turn
  <2> QED BY <1>5, <2>1, FailedInput DEF ExpireInput
<1>6. CASE PageMoves
  <2>1. /\ form' \in InputForm /\ form'.held = form.held /\ input' = Moves(form', NoInput) /\ UNCHANGED busy
    BY <1>1, <1>6 DEF PageMoves, InputTypes, InputForm
  <2>2. /\ input' \in [InputCalls -> InputRecord]
        /\ \A d \in InputCalls :
              /\ input'[d].status = input[d].status /\ input'[d].step = input[d].step /\ input'[d].before = input[d].before
              /\ input'[d].verdict = input[d].verdict /\ input'[d].left = input[d].left
              /\ input'[d].moved = (input[d].moved \/ (d # NoInput /\ MidWay(d) /\ form'.focus # form.focus))
    BY <1>1, <2>1, MovesGoOn
  <2>3. \A d \in InputCalls \ {NoInput} : GoesOn(d)
    BY <2>2 DEF GoesOn
  <2>4. InputTypes'
    BY <1>1, <2>1, <2>2 DEF InputTypes
  <2> QED BY <2>1, <2>3, <2>4, InputStepOf
<1>7. CASE UNCHANGED <<form, input, busy>>
  <2>1. \A d \in InputCalls \ {NoInput} : GoesOn(d)
    BY <1>7 DEF GoesOn
  <2>2. InputTypes'
    BY <1>1, <1>7 DEF InputTypes
  <2> QED BY <1>7, <2>1, <2>2, InputStepOf
<1>8. CASE OpenDialog \/ CloseDialog \/ UNCHANGED pageInputVars
  BY <1>7, <1>8 DEF OpenDialog, CloseDialog, pageInputVars
<1> QED BY <1>2, <1>3, <1>4, <1>5, <1>6, <1>8, BegunInput, PerformedInput, VerifiedInput, SettledInput DEF PageInputNext

\* What an operation on the page's input leaves behind is accounted for, whatever times
\* out, is refused or is moved by the page (interaction-runtime.ts, runtime-cdp.ts).
THEOREM InputTheorem == PageInputInit /\ [][PageInputNext]_pageInputVars => [](HeldIsAccounted /\ FillIsExact)
<1>1. PageInputInit => InputInv
  <2> SUFFICES ASSUME PageInputInit PROVE InputInv
    OBVIOUS
  <2>1. <<>> \in InputTexts /\ <<"page">> \in InputTexts
    BY DEF InputTexts
  <2>2. form \in InputForm /\ form.held = {}
    BY <2>1 DEF PageInputInit, InputForm
  <2>3. \A c \in InputCalls : /\ input[c] \in InputRecord /\ input[c].status = "idle" /\ input[c].step = 1
                              /\ input[c].verdict = "none"
    BY <2>1 DEF PageInputInit, InputRecord
  <2>4. InputTypes
    BY <2>2, <2>3 DEF InputTypes, PageInputInit
  <2>5. \A c \in InputCalls : AtItsStep(c) /\ FillAtFocus(c) /\ FillExact(c)
    BY <2>3, InputAssumption DEF AtItsStep, FillAtFocus, FillExact, MidWay, PageInputInit
  <2> QED BY <2>2, <2>4, <2>5 DEF InputInv, HeldByCalls
<1>2. InputInv => HeldIsAccounted /\ FillIsExact
  BY DEF InputInv, HeldIsAccounted, HeldByCalls, AccountsFor, Presses, FillIsExact, FillExact
<1> QED BY <1>1, <1>2, InputStep, PTL

-----------------------------------------------------------------------------
(***************************************************************************)
(* Targets.  What a call has seen of the page is of no later document or   *)
(* revision than the page, and of the page as it is if of the same.        *)
(***************************************************************************)
IsStamp(a) == a.doc \in Nat /\ a.rev \in Nat
IsElement(it) == DOMAIN it = {"made", "up", "shown", "off", "place"}
IsPage(w) ==
    /\ DOMAIN w = {"doc", "rev", "scroll", "els"} /\ IsStamp(w)
    /\ DOMAIN w.els = Elements /\ \A e \in Elements : IsElement(w.els[e])
NoLater(a, b) == a.doc < b.doc \/ (a.doc = b.doc /\ a.rev <= b.rev)
BecomesPage(v, w) == IsPage(w) /\ NoLater(v, w) /\ (v.doc = w.doc /\ v.rev = w.rev => There(v) = There(w))

SeenBy(call, w) == IsStamp(call.seen) /\ NoLater(call.seen, w)
KnowsThere(call, w) ==
    call.seen.doc = w.doc /\ call.seen.rev = w.rev => call.there = There(w)
Between(call, stamp, w) == IsStamp(stamp) /\ NoLater(call.seen, stamp) /\ NoLater(stamp, w)
Pictured(call, stamp) == stamp.doc = call.seen.doc /\ (call.changed \/ stamp.rev = call.seen.rev)

\* The steps of each kind of call.
StepsOfKind ==
    [search |-> {"rank", "compare", "capture"}, shot |-> {"size", "picture", "smaller", "check"},
     map |-> {"look", "detect"}, frame |-> {"geometry", "again"}, press |-> {"down", "release"}]
OfKind(call, kind) == \A k \in DOMAIN StepsOfKind : call.at \in StepsOfKind[k] => kind = k

CallSees(call, w) ==
    /\ call.at \in {"rank", "compare"} => SeenBy(call, w) /\ KnowsThere(call, w)
    /\ call.at \in {"size", "picture", "smaller", "check"} => SeenBy(call, w)
    /\ call.at \in {"picture", "smaller", "check"} /\ call.full => Between(call, call.size, w)
    /\ call.at \in {"smaller", "check"} => Between(call, call.picture, w)

CallEnds(call, kind) ==
    call.at = "done" =>
        /\ kind \in {"click", "frame"} => call.acted = call.meant
        /\ kind \in {"click", "frame", "select", "point"} => call.safe
        /\ kind = "search" => call.current
        /\ kind = "shot" => Pictured(call, call.picture) /\ (call.full => Pictured(call, call.size))

SightOf(call, kind, w) ==
    DOMAIN call = DOMAIN NoCall /\ OfKind(call, kind) /\ CallSees(call, w) /\ CallEnds(call, kind)

TargetsInv ==
    /\ IsPage(web) /\ DOMAIN pageCall = PageCalls
    /\ \A c \in PageCalls : SightOf(pageCall[c], CallKind[c], web)

LEMMA LaterIsTransitive ==
  ASSUME NEW a, NEW b, NEW w, IsStamp(a), IsStamp(b), IsStamp(w), NoLater(a, b), NoLater(b, w)
  PROVE  NoLater(a, w)
BY DEF IsStamp, NoLater

LEMMA SeenStays ==
  ASSUME NEW call, NEW kind, NEW v, NEW w, IsPage(v), BecomesPage(v, w), SightOf(call, kind, v)
  PROVE  SightOf(call, kind, w)
<1>1. IsStamp(v) /\ IsStamp(w) /\ NoLater(v, w)
  BY DEF IsPage, BecomesPage
<1>2. ASSUME NEW a, IsStamp(a), NoLater(a, v) PROVE NoLater(a, w)
  BY <1>1, <1>2, LaterIsTransitive
<1>3. ASSUME IsStamp(call.seen), NoLater(call.seen, v), KnowsThere(call, v), call.seen.doc = w.doc, call.seen.rev = w.rev
      PROVE  call.there = There(w)
  <2>1. v.doc = w.doc /\ v.rev = w.rev
    BY <1>1, <1>3 DEF IsStamp, NoLater
  <2> QED BY <1>3, <2>1 DEF BecomesPage, KnowsThere
<1>4. CallSees(call, w)
  BY <1>2, <1>3 DEF SightOf, CallSees, SeenBy, Between, KnowsThere
<1> QED BY <1>4 DEF SightOf

\* A call takes a step, on a page that may have been scrolled.
LEMMA TargetsStep ==
  ASSUME TargetsInv, NEW c \in PageCalls, NEW call, Set(c, call), BecomesPage(web, web'),
         SightOf(call, CallKind[c], web')
  PROVE  TargetsInv'
<1>1. /\ IsPage(web) /\ DOMAIN pageCall = PageCalls
      /\ \A d \in PageCalls : SightOf(pageCall[d], CallKind[d], web)
  BY DEF TargetsInv
<1>2. /\ DOMAIN pageCall' = PageCalls
      /\ \A d \in PageCalls : pageCall'[d] = IF d = c THEN call ELSE pageCall[d]
  BY <1>1 DEF Set
<1>3. \A d \in PageCalls : SightOf(pageCall'[d], CallKind[d], web')
  BY <1>1, <1>2, SeenStays
<1> QED BY <1>2, <1>3 DEF TargetsInv, BecomesPage

LEMMA PageStays == ASSUME IsPage(web), UNCHANGED web PROVE BecomesPage(web, web')
BY DEF IsPage, IsStamp, BecomesPage, NoLater

LEMMA PageScrolls ==
  ASSUME IsPage(web), NEW scroll, web' = [web EXCEPT !.scroll = scroll] PROVE BecomesPage(web, web')
BY DEF IsPage, IsStamp, BecomesPage, NoLater, There, Node

\* A call that ends without an answer, or with one that nothing is asked of.
LEMMA EndsFree ==
  ASSUME NEW kind, NEW w, NEW how,
         how \in {"stale", "failed", "refused"} \/ (how = "done" /\ kind \in {"inspect", "map", "press"})
  PROVE  SightOf([NoCall EXCEPT !.at = how], kind, w)
<1> DEFINE call == [NoCall EXCEPT !.at = how]
<1>1. DOMAIN call = DOMAIN NoCall /\ call.at = how
  BY DEF NoCall
<1> HIDE DEF call
<1> QED BY <1>1 DEF SightOf, OfKind, StepsOfKind, CallSees, CallEnds

\* The page as it is now, for a call that looks at it.
LEMMA SeesNow ==
  ASSUME IsPage(web)
  PROVE  /\ IsStamp(Stamp(web)) /\ NoLater(Stamp(web), web) /\ Stamp(web).doc = web.doc /\ Stamp(web).rev = web.rev
         /\ IsStamp(Observation(web)) /\ NoLater(Observation(web), web)
         /\ Observation(web).doc = web.doc /\ Observation(web).rev = web.rev
BY DEF IsPage, IsStamp, NoLater, Stamp, Observation

LEMMA SearchSteps ==
  ASSUME TargetsInv, NEW c \in PageCalls, Capture(c) \/ RankUnits(c) \/ Compare(c)
  PROVE  TargetsInv'
<1>1. IsPage(web) /\ SightOf(pageCall[c], CallKind[c], web) /\ DOMAIN pageCall = PageCalls /\ UNCHANGED web
  BY DEF TargetsInv, Capture, RankUnits, Compare
<1>2. BecomesPage(web, web') /\ web' = web
  BY <1>1, PageStays
<1>3. ASSUME NEW call, Set(c, call), SightOf(call, CallKind[c], web) PROVE TargetsInv'
  BY <1>2, <1>3, TargetsStep
<1>4. ASSUME NEW how \in {"stale", "failed", "refused"}, EndCall(c, how) PROVE TargetsInv'
  <2>1. SightOf([NoCall EXCEPT !.at = how], CallKind[c], web)
    BY EndsFree
  <2> QED BY <1>3, <1>4, <2>1 DEF EndCall
<1>5. CASE Capture(c)
  <2> DEFINE call == [NoCall EXCEPT !.at = "rank", !.seen = Observation(web), !.tries = pageCall[c].tries + 1,
                                    !.there = There(web), !.units = Boxes(web, Units(web))]
  <2>1. Set(c, call) /\ CallKind[c] = "search"
    BY <1>5 DEF Capture
  <2>2. /\ DOMAIN call = DOMAIN NoCall /\ call.at = "rank" /\ call.seen = Observation(web)
        /\ call.there = There(web)
    BY DEF NoCall
  <2> HIDE DEF call
  <2>3. SightOf(call, CallKind[c], web)
    BY <1>1, <2>1, <2>2, SeesNow
    DEF SightOf, OfKind, StepsOfKind, CallSees, CallEnds, SeenBy, KnowsThere
  <2> QED BY <1>3, <2>1, <2>3
<1>6. CASE RankUnits(c)
  <2> DEFINE call == [pageCall[c] EXCEPT !.at = "compare"]
  <2>1. Set(c, call) \/ EndCall(c, "failed")
    BY <1>6 DEF RankUnits
  <2>2. /\ DOMAIN call = DOMAIN NoCall /\ call.at = "compare" /\ call.seen = pageCall[c].seen
        /\ call.there = pageCall[c].there
    BY <1>1 DEF SightOf, NoCall
  <2> HIDE DEF call
  <2>3. SightOf(call, CallKind[c], web)
    BY <1>1, <1>6, <2>2 DEF RankUnits, SightOf, OfKind, StepsOfKind, CallSees, CallEnds, SeenBy, KnowsThere
  <2> QED BY <1>3, <1>4, <2>1, <2>3
<1>7. CASE Compare(c)
  <2>1. pageCall[c].at = "compare" /\ CallKind[c] = "search"
    BY <1>1, <1>7 DEF Compare, SightOf, OfKind, StepsOfKind
  <2>2. CASE SamePage(pageCall[c].seen, Observation(web))
    <3> DEFINE call == [NoCall EXCEPT !.at = "done",
                          !.current = (pageCall[c].there = There(web) /\ pageCall[c].seen.root = Root(web)),
                          !.changed = pageCall[c].units # Boxes(web, Units(web))]
    <3>1. Set(c, call)
      BY <1>7, <2>2 DEF Compare
    <3>2. KnowsThere(pageCall[c], web)
      BY <1>1, <2>1 DEF SightOf, CallSees
    <3>3. pageCall[c].seen = Observation(web)
      BY <2>2 DEF SamePage
    <3>4. pageCall[c].there = There(web) /\ pageCall[c].seen.root = Root(web)
      BY <1>1, <3>2, <3>3, SeesNow DEF KnowsThere, Observation
    <3>5. DOMAIN call = DOMAIN NoCall /\ call.at = "done" /\ call.current = TRUE
      BY <3>4 DEF NoCall
    <3> HIDE DEF call
    <3>6. SightOf(call, CallKind[c], web)
      BY <2>1, <3>5 DEF SightOf, OfKind, StepsOfKind, CallSees, CallEnds
    <3> QED BY <1>3, <3>1, <3>6
  <2>3. CASE ~SamePage(pageCall[c].seen, Observation(web))
    <3> DEFINE call == [pageCall[c] EXCEPT !.at = "capture"]
    <3>1. Set(c, call) \/ EndCall(c, "stale")
      BY <1>7, <2>3 DEF Compare
    <3>2. DOMAIN call = DOMAIN NoCall /\ call.at = "capture"
      BY <1>1 DEF SightOf, NoCall
    <3> HIDE DEF call
    <3>3. SightOf(call, CallKind[c], web)
      BY <2>1, <3>2 DEF SightOf, OfKind, StepsOfKind, CallSees, CallEnds
    <3> QED BY <1>3, <1>4, <3>1, <3>3
  <2> QED BY <2>2, <2>3
<1> QED BY <1>5, <1>6, <1>7

LEMMA ShotSteps ==
  ASSUME TargetsInv, NEW c \in PageCalls, Observe(c) \/ Measure(c) \/ TakePicture(c) \/ CheckPicture(c)
  PROVE  TargetsInv'
<1>1. IsPage(web) /\ SightOf(pageCall[c], CallKind[c], web) /\ DOMAIN pageCall = PageCalls /\ UNCHANGED web
  BY Zenon DEF TargetsInv, Observe, Measure, TakePicture, CheckPicture
<1>2. BecomesPage(web, web') /\ web' = web
  BY <1>1, PageStays
<1>3. ASSUME NEW call, Set(c, call), SightOf(call, CallKind[c], web) PROVE TargetsInv'
  BY <1>2, <1>3, TargetsStep
<1>4. CASE Observe(c)
  <2>1. PICK full \in BOOLEAN : Set(c, [NoCall EXCEPT !.at = IF full THEN "size" ELSE "picture", !.full = full,
                                                    !.seen = Observation(web), !.view = Stamp(web)])
    BY <1>4, Zenon DEF Observe
  <2> DEFINE call == [NoCall EXCEPT !.at = IF full THEN "size" ELSE "picture", !.full = full,
                                    !.seen = Observation(web), !.view = Stamp(web)]
  <2>2. /\ DOMAIN call = DOMAIN NoCall /\ call.at = (IF full THEN "size" ELSE "picture")
        /\ call.full = full /\ call.seen = Observation(web)
    BY DEF NoCall
  <2>3. Set(c, call) /\ CallKind[c] = "shot"
    BY <1>4, <2>1, Zenon DEF Observe
  <2> HIDE DEF call
  <2>4. SightOf(call, CallKind[c], web)
    BY <1>1, <2>2, <2>3, SeesNow DEF SightOf, OfKind, StepsOfKind, CallSees, CallEnds, SeenBy
  <2> QED BY <1>3, <2>3, <2>4
<1>5. CASE Measure(c)
  <2> DEFINE call == [pageCall[c] EXCEPT !.at = "picture", !.size = Stamp(web)]
  <2>1. Set(c, call) /\ pageCall[c].at = "size"
    BY <1>5 DEF Measure
  <2>2. /\ DOMAIN call = DOMAIN NoCall /\ call.at = "picture" /\ call.size = Stamp(web)
        /\ call.full = pageCall[c].full /\ call.seen = pageCall[c].seen
    BY <1>1 DEF SightOf, NoCall
  <2> HIDE DEF call
  <2>3. SeenBy(pageCall[c], web) /\ CallKind[c] = "shot"
    BY <1>1, <2>1 DEF SightOf, CallSees, OfKind, StepsOfKind
  <2>4. SightOf(call, CallKind[c], web)
    BY <1>1, <2>2, <2>3, SeesNow DEF SightOf, OfKind, StepsOfKind, CallSees, CallEnds, SeenBy, Between, NoLater
  <2> QED BY <1>3, <2>1, <2>4
<1>6. CASE TakePicture(c)
  <2>1. PICK next \in {"check", "smaller"} : Set(c, [pageCall[c] EXCEPT !.at = next, !.picture = Stamp(web)])
    BY <1>6, Zenon DEF TakePicture
  <2> DEFINE call == [pageCall[c] EXCEPT !.at = next, !.picture = Stamp(web)]
  <2>2. Set(c, call) /\ pageCall[c].at \in {"picture", "smaller"}
    BY <1>6, <2>1, Zenon DEF TakePicture
  <2>3. /\ DOMAIN call = DOMAIN NoCall /\ call.at = next /\ call.picture = Stamp(web)
        /\ call.size = pageCall[c].size /\ call.full = pageCall[c].full /\ call.seen = pageCall[c].seen
    BY <1>1 DEF SightOf, NoCall
  <2> HIDE DEF call
  <2>4. /\ SeenBy(pageCall[c], web) /\ CallKind[c] = "shot"
        /\ pageCall[c].full => Between(pageCall[c], pageCall[c].size, web)
    BY <1>1, <2>2 DEF SightOf, CallSees, OfKind, StepsOfKind
  <2>5. /\ SeenBy(call, web) /\ Between(call, call.picture, web)
        /\ call.full => Between(call, call.size, web)
    BY <1>1, <2>3, <2>4, SeesNow DEF SeenBy, Between, NoLater
  <2>6. SightOf(call, CallKind[c], web)
    BY <2>1, <2>3, <2>4, <2>5 DEF SightOf, OfKind, StepsOfKind, CallSees, CallEnds
  <2> QED BY <1>3, <2>2, <2>6
<1>7. CASE CheckPicture(c)
  <2> DEFINE changed == Observation(web).rev # pageCall[c].seen.rev
             call == [pageCall[c] EXCEPT !.at = "done", !.changed = changed]
  <2>1. /\ pageCall[c].at = "check"
        /\ IF web.doc # pageCall[c].seen.doc THEN EndCall(c, "stale") ELSE Set(c, call)
    BY <1>7 DEF CheckPicture
  <2>2. CASE web.doc # pageCall[c].seen.doc
    <3>1. SightOf([NoCall EXCEPT !.at = "stale"], CallKind[c], web)
      BY EndsFree
    <3> QED BY <1>3, <2>1, <2>2, <3>1 DEF EndCall
  <2>3. CASE web.doc = pageCall[c].seen.doc
    <3>1. /\ DOMAIN call = DOMAIN NoCall /\ call.at = "done" /\ call.changed = changed
          /\ call.picture = pageCall[c].picture /\ call.size = pageCall[c].size
          /\ call.full = pageCall[c].full /\ call.seen = pageCall[c].seen
      BY <1>1 DEF SightOf, NoCall
    <3> HIDE DEF call
    <3>2. /\ SeenBy(pageCall[c], web) /\ CallKind[c] = "shot"
          /\ pageCall[c].full => Between(pageCall[c], pageCall[c].size, web)
          /\ Between(pageCall[c], pageCall[c].picture, web)
      BY <1>1, <2>1 DEF SightOf, CallSees, OfKind, StepsOfKind
    <3>3. ASSUME NEW stamp, Between(pageCall[c], stamp, web)
          PROVE  stamp.doc = pageCall[c].seen.doc /\ (changed \/ stamp.rev = pageCall[c].seen.rev)
      BY <1>1, <2>3, <3>2, <3>3, SeesNow DEF Between, SeenBy, NoLater, IsStamp, IsPage
    <3>4. Pictured(call, call.picture) /\ (call.full => Pictured(call, call.size))
      BY <3>1, <3>2, <3>3 DEF Pictured
    <3>5. SightOf(call, CallKind[c], web)
      BY <3>1, <3>2, <3>4 DEF SightOf, OfKind, StepsOfKind, CallSees, CallEnds
    <3> QED BY <1>3, <2>1, <2>3, <3>5
  <2> QED BY <2>2, <2>3
<1> QED BY <1>4, <1>5, <1>6, <1>7

LEMMA MapSteps ==
  ASSUME TargetsInv, NEW c \in PageCalls, MapPage(c) \/ Look(c) \/ Detect(c) \/ Inspect(c)
  PROVE  TargetsInv'
<1>1. IsPage(web) /\ SightOf(pageCall[c], CallKind[c], web) /\ DOMAIN pageCall = PageCalls /\ UNCHANGED web
  BY Zenon DEF TargetsInv, MapPage, Look, Detect, Inspect
<1>2. BecomesPage(web, web') /\ web' = web
  BY <1>1, PageStays
<1>3. ASSUME NEW call, Set(c, call), SightOf(call, CallKind[c], web) PROVE TargetsInv'
  BY <1>2, <1>3, TargetsStep
<1>4. ASSUME NEW call, DOMAIN call = DOMAIN NoCall, call.at \in {"look", "detect", "done"}, CallKind[c] = "map"
      PROVE  SightOf(call, CallKind[c], web)
  BY <1>4 DEF SightOf, OfKind, StepsOfKind, CallSees, CallEnds
<1>5. CASE MapPage(c)
  <2> DEFINE map == [NoCall EXCEPT !.view = Stamp(web), !.units = Boxes(web, Units(web)), !.picture = Stamp(web)]
  <2>1. CallKind[c] = "map" /\ \E at \in {"look", "done"} : Set(c, [map EXCEPT !.at = at])
    BY <1>5 DEF MapPage
  <2>2. PICK at \in {"look", "done"} : Set(c, [map EXCEPT !.at = at])
    BY <2>1
  <2> DEFINE call == [map EXCEPT !.at = at]
  <2>3. DOMAIN call = DOMAIN NoCall /\ call.at = at
    BY DEF NoCall
  <2>4. Set(c, call)
    BY <2>2
  <2> HIDE DEF call
  <2> QED BY <1>3, <1>4, <2>1, <2>3, <2>4
<1>6. CASE Look(c)
  <2> DEFINE call == [pageCall[c] EXCEPT !.at = "detect", !.picture = Stamp(web)]
  <2>1. Set(c, call) /\ CallKind[c] = "map"
    BY <1>1, <1>6 DEF Look, SightOf, OfKind, StepsOfKind
  <2>2. DOMAIN call = DOMAIN NoCall /\ call.at = "detect"
    BY <1>1 DEF SightOf, NoCall
  <2> HIDE DEF call
  <2> QED BY <1>3, <1>4, <2>1, <2>2
<1>7. CASE Detect(c)
  <2>1. PICK shownToo \in BOOLEAN :
           Set(c, [pageCall[c] EXCEPT !.at = "done", !.picture = IF shownToo THEN @ ELSE pageCall[c].view])
    BY <1>7, Zenon DEF Detect
  <2> DEFINE call == [pageCall[c] EXCEPT !.at = "done", !.picture = IF shownToo THEN @ ELSE pageCall[c].view]
  <2>2. Set(c, call) /\ CallKind[c] = "map"
    BY <1>1, <1>7, <2>1, Zenon DEF Detect, SightOf, OfKind, StepsOfKind
  <2>3. DOMAIN call = DOMAIN NoCall /\ call.at = "done"
    BY <1>1 DEF SightOf, NoCall
  <2> HIDE DEF call
  <2> QED BY <1>3, <1>4, <2>2, <2>3
<1>8. CASE Inspect(c)
  <2>1. CallKind[c] = "inspect" /\ \E how \in {"stale", "done"} : EndCall(c, how)
    BY <1>8 DEF Inspect
  <2>2. PICK how \in {"stale", "done"} : EndCall(c, how)
    BY <2>1
  <2>3. SightOf([NoCall EXCEPT !.at = how], CallKind[c], web)
    BY <2>1, EndsFree
  <2> QED BY <1>3, <2>2, <2>3 DEF EndCall
<1> QED BY <1>5, <1>6, <1>7, <1>8

\* A click that begins, seeks its point or waits has seen nothing it must answer for.
LEMMA ClickSteps ==
  ASSUME TargetsInv, NEW c \in PageCalls,
         Aim(c) \/ Refused(c) \/ Seek(c) \/ framePoint(c) \/ Press(c) \/ ReleaseClick(c)
  PROVE  TargetsInv'
<1>1. IsPage(web) /\ SightOf(pageCall[c], CallKind[c], web) /\ DOMAIN pageCall = PageCalls
  BY DEF TargetsInv
<1>2. ASSUME NEW call, Set(c, call), BecomesPage(web, web'), DOMAIN call = DOMAIN NoCall,
             \/ call.at = "target"
             \/ call.at \in {"geometry", "again"} /\ CallKind[c] = "frame"
             \/ call.at \in {"down", "release", "done"} /\ CallKind[c] = "press"
      PROVE  TargetsInv'
  <2>1. SightOf(call, CallKind[c], web')
    BY <1>2 DEF SightOf, OfKind, StepsOfKind, CallSees, CallEnds
  <2> QED BY <1>2, <2>1, TargetsStep
<1>3. ASSUME NEW how \in {"stale", "refused"}, EndCall(c, how), UNCHANGED web PROVE TargetsInv'
  <2>1. SightOf([NoCall EXCEPT !.at = how], CallKind[c], web')
    BY EndsFree
  <2> QED BY <1>1, <1>3, <2>1, PageStays, TargetsStep DEF EndCall
<1>4. CASE Aim(c)
  <2>1. BecomesPage(web, web')
    BY <1>1, <1>4, PageStays, PageScrolls, Zenon DEF Aim
  <2>2. PICK meant, point : \/ Set(c, [NoCall EXCEPT !.at = "target", !.meant = meant])
                            \/ Set(c, [NoCall EXCEPT !.at = "target"])
                            \/ Set(c, [NoCall EXCEPT !.at = "target", !.meant = meant, !.point = point])
    BY <1>4, Zenon DEF Aim
  <2>3. /\ DOMAIN [NoCall EXCEPT !.at = "target", !.meant = meant] = DOMAIN NoCall
        /\ [NoCall EXCEPT !.at = "target", !.meant = meant].at = "target"
        /\ DOMAIN [NoCall EXCEPT !.at = "target"] = DOMAIN NoCall
        /\ [NoCall EXCEPT !.at = "target"].at = "target"
        /\ DOMAIN [NoCall EXCEPT !.at = "target", !.meant = meant, !.point = point] = DOMAIN NoCall
        /\ [NoCall EXCEPT !.at = "target", !.meant = meant, !.point = point].at = "target"
    BY DEF NoCall
  <2> QED BY <1>2, <2>1, <2>2, <2>3
<1>5. CASE Refused(c)
  <2>1. UNCHANGED web /\ \E how \in {"stale", "refused"} : EndCall(c, how)
    BY <1>5 DEF Refused
  <2> QED BY <1>3, <2>1
<1>6. CASE Seek(c)
  <2>1. PICK at, point, scroll :
           /\ web' = [web EXCEPT !.scroll = scroll]
           /\ Set(c, [pageCall[c] EXCEPT !.at = at, !.point = point])
           /\ at = IF CallKind[c] = "frame" THEN "geometry" ELSE "down"
    BY <1>6, Zenon DEF Seek
  <2> DEFINE call == [pageCall[c] EXCEPT !.at = at, !.point = point]
  <2>2. DOMAIN call = DOMAIN NoCall /\ call.at = at /\ Set(c, call)
    BY <1>1, <2>1 DEF SightOf, NoCall
  <2> HIDE DEF call
  <2>3. BecomesPage(web, web')
    BY <1>1, <2>1, PageScrolls
  <2> QED BY <1>2, <1>6, <2>1, <2>2, <2>3, Zenon DEF Seek
<1>7. CASE framePoint(c)
  <2> DEFINE call == [pageCall[c] EXCEPT !.at = "again"]
  <2>1. /\ Set(c, call) \/ EndCall(c, "refused")
        /\ UNCHANGED web /\ CallKind[c] = "frame"
    BY <1>1, <1>7 DEF framePoint, SightOf, OfKind, StepsOfKind
  <2>2. DOMAIN call = DOMAIN NoCall /\ call.at = "again"
    BY <1>1 DEF SightOf, NoCall
  <2> HIDE DEF call
  <2> QED BY <1>1, <1>2, <1>3, <2>1, <2>2, PageStays
<1>8. CASE Press(c)
  <2> DEFINE call == [pageCall[c] EXCEPT !.at = "release", !.acted = NodeAt(web, pageCall[c].point)]
  <2>1. Set(c, call) /\ UNCHANGED web /\ CallKind[c] = "press"
    BY <1>1, <1>8 DEF Press, SightOf, OfKind, StepsOfKind
  <2>2. DOMAIN call = DOMAIN NoCall /\ call.at = "release"
    BY <1>1 DEF SightOf, NoCall
  <2> HIDE DEF call
  <2> QED BY <1>1, <1>2, <2>1, <2>2, PageStays
<1>9. CASE ReleaseClick(c)
  <2> DEFINE call == [pageCall[c] EXCEPT !.at = "done",
                        !.acted = IF @ = NodeAt(web, pageCall[c].point) THEN @ ELSE NoNode]
  <2>1. Set(c, call) /\ UNCHANGED web /\ CallKind[c] = "press"
    BY <1>1, <1>9 DEF ReleaseClick, SightOf, OfKind, StepsOfKind
  <2>2. DOMAIN call = DOMAIN NoCall /\ call.at = "done"
    BY <1>1 DEF SightOf, NoCall
  <2> HIDE DEF call
  <2> QED BY <1>1, <1>2, <2>1, <2>2, PageStays
<1> QED BY <1>4, <1>5, <1>6, <1>7, <1>8, <1>9

\* The click itself: found by its id, the element is the node that was meant.
LEMMA ClickStep ==
  ASSUME TargetsInv, NEW c \in PageCalls, ClickInPage(c)
  PROVE  TargetsInv'
<1>1. PICK e \in TargetsOf(c) : TargetsOf(c) = {e} /\ MayClick(e) /\ Acted(c, e)
  BY DEF ClickInPage
<1>2. CallKind[c] \in {"click", "select", "point", "frame"}
  BY DEF ClickInPage
<1> DEFINE safe == Visible(web, e) /\ ~ web.els[e].off /\ ~ Covered(web, e)
           call == [NoCall EXCEPT !.at = "done", !.meant = pageCall[c].meant, !.point = pageCall[c].point,
                                  !.acted = Node(web, e), !.safe = safe]
<1>3. Set(c, call) /\ safe
  BY <1>1 DEF Acted, MayClick
<1>4. DOMAIN call = DOMAIN NoCall /\ call.at = "done" /\ call.meant = pageCall[c].meant /\ call.acted = Node(web, e)
  BY DEF NoCall
<1>5. call.safe
  BY <1>3 DEF NoCall
<1>6. CallKind[c] \in {"click", "frame"} => Node(web, e) = pageCall[c].meant
  <2> SUFFICES ASSUME CallKind[c] \in {"click", "frame"} PROVE Node(web, e) = pageCall[c].meant
    OBVIOUS
  <2>1. TargetsOf(c) = agentNodeById(IdOf(pageCall[c].meant))
    BY DEF TargetsOf
  <2> QED BY <2>1 DEF agentNodeById, Found, IdOf
<1>7. BecomesPage(web, web')
  <2>1. PICK scroll : web' = [web EXCEPT !.scroll = scroll]
    BY DEF ClickInPage
  <2> QED BY <2>1, PageScrolls DEF TargetsInv
<1> HIDE DEF call, safe
<1>8. SightOf(call, CallKind[c], web')
  BY <1>2, <1>4, <1>5, <1>6 DEF SightOf, OfKind, StepsOfKind, CallSees, CallEnds
<1> QED BY <1>3, <1>7, <1>8, TargetsStep

LEMMA PageTurns == ASSUME TargetsInv, PageTurn PROVE TargetsInv'
<1>1. IsPage(web) /\ UNCHANGED pageCall
  BY DEF TargetsInv, PageTurn
<1>2. BecomesPage(web, web')
  <2>1. ASSUME NEW e \in Elements, Alter(e) PROVE BecomesPage(web, web')
    <3> DEFINE it == web.els[e]
               again == [FreshElement EXCEPT !.made = it.made + 1]
               news == {[it EXCEPT !.up = FALSE], [it EXCEPT !.shown = ~ @],
                        [it EXCEPT !.off = ~ @], [it EXCEPT !.place = 1 - @]}
                       \cup (IF it.up THEN {} ELSE {again})
    <3>0. PICK new \in news, mutation \in {1} \cup (IF it.up THEN {0} ELSE {}) :
            /\ new.up = it.up \/ mutation = 1
            /\ web' = [web EXCEPT !.els[e] = new, !.rev = @ + mutation]
      BY <2>1, Zenon DEF Alter
    <3>0a. mutation \in 0..1 /\ (mutation = 0 => it.up)
      OBVIOUS
    <3>0b. IsElement(it) /\ IsElement(again)
      BY <1>1 DEF IsPage, IsElement, FreshElement
    <3>0c. IsElement(new) /\ (it.up => new.made = it.made)
      <4> HIDE DEF it, again
      <4> QED BY <3>0, <3>0b DEF IsElement
    <3>1. /\ web' = [web EXCEPT !.els[e] = new, !.rev = @ + mutation]
          /\ mutation = 0 => new.up = web.els[e].up /\ new.made = web.els[e].made
      BY <3>0, <3>0a, <3>0c
    <3>2. DOMAIN web' = DOMAIN web /\ web'.doc = web.doc /\ web'.rev = web.rev + mutation
      BY <1>1, <3>1 DEF IsPage
    <3>3. ASSUME mutation = 0 PROVE There(web') = There(web)
      <4>1. \A f \in Elements : web'.els[f].up = web.els[f].up /\ Node(web', f) = Node(web, f)
        BY <1>1, <3>1, <3>2, <3>3 DEF IsPage, Node
      <4> QED BY <4>1 DEF There
    <3>4. web'.rev = web.rev => mutation = 0
      BY <1>1, <3>2 DEF IsPage, IsStamp
    <3>5. DOMAIN web'.els = Elements /\ \A f \in Elements : IsElement(web'.els[f])
      <4> HIDE DEF news, it
      <4> QED BY <1>1, <3>0c, <3>1 DEF IsPage
    <3> QED BY <1>1, <3>2, <3>3, <3>4, <3>5 DEF IsPage, IsStamp, BecomesPage, NoLater
  <2>2. CASE Scroll
    BY <1>1, <2>2, PageScrolls DEF Scroll
  <2>3. CASE Load
    <3>1. /\ DOMAIN web' = {"doc", "rev", "scroll", "els"} /\ web'.doc = web.doc + 1 /\ web'.rev = 0
          /\ DOMAIN web'.els = Elements /\ \A f \in Elements : IsElement(web'.els[f])
      BY <2>3 DEF Load, IsElement, FreshElement
    <3> QED BY <1>1, <3>1 DEF IsPage, IsStamp, BecomesPage, NoLater
  <2> QED BY <2>1, <2>2, <2>3 DEF PageTurn
<1> QED BY <1>1, <1>2, SeenStays DEF TargetsInv, BecomesPage

\* However the page changes between the steps of the calls, a click is on the node that
\* was listed, nothing came or went behind a search and a picture is of what it names
\* (page-state.ts, interaction-helpers.ts, inspection.ts).
THEOREM TargetsTheorem == PageTargetsInit /\ [][PageTargetsNext]_pageTargetsVars => []PageTargetsSound
<1>1. PageTargetsInit => TargetsInv
  <2> SUFFICES ASSUME PageTargetsInit PROVE TargetsInv
    OBVIOUS
  <2>1. IsPage(web)
    <3>1. \A e \in Elements : IsElement([FreshElement EXCEPT !.place = e % 2])
      BY DEF IsElement, FreshElement
    <3> QED BY <3>1 DEF PageTargetsInit, IsPage, IsStamp
  <2>2. PICK plan \in PagePlans :
           pageCall = [c \in PageCalls |-> IF c \in plan THEN NoCall ELSE [NoCall EXCEPT !.at = "failed"]]
    BY DEF PageTargetsInit
  <2>3. ASSUME NEW kind PROVE SightOf(NoCall, kind, web)
    BY DEF SightOf, NoCall, OfKind, StepsOfKind, CallSees, CallEnds
  <2>4. ASSUME NEW kind PROVE SightOf([NoCall EXCEPT !.at = "failed"], kind, web)
    BY EndsFree
  <2> QED BY <2>1, <2>2, <2>3, <2>4 DEF TargetsInv
<1>2. TargetsInv /\ [PageTargetsNext]_pageTargetsVars => TargetsInv'
  <2> SUFFICES ASSUME TargetsInv, [PageTargetsNext]_pageTargetsVars PROVE TargetsInv'
    OBVIOUS
  <2>1. CASE UNCHANGED pageTargetsVars
    BY <2>1 DEF pageTargetsVars, TargetsInv
  <2>2. CASE \E c \in PageCalls :
                \/ Capture(c) \/ RankUnits(c) \/ Compare(c)
                \/ Observe(c) \/ Measure(c) \/ TakePicture(c) \/ CheckPicture(c)
                \/ MapPage(c) \/ Look(c) \/ Detect(c) \/ Inspect(c)
                \/ Aim(c) \/ Refused(c) \/ ClickInPage(c) \/ Seek(c) \/ framePoint(c) \/ Press(c) \/ ReleaseClick(c)
    BY <2>2, SearchSteps, ShotSteps, MapSteps, ClickSteps, ClickStep
  <2> QED BY <2>1, <2>2, PageTurns DEF PageTargetsNext
<1>3. TargetsInv => PageTargetsSound
  BY DEF TargetsInv, SightOf, CallEnds, PageTargetsSound, ClickIsOnItsNode, SearchIsCurrent, PictureIsObserved,
         DoneAs, Pictured
<1> QED BY <1>1, <1>2, <1>3, PTL

-----------------------------------------------------------------------------
\* command-health.ts, debugger-attach.ts, runtime-cdp.ts: two calls work in a
\* tab at a time, late work included, only if an expired call gave the queue up
\* under the first; a debugger that is left attached is known; what input leaves
\* pressed is accounted for, and a fill that is confirmed was verified.
\* page-state.ts, interaction-helpers.ts, inspection.ts: a click is on the node
\* that was listed, nothing has come or gone behind a search that answers, and a
\* picture is of the document it names.
TabCommandsSound ==
  /\ ApartUnlessOrphaned /\ DebuggerIsKnown
  /\ HeldIsAccounted /\ FillIsExact
  /\ PageTargetsSound

\* The tab's queue, the input operations and the sight of the page, each by itself and
\* for any calls of it, keep what a tab's commands rest on.
THEOREM TabCommandsTheorem ==
  /\ TabSpec
  /\ PageInputInit /\ [][PageInputNext]_pageInputVars
  /\ PageTargetsInit /\ [][PageTargetsNext]_pageTargetsVars
  => []TabCommandsSound
<1>1. ApartUnlessOrphaned /\ DebuggerIsKnown /\ (HeldIsAccounted /\ FillIsExact) /\ PageTargetsSound => TabCommandsSound
  BY DEF TabCommandsSound
<1> QED BY <1>1, ApartTheorem, DebuggerTheorem, InputTheorem, TargetsTheorem, PTL

-----------------------------------------------------------------------------
(***************************************************************************)
(* The models.  An instance is listed in one place, and the numbers of     *)
(* those that are listed or disposed of were given out.                    *)
(***************************************************************************)
ModelsInv ==
    /\ held \in [Parts -> [SearchModels -> Nat]] /\ made \in Nat
    /\ loader \in [Loaders -> [at : {"none", "clear", "load", "replace"}, part : Parts, sweep : Parts]]
    /\ idleModel \in SearchModels \cup {NoModel}
    /\ \A i \in disposed : i \in Nat /\ i <= made
    /\ \A p \in Parts, m \in SearchModels : held[p][m] <= made /\ (held[p][m] # 0 => held[p][m] \notin disposed)
    /\ \A p, q \in Parts, m, n \in SearchModels : held[p][m] = held[q][n] /\ held[p][m] # 0 => p = q /\ m = n

\* Instances are taken out of their places, and those alone may be disposed of.
LEMMA TakenOutInv ==
  ASSUME ModelsInv, held' \in [Parts -> [SearchModels -> Nat]], made' = made,
         loader' \in [Loaders -> [at : {"none", "clear", "load", "replace"}, part : Parts, sweep : Parts]],
         idleModel' \in SearchModels \cup {NoModel},
         \A p \in Parts, m \in SearchModels : held'[p][m] \in {0, held[p][m]},
         \A i \in disposed' : i \in disposed \/ \E p \in Parts, m \in SearchModels :
                                  i = held[p][m] /\ held[p][m] # 0 /\ held'[p][m] = 0
  PROVE  ModelsInv'
<1>1. \A i \in disposed' : i \in Nat /\ i <= made'
  BY DEF ModelsInv
<1>2. ASSUME NEW p \in Parts, NEW m \in SearchModels, held'[p][m] # 0, held'[p][m] \in disposed' PROVE FALSE
  <2>1. held'[p][m] = held[p][m] /\ held[p][m] \notin disposed
    BY <1>2 DEF ModelsInv
  <2>2. PICK q \in Parts, n \in SearchModels : held[p][m] = held[q][n] /\ held[q][n] # 0 /\ held'[q][n] = 0
    BY <1>2, <2>1
  <2>3. p = q /\ m = n
    BY <2>1, <2>2 DEF ModelsInv
  <2> QED BY <1>2, <2>2, <2>3
<1>3. ASSUME NEW p \in Parts, NEW m \in SearchModels PROVE held'[p][m] <= made'
  <2>1. held[p][m] <= made /\ made \in Nat /\ held'[p][m] \in {0, held[p][m]}
    BY DEF ModelsInv
  <2> QED BY <2>1
<1>4. ASSUME NEW p \in Parts, NEW q \in Parts, NEW m \in SearchModels, NEW n \in SearchModels,
             held'[p][m] = held'[q][n], held'[p][m] # 0
      PROVE  p = q /\ m = n
  BY <1>4 DEF ModelsInv
<1> QED BY <1>1, <1>2, <1>3, <1>4 DEF ModelsInv

\* A new instance is listed, in place of what its place held.
LEMMA ListedInv ==
  ASSUME ModelsInv, NEW l \in Loaders, List(l), UNCHANGED <<disposed, idleModel>>,
         loader' \in [Loaders -> [at : {"none", "clear", "load", "replace"}, part : Parts, sweep : Parts]]
  PROVE  ModelsInv'
<1> USE ModelAssumption
<1>1. loader[l].part \in Parts /\ Model(l) \in SearchModels
  BY DEF ModelsInv, Loaders, Model
<1>2. made' = made + 1 /\ made \in Nat
  BY DEF List, ModelsInv
<1>3. /\ held'[loader[l].part][Model(l)] = made + 1
      /\ held' \in [Parts -> [SearchModels -> Nat]]
      /\ \A p \in Parts, m \in SearchModels : p # loader[l].part \/ m # Model(l) => held'[p][m] = held[p][m]
  BY <1>1, <1>2 DEF List, ModelsInv
<1>4. \A i \in disposed' : i \in Nat /\ i <= made'
  BY <1>2 DEF ModelsInv
<1>5. ASSUME NEW p \in Parts, NEW m \in SearchModels
      PROVE  held'[p][m] <= made' /\ (held'[p][m] # 0 => held'[p][m] \notin disposed')
  <2>1. CASE p = loader[l].part /\ m = Model(l)
    BY <1>2, <1>3, <2>1 DEF ModelsInv
  <2>2. CASE ~(p = loader[l].part /\ m = Model(l))
    BY <1>2, <1>3, <2>2 DEF ModelsInv
  <2> QED BY <2>1, <2>2
<1>6. ASSUME NEW p \in Parts, NEW q \in Parts, NEW m \in SearchModels, NEW n \in SearchModels,
             held'[p][m] = held'[q][n], held'[p][m] # 0
      PROVE  p = q /\ m = n
  <2>1. \A o \in Parts, k \in SearchModels : held[o][k] # made + 1
    BY <1>2 DEF ModelsInv
  <2> QED BY <1>3, <1>6, <2>1 DEF ModelsInv
<1> QED BY <1>2, <1>3, <1>4, <1>5, <1>6 DEF ModelsInv

\* A step of a load that lists nothing, or none.
LEMMA QuietModelsInv ==
  ASSUME ModelsInv, UNCHANGED <<held, disposed, made>>, idleModel' \in SearchModels \cup {NoModel},
         loader' \in [Loaders -> [at : {"none", "clear", "load", "replace"}, part : Parts, sweep : Parts]]
  PROVE  ModelsInv'
BY DEF ModelsInv

LEMMA LoadsTyped == ASSUME NEW part \in Parts
  PROVE {Loading(part), Resting} \subseteq [at : {"none", "clear", "load", "replace"}, part : Parts, sweep : Parts]
BY DEF Loading, Resting, Parts

LEMMA SweepInv == ASSUME ModelsInv, NEW l \in Loaders, Sweep(l) PROVE ModelsInv'
<1> DEFINE part == IF "embedding" \in LeftToSweep(l) THEN "embedding" ELSE "reranker"
<1>1. PICK m \in Others(l, part) :
         /\ held' = [held EXCEPT ![part][m] = 0]
         /\ disposed' = disposed \cup {held[part][m]}
         /\ loader' = [loader EXCEPT ![l].sweep = part]
  BY DEF Sweep
<1>2. part \in Parts /\ m \in SearchModels /\ held[part][m] # 0 /\ made' = made /\ idleModel' = idleModel
  BY DEF Sweep, Others, Parts
<1> HIDE DEF part
<1>3. /\ held' \in [Parts -> [SearchModels -> Nat]] /\ held'[part][m] = 0
      /\ \A p \in Parts, n \in SearchModels : held'[p][n] \in {0, held[p][n]}
  BY <1>1, <1>2 DEF ModelsInv
<1>4. loader' \in [Loaders -> [at : {"none", "clear", "load", "replace"}, part : Parts, sweep : Parts]]
  <2>1. loader \in [Loaders -> [at : {"none", "clear", "load", "replace"}, part : Parts, sweep : Parts]]
    BY DEF ModelsInv
  <2>2. loader' = [loader EXCEPT ![l].sweep = part] /\ part \in Parts
    BY <1>1, <1>2
  <2> QED BY <2>1, <2>2
<1> QED BY <1>1, <1>2, <1>3, <1>4, TakenOutInv DEF ModelsInv

LEMMA LoadStepInv ==
  ASSUME ModelsInv, NEW l \in Loaders, BeginLoad(l) \/ Loaded(l)
  PROVE  ModelsInv'
<1>1. loader' \in [Loaders -> [at : {"none", "clear", "load", "replace"}, part : Parts, sweep : Parts]]
  BY DEF ModelsInv, BeginLoad, Loaded, Parts
<1>2. UNCHANGED <<held, disposed, made, idleModel>>
  BY DEF BeginLoad, Loaded
<1> QED BY <1>1, <1>2, QuietModelsInv DEF ModelsInv

LEMMA PreparationInv ==
  ASSUME ModelsInv, NEW m \in SearchModels, Prepared(m) \/ PreparationFails(m)
  PROVE  ModelsInv'
<1>1. m \in Loaders
  BY DEF Loaders
<1>2. \E load \in {Loading("reranker"), Resting} : loader' = [loader EXCEPT ![m] = load]
  BY Zenon DEF Prepared, PreparationFails
<1>3. loader' \in [Loaders -> [at : {"none", "clear", "load", "replace"}, part : Parts, sweep : Parts]]
  BY <1>1, <1>2, LoadsTyped DEF ModelsInv, Parts
<1>4. CASE Prepared(m)
  <2>1. List(m) /\ UNCHANGED <<disposed, idleModel>>
    BY <1>4 DEF Prepared
  <2> QED BY <1>1, <1>3, <2>1, ListedInv
<1>5. CASE PreparationFails(m)
  BY <1>3, <1>5, QuietModelsInv, Zenon DEF PreparationFails, ModelsInv
<1> QED BY <1>4, <1>5

LEMMA RequestInv ==
  ASSUME ModelsInv, NEW c \in ModelCalls,
         PrepareModel(c) \/ Find(c) \/ LoadedItself(c) \/ OwnLoadFails(c) \/ Embed(c) \/ Rerank(c)
  PROVE  ModelsInv'
<1> USE ModelAssumption
<1>1. c \in Loaders /\ ModelOf[c] \in Loaders /\ ModelOf[c] \in SearchModels
  BY DEF Loaders
<1>2. \/ loader' = loader
      \/ \E l \in {c, ModelOf[c]}, load \in {Loading("embedding"), Loading("reranker"), Resting} :
            loader' = [loader EXCEPT ![l] = load]
  <2>1. CASE PrepareModel(c)
    BY <2>1 DEF PrepareModel
  <2>2. CASE Find(c)
    BY <2>2 DEF Find, Parts
  <2>3. CASE LoadedItself(c) \/ OwnLoadFails(c)
    BY <2>3 DEF LoadedItself, OwnLoadFails
  <2>4. CASE Embed(c) \/ Rerank(c)
    BY <2>4 DEF Embed, Rerank
  <2> QED BY <2>1, <2>2, <2>3, <2>4
<1>3. loader' \in [Loaders -> [at : {"none", "clear", "load", "replace"}, part : Parts, sweep : Parts]]
  BY <1>1, <1>2, LoadsTyped DEF ModelsInv, Parts
<1>4. CASE LoadedItself(c)
  <2>1. List(c) /\ UNCHANGED <<disposed, idleModel>>
    BY <1>4 DEF LoadedItself
  <2> QED BY <1>1, <1>3, <2>1, ListedInv
<1>5. CASE ~LoadedItself(c)
  <2>1. UNCHANGED <<held, disposed, made>>
    BY <1>5 DEF PrepareModel, Find, OwnLoadFails, Embed, Rerank
  <2>2. idleModel' \in {idleModel, ModelOf[c]}
    BY <1>5 DEF PrepareModel, Find, OwnLoadFails, Embed, Rerank, Over
  <2> QED BY <1>1, <1>3, <2>1, <2>2, QuietModelsInv DEF ModelsInv
<1> QED BY <1>4, <1>5

LEMMA IdleUnloadInv == ASSUME ModelsInv, IdleUnload PROVE ModelsInv'
<1>1. idleModel \in SearchModels /\ idleModel' = NoModel /\ made' = made /\ loader' = loader
  BY DEF IdleUnload, ModelsInv
<1>2. held' = [part \in Parts |-> [held[part] EXCEPT ![idleModel] = 0]]
  BY DEF IdleUnload
<1>3. /\ held' \in [Parts -> [SearchModels -> Nat]]
      /\ \A p \in Parts, m \in SearchModels : held'[p][m] \in {0, held[p][m]}
      /\ \A p \in Parts : held'[p][idleModel] = 0
  BY <1>1, <1>2 DEF ModelsInv
<1>4. \A i \in disposed' : i \in disposed \/ \E p \in Parts, m \in SearchModels :
                                  i = held[p][m] /\ held[p][m] # 0 /\ held'[p][m] = 0
  BY <1>1, <1>3 DEF IdleUnload
<1> QED BY <1>1, <1>3, <1>4, TakenOutInv DEF ModelsInv

LEMMA UnlistInv ==
  ASSUME ModelsInv, NEW m \in SearchModels, NEW part \in Parts, Unlist(m, part), UNCHANGED <<made, loader, idleModel>>
  PROVE  ModelsInv'
<1>1. /\ held' \in [Parts -> [SearchModels -> Nat]] /\ held'[part][m] = 0
      /\ \A p \in Parts, n \in SearchModels : held'[p][n] \in {0, held[p][n]}
  BY DEF Unlist, ModelsInv
<1>2. \A i \in disposed' : i \in disposed \/ (i = held[part][m] /\ held[part][m] # 0 /\ held'[part][m] = 0)
  BY <1>1 DEF Unlist
<1> QED BY <1>1, <1>2, TakenOutInv DEF ModelsInv

LEMMA DeletionInv == ASSUME ModelsInv, NEW c \in ModelCalls, Delete(c) \/ DeleteFiles(c) PROVE ModelsInv'
<1> USE ModelAssumption
<1>1. UNCHANGED <<made, loader, idleModel>>
  BY DEF Delete, DeleteFiles
<1>2. UNCHANGED <<held, disposed>> \/ \E part \in Parts : Unlist(ModelOf[c], part)
  BY DEF Delete, DeleteFiles, Parts
<1>3. CASE UNCHANGED <<held, disposed>>
  BY <1>1, <1>3, QuietModelsInv DEF ModelsInv
<1>4. CASE \E part \in Parts : Unlist(ModelOf[c], part)
  BY <1>1, <1>4, UnlistInv
<1> QED BY <1>2, <1>3, <1>4

LEMMA ModelsStep == ModelsInv /\ [ModelNext]_modelVars => ModelsInv'
<1> SUFFICES ASSUME ModelsInv, [ModelNext]_modelVars PROVE ModelsInv'
  OBVIOUS
<1>1. CASE ModelNext
  BY <1>1, SweepInv, LoadStepInv, PreparationInv, RequestInv, DeletionInv, IdleUnloadInv DEF ModelNext
<1>2. CASE UNCHANGED modelVars
  BY <1>2 DEF modelVars, ModelsInv
<1> QED BY <1>1, <1>2

\* A request that finds a model in the caches (semantic-runtime.ts) finds a live one,
\* however loads, sweeps, deletions and the idle timer interleave.
THEOREM ModelsTheorem == ModelInit /\ [][ModelNext]_modelVars => []ListedIsAlive
<1>1. ModelInit => ModelsInv
  BY DEF ModelInit, ModelsInv, Parts
<1>2. ModelsInv => ListedIsAlive
  BY DEF ModelsInv, ListedIsAlive, Listed
<1> QED BY <1>1, <1>2, ModelsStep, PTL

-----------------------------------------------------------------------------
(***************************************************************************)
(* The host's status.  What is said of a host is said by the host of the   *)
(* present port, or was cleared with it; and what the popup will show last *)
(* is the status as it is.                                                 *)
(***************************************************************************)
StatusRecords == [state : {"disconnected", "connecting", "reconnecting", "connected"},
                  checked : BOOLEAN, versions : Nat, of : Nat]
Announcements == [generation : Nat, at : {"starts", "asks", "reads"}, versions : Nat, of : Nat]
HostMessages == [kind : {"answer", "versions"}, to : Nat, versions : Nat]

ConnectionTypes ==
    /\ port \in Nat /\ connections \in Nat /\ generation \in Nat /\ versions \in Nat
    /\ wire \in Seq(HostMessages) /\ announcing \subseteq Announcements
    /\ hostStatus \in StatusRecords

\* Without a port nothing is under way; with one, what was learned is of its host.
OfThisPort ==
    /\ port = 0 => pending = {} /\ wire = <<>> /\ hostStatus.state # "connected"
    /\ port # 0 /\ hostStatus.checked => hostStatus.of \in {0, port}

\* An announcement of the present generation was answered by the present host, or not yet.
AnnouncedHere ==
    \A a \in announcing : /\ a.generation <= generation
                          /\ a.generation = generation /\ port # 0 => a.of \in {0, port}

ProfileKept ==
    /\ stored.id \in Nat /\ profile.id \in Nat /\ idLost \in BOOLEAN
    /\ profile # NoProfile => profile.id # 0
    /\ saving.at = "storing" => profile # NoProfile
    /\ stored.id = 0 => acknowledged = NoLabel
    /\ acknowledged \in {NoLabel, stored.label} \/ idLost

PopupFollows ==
    /\ inbox \in Seq(StatusRecords) /\ (~watching => inbox = <<>>)
    /\ inbox # <<>> => inbox[Len(inbox)] = hostStatus
    /\ PopupIsCurrent
    /\ watching /\ ~askedBeside => asked = NoAnswer

HostInv == ConnectionTypes /\ OfThisPort /\ AnnouncedHere /\ ProfileKept /\ PopupFollows

\* The popup is told what it is not shown yet.
LEMMA BroadcastFollows ==
  ASSUME PopupFollows, NEW status \in StatusRecords, Broadcast(status), QuietPopup
  PROVE  PopupFollows' /\ hostStatus' = status
<1>1. hostStatus' = status /\ UNCHANGED <<watching, asked, askedBeside, popup>>
  BY DEF Broadcast, QuietPopup
<1>2. CASE watching /\ status # hostStatus
  <2>1. inbox' = Append(inbox, status)
    BY <1>2 DEF Broadcast
  <2>2. watching'
    BY <1>1, <1>2
  <2>3. inbox' \in Seq(StatusRecords) /\ inbox'[Len(inbox')] = status /\ inbox' # <<>>
    BY <2>1 DEF PopupFollows
  <2> QED BY <1>1, <2>2, <2>3 DEF PopupFollows, PopupIsCurrent
<1>3. CASE ~(watching /\ status # hostStatus)
  <2>1. inbox' = inbox
    BY <1>3 DEF Broadcast
  <2> QED BY <1>1, <1>3, <2>1 DEF PopupFollows, PopupIsCurrent
<1> QED BY <1>1, <1>2, <1>3

LEMMA PopupRests ==
  ASSUME PopupFollows, UNCHANGED <<hostStatus, popupVars>>
  PROVE  PopupFollows'
BY DEF PopupFollows, PopupIsCurrent, popupVars

LEMMA ProfileRests == ASSUME ProfileKept, UNCHANGED profileVars PROVE ProfileKept'
BY DEF ProfileKept, profileVars, NoProfile

LEMMA RejectedFacts ==
  ASSUME ConnectionTypes, announcing' = Rejected
  PROVE  /\ announcing' \subseteq Announcements
         /\ \A b \in announcing' : \E a \in announcing : b.generation = a.generation /\ b.of = a.of
<1>1. ASSUME NEW b \in announcing'
      PROVE  b \in Announcements /\ \E a \in announcing : b.generation = a.generation /\ b.of = a.of
  <2>1. PICK a \in announcing : b = IF a.generation \in pending THEN [a EXCEPT !.at = "reads"] ELSE a
    BY DEF Rejected
  <2>2. a \in Announcements
    BY DEF ConnectionTypes
  <2> QED BY <2>1, <2>2 DEF Announcements
<1> QED BY <1>1

\* A new port, with a generation of its own.
LEMMA ConnectInv == ASSUME HostInv, Connect \/ ReconnectHost PROVE HostInv'
<1> DEFINE status == [state |-> "connecting", checked |-> FALSE, versions |-> 0, of |-> 0]
<1>1. PICK later \in {2, 3} :
         /\ generation' = generation + later
         /\ announcing' = announcing \cup {Announcement(generation + later)}
  BY DEF Connect, ReconnectHost
<1>2. /\ port' = connections + 1 /\ connections' = connections + 1 /\ wire' = <<>> /\ versions' = versions
      /\ Broadcast(status) /\ QuietPopup /\ UNCHANGED profileVars
  BY DEF Connect, ReconnectHost
<1>3. status \in StatusRecords
  BY DEF StatusRecords
<1>4. PopupFollows' /\ hostStatus' = status
  BY <1>2, <1>3, BroadcastFollows DEF HostInv
<1>5. Announcement(generation + later) \in Announcements
  BY <1>1 DEF HostInv, ConnectionTypes, Announcement, Announcements
<1>6. ConnectionTypes'
  <2>1. wire' \in Seq(HostMessages)
    BY <1>2
  <2> QED BY <1>1, <1>2, <1>3, <1>4, <1>5, <2>1 DEF HostInv, ConnectionTypes
<1>7. OfThisPort'
  BY <1>2, <1>4 DEF HostInv, ConnectionTypes, OfThisPort
<1>8. AnnouncedHere'
  <2>1. ASSUME NEW a \in announcing'
        PROVE  a.generation <= generation' /\ (a.generation = generation' => a.of = 0)
    <3>1. CASE a \in announcing
      <4>1. a.generation <= generation /\ a.generation \in Nat /\ generation \in Nat
        BY <3>1 DEF HostInv, AnnouncedHere, ConnectionTypes, Announcements
      <4> QED BY <1>1, <4>1
    <3>2. CASE a = Announcement(generation + later)
      BY <1>1, <3>2 DEF Announcement, HostInv, ConnectionTypes
    <3> QED BY <1>1, <3>1, <3>2
  <2> QED BY <2>1 DEF AnnouncedHere
<1> QED BY <1>2, <1>4, <1>6, <1>7, <1>8, ProfileRests DEF HostInv

LEMMA NoPortInv ==
  ASSUME HostInv, ConnectFails \/ Disconnected \/ HeartbeatFails
  PROVE  HostInv'
<1> DEFINE status == [hostStatus EXCEPT !.state = "reconnecting"]
<1>1. /\ port' = 0 /\ Broadcast(status) /\ QuietPopup /\ UNCHANGED <<connections, versions, profileVars>>
      /\ generation' \in {generation, generation + 1}
      /\ announcing' \in {announcing, Rejected}
      /\ \/ pending' = {} /\ wire' = <<>>
         \/ port = 0 /\ UNCHANGED <<pending, wire>>
  BY DEF ConnectFails, Disconnected, HeartbeatFails
<1>2. status \in StatusRecords /\ status.state # "connected"
  BY DEF HostInv, ConnectionTypes, StatusRecords
<1>3. PopupFollows' /\ hostStatus' = status
  BY <1>1, <1>2, BroadcastFollows DEF HostInv
<1>4. pending' = {} /\ wire' = <<>>
  BY <1>1 DEF HostInv, OfThisPort
<1>5. /\ announcing' \subseteq Announcements
      /\ \A b \in announcing' : \E a \in announcing : b.generation = a.generation /\ b.of = a.of
  <2>1. CASE announcing' = announcing
    BY <2>1 DEF HostInv, ConnectionTypes
  <2>2. CASE announcing' = Rejected
    BY <2>2, RejectedFacts DEF HostInv
  <2> QED BY <1>1, <2>1, <2>2
<1>6. ConnectionTypes'
  <2>1. wire' \in Seq(HostMessages)
    BY <1>4
  <2> QED BY <1>1, <1>2, <1>3, <1>5, <2>1 DEF HostInv, ConnectionTypes
<1>7. OfThisPort'
  BY <1>1, <1>2, <1>3, <1>4 DEF OfThisPort
<1>8. AnnouncedHere'
  <2>1. ASSUME NEW b \in announcing' PROVE b.generation <= generation'
    <3>1. PICK a \in announcing : b.generation = a.generation
      BY <1>5
    <3>2. a.generation <= generation /\ a.generation \in Nat /\ generation \in Nat
      BY DEF HostInv, AnnouncedHere, ConnectionTypes, Announcements
    <3> QED BY <1>1, <3>1, <3>2
  <2> QED BY <1>1, <2>1 DEF AnnouncedHere
<1> QED BY <1>1, <1>3, <1>6, <1>7, <1>8, ProfileRests DEF HostInv

\* Steps that the status and the popup do not notice, over one port.
LEMMA UnnoticedInv ==
  ASSUME HostInv, UNCHANGED <<port, connections, hostStatus, profileVars, popupVars>>,
         generation' \in Nat, versions' \in Nat, wire' \in Seq(HostMessages), announcing' \subseteq Announcements,
         port = 0 => pending' = {} /\ wire' = <<>>,
         AnnouncedHere'
  PROVE  HostInv'
<1>1. ConnectionTypes' /\ OfThisPort'
  BY DEF HostInv, ConnectionTypes, OfThisPort
<1> QED BY <1>1, ProfileRests, PopupRests DEF HostInv

LEMMA AskInv ==
  ASSUME HostInv, Heartbeat \/ VersionsChange
  PROVE  HostInv'
<1>1. UNCHANGED <<port, connections, hostStatus, profileVars, popupVars, generation, announcing>>
  BY DEF Heartbeat, VersionsChange
<1>2. /\ versions' \in Nat /\ wire' \in Seq(HostMessages) /\ (port = 0 => pending' = {} /\ wire' = <<>>)
  <2>1. CASE Heartbeat
    <3>1. [kind |-> "answer", to |-> 0, versions |-> 0] \in HostMessages
      BY DEF HostMessages
    <3> QED BY <2>1, <3>1 DEF Heartbeat, HostInv, ConnectionTypes
  <2>2. CASE VersionsChange
    <3>1. [kind |-> "versions", to |-> 0, versions |-> versions + 1] \in HostMessages
      BY DEF HostMessages, HostInv, ConnectionTypes
    <3> QED BY <2>2, <3>1 DEF VersionsChange, HostInv, ConnectionTypes, OfThisPort
  <2> QED BY <2>1, <2>2
<1>3. AnnouncedHere'
  BY <1>1 DEF HostInv, AnnouncedHere
<1> QED BY <1>1, <1>2, <1>3, UnnoticedInv DEF HostInv, ConnectionTypes

LEMMA HelloInv ==
  ASSUME HostInv, NEW a \in announcing, Hello(a) \/ HelloTimesOut(a)
  PROVE  HostInv'
<1>1. /\ UNCHANGED <<port, connections, hostStatus, profileVars, popupVars, generation, versions>>
      /\ \E at \in {"asks", "reads"} : announcing' = (announcing \ {a}) \cup {[a EXCEPT !.at = at]}
  BY DEF Hello, HelloTimesOut, Becomes
<1>2. a \in Announcements /\ announcing \subseteq Announcements
  BY DEF HostInv, ConnectionTypes
<1>3. /\ announcing' \subseteq Announcements
      /\ \A b \in announcing' : b \in announcing \/ (b.generation = a.generation /\ b.of = a.of)
  BY <1>1, <1>2 DEF Announcements
<1>4. AnnouncedHere'
  BY <1>1, <1>3 DEF HostInv, AnnouncedHere
<1>5. wire' \in Seq(HostMessages) /\ (port = 0 => pending' = {} /\ wire' = <<>>)
  <2>1. [kind |-> "answer", to |-> a.generation, versions |-> versions] \in HostMessages
    BY <1>2 DEF HostInv, ConnectionTypes, Announcements, HostMessages
  <2>2. CASE Hello(a)
    BY <2>1, <2>2 DEF Hello, HostInv, ConnectionTypes, OfThisPort
  <2>3. CASE HelloTimesOut(a)
    BY <2>3 DEF HelloTimesOut, HostInv, ConnectionTypes, OfThisPort
  <2> QED BY <2>2, <2>3
<1> QED BY <1>1, <1>3, <1>4, <1>5, UnnoticedInv DEF HostInv, ConnectionTypes

LEMMA MessageInv == ASSUME HostInv, Message PROVE HostInv'
<1> DEFINE m == Head(wire)
<1>1. m \in HostMessages /\ wire' \in Seq(HostMessages) /\ port # 0
  <2>1. wire \in Seq(HostMessages) /\ wire # <<>> /\ wire' = Tail(wire)
    BY Zenon DEF Message, HostInv, ConnectionTypes
  <2>2. m \in HostMessages /\ wire' \in Seq(HostMessages)
    BY <2>1, HeadTailProperties
  <2> QED BY <2>1, <2>2 DEF HostInv, OfThisPort
<1>2. UNCHANGED <<port, connections, generation, token, versions, profileVars, statusSteps>> /\ QuietPopup
  BY Zenon DEF Message
<1>3. port \in Nat /\ hostStatus \in StatusRecords /\ m.versions \in Nat
  BY <1>1 DEF HostInv, ConnectionTypes, HostMessages
<1>4. ProfileKept'
  BY <1>2, ProfileRests DEF HostInv
<1>5. CASE m.kind = "answer" /\ m.to \in pending
  <2> DEFINE status == [hostStatus EXCEPT !.state = "connected"]
  <2>1. /\ Broadcast(status)
        /\ announcing' = {IF a.generation = m.to THEN [a EXCEPT !.at = "reads", !.versions = m.versions, !.of = port]
                                                 ELSE a : a \in announcing}
    BY <1>5, Zenon DEF Message
  <2>2. status \in StatusRecords /\ status.checked = hostStatus.checked /\ status.of = hostStatus.of
    BY <1>3 DEF StatusRecords
  <2>3. PopupFollows' /\ hostStatus' = status
    BY <1>2, <2>1, <2>2, BroadcastFollows, Zenon DEF HostInv
  <2>4. ASSUME NEW b \in announcing'
        PROVE  b \in Announcements /\ \E a \in announcing : b.generation = a.generation /\ b.of \in {a.of, port}
    <3>1. PICK a \in announcing :
             b = IF a.generation = m.to THEN [a EXCEPT !.at = "reads", !.versions = m.versions, !.of = port] ELSE a
      BY <2>1, Zenon
    <3>2. a \in Announcements
      BY DEF HostInv, ConnectionTypes
    <3> QED BY <1>3, <3>1, <3>2 DEF Announcements
  <2>5. ConnectionTypes'
    BY <1>1, <1>2, <2>2, <2>3, <2>4 DEF HostInv, ConnectionTypes
  <2>6. OfThisPort'
    BY <1>1, <1>2, <2>2, <2>3 DEF HostInv, OfThisPort
  <2>7. AnnouncedHere'
    BY <1>1, <1>2, <2>4 DEF HostInv, AnnouncedHere
  <2> QED BY <1>4, <2>3, <2>5, <2>6, <2>7 DEF HostInv
<1>6. CASE m.kind = "answer" /\ m.to \notin pending
  <2>1. UNCHANGED <<pending, hostStatus, inbox, announcing>>
    BY <1>6, Zenon DEF Message
  <2>2. PopupFollows'
    BY <1>2, <2>1, PopupRests DEF QuietPopup, popupVars, HostInv
  <2> QED BY <1>1, <1>2, <1>4, <2>1, <2>2 DEF HostInv, ConnectionTypes, OfThisPort, AnnouncedHere
<1>7. CASE m.kind = "versions"
  <2> DEFINE status == [hostStatus EXCEPT !.checked = TRUE, !.versions = m.versions, !.of = port]
  <2>1. Broadcast(status) /\ UNCHANGED <<pending, announcing>>
    BY <1>7, Zenon DEF Message, ApplyVersions
  <2>2. status \in StatusRecords /\ status.of = port
    BY <1>3 DEF StatusRecords
  <2>3. PopupFollows' /\ hostStatus' = status
    BY <1>2, <2>1, <2>2, BroadcastFollows DEF HostInv
  <2> QED BY <1>1, <1>2, <1>4, <2>1, <2>2, <2>3 DEF HostInv, ConnectionTypes, OfThisPort, AnnouncedHere
<1> QED BY <1>5, <1>6, <1>7, Zenon DEF Message

LEMMA AnnouncedInv == ASSUME HostInv, NEW a \in announcing, Announced(a) PROVE HostInv'
<1>1. /\ announcing' = announcing \ {a} /\ QuietPopup
      /\ UNCHANGED <<port, connections, pending, wire, generation, versions, profileVars>>
  BY DEF Announced
<1>2. a \in Announcements /\ hostStatus \in StatusRecords
  BY DEF HostInv, ConnectionTypes
<1>3. ProfileKept' /\ AnnouncedHere'
  BY <1>1, ProfileRests DEF HostInv, AnnouncedHere
<1>4. CASE StillAnnouncing(a)
  <2> DEFINE status == [hostStatus EXCEPT !.checked = TRUE, !.versions = a.versions, !.of = a.of]
  <2>1. Broadcast(status)
    BY <1>4 DEF Announced, ApplyVersions
  <2>2. status \in StatusRecords /\ status.of = a.of /\ status.state = hostStatus.state
    BY <1>2 DEF StatusRecords, Announcements
  <2>3. PopupFollows' /\ hostStatus' = status
    BY <1>1, <2>1, <2>2, BroadcastFollows DEF HostInv
  <2>4. port # 0 /\ a.of \in {0, port}
    BY <1>4 DEF StillAnnouncing, HostInv, OfThisPort, AnnouncedHere
  <2> QED BY <1>1, <1>3, <2>2, <2>3, <2>4 DEF HostInv, ConnectionTypes, OfThisPort
<1>5. CASE ~StillAnnouncing(a)
  <2>1. UNCHANGED <<hostStatus, inbox>>
    BY <1>5 DEF Announced
  <2>2. PopupFollows'
    BY <1>1, <2>1, PopupRests DEF QuietPopup, popupVars, HostInv
  <2> QED BY <1>1, <1>3, <2>1, <2>2 DEF HostInv, ConnectionTypes, OfThisPort
<1> QED BY <1>4, <1>5

\* The connection is not concerned.
LEMMA ConnectionRests ==
  ASSUME HostInv, UNCHANGED <<connectionVars, hostStatus>>
  PROVE  ConnectionTypes' /\ OfThisPort' /\ AnnouncedHere'
BY DEF HostInv, connectionVars, ConnectionTypes, OfThisPort, AnnouncedHere

LEMMA FirstReadInv == ASSUME HostInv, FirstRead PROVE HostInv'
<1>1. UNCHANGED <<connectionVars, hostStatus, saving, acknowledged, popupVars>>
  BY DEF FirstRead
<1>2. PICK read \in BOOLEAN, written \in BOOLEAN :
         /\ profile' = IF read /\ stored.id # 0 THEN stored ELSE [NoProfile EXCEPT !.id = stored.id + 1]
         /\ stored' = IF written THEN profile' ELSE stored
         /\ idLost' = (idLost \/ ~ (read /\ written))
  BY DEF FirstRead
<1>3. profile = NoProfile /\ stored.id \in Nat
  BY DEF FirstRead, HostInv, ProfileKept
<1>4. profile'.id \in Nat /\ profile'.id # 0 /\ profile' # NoProfile
  BY <1>2, <1>3 DEF NoProfile
<1>5. stored'.id \in Nat /\ (stored'.id = 0 => acknowledged' = NoLabel)
  BY <1>1, <1>2, <1>4 DEF HostInv, ProfileKept
<1>6. acknowledged' \in {NoLabel, stored'.label} \/ idLost'
  <2>1. CASE idLost' = TRUE
    BY <2>1
  <2>2. CASE idLost' # TRUE
    <3>1. read /\ written /\ ~idLost
      BY <1>2, <2>2
    <3>2. CASE stored.id # 0
      BY <1>1, <1>2, <3>1, <3>2 DEF HostInv, ProfileKept
    <3>3. CASE stored.id = 0
      BY <1>1, <3>3 DEF HostInv, ProfileKept
    <3> QED BY <3>2, <3>3
  <2> QED BY <2>1, <2>2
<1>7. idLost' \in BOOLEAN
  BY <1>2
<1>8. ProfileKept'
  BY <1>1, <1>4, <1>5, <1>6, <1>7 DEF ProfileKept
<1> QED BY <1>1, <1>8, ConnectionRests, PopupRests DEF HostInv

LEMMA LabelInv ==
  ASSUME HostInv, NEW label, SetProfileLabel(label) \/ KeepLabel
  PROVE  HostInv'
<1>1. UNCHANGED <<connectionVars, hostStatus, stored, acknowledged, idLost, popupVars>>
  BY DEF SetProfileLabel, KeepLabel
<1>2. /\ profile'.id = profile.id /\ (profile # NoProfile => profile' # NoProfile)
      /\ saving'.at = "storing" => profile # NoProfile
      /\ profile' # NoProfile => profile # NoProfile
  <2>1. CASE SetProfileLabel(label)
    BY <2>1 DEF SetProfileLabel, NoProfile
  <2>2. CASE KeepLabel
    <3>1. /\ profile' = [profile EXCEPT !.label = saving.label] /\ profile # NoProfile /\ profile.id # 0
      BY <2>2 DEF KeepLabel, HostInv, ProfileKept
    <3>2. profile'.id = profile.id
      BY <3>1
    <3> QED BY <3>1, <3>2 DEF NoProfile
  <2> QED BY <2>1, <2>2
<1>3. ProfileKept'
  BY <1>1, <1>2 DEF HostInv, ProfileKept
<1> QED BY <1>1, <1>3, ConnectionRests, PopupRests DEF HostInv

LEMMA StoreLabelInv == ASSUME HostInv, NEW ok \in BOOLEAN, StoreLabel(ok) PROVE HostInv'
<1>1. /\ UNCHANGED <<port, connections, pending, wire, token, versions, hostStatus, profile, idLost, popupVars>>
      /\ saving' = NotSaving /\ profile # NoProfile /\ profile.id # 0
  BY DEF StoreLabel, HostInv, ProfileKept
<1>2. ProfileKept'
  <2>1. saving'.at # "storing"
    BY <1>1 DEF NotSaving
  <2>2. CASE ok
    BY <1>1, <2>1, <2>2 DEF StoreLabel, HostInv, ProfileKept
  <2>3. CASE ~ok
    BY <1>1, <2>1, <2>3 DEF StoreLabel, HostInv, ProfileKept
  <2> QED BY <2>2, <2>3
<1>3. generation' \in Nat /\ announcing' \subseteq Announcements /\ AnnouncedHere'
  <2>1. CASE ~ok
    BY <1>1, <2>1 DEF StoreLabel, HostInv, ConnectionTypes, AnnouncedHere
  <2>2. CASE ok
    <3>1. generation' = generation + 1 /\ announcing' = announcing \cup {Announcement(generation + 1)} /\ generation \in Nat
      BY <2>2 DEF StoreLabel, HostInv, ConnectionTypes
    <3>2. Announcement(generation + 1) \in Announcements
      BY <3>1 DEF Announcement, Announcements
    <3>3. ASSUME NEW a \in announcing'
          PROVE  a.generation <= generation' /\ (a.generation = generation' => a.of = 0)
      <4>1. CASE a \in announcing
        <5>1. a.generation <= generation /\ a.generation \in Nat
          BY <4>1 DEF HostInv, AnnouncedHere, ConnectionTypes, Announcements
        <5> QED BY <3>1, <5>1
      <4>2. CASE a = Announcement(generation + 1)
        BY <3>1, <4>2 DEF Announcement
      <4> QED BY <3>1, <4>1, <4>2
    <3> QED BY <3>1, <3>2, <3>3 DEF HostInv, ConnectionTypes, AnnouncedHere
  <2> QED BY <2>1, <2>2
<1>4. ConnectionTypes' /\ OfThisPort'
  BY <1>1, <1>3 DEF HostInv, ConnectionTypes, OfThisPort
<1> QED BY <1>1, <1>2, <1>3, <1>4, PopupRests DEF HostInv

LEMMA RestartInv == ASSUME HostInv, Restart PROVE HostInv'
<1>1. /\ port' = 0 /\ pending' = {} /\ wire' = <<>> /\ hostStatus' = Unread /\ generation' = 0
      /\ announcing' = {} /\ profile' = NoProfile /\ saving' = NotSaving
      /\ watching' = FALSE /\ inbox' = <<>>
      /\ UNCHANGED <<connections, versions, stored, acknowledged, idLost, askedBeside, popup>>
  BY DEF Restart
<1>2. ConnectionTypes' /\ OfThisPort' /\ AnnouncedHere'
  BY <1>1 DEF HostInv, ConnectionTypes, OfThisPort, AnnouncedHere, Unread, StatusRecords
<1>3. ProfileKept'
  BY <1>1 DEF HostInv, ProfileKept, NoProfile, NotSaving
<1>4. PopupFollows'
  BY <1>1 DEF PopupFollows, PopupIsCurrent
<1> QED BY <1>2, <1>3, <1>4 DEF HostInv

LEMMA PopupInv ==
  ASSUME HostInv, OpenPopup \/ Shown \/ FallbackAsks \/ AnswerStatus \/ StatusAnswered \/ ClosePopup
  PROVE  HostInv'
<1>1. UNCHANGED <<connectionVars, hostStatus, profileVars>>
  BY DEF OpenPopup, Shown, FallbackAsks, AnswerStatus, StatusAnswered, ClosePopup
<1>2. inbox \in Seq(StatusRecords) /\ hostStatus \in StatusRecords /\ hostStatus' = hostStatus /\ NotSent # NoAnswer
  BY <1>1 DEF HostInv, PopupFollows, ConnectionTypes, NotSent, NoAnswer
<1>3. PopupFollows'
  <2>1. CASE OpenPopup
    <3>1. inbox' \in Seq(StatusRecords) /\ inbox' # <<>> /\ inbox'[Len(inbox')] = hostStatus
      BY <1>2, <2>1 DEF OpenPopup
    <3>2. asked' = NoAnswer /\ watching' = TRUE
      BY <2>1 DEF OpenPopup
    <3> QED BY <1>2, <3>1, <3>2 DEF PopupFollows, PopupIsCurrent
  <2>2. CASE Shown
    <3>1. inbox # <<>> /\ inbox' = Tail(inbox) /\ popup' = Head(inbox) /\ inbox[Len(inbox)] = hostStatus
          /\ UNCHANGED <<watching, asked, askedBeside>>
      BY <2>2 DEF Shown, HostInv, PopupFollows
    <3>2. inbox' \in Seq(StatusRecords) /\ (inbox' # <<>> => inbox'[Len(inbox')] = hostStatus)
      BY <1>2, <3>1
    <3>3. inbox' = <<>> => popup' = hostStatus
      <4> SUFFICES ASSUME inbox' = <<>> PROVE Len(inbox) = 1
        BY <1>2, <3>1
      <4>1. Len(Tail(inbox)) = Len(inbox) - 1 /\ Len(inbox) \in Nat
        BY <1>2, <3>1, HeadTailProperties
      <4> QED BY <3>1, <4>1
    <3> QED BY <1>2, <3>1, <3>2, <3>3 DEF HostInv, PopupFollows, PopupIsCurrent
  <2>3. CASE FallbackAsks
    BY <1>2, <2>3 DEF FallbackAsks, HostInv, PopupFollows, PopupIsCurrent
  <2>4. CASE AnswerStatus
    BY <1>2, <2>4 DEF AnswerStatus, HostInv, PopupFollows, PopupIsCurrent
  <2>5. CASE StatusAnswered
    BY <1>2, <2>5 DEF StatusAnswered, HostInv, PopupFollows, PopupIsCurrent
  <2>6. CASE ClosePopup
    BY <1>2, <2>6 DEF ClosePopup, HostInv, PopupFollows, PopupIsCurrent
  <2> QED BY <2>1, <2>2, <2>3, <2>4, <2>5, <2>6
<1> QED BY <1>1, <1>3, ConnectionRests, ProfileRests DEF HostInv

LEMMA HostStep == HostInv /\ [HostStatusNext]_hostStatusVars => HostInv'
<1> SUFFICES ASSUME HostInv, [HostStatusNext]_hostStatusVars PROVE HostInv'
  OBVIOUS
<1>1. CASE HostStatusNext
  BY <1>1, ConnectInv, NoPortInv, AskInv, HelloInv, MessageInv, AnnouncedInv, FirstReadInv, LabelInv, StoreLabelInv,
     RestartInv, PopupInv DEF HostStatusNext
<1>2. CASE UNCHANGED hostStatusVars
  <2>1. UNCHANGED <<connectionVars, hostStatus>> /\ UNCHANGED profileVars /\ UNCHANGED popupVars
    BY <1>2 DEF hostStatusVars, connectionVars, profileVars, popupVars
  <2> QED BY <2>1, ConnectionRests, ProfileRests, PopupRests DEF HostInv
<1> QED BY <1>1, <1>2

\* The status that the extension keeps and shows (native-rpc.ts, runtime-profile.ts,
\* runtime-popup.ts) is that of the host it is connected to, its label the last one saved,
\* however connections, announcements, restarts and popups interleave.
THEOREM HostTheorem == HostStatusInit /\ [][HostStatusNext]_hostStatusVars => []HostStatusSound
<1>1. HostStatusInit => HostInv
  <2> SUFFICES ASSUME HostStatusInit PROVE HostInv
    OBVIOUS
  <2>1. ConnectionTypes /\ OfThisPort /\ AnnouncedHere
    BY DEF HostStatusInit, ConnectionTypes, OfThisPort, AnnouncedHere, Unread, StatusRecords
  <2>2. ProfileKept
    BY DEF HostStatusInit, ProfileKept, NoProfile, NotSaving
  <2>3. PopupFollows
    BY DEF HostStatusInit, PopupFollows, PopupIsCurrent
  <2> QED BY <2>1, <2>2, <2>3 DEF HostInv
<1>2. HostInv => HostStatusSound
  BY DEF HostInv, OfThisPort, ProfileKept, PopupFollows, HostStatusSound, VersionsOfThisHost, SavedLabelStays
<1> QED BY <1>1, <1>2, HostStep, PTL

-----------------------------------------------------------------------------
(***************************************************************************)
(* The marketplace.  Whoever is past the lock holds it, as long as no      *)
(* refresh was superseded; and a plugin is installed from a snapshot that  *)
(* is as new as its source.                                                *)
(***************************************************************************)
RefreshSteps == {"idle", "owner", "unlink", "open", "checked", "retry", "unlock", "done", "dead"} \cup CodexCommands
Inside == {"checked", "retry", "unlock"} \cup CodexCommands

MarketTypes ==
    /\ market \in [source : {"none", "ours", "custom"}, snapshot : {"none", "stale", "fresh"},
                   installed : {"none", "old", "new"}, offers : {"old", "new"}]
    /\ refresher \in [Refreshers -> [at : RefreshSteps, force : BOOLEAN,
                                     health : {"none", "custom_source", "missing_source", "installed", "outdated"}]]
    /\ superseded \in BOOLEAN

PluginIsOffered ==
    /\ \A r \in Refreshers : refresher[r].at = "plugin" /\ market.source = "ours" => market.snapshot = "fresh"
    /\ \A r \in Refreshers : refresher[r].at = "checked" => market.installed = market.offers
    /\ marker = "checked" => market.installed = "new" /\ market.offers = "new"

NotCustom == \A r \in Refreshers : refresher[r].at \notin {"idle", "done"} => market.source # "custom"

HoldsTheLock == \A r \in Refreshers : refresher[r].at \in Inside => marketLock = r
SourceMissing == \A r \in Refreshers : refresher[r].at \in {"add", "remove"} => market.source = "none"

MarketInv ==
    /\ MarketTypes /\ PluginIsOffered /\ NotCustom
    /\ ~superseded => HoldsTheLock /\ SourceMissing

LEMMA RefresherMoves ==
  ASSUME MarketTypes, NEW r \in Refreshers, NEW at \in RefreshSteps, RefresherTo(r, at)
  PROVE  /\ refresher'[r].at = at /\ refresher'[r].health = refresher[r].health
         /\ \A s \in Refreshers \ {r} : refresher'[s] = refresher[s]
         /\ refresher' \in [Refreshers -> [at : RefreshSteps, force : BOOLEAN,
                            health : {"none", "custom_source", "missing_source", "installed", "outdated"}]]
BY DEF MarketTypes, RefresherTo

\* A step beside Codex: what it has, and what is marked, stay.
LEMMA BesideCodex ==
  ASSUME MarketInv, NEW r \in Refreshers, NEW at \in RefreshSteps \ {"plugin", "checked", "add"}, RefresherTo(r, at),
         UNCHANGED <<market, marker>>, superseded' \in BOOLEAN, superseded => superseded',
         at \notin {"idle", "done"} => market.source # "custom",
         ~superseded' => HoldsTheLock',
         ~superseded' /\ at = "remove" => market.source = "none"
  PROVE  MarketInv'
<1>1. /\ refresher'[r].at = at /\ \A s \in Refreshers \ {r} : refresher'[s] = refresher[s]
      /\ MarketTypes'
  BY RefresherMoves DEF MarketInv, MarketTypes
<1>2. PluginIsOffered'
  BY <1>1 DEF MarketInv, PluginIsOffered
<1>3. NotCustom'
  BY <1>1 DEF MarketInv, NotCustom
<1>4. ~superseded' => SourceMissing'
  BY <1>1 DEF MarketInv, SourceMissing, MarketTypes
<1> QED BY <1>1, <1>2, <1>3, <1>4 DEF MarketInv

LEMMA InspectMarketInv == ASSUME MarketInv, NEW r \in Refreshers, InspectMarket(r) PROVE MarketInv'
<1> DEFINE at == IF \/ health = "custom_source"
                    \/ ~ refresher[r].force /\ marker = "checked" /\ health = "installed"
                    \/ ~ refresher[r].force /\ marker = "retry"
                 THEN "done" ELSE "owner"
<1>1. health \in {"custom_source", "missing_source", "installed", "outdated"}
  BY DEF health
<1>2. /\ refresher'[r].at = at /\ \A s \in Refreshers \ {r} : refresher'[s] = refresher[s]
      /\ MarketTypes'
  BY <1>1 DEF MarketInv, MarketTypes, InspectMarket, RefreshSteps
<1>3. at = "owner" => market.source # "custom"
  BY DEF health
<1>4. at \in {"done", "owner"} /\ UNCHANGED <<market, marker, marketLock, superseded>>
  BY DEF InspectMarket
<1> HIDE DEF at
<1>5. PluginIsOffered'
  BY <1>2, <1>4 DEF MarketInv, PluginIsOffered
<1>6. NotCustom'
  BY <1>2, <1>3, <1>4 DEF MarketInv, NotCustom
<1>7. ~superseded' => HoldsTheLock' /\ SourceMissing'
  BY <1>2, <1>4 DEF MarketInv, HoldsTheLock, SourceMissing, Inside, CodexCommands
<1> QED BY <1>2, <1>5, <1>6, <1>7 DEF MarketInv

LEMMA OwnerInv == ASSUME MarketInv, NEW r \in Refreshers, ReadOwner(r) \/ UnlinkDead(r) PROVE MarketInv'
<1> USE MarketAssumption
<1>1. CASE ReadOwner(r)
  <2> DEFINE at == IF LockOfDead THEN "unlink" ELSE "open"
  <2>1. at \in {"unlink", "open"} /\ at \in RefreshSteps \ {"plugin", "checked", "add"} /\ RefresherTo(r, at)
    BY <1>1 DEF ReadOwner, RefreshSteps, CodexCommands
  <2> HIDE DEF at
  <2>2. UNCHANGED <<market, marker, marketLock, superseded>> /\ market.source # "custom"
    BY <1>1 DEF ReadOwner, MarketInv, NotCustom
  <2>3. ~superseded => HoldsTheLock'
    BY <2>1, <2>2, RefresherMoves DEF MarketInv, HoldsTheLock, Inside, CodexCommands
  <2> QED BY <2>1, <2>2, <2>3, BesideCodex DEF MarketInv, MarketTypes
<1>2. CASE UnlinkDead(r)
  <2>1. /\ RefresherTo(r, "open") /\ "open" \in RefreshSteps \ {"plugin", "checked", "add"}
        /\ UNCHANGED <<market, marker>> /\ marketLock' = "none" /\ market.source # "custom"
        /\ superseded' = (superseded \/ (marketLock # "none" /\ ~ LockOfDead))
    BY <1>2 DEF UnlinkDead, RefreshSteps, CodexCommands, MarketInv, NotCustom
  <2>2. superseded' \in BOOLEAN /\ (superseded => superseded')
    BY <2>1
  <2>3. ASSUME ~superseded', NEW s \in Refreshers, refresher'[s].at \in Inside PROVE FALSE
    <3>1. s # r /\ refresher'[s] = refresher[s]
      BY <2>1, <2>3, RefresherMoves DEF MarketInv, Inside, CodexCommands
    <3>2. marketLock = s
      BY <2>1, <2>3, <3>1 DEF MarketInv, HoldsTheLock
    <3>3. LockOfDead
      BY <2>1, <2>3, <3>2
    <3>4. refresher[s].at = "dead"
      BY <3>2, <3>3 DEF LockOfDead
    <3> QED BY <2>3, <3>1, <3>4 DEF Inside, CodexCommands
  <2>4. ~superseded' => HoldsTheLock'
    BY <2>3 DEF HoldsTheLock
  <2> QED BY <2>1, <2>2, <2>4, BesideCodex
<1> QED BY <1>1, <1>2

LEMMA OpenLockInv == ASSUME MarketInv, NEW r \in Refreshers, OpenLock(r) PROVE MarketInv'
<1> USE MarketAssumption
<1>1. market.source # "custom"
  BY DEF OpenLock, MarketInv, NotCustom
<1>2. CASE marketLock # "none"
  <2>1. /\ RefresherTo(r, "done") /\ "done" \in RefreshSteps \ {"plugin", "checked", "add"}
        /\ UNCHANGED <<market, marker, marketLock, superseded>>
    BY <1>2 DEF OpenLock, RefreshSteps, CodexCommands
  <2>2. ~superseded => HoldsTheLock'
    BY <2>1, RefresherMoves DEF MarketInv, HoldsTheLock, Inside, CodexCommands
  <2> QED BY <2>1, <2>2, BesideCodex DEF MarketInv, MarketTypes
<1>3. CASE marketLock = "none"
  <2> DEFINE at == IF refresher[r].health = "missing_source" THEN "add" ELSE "upgrade"
  <2>1. /\ at \in {"add", "upgrade"} /\ at \in RefreshSteps /\ RefresherTo(r, at)
        /\ UNCHANGED <<market, marker>> /\ marketLock' = r
        /\ superseded' = (superseded \/ refresher[r].health # health)
    BY <1>3 DEF OpenLock, RefreshSteps, CodexCommands
  <2>2. /\ refresher'[r].at = at /\ \A s \in Refreshers \ {r} : refresher'[s] = refresher[s]
        /\ MarketTypes'
    BY <2>1, RefresherMoves DEF MarketInv, MarketTypes
  <2>3. ~superseded' /\ at = "add" => market.source = "none"
    BY <2>1 DEF health
  <2> HIDE DEF at
  <2>4. PluginIsOffered' /\ NotCustom'
    BY <1>1, <2>1, <2>2 DEF MarketInv, PluginIsOffered, NotCustom
  <2>5. ASSUME ~superseded' PROVE HoldsTheLock' /\ SourceMissing'
    <3>1. ~superseded
      BY <2>1, <2>5
    <3>2. \A s \in Refreshers : refresher[s].at \notin Inside
      BY <1>3, <3>1 DEF MarketInv, HoldsTheLock
    <3> QED BY <2>1, <2>2, <2>3, <2>5, <3>2 DEF HoldsTheLock, SourceMissing, Inside, CodexCommands
  <2> QED BY <2>2, <2>4, <2>5 DEF MarketInv
<1> QED BY <1>2, <1>3

\* What a command of Codex leaves, of a source that it knows.
LEMMA CodexFacts ==
  ASSUME MarketInv, NEW at \in CodexCommands, ~Refuses(at), market.source # "custom",
         at = "plugin" => market.snapshot = "fresh", market' = CodexEffect(at)
  PROVE  /\ market' \in [source : {"none", "ours", "custom"}, snapshot : {"none", "stale", "fresh"},
                         installed : {"none", "old", "new"}, offers : {"old", "new"}]
         /\ market'.source # "custom" /\ market'.offers = market.offers
         /\ at = "plugin" => market'.installed = market.offers
         /\ at # "plugin" => market'.installed = market.installed
         /\ at \notin {"add", "again", "remove"} => market'.source = market.source
         /\ at = "remove" => market'.source = "none"
         /\ at \in {"add", "again", "upgrade"} => market'.snapshot = "fresh"
         /\ market'.source = "ours" /\ market.source = "ours" /\ market.snapshot = "fresh" => market'.snapshot = "fresh"
         /\ market'.source = "ours" /\ market.source # "ours" => market'.snapshot = "fresh"
BY DEF MarketInv, MarketTypes, CodexEffect, CodexCommands

LEMMA RunCodexInv == ASSUME MarketInv, NEW r \in Refreshers, Run(r) PROVE MarketInv'
<1> USE MarketAssumption
<1> DEFINE at == refresher[r].at
<1>1. /\ at \in CodexCommands /\ ~Refuses(at) /\ market' = CodexEffect(at) /\ RefresherTo(r, After(at))
      /\ UNCHANGED <<marker, marketLock, superseded>>
  BY DEF Run
<1>2. market.source # "custom"
  BY <1>1 DEF MarketInv, NotCustom, CodexCommands
<1>3. at = "plugin" => market.snapshot = "fresh"
  BY <1>1, <1>2 DEF MarketInv, MarketTypes, PluginIsOffered, Refuses
<1>4. After(at) \in RefreshSteps /\ After(at) \in Inside
  BY <1>1 DEF After, RefreshSteps, Inside, CodexCommands
<1>5. /\ refresher'[r].at = After(at) /\ \A s \in Refreshers \ {r} : refresher'[s] = refresher[s]
      /\ refresher' \in [Refreshers -> [at : RefreshSteps, force : BOOLEAN,
                         health : {"none", "custom_source", "missing_source", "installed", "outdated"}]]
  BY <1>1, <1>4, RefresherMoves DEF MarketInv
<1>6. After(at) = "plugin" => at = "upgrade"
  BY <1>1 DEF After, CodexCommands
<1>7. After(at) = "checked" => at = "plugin"
  BY <1>1 DEF After, CodexCommands
<1>8. After(at) \notin {"add", "remove"}
  BY <1>1 DEF After, CodexCommands
<1> HIDE DEF at
<1>9. /\ market'.source # "custom" /\ market'.offers = market.offers
      /\ at = "plugin" => market'.installed = market.offers
      /\ at # "plugin" => market'.installed = market.installed
      /\ at \in {"add", "again", "upgrade"} => market'.snapshot = "fresh"
      /\ market'.source = "ours" /\ market.source = "ours" /\ market.snapshot = "fresh" => market'.snapshot = "fresh"
      /\ market'.source = "ours" /\ market.source # "ours" => market'.snapshot = "fresh"
      /\ at \notin {"add", "again", "remove"} => market'.source = market.source
      /\ at = "remove" => market'.source = "none"
  BY <1>1, <1>2, <1>3, CodexFacts
<1>10. MarketTypes'
  BY <1>1, <1>2, <1>3, <1>5, CodexFacts DEF MarketInv, MarketTypes
<1>11. PluginIsOffered'
  <2>1. ASSUME NEW s \in Refreshers, refresher'[s].at = "plugin", market'.source = "ours" PROVE market'.snapshot = "fresh"
    BY <1>5, <1>6, <1>9, <2>1 DEF MarketInv, PluginIsOffered
  <2>2. ASSUME NEW s \in Refreshers, refresher'[s].at = "checked" PROVE market'.installed = market'.offers
    BY <1>5, <1>7, <1>9, <2>2 DEF MarketInv, PluginIsOffered
  <2>3. ASSUME marker' = "checked" PROVE market'.installed = "new" /\ market'.offers = "new"
    BY <1>1, <1>9, <2>3 DEF MarketInv, PluginIsOffered
  <2> QED BY <2>1, <2>2, <2>3 DEF PluginIsOffered
<1>12. NotCustom'
  BY <1>9 DEF NotCustom
<1>13. ASSUME ~superseded' PROVE HoldsTheLock' /\ SourceMissing'
  <2>1. marketLock = r /\ refresher[r].at = at
    BY <1>1, <1>13 DEF MarketInv, HoldsTheLock, Inside, at
  <2>2. \A s \in Refreshers \ {r} : refresher[s].at \notin Inside
    BY <1>1, <1>13, <2>1 DEF MarketInv, HoldsTheLock
  <2> QED BY <1>1, <1>5, <1>8, <2>1, <2>2 DEF HoldsTheLock, SourceMissing, Inside, CodexCommands
<1> QED BY <1>10, <1>11, <1>12, <1>13 DEF MarketInv

LEMMA AfterCodexInv ==
  ASSUME MarketInv, NEW r \in Refreshers, RunFails(r) \/ Mark(r) \/ Unlock(r) \/ RefresherKilled(r)
  PROVE  MarketInv'
<1> USE MarketAssumption
<1>1. CASE RunFails(r)
  <2> DEFINE at == IF refresher[r].at = "add" THEN "remove" ELSE "retry"
  <2>1. /\ at \in {"remove", "retry"} /\ at \in RefreshSteps \ {"plugin", "checked", "add"} /\ RefresherTo(r, at)
        /\ refresher[r].at \in CodexCommands /\ at \in Inside
        /\ at = "remove" => refresher[r].at = "add"
        /\ UNCHANGED <<market, marker, marketLock, superseded>>
    BY <1>1 DEF RunFails, RefreshSteps, Inside, CodexCommands
  <2> HIDE DEF at
  <2>2. market.source # "custom"
    BY <2>1 DEF MarketInv, NotCustom, CodexCommands
  <2>3. ~superseded => HoldsTheLock'
    BY <2>1, RefresherMoves DEF MarketInv, HoldsTheLock, Inside
  <2>4. ~superseded /\ at = "remove" => market.source = "none"
    BY <2>1 DEF MarketInv, SourceMissing
  <2> QED BY <2>1, <2>2, <2>3, <2>4, BesideCodex DEF MarketInv, MarketTypes
<1>2. CASE Mark(r)
  <2>1. /\ RefresherTo(r, "unlock") /\ "unlock" \in RefreshSteps /\ refresher[r].at \in {"checked", "retry"}
        /\ marker' = IF refresher[r].at = "checked" /\ market.installed = "new" THEN "checked" ELSE "retry"
        /\ UNCHANGED <<market, marketLock, superseded>>
    BY <1>2 DEF Mark, RefreshSteps
  <2>2. /\ refresher'[r].at = "unlock" /\ \A s \in Refreshers \ {r} : refresher'[s] = refresher[s]
        /\ MarketTypes'
    BY <2>1, RefresherMoves DEF MarketInv, MarketTypes
  <2>3. PluginIsOffered' /\ NotCustom'
    BY <2>1, <2>2 DEF MarketInv, PluginIsOffered, NotCustom
  <2>4. ~superseded' => HoldsTheLock' /\ SourceMissing'
    BY <2>1, <2>2 DEF MarketInv, HoldsTheLock, SourceMissing, Inside
  <2> QED BY <2>2, <2>3, <2>4 DEF MarketInv
<1>3. CASE Unlock(r)
  <2>1. /\ RefresherTo(r, "done") /\ "done" \in RefreshSteps \ {"plugin", "checked", "add"}
        /\ refresher[r].at \in Inside /\ UNCHANGED <<market, marker, superseded>>
    BY <1>3 DEF Unlock, RefreshSteps, Inside, CodexCommands
  <2>2. \A s \in Refreshers : s # r /\ ~superseded => refresher[s].at \notin Inside
    BY <2>1 DEF MarketInv, HoldsTheLock
  <2>3. ~superseded => HoldsTheLock'
    BY <2>1, <2>2, RefresherMoves DEF MarketInv, HoldsTheLock, Inside, CodexCommands
  <2> QED BY <2>1, <2>3, BesideCodex DEF MarketInv, MarketTypes
<1>4. CASE RefresherKilled(r)
  <2>1. /\ RefresherTo(r, "dead") /\ "dead" \in RefreshSteps \ {"plugin", "checked", "add"}
        /\ UNCHANGED <<market, marker, marketLock, superseded>> /\ refresher[r].at \notin {"idle", "done"}
    BY <1>4 DEF RefresherKilled, RefreshSteps, CodexCommands
  <2>2. market.source # "custom"
    BY <2>1 DEF MarketInv, NotCustom
  <2>3. ~superseded => HoldsTheLock'
    BY <2>1, RefresherMoves DEF MarketInv, HoldsTheLock, Inside, CodexCommands
  <2> QED BY <2>1, <2>2, <2>3, BesideCodex DEF MarketInv, MarketTypes
<1> QED BY <1>1, <1>2, <1>3, <1>4

LEMMA MarketStep == MarketInv /\ [MarketNext]_marketVars => MarketInv'
<1> SUFFICES ASSUME MarketInv, [MarketNext]_marketVars PROVE MarketInv'
  OBVIOUS
<1>1. CASE MarketNext
  BY <1>1, InspectMarketInv, OwnerInv, OpenLockInv, RunCodexInv, AfterCodexInv DEF MarketNext
<1>2. CASE UNCHANGED marketVars
  BY <1>2 DEF marketVars, MarketInv, MarketTypes, PluginIsOffered, NotCustom, HoldsTheLock, SourceMissing
<1> QED BY <1>1, <1>2

\* Whatever refreshes overlap, fail or are killed (marketplace.ts): the marker does not
\* claim a plugin that is not installed, a user's own source is left alone, and one that is
\* configured is removed only after a refresh was superseded.
THEOREM MarketTheorem == MarketInit /\ [][MarketNext]_marketVars => []MarketSound
<1>1. MarketInit => MarketInv
  <2> SUFFICES ASSUME MarketInit PROVE MarketInv
    OBVIOUS
  <2>1. MarketTypes
    <3>1. PICK f \in [Refreshers -> BOOLEAN] :
             refresher = [r \in Refreshers |-> [at |-> "idle", health |-> "none", force |-> f[r]]]
      BY DEF MarketInit
    <3>2. \A r \in Refreshers : [at |-> "idle", health |-> "none", force |-> f[r]] \in
             [at : RefreshSteps, force : BOOLEAN,
              health : {"none", "custom_source", "missing_source", "installed", "outdated"}]
      BY DEF RefreshSteps
    <3>3. superseded \in BOOLEAN /\ market \in [source : {"none", "ours", "custom"}, snapshot : {"none", "stale", "fresh"},
                   installed : {"none", "old", "new"}, offers : {"old", "new"}]
      BY DEF MarketInit
    <3> QED BY <3>1, <3>2, <3>3 DEF MarketTypes
  <2>2. \A r \in Refreshers : refresher[r].at = "idle"
    BY DEF MarketInit
  <2> QED BY <2>1, <2>2 DEF MarketInit, MarketInv, PluginIsOffered, NotCustom, HoldsTheLock, SourceMissing, Inside, CodexCommands
<1>2. MarketInv => MarketSound
  BY DEF MarketInv, MarketTypes, PluginIsOffered, NotCustom, SourceMissing, MarketSound, CheckedIsInstalled,
         CustomUntouched, SourceKept, CodexCommands
<1> QED BY <1>1, <1>2, MarketStep, PTL

-----------------------------------------------------------------------------
\* What is recorded or shown of something is so.  semantic-runtime.ts: the models in
\* the caches are not disposed of.  native-rpc.ts, runtime-profile.ts, popup/App.tsx: the
\* versions, label and status that are shown are those of this host and the last saved
\* ones.  marketplace.ts: a plugin that is recorded as checked is the one that is
\* installed, and only a refresh that was superseded removes a source that is configured.
RecordsAreSo == ListedIsAlive /\ HostStatusSound /\ MarketSound

\* The models of a worker, the status of a host and the marketplace of the plugin, each by
\* itself and for any requests, labels and refreshers, are as they are recorded.
THEOREM RecordsTheorem ==
  /\ ModelInit /\ [][ModelNext]_modelVars
  /\ HostStatusInit /\ [][HostStatusNext]_hostStatusVars
  /\ MarketInit /\ [][MarketNext]_marketVars
  => []RecordsAreSo
<1>1. ListedIsAlive /\ HostStatusSound /\ MarketSound => RecordsAreSo
  BY DEF RecordsAreSo
<1> QED BY <1>1, ModelsTheorem, HostTheorem, MarketTheorem, PTL

=============================================================================
