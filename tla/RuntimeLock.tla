----------------------------- MODULE RuntimeLock -----------------------------
(***************************************************************************)
(* withRuntimeLock of src/src/control/state.ts: a lock file opened with    *)
(* the exclusive flag "wx", holding the pid of its creator, taken over     *)
(* when that pid is gone.  One variable of the file system, `file', and    *)
(* the program counter of every calling process.  Every step is one system *)
(* call of the loop, because other processes run between any two of them.  *)
(***************************************************************************)
EXTENDS Naturals, TLAPS

CONSTANTS
    Procs,      \* the processes that call withRuntimeLock on one lock name
    Mortal,     \* those of them that may terminate, by a crash or an exit
    MaxTries,   \* bound: polls before the deadline (5000 ms / 50 ms in the code)
    NoFile      \* the lock file does not exist

ASSUME ConstantsAssumption ==
    /\ Mortal \subseteq Procs
    /\ MaxTries \in Nat
    /\ NoFile \notin [by : Procs, written : BOOLEAN]

VARIABLES
    file,       \* NoFile, or who created it and whether the pid is in it yet
    pc,         \* where each process is in withRuntimeLock
    seen,       \* the pid a process last read from the file
    tries       \* polls of the current call

vars == <<file, pc, seen, tries>>

Labels == {"idle",      \* not in withRuntimeLock
           "open",      \* about to openSync(file, "wx")
           "created",   \* opened, about to write its pid
           "inside",    \* running action()
           "read",      \* got EEXIST, about to read the file
           "check",     \* has a pid, about to probe whether it is alive
           "steal",     \* found the pid dead, about to unlink the file
           "failed",    \* withRuntimeLock threw
           "ended"}     \* the process is gone

File == [by : Procs, written : BOOLEAN] \cup {NoFile}

TypeOK ==
    /\ file \in File
    /\ pc \in [Procs -> Labels]
    /\ seen \in [Procs -> Procs]
    /\ tries \in [Procs -> 0..MaxTries]

Init ==
    /\ file = NoFile
    /\ pc = [p \in Procs |-> "idle"]
    /\ seen = [p \in Procs |-> p]
    /\ tries = [p \in Procs |-> 0]

Goto(p, from, to) == pc[p] = from /\ pc' = [pc EXCEPT ![p] = to]

Ended(p) == pc[p] = "ended"

\* A call, or the retry the error message of a failed call asks for.
Call(p) ==
    /\ pc[p] \in {"idle", "failed"}
    /\ pc' = [pc EXCEPT ![p] = "open"]
    /\ tries' = [tries EXCEPT ![p] = 0]
    /\ UNCHANGED <<file, seen>>

\* Mutation: the file is opened with the flag "w".
Create_NotExclusive(p) ==
    /\ Goto(p, "open", "created")
    /\ file' = [by |-> p, written |-> FALSE]
    /\ UNCHANGED <<seen, tries>>

\* openSync(file, "wx") succeeds: the file exists, still empty.
Create(p) ==
    /\ file = NoFile
    /\ Goto(p, "open", "created")
    /\ file' = [by |-> p, written |-> FALSE]
    /\ UNCHANGED <<seen, tries>>

\* The pid goes to the descriptor: to nobody's notice if the name was unlinked.
WritePid(p) ==
    /\ Goto(p, "created", "inside")
    /\ file' = IF file = [by |-> p, written |-> FALSE]
               THEN [file EXCEPT !.written = TRUE]
               ELSE file
    /\ UNCHANGED <<seen, tries>>

\* openSync fails with EEXIST.
Exists(p) ==
    /\ file # NoFile
    /\ Goto(p, "open", "read")
    /\ UNCHANGED <<file, seen, tries>>

\* Mutation: the deadline is computed anew at each poll.
PollAgain_NoDeadline(p) ==
    /\ pc' = [pc EXCEPT ![p] = "open"]
    /\ UNCHANGED tries

\* Mutation: polls are counted and never compared with the deadline.
PollAgain_Forever(p) ==
    /\ pc' = [pc EXCEPT ![p] = "open"]
    /\ tries' = [tries EXCEPT ![p] = @ + 1]

\* The tail of the catch block: throw past the deadline, else sleep and loop.
PollAgain(p) ==
    \/ /\ tries[p] = MaxTries
       /\ pc' = [pc EXCEPT ![p] = "failed"]
       /\ UNCHANGED tries
    \/ /\ tries[p] < MaxTries
       /\ pc' = [pc EXCEPT ![p] = "open"]
       /\ tries' = [tries EXCEPT ![p] = @ + 1]

HasPid == file # NoFile /\ file.written

\* readFileSync and JSON.parse: a missing or still empty file throws.
Read(p) ==
    /\ pc[p] = "read"
    /\ \/ /\ HasPid
          /\ pc' = [pc EXCEPT ![p] = "check"]
          /\ seen' = [seen EXCEPT ![p] = file.by]
          /\ UNCHANGED tries
       \/ /\ ~HasPid
          /\ PollAgain(p)
          /\ UNCHANGED seen
    /\ UNCHANGED file

\* Mutation: a dead pid is not recognised.
Check_NeverStale(p) ==
    /\ pc[p] = "check"
    /\ PollAgain(p)
    /\ UNCHANGED <<file, seen>>

\* Mutation: any pid is taken for dead.
Check_AssumeStale(p) ==
    /\ Goto(p, "check", "steal")
    /\ UNCHANGED <<file, seen, tries>>

\* process.kill(pid, 0) on the pid that was read.
Check(p) ==
    /\ pc[p] = "check"
    /\ \/ Ended(seen[p]) /\ pc' = [pc EXCEPT ![p] = "steal"] /\ UNCHANGED tries
       \/ ~Ended(seen[p]) /\ PollAgain(p)
    /\ UNCHANGED <<file, seen>>

\* unlinkSync(file) and continue; ENOENT lands in the same catch block.
Steal(p) ==
    /\ pc[p] = "steal"
    /\ \/ /\ file # NoFile
          /\ pc' = [pc EXCEPT ![p] = "open"]
          /\ UNCHANGED tries
       \/ file = NoFile /\ PollAgain(p)
    /\ file' = NoFile
    /\ UNCHANGED seen

\* action() settled; the finally block unlinks whatever bears the name, and
\* throws ENOENT when nothing does.
Release(p) ==
    /\ pc[p] = "inside"
    /\ pc' = [pc EXCEPT ![p] = IF file = NoFile THEN "failed" ELSE "idle"]
    /\ file' = NoFile
    /\ UNCHANGED <<seen, tries>>

\* The process crashes or exits; the file, if it has one, stays.
End(p) ==
    /\ p \in Mortal /\ ~Ended(p)
    /\ pc' = [pc EXCEPT ![p] = "ended"]
    /\ UNCHANGED <<file, seen, tries>>

Step(p) == \/ Create(p) \/ WritePid(p) \/ Exists(p) \/ Read(p)
           \/ Check(p) \/ Steal(p) \/ Release(p)

Next == \E p \in Procs : Call(p) \/ Step(p) \/ End(p)

Spec == Init /\ [][Next]_vars

-----------------------------------------------------------------------------
(***************************************************************************)
(* A process that is in the loop, or in its action, is scheduled and the   *)
(* actions terminate: runProcess bounds every download with a timeout.     *)
(***************************************************************************)
FairSpec == Spec /\ \A p \in Procs : WF_vars(Step(p))

\* A caller that was refused does as the message says and calls again.
RetrySpec == FairSpec /\ \A p \in Procs : WF_vars(Call(p))

-----------------------------------------------------------------------------
Inside == {p \in Procs : pc[p] = "inside"}

\* Two processes never run their actions at once.  "The same short lock
\* protects startup leases and pointer changes" (state.ts:41) needs this.
MutualExclusion == \A p, q \in Inside : p = q

\* Exclusion holds as long as no process that uses the lock has terminated:
\* before that, nobody finds a stale pid and nobody unlinks a file not its own.
AllLive == \A p \in Procs : ~Ended(p)
ExclusionWhileAllLive == AllLive => MutualExclusion

\* Before any process ends, a caller can be refused entry but is never told that
\* it failed after its action ran: only the deadline fails a call.
NoLostRelease ==
    [][\A p \in Procs :
         /\ AllLive
         /\ pc[p] = "inside" /\ pc'[p] # "inside"
         => pc'[p] \in {"idle", "ended"}]_vars

\* Every call ends: it enters and leaves, is refused at the deadline, or its
\* process dies.  Taking over stale files does not let a caller loop for ever.
CallsReturn ==
    \A p \in Procs : pc[p] = "open" ~> pc[p] \in {"idle", "failed", "ended"}

Abandoned(p) == Ended(p) /\ file = [by |-> p, written |-> TRUE]

\* A lock file with the pid of a process that is gone does not outlive the call
\* of a process that keeps running: the caller takes it over.
StaleLockRecovered ==
    \A p, q \in Procs :
      p # q /\ q \notin Mortal => (pc[q] = "open" /\ Abandoned(p) ~> ~Abandoned(p))

\* "Runtime update is busy; retry shortly" (state.ts:55): once every other
\* process is gone, a caller that keeps retrying gets in.
RetryGetsIn ==
    \A p \in Procs \ Mortal :
      (pc[p] = "open" /\ \A q \in Procs \ {p} : Ended(q)) ~> pc[p] = "inside"

-----------------------------------------------------------------------------
(***************************************************************************)
(* What withRuntimeLock guarantees for any number of processes: mutual     *)
(* exclusion until the first of them terminates.  RuntimeLockExclusion.cfg *)
(* shows why the condition is needed.                                      *)
(***************************************************************************)

\* The processes whose calls created the file now at the path.
Holds(p) == pc[p] \in {"created", "inside"}

\* While nobody has terminated, the file at the path is there exactly as long as
\* its creator needs it, and nobody is about to unlink it for stale.
LockInv ==
    AllLive => /\ \A p \in Procs : Holds(p) <=> file # NoFile /\ file.by = p
               /\ \A p \in Procs : pc[p] # "steal"

LEMMA RecordFacts ==
  ASSUME NEW p \in Procs, NEW w \in BOOLEAN
  PROVE  /\ [by |-> p, written |-> w] \in File
         /\ [by |-> p, written |-> w] # NoFile
         /\ [by |-> p, written |-> w].by = p
BY ConstantsAssumption DEF File

\* Every state of the lock protocol is well formed.
THEOREM TypeCorrect == Spec => []TypeOK
<1> USE ConstantsAssumption DEF TypeOK, File, Labels
<1>1. Init => TypeOK
  BY DEF Init
<1>2. TypeOK /\ [Next]_vars => TypeOK'
  <2> SUFFICES ASSUME TypeOK, [Next]_vars
               PROVE  TypeOK'
    OBVIOUS
  <2> USE DEF Goto
  <2>1. ASSUME NEW p \in Procs, Call(p) PROVE TypeOK'
    BY <2>1 DEF Call
  <2>2. ASSUME NEW p \in Procs, Create(p) PROVE TypeOK'
    BY <2>2 DEF Create
  <2>3. ASSUME NEW p \in Procs, WritePid(p) PROVE TypeOK'
    <3>1. file' \in File
      <4>1. CASE file = [by |-> p, written |-> FALSE]
        <5>1. file' = [by |-> p, written |-> TRUE]
          BY <2>3, <4>1 DEF WritePid
        <5>2. QED
          BY <5>1, RecordFacts
      <4>2. CASE file # [by |-> p, written |-> FALSE]
        BY <2>3, <4>2 DEF WritePid
      <4>3. QED
        BY <4>1, <4>2
    <3>2. QED
      BY <2>3, <3>1 DEF WritePid
  <2>4. ASSUME NEW p \in Procs, Exists(p) PROVE TypeOK'
    BY <2>4 DEF Exists
  <2>5. ASSUME NEW p \in Procs, Read(p) PROVE TypeOK'
    BY <2>5 DEF Read, HasPid, PollAgain
  <2>6. ASSUME NEW p \in Procs, Check(p) PROVE TypeOK'
    BY <2>6 DEF Check, PollAgain
  <2>7. ASSUME NEW p \in Procs, Steal(p) PROVE TypeOK'
    BY <2>7 DEF Steal, PollAgain
  <2>8. ASSUME NEW p \in Procs, Release(p) PROVE TypeOK'
    BY <2>8 DEF Release
  <2>9. ASSUME NEW p \in Procs, End(p) PROVE TypeOK'
    BY <2>9 DEF End
  <2>10. CASE UNCHANGED vars
    BY <2>10 DEF vars
  <2>11. QED
    BY <2>1, <2>2, <2>3, <2>4, <2>5, <2>6, <2>7, <2>8, <2>9, <2>10 DEF Next, Step
<1>3. QED
  BY <1>1, <1>2, PTL DEF Spec

LEMMA LockInvStep == TypeOK /\ LockInv /\ [Next]_vars => LockInv'
<1> SUFFICES ASSUME TypeOK, LockInv, [Next]_vars, AllLive'
             PROVE  /\ \A p \in Procs : Holds(p)' <=> file' # NoFile /\ file'.by = p
                    /\ \A p \in Procs : pc'[p] # "steal"
  BY DEF LockInv
<1> USE ConstantsAssumption DEF TypeOK, File, Labels, Holds, Goto
<1>a. AllLive
  BY DEF AllLive, Ended, Next, Step, Call, Create, WritePid, Exists, Read,
         Check, Steal, Release, End, PollAgain, vars
<1>b. /\ \A p \in Procs : Holds(p) <=> file # NoFile /\ file.by = p
      /\ \A p \in Procs : pc[p] # "steal"
  BY <1>a DEF LockInv
<1>1. ASSUME NEW p \in Procs, Call(p) PROVE LockInv'
  BY <1>1, <1>b DEF Call, LockInv
<1>2. ASSUME NEW p \in Procs, Create(p) PROVE LockInv'
  BY <1>2, <1>b, RecordFacts DEF Create, LockInv
<1>3. ASSUME NEW p \in Procs, WritePid(p) PROVE LockInv'
  <2>1. file # NoFile /\ file.by = p
    BY <1>3, <1>b DEF WritePid
  <2>2. file' # NoFile /\ file'.by = p
    <3>1. CASE file = [by |-> p, written |-> FALSE]
      <4>1. file' = [by |-> p, written |-> TRUE]
        BY <1>3, <3>1 DEF WritePid
      <4>2. QED
        BY <4>1, RecordFacts
    <3>2. CASE file # [by |-> p, written |-> FALSE]
      BY <1>3, <3>2, <2>1 DEF WritePid
    <3>3. QED
      BY <3>1, <3>2
  <2>3. QED
    BY <1>3, <1>b, <2>1, <2>2 DEF WritePid, LockInv
<1>4. ASSUME NEW p \in Procs, Exists(p) PROVE LockInv'
  BY <1>4, <1>b DEF Exists, LockInv
<1>5. ASSUME NEW p \in Procs, Read(p) PROVE LockInv'
  BY <1>5, <1>b DEF Read, PollAgain, LockInv
<1>6. ASSUME NEW p \in Procs, Check(p) PROVE LockInv'
  BY <1>6, <1>a, <1>b DEF Check, PollAgain, LockInv, AllLive
<1>7. ASSUME NEW p \in Procs, Release(p) PROVE LockInv'
  BY <1>7, <1>b DEF Release, LockInv
<1>8. ASSUME NEW p \in Procs, Steal(p) \/ End(p) PROVE FALSE
  BY <1>8, <1>b DEF Steal, End, AllLive, Ended
<1>9. CASE UNCHANGED vars
  BY <1>9, <1>b DEF vars
<1>10. QED
  BY <1>1, <1>2, <1>3, <1>4, <1>5, <1>6, <1>7, <1>8, <1>9 DEF Next, Step, LockInv

LEMMA LockInvariant == Spec => [](TypeOK /\ LockInv)
<1>1. Init => LockInv
  BY DEF Init, LockInv, Holds
<1>2. QED
  BY <1>1, TypeCorrect, LockInvStep, PTL DEF Spec

\* Before any process terminates, at most one action runs (state.ts:59).
THEOREM ExclusionTheorem == Spec => []ExclusionWhileAllLive
<1>1. TypeOK /\ LockInv => ExclusionWhileAllLive
  BY DEF LockInv, ExclusionWhileAllLive, MutualExclusion, Inside, Holds, AllLive
<1>2. QED
  BY <1>1, LockInvariant, PTL

\* Before any process terminates, a release finds the file of its own process, so
\* that no caller is told of a failure after its action ran (state.ts:60).
THEOREM NoLostReleaseTheorem == Spec => NoLostRelease
<1> DEFINE Kept == \A p \in Procs : /\ AllLive
                                    /\ pc[p] = "inside" /\ pc'[p] # "inside"
                                    => pc'[p] \in {"idle", "ended"}
<1>1. TypeOK /\ LockInv /\ [Next]_vars => [Kept]_vars
  <2> SUFFICES ASSUME TypeOK, LockInv, Next, NEW p \in Procs,
                      AllLive, pc[p] = "inside", pc'[p] # "inside"
               PROVE  pc'[p] \in {"idle", "ended"}
    OBVIOUS
  <2> USE DEF TypeOK
  <2>1. file # NoFile
    BY DEF LockInv, Holds
  <2>2. PICK q \in Procs : Call(q) \/ Step(q) \/ End(q)
    BY DEF Next
  <2>3. p = q
    BY <2>2 DEF Call, Step, End, Create, WritePid, Exists, Read, Check, Steal, Release, PollAgain, Goto
  <2>4. Release(p) \/ End(p)
    BY <2>2, <2>3 DEF Call, Step, Create, WritePid, Exists, Read, Check, Steal, Goto
  <2>5. QED
    BY <2>1, <2>4 DEF Release, End
<1>2. QED
  BY <1>1, LockInvariant, PTL DEF NoLostRelease, Spec
=============================================================================
