------------------------------ MODULE RunSteps ------------------------------
(***************************************************************************)
(* browser_run: one agent process executes plans of page steps.            *)
(*                                                                         *)
(* A plan that holds a consequential step is only stored until a follow-up *)
(* presents its approval token.  Any other plan is first looked up in the  *)
(* page memory; a remembered recipe is replayed through the ordinary path, *)
(* and if the replay fails the plan is executed a second time from its     *)
(* first step, unless the replay is known or feared to have changed the     *)
(* page.                                                                   *)
(*                                                                         *)
(* Errors are told apart by their wording and by the state a page script   *)
(* reports, so one that passes for "nothing was performed" may come after   *)
(* the page was touched: `misreported' remembers where that happened.       *)
(*                                                                         *)
(* Steps are abstracted to their kind.  A "settled" step is a write whose  *)
(* plan names the condition it must settle in.  How often a read is tried  *)
(* again is left out: it changes nothing.  `applied' counts what reached   *)
(* the page and `misreported' what was touched behind the code's back; the *)
(* code sees neither.                                                      *)
(***************************************************************************)
EXTENDS Naturals, Sequences, FiniteSets

CONSTANTS Plans,      \* the step lists an agent may submit
          MaxRuns     \* how many calls are answered (a bound)

\* validateSteps refuses a call without steps.
ASSUME PlanAssumption == Plans \subseteq Seq({"read", "write", "settled", "risky"}) \ {<<>>}

VARIABLES run,        \* the call under way
          approvals,  \* token -> what it approves, and whether its time is up
          applied,    \* step -> how often its effect reached the page
          recipes,    \* plans the page memory can replay
          runs,       \* calls begun so far
          reply       \* the last answer

runVars == <<run, approvals, applied, recipes, runs, reply>>

Mutating(kind) == kind # "read"
RequiresApproval(plan) == \E i \in DOMAIN plan : plan[i] = "risky"
Automatic(kind) == kind \in {"write", "risky"}

Idle == [phase |-> "idle", plan |-> <<>>, token |-> 0, mode |-> "plain", at |-> 1,
         again |-> FALSE, failed |-> FALSE, unverified |-> FALSE,
         mutated |-> FALSE, doubt |-> FALSE, unsettled |-> {}, misreported |-> {}]
Untouched(plan) == [i \in DOMAIN plan |-> 0]
NoReply == [ok |-> FALSE, plan |-> <<>>, status |-> "none"]
Kept(store) == {a \in store : ~a.expired}

RunInit == /\ run = Idle /\ approvals = {} /\ applied = Untouched(<<>>)
           /\ recipes = {} /\ runs = 0 /\ reply = NoReply

Begin(plan, token) ==
    /\ run' = [Idle EXCEPT !.phase = "prepare", !.plan = plan, !.token = token]
    /\ applied' = Untouched(plan) /\ UNCHANGED <<recipes, reply>>

\* A plan with a consequential step is stored under a fresh token instead.
Submit(plan) ==
    /\ run.phase = "idle" /\ runs < MaxRuns
    /\ runs' = runs + 1
    /\ \/ /\ RequiresApproval(plan)
          /\ approvals' = Kept(approvals) \cup {[token |-> runs', plan |-> plan, expired |-> FALSE]}
          /\ reply' = [ok |-> FALSE, plan |-> plan, status |-> "approval_required"]
          /\ UNCHANGED <<run, applied, recipes>>
       \/ /\ ~RequiresApproval(plan)
          /\ Begin(plan, 0) /\ UNCHANGED approvals

TakeApproval(a) ==
    /\ a \in Kept(approvals)
    /\ approvals' = Kept(approvals) \ {a}

\* The follow-up holds nothing but the token.
FollowUp(token) ==
    /\ run.phase = "idle" /\ runs < MaxRuns
    /\ runs' = runs + 1
    /\ \/ \E a \in approvals : a.token = token /\ TakeApproval(a) /\ Begin(a.plan, token)
       \/ /\ \A a \in Kept(approvals) : a.token # token
          /\ approvals' = Kept(approvals)
          /\ reply' = [ok |-> FALSE, plan |-> <<>>, status |-> "APPROVAL_TOKEN_INVALID"]
          /\ UNCHANGED <<run, applied, recipes>>

ApprovalTimeout ==
    /\ \E a \in Kept(approvals) : approvals' = (approvals \ {a}) \cup {[a EXCEPT !.expired = TRUE]}
    /\ UNCHANGED <<run, applied, recipes, runs, reply>>

Failure == /\ reply' = [ok |-> FALSE, plan |-> run.plan, status |-> "failed"]
           /\ run' = Idle

\* The profile is selected and the tab made sure of; either may fail.
Prepare ==
    /\ run.phase = "prepare"
    /\ \/ Failure
       \/ run' = [run EXCEPT !.phase = "recall"] /\ UNCHANGED reply
    /\ UNCHANGED <<approvals, applied, recipes, runs>>

\* Memory may be off, find no recipe, or have its recipe rejected by a gate.
TryMemoryReplay ==
    /\ run.phase = "recall"
    /\ \/ run' = [run EXCEPT !.phase = "dispatch"]
       \/ /\ run.token = 0 /\ run.plan \in recipes /\ ~RequiresApproval(run.plan)
          /\ run' = [run EXCEPT !.phase = "dispatch", !.mode = "replay"]
    /\ UNCHANGED <<approvals, applied, recipes, runs, reply>>

Kind == run.plan[run.at]
Advance(r) == [r EXCEPT !.at = r.at + 1, !.again = FALSE,
                        !.phase = IF r.at = Len(r.plan) THEN "close" ELSE "dispatch"]

\* The step failed: a replay stops there, a plain run unless the step says to go on.
StepFails(uncertain, goOn) ==
    IF run.mode = "replay"
    THEN [run EXCEPT !.phase = "close", !.failed = TRUE, !.doubt = Mutating(Kind) /\ uncertain]
    ELSE IF goOn THEN Advance([run EXCEPT !.failed = TRUE])
                 ELSE [run EXCEPT !.phase = "close", !.failed = TRUE]

StepSucceeds(verified) ==
    Advance([run EXCEPT !.unverified = @ \/ ~verified, !.mutated = @ \/ Mutating(Kind)])

Reaches == IF Mutating(Kind) THEN [applied EXCEPT ![run.at] = @ + 1] ELSE applied

\* An error that says nothing was performed, and is believed.
SaysUntouched(r, touched) ==
    IF touched THEN [r EXCEPT !.misreported = @ \cup {run.at}] ELSE r

\* One dispatch of the step.  A target reported stale is resolved and
\* dispatched once more.  Any other error fails the step, and counts as
\* uncertain only when its wording or the reported state says so.
Dispatch ==
    /\ run.phase = "dispatch"
    /\ \/ run' = [run EXCEPT !.phase = "settle"] /\ applied' = Reaches
       \/ \E touched \in {FALSE, Mutating(Kind)} :
             /\ applied' = IF touched THEN Reaches ELSE applied
             /\ \/ /\ ~run.again /\ Mutating(Kind)
                   /\ run' = SaysUntouched([run EXCEPT !.again = TRUE], touched)
                \/ \E goOn \in BOOLEAN : run' = SaysUntouched(StepFails(FALSE, goOn), touched)
                \/ \E goOn \in BOOLEAN : run' = StepFails(TRUE, goOn)
    /\ UNCHANGED <<approvals, recipes, runs, reply>>

\* Only a condition the plan names can fail the step; the settling that
\* follows a navigation or a click can at most leave it unverified.
SettleStep ==
    /\ run.phase = "settle"
    /\ \/ run' = StepSucceeds(TRUE)
       \/ Automatic(Kind) /\ run' = StepSucceeds(FALSE)
       \/ /\ Kind = "settled"
          /\ \E goOn \in BOOLEAN :
                run' = [StepFails(FALSE, goOn) EXCEPT !.unsettled = @ \cup {run.at}]
    /\ UNCHANGED <<approvals, applied, recipes, runs, reply>>

Verified == ~run.failed /\ ~run.unverified

\* What is remembered of a chain: only a chain that verified becomes a recipe.
FinalizeChain == recipes' \in {recipes} \cup (IF Verified THEN {recipes \cup {run.plan}} ELSE {})

Answer(ok, status) == /\ reply' = [ok |-> ok, plan |-> run.plan, status |-> status]
                      /\ run' = [run EXCEPT !.phase = "idle"]

MayFallBack_IgnoresDoubt == ~run.mutated
MayFallBack == ~(run.mutated \/ run.doubt)

CloseReplay ==
    /\ run.phase = "close" /\ run.mode = "replay"
    /\ FinalizeChain
    /\ \/ /\ Verified
          /\ \E observed \in BOOLEAN : Answer(observed, IF observed THEN "memory_replay" ELSE "partial")
       \/ ~Verified /\ ~MayFallBack /\ Answer(FALSE, "partial")
       \/ /\ ~Verified /\ MayFallBack
          /\ run' = [run EXCEPT !.phase = "dispatch", !.mode = "plain", !.at = 1, !.again = FALSE,
                                !.failed = FALSE, !.unverified = FALSE, !.doubt = FALSE]
          /\ UNCHANGED reply
    /\ UNCHANGED <<approvals, applied, runs>>

CloseRun ==
    /\ run.phase = "close" /\ run.mode = "plain"
    /\ FinalizeChain
    /\ \E observed \in BOOLEAN :   \* the observation asked for afterwards may fail
          Answer(~run.failed /\ observed, IF run.failed \/ ~observed THEN "partial" ELSE "completed")
    /\ UNCHANGED <<approvals, applied, runs>>

RunNext ==
    \/ \E plan \in Plans : Submit(plan)
    \/ \E token \in 1..MaxRuns : FollowUp(token)
    \/ ApprovalTimeout \/ Prepare \/ TryMemoryReplay
    \/ Dispatch \/ SettleStep \/ CloseReplay \/ CloseRun

RunSpec == RunInit /\ [][RunNext]_runVars

-----------------------------------------------------------------------------
RunTypeOK ==
    /\ run.phase \in {"idle", "prepare", "recall", "dispatch", "settle", "close"}
    /\ run.plan \in Plans \cup {<<>>} /\ run.mode \in {"plain", "replay"} /\ run.at \in 1..Len(run.plan) + 1
    /\ {run.again, run.failed, run.unverified, run.mutated, run.doubt} \subseteq BOOLEAN
    /\ \A a \in approvals : a.token \in 1..MaxRuns /\ a.plan \in Plans /\ a.expired \in BOOLEAN
    /\ applied \in [DOMAIN applied -> Nat] /\ recipes \subseteq Plans /\ runs \in 0..MaxRuns

\* A mutation reaches the page a second time in one call only when its replay
\* completed it and the condition its plan names then timed out, or when an
\* error said it had never been performed.  What the code was in doubt about, or
\* knew it had performed, it does not repeat.
RepeatedOnlyUntold ==
    \A i \in DOMAIN applied : applied[i] > 1 => i \in run.unsettled \cup run.misreported

\* A call that is answered ok applied each of its mutations.
OkMeansApplied ==
    run.phase = "idle" /\ reply.ok =>
        \A i \in DOMAIN reply.plan : Mutating(reply.plan[i]) => applied[i] > 0

\* A consequential step runs only for the one call that took its approval,
\* and never from memory.
ConsequentialOnlyApproved ==
    RequiresApproval(run.plan) => /\ run.token # 0 /\ run.mode = "plain"
                                  /\ \A a \in approvals : a.token # run.token

\* What a caller may rely on after core/runtime.ts and core/runtime-memory.ts
\* have answered: nothing known or feared to be done is repeated, nothing is claimed
\* that did not happen, and an approval is spent on the request it was given for.
RunIsHonest == RepeatedOnlyUntold /\ OkMeansApplied /\ ConsequentialOnlyApproved

\* Not true.  "never replay a failed mutation automatically"
\* (docs/releases/1.10.1.md:7) in its plain form: a replay that was performed but
\* did not settle is repeated by the fallback, and so is what an error misreported.
NeverRepeated == \A i \in DOMAIN applied : applied[i] <= 1
=============================================================================
