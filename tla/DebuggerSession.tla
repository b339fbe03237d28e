-------------------------- MODULE DebuggerSession --------------------------
(***************************************************************************)
(* What an agent process believes of the debugger of a tab.  It remembers  *)
(* that it attached the tab, and the protocol domains it enabled there, to *)
(* spare the requests; the extension may lose the attachment at any time,  *)
(* and every domain with it.  A command that was refused because the       *)
(* debugger is not attached is sent once more after a new attachment.      *)
(*                                                                         *)
(* The set of enabled domains is an object that calls hold across their    *)
(* waits, so each set made has a number.                                   *)
(***************************************************************************)
EXTENDS Integers, Sequences, FiniteSetsExt

CONSTANTS DomainCalls,  \* calls that enable domains and then run a command
          Domains,
          WantedBy,     \* the sequence of domains a call wants
          MaxDetaches

ASSUME DomainAssumption == WantedBy \in [DomainCalls -> Seq(Domains)]

VARIABLES domainCall,     \* each call: its step, the set it holds, the command it is at
          knownAttached,  \* the process remembers an attachment
          cached,         \* the number of the set that is remembered, 0 for none
          sets,           \* the contents of every set made
          enabled,       \* the domains enabled in the present attachment, or NoDebugger
          performed,      \* how often the command of each call was performed
          detaches

domainVars == <<domainCall, knownAttached, cached, sets, enabled, performed, detaches>>

NoDebugger == {"detached"}
Sets == 1 .. Cardinality(DomainCalls)
LastOfCall(c) == Len(WantedBy[c]) + 1

DomainTypeOK ==
  /\ domainCall \in [DomainCalls -> [at: {"idle", "attach", "send", "over", "failed"},
                                     set: {0} \cup Sets, next: Nat, again: BOOLEAN]]
  /\ knownAttached \in BOOLEAN
  /\ cached \in {0} \cup Sets
  /\ sets \in [Sets -> SUBSET Domains]
  /\ enabled \in {NoDebugger} \cup SUBSET Domains
  /\ performed \in [DomainCalls -> Nat]
  /\ detaches \in 0 .. MaxDetaches

DomainInit ==
  /\ domainCall = [c \in DomainCalls |-> [at |-> "idle", set |-> 0, next |-> 1, again |-> FALSE]]
  /\ knownAttached = FALSE /\ cached = 0
  /\ sets = [s \in Sets |-> {}]
  /\ enabled = NoDebugger
  /\ performed = [c \in DomainCalls |-> 0]
  /\ detaches = 0

(***************************************************************************)
(* From command i on, the next one to run: a domain that is in the held    *)
(* set is skipped.  After the domains the held set becomes the remembered  *)
(* one, whatever was remembered meanwhile, and the command itself follows. *)
(***************************************************************************)
NextToRun(c, i, contents) == Min({j \in i .. LastOfCall(c) : j = LastOfCall(c) \/ WantedBy[c][j] \notin contents})
GoOn(c, set, i, contents) ==
  \/ /\ i > LastOfCall(c) /\ domainCall' = [domainCall EXCEPT ![c].at = "over", ![c].set = 0]
     /\ UNCHANGED cached
  \/ /\ i <= LastOfCall(c)
     /\ LET next == NextToRun(c, i, contents)
        IN /\ domainCall' = [domainCall EXCEPT ![c] = [at |-> "attach", set |-> set, next |-> next, again |-> FALSE]]
           /\ cached' = IF next = LastOfCall(c) THEN set ELSE cached

Unused == {s \in Sets : s # cached /\ \A c \in DomainCalls : domainCall[c].set # s}

\* A call begins with the remembered set, or makes a new one.
EnableDomains(c) ==
  /\ domainCall[c].at = "idle"
  /\ LET set == IF cached # 0 THEN cached ELSE Min(Unused)
         contents == IF cached # 0 THEN sets[cached] ELSE {}
     IN GoOn(c, set, 1, contents) /\ sets' = [sets EXCEPT ![set] = contents]
  /\ UNCHANGED <<knownAttached, enabled, performed, detaches>>

\* An attachment is asked for only if none is remembered.
EnsureAttached(c) ==
  /\ domainCall[c].at = "attach"
  /\ domainCall' = [domainCall EXCEPT ![c].at = "send"]
  /\ knownAttached' = TRUE
  /\ enabled' = IF ~ knownAttached /\ enabled = NoDebugger THEN {} ELSE enabled
  /\ UNCHANGED <<cached, sets, performed, detaches>>

\* The command reaches a debugger that is attached.
Perform(c) ==
  LET call == domainCall[c] IN
  /\ call.at = "send" /\ enabled # NoDebugger
  /\ IF call.next = LastOfCall(c)
     THEN /\ GoOn(c, call.set, call.next + 1, {})
          /\ performed' = [performed EXCEPT ![c] = @ + 1]
          /\ UNCHANGED <<sets, enabled>>
     ELSE LET domain == WantedBy[c][call.next]
          IN /\ enabled' = enabled \cup {domain}
             /\ sets' = [sets EXCEPT ![call.set] = @ \cup {domain}]
             /\ GoOn(c, call.set, call.next + 1, sets[call.set] \cup {domain})
             /\ UNCHANGED performed
  /\ UNCHANGED <<knownAttached, detaches>>

\* A command that was refused and not begun is sent again after a new attachment,
\* once.  A domain that cannot be enabled is passed over; the command fails.
GiveUp(c) ==
  IF domainCall[c].next < LastOfCall(c)
  THEN GoOn(c, domainCall[c].set, domainCall[c].next + 1, sets[domainCall[c].set])
  ELSE /\ domainCall' = [domainCall EXCEPT ![c].at = "failed", ![c].set = 0] /\ UNCHANGED cached
Refuse(c) ==
  LET call == domainCall[c] IN
  /\ call.at = "send" /\ enabled = NoDebugger
  /\ IF ~ call.again
     THEN /\ knownAttached' = FALSE /\ cached' = 0
          /\ domainCall' = [domainCall EXCEPT ![c].at = "attach", ![c].again = TRUE]
     ELSE GiveUp(c) /\ UNCHANGED knownAttached
  /\ UNCHANGED <<sets, enabled, performed, detaches>>

\* The debugger is lost with the command under way: nobody can say whether it was
\* performed, and it is not sent again.
LoseAnswer_Resent(c) ==
  LET call == domainCall[c] IN
  /\ call.at = "send" /\ enabled # NoDebugger /\ detaches < MaxDetaches
  /\ detaches' = detaches + 1 /\ enabled' = NoDebugger
  /\ performed' = [performed EXCEPT ![c] = IF call.next = LastOfCall(c) THEN @ + 1 ELSE @]
  /\ IF ~ call.again
     THEN /\ knownAttached' = FALSE /\ cached' = 0
          /\ domainCall' = [domainCall EXCEPT ![c].at = "attach", ![c].again = TRUE]
     ELSE GiveUp(c) /\ UNCHANGED knownAttached
  /\ UNCHANGED sets
LoseAnswer(c) ==
  LET call == domainCall[c] IN
  /\ call.at = "send" /\ enabled # NoDebugger /\ detaches < MaxDetaches
  /\ detaches' = detaches + 1 /\ enabled' = NoDebugger
  /\ performed' = [performed EXCEPT ![c] = IF call.next = LastOfCall(c) THEN @ + 1 ELSE @]
  /\ GiveUp(c)
  /\ UNCHANGED <<knownAttached, sets>>

\* The browser or the user takes the debugger away; nothing tells the process.
LoseDebugger ==
  /\ enabled # NoDebugger /\ detaches < MaxDetaches
  /\ detaches' = detaches + 1 /\ enabled' = NoDebugger
  /\ UNCHANGED <<domainCall, knownAttached, cached, sets, performed>>

\* The turn ends, here or with a finalization: the extension detaches, then the
\* process forgets.
EndTurn ==
  /\ enabled # NoDebugger /\ detaches < MaxDetaches
  /\ detaches' = detaches + 1 /\ enabled' = NoDebugger
  /\ knownAttached' = FALSE /\ cached' = 0
  /\ UNCHANGED <<domainCall, sets, performed>>

DomainNext ==
  \/ \E c \in DomainCalls : \/ EnableDomains(c) \/ EnsureAttached(c) \/ Perform(c)
                            \/ Refuse(c) \/ LoseAnswer(c)
  \/ LoseDebugger \/ EndTurn

DomainSpec == DomainInit /\ [][DomainNext]_domainVars

(***************************************************************************)
(* Properties                                                              *)
(***************************************************************************)

\* However attachments come and go, the command of a call is performed at most once,
\* and a call that is over had it performed.
PerformedOnce ==
  \A c \in DomainCalls : /\ performed[c] <= 1
                         /\ domainCall[c].at = "over" => performed[c] = 1

\* Not true: a set held across a lost attachment is remembered again, with domains
\* that the new attachment does not have, and their events never come.
EnabledIsEnabled ==
  \A d \in Domains : knownAttached /\ enabled # NoDebugger /\ cached # 0 /\ d \in sets[cached]
                       => d \in enabled
=============================================================================
