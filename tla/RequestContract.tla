--------------------------- MODULE RequestContract ---------------------------
(***************************************************************************)
(* What an agent may rely on when it sends a command to the browser        *)
(* (src/browser/client.ts, request): the command begins at most *)
(* once; its call ends once, with the result of the command or with a      *)
(* failure that leaves open whether it ran or still will.  A worker's end  *)
(* is the one event after which a result may be that of another command.   *)
(***************************************************************************)
CONSTANT Calls
VARIABLES outcome, begun, restarted
vars == <<outcome, begun, restarted>>

Init == outcome = [c \in Calls |-> "none"] /\ begun = {} /\ restarted = FALSE

Begin(c) ==
    /\ c \notin begun
    /\ begun' = begun \cup {c}
    /\ UNCHANGED <<outcome, restarted>>

End(c, o) ==
    /\ outcome[c] = "none"
    /\ outcome' = [outcome EXCEPT ![c] = o]
    /\ UNCHANGED <<begun, restarted>>

Succeeds(c) == c \in begun /\ End(c, "own")
MixedUp(c) == restarted /\ End(c, "foreign")

\* A client that loses its connection fails every call it has pending.
FailTogether ==
    /\ \E lost \in SUBSET {c \in Calls : outcome[c] = "none"} :
         outcome' = [c \in Calls |-> IF c \in lost THEN "failed" ELSE outcome[c]]
    /\ UNCHANGED <<begun, restarted>>

Restart == restarted' = TRUE /\ UNCHANGED <<outcome, begun>>

Next ==
    \/ \E c \in Calls : Begin(c) \/ Succeeds(c) \/ MixedUp(c)
    \/ FailTogether \/ Restart

Spec == Init /\ [][Next]_vars
=============================================================================
