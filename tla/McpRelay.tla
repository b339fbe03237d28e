------------------------------ MODULE McpRelay ------------------------------
(***************************************************************************)
(* One MCP connection: the supervisor (control/mcp-supervisor.ts) forwards *)
(* the client's calls to a worker process (control/mcp-worker.ts), starts  *)
(* another when it died, and routes the requests a worker makes of the     *)
(* client back to a worker.  Calls are never replayed.                     *)
(*                                                                         *)
(* Identifiers that are translated on the way are the calls and workers    *)
(* themselves.  The connection has been initialised.  Node ends a process  *)
(* on an unhandled rejection: "crashed".                                   *)
(***************************************************************************)
EXTENDS Naturals, FiniteSets, FiniteSetTheorems, TLAPS

CONSTANTS RelayCalls, Workers, NoWorker

VARIABLES worker,          \* the worker calls are sent to
          workers,         \* what has become of each process
          relayCall,       \* the client's calls, and the worker each is on
          serverRequests,  \* workers with a request the client has not answered
          inFlight,        \* what the participant row publishes
          relay,           \* the supervisor process
          strayed,         \* workers whose request another worker got the answer to
          dropped          \* workers whose request was answered before there was any worker

relayVars == <<worker, workers, relayCall, serverRequests, inFlight, relay, strayed, dropped>>

RelayInit ==
    /\ worker = NoWorker /\ workers = [w \in Workers |-> "unused"]
    /\ relayCall = [c \in RelayCalls |-> [pc |-> "new", on |-> NoWorker]]
    /\ serverRequests = {} /\ inFlight = 0 /\ relay = "open" /\ strayed = {} /\ dropped = {}

To(c, pc, w) == relayCall' = [relayCall EXCEPT ![c] = [pc |-> pc, on |-> w]]
Alive(w) == w # NoWorker /\ workers[w] = "alive"
OnWorker(w, pcs) == {c \in RelayCalls : relayCall[c].on = w /\ relayCall[c].pc \in pcs}

\* The call is admitted against the runtime lock, or answered with its error.
EnterParticipant(c) ==
    /\ relay = "open" /\ relayCall[c].pc = "new"
    /\ \/ To(c, "admitted", NoWorker) /\ inFlight' = inFlight + 1
       \/ To(c, "errored", NoWorker) /\ UNCHANGED inFlight
    /\ UNCHANGED <<worker, workers, serverRequests, relay, strayed, dropped>>

\* Nothing remembers that a worker is being started: calls that find none
\* alive start one each.
StartWorker(c) ==
    /\ relay = "open" /\ relayCall[c].pc = "admitted"
    /\ IF Alive(worker) THEN To(c, "pending", worker) /\ UNCHANGED workers
       ELSE \E w \in Workers : /\ workers[w] = "unused"
                               /\ workers' = [workers EXCEPT ![w] = "starting"]
                               /\ To(c, "starting", w)
    /\ UNCHANGED <<worker, serverRequests, inFlight, relay, strayed, dropped>>

Initialized(c) ==
    /\ relay = "open" /\ relayCall[c].pc = "starting"
    /\ workers' = [workers EXCEPT ![relayCall[c].on] = "alive"]
    /\ worker' = relayCall[c].on
    /\ To(c, "pending", relayCall[c].on)
    /\ UNCHANGED <<serverRequests, inFlight, relay, strayed, dropped>>

\* A process that exits, fails to initialise or breaks the framing rejects
\* everything that waits on it.
RejectPending_Uncounted(w) ==
    /\ relayCall' = [c \in RelayCalls |-> IF c \in OnWorker(w, {"starting", "pending"})
                                          THEN [pc |-> "errored", on |-> NoWorker] ELSE relayCall[c]]
    /\ inFlight' = inFlight - Cardinality(OnWorker(w, {"pending"}))
RejectPending(w) ==
    /\ relayCall' = [c \in RelayCalls |-> IF c \in OnWorker(w, {"starting", "pending"})
                                          THEN [pc |-> "errored", on |-> NoWorker] ELSE relayCall[c]]
    /\ inFlight' = inFlight - Cardinality(OnWorker(w, {"starting", "pending"}))

WorkerFails(w) ==
    /\ relay = "open" /\ workers[w] \in {"starting", "alive"}
    /\ workers' = [workers EXCEPT ![w] = "dead"]
    /\ RejectPending(w)
    /\ UNCHANGED <<worker, serverRequests, relay, strayed, dropped>>

Respond(c) ==
    /\ relay = "open" /\ relayCall[c].pc = "pending"
    /\ To(c, "answered", NoWorker) /\ inFlight' = inFlight - 1
    /\ UNCHANGED <<worker, workers, serverRequests, relay, strayed, dropped>>

CallTimeout_CurrentOnly(c) ==
    /\ relay = "open" /\ relayCall[c].pc = "pending" /\ relayCall[c].on = worker
    /\ To(c, "errored", NoWorker) /\ inFlight' = inFlight - 1
    /\ UNCHANGED <<worker, workers, serverRequests, relay, strayed, dropped>>
CallTimeout(c) ==
    /\ relay = "open" /\ relayCall[c].pc = "pending"
    /\ To(c, "errored", NoWorker) /\ inFlight' = inFlight - 1
    /\ UNCHANGED <<worker, workers, serverRequests, relay, strayed, dropped>>

\* A process that lives asks the client, while it starts or whether or not calls still
\* go to it.
Ask(w) ==
    /\ relay = "open" /\ workers[w] \in {"starting", "alive"} /\ w \notin serverRequests
    /\ serverRequests' = serverRequests \cup {w} /\ inFlight' = inFlight + 1
    /\ UNCHANGED <<worker, workers, relayCall, relay, strayed, dropped>>

Leave == inFlight' = inFlight - 1

\* The client answers; the answer goes to the worker of the moment, or nowhere while
\* none has been initialised: the request then stays counted.
ClientAnswers(w) ==
    /\ relay = "open" /\ w \in serverRequests \ dropped
    /\ \/ /\ Alive(worker)
          /\ serverRequests' = serverRequests \ {w} /\ Leave
          /\ strayed' = (IF w = worker THEN strayed ELSE strayed \cup {w})
          /\ UNCHANGED <<relay, dropped>>
       \/ /\ worker # NoWorker /\ ~Alive(worker)
          /\ serverRequests' = serverRequests \ {w} /\ relay' = "crashed"
          /\ UNCHANGED <<inFlight, strayed, dropped>>
       \/ /\ worker = NoWorker
          /\ dropped' = dropped \cup {w}
          /\ UNCHANGED <<serverRequests, inFlight, relay, strayed>>
    /\ UNCHANGED <<worker, workers, relayCall>>

\* Notifications are passed on; one for a dead worker throws.
Notify ==
    /\ relay = "open" /\ worker # NoWorker /\ ~Alive(worker)
    /\ relay' = "crashed"
    /\ UNCHANGED <<worker, workers, relayCall, serverRequests, inFlight, strayed, dropped>>

\* The client goes: the current worker is closed, the row removed.
CloseRelay ==
    /\ relay = "open"
    /\ relay' = "closed"
    /\ workers' = (IF worker = NoWorker THEN workers ELSE [workers EXCEPT ![worker] = "dead"])
    /\ UNCHANGED <<worker, relayCall, serverRequests, inFlight, strayed, dropped>>

RelayNext ==
    \/ \E c \in RelayCalls : EnterParticipant(c) \/ StartWorker(c) \/ Initialized(c) \/ Respond(c) \/ CallTimeout(c)
    \/ \E w \in Workers : WorkerFails(w) \/ Ask(w) \/ ClientAnswers(w)
    \/ Notify \/ CloseRelay

RelaySpec == RelayInit /\ [][RelayNext]_relayVars

\* Starts, initialisations and calls end by themselves or by their timers.
RelayFairness ==
    \A c \in RelayCalls :
        /\ WF_relayVars(StartWorker(c))
        /\ WF_relayVars(Initialized(c) \/ \E w \in Workers : relayCall[c].on = w /\ relayCall[c].pc = "starting" /\ WorkerFails(w))
        /\ WF_relayVars(CallTimeout(c))

-----------------------------------------------------------------------------
RelayTypeOK ==
    /\ worker \in Workers \cup {NoWorker}
    /\ workers \in [Workers -> {"unused", "starting", "alive", "dead"}]
    /\ relayCall \in [RelayCalls -> [pc : {"new", "admitted", "starting", "pending", "answered", "errored"},
                                     on : Workers \cup {NoWorker}]]
    /\ serverRequests \subseteq Workers /\ inFlight \in Nat
    /\ relay \in {"open", "closed", "crashed"} /\ strayed \subseteq Workers /\ dropped \subseteq serverRequests

\* The calls that hold the release of this connection: neither a call nor a
\* request of a worker is counted twice or forgotten, also when workers die.
LeaseCountsWork ==
    relay = "open" =>
        inFlight = Cardinality({c \in RelayCalls : relayCall[c].pc \in {"admitted", "starting", "pending"}})
                   + Cardinality(serverRequests)

\* The answer to a worker's request is given to that worker.
AnswersGoHome == strayed = {}

\* Not true: the answer to a request made during the first start is dropped, and the
\* connection publishes that request as in flight until it ends.
AnswersAreRouted == dropped = {}

\* Every call is answered, by its worker, by its worker's end or by its timer.
CallsAnswered == \A c \in RelayCalls : relayCall[c].pc # "new" ~> relayCall[c].pc \in {"answered", "errored"} \/ relay # "open"

-----------------------------------------------------------------------------
(***************************************************************************)
(* Proofs, for any finite sets of calls and workers.  A change of the      *)
(* calls' states is a change of one set, whose size the lease publishes.   *)
(***************************************************************************)
Counted(call) == {c \in RelayCalls : call[c].pc \in {"admitted", "starting", "pending"}}

LEMMA CountedFacts ==
  ASSUME IsFiniteSet(RelayCalls), NEW f
  PROVE  IsFiniteSet(Counted(f)) /\ Cardinality(Counted(f)) \in Nat
<1>1. IsFiniteSet(Counted(f))
  BY FS_Subset DEF Counted
<1>2. QED
  BY <1>1, FS_CardinalityType

\* One call that goes on counts as before.
LEMMA GoesOn ==
  ASSUME RelayTypeOK, NEW c \in RelayCalls, NEW pc, NEW w, To(c, pc, w),
         pc \in {"admitted", "starting", "pending"},
         relayCall[c].pc \in {"admitted", "starting", "pending"}
  PROVE  Counted(relayCall') = Counted(relayCall)
BY DEF RelayTypeOK, To, Counted

LEMMA Enters ==
  ASSUME IsFiniteSet(RelayCalls), RelayTypeOK, NEW c \in RelayCalls, NEW pc, NEW w, To(c, pc, w),
         pc \in {"admitted", "starting", "pending"}, relayCall[c].pc = "new"
  PROVE  Cardinality(Counted(relayCall')) = Cardinality(Counted(relayCall)) + 1
<1>1. Counted(relayCall') = Counted(relayCall) \cup {c} /\ c \notin Counted(relayCall)
  BY DEF RelayTypeOK, To, Counted
<1>2. QED
  BY <1>1, CountedFacts, FS_AddElement

LEMMA Leaves ==
  ASSUME IsFiniteSet(RelayCalls), RelayTypeOK, NEW c \in RelayCalls, NEW pc, NEW w, To(c, pc, w),
         pc \in {"answered", "errored"}, relayCall[c].pc = "pending"
  PROVE  /\ Cardinality(Counted(relayCall')) = Cardinality(Counted(relayCall)) - 1
         /\ Cardinality(Counted(relayCall)) > 0
<1>1. Counted(relayCall') = Counted(relayCall) \ {c} /\ c \in Counted(relayCall)
  BY DEF RelayTypeOK, To, Counted
<1>2. Cardinality(Counted(relayCall')) = Cardinality(Counted(relayCall)) - 1
  BY <1>1, CountedFacts, FS_RemoveElement
<1>3. Cardinality(Counted(relayCall)) # 0
  BY <1>1, CountedFacts, FS_EmptySet
<1>4. QED
  BY <1>2, <1>3, CountedFacts

\* All calls on a worker that fails leave together.
LEMMA Rejected ==
  ASSUME IsFiniteSet(RelayCalls), RelayTypeOK, NEW w \in Workers, RejectPending(w)
  PROVE  /\ Cardinality(Counted(relayCall')) = Cardinality(Counted(relayCall))
                                                 - Cardinality(OnWorker(w, {"starting", "pending"}))
         /\ Cardinality(OnWorker(w, {"starting", "pending"})) \in Nat
         /\ Cardinality(OnWorker(w, {"starting", "pending"})) <= Cardinality(Counted(relayCall))
<1> DEFINE Gone == OnWorker(w, {"starting", "pending"})
<1>1. Gone \subseteq Counted(relayCall)
  BY DEF OnWorker, Counted
<1>2. Counted(relayCall') = Counted(relayCall) \ Gone
  BY DEF RelayTypeOK, RejectPending, OnWorker, Counted
<1>3. Counted(relayCall) \cap Gone = Gone
  BY <1>1
<1>4. Cardinality(Counted(relayCall')) = Cardinality(Counted(relayCall)) - Cardinality(Gone)
  BY <1>2, <1>3, CountedFacts, FS_Difference
<1>5. Cardinality(Gone) \in Nat /\ Cardinality(Gone) <= Cardinality(Counted(relayCall))
  BY <1>1, CountedFacts, FS_Subset, FS_CardinalityType
<1>6. QED
  BY <1>4, <1>5

RelayInv == RelayTypeOK /\ LeaseCountsWork

LEMMA RelayInitInv == RelayInit => RelayInv
<1> SUFFICES ASSUME RelayInit PROVE RelayInv
  OBVIOUS
<1>1. RelayTypeOK
  BY DEF RelayInit, RelayTypeOK
<1>2. Counted(relayCall) = {}
  BY DEF RelayInit, Counted
<1>3. QED
  BY <1>1, <1>2, FS_EmptySet DEF RelayInit, RelayInv, LeaseCountsWork, Counted

LEMMA RelayInvStep ==
  ASSUME IsFiniteSet(RelayCalls), IsFiniteSet(Workers), NoWorker \notin Workers,
         RelayInv, [RelayNext]_relayVars
  PROVE  RelayInv'
<1> DEFINE Sum == Cardinality(Counted(relayCall)) + Cardinality(serverRequests)
<1> USE DEF RelayInv
<1>0. /\ relay = "open" => inFlight = Sum
      /\ Cardinality(Counted(relayCall)) \in Nat /\ Cardinality(Counted(relayCall')) \in Nat
      /\ IsFiniteSet(serverRequests) /\ Cardinality(serverRequests) \in Nat
  BY CountedFacts, FS_Subset, FS_CardinalityType DEF LeaseCountsWork, Counted, RelayTypeOK
<1>a. SUFFICES RelayTypeOK' /\ (relay' = "open" => inFlight' = Sum')
  BY DEF LeaseCountsWork, Counted
<1>1. ASSUME NEW c \in RelayCalls, EnterParticipant(c)
      PROVE  RelayTypeOK' /\ (relay' = "open" => inFlight' = Sum')
  <2>1. CASE To(c, "admitted", NoWorker) /\ inFlight' = inFlight + 1
    <3>1. Cardinality(Counted(relayCall')) = Cardinality(Counted(relayCall)) + 1
      BY <1>1, <2>1, Enters DEF EnterParticipant
    <3>2. RelayTypeOK'
      BY <1>1, <2>1 DEF EnterParticipant, RelayTypeOK, To
    <3>3. QED
      BY <1>0, <1>1, <2>1, <3>1, <3>2 DEF EnterParticipant
  <2>2. CASE To(c, "errored", NoWorker) /\ UNCHANGED inFlight
    <3>1. Counted(relayCall') = Counted(relayCall)
      BY <1>1, <2>2 DEF EnterParticipant, To, Counted, RelayTypeOK
    <3>2. RelayTypeOK'
      BY <1>1, <2>2 DEF EnterParticipant, RelayTypeOK, To
    <3>3. QED
      BY <1>0, <1>1, <2>2, <3>1, <3>2 DEF EnterParticipant
  <2>3. QED
    BY <1>1, <2>1, <2>2 DEF EnterParticipant
<1>2. ASSUME NEW c \in RelayCalls, StartWorker(c) \/ Initialized(c)
      PROVE  RelayTypeOK' /\ (relay' = "open" => inFlight' = Sum')
  <2>1. RelayTypeOK' /\ UNCHANGED <<serverRequests, inFlight, relay>>
    BY <1>2 DEF StartWorker, Initialized, RelayTypeOK, To, Alive
  <2>2. Counted(relayCall') = Counted(relayCall)
    BY <1>2, GoesOn DEF StartWorker, Initialized
  <2>3. QED
    BY <1>0, <2>1, <2>2
<1>3. ASSUME NEW c \in RelayCalls, Respond(c) \/ CallTimeout(c)
      PROVE  RelayTypeOK' /\ (relay' = "open" => inFlight' = Sum')
  <2>1. /\ Cardinality(Counted(relayCall')) = Cardinality(Counted(relayCall)) - 1
        /\ Cardinality(Counted(relayCall)) > 0
    BY <1>3, Leaves DEF Respond, CallTimeout
  <2>2. relay = "open" /\ inFlight' = inFlight - 1 /\ UNCHANGED serverRequests
    BY <1>3 DEF Respond, CallTimeout
  <2>3. inFlight' = Sum' /\ inFlight' \in Nat
    BY <1>0, <2>1, <2>2
  <2>4. RelayTypeOK'
    BY <1>3, <2>3 DEF Respond, CallTimeout, RelayTypeOK, To
  <2>5. QED
    BY <2>3, <2>4
<1>4. ASSUME NEW w \in Workers, WorkerFails(w)
      PROVE  RelayTypeOK' /\ (relay' = "open" => inFlight' = Sum')
  <2>1. RejectPending(w) /\ relay = "open" /\ UNCHANGED serverRequests
    BY <1>4 DEF WorkerFails
  <2>2. inFlight' = inFlight - Cardinality(OnWorker(w, {"starting", "pending"}))
    BY <2>1 DEF RejectPending
  <2>3. inFlight' = Sum' /\ inFlight' \in Nat
    BY <1>0, <2>1, <2>2, Rejected
  <2>4. RelayTypeOK'
    BY <1>4, <2>3 DEF WorkerFails, RejectPending, RelayTypeOK
  <2>5. QED
    BY <2>3, <2>4
<1>5. ASSUME NEW w \in Workers, Ask(w)
      PROVE  RelayTypeOK' /\ (relay' = "open" => inFlight' = Sum')
  <2>1. Cardinality(serverRequests') = Cardinality(serverRequests) + 1
    BY <1>0, <1>5, FS_AddElement DEF Ask
  <2>2. RelayTypeOK'
    BY <1>5 DEF Ask, RelayTypeOK
  <2>3. QED
    BY <1>0, <1>5, <2>1, <2>2 DEF Ask
<1>6. ASSUME NEW w \in Workers, ClientAnswers(w)
      PROVE  RelayTypeOK' /\ (relay' = "open" => inFlight' = Sum')
  <2>1. /\ Cardinality(serverRequests \ {w}) = Cardinality(serverRequests) - 1
        /\ Cardinality(serverRequests) # 0
    BY <1>0, <1>6, FS_RemoveElement, FS_EmptySet DEF ClientAnswers
  <2>2. relay = "open" /\ w \notin dropped /\ UNCHANGED <<worker, workers, relayCall>>
    BY <1>6 DEF ClientAnswers
  <2>3. CASE Alive(worker)
    <3>1. serverRequests' = serverRequests \ {w} /\ UNCHANGED <<relay, dropped>> /\ inFlight' = inFlight - 1
      BY <1>6, <2>3 DEF ClientAnswers, Leave, Alive
    <3>2. inFlight' = Sum' /\ inFlight' \in Nat
      BY <1>0, <2>1, <2>2, <3>1
    <3>3. QED
      BY <1>6, <2>2, <3>1, <3>2 DEF ClientAnswers, RelayTypeOK
  <2>4. CASE worker # NoWorker /\ ~Alive(worker)
    BY <1>6, <2>2, <2>4 DEF ClientAnswers, RelayTypeOK
  <2>5. CASE worker = NoWorker
    BY <1>0, <1>6, <2>2, <2>5 DEF ClientAnswers, RelayTypeOK, Alive
  <2>6. QED
    BY <2>3, <2>4, <2>5
<1>7. CASE Notify \/ CloseRelay
  BY <1>7 DEF Notify, CloseRelay, RelayTypeOK
<1>8. CASE UNCHANGED relayVars
  BY <1>0, <1>8 DEF relayVars, RelayTypeOK
<1>9. QED
  BY <1>1, <1>2, <1>3, <1>4, <1>5, <1>6, <1>7, <1>8 DEF RelayNext

\* What a connection publishes is what is in flight, for any calls and workers: the
\* release that it holds is not given up too early, nor held longer than by the calls
\* under way and the requests of workers that have got no answer.
THEOREM LeaseCountsWorkTheorem ==
  ASSUME IsFiniteSet(RelayCalls), IsFiniteSet(Workers), NoWorker \notin Workers
  PROVE  RelaySpec => []LeaseCountsWork
<1>1. RelayInv /\ [RelayNext]_relayVars => RelayInv'
  BY RelayInvStep
<1>2. RelayInv => LeaseCountsWork
  BY DEF RelayInv
<1>3. QED
  BY <1>1, <1>2, RelayInitInv, PTL DEF RelaySpec
=============================================================================
