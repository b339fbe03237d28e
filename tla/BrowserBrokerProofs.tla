------------------------- MODULE BrowserBrokerProofs -------------------------
(***************************************************************************)
(* The broker for any releases, requests and bounds.  Workers are started  *)
(* one after the other, the broker knows the last of them or none, and     *)
(* every other one has been told to stop: that is inductive, and it is     *)
(* what keeps two workers from serving one profile.  As long as the        *)
(* manifest has not moved no worker is replaced, so a request that waits   *)
(* is in the hands of somebody who answers it or whose exit fails it.      *)
(***************************************************************************)
EXTENDS BrowserBroker, TLAPS, FiniteSetTheorems, SequenceTheorems

\* Workers are started in the order of their numbers.
InOrder == \E k \in Workers : Started = 1..k

\* The port is open while the broker has a worker, which it never kills before it has
\* let go of it.
ChildInv ==
    /\ open <=> child # 0
    /\ child # 0 => proc[child].state \in {"running", "dead"}

Inv == TypeOK /\ InOrder /\ ChildInv /\ OneWorker

\* The release at the start speaks the contract of the extension too.
StaysCompatible == ExtContract \in Contracts[Manifests[1].desired]

\* Before the manifest moves there is one release to run, and no probe.
OneRelease ==
    /\ swap = None /\ probed = 0
    /\ contract \in {Legacy, ExtContract}
    /\ \A w \in Started : proc[w].release = Manifests[1].desired

Answers(r) == \E w \in Workers : \E i \in 1..Len(stdout[w]) : stdout[w][i] = [kind |-> "answer", id |-> r]

\* Whoever has the request that the extension waits for.
Held(r) ==
    /\ open /\ r \in extensionRequests
    /\ proc[child].state = "dead" \/ r \in proc[child].inbox \/ Answers(r)

AllHeld == open => \A r \in Requests : ext[r] = "waiting" => Held(r)

SteadyInv == version = 1 => OneRelease /\ AllHeld

-----------------------------------------------------------------------------
(* Types of what the actions are made of. *)

LEMMA ManifestType ==
  ASSUME version \in 1..Len(Manifests)
  PROVE  manifest.desired \in Releases /\ manifest.fallback \in Releases \cup {None}
<1>1. manifest \in [desired : Releases, fallback : Releases \cup {None}]
  BY ConstantsAssumption, ElementOfSeq DEF manifest
<1> QED BY <1>1

LEMMA SelectedType ==
  ASSUME version \in 1..Len(Manifests), NEW c
  PROVE  Selected(c) \in Releases \cup {None}
BY ManifestType DEF Selected

LEMMA NewbornType ==
  ASSUME NEW r \in Releases \cup {None}
  PROVE  /\ Newborn(r) \in Proc /\ Newborn(r).state = "running"
         /\ Newborn(r).release = r /\ Newborn(r).inbox = {}
<1>1. 0 \in 0..MaxAsks /\ 0 \in 0..MaxClients
  BY ConstantsAssumption
<1> QED BY <1>1 DEF Newborn, Unborn, Proc

LEMMA MessageFacts ==
  ASSUME NEW m \in Message
  PROVE  /\ m.kind \in {"answer", "ask", "activity"}
         /\ m.kind = "answer" => m.id \in Requests /\ m = [kind |-> "answer", id |-> m.id]
         /\ m.kind = "ask" => m.id \in 1..MaxAsks
         /\ m.kind = "activity" => m.idle \in BOOLEAN
BY DEF Message

LEMMA RemoveAtType ==
  ASSUME NEW S, NEW s \in Seq(S), NEW i \in 1..Len(s)
  PROVE  RemoveAt(s, i) \in Seq(S)
<1>1. SubSeq(s, 1, i - 1) \in Seq(S)
  BY SubSeqProperties
<1>2. SubSeq(s, i + 1, Len(s)) \in Seq(S)
  BY SubSeqProperties
<1> QED BY <1>1, <1>2, ConcatProperties DEF RemoveAt

-----------------------------------------------------------------------------
(* What a step does to the workers: none starts, one starts, or the port closes. *)

LEMMA StartFacts ==
  ASSUME TypeOK, InOrder, CanStart
  PROVE  /\ NextWorker \in Workers
         /\ NextWorker \notin Started
         /\ Started \cup {NextWorker} = 1..NextWorker
<1>1. PICK k \in Workers : Started = 1..k
  BY DEF InOrder
<1>2. k \in Nat /\ k >= 1 /\ k <= MaxWorkers /\ MaxWorkers \in Nat
  BY ConstantsAssumption DEF Workers
<1>3. Cardinality(Started) = k
  BY <1>1, <1>2, FS_Interval
<1> QED BY <1>1, <1>2, <1>3 DEF CanStart, NextWorker, Workers

\* Nobody starts; a worker may be told to stop, may die or be forgotten.
SameWorkers ==
  \A w \in Workers : /\ proc'[w].state = "unborn" <=> proc[w].state = "unborn"
                     /\ proc'[w].state = "running" => proc[w].state = "running"

LEMMA QuietStep ==
  ASSUME Inv, SameWorkers, child' = child, open' = open,
         child # 0 => proc'[child].state \in {"running", "dead"}
  PROVE  InOrder' /\ ChildInv' /\ OneWorker'
<1>1. Started' = Started
  BY DEF SameWorkers, Started
<1> QED BY <1>1 DEF Inv, InOrder, ChildInv, OneWorker, SameWorkers

LEMMA CloseStep ==
  ASSUME Inv, SameWorkers, child' = 0, open' = FALSE,
         child # 0 => proc'[child].state # "running"
  PROVE  InOrder' /\ ChildInv' /\ OneWorker'
<1>1. Started' = Started
  BY DEF SameWorkers, Started
<1> QED BY <1>1 DEF Inv, InOrder, ChildInv, OneWorker, SameWorkers

LEMMA StartStep ==
  ASSUME Inv, CanStart, open, open' = open, child' = NextWorker,
         proc'[NextWorker].state = "running",
         \A w \in Workers \ {NextWorker} :
            /\ proc'[w].state = "unborn" <=> proc[w].state = "unborn"
            /\ proc'[w].state # "running"
  PROVE  InOrder' /\ ChildInv' /\ OneWorker'
<1>1. /\ NextWorker \in Workers /\ NextWorker \notin Started
      /\ Started \cup {NextWorker} = 1..NextWorker
  BY StartFacts DEF Inv
<1>2. Started' = Started \cup {NextWorker}
  BY <1>1 DEF Started
<1>3. InOrder'
  BY <1>1, <1>2 DEF InOrder
<1>4. NextWorker # 0
  BY <1>1, ConstantsAssumption DEF Workers
<1> QED BY <1>1, <1>3, <1>4 DEF ChildInv, OneWorker

-----------------------------------------------------------------------------
(* The invariant, action by action. *)

LEMMA InitInv == Init => Inv
<1> SUFFICES ASSUME Init PROVE Inv
  OBVIOUS
<1> USE ConstantsAssumption
<1>1. 1 \in Workers /\ MaxWorkers \in Nat /\ 1 \in 0..MaxWorkers
  BY DEF Workers
<1>2. 1 \in 1..Len(Manifests)
      /\ Manifests[1] \in [desired : Releases, fallback : Releases \cup {None}]
  <2>1. Len(Manifests) \in Nat /\ Len(Manifests) # 0
    BY EmptySeq, LenProperties
  <2>2. 1 \in 1..Len(Manifests)
    BY <2>1
  <2> QED BY <2>2, ElementOfSeq
<1>3. Unborn \in Proc /\ Unborn.state = "unborn" /\ Newborn(Manifests[1].desired) \in Proc
  BY <1>2, NewbornType DEF Unborn, Proc
<1>4. proc \in [Workers -> Proc] /\ proc[1].state = "running"
      /\ \A w \in Workers : w # 1 => proc[w].state = "unborn"
  BY <1>1, <1>2, <1>3, NewbornType DEF Init
<1>5. TypeOK
  <2>1. /\ version \in 1..Len(Manifests) /\ child \in 0..MaxWorkers /\ probed \in 0..MaxWorkers
        /\ contract \in Nat /\ crashes \in 0..MaxCrashes
    BY <1>1, <1>2 DEF Init, Legacy
  <2>2. <<>> \in Seq(Message)
    BY EmptySeq
  <2> QED BY <1>4, <2>1, <2>2 DEF Init, TypeOK
<1>6. Started = 1..1
  BY <1>1, <1>4 DEF Started
<1>7. InOrder
  BY <1>1, <1>6 DEF InOrder
<1>8. ChildInv
  BY <1>4 DEF ChildInv, Init
<1>9. OneWorker
  BY <1>4 DEF OneWorker, Init
<1> QED BY <1>5, <1>7, <1>8, <1>9 DEF Inv

LEMMA ChildFacts ==
  ASSUME Inv, child # 0
  PROVE  /\ child \in Workers /\ child \in Started /\ proc[child] \in Proc
         /\ proc[child].state \in {"running", "dead"}
<1>1. child \in Workers
  BY ConstantsAssumption DEF Inv, TypeOK, Workers
<1> QED BY <1>1 DEF Inv, TypeOK, ChildInv, Started

\* Handing a request to the current worker.
LEMMA DeliverFacts ==
  ASSUME Inv, open, NEW r \in Requests, Deliver(r)
  PROVE  proc' \in [Workers -> Proc] /\ SameWorkers /\ proc'[child].state = proc[child].state
<1>1. child \in Workers
  BY ChildFacts DEF Inv, ChildInv
<1>2. proc \in [Workers -> Proc]
  BY DEF Inv, TypeOK
<1> DEFINE b == [proc[child] EXCEPT !.inbox = IF Alive(child) THEN @ \cup {r} ELSE @]
<1>3. b \in Proc /\ b.state = proc[child].state
  BY <1>1, <1>2 DEF Proc
<1>4. proc' = [proc EXCEPT ![child] = b]
  BY DEF Deliver
<1> QED BY <1>1, <1>2, <1>3, <1>4 DEF SameWorkers

LEMMA RequestInv ==
  ASSUME Inv, NEW r \in Requests, Request(r)
  PROVE  Inv'
<1>1. proc' \in [Workers -> Proc] /\ SameWorkers /\ proc'[child].state = proc[child].state
  BY DeliverFacts DEF Request
<1>2. TypeOK'
  BY <1>1 DEF Request, Inv, TypeOK
<1>3. InOrder' /\ ChildInv' /\ OneWorker'
  BY <1>1, QuietStep DEF Request, Inv, ChildInv
<1> QED BY <1>2, <1>3 DEF Inv

\* A worker is replaced by a newborn one.
LEMMA ReplaceFacts ==
  ASSUME Inv, CanStart, open, NEW b \in Proc, b.state = "running",
         proc' = [proc EXCEPT ![child].state = IF @ = "running" THEN "killed" ELSE @,
                              ![NextWorker] = b]
  PROVE  /\ proc' \in [Workers -> Proc]
         /\ NextWorker \in Workers /\ NextWorker \in 0..MaxWorkers
         /\ proc'[NextWorker] = b
         /\ \A w \in Workers \ {NextWorker} :
              /\ proc'[w].state = "unborn" <=> proc[w].state = "unborn"
              /\ proc'[w].state # "running"
<1>1. /\ child \in Workers /\ child \in Started /\ proc \in [Workers -> Proc]
      /\ proc[child] \in Proc /\ proc[child].state \in {"running", "dead"}
  BY ChildFacts DEF Inv, TypeOK, ChildInv
<1>2. NextWorker \in Workers /\ NextWorker # child
  BY <1>1, StartFacts DEF Inv
<1> DEFINE a == [proc[child] EXCEPT !.state = IF @ = "running" THEN "killed" ELSE @]
<1>3. a \in Proc /\ a.state # "running" /\ a.state # "unborn"
  BY <1>1 DEF Proc
<1>4. proc' = [[proc EXCEPT ![child] = a] EXCEPT ![NextWorker] = b]
  OBVIOUS
<1>5. \A w \in Workers : proc[w].state = "running" => w = child
  BY DEF Inv, OneWorker
<1>6. NextWorker \in 0..MaxWorkers
  BY <1>2 DEF Workers
<1>7. /\ proc' \in [Workers -> Proc]
      /\ \A w \in Workers : proc'[w] = IF w = NextWorker THEN b ELSE IF w = child THEN a ELSE proc[w]
  BY <1>1, <1>2, <1>3, <1>4
<1> QED BY <1>1, <1>2, <1>3, <1>5, <1>6, <1>7 DEF Started

LEMMA SayHelloInv ==
  ASSUME Inv, SayHello
  PROVE  Inv'
<1> DEFINE s == Selected(ExtContract)
<1>1. s \in Releases \cup {None}
  BY SelectedType DEF Inv, TypeOK
<1>2. Hello \in Requests /\ ExtContract \in Nat
  BY ConstantsAssumption
<1>3. CASE UNCHANGED <<contract, child, proc, extensionRequests>>
  <2>1. SameWorkers
    BY <1>3 DEF SameWorkers
  <2>2. TypeOK' /\ open' = open
    BY <1>2, <1>3 DEF SayHello, Inv, TypeOK
  <2> QED BY <1>3, <2>1, <2>2, QuietStep DEF Inv, ChildInv
<1>4. CASE s = release /\ Deliver(Hello) /\ UNCHANGED child /\ contract' = ExtContract
  <2>1. proc' \in [Workers -> Proc] /\ SameWorkers /\ proc'[child].state = proc[child].state
    BY <1>2, <1>4, DeliverFacts DEF SayHello
  <2>2. TypeOK' /\ open' = open
    BY <1>2, <1>4, <2>1 DEF SayHello, Inv, TypeOK
  <2> QED BY <1>4, <2>1, <2>2, QuietStep DEF Inv, ChildInv
<1>5. CASE /\ s # None /\ CanStart /\ child' = NextWorker /\ contract' = ExtContract
           /\ proc' = [proc EXCEPT
                ![child].state = IF @ = "running" THEN "killed" ELSE @,
                ![NextWorker] = [Newborn(s) EXCEPT !.inbox = {Hello}]]
  <2> DEFINE b == [Newborn(s) EXCEPT !.inbox = {Hello}]
  <2>1. b \in Proc /\ b.state = "running"
    BY <1>1, <1>2, NewbornType DEF Proc
  <2>2. open /\ open' = open
    BY DEF SayHello
  <2>3. /\ proc' \in [Workers -> Proc] /\ NextWorker \in 0..MaxWorkers
        /\ proc'[NextWorker] = b
        /\ \A w \in Workers \ {NextWorker} :
             /\ proc'[w].state = "unborn" <=> proc[w].state = "unborn"
             /\ proc'[w].state # "running"
    BY <1>5, <2>1, <2>2, ReplaceFacts
  <2>4. TypeOK'
    BY <1>2, <1>5, <2>3 DEF SayHello, Inv, TypeOK
  <2>5. InOrder' /\ ChildInv' /\ OneWorker'
    BY <1>5, <2>1, <2>2, <2>3, StartStep
  <2> QED BY <2>4, <2>5 DEF Inv
<1> QED BY <1>3, <1>4, <1>5 DEF SayHello

LEMMA RequestTimesOutInv ==
  ASSUME Inv, NEW r \in Requests, RequestTimesOut(r)
  PROVE  Inv'
<1>1. SameWorkers
  BY DEF RequestTimesOut, SameWorkers
<1>2. TypeOK'
  BY DEF RequestTimesOut, Inv, TypeOK, broker
<1> QED BY <1>1, <1>2, QuietStep DEF RequestTimesOut, broker, Inv, ChildInv

\* What arrives is noted: the books and the extension keep their types.
LEMMA NotedType ==
  ASSUME TypeOK,
         (\E r \in Requests : NoteRequest(r)) \/ (\E a \in asked : NoteAnswer(a))
  PROVE  /\ ext' \in [Requests -> {"new", "waiting", "answered", "failed", "timeout"}]
         /\ asked' \subseteq [worker : Workers, id : 1..MaxAsks]
         /\ extensionRequests' \subseteq Requests
         /\ childRequests' \subseteq 1..MaxAsks
<1>1. ASSUME NEW r \in Requests, NoteRequest(r)
      PROVE  /\ ext' \in [Requests -> {"new", "waiting", "answered", "failed", "timeout"}]
             /\ extensionRequests' \subseteq Requests /\ UNCHANGED <<asked, childRequests>>
  BY <1>1 DEF NoteRequest, TypeOK
<1>2. ASSUME NEW a \in asked, NoteAnswer(a)
      PROVE  /\ asked' \subseteq asked /\ childRequests' \subseteq childRequests
             /\ UNCHANGED <<ext, extensionRequests>>
  BY <1>2 DEF NoteAnswer
<1>3. CASE \E r \in Requests : NoteRequest(r)
  BY <1>1, <1>3 DEF TypeOK
<1>4. CASE \E a \in asked : NoteAnswer(a)
  BY <1>2, <1>4 DEF TypeOK
<1> QED BY <1>3, <1>4

LEMMA RouteFailsInv ==
  ASSUME Inv, RouteFails
  PROVE  Inv'
<1>1. /\ child \in Workers /\ child \in Started /\ proc[child] \in Proc
      /\ proc[child].state \in {"running", "dead"} /\ proc \in [Workers -> Proc]
  BY ChildFacts DEF RouteFails, Inv, TypeOK, ChildInv
<1> DEFINE a == [proc[child] EXCEPT !.state = IF @ = "running" THEN "killed" ELSE @]
<1>2. a \in Proc /\ a.state # "running" /\ a.state # "unborn"
  BY <1>1 DEF Proc
<1>3. proc' = [proc EXCEPT ![child] = a]
  BY DEF RouteFails, Shutdown
<1>4. proc' \in [Workers -> Proc] /\ SameWorkers /\ proc'[child].state # "running"
  BY <1>1, <1>2, <1>3 DEF SameWorkers
<1>5. (\E r \in Requests : NoteRequest(r)) \/ (\E q \in asked : NoteAnswer(q))
  BY DEF RouteFails
<1>6. child' \in 0..MaxWorkers /\ child' = 0 /\ open' = FALSE
  BY ConstantsAssumption DEF RouteFails, Shutdown
<1>7. TypeOK'
  BY <1>4, <1>5, <1>6, NotedType DEF RouteFails, Inv, TypeOK
<1> QED BY <1>4, <1>6, <1>7, CloseStep DEF Inv

LEMMA UnservedInv ==
  ASSUME Inv, Unserved
  PROVE  Inv'
<1>1. (\E r \in Requests : NoteRequest(r)) \/ (\E a \in asked : NoteAnswer(a))
  BY DEF Unserved
<1>2. SameWorkers
  BY DEF Unserved, SameWorkers
<1>3. TypeOK'
  BY <1>1, NotedType DEF Unserved, Inv, TypeOK
<1> QED BY <1>2, <1>3, QuietStep, ChildFacts DEF Unserved, Inv

\* A step that changes one worker only, and leaves it what it is to the broker.
LEMMA WorkerStep ==
  ASSUME Inv, NEW w \in Workers, NEW b \in Proc, b.state = proc[w].state,
         proc' = [proc EXCEPT ![w] = b], child' = child, open' = open
  PROVE  proc' \in [Workers -> Proc] /\ InOrder' /\ ChildInv' /\ OneWorker'
<1>1. proc' \in [Workers -> Proc] /\ \A v \in Workers : proc'[v].state = proc[v].state
  BY DEF Inv, TypeOK
<1>2. SameWorkers
  BY <1>1 DEF SameWorkers
<1>3. child # 0 => proc'[child].state \in {"running", "dead"}
  BY <1>1, ChildFacts
<1> QED BY <1>1, <1>2, <1>3, QuietStep

LEMMA AnswerInv ==
  ASSUME Inv, NEW a \in asked, Answer(a)
  PROVE  Inv'
<1>1. child \in Workers /\ proc[child] \in Proc
  BY ChildFacts DEF Answer, Inv, ChildInv
<1> DEFINE b == [proc[child] EXCEPT !.pending = IF Alive(child) THEN @ \ {a.id} ELSE @]
<1>2. b \in Proc /\ b.state = proc[child].state
  BY <1>1 DEF Proc
<1>3. proc' = [proc EXCEPT ![child] = b]
  BY DEF Answer
<1>4. proc' \in [Workers -> Proc] /\ InOrder' /\ ChildInv' /\ OneWorker'
  BY <1>1, <1>2, <1>3, WorkerStep DEF Answer
<1>5. TypeOK'
  BY <1>4 DEF Answer, Inv, TypeOK
<1> QED BY <1>4, <1>5 DEF Inv

LEMMA WriteType ==
  ASSUME stdout \in [Workers -> Seq(Message)], NEW w \in Workers, NEW m \in Message, Write(w, m)
  PROVE  stdout' \in [Workers -> Seq(Message)]
<1>1. Append(stdout[w], m) \in Seq(Message)
  BY AppendProperties
<1> QED BY <1>1 DEF Write

\* What a worker does by itself changes that worker and perhaps its output.
LEMMA WorkerOwnStep ==
  ASSUME Inv, NEW w \in Workers, NEW b \in Proc, b.state = proc[w].state,
         proc' = [proc EXCEPT ![w] = b], WorkerOnly, stdout' \in [Workers -> Seq(Message)]
  PROVE  Inv'
<1>1. proc' \in [Workers -> Proc] /\ InOrder' /\ ChildInv' /\ OneWorker'
  BY WorkerStep DEF WorkerOnly, broker
<1>2. TypeOK'
  BY <1>1 DEF WorkerOnly, broker, extension, Inv, TypeOK
<1> QED BY <1>1, <1>2 DEF Inv

LEMMA WorkerInv ==
  ASSUME Inv, NEW w \in Workers,
         \/ \E r \in Requests : WorkerAnswers(w, r)
         \/ \E i \in 1..MaxAsks : WorkerForgets(w, i)
         \/ WorkerAsks(w) \/ ClientConnects(w) \/ ClientLeaves(w) \/ ReportsActivity(w)
  PROVE  Inv'
<1>1. proc[w] \in Proc /\ stdout \in [Workers -> Seq(Message)]
  BY DEF Inv, TypeOK
<1>2. MaxAsks \in Nat /\ MaxClients \in Nat
  BY ConstantsAssumption
<1>3. ASSUME NEW r \in Requests, WorkerAnswers(w, r) PROVE Inv'
  <2> DEFINE b == [proc[w] EXCEPT !.inbox = @ \ {r}, !.registered = @ \/ r = Hello]
  <2>1. b \in Proc /\ b.state = proc[w].state
    BY <1>1 DEF Proc
  <2>2. proc' = [proc EXCEPT ![w] = b]
    BY <1>3 DEF WorkerAnswers
  <2>3. [kind |-> "answer", id |-> r] \in Message
    BY DEF Message
  <2> QED BY <1>1, <1>3, <2>1, <2>2, <2>3, WriteType, WorkerOwnStep DEF WorkerAnswers
<1>4. CASE WorkerAsks(w)
  <2> DEFINE i == proc[w].asks + 1
             b == [proc[w] EXCEPT !.asks = @ + 1, !.pending = @ \cup {i}]
  <2>1. i \in 1..MaxAsks /\ i \in 0..MaxAsks
    BY <1>1, <1>2, <1>4 DEF WorkerAsks, Proc
  <2>2. b \in Proc /\ b.state = proc[w].state
    BY <1>1, <2>1 DEF Proc
  <2>3. proc' = [proc EXCEPT ![w] = b]
    BY <1>4 DEF WorkerAsks
  <2>4. [kind |-> "ask", id |-> i] \in Message
    BY <2>1 DEF Message
  <2> QED BY <1>1, <1>4, <2>2, <2>3, <2>4, WriteType, WorkerOwnStep DEF WorkerAsks
<1>5. ASSUME NEW i \in 1..MaxAsks, WorkerForgets(w, i) PROVE Inv'
  <2> DEFINE b == [proc[w] EXCEPT !.pending = @ \ {i}]
  <2>1. b \in Proc /\ b.state = proc[w].state
    BY <1>1 DEF Proc
  <2> QED BY <1>1, <1>5, <2>1, WorkerOwnStep DEF WorkerForgets
<1>6. CASE ClientConnects(w)
  <2> DEFINE b == [proc[w] EXCEPT !.clients = @ + 1]
  <2>1. proc[w].clients + 1 \in 0..MaxClients
    BY <1>1, <1>2, <1>6 DEF Proc, ClientConnects
  <2>2. b \in Proc /\ b.state = proc[w].state
    BY <1>1, <2>1 DEF Proc
  <2> QED BY <1>1, <1>6, <2>2, WorkerOwnStep DEF ClientConnects
<1>7. CASE ClientLeaves(w)
  <2> DEFINE b == [proc[w] EXCEPT !.clients = @ - 1,
                                  !.pending = IF proc[w].clients = 1 THEN {} ELSE @]
  <2>1. proc[w].clients - 1 \in 0..MaxClients
    BY <1>1, <1>2, <1>7 DEF Proc, ClientLeaves
  <2>2. b \in Proc /\ b.state = proc[w].state
    BY <1>1, <2>1 DEF Proc
  <2>3. proc' = [proc EXCEPT ![w] = b]
    BY <1>7 DEF ClientLeaves
  <2> QED BY <1>1, <1>7, <2>2, <2>3, WorkerOwnStep DEF ClientLeaves
<1>8. CASE ReportsActivity(w)
  <2>1. PICK idle \in BOOLEAN : Write(w, [kind |-> "activity", idle |-> idle])
    BY <1>8 DEF ReportsActivity
  <2>2. [kind |-> "activity", idle |-> idle] \in Message
    BY DEF Message
  <2>3. proc' = [proc EXCEPT ![w] = proc[w]]
    BY <1>1, <1>8 DEF ReportsActivity, Inv, TypeOK
  <2> QED BY <1>1, <1>8, <2>1, <2>2, <2>3, WriteType, WorkerOwnStep DEF ReportsActivity
<1> QED BY <1>3, <1>4, <1>5, <1>6, <1>7, <1>8

LEMMA DieInv ==
  ASSUME Inv, NEW w \in Workers, Die(w)
  PROVE  Inv'
<1> DEFINE b == [Unborn EXCEPT !.state = "dead", !.release = proc[w].release]
<1>1. proc \in [Workers -> Proc] /\ proc[w] \in Proc /\ crashes' \in 0..MaxCrashes
  BY ConstantsAssumption DEF Inv, TypeOK, Die
<1>2. 0 \in 0..MaxAsks /\ 0 \in 0..MaxClients
  BY ConstantsAssumption
<1>3. b \in Proc /\ b.state = "dead"
  BY <1>1, <1>2 DEF Proc, Unborn
<1>4. proc' = [proc EXCEPT ![w] = b] /\ proc[w].state \in {"running", "killed"}
  BY DEF Die
<1>5. proc' \in [Workers -> Proc] /\ SameWorkers
  BY <1>1, <1>3, <1>4 DEF SameWorkers
<1>6. child # 0 => proc'[child].state \in {"running", "dead"}
  BY <1>1, <1>3, <1>4, ChildFacts
<1>7. TypeOK'
  BY <1>1, <1>5 DEF Die, broker, extension, Inv, TypeOK
<1> QED BY <1>5, <1>6, <1>7, QuietStep DEF Die, broker, Inv

LEMMA OutputInv ==
  ASSUME Inv, NEW w \in Workers, Output(w)
  PROVE  Inv'
<1> DEFINE m == Head(stdout[w])
<1>1. /\ proc \in [Workers -> Proc] /\ stdout[w] \in Seq(Message) /\ stdout[w] # <<>>
      /\ swap \in Releases \cup {None}
  BY DEF Inv, TypeOK, Output
<1>2. m \in Message /\ Tail(stdout[w]) \in Seq(Message)
  BY <1>1, HeadTailProperties
<1>3. stdout' \in [Workers -> Seq(Message)]
  BY <1>2 DEF Output, Inv, TypeOK
<1>4. CASE HandleAnswer(m.id) /\ m.kind = "answer" /\ UNCHANGED proc
  <2>1. SameWorkers
    BY <1>4 DEF SameWorkers
  <2>2. TypeOK'
    BY <1>3, <1>4 DEF HandleAnswer, Output, Inv, TypeOK
  <2> QED BY <1>4, <2>1, <2>2, QuietStep, ChildFacts DEF HandleAnswer, Output, Inv
<1>5. CASE HandleAsk(w, m.id) /\ m.kind = "ask" /\ UNCHANGED proc
  <2>1. SameWorkers
    BY <1>5 DEF SameWorkers
  <2>2. m.id \in 1..MaxAsks
    BY <1>2, <1>5, MessageFacts
  <2>3. asked' \subseteq [worker : Workers, id : 1..MaxAsks] /\ childRequests' \subseteq 1..MaxAsks
    <3>1. [worker |-> w, id |-> m.id] \in [worker : Workers, id : 1..MaxAsks]
      BY <2>2
    <3>2. asked' \subseteq asked \cup {[worker |-> w, id |-> m.id]}
      BY <1>5 DEF HandleAsk
    <3>3. asked \subseteq [worker : Workers, id : 1..MaxAsks] /\ childRequests \subseteq 1..MaxAsks
      BY DEF Inv, TypeOK
    <3>4. childRequests' = childRequests \cup {m.id}
      BY <1>5 DEF HandleAsk
    <3> HIDE DEF m
    <3> QED BY <2>2, <3>1, <3>2, <3>3, <3>4
  <2>4. TypeOK'
    BY <1>3, <1>5, <2>3 DEF HandleAsk, Output, Inv, TypeOK
  <2> QED BY <1>5, <2>1, <2>4, QuietStep, ChildFacts DEF HandleAsk, Output, Inv
<1>6. CASE HandleActivity(w, m.idle) /\ m.kind = "activity"
  <2>1. swap' \in Releases \cup {None} /\ probed' \in 0..MaxWorkers
    BY <1>6, ConstantsAssumption DEF HandleActivity, NoProbe
  <2>2. CASE m.idle /\ child # 0
    <3>1. Newborn(swap) \in Proc /\ Newborn(swap).state = "running"
      BY <1>1, NewbornType
    <3>2. open /\ open' = open /\ CanStart
      BY <1>6, <2>2 DEF HandleActivity, Replace, Output, Inv, ChildInv
    <3>3. /\ proc' \in [Workers -> Proc] /\ NextWorker \in 0..MaxWorkers
          /\ proc'[NextWorker] = Newborn(swap)
          /\ \A v \in Workers \ {NextWorker} :
               /\ proc'[v].state = "unborn" <=> proc[v].state = "unborn"
               /\ proc'[v].state # "running"
      BY <1>6, <2>2, <3>1, <3>2, ReplaceFacts DEF HandleActivity, Replace
    <3>4. child' = NextWorker
      BY <1>6, <2>2 DEF HandleActivity, Replace
    <3>5. TypeOK'
      BY <1>3, <1>6, <2>1, <3>3, <3>4 DEF HandleActivity, extension, Output, Inv, TypeOK
    <3>6. InOrder' /\ ChildInv' /\ OneWorker'
      BY <3>1, <3>2, <3>3, <3>4, StartStep
    <3> QED BY <3>5, <3>6 DEF Inv
  <2>3. CASE ~(m.idle /\ child # 0)
    <3>1. UNCHANGED <<proc, child>>
      BY <1>6, <2>3 DEF HandleActivity
    <3>2. SameWorkers
      BY <3>1 DEF SameWorkers
    <3>3. TypeOK'
      BY <1>3, <1>6, <2>1, <3>1 DEF HandleActivity, extension, Output, Inv, TypeOK
    <3> QED BY <3>1, <3>2, <3>3, QuietStep, ChildFacts DEF Output, Inv
  <2> QED BY <2>2, <2>3
<1> QED BY <1>4, <1>5, <1>6 DEF Output

LEMMA ExitInv ==
  ASSUME Inv, NEW w \in Workers, Exit(w)
  PROVE  Inv'
<1> DEFINE s == Selected(contract)
           gone == [proc[w] EXCEPT !.state = "gone"]
           ExtStates == {"new", "waiting", "answered", "failed", "timeout"}
<1>1. /\ proc \in [Workers -> Proc] /\ proc[w] \in Proc /\ proc[w].state = "dead"
      /\ s \in Releases \cup {None} /\ ext \in [Requests -> ExtStates]
  BY SelectedType DEF Inv, TypeOK, Exit
<1>2. gone \in Proc /\ gone.state = "gone"
  BY <1>1 DEF Proc
<1>3. CASE child # w /\ proc' = [proc EXCEPT ![w].state = "gone"] /\ UNCHANGED <<extension, broker>>
  <2>1. proc' = [proc EXCEPT ![w] = gone]
    BY <1>3
  <2>2. proc' \in [Workers -> Proc] /\ SameWorkers
    BY <1>1, <1>2, <2>1 DEF SameWorkers
  <2>3. child # 0 => proc'[child].state \in {"running", "dead"}
    BY <1>1, <1>3, <2>1, ChildFacts
  <2>4. TypeOK'
    BY <1>3, <2>2 DEF Exit, extension, broker, Inv, TypeOK
  <2> QED BY <1>3, <2>2, <2>3, <2>4, QuietStep DEF broker, Inv
<1>4. CASE /\ child = w /\ CanStart
           /\ proc' = [proc EXCEPT ![w].state = "gone", ![NextWorker] = Newborn(s)]
           /\ child' = NextWorker /\ FailForwarded /\ NoProbe /\ UNCHANGED <<asked, open, contract>>
  <2>1. /\ NextWorker \in Workers /\ NextWorker \in 0..MaxWorkers /\ NextWorker # w
    BY <1>1, <1>4, StartFacts, ChildFacts, ConstantsAssumption DEF Inv, Workers, Started
  <2>2. Newborn(s) \in Proc /\ Newborn(s).state = "running"
    BY <1>1, NewbornType
  <2>3. proc' = [[proc EXCEPT ![w] = gone] EXCEPT ![NextWorker] = Newborn(s)]
    BY <1>4
  <2>4. proc' \in [Workers -> Proc]
    BY <1>1, <1>2, <2>2, <2>3
  <2>5. \A v \in Workers : proc'[v] = IF v = NextWorker THEN Newborn(s) ELSE IF v = w THEN gone ELSE proc[v]
    BY <1>1, <2>1, <2>3
  <2>6. \A v \in Workers : proc[v].state = "running" => v = w
    BY <1>4 DEF Inv, OneWorker
  <2>7. open /\ open' = open
    BY <1>4, ConstantsAssumption DEF Inv, ChildInv, Workers
  <2>8. InOrder' /\ ChildInv' /\ OneWorker'
    BY <1>1, <1>2, <1>4, <2>1, <2>2, <2>5, <2>6, <2>7, StartStep
  <2>9. ext' \in [Requests -> ExtStates] /\ swap' = None /\ probed' \in 0..MaxWorkers
    BY <1>1, <1>4, ConstantsAssumption DEF FailForwarded, NoProbe
  <2>10. TypeOK'
    BY <1>4, <2>1, <2>4, <2>9 DEF FailForwarded, Exit, Inv, TypeOK
  <2> QED BY <2>8, <2>10 DEF Inv
<1>5. CASE /\ child = w
           /\ proc' = [proc EXCEPT ![w].state = "gone"]
           /\ child' = 0
           /\ open' = FALSE
           /\ FailForwarded /\ NoProbe /\ UNCHANGED <<asked, contract>>
  <2>1. proc' = [proc EXCEPT ![w] = gone]
    BY <1>5
  <2>2. proc' \in [Workers -> Proc] /\ SameWorkers /\ proc'[child].state # "running"
    BY <1>1, <1>2, <1>5, <2>1 DEF SameWorkers
  <2>3. ext' \in [Requests -> ExtStates]
    BY <1>1, <1>5 DEF FailForwarded
  <2>4. swap' = None /\ probed' \in 0..MaxWorkers /\ child' \in 0..MaxWorkers
    BY <1>5, ConstantsAssumption DEF NoProbe
  <2>5. TypeOK'
    BY <1>5, <2>2, <2>3, <2>4 DEF FailForwarded, Exit, Inv, TypeOK
  <2> QED BY <1>5, <2>2, <2>5, CloseStep DEF Inv
<1> QED BY <1>3, <1>4, <1>5 DEF Exit

LEMMA ProbeTimesOutInv ==
  ASSUME Inv, ProbeTimesOut
  PROVE  Inv'
<1>1. stdout' \in [Workers -> Seq(Message)]
  <2>1. CASE UNCHANGED stdout
    BY <2>1 DEF Inv, TypeOK
  <2>2. ASSUME NEW i \in 1..Len(stdout[probed]),
               stdout' = [stdout EXCEPT ![probed] = RemoveAt(@, i)]
        PROVE  stdout' \in [Workers -> Seq(Message)]
    <3>1. probed \in Workers
      BY ConstantsAssumption DEF ProbeTimesOut, Inv, TypeOK, Workers
    <3>2. RemoveAt(stdout[probed], i) \in Seq(Message)
      BY <3>1, RemoveAtType DEF Inv, TypeOK
    <3> QED BY <2>2, <3>2 DEF Inv, TypeOK
  <2> QED BY <2>1, <2>2 DEF ProbeTimesOut
<1>2. SameWorkers
  BY DEF ProbeTimesOut, SameWorkers
<1>3. TypeOK'
  BY <1>1, ConstantsAssumption, SMTT(20) DEF ProbeTimesOut, NoProbe, extension, Inv, TypeOK
<1> QED BY <1>2, <1>3, QuietStep, ChildFacts DEF ProbeTimesOut, Inv

LEMMA TickInv == ASSUME Inv, Tick PROVE Inv'
<1>1. swap' \in Releases \cup {None} /\ probed' \in 0..MaxWorkers
  BY SelectedType DEF Tick, Inv, TypeOK
<1>2. TypeOK' /\ SameWorkers
  BY <1>1 DEF Tick, extension, SameWorkers, Inv, TypeOK
<1> QED BY <1>2, QuietStep, ChildFacts DEF Tick, Inv

LEMMA MoveManifestInv == ASSUME Inv, MoveManifest PROVE Inv'
<1>1. version' \in 1..Len(Manifests)
  BY LenProperties, ConstantsAssumption DEF MoveManifest, Inv, TypeOK
<1>2. TypeOK' /\ SameWorkers
  BY <1>1 DEF MoveManifest, extension, broker, SameWorkers, Inv, TypeOK
<1> QED BY <1>2, QuietStep, ChildFacts DEF MoveManifest, broker, Inv

LEMMA InvStep == Inv /\ [Next]_vars => Inv'
<1> SUFFICES ASSUME Inv, [Next]_vars PROVE Inv'
  OBVIOUS
<1>1. CASE Next
  BY <1>1, RequestInv, RequestTimesOutInv, SayHelloInv, RouteFailsInv, UnservedInv, AnswerInv, WorkerInv,
     DieInv, OutputInv, ExitInv, ProbeTimesOutInv, TickInv, MoveManifestInv DEF Next
<1>2. CASE UNCHANGED vars
  BY <1>2, QuietStep, ChildFacts DEF vars, extension, broker, SameWorkers, Inv, TypeOK
<1> QED BY <1>1, <1>2

LEMMA Invariant == Spec => []Inv
BY InitInv, InvStep, PTL DEF Spec

\* The broker, its workers and the pipes between them keep their types.
THEOREM TypeCorrect == Spec => []TypeOK
<1>1. Inv => TypeOK
  BY DEF Inv
<1> QED BY <1>1, Invariant, PTL

\* Two workers never serve one profile, whatever combination of hellos, probes, exits
\* and manifests replaced them: only the one the broker knows still runs.
THEOREM OneWorkerTheorem == Spec => []OneWorker
<1>1. Inv => OneWorker
  BY DEF Inv
<1> QED BY <1>1, Invariant, PTL

-----------------------------------------------------------------------------
(* Nobody waits in vain while there is one release to run. *)

LEMMA SelectedFacts ==
  ASSUME TypeOK, StaysCompatible, version = 1, NEW c \in {Legacy, ExtContract}
  PROVE  Selected(c) = Manifests[1].desired /\ Selected(c) # None
<1>1. Manifests[1].desired \in Releases
  BY ManifestType DEF manifest, TypeOK
<1>2. c \in Contracts[Manifests[1].desired]
  BY ConstantsAssumption DEF StaysCompatible
<1> QED BY <1>1, <1>2, ConstantsAssumption DEF Selected, manifest

\* The workers that were started stay the same, and run what they ran.
SameReleases ==
  \A w \in Workers : /\ proc'[w].state = "unborn" <=> proc[w].state = "unborn"
                     /\ proc'[w].release = proc[w].release

LEMMA SameReleaseStep ==
  ASSUME OneRelease, SameReleases, UNCHANGED <<swap, probed>>, contract' \in {Legacy, ExtContract}
  PROVE  OneRelease'
BY DEF OneRelease, SameReleases, Started

LEMMA AppendKeepsAnswers ==
  ASSUME TypeOK, NEW w \in Workers, NEW m \in Message, Write(w, m), NEW r, Answers(r)
  PROVE  Answers(r)'
<1>0. PICK v \in Workers : \E i \in 1..Len(stdout[v]) : stdout[v][i] = [kind |-> "answer", id |-> r]
  BY DEF Answers
<1>1. PICK i \in 1..Len(stdout[v]) : stdout[v][i] = [kind |-> "answer", id |-> r]
  BY <1>0
<1>2. stdout \in [Workers -> Seq(Message)]
  BY DEF TypeOK
<1>3. i \in 1..Len(stdout'[v]) /\ stdout'[v][i] = stdout[v][i]
  BY <1>1, <1>2, AppendProperties, LenProperties DEF Write
<1> QED BY <1>1, <1>3 DEF Answers

LEMMA TailKeepsAnswers ==
  ASSUME TypeOK, NEW w \in Workers, stdout[w] # <<>>, NEW r, Answers(r),
         Head(stdout[w]) # [kind |-> "answer", id |-> r],
         stdout' = [stdout EXCEPT ![w] = Tail(@)]
  PROVE  Answers(r)'
<1>0. PICK v \in Workers : \E i \in 1..Len(stdout[v]) : stdout[v][i] = [kind |-> "answer", id |-> r]
  BY DEF Answers
<1>1. PICK i \in 1..Len(stdout[v]) : stdout[v][i] = [kind |-> "answer", id |-> r]
  BY <1>0
<1>2. stdout \in [Workers -> Seq(Message)]
  BY DEF TypeOK
<1>3. CASE v # w
  BY <1>1, <1>2, <1>3 DEF Answers
<1>4. CASE v = w
  <2>1. stdout[w] \in Seq(Message) /\ Len(stdout[w]) \in Nat
    BY <1>2, LenProperties
  <2>2. i # 1
    BY <1>1, <1>4, <2>1, HeadTailProperties
  <2>3. /\ Len(stdout'[w]) = Len(stdout[w]) - 1 /\ i - 1 \in 1..(Len(stdout[w]) - 1)
        /\ stdout'[w] = Tail(stdout[w])
    BY <1>1, <1>2, <1>4, <2>1, <2>2, HeadTailProperties
  <2>4. Tail(stdout[w])[i - 1] = stdout[w][i]
    BY <2>1, <2>3, HeadTailProperties
  <2> QED BY <1>1, <1>4, <2>3, <2>4 DEF Answers
<1> QED BY <1>3, <1>4

\* A request is delivered: it is in the pipe, or the exit to come will fail it.
LEMMA DeliverSteady ==
  ASSUME Inv, OneRelease, AllHeld, open, NEW r \in Requests, Deliver(r),
         ext' = [ext EXCEPT ![r] = "waiting"],
         extensionRequests' = extensionRequests \cup {r},
         contract' \in {Legacy, ExtContract},
         UNCHANGED <<open, child, swap, probed, stdout>>
  PROVE  OneRelease' /\ AllHeld'
<1>1. /\ child \in Workers /\ proc[child].state \in {"running", "dead"} /\ proc[child] \in Proc
      /\ proc \in [Workers -> Proc]
  BY ChildFacts DEF Inv, ChildInv, TypeOK
<1> DEFINE b == [proc[child] EXCEPT !.inbox = IF Alive(child) THEN @ \cup {r} ELSE @]
<1>2. /\ proc' = [proc EXCEPT ![child] = b]
      /\ b.state = proc[child].state /\ b.release = proc[child].release
      /\ proc[child].inbox \subseteq b.inbox
      /\ b.state = "running" => r \in b.inbox
  BY <1>1 DEF Deliver, Proc, Alive
<1>3. proc'[child] = b
  BY <1>1, <1>2
<1>4. SameReleases
  BY <1>1, <1>2 DEF SameReleases
<1>5. ASSUME NEW q \in Requests, ext'[q] = "waiting" PROVE Held(q)'
  <2>1. CASE q = r
    BY <1>1, <1>2, <1>3, <2>1 DEF Held
  <2>2. CASE q # r
    <3>1. Held(q)
      BY <1>5, <2>2 DEF AllHeld, Inv, TypeOK
    <3> QED BY <1>2, <1>3, <3>1 DEF Held, Answers
  <2> QED BY <2>1, <2>2
<1> QED BY <1>4, <1>5, SameReleaseStep DEF AllHeld

\* Nothing about the requests changes but that some stop waiting; a worker keeps its
\* inbox, unless it dies.
LEMMA QuietSteady ==
  ASSUME Inv, OneRelease, AllHeld, SameReleases,
         UNCHANGED <<open, child, contract, swap, probed, extensionRequests>>,
         child # 0 => \/ proc'[child].state = "dead"
                      \/ /\ proc[child].state # "dead"
                         /\ proc[child].inbox \subseteq proc'[child].inbox,
         \A q \in Requests : ext'[q] = "waiting" => ext[q] = "waiting",
         \A q \in Requests : Answers(q) => Answers(q)'
  PROVE  OneRelease' /\ AllHeld'
<1>1. ASSUME open', NEW q \in Requests, ext'[q] = "waiting" PROVE Held(q)'
  BY <1>1 DEF AllHeld, Held, Inv, ChildInv
<1>2. OneRelease'
  BY SameReleaseStep DEF OneRelease
<1> QED BY <1>1, <1>2 DEF AllHeld

LEMMA SayHelloSteady ==
  ASSUME Inv, StaysCompatible, version = 1, OneRelease, AllHeld, SayHello
  PROVE  OneRelease' /\ AllHeld'
<1>1. Selected(ExtContract) = Manifests[1].desired /\ Selected(ExtContract) # None
  BY SelectedFacts DEF Inv
<1>2. open /\ child # 0 /\ release = Manifests[1].desired
  BY ChildFacts DEF SayHello, release, OneRelease, Inv, ChildInv
<1>3. Deliver(Hello) /\ Hello \in Requests
  BY <1>1, <1>2, ConstantsAssumption DEF SayHello
<1> QED BY <1>1, <1>2, <1>3, DeliverSteady DEF SayHello

\* What a worker does, but for its answers and its death.
LEMMA WorkerSteady ==
  ASSUME Inv, OneRelease, AllHeld, NEW w \in Workers,
         \/ \E i \in 1..MaxAsks : WorkerForgets(w, i)
         \/ WorkerAsks(w) \/ ClientConnects(w) \/ ClientLeaves(w) \/ ReportsActivity(w)
  PROVE  OneRelease' /\ AllHeld'
<1>1. proc \in [Workers -> Proc] /\ proc[w] \in Proc
  BY DEF Inv, TypeOK
<1>2. UNCHANGED <<ext, open, child, contract, swap, probed, extensionRequests>>
  BY DEF WorkerForgets, WorkerAsks, ClientConnects, ClientLeaves, ReportsActivity, WorkerOnly,
         extension, broker
<1>3. \A v \in Workers : /\ proc'[v].state = proc[v].state /\ proc'[v].release = proc[v].release
                         /\ proc'[v].inbox = proc[v].inbox
  <2>1. ASSUME NEW i, WorkerForgets(w, i)
        PROVE  proc' = [proc EXCEPT ![w].pending = @ \ {i}]
    BY <2>1 DEF WorkerForgets
  <2>2. ASSUME NEW i, WorkerForgets(w, i)
        PROVE  \A v \in Workers : /\ proc'[v].state = proc[v].state
                                  /\ proc'[v].release = proc[v].release
                                  /\ proc'[v].inbox = proc[v].inbox
    BY <1>1, <2>1, <2>2 DEF Proc
  <2>3. CASE WorkerAsks(w)
    BY <1>1, <2>3 DEF WorkerAsks, Proc
  <2>4. CASE ClientConnects(w)
    BY <1>1, <2>4 DEF ClientConnects, Proc
  <2>5. CASE ClientLeaves(w)
    BY <1>1, <2>5 DEF ClientLeaves, Proc
  <2>6. CASE ReportsActivity(w)
    BY <2>6 DEF ReportsActivity
  <2> QED BY <2>2, <2>3, <2>4, <2>5, <2>6
<1>4. ASSUME NEW q \in Requests, Answers(q) PROVE Answers(q)'
  <2>1. CASE UNCHANGED stdout
    BY <1>4, <2>1 DEF Answers
  <2>2. CASE WorkerAsks(w)
    <3>1. [kind |-> "ask", id |-> proc[w].asks + 1] \in Message
      BY <1>1, <2>2, ConstantsAssumption DEF WorkerAsks, Proc, Message
    <3> QED BY <1>4, <2>2, <3>1, AppendKeepsAnswers DEF WorkerAsks, Inv
  <2>3. CASE ReportsActivity(w)
    BY <2>3 DEF ReportsActivity, OneRelease, Workers
  <2> QED BY <2>1, <2>2, <2>3 DEF WorkerForgets, ClientConnects, ClientLeaves
<1>5. SameReleases
  BY <1>3 DEF SameReleases
<1>6. child # 0 => child \in Workers /\ proc[child].state \in {"running", "dead"}
  BY ChildFacts
<1> QED BY <1>2, <1>3, <1>4, <1>5, <1>6, QuietSteady

LEMMA WorkerAnswersSteady ==
  ASSUME Inv, OneRelease, AllHeld, NEW w \in Workers, NEW r \in Requests, WorkerAnswers(w, r)
  PROVE  OneRelease' /\ AllHeld'
<1>1. proc \in [Workers -> Proc] /\ proc[w] \in Proc /\ stdout \in [Workers -> Seq(Message)]
  BY DEF Inv, TypeOK
<1>2. UNCHANGED <<ext, open, child, contract, swap, probed, extensionRequests>>
  BY DEF WorkerAnswers, WorkerOnly, extension, broker
<1>3. \A v \in Workers : /\ proc'[v].state = proc[v].state /\ proc'[v].release = proc[v].release
                         /\ proc[v].inbox \subseteq proc'[v].inbox \cup {r}
  BY <1>1 DEF WorkerAnswers, Proc
<1>4. SameReleases
  BY <1>3 DEF SameReleases
<1>5. [kind |-> "answer", id |-> r] \in Message
  BY DEF Message
<1>6. \A q \in Requests : Answers(q) => Answers(q)'
  BY <1>5, AppendKeepsAnswers DEF WorkerAnswers, Inv
<1>7. Answers(r)'
  <2>1. stdout'[w] = Append(stdout[w], [kind |-> "answer", id |-> r])
    BY <1>1 DEF WorkerAnswers, Write
  <2>2. /\ Len(stdout[w]) + 1 \in 1..Len(stdout'[w])
        /\ stdout'[w][Len(stdout[w]) + 1] = [kind |-> "answer", id |-> r]
    BY <1>1, <1>5, <2>1, AppendProperties, LenProperties
  <2> QED BY <2>2 DEF Answers
<1>8. ASSUME open, NEW q \in Requests, ext'[q] = "waiting" PROVE Held(q)'
  <2>1. Held(q) /\ child \in Workers
    BY <1>2, <1>8, ChildFacts DEF AllHeld, Held, Inv, ChildInv
  <2> QED BY <1>2, <1>3, <1>6, <1>7, <2>1 DEF Held
<1> QED BY <1>2, <1>4, <1>8, SameReleaseStep DEF AllHeld, OneRelease

LEMMA DieSteady ==
  ASSUME Inv, OneRelease, AllHeld, NEW w \in Workers, Die(w)
  PROVE  OneRelease' /\ AllHeld'
<1>1. proc \in [Workers -> Proc] /\ proc[w].state \in {"running", "killed"}
  BY DEF Inv, TypeOK, Die
<1> DEFINE b == [Unborn EXCEPT !.state = "dead", !.release = proc[w].release]
<1>2. proc' = [proc EXCEPT ![w] = b] /\ b.state = "dead" /\ b.release = proc[w].release
  BY DEF Die, Unborn
<1>3. SameReleases
  BY <1>1, <1>2 DEF SameReleases
<1>4. child # 0 => child \in Workers /\ proc[child].state \in {"running", "dead"}
  BY ChildFacts
<1>5. child # 0 => \/ proc'[child].state = "dead"
                   \/ /\ proc[child].state # "dead"
                      /\ proc[child].inbox \subseteq proc'[child].inbox
  BY <1>1, <1>2, <1>4
<1>6. UNCHANGED <<ext, open, child, contract, swap, probed, extensionRequests, stdout>>
  BY DEF Die, extension, broker
<1>7. \A q \in Requests : Answers(q) => Answers(q)'
  BY <1>6 DEF Answers
<1> QED BY <1>3, <1>5, <1>6, <1>7, QuietSteady

LEMMA OutputSteady ==
  ASSUME Inv, OneRelease, AllHeld, NEW w \in Workers, Output(w)
  PROVE  OneRelease' /\ AllHeld'
<1> DEFINE m == Head(stdout[w])
<1>1. m \in Message
  BY HeadTailProperties DEF Inv, TypeOK, Output
<1>2. ~HandleActivity(w, m.idle)
  BY DEF HandleActivity, OneRelease, Workers
<1>3. /\ UNCHANGED <<proc, open, child, contract, swap, probed>>
      /\ stdout[w] # <<>> /\ stdout' = [stdout EXCEPT ![w] = Tail(@)]
  BY <1>2 DEF Output, HandleAnswer, HandleAsk
<1>4. SameReleases
  BY <1>3 DEF SameReleases
<1>5. \A q \in Requests : m # [kind |-> "answer", id |-> q] /\ Answers(q) => Answers(q)'
  BY <1>3, TailKeepsAnswers DEF Inv
<1>6. CASE HandleAnswer(m.id) /\ m.kind = "answer"
  <2>1. ASSUME open, NEW q \in Requests, ext'[q] = "waiting" PROVE Held(q)'
    <3>1. q # m.id /\ ext[q] = "waiting"
      BY <1>6, <2>1 DEF HandleAnswer, Inv, TypeOK
    <3>2. m # [kind |-> "answer", id |-> q]
      BY <3>1
    <3>3. Held(q)
      BY <2>1, <3>1 DEF AllHeld
    <3>4. Answers(q) => Answers(q)'
      BY <1>5, <3>2
    <3> QED BY <3>3, <3>4, <1>3, <1>6, <3>1 DEF Held, HandleAnswer
  <2> QED BY <1>3, <1>4, <2>1, SameReleaseStep DEF AllHeld, OneRelease
<1>7. CASE HandleAsk(w, m.id) /\ m.kind = "ask"
  <2>1. UNCHANGED <<ext, extensionRequests>>
    BY <1>7 DEF HandleAsk
  <2>2. ASSUME open, NEW q \in Requests, ext'[q] = "waiting" PROVE Held(q)'
    <3>1. m # [kind |-> "answer", id |-> q]
      BY <1>7
    <3>2. Held(q)
      BY <2>1, <2>2 DEF AllHeld
    <3>3. Answers(q) => Answers(q)'
      BY <1>5, <3>1
    <3> QED BY <1>3, <2>1, <3>2, <3>3 DEF Held
  <2> QED BY <1>3, <1>4, <2>2, SameReleaseStep DEF AllHeld, OneRelease
<1> QED BY <1>2, <1>6, <1>7 DEF Output

LEMMA ExitSteady ==
  ASSUME Inv, StaysCompatible, version = 1, OneRelease, AllHeld, NEW w \in Workers, Exit(w)
  PROVE  OneRelease' /\ AllHeld'
<1> DEFINE s == Selected(contract)
<1>1. s = Manifests[1].desired /\ s # None
  BY SelectedFacts DEF OneRelease, Inv
<1>2. proc \in [Workers -> Proc] /\ ext \in [Requests -> {"new", "waiting", "answered", "failed", "timeout"}]
  BY DEF Inv, TypeOK
<1>3. CASE /\ child # w /\ proc' = [proc EXCEPT ![w].state = "gone"]
           /\ UNCHANGED <<extension, broker>>
  <2>1. /\ \A v \in Workers : v # w => proc'[v] = proc[v]
        /\ proc'[w].state = "gone" /\ proc'[w].release = proc[w].release /\ proc[w].state = "dead"
    BY <1>2, <1>3 DEF Exit, Proc
  <2>2. SameReleases
    BY <2>1 DEF SameReleases
  <2>3. child # 0 => child \in Workers
    BY ChildFacts
  <2>4. UNCHANGED <<ext, open, child, contract, swap, probed, extensionRequests, stdout>>
    BY <1>3 DEF Exit, extension, broker
  <2>5. \A q \in Requests : Answers(q) => Answers(q)'
    BY <2>4 DEF Answers
  <2> QED BY <1>3, <2>1, <2>2, <2>3, <2>4, <2>5, QuietSteady
<1>4. CASE /\ child = w /\ CanStart
           /\ proc' = [proc EXCEPT ![w].state = "gone", ![NextWorker] = Newborn(s)]
           /\ FailForwarded /\ NoProbe /\ UNCHANGED contract
  <2>1. NextWorker \in Workers /\ NextWorker \notin Started /\ w \in Started
    BY <1>4, StartFacts DEF Inv, Exit, Started
  <2>2. /\ proc'[NextWorker] = Newborn(s)
        /\ \A v \in Workers \ {NextWorker} :
             /\ proc'[v].release = proc[v].release
             /\ proc'[v].state = "unborn" <=> proc[v].state = "unborn"
    BY <1>2, <1>4, <2>1 DEF Exit, Proc, Started
  <2>3. Newborn(s).release = s
    BY DEF Newborn, Unborn
  <2>4. OneRelease'
    BY <1>1, <1>4, <2>2, <2>3 DEF OneRelease, NoProbe, Started
  <2>5. open
    BY <1>4, ConstantsAssumption DEF Inv, ChildInv, Workers
  <2>6. \A q \in Requests : ext'[q] # "waiting"
    BY <1>2, <1>4, <2>5 DEF FailForwarded, AllHeld, Held
  <2> QED BY <2>4, <2>6 DEF AllHeld
<1> QED BY <1>1, <1>3, <1>4 DEF Exit

LEMMA ShutdownSteady ==
  ASSUME Inv, OneRelease, Shutdown, UNCHANGED <<contract, swap, probed>>
  PROVE  OneRelease' /\ AllHeld'
<1>1. ~open'
  BY DEF Shutdown
<1>2. SameReleases
  BY DEF Shutdown, SameReleases, Inv, TypeOK, Proc
<1> QED BY <1>1, <1>2, SameReleaseStep DEF AllHeld, OneRelease

LEMMA AnswerSteady ==
  ASSUME Inv, OneRelease, AllHeld, NEW a \in asked, Answer(a)
  PROVE  OneRelease' /\ AllHeld'
<1>1. proc \in [Workers -> Proc]
  BY DEF Inv, TypeOK
<1>2. \A v \in Workers : /\ proc'[v].state = proc[v].state /\ proc'[v].release = proc[v].release
                         /\ proc'[v].inbox = proc[v].inbox
  BY <1>1 DEF Answer, Proc
<1>3. UNCHANGED <<ext, open, child, contract, swap, probed, extensionRequests, stdout>>
  BY DEF Answer
<1>4. SameReleases /\ (\A q \in Requests : Answers(q) => Answers(q)')
  BY <1>2, <1>3 DEF SameReleases, Answers
<1>5. child # 0 => child \in Workers /\ proc[child].state \in {"running", "dead"}
  BY ChildFacts
<1> QED BY <1>2, <1>3, <1>4, <1>5, QuietSteady

LEMMA SteadyStep ==
  ASSUME StaysCompatible, Inv, SteadyInv, [Next]_vars
  PROVE  SteadyInv'
<1> SUFFICES ASSUME version' = 1 PROVE OneRelease' /\ AllHeld'
  BY DEF SteadyInv
<1>1. version = 1
  <2>1. CASE MoveManifest
    BY <2>1 DEF MoveManifest, Inv, TypeOK
  <2>2. CASE ~MoveManifest
    BY <2>2 DEF Next, vars, Request, RequestTimesOut, SayHello, RouteFails, Unserved, Answer, WorkerAnswers,
       WorkerForgets, WorkerAsks, ClientConnects, ClientLeaves, ReportsActivity, WorkerOnly, Die,
       Output, Exit, ProbeTimesOut, Tick
  <2> QED BY <2>1, <2>2
<1>2. OneRelease /\ AllHeld
  BY <1>1 DEF SteadyInv
<1>3. ASSUME NEW r \in Requests, Request(r) PROVE OneRelease' /\ AllHeld'
  <2>1. contract' \in {Legacy, ExtContract}
    BY <1>2, <1>3 DEF Request, OneRelease
  <2> QED BY <1>2, <1>3, <2>1, DeliverSteady DEF Request
<1>4. ASSUME NEW r \in Requests, RequestTimesOut(r) PROVE OneRelease' /\ AllHeld'
  <2>1. \A q \in Requests : ext'[q] = "waiting" => ext[q] = "waiting"
    BY <1>4 DEF RequestTimesOut, Inv, TypeOK
  <2>2. SameReleases /\ (\A q \in Requests : Answers(q) => Answers(q)')
    BY <1>4 DEF RequestTimesOut, SameReleases, Answers
  <2>3. child # 0 => proc[child].state \in {"running", "dead"}
    BY ChildFacts
  <2> QED BY <1>2, <1>4, <2>1, <2>2, <2>3, QuietSteady DEF RequestTimesOut, broker
<1>5. CASE RouteFails
  BY <1>2, <1>5, ShutdownSteady DEF RouteFails
<1>6. ~Tick /\ ~ProbeTimesOut /\ ~MoveManifest
  <2>1. ~Tick
    <3>1. child # 0 => release = Manifests[1].desired
      BY <1>2, ChildFacts DEF release, OneRelease
    <3> QED BY <1>1, <1>2, <3>1, SelectedFacts DEF Tick, OneRelease, Inv
  <2>2. ~ProbeTimesOut
    BY <1>2 DEF ProbeTimesOut, OneRelease
  <2>3. ~MoveManifest
    BY <1>1 DEF MoveManifest
  <2> QED BY <2>1, <2>2, <2>3
<1>7. CASE UNCHANGED vars
  <2>1. SameReleases /\ (\A q \in Requests : Answers(q) => Answers(q)')
    BY <1>7 DEF vars, SameReleases, Answers
  <2>2. child # 0 => proc[child].state \in {"running", "dead"}
    BY ChildFacts
  <2> QED BY <1>2, <1>7, <2>1, <2>2, QuietSteady DEF vars, extension, broker
<1>8. CASE Unserved
  <2>1. SameReleases /\ ~open'
    BY <1>8 DEF Unserved, SameReleases
  <2> QED BY <1>2, <1>8, <2>1, SameReleaseStep DEF Unserved, AllHeld, OneRelease
<1> QED BY <1>1, <1>2, <1>3, <1>4, <1>5, <1>6, <1>7, <1>8, SayHelloSteady, AnswerSteady, WorkerSteady,
           WorkerAnswersSteady, DieSteady, OutputSteady, ExitSteady DEF Next

LEMMA InitSteady == Init => SteadyInv
<1> SUFFICES ASSUME Init PROVE OneRelease /\ AllHeld
  BY DEF SteadyInv
<1>1. proc[1].release = Manifests[1].desired /\ \A w \in Workers : w # 1 => proc[w].state = "unborn"
  BY ConstantsAssumption DEF Init, Newborn, Unborn, Workers
<1> QED BY <1>1 DEF Init, OneRelease, AllHeld, Started

LEMMA HeldIsInFlight ==
  ASSUME Inv, SteadyInv
  PROVE  NoOrphanRequest
<1> SUFFICES ASSUME open, version = 1, NEW r \in Requests, ext[r] = "waiting" PROVE InFlight(r)
  BY DEF NoOrphanRequest
<1>1. Held(r)
  BY DEF SteadyInv, AllHeld
<1>2. child # 0 /\ child \in Workers /\ proc[child].state \in {"running", "dead"}
  BY <1>1, ChildFacts DEF Held, Inv, ChildInv
<1> QED BY <1>1, <1>2 DEF Held, Answers, InFlight, Alive

\* As long as the manifest stays and the broker has not shut down, the extension never
\* waits for an answer nobody will send: through crashes and late answers, somebody has
\* its request or will fail it.  The release at the start must speak the extension's contract: a
\* hello that swaps workers lets go of what the first one was handling.
THEOREM NoOrphanRequestTheorem ==
  ASSUME StaysCompatible
  PROVE  Spec => []NoOrphanRequest
<1>1. Inv /\ SteadyInv => NoOrphanRequest
  BY HeldIsInFlight
<1>2. Inv /\ SteadyInv /\ [Next]_vars => SteadyInv'
  BY SteadyStep
<1> QED BY <1>1, <1>2, InitSteady, Invariant, PTL DEF Spec
=============================================================================
