---------------------------- MODULE BrowserBroker ----------------------------
(***************************************************************************)
(* One browser profile's native-messaging host: the extension's side of    *)
(* the port (background/native-rpc.ts), the stable broker                  *)
(* (src/src/control/browser-broker.ts) and the workers it starts, replaces *)
(* and restarts (native-host/src/runtime.ts, rpc-relay.ts).                *)
(*                                                                         *)
(* The broker is one thread: a handler is a step.  A worker's stdout is a  *)
(* FIFO that the broker drains even after it let go of the worker.         *)
(***************************************************************************)
EXTENDS Naturals, Sequences, FiniteSets, SequencesExt

CONSTANTS
    Releases,       \* installed releases
    Contracts,      \* Contracts[r]: the extension contracts release r supports
    Manifests,      \* values of runtime.json, a sequence: the pointer moves along it
    ExtContract,    \* the contract this extension announces in profile.hello
    Requests,       \* the extension's requests over the life of the port
    Hello,          \* one of them, profile.hello
    MaxWorkers,     \* bound: workers started
    MaxAsks,        \* bound: requests a worker sends to the extension
    MaxCrashes,     \* bound: workers that die by themselves
    MaxClients,     \* bound: harness connections of a worker
    None

Legacy == 1         \* LEGACY_BROWSER_CONTRACT_VERSION

ASSUME ConstantsAssumption ==
    /\ Contracts \in [Releases -> SUBSET Nat]
    /\ Manifests \in Seq([desired : Releases, fallback : Releases \cup {None}])
    /\ Manifests # <<>>
    /\ Legacy \in Contracts[Manifests[1].desired]
    /\ ExtContract \in Nat
    /\ Hello \in Requests
    /\ MaxWorkers \in Nat \ {0}
    /\ {MaxAsks, MaxCrashes, MaxClients} \subseteq Nat
    /\ None \notin Releases

VARIABLES
    version,    \* index of the manifest in force
    ext,        \* the extension's view of each request
    asked,      \* requests of workers the extension is working on
    open,       \* FALSE once the broker shut down: it reads on, and serves nobody
    contract,   \* extensionContractVersion
    child,      \* the current worker, 0 if there is none
    extensionRequests, childRequests,
    swap,       \* reconcile(): FALSE swapping, or the release to start after the probe
    probed,     \* the worker asked for its activity, 0 if none
    proc,       \* the workers
    stdout,     \* what each wrote and the broker has not read
    crashes

extension == <<ext, asked>>
broker == <<open, contract, child, extensionRequests, childRequests, swap, probed>>
vars == <<version, extension, broker, proc, stdout, crashes>>

Workers == 1..MaxWorkers
Message == [kind : {"answer"}, id : Requests]
             \cup [kind : {"ask"}, id : 1..MaxAsks]
             \cup [kind : {"activity"}, idle : BOOLEAN]

Proc == [state : {"unborn", "running", "killed", "dead", "gone"},
         release : Releases \cup {None},
         registered : BOOLEAN,           \* it handled a profile.hello
         inbox : SUBSET Requests,        \* being handled
         asks : 0..MaxAsks,              \* #nextRequestId - 1
         pending : SUBSET (1..MaxAsks),  \* #pendingRequests, #hostPending
         clients : 0..MaxClients]

TypeOK ==
    /\ version \in 1..Len(Manifests)
    /\ ext \in [Requests -> {"new", "waiting", "answered", "failed", "timeout"}]
    /\ asked \subseteq [worker : Workers, id : 1..MaxAsks]
    /\ open \in BOOLEAN
    /\ contract \in Nat
    /\ child \in 0..MaxWorkers
    /\ extensionRequests \subseteq Requests
    /\ childRequests \subseteq 1..MaxAsks
    /\ swap \in Releases \cup {None}
    /\ probed \in 0..MaxWorkers
    /\ proc \in [Workers -> Proc]
    /\ stdout \in [Workers -> Seq(Message)]
    /\ crashes \in 0..MaxCrashes

Unborn == [state |-> "unborn", release |-> None, registered |-> FALSE, inbox |-> {},
           asks |-> 0, pending |-> {}, clients |-> 0]
Newborn(r) == [Unborn EXCEPT !.state = "running", !.release = r]

Init ==
    /\ version = 1
    /\ ext = [r \in Requests |-> "new"]
    /\ asked = {}
    /\ open = TRUE
    /\ contract = Legacy
    /\ child = 1
    /\ extensionRequests = {} /\ childRequests = {}
    /\ swap = None
    /\ probed = 0
    /\ proc = [w \in Workers |->
                 IF w = 1 THEN Newborn(Manifests[1].desired) ELSE Unborn]
    /\ stdout = [w \in Workers |-> <<>>]
    /\ crashes = 0

-----------------------------------------------------------------------------
(***************************************************************************)
(* Choosing and starting a worker                                          *)
(***************************************************************************)
manifest == Manifests[version]

\* selectBrowserRelease: desired, else fallback, else nothing.
Selected(c) ==
    IF c \in Contracts[manifest.desired] THEN manifest.desired
    ELSE IF manifest.fallback # None /\ c \in Contracts[manifest.fallback]
         THEN manifest.fallback
         ELSE None

release == IF child = 0 THEN None ELSE proc[child].release

Started == {w \in Workers : proc[w].state # "unborn"}
CanStart == Cardinality(Started) < MaxWorkers
NextWorker == Cardinality(Started) + 1

Alive(w) == proc[w].state \in {"running", "killed"}

\* child = null; previous.kill("SIGTERM"); startWorker(r).
Replace(r) ==
    /\ CanStart
    /\ proc' = [proc EXCEPT ![child].state = IF @ = "running" THEN "killed" ELSE @,
                            ![NextWorker] = Newborn(r)]
    /\ child' = NextWorker

\* The broker gives up.  It neither exits nor tells the extension, and it has let go of
\* its worker, so that the exit of that worker fails no request.
Shutdown ==
    /\ open' = FALSE
    /\ proc' = [proc EXCEPT ![child].state = IF @ = "running" THEN "killed" ELSE @]
    /\ child' = 0

-----------------------------------------------------------------------------
(***************************************************************************)
(* The extension                                                           *)
(***************************************************************************)

\* Deliver request r to the current worker: it is in the pipe of a process that
\* runs, or that has died and is not known to have.
Deliver(r) ==
    proc' = [proc EXCEPT ![child].inbox = IF Alive(child) THEN @ \cup {r} ELSE @]

\* A request that is not profile.hello: route(), lines 127-141.
Request(r) ==
    /\ open /\ r # Hello /\ ext[r] = "new"
    /\ ext' = [ext EXCEPT ![r] = "waiting"]
    /\ extensionRequests' = extensionRequests \cup {r}
    /\ Deliver(r)
    /\ UNCHANGED <<version, asked, open, contract, child, childRequests, swap, probed,
                   stdout, crashes>>

\* profile.hello, lines 110-126: perhaps another release suits the contract.
SayHello ==
    LET s == Selected(ExtContract) IN
    /\ open /\ ext[Hello] = "new"
    /\ \/ /\ s = None
          /\ ext' = [ext EXCEPT ![Hello] = "failed"]
          /\ UNCHANGED <<contract, child, proc, extensionRequests>>
       \/ /\ s # None
          /\ ext' = [ext EXCEPT ![Hello] = "waiting"]
          /\ contract' = ExtContract
          /\ extensionRequests' = extensionRequests \cup {Hello}
          /\ \/ s = release /\ Deliver(Hello) /\ UNCHANGED child
             \/ /\ s # release /\ CanStart
                /\ child' = NextWorker
                /\ proc' = [proc EXCEPT
                     ![child].state = IF @ = "running" THEN "killed" ELSE @,
                     ![NextWorker] = [Newborn(s) EXCEPT !.inbox = {Hello}]]
    /\ UNCHANGED <<version, asked, open, childRequests, swap, probed, stdout, crashes>>

\* NativeRpc gives up on a request; the broker does not know.
RequestTimesOut(r) ==
    /\ ext[r] = "waiting"
    /\ ext' = [ext EXCEPT ![r] = "timeout"]
    /\ UNCHANGED <<version, asked, broker, proc, stdout, crashes>>

\* What arrives is noted before it is passed on: a request, or the answer to one.
NoteRequest(r) ==
    /\ ext[r] = "new" /\ ext' = [ext EXCEPT ![r] = "waiting"]
    /\ extensionRequests' = extensionRequests \cup {r}
    /\ UNCHANGED <<asked, childRequests>>
NoteAnswer(a) ==
    /\ asked' = asked \ {a} /\ childRequests' = childRequests \ {a.id}
    /\ UNCHANGED <<ext, extensionRequests>>

\* The write fails because the worker has died and its exit event is still to
\* come: route() rejects and the broker shuts down.
RouteFails ==
    /\ open /\ child # 0 /\ proc[child].state = "dead"
    /\ \/ \E r \in Requests : (r = Hello => Selected(ExtContract) = release) /\ NoteRequest(r)
       \/ \E a \in asked : NoteAnswer(a)
    /\ Shutdown
    /\ UNCHANGED <<version, contract, swap, probed, stdout, crashes>>

\* Once the broker has shut down, what it reads goes nowhere.  (A first profile.hello
\* that selects another release would start a worker even then: left out.)
Unserved ==
    /\ ~open
    /\ \/ \E r \in Requests : NoteRequest(r)
       \/ \E a \in asked : NoteAnswer(a)
    /\ UNCHANGED <<version, open, contract, child, swap, probed, proc, stdout, crashes>>

\* The extension answers a worker's request; route() passes the answer on to
\* whichever worker is current, which matches it by its number alone.
Answer(a) ==
    /\ open /\ a \in asked
    /\ asked' = asked \ {a}
    /\ childRequests' = childRequests \ {a.id}
    /\ proc' = [proc EXCEPT ![child].pending = IF Alive(child) THEN @ \ {a.id} ELSE @]
    /\ UNCHANGED <<version, ext, open, contract, child, extensionRequests, swap, probed,
                   stdout, crashes>>

-----------------------------------------------------------------------------
(***************************************************************************)
(* The workers                                                             *)
(***************************************************************************)
WorkerOnly == UNCHANGED <<version, extension, broker, crashes>>
Write(w, m) == stdout' = [stdout EXCEPT ![w] = Append(@, m)]

\* A request of the extension is done: handleExtensionMessage.
WorkerAnswers(w, r) ==
    /\ Alive(w) /\ r \in proc[w].inbox
    /\ proc' = [proc EXCEPT ![w].inbox = @ \ {r}, ![w].registered = @ \/ r = Hello]
    /\ Write(w, [kind |-> "answer", id |-> r])
    /\ WorkerOnly

\* A command of a harness goes out to the extension: #nextRequestId++.
WorkerAsks(w) ==
    /\ proc[w].state = "running" /\ proc[w].clients > 0
    /\ proc[w].asks < MaxAsks
    /\ proc' = [proc EXCEPT ![w].asks = @ + 1, ![w].pending = @ \cup {proc[w].asks + 1}]
    /\ Write(w, [kind |-> "ask", id |-> proc[w].asks + 1])
    /\ WorkerOnly

\* The relay gives up on a request: its timeout, or its client is gone.
WorkerForgets(w, i) ==
    /\ Alive(w) /\ i \in proc[w].pending
    /\ proc' = [proc EXCEPT ![w].pending = @ \ {i}]
    /\ UNCHANGED stdout /\ WorkerOnly

\* Harnesses find the worker through its profile registration.
ClientConnects(w) ==
    /\ proc[w].state = "running" /\ proc[w].registered
    /\ proc[w].clients < MaxClients
    /\ proc' = [proc EXCEPT ![w].clients = @ + 1]
    /\ UNCHANGED stdout /\ WorkerOnly

ClientLeaves(w) ==
    /\ Alive(w) /\ proc[w].clients > 0
    /\ proc' = [proc EXCEPT ![w].clients = @ - 1,
                            ![w].pending = IF proc[w].clients = 1 THEN {} ELSE @]
    /\ UNCHANGED stdout /\ WorkerOnly

\* runtime.activity: the extension says whether it is idle (runtime.canReconnect),
\* then the worker adds its own counts.  RpcRelay.activity() takes its caller for
\* one of its clients, which the broker is not.
ReportsActivity(w) ==
    LET extensionIdle == asked = {} /\ \A r \in Requests : ext[r] # "waiting"
        clients == IF proc[w].clients = 0 THEN 0 ELSE proc[w].clients - 1
    IN
    /\ open /\ Alive(w) /\ probed = w
    /\ \A i \in 1..Len(stdout[w]) : stdout[w][i].kind # "activity"
    /\ Write(w, [kind |-> "activity",
                 idle |-> extensionIdle /\ clients = 0 /\ proc[w].pending = {}])
    /\ UNCHANGED proc /\ WorkerOnly

\* A worker dies: by itself, or at the end of its shutdown.
Die(w) ==
    /\ \/ proc[w].state = "killed" /\ UNCHANGED crashes
       \/ proc[w].state = "running" /\ crashes < MaxCrashes /\ crashes' = crashes + 1
    /\ proc' = [proc EXCEPT ![w] = [Unborn EXCEPT !.state = "dead",
                                                    !.release = proc[w].release]]
    /\ UNCHANGED <<version, extension, broker, stdout>>

-----------------------------------------------------------------------------
(***************************************************************************)
(* The broker: worker output, worker exit, reconciliation                  *)
(***************************************************************************)
NoProbe == swap' = None /\ probed' = 0

\* Line 76 and the extension's #handleMessage.
HandleAnswer(r) ==
    /\ extensionRequests' = extensionRequests \ {r}
    /\ ext' = [ext EXCEPT ![r] = IF @ = "waiting" THEN "answered" ELSE @]
    /\ UNCHANGED <<asked, childRequests, child, swap, probed>>

\* Line 77.
HandleAsk(w, i) ==
    /\ childRequests' = childRequests \cup {i}
    /\ asked' = asked \cup {[worker |-> w, id |-> i]}
    /\ UNCHANGED <<ext, extensionRequests, child, swap, probed>>

\* Mutation: swapping is left set when the worker is busy.
HandleActivity_StaysSwapping(w, idle) ==
    /\ probed = w
    /\ IF idle /\ child # 0
       THEN Replace(swap) /\ NoProbe
       ELSE UNCHANGED <<proc, child>> /\ swap' = swap /\ probed' = 0
    /\ UNCHANGED <<extension, extensionRequests, childRequests>>

\* Lines 68-69 and 165-172: the probe is answered and reconcile() goes on.
HandleActivity(w, idle) ==
    /\ probed = w
    /\ IF idle /\ child # 0
       THEN Replace(swap)
       ELSE UNCHANGED <<proc, child>>
    /\ NoProbe
    /\ UNCHANGED <<extension, extensionRequests, childRequests>>

Output(w) ==
    /\ stdout[w] # <<>>
    /\ LET m == Head(stdout[w]) IN
         \/ m.kind = "answer" /\ HandleAnswer(m.id) /\ UNCHANGED proc
         \/ m.kind = "ask" /\ HandleAsk(w, m.id) /\ UNCHANGED proc
         \/ m.kind = "activity" /\ HandleActivity(w, m.idle)
    /\ stdout' = [stdout EXCEPT ![w] = Tail(@)]
    /\ UNCHANGED <<version, open, contract, crashes>>

\* Nobody waits for the answer any more; should it still come, it is ignored.
ProbeTimesOut ==
    /\ probed # 0
    /\ NoProbe
    /\ \/ /\ \A i \in 1..Len(stdout[probed]) : stdout[probed][i].kind # "activity"
          /\ UNCHANGED stdout
       \/ \E i \in 1..Len(stdout[probed]) :
            /\ stdout[probed][i].kind = "activity"
            /\ stdout' = [stdout EXCEPT ![probed] = RemoveAt(@, i)]
    /\ UNCHANGED <<version, extension, open, contract, child, extensionRequests,
                   childRequests, proc, crashes>>

\* Mutation: the requests of the dead worker are not failed.
FailForwarded_Keeps == UNCHANGED <<ext, extensionRequests, childRequests>>

\* failForwarded.
FailForwarded ==
    /\ ext' = [r \in Requests |->
                 IF r \in extensionRequests /\ ext[r] = "waiting" THEN "failed" ELSE ext[r]]
    /\ extensionRequests' = {}
    /\ childRequests' = {}

\* Mutation: the exit of a worker that was replaced starts another one.
Exit_AnyWorker(w) ==
    /\ proc[w].state = "dead" /\ open
    /\ CanStart
    /\ proc' = [proc EXCEPT ![w].state = "gone", ![NextWorker] = Newborn(Selected(contract))]
    /\ child' = NextWorker
    /\ FailForwarded
    /\ NoProbe
    /\ UNCHANGED <<version, asked, open, contract, stdout, crashes>>

\* Lines 83-89: the exit event, which may come before the end of the output.
Exit(w) ==
    LET s == Selected(contract) IN
    /\ proc[w].state = "dead"
    /\ \/ /\ child # w
          /\ proc' = [proc EXCEPT ![w].state = "gone"]
          /\ UNCHANGED <<extension, broker>>
       \/ /\ child = w /\ s # None
          /\ CanStart
          /\ proc' = [proc EXCEPT ![w].state = "gone", ![NextWorker] = Newborn(s)]
          /\ child' = NextWorker
          /\ FailForwarded
          /\ NoProbe
          /\ UNCHANGED <<asked, open, contract>>
       \/ /\ child = w /\ s = None
          /\ proc' = [proc EXCEPT ![w].state = "gone"]
          /\ child' = 0
          /\ open' = FALSE
          /\ FailForwarded
          /\ NoProbe
          /\ UNCHANGED <<asked, contract>>
    /\ UNCHANGED <<version, stdout, crashes>>

\* reconcile() every five seconds, lines 160-165, and the start of probe(); while
\* requests are known to be in flight the probe gives up at once.
Tick ==
    LET compatible == Selected(contract) IN
    /\ open /\ swap = None
    /\ compatible \notin {None, release}
    /\ child # 0 /\ extensionRequests = {} /\ childRequests = {}
    /\ swap' = compatible
    /\ probed' = child
    /\ UNCHANGED <<version, extension, open, contract, child, extensionRequests,
                   childRequests, proc, stdout, crashes>>

\* An update, a rollback or a setup elsewhere: see RuntimeReleases.
MoveManifest ==
    /\ version < Len(Manifests)
    /\ version' = version + 1
    /\ UNCHANGED <<extension, broker, proc, stdout, crashes>>

-----------------------------------------------------------------------------
Next ==
    \/ \E r \in Requests : Request(r) \/ RequestTimesOut(r)
    \/ SayHello \/ RouteFails \/ Unserved
    \/ \E a \in asked : Answer(a)
    \/ \E w \in Workers :
         \/ \E r \in Requests : WorkerAnswers(w, r)
         \/ \E i \in 1..MaxAsks : WorkerForgets(w, i)
         \/ WorkerAsks(w) \/ ClientConnects(w) \/ ClientLeaves(w)
         \/ ReportsActivity(w) \/ Die(w) \/ Output(w) \/ Exit(w)
    \/ ProbeTimesOut \/ Tick \/ MoveManifest

Spec == Init /\ [][Next]_vars

\* The runtime delivers what was written and every exit, handlers end, a SIGTERM
\* ends a worker, timers fire, and a probe is not late for ever (strong fairness).
Fairness ==
    /\ WF_vars(SayHello)
    /\ \A a \in [worker : Workers, id : 1..MaxAsks] : WF_vars(Answer(a))
    /\ \A w \in Workers :
         /\ \A r \in Requests : WF_vars(WorkerAnswers(w, r))
         /\ \A i \in 1..MaxAsks : WF_vars(WorkerForgets(w, i))
         /\ SF_vars(ReportsActivity(w))
         /\ SF_vars(Output(w))
         /\ WF_vars(Exit(w))
         /\ WF_vars(Die(w) /\ proc[w].state = "killed")
    /\ \A r \in Requests : WF_vars(RequestTimesOut(r))
    /\ WF_vars(ProbeTimesOut)
    /\ WF_vars(Tick)

FairSpec == Spec /\ Fairness

-----------------------------------------------------------------------------
InFlight(r) ==
    \/ \E w \in Workers :
         \/ Alive(w) /\ r \in proc[w].inbox
         \/ \E i \in 1..Len(stdout[w]) : stdout[w][i] = [kind |-> "answer", id |-> r]
    \/ r \in extensionRequests /\ child # 0 /\ proc[child].state = "dead"

\* The extension never waits for an answer nobody will send: whoever has its request
\* answers it, or an exit is still to come that fails it (failForwarded), as long as the
\* broker has not shut down.  Once the manifest has moved, a swap may lose a request:
\* see BusyWorkerDrains.
NoOrphanRequest == open /\ version = 1 => \A r \in Requests : ext[r] = "waiting" => InFlight(r)

\* Not true: the same once the broker has shut down, for which one write to a worker
\* that has just died is enough.  It keeps the port, and the worker's exit is not its
\* worker's any more: what was in flight, and what comes later, waits until it times
\* out, or until a heartbeat did and the extension gives the port up (browser-broker.ts:84,
\* :140-141, :175-179; native-rpc.ts:99-107).
NoOrphanEver == version = 1 => \A r \in Requests : ext[r] = "waiting" => InFlight(r)

\* Every worker the broker let go of was told to stop: two workers never serve the
\* same profile, and each other's exit does not disturb the current one.
OneWorker == \A w \in Workers : proc[w].state = "running" => w = child

Adopted == child # 0 => release = Selected(contract) \/ Selected(contract) = None
BrokerIdle == /\ extensionRequests = {} /\ childRequests = {}
              /\ child # 0 => proc[child].clients = 0

\* When the broker's books stay empty it ends up on the release the manifest selects
\* for the announced contract, through crashes, busy probes and late answers.
IdleBrokerAdopts == <>[]BrokerIdle => <>[]Adopted

SettledIdle == /\ \A r \in Requests : ext[r] # "waiting"
               /\ child # 0 => proc[child].clients = 0

\* "idle processes ... adopt independently" (runtime-updates.md:13), where idle is
\* what the extension and the harnesses see.
IdleProfileAdopts == <>[]SettledIdle => <>[]Adopted

Replaces(w) == /\ swap # None /\ swap' = None
               /\ w = child /\ child' # child /\ open'
               /\ proc[w].state = "running" /\ proc'[w].state = "killed"

\* "Busy connections drain on their existing worker" (runtime-updates.md:13): an update
\* never replaces a worker that is handling a request.
BusyWorkerDrains ==
    [][\A w \in Workers : Replaces(w) => proc[w].inbox = {} /\ proc[w].pending = {}]_vars

\* The same for a worker a harness is connected to: the broker asks for clients > 0.
ConnectedWorkerDrains ==
    [][\A w \in Workers : Replaces(w) => proc[w].clients = 0]_vars

\* "The stable broker routes that browser profile to the desired release when
\* compatible or to the retained fallback otherwise" (runtime-updates.md:15): the
\* worker speaks the contract the extension announced ...
WorkerSpeaksContract == child # 0 => contract \in Contracts[release]

\* ... and harnesses find the profile at the worker that runs.
ProfileRouted ==
    [](open /\ ext[Hello] # "new"
         => <>(child = 0 \/ proc[child].registered \/ ext[Hello] = "failed"))

-----------------------------------------------------------------------------
\* Values for TLC.  Four releases and the contracts they support.
ContractsOf == "one" :> {1} @@ "both" :> {1, 2} @@ "three" :> {2, 3} @@ "old" :> {1}
AllReleases == DOMAIN ContractsOf

\* An update from one compatible release to another.
Update == <<[desired |-> "one", fallback |-> None],
            [desired |-> "both", fallback |-> "one"]>>

\* An update and its rollback.
UpdateRollback == Append(Update, [desired |-> "one", fallback |-> "both"])

\* Two updates in a row; the last needs a contract announced in profile.hello.
TwoUpdates == <<[desired |-> "one", fallback |-> None],
                [desired |-> "old", fallback |-> "one"],
                [desired |-> "three", fallback |-> "old"]>>
=============================================================================
