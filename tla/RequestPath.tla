----------------------------- MODULE RequestPath -----------------------------
(***************************************************************************)
(* A browser command from an agent to the extension and back: the pooled   *)
(* client of each agent process (src/browser/client.ts), its sockets   *)
(* to the native-messaging worker, the worker's relay                      *)
(* (native-host/src/rpc-relay.ts), and the extension's handlers            *)
(* (background/native-rpc.ts).  The same command is known by three ids:    *)
(* the client's, the relay's, and none at all once a handler runs.         *)
(*                                                                         *)
(* A worker listens on a path of its own, so an agent has one client for   *)
(* each worker.  The broker between worker and extension only forwards     *)
(* here; BrowserBroker is about the rest of it.                            *)
(***************************************************************************)
EXTENDS Naturals, FiniteSetsExt, SequencesExt

CONSTANTS
    Calls,          \* request() calls of the agents' clients
    Agents,
    Caller,         \* Caller[c]: the agents that may make call c
    MaxSockets,     \* bound: connections opened
    MaxWorkers,     \* bound: workers started, one after the other
    Error           \* an answer that is an error

ASSUME RequestAssumption ==
    /\ IsFiniteSet(Calls)
    /\ Caller \in [Calls -> SUBSET Agents]
    /\ {MaxSockets, MaxWorkers} \subseteq Nat \ {0}
    /\ Error \notin Calls

VARIABLES
    call,           \* what its caller knows of each call
    client,         \* #socket, #nextRequestId of each agent's client of each worker
    socket,         \* the connections, both ends and both streams
    worker,         \* the worker that runs; none after the last of them
    relay,          \* #nextRequestId, #pendingRequests
    toExtension,    \* requests on their way to the extension
    running,        \* handlers under way in the extension
    toHost,         \* their answers on the way back
    executed,       \* HISTORY: how many handlers began for a call
    strays          \* HISTORY: calls in the extension when a worker ended

vars == <<call, client, socket, worker, relay, toExtension, running, toHost, executed, strays>>
beyond == <<toExtension, running, toHost, executed, strays>>

Workers == 1..MaxWorkers
Sockets == 1..MaxSockets
Clients == Agents \X Workers
Ids == 0..Cardinality(Calls)       \* 0: no id yet
Result == Calls \cup {Error}

Call == [state : {"new", "connecting", "pending", "answered", "failed"},
         client : Clients \cup {<<>>}, id : Ids, socket : 0..MaxSockets, result : Result]
Client == [socket : 0..MaxSockets, next : 1..(Cardinality(Calls) + 1)]
Socket == [owner : Clients \cup {<<>>},
           near : {"unused", "connecting", "open", "destroyed", "closed"},
           far : {"none", "open", "gone"},
           up : SUBSET Calls, down : Seq([id : Ids, result : Result])]

TypeOK ==
    /\ call \in [Calls -> Call]
    /\ client \in [Clients -> Client]
    /\ socket \in [Sockets -> Socket]
    /\ worker \in 1..(MaxWorkers + 1)
    /\ relay \in [next : Nat, pending : SUBSET [rid : Nat, socket : Sockets, id : Ids]]
    /\ toExtension \in Seq([rid : Nat, call : Calls])
    /\ running \subseteq [rid : Nat, call : Calls]
    /\ toHost \in Seq([rid : Nat, result : Result])
    /\ executed \in [Calls -> Nat]
    /\ strays \subseteq Calls

NewRelay == [next |-> 1, pending |-> {}]

Init ==
    /\ call = [c \in Calls |-> [state |-> "new", client |-> <<>>, id |-> 0, socket |-> 0, result |-> Error]]
    /\ client = [k \in Clients |-> [socket |-> 0, next |-> 1]]
    /\ socket = [s \in Sockets |->
                   [owner |-> <<>>, near |-> "unused", far |-> "none", up |-> {}, down |-> <<>>]]
    /\ worker = 1
    /\ relay = NewRelay
    /\ toExtension = <<>> /\ running = {} /\ toHost = <<>>
    /\ executed = [c \in Calls |-> 0] /\ strays = {}

-----------------------------------------------------------------------------
(***************************************************************************)
(* The agent's client                                                      *)
(***************************************************************************)
PendingOf(k) == {c \in Calls : call[c].state = "pending" /\ call[c].client = k}

\* request(), once connected: an id, a timer, an entry in #pending, a frame.
Sent(c, k, s) ==
    /\ call' = [call EXCEPT ![c] = [state |-> "pending", client |-> k, id |-> client[k].next,
                                    socket |-> s, result |-> Error]]
    /\ client' = [client EXCEPT ![k] = [socket |-> s, next |-> @.next + 1]]

\* request() on the socket the client has, connected or still connecting.
RequestOpen(c, a) ==
    /\ call[c].state = "new" /\ worker \in Workers
    /\ LET k == <<a, worker>>
           s == client[k].socket IN
       /\ s # 0
       /\ Sent(c, k, s)
       /\ socket' = [socket EXCEPT ![s].up = @ \cup {c}]
    /\ UNCHANGED <<worker, relay, beyond>>

\* request() without one: #connect() makes a socket and waits for it, and the
\* call has no timer before that.
RequestConnects(c, a) ==
    /\ call[c].state = "new" /\ worker \in Workers
    /\ LET k == <<a, worker>>
           fresh == {s \in Sockets : socket[s].near = "unused"} IN
       /\ client[k].socket = 0 /\ fresh # {}
       /\ LET s == Min(fresh) IN
          /\ socket' = [socket EXCEPT ![s].owner = k, ![s].near = "connecting"]
          /\ client' = [client EXCEPT ![k].socket = s]
          /\ call' = [call EXCEPT ![c].state = "connecting", ![c].client = k, ![c].socket = s]
    /\ UNCHANGED <<worker, relay, beyond>>

ConnectingOn(s) == {c \in Calls : call[c].state = "connecting" /\ call[c].socket = s}

\* The connection is accepted, and the call that asked for it goes out.
Connected(s) ==
    /\ socket[s].near = "connecting" /\ socket[s].owner[2] = worker
    /\ \E c \in ConnectingOn(s) :
         /\ Sent(c, socket[s].owner, s)
         /\ socket' = [socket EXCEPT ![s].near = "open", ![s].far = "open", ![s].up = @ \cup {c}]
    /\ UNCHANGED <<worker, relay, beyond>>

Disconnect_Resends(k, near, more) ==    \* Mutation: what was pending is requested again
    /\ call' = [c \in Calls |-> IF c \in PendingOf(k) \cup more
                                THEN [call[c] EXCEPT !.state = "new"] ELSE call[c]]
    /\ client' = [client EXCEPT ![k].socket = 0]
    /\ socket' = [s \in Sockets |-> IF s = client[k].socket
                                    THEN [socket[s] EXCEPT !.near = "destroyed", !.down = <<>>] ELSE near[s]]

\* #disconnect(): the client's socket, whichever it is now, and all it waits for.
Disconnect(k, near, more) ==
    /\ call' = [c \in Calls |-> IF c \in PendingOf(k) \cup more
                                THEN [call[c] EXCEPT !.state = "failed"] ELSE call[c]]
    /\ client' = [client EXCEPT ![k].socket = 0]
    /\ socket' = [s \in Sockets |-> IF s = client[k].socket
                                    THEN [socket[s] EXCEPT !.near = "destroyed", !.down = <<>>] ELSE near[s]]

ConnectFails(s) ==
    /\ socket[s].near = "connecting" /\ socket[s].owner[2] # worker
    /\ Disconnect(socket[s].owner, socket, ConnectingOn(s))
    /\ UNCHANGED <<worker, relay, beyond>>

\* The "end" of a socket whose worker is gone, or dropped it.
SocketEnds(s) ==
    /\ socket[s].near = "open" /\ socket[s].far = "gone" /\ socket[s].down = <<>>
    /\ Disconnect(socket[s].owner, socket, {})
    /\ UNCHANGED <<worker, relay, beyond>>

\* The "close" that follows the destruction of a socket: it disconnects the
\* client too, which may have another socket by then.
SocketCloses(s) ==
    /\ socket[s].near = "destroyed"
    /\ Disconnect(socket[s].owner, [socket EXCEPT ![s].near = "closed"], {})
    /\ UNCHANGED <<worker, relay, beyond>>

Receive_Late(s) ==                      \* Mutation: an answer settles a call that has failed, too
    /\ socket[s].near = "open" /\ socket[s].down # <<>>
    /\ LET frame == Head(socket[s].down) IN
       call' = [c \in Calls |->
                  IF call[c].client = socket[s].owner /\ call[c].id = frame.id
                  THEN [call[c] EXCEPT !.result = frame.result,
                                       !.state = IF frame.result = Error THEN "failed" ELSE "answered"]
                  ELSE call[c]]
    /\ socket' = [socket EXCEPT ![s].down = Tail(@)]
    /\ UNCHANGED <<client, worker, relay, beyond>>

\* A frame arrives: the pending call of that id is settled, or nothing.
Receive(s) ==
    /\ socket[s].near = "open" /\ socket[s].down # <<>>
    /\ LET frame == Head(socket[s].down) IN
       call' = [c \in Calls |->
                  IF c \in PendingOf(socket[s].owner) /\ call[c].id = frame.id
                  THEN [call[c] EXCEPT !.result = frame.result,
                                       !.state = IF frame.result = Error THEN "failed" ELSE "answered"]
                  ELSE call[c]]
    /\ socket' = [socket EXCEPT ![s].down = Tail(@)]
    /\ UNCHANGED <<client, worker, relay, beyond>>

TimesOut_Dispatched(c) ==               \* Mutation: the timer starts when the relay has the request
    /\ call[c].state = "pending"
    /\ \E p \in relay.pending : p.socket = call[c].socket /\ p.id = call[c].id
    /\ call' = [call EXCEPT ![c].state = "failed"]
    /\ UNCHANGED <<client, socket, worker, relay, beyond>>

TimesOut(c) ==
    /\ call[c].state = "pending"
    /\ call' = [call EXCEPT ![c].state = "failed"]
    /\ UNCHANGED <<client, socket, worker, relay, beyond>>

-----------------------------------------------------------------------------
(***************************************************************************)
(* The worker's relay                                                      *)
(***************************************************************************)
Down(sockets, s, i, r) ==       \* writeFrame to a client, which may have left
    [sockets EXCEPT ![s].down = IF sockets[s].near = "open" THEN Append(@, [id |-> i, result |-> r]) ELSE @]

\* What a client sent is read, and waits to be admitted: out of order, and
\* longer than its client may stay.  Admission may fail, and only the log hears.
NotAdmitted(s, c) ==
    /\ c \in socket[s].up
    /\ socket' = [socket EXCEPT ![s].up = @ \ {c}]
    /\ UNCHANGED <<call, client, worker, relay, beyond>>

Dispatch_ClientId(s, c) ==              \* Mutation: the relay keeps the client's id
    /\ c \in socket[s].up
    /\ socket' = [socket EXCEPT ![s].up = @ \ {c}]
    /\ relay' = [relay EXCEPT !.pending = @ \cup {[rid |-> call[c].id, socket |-> s, id |-> call[c].id]}]
    /\ toExtension' = Append(toExtension, [rid |-> call[c].id, call |-> c])
    /\ UNCHANGED <<call, client, worker, running, toHost, executed, strays>>

\* The request is registered under an id of the relay and goes to the
\* extension, whether or not its client is still there.
Dispatch(s, c) ==
    /\ c \in socket[s].up
    /\ socket' = [socket EXCEPT ![s].up = @ \ {c}]
    /\ relay' = [next |-> relay.next + 1,
                 pending |-> relay.pending \cup {[rid |-> relay.next, socket |-> s, id |-> call[c].id]}]
    /\ toExtension' = Append(toExtension, [rid |-> relay.next, call |-> c])
    /\ UNCHANGED <<call, client, worker, running, toHost, executed, strays>>

\* #deletePending and the answer: from the extension, or from the relay's timer.
Settle(p, r) ==
    /\ relay' = [relay EXCEPT !.pending = @ \ {p}]
    /\ socket' = Down(socket, p.socket, p.id, r)

HostTimesOut_Connected(p) ==            \* Mutation: only for a client that is still connected
    /\ p \in relay.pending /\ socket[p.socket].far = "open"
    /\ Settle(p, Error)
    /\ UNCHANGED <<call, client, worker, beyond>>

HostTimesOut(p) ==
    /\ p \in relay.pending
    /\ Settle(p, Error)
    /\ UNCHANGED <<call, client, worker, beyond>>

\* An answer of the extension is matched by its number alone.
HostAnswers ==
    /\ toHost # <<>> /\ worker \in Workers
    /\ LET answer == Head(toHost)
           match == {p \in relay.pending : p.rid = answer.rid} IN
       \/ \E p \in match : Settle(p, answer.result)
       \/ match = {} /\ UNCHANGED <<relay, socket>>
    /\ toHost' = Tail(toHost)
    /\ UNCHANGED <<call, client, worker, toExtension, running, executed, strays>>

\* #removeClient: a client has left, and its requests are forgotten.
ClientGone(s) ==
    /\ socket[s].far = "open" /\ socket[s].near \in {"destroyed", "closed"}
    /\ relay' = [relay EXCEPT !.pending = {p \in @ : p.socket # s}]
    /\ socket' = [socket EXCEPT ![s].far = "gone"]
    /\ UNCHANGED <<call, client, worker, beyond>>

\* The extension's panel drops a connection, when no request is under way.
PanelDisconnects(s) ==
    /\ socket[s].far = "open" /\ relay.pending = {}
    /\ socket' = [socket EXCEPT ![s].far = "gone", ![s].up = {}]
    /\ UNCHANGED <<call, client, worker, relay, beyond>>

\* The worker ends, and the broker starts another.  The requests it had fail at
\* their clients, by its last words or with their sockets; what the pipe held of
\* the extension's answers is lost with it, or read by the next worker.
WorkerEnds ==
    /\ worker \in Workers
    /\ worker' = worker + 1 /\ relay' = NewRelay
    /\ socket' = [s \in Sockets |-> [socket[s] EXCEPT !.up = {}, !.far = IF @ = "open" THEN "gone" ELSE @]]
    /\ \E n \in 0..Len(toHost) : toHost' = SubSeq(toHost, n + 1, Len(toHost))
    /\ strays' = strays \cup {h.call : h \in running} \cup {f.call : f \in Range(toExtension)}
                        \cup ({f.result : f \in Range(toHost)} \ {Error})
    /\ UNCHANGED <<call, client, toExtension, running, executed>>

-----------------------------------------------------------------------------
(***************************************************************************)
(* The extension                                                           *)
(***************************************************************************)

\* A handler starts, unless the deadline of its request has passed.
HandlerStarts ==
    /\ toExtension # <<>>
    /\ LET f == Head(toExtension) IN
       \/ /\ running' = running \cup {f}
          /\ executed' = [executed EXCEPT ![f.call] = @ + 1]
          /\ UNCHANGED toHost
       \/ /\ toHost' = Append(toHost, [rid |-> f.rid, result |-> Error])
          /\ UNCHANGED <<running, executed>>
    /\ toExtension' = Tail(toExtension)
    /\ UNCHANGED <<call, client, socket, worker, relay, strays>>

\* A handler ends, or its deadline does: one answer on the port there is now.
HandlerEnds(h) ==
    /\ h \in running
    /\ running' = running \ {h}
    /\ \E r \in {h.call, Error} : toHost' = Append(toHost, [rid |-> h.rid, result |-> r])
    /\ UNCHANGED <<call, client, socket, worker, relay, toExtension, executed, strays>>

-----------------------------------------------------------------------------
Next ==
    \/ \E c \in Calls : \E a \in Caller[c] : RequestOpen(c, a) \/ RequestConnects(c, a)
    \/ \E c \in Calls : TimesOut(c)
    \/ \E s \in Sockets : \/ Connected(s) \/ ConnectFails(s) \/ SocketEnds(s) \/ SocketCloses(s)
                          \/ Receive(s) \/ ClientGone(s) \/ PanelDisconnects(s)
    \/ \E s \in Sockets : \E c \in socket[s].up : NotAdmitted(s, c) \/ Dispatch(s, c)
    \/ \E p \in relay.pending : HostTimesOut(p)
    \/ HostAnswers \/ WorkerEnds \/ HandlerStarts
    \/ \E h \in running : HandlerEnds(h)

\* The client's and the relay's timers fire, a connection is accepted or refused,
\* and the relay goes on with what it admits.
Fairness ==
    /\ \A c \in Calls : WF_vars(TimesOut(c))
    /\ \A s \in Sockets : WF_vars(Connected(s) \/ ConnectFails(s)) /\ WF_vars(ClientGone(s))
    /\ WF_vars(\E p \in relay.pending : HostTimesOut(p))

Spec == Init /\ [][Next]_vars /\ Fairness

-----------------------------------------------------------------------------
(***************************************************************************)
(* Properties                                                              *)
(***************************************************************************)

\* A command never runs twice in the browser, however its call was lost: the
\* client fails what it cannot settle, and sends nothing again.
ExecutedOnce == \A c \in Calls : executed[c] <= 1

\* A caller gets another command's result only if that command was in the
\* extension when its worker ended: the ids of the client and of the relay, and
\* requests that are admitted out of order, mix nothing up.
MixedUpOnlyByRestart ==
    \A c \in Calls : call[c].state = "answered" /\ call[c].result # c => call[c].result \in strays

\* "ignores responses for other request ids": no caller gets another's result.
OwnAnswer == \A c \in Calls : call[c].state = "answered" => call[c].result = c

\* A call returns, even if its worker never admitted it, unless the socket that it
\* waits for was destroyed before it connected: nobody settles that promise.
Waits(c) == call[c].state \in {"connecting", "pending"}
Stranded(c) == call[c].state = "connecting" /\ socket[call[c].socket].near \in {"destroyed", "closed"}
CallsReturn == \A c \in Calls : Waits(c) ~> (~Waits(c) \/ Stranded(c))

\* Every call returns.
EveryCallReturns == \A c \in Calls : Waits(c) ~> ~Waits(c)

\* The relay forgets every request, those it registered for a client that had left
\* while they were being admitted too: a worker with requests is never idle.
RelayDrains == []<>(relay.pending = {})

\* What the whole path promises (RequestContract).
Promise == INSTANCE RequestContract WITH
    outcome <- [c \in Calls |->
        CASE call[c].state = "answered" /\ call[c].result = c -> "own"
          [] call[c].state = "answered" /\ call[c].result # c -> "foreign"
          [] call[c].state = "failed" -> "failed"
          [] OTHER -> "none"],
    begun <- {c \in Calls : executed[c] > 0},
    restarted <- worker > 1
KeepsPromise == Promise!Spec

-----------------------------------------------------------------------------
\* A value of Caller for TLC: the first call is one agent's, the others are anybody's.
AnyAgentSecond == LET c == CHOOSE x \in Calls : TRUE
                      a == CHOOSE x \in Agents : TRUE
                  IN  [x \in Calls |-> IF x = c THEN {a} ELSE Agents]
=============================================================================
