--------------------------- MODULE RequestPathProofs ---------------------------
(***************************************************************************)
(* The request path for any calls, agents, sockets and workers.  An id of  *)
(* a client is used once, a relay's id once in the life of its worker, so  *)
(* a frame that belongs to a request of this worker finds that request or  *)
(* none; what a worker leaves in the extension when it ends is a stray.    *)
(* The refinement of RequestContract follows, step by step.                *)
(***************************************************************************)
EXTENDS RequestPath, TLAPS, FiniteSetTheorems, SequenceTheorems, WellFoundedInduction

\* The call was sent: it has an id of its client's, and keeps it.
Numbered(c) == call[c].id # 0
NumberedBy(k) == {c \in Calls : Numbered(c) /\ call[c].client = k}

CallInv ==
    /\ \A c \in Calls :
         /\ call[c].state \in {"new", "connecting"} => ~Numbered(c)
         /\ call[c].state = "pending" => Numbered(c)
         /\ call[c].state = "answered" => call[c].result # Error
         /\ Numbered(c) => /\ call[c].client \in Clients /\ call[c].socket \in Sockets
                           /\ socket[call[c].socket].owner = call[c].client
                           /\ call[c].id < client[call[c].client].next
    /\ \A c, d \in Calls :
         Numbered(c) /\ Numbered(d) /\ call[c].client = call[d].client /\ call[c].id = call[d].id
           => c = d

\* A client counts what it sends; its socket is its own.
ClientInv ==
    \A k \in Clients : /\ client[k].next = Cardinality(NumberedBy(k)) + 1
                       /\ client[k].socket # 0 => socket[client[k].socket].owner = k

\* What waits to be admitted was sent on this socket and is nowhere else.
SocketInv ==
    \A s \in Sockets :
      /\ socket[s].near # "unused" => socket[s].owner \in Clients
      /\ socket[s].near = "unused" => socket[s].owner = <<>>
      /\ \A c \in socket[s].up : Numbered(c) /\ call[c].socket = s /\ executed[c] = 0

\* A number of the relay's on its way is that of a request in its table, if of any,
\* unless another worker gave it.
Matches(rid, c) ==
    \/ c \in strays
    \/ /\ rid < relay.next
       /\ \A p \in relay.pending : p.rid = rid => p.socket = call[c].socket /\ p.id = call[c].id

RelayInv == \A p \in relay.pending : p.rid < relay.next

ExtensionInv ==
    /\ \A f \in Range(toExtension) :
         /\ Numbered(f.call) /\ executed[f.call] = 0 /\ Matches(f.rid, f.call)
         /\ \A s \in Sockets : f.call \notin socket[s].up
    /\ \A i, j \in 1..Len(toExtension) : toExtension[i].call = toExtension[j].call => i = j
    /\ \A h \in running : Numbered(h.call) /\ executed[h.call] > 0 /\ Matches(h.rid, h.call)
    /\ \A a \in Range(toHost) : a.result # Error =>
         Numbered(a.result) /\ executed[a.result] > 0 /\ Matches(a.rid, a.result)

\* An answer on the way to a client is that of the request it sent on this socket.
DownInv ==
    \A s \in Sockets : \A a \in Range(socket[s].down) : a.result # Error =>
      /\ executed[a.result] > 0
      /\ \/ a.result \in strays
         \/ Numbered(a.result) /\ call[a.result].socket = s /\ call[a.result].id = a.id

HistoryInv ==
    /\ \A c \in Calls : executed[c] <= 1 /\ (~Numbered(c) => executed[c] = 0)
    /\ strays # {} => worker > 1

Inv == /\ TypeOK /\ CallInv /\ ClientInv /\ SocketInv /\ RelayInv /\ ExtensionInv /\ DownInv
       /\ HistoryInv /\ MixedUpOnlyByRestart

-----------------------------------------------------------------------------
(* Sequences as the sets of what they hold, and the least of some numbers. *)

LEMMA AppendRange ==
  ASSUME NEW S, NEW q \in Seq(S), NEW e \in S
  PROVE  Append(q, e) \in Seq(S) /\ Range(Append(q, e)) = Range(q) \cup {e}
<1>1. /\ Append(q, e) \in Seq(S) /\ Len(Append(q, e)) = Len(q) + 1 /\ Len(q) \in Nat
      /\ \A i \in 1..Len(q) : Append(q, e)[i] = q[i]
      /\ Append(q, e)[Len(q) + 1] = e
  BY AppendProperties, LenProperties
<1>2. DOMAIN q = 1..Len(q) /\ DOMAIN Append(q, e) = 1..(Len(q) + 1)
  BY <1>1, LenProperties
<1>3. 1..(Len(q) + 1) = 1..Len(q) \cup {Len(q) + 1}
  BY <1>1
<1> QED BY <1>1, <1>2, <1>3 DEF Range

LEMMA TailRange ==
  ASSUME NEW S, NEW q \in Seq(S), q # <<>>
  PROVE  /\ Head(q) \in S /\ Head(q) \in Range(q)
         /\ Tail(q) \in Seq(S) /\ Range(Tail(q)) \subseteq Range(q)
<1>1. /\ Tail(q) \in Seq(S) /\ Len(Tail(q)) = Len(q) - 1 /\ Len(q) \in Nat /\ Len(q) > 0
      /\ \A i \in 1..Len(Tail(q)) : Tail(q)[i] = q[i + 1]
      /\ Head(q) = q[1]
  BY HeadTailProperties, EmptySeq, LenProperties
<1>2. DOMAIN q = 1..Len(q) /\ DOMAIN Tail(q) = 1..(Len(q) - 1)
  BY <1>1, LenProperties
<1>3. 1 \in 1..Len(q) /\ \A i \in 1..(Len(q) - 1) : i + 1 \in 1..Len(q)
  BY <1>1
<1>4. Head(q) \in S
  BY <1>1, <1>3, ElementOfSeq
<1> QED BY <1>1, <1>2, <1>3, <1>4 DEF Range

LEMMA SubSeqRange ==
  ASSUME NEW S, NEW q \in Seq(S), NEW n \in 0..Len(q)
  PROVE  /\ SubSeq(q, n + 1, Len(q)) \in Seq(S)
         /\ Range(SubSeq(q, n + 1, Len(q))) \subseteq Range(q)
<1> DEFINE r == SubSeq(q, n + 1, Len(q))
<1>1. Len(q) \in Nat /\ DOMAIN q = 1..Len(q) /\ \A i \in 1..Len(q) : q[i] \in S
  BY LenProperties, ElementOfSeq
<1>2. Len(r) = Len(q) - n /\ r \in Seq(S) /\ \A i \in 1..(Len(q) - n) : r[i] = q[i + n]
  <2>1. n + 1 \in Int /\ Len(q) \in Int /\ n \in Nat /\ n <= Len(q)
    BY <1>1
  <2>2. \A i \in (n + 1)..Len(q) : q[i] \in S
    BY <1>1, <2>1
  <2>3. /\ r \in Seq(S)
        /\ Len(r) = IF n + 1 <= Len(q) THEN Len(q) - (n + 1) + 1 ELSE 0
        /\ \A i \in 1..(Len(q) - (n + 1) + 1) : r[i] = q[(n + 1) + i - 1]
    BY <2>1, <2>2, SubSeqProperties
  <2>4. Len(q) - (n + 1) + 1 = Len(q) - n /\ \A i \in 1..(Len(q) - n) : (n + 1) + i - 1 = i + n
    BY <1>1, <2>1
  <2>5. Len(r) = Len(q) - n
    <3> HIDE DEF r
    <3>1. CASE n + 1 <= Len(q)
      BY <2>3, <2>4, <3>1
    <3>2. CASE ~(n + 1 <= Len(q))
      <4>1. n = Len(q) /\ Len(q) - n = 0
        <5>1. \A l, i \in Nat : i <= l /\ ~(i + 1 <= l) => i = l /\ l - i = 0
          OBVIOUS
        <5>2. Len(q) \in Nat
          BY <1>1
        <5> QED BY <2>1, <3>2, <5>1, <5>2
      <4> QED BY <2>3, <3>2, <4>1
    <3> QED BY <3>1, <3>2
  <2> QED BY <2>3, <2>4, <2>5
<1>3. \A i \in 1..(Len(q) - n) : i + n \in 1..Len(q)
  BY <1>1
<1>4. DOMAIN r = 1..(Len(q) - n)
  BY <1>2, LenProperties
<1> QED BY <1>1, <1>2, <1>3, <1>4 DEF Range

LEMMA RangeType ==
  ASSUME NEW S, NEW q \in Seq(S), NEW e \in Range(q)
  PROVE  e \in S
BY ElementOfSeq, LenProperties DEF Range

LEMMA MinFacts ==
  ASSUME NEW T, T \subseteq Nat, T # {}
  PROVE  Min(T) \in T
<1>1. PICK x \in T : \A y \in T : ~(<<y, x>> \in OpToRel(<, Nat))
  BY WFMin, NatLessThanWellFounded
<1>2. ASSUME NEW y \in T PROVE x =< y
  <2>1. x \in Nat /\ y \in Nat /\ <<y, x>> \in Nat \X Nat
    OBVIOUS
  <2>2. ~(<<y, x>>[1] < <<y, x>>[2])
    BY <1>1, <2>1 DEF OpToRel
  <2> QED BY <2>1, <2>2
<1> QED BY <1>2 DEF Min

-----------------------------------------------------------------------------
(* What steps leave alone. *)

LEMMA Constants ==
  /\ MaxSockets \in Nat /\ MaxWorkers \in Nat /\ Cardinality(Calls) \in Nat
  /\ Sockets = 1..MaxSockets /\ 0 \notin Sockets /\ 0 \in 0..MaxSockets /\ Sockets \subseteq 0..MaxSockets
  /\ 0 \in Ids /\ Ids = 0..Cardinality(Calls)
  /\ Error \in Result /\ Calls \subseteq Result
  /\ Error \notin Calls
BY RequestAssumption, FS_CardinalityType DEF Sockets, Ids, Result

\* What travels are numbers of the relay's, calls and results.
LEMMA QueueTypes ==
  ASSUME TypeOK
  PROVE  /\ \A f \in Range(toExtension) : f.call \in Calls /\ f.rid \in Nat
         /\ \A h \in running : h.call \in Calls /\ h.rid \in Nat
         /\ \A a \in Range(toHost) : a.rid \in Nat /\ (a.result # Error => a.result \in Calls)
         /\ \A s \in Sockets : \A a \in Range(socket[s].down) : a.result # Error => a.result \in Calls
<1>1. \A f \in Range(toExtension) : f \in [rid : Nat, call : Calls]
  BY RangeType DEF TypeOK
<1>2. \A a \in Range(toHost) : a \in [rid : Nat, result : Result]
  BY RangeType DEF TypeOK
<1>3. \A s \in Sockets : \A a \in Range(socket[s].down) : a \in [id : Ids, result : Result]
  BY RangeType DEF TypeOK, Socket
<1> QED BY <1>1, <1>2, <1>3 DEF TypeOK, Result

\* A call that was sent keeps its client, its id and its socket.
RoutesKept ==
  \A c \in Calls : Numbered(c) => /\ call'[c].client = call[c].client
                                  /\ call'[c].id = call[c].id
                                  /\ call'[c].socket = call[c].socket

SameRoutes ==
  \A c \in Calls : /\ call'[c].client = call[c].client
                   /\ call'[c].id = call[c].id
                   /\ call'[c].socket = call[c].socket

\* What happens at the clients' ends changes nothing beyond.
LEMMA ClientSide ==
  ASSUME Inv, RoutesKept, UNCHANGED <<worker, relay, beyond>>,
         \A s \in Sockets : /\ \A c \in socket'[s].up : c \in socket[s].up \/ ~Numbered(c)
                            /\ Range(socket'[s].down) \subseteq Range(socket[s].down)
  PROVE  RelayInv' /\ ExtensionInv' /\ DownInv' /\ HistoryInv'
<1> USE DEF Inv, beyond
<1>1. RelayInv'
  BY DEF RelayInv
<1>2. \A c \in Calls : Numbered(c) => Numbered(c)'
  BY DEF RoutesKept, Numbered
<1>3. HistoryInv'
  BY <1>2 DEF HistoryInv
<1>4. \A c \in Calls, rid \in Nat : Numbered(c) /\ Matches(rid, c) => Matches(rid, c)'
  BY DEF Matches, RoutesKept
<1>5. /\ \A f \in Range(toExtension) : f.call \in Calls /\ f.rid \in Nat
      /\ \A h \in running : h.call \in Calls /\ h.rid \in Nat
      /\ \A a \in Range(toHost) : a.rid \in Nat /\ (a.result # Error => a.result \in Calls)
      /\ \A s \in Sockets : \A a \in Range(socket[s].down) : a.result # Error => a.result \in Calls
  BY QueueTypes
<1>6. ExtensionInv'
  BY <1>2, <1>4, <1>5 DEF ExtensionInv
<1>7. DownInv'
  BY <1>2, <1>5 DEF DownInv, RoutesKept
<1> QED BY <1>1, <1>3, <1>6, <1>7

\* Calls are settled, sockets are destroyed or closed, frames are read.
LEMMA SettleStep ==
  ASSUME Inv, TypeOK', MixedUpOnlyByRestart', SameRoutes, UNCHANGED <<worker, relay, beyond>>,
         \A c \in Calls :
           /\ call'[c].state \in {"new", "connecting"} => call[c].state \in {"new", "connecting"}
           /\ call'[c].state = "pending" => call[c].state = "pending"
           /\ call'[c].state = "answered" => call'[c].result # Error,
         \A k \in Clients : /\ client'[k].next = client[k].next
                            /\ client'[k].socket \in {0, client[k].socket},
         \A s \in Sockets : /\ socket'[s].owner = socket[s].owner
                            /\ socket'[s].near = "unused" <=> socket[s].near = "unused"
                            /\ socket'[s].up = socket[s].up
                            /\ Range(socket'[s].down) \subseteq Range(socket[s].down)
  PROVE  Inv'
<1> USE DEF Inv
<1>1. RelayInv' /\ ExtensionInv' /\ DownInv' /\ HistoryInv'
  BY ClientSide DEF SameRoutes, RoutesKept
<1>2. \A c \in Calls : Numbered(c)' <=> Numbered(c)
  BY DEF SameRoutes, Numbered
<1>3. CallInv'
  BY <1>2 DEF CallInv, SameRoutes
<1>4. \A k \in Clients : NumberedBy(k)' = NumberedBy(k)
  BY <1>2 DEF NumberedBy, SameRoutes
<1>5. ClientInv'
  <2>1. \A k \in Clients : client[k].socket # 0 => client[k].socket \in Sockets
    BY Constants DEF TypeOK, Client
  <2> QED BY <1>4, <2>1 DEF ClientInv
<1>6. SocketInv'
  <2>1. \A s \in Sockets : socket[s].up \subseteq Calls
    BY DEF TypeOK, Socket
  <2> QED BY <1>2, <2>1 DEF SocketInv, SameRoutes, beyond
<1> QED BY <1>1, <1>3, <1>5, <1>6

\* A call is sent: its id is fresh, and nobody has it yet.
LEMMA SentStep ==
  ASSUME Inv, NEW c \in Calls, NEW k \in Clients, NEW s \in Sockets,
         ~Numbered(c), socket[s].owner = k, Sent(c, k, s),
         UNCHANGED <<worker, relay, beyond>>,
         NEW b \in Socket, socket' = [socket EXCEPT ![s] = b],
         b.owner = k, b.near # "unused", b.up = socket[s].up \cup {c}, b.down = socket[s].down
  PROVE  Inv'
<1> USE DEF Inv
<1> DEFINE new == [state |-> "pending", client |-> k, id |-> client[k].next,
                   socket |-> s, result |-> Error]
<1>1. /\ call \in [Calls -> Call] /\ client \in [Clients -> Client] /\ socket \in [Sockets -> Socket]
      /\ call' = [call EXCEPT ![c] = new]
  BY DEF TypeOK, Sent
<1>2. /\ \A d \in Calls : d # c => call'[d] = call[d]
      /\ call'[c] = new
  BY <1>1
<1>3. /\ \A j \in Clients : j # k => client'[j] = client[j]
      /\ client'[k].socket = s /\ client'[k].next = client[k].next + 1
      /\ client[k].next \in Nat /\ client[k].next > 0
  BY <1>1, Constants DEF Sent, Client
<1>4. /\ \A t \in Sockets : t # s => socket'[t] = socket[t]
      /\ socket'[s] = b
  BY <1>1
<1>5. /\ IsFiniteSet(NumberedBy(k)) /\ Cardinality(NumberedBy(k)) + 1 <= Cardinality(Calls)
      /\ c \notin NumberedBy(k)
  <2>1. NumberedBy(k) \subseteq Calls \ {c}
    BY DEF NumberedBy
  <2>2. IsFiniteSet(Calls \ {c}) /\ Cardinality(Calls \ {c}) = Cardinality(Calls) - 1
    BY RequestAssumption, FS_RemoveElement
  <2> QED BY <2>1, <2>2, FS_Subset, FS_CardinalityType, Constants
<1>6. client[k].next \in Ids /\ client[k].next + 1 \in 1..(Cardinality(Calls) + 1)
  BY <1>3, <1>5, Constants, FS_CardinalityType DEF ClientInv
<1>7. TypeOK'
  <2>1. new \in Call
    BY <1>6, Constants DEF Call
  <2>2. client' \in [Clients -> Client]
    <3>1. [socket |-> s, next |-> client[k].next + 1] \in Client
      BY <1>6, Constants DEF Client
    <3>2. client' = [client EXCEPT ![k] = [socket |-> s, next |-> client[k].next + 1]]
      BY DEF Sent
    <3> QED BY <1>1, <3>1, <3>2
  <2>3. socket' \in [Sockets -> Socket] /\ call' \in [Calls -> Call]
    BY <1>1, <2>1
  <2> QED BY <2>2, <2>3 DEF TypeOK, beyond
<1>8. Numbered(c)' /\ \A d \in Calls : d # c => (Numbered(d)' <=> Numbered(d))
  BY <1>2, <1>3 DEF Numbered
<1>9. RoutesKept
  BY <1>2 DEF RoutesKept
<1>10. RelayInv' /\ ExtensionInv' /\ DownInv' /\ HistoryInv'
  BY <1>4, <1>9, ClientSide
<1>11. CallInv'
  <2>1. ASSUME NEW d \in Calls, Numbered(d), d # c
        PROVE  /\ call'[d].client \in Clients /\ call'[d].socket \in Sockets
               /\ socket'[call'[d].socket].owner = call'[d].client
               /\ call'[d].id < client'[call'[d].client].next
    <3>1. /\ call[d].client \in Clients /\ call[d].socket \in Sockets
          /\ socket[call[d].socket].owner = call[d].client
          /\ call[d].id < client[call[d].client].next /\ call[d].id \in Nat
      BY <2>1, <1>1, Constants DEF CallInv, Call
    <3> QED BY <1>2, <1>3, <1>4, <2>1, <3>1
  <2>2. ASSUME NEW d \in Calls, Numbered(d), call[d].client = k PROVE call[d].id # client[k].next
    <3>1. call[d].id < client[k].next /\ call[d].id \in Nat
      BY <2>2, <1>1, Constants DEF CallInv, Call
    <3> QED BY <1>3, <3>1
  <2>3. ASSUME NEW d \in Calls
        PROVE  /\ call'[d].state \in {"new", "connecting"} => ~Numbered(d)'
               /\ call'[d].state = "pending" => Numbered(d)'
               /\ call'[d].state = "answered" => call'[d].result # Error
    BY <1>2, <1>8 DEF CallInv
  <2>4. /\ call'[c].client = k /\ call'[c].socket = s /\ call'[c].id = client[k].next
        /\ socket'[s].owner = k /\ client[k].next < client'[k].next
    BY <1>2, <1>3, <1>4
  <2>5. ASSUME NEW d \in Calls, NEW e \in Calls, Numbered(d)', Numbered(e)',
               call'[d].client = call'[e].client, call'[d].id = call'[e].id
        PROVE  d = e
    BY <1>2, <1>8, <2>2, <2>4, <2>5 DEF CallInv
  <2> QED BY <1>8, <2>1, <2>3, <2>4, <2>5 DEF CallInv
<1>12. ClientInv'
  <2>1. NumberedBy(k)' = NumberedBy(k) \cup {c}
    BY <1>2, <1>8 DEF NumberedBy
  <2>2. \A j \in Clients : j # k => NumberedBy(j)' = NumberedBy(j)
    BY <1>2, <1>8 DEF NumberedBy
  <2>3. Cardinality(NumberedBy(k) \cup {c}) = Cardinality(NumberedBy(k)) + 1
    BY <1>5, FS_AddElement
  <2>4. \A j \in Clients : client[j].socket # 0 => client[j].socket \in Sockets
    BY <1>1, Constants DEF Client
  <2>5. client[k].next = Cardinality(NumberedBy(k)) + 1
    BY DEF ClientInv
  <2>6. client'[k].next = Cardinality(NumberedBy(k)') + 1
    BY <1>3, <2>1, <2>3, <2>5
  <2>7. \A j \in Clients : j # k => client'[j].next = Cardinality(NumberedBy(j)') + 1
    BY <1>3, <2>2 DEF ClientInv
  <2>8. \A j \in Clients : client'[j].socket # 0 => socket'[client'[j].socket].owner = j
    BY <1>3, <1>4, <2>4 DEF ClientInv
  <2> QED BY <2>6, <2>7, <2>8 DEF ClientInv
<1>13. SocketInv'
  <2>1. executed[c] = 0
    BY DEF HistoryInv
  <2>2. \A t \in Sockets : socket[t].up \subseteq Calls
    BY <1>1 DEF Socket
  <2>3. \A t \in Sockets : \A d \in socket'[t].up :
          Numbered(d)' /\ call'[d].socket = t /\ executed'[d] = 0
    BY <1>2, <1>4, <1>8, <2>1, <2>2 DEF SocketInv, beyond
  <2> QED BY <1>4, <2>3 DEF SocketInv
<1>14. MixedUpOnlyByRestart'
  BY <1>2 DEF MixedUpOnlyByRestart, beyond
<1> QED BY <1>7, <1>10, <1>11, <1>12, <1>13, <1>14

-----------------------------------------------------------------------------
(* The client's steps. *)

LEMMA OwnSocket ==
  ASSUME Inv, NEW k \in Clients, client[k].socket # 0
  PROVE  /\ client[k].socket \in Sockets /\ socket[client[k].socket].owner = k
         /\ socket[client[k].socket].near # "unused"
<1>1. client[k] \in Client
  BY DEF Inv, TypeOK
<1>2. client[k].socket \in Sockets
  BY <1>1, Constants DEF Client
<1>3. socket[client[k].socket].owner = k
  BY DEF Inv, ClientInv
<1>4. k # <<>>
  BY DEF Clients
<1> QED BY <1>2, <1>3, <1>4 DEF Inv, SocketInv

LEMMA RequestOpenInv ==
  ASSUME Inv, NEW c \in Calls, NEW a \in Agents, RequestOpen(c, a)
  PROVE  Inv'
<1> DEFINE k == <<a, worker>>
           s == client[k].socket
           b == [socket[s] EXCEPT !.up = @ \cup {c}]
<1>1. k \in Clients /\ s # 0 /\ worker \in Workers
  BY DEF RequestOpen, Clients
<1>2. s \in Sockets /\ socket[s].owner = k
  BY <1>1, OwnSocket
<1>3. ~Numbered(c)
  BY DEF RequestOpen, Inv, CallInv
<1>4. socket[s] \in Socket /\ socket[s].near # "unused"
  BY <1>1, <1>2, OwnSocket DEF Inv, TypeOK
<1>5. /\ b \in Socket /\ b.owner = k /\ b.near # "unused"
      /\ b.up = socket[s].up \cup {c} /\ b.down = socket[s].down
  BY <1>2, <1>4 DEF Socket
<1>6. socket' = [socket EXCEPT ![s] = b] /\ Sent(c, k, s) /\ UNCHANGED <<worker, relay, beyond>>
  BY DEF RequestOpen
<1> HIDE DEF k, s, b
<1> QED BY <1>1, <1>2, <1>3, <1>5, <1>6, SentStep

LEMMA ConnectedInv ==
  ASSUME Inv, NEW s \in Sockets, Connected(s)
  PROVE  Inv'
<1>1. PICK c \in ConnectingOn(s) :
        /\ Sent(c, socket[s].owner, s)
        /\ socket' = [socket EXCEPT ![s].near = "open", ![s].far = "open", ![s].up = @ \cup {c}]
  BY DEF Connected
<1> DEFINE k == socket[s].owner
<1>2. c \in Calls /\ ~Numbered(c) /\ k \in Clients /\ socket[s] \in Socket
  BY DEF ConnectingOn, Connected, Inv, CallInv, SocketInv, TypeOK
<1> DEFINE b == [socket[s] EXCEPT !.near = "open", !.far = "open", !.up = @ \cup {c}]
<1>3. /\ b \in Socket /\ b.owner = k /\ b.near # "unused"
      /\ b.up = socket[s].up \cup {c} /\ b.down = socket[s].down
  BY <1>2 DEF Socket
<1>4. socket' = [socket EXCEPT ![s] = b] /\ Sent(c, k, s) /\ socket[s].owner = k
  BY <1>1
<1>5. UNCHANGED <<worker, relay, beyond>>
  BY DEF Connected
<1> HIDE DEF b, k
<1> QED BY <1>2, <1>3, <1>4, <1>5, SentStep

LEMMA RequestConnectsInv ==
  ASSUME Inv, NEW c \in Calls, NEW a \in Agents, RequestConnects(c, a)
  PROVE  Inv'
<1> USE DEF Inv
<1> DEFINE k == <<a, worker>>
           s == Min({t \in Sockets : socket[t].near = "unused"})
           d == [call[c] EXCEPT !.state = "connecting", !.client = k, !.socket = s]
           b == [socket[s] EXCEPT !.owner = k, !.near = "connecting"]
           x == [client[k] EXCEPT !.socket = s]
<1>1. k \in Clients /\ worker \in Workers /\ client[k].socket = 0 /\ call[c].state = "new"
  BY DEF RequestConnects, Clients
<1>2. s \in Sockets /\ socket[s].near = "unused"
  <2>1. {t \in Sockets : socket[t].near = "unused"} \subseteq Nat
    BY Constants
  <2>2. {t \in Sockets : socket[t].near = "unused"} # {}
    BY DEF RequestConnects
  <2> QED BY <2>1, <2>2, MinFacts
<1>3. /\ socket' = [socket EXCEPT ![s] = b] /\ client' = [client EXCEPT ![k] = x]
      /\ call' = [call EXCEPT ![c] = d] /\ UNCHANGED <<worker, relay, beyond>>
  BY DEF RequestConnects
<1>4. /\ call \in [Calls -> Call] /\ client \in [Clients -> Client] /\ socket \in [Sockets -> Socket]
  BY DEF TypeOK
<1>5. /\ d \in Call /\ d.state = "connecting" /\ d.id = call[c].id
      /\ b \in Socket /\ b.owner = k /\ b.near = "connecting" /\ b.up = socket[s].up
      /\ b.down = socket[s].down
      /\ x \in Client /\ x.socket = s /\ x.next = client[k].next
  <2>1. d \in Call /\ d.state = "connecting" /\ d.id = call[c].id
    BY <1>1, <1>2, <1>4, Constants, ZenonT(40) DEF Call
  <2>2. /\ b \in Socket /\ b.owner = k /\ b.near = "connecting" /\ b.up = socket[s].up
        /\ b.down = socket[s].down
    BY <1>1, <1>2, <1>4 DEF Socket
  <2>3. x \in Client /\ x.socket = s /\ x.next = client[k].next
    <3>1. client[k] \in Client
      BY <1>1, <1>4
    <3>2. s \in 0..MaxSockets
      BY <1>2, Constants
    <3> QED BY <3>1, <3>2 DEF Client
  <2> QED BY <2>1, <2>2, <2>3
<1> HIDE DEF k, s, d, b, x
<1>6. /\ call' \in [Calls -> Call] /\ client' \in [Clients -> Client] /\ socket' \in [Sockets -> Socket]
      /\ call'[c] = d /\ \A e \in Calls : e # c => call'[e] = call[e]
      /\ client'[k] = x /\ \A j \in Clients : j # k => client'[j] = client[j]
      /\ socket'[s] = b /\ \A t \in Sockets : t # s => socket'[t] = socket[t]
  BY <1>1, <1>2, <1>3, <1>4, <1>5
<1>7. TypeOK'
  BY <1>3, <1>6 DEF TypeOK, beyond
<1>8. ~Numbered(c) /\ \A e \in Calls : Numbered(e)' <=> Numbered(e)
  BY <1>1, <1>5, <1>6 DEF CallInv, Numbered
<1>9. RelayInv' /\ ExtensionInv' /\ DownInv' /\ HistoryInv'
  <2>1. RoutesKept
    BY <1>6, <1>8 DEF RoutesKept
  <2> QED BY <1>3, <1>5, <1>6, <2>1, ClientSide
<1>10. \A e \in Calls : Numbered(e) => call'[e] = call[e] /\ call[e].socket # s
  <2>1. socket[s].owner = <<>>
    BY <1>2 DEF SocketInv
  <2>2. \A j \in Clients : j # <<>>
    BY DEF Clients
  <2> QED BY <1>6, <1>8, <2>1, <2>2 DEF CallInv
<1>11. CallInv'
  <2>1. ASSUME NEW e \in Calls, Numbered(e)
        PROVE  /\ call'[e].client \in Clients /\ call'[e].socket \in Sockets
               /\ socket'[call'[e].socket].owner = call'[e].client
               /\ call'[e].id < client'[call'[e].client].next
    <3>1. /\ call'[e] = call[e] /\ call[e].socket # s
          /\ call[e].client \in Clients /\ call[e].socket \in Sockets
          /\ socket[call[e].socket].owner = call[e].client
          /\ call[e].id < client[call[e].client].next
      BY <1>10, <2>1 DEF CallInv
    <3>2. client'[call[e].client].next = client[call[e].client].next
      BY <1>5, <1>6, <3>1
    <3> QED BY <1>6, <3>1, <3>2
  <2>2. ASSUME NEW e \in Calls
        PROVE  /\ call'[e].state \in {"new", "connecting"} => ~Numbered(e)'
               /\ call'[e].state = "pending" => Numbered(e)'
               /\ call'[e].state = "answered" => call'[e].result # Error
    BY <1>5, <1>6, <1>8 DEF CallInv
  <2>3. ASSUME NEW e \in Calls, NEW g \in Calls, Numbered(e)', Numbered(g)',
               call'[e].client = call'[g].client, call'[e].id = call'[g].id
        PROVE  e = g
    BY <1>8, <1>10, <2>3 DEF CallInv
  <2> QED BY <1>8, <2>1, <2>2, <2>3 DEF CallInv
<1>12. ClientInv'
  <2>1. \A j \in Clients : NumberedBy(j)' = NumberedBy(j)
    BY <1>8, <1>10 DEF NumberedBy
  <2>2. \A j \in Clients : client'[j].next = client[j].next
    BY <1>5, <1>6
  <2>3. ASSUME NEW j \in Clients, client'[j].socket # 0
        PROVE  socket'[client'[j].socket].owner = j
    <3>1. CASE j = k
      BY <1>5, <1>6, <3>1
    <3>2. CASE j # k
      <4>1. client[j].socket # 0 /\ client[j].socket \in Sockets /\ client'[j] = client[j]
            /\ socket[client[j].socket].owner = j
        BY <1>4, <1>6, <2>3, <3>2, Constants DEF Client, ClientInv
      <4>2. socket[s].owner # j
        BY <1>2 DEF SocketInv, Clients
      <4> QED BY <1>6, <4>1, <4>2
    <3> QED BY <3>1, <3>2
  <2> QED BY <2>1, <2>2, <2>3 DEF ClientInv
<1>13. SocketInv'
  <2>1. \A t \in Sockets : socket'[t].up = socket[t].up /\ socket[t].up \subseteq Calls
    BY <1>4, <1>5, <1>6 DEF Socket
  <2>2. \A t \in Sockets : /\ socket'[t].near # "unused" => socket'[t].owner \in Clients
                           /\ socket'[t].near = "unused" => socket'[t].owner = <<>>
    BY <1>1, <1>5, <1>6 DEF SocketInv
  <2>3. \A t \in Sockets : \A e \in socket'[t].up :
          Numbered(e)' /\ call'[e].socket = t /\ executed'[e] = 0
    BY <1>3, <1>8, <1>10, <2>1 DEF SocketInv, beyond
  <2> QED BY <2>2, <2>3 DEF SocketInv
<1>14. MixedUpOnlyByRestart'
  BY <1>3, <1>5, <1>6 DEF MixedUpOnlyByRestart, beyond
<1> QED BY <1>7, <1>9, <1>11, <1>12, <1>13, <1>14

\* #disconnect: the calls it fails had been sent, or wait for the connection.
LEMMA DisconnectInv ==
  ASSUME Inv, NEW k \in Clients, NEW near \in [Sockets -> Socket], NEW more,
         Disconnect(k, near, more), UNCHANGED <<worker, relay, beyond>>,
         \A s \in Sockets : /\ near[s].owner = socket[s].owner
                            /\ near[s].near = "unused" <=> socket[s].near = "unused"
                            /\ near[s].up = socket[s].up
                            /\ near[s].down = socket[s].down
  PROVE  Inv'
<1> USE DEF Inv
<1>1. /\ call \in [Calls -> Call] /\ client \in [Clients -> Client] /\ socket \in [Sockets -> Socket]
  BY DEF TypeOK
<1>2. \A c \in Calls : /\ [call[c] EXCEPT !.state = "failed"] \in Call
                       /\ [call[c] EXCEPT !.state = "failed"].state = "failed"
                       /\ [call[c] EXCEPT !.state = "failed"].client = call[c].client
                       /\ [call[c] EXCEPT !.state = "failed"].id = call[c].id
                       /\ [call[c] EXCEPT !.state = "failed"].socket = call[c].socket
                       /\ [call[c] EXCEPT !.state = "failed"].result = call[c].result
  BY <1>1 DEF Call
<1>3. /\ call' \in [Calls -> Call] /\ SameRoutes
      /\ \A c \in Calls : call'[c] = call[c] \/ call'[c].state = "failed"
  BY <1>1, <1>2 DEF Disconnect, SameRoutes
<1> DEFINE x == [client[k] EXCEPT !.socket = 0]
<1>4. x \in Client /\ x.socket = 0 /\ x.next = client[k].next
  BY <1>1, Constants DEF Client
<1>5. client' = [client EXCEPT ![k] = x]
  BY DEF Disconnect
<1>6. /\ client' \in [Clients -> Client]
      /\ \A j \in Clients : /\ client'[j].next = client[j].next
                            /\ client'[j].socket \in {0, client[j].socket}
  BY <1>1, <1>4, <1>5
<1>7. ASSUME NEW s \in Sockets
      PROVE  /\ socket'[s] \in Socket
             /\ socket'[s].owner = socket[s].owner
             /\ socket'[s].near = "unused" <=> socket[s].near = "unused"
             /\ socket'[s].up = socket[s].up
             /\ Range(socket'[s].down) \subseteq Range(socket[s].down)
  <2>1. CASE s = client[k].socket
    <3> DEFINE b == [socket[s] EXCEPT !.near = "destroyed", !.down = <<>>]
    <3>0. <<>> \in Seq([id : Ids, result : Result])
      BY EmptySeq
    <3>1. /\ b \in Socket /\ b.owner = socket[s].owner /\ b.near = "destroyed"
          /\ b.up = socket[s].up /\ b.down = <<>>
      BY <1>1, <3>0, ZenonT(40) DEF Socket
    <3>2. socket'[s] = b
      BY <2>1 DEF Disconnect
    <3>3. socket[s].near # "unused"
      BY <2>1, Constants, OwnSocket
    <3>4. Range(<<>>) = {}
      BY DEF Range
    <3> HIDE DEF b
    <3> QED BY <3>1, <3>2, <3>3, <3>4
  <2>2. CASE s # client[k].socket
    <3>1. socket'[s] = near[s]
      BY <2>2 DEF Disconnect
    <3> QED BY <3>1
  <2> QED BY <2>1, <2>2
<1>8. socket' \in [Sockets -> Socket]
  <2>1. socket' = [s \in Sockets |-> socket'[s]]
    BY DEF Disconnect
  <2> QED BY <1>7, <2>1
<1>9. TypeOK'
  BY <1>3, <1>6, <1>8 DEF TypeOK, beyond
<1>10. MixedUpOnlyByRestart'
  BY <1>3 DEF MixedUpOnlyByRestart, beyond
<1>11. \A c \in Calls :
          /\ call'[c].state \in {"new", "connecting"} => call[c].state \in {"new", "connecting"}
          /\ call'[c].state = "pending" => call[c].state = "pending"
          /\ call'[c].state = "answered" => call'[c].result # Error
  BY <1>3 DEF CallInv
<1> QED BY <1>3, <1>6, <1>7, <1>9, <1>10, <1>11, SettleStep

LEMMA ClosingInv ==
  ASSUME Inv, NEW s \in Sockets, ConnectFails(s) \/ SocketEnds(s) \/ SocketCloses(s)
  PROVE  Inv'
<1>1. socket \in [Sockets -> Socket] /\ socket[s].owner \in Clients /\ socket[s].near # "unused"
  BY DEF Inv, TypeOK, SocketInv, ConnectFails, SocketEnds, SocketCloses
<1>2. UNCHANGED <<worker, relay, beyond>>
  BY DEF ConnectFails, SocketEnds, SocketCloses
<1> DEFINE b == [socket[s] EXCEPT !.near = "closed"]
           near == [socket EXCEPT ![s] = b]
<1>3. /\ b \in Socket /\ b.owner = socket[s].owner /\ b.near = "closed"
      /\ b.up = socket[s].up /\ b.down = socket[s].down
  BY <1>1 DEF Socket
<1>4. CASE SocketCloses(s)
  <2>1. Disconnect(socket[s].owner, near, {})
    BY <1>4 DEF SocketCloses
  <2>2. near \in [Sockets -> Socket] /\ near[s] = b /\ \A t \in Sockets : t # s => near[t] = socket[t]
    BY <1>1, <1>3
  <2> HIDE DEF b, near
  <2> QED BY <1>1, <1>2, <1>3, <2>1, <2>2, DisconnectInv
<1>5. CASE SocketEnds(s) \/ ConnectFails(s)
  <2>1. PICK more : Disconnect(socket[s].owner, socket, more)
    BY <1>5 DEF SocketEnds, ConnectFails
  <2> QED BY <1>1, <1>2, <2>1, DisconnectInv
<1> QED BY <1>4, <1>5

\* The frame that is read: it settles one call at most, its own but for strays.
LEMMA FrameFacts ==
  ASSUME Inv, NEW s \in Sockets, socket[s].near = "open", socket[s].down # <<>>,
         NEW frame, frame = Head(socket[s].down)
  PROVE  /\ frame \in [id : Ids, result : Result]
         /\ \A c, d \in PendingOf(socket[s].owner) :
               call[c].id = frame.id /\ call[d].id = frame.id => c = d
         /\ frame.result # Error =>
              /\ frame.result \in Calls /\ executed[frame.result] > 0
              /\ frame.result \notin strays =>
                   \A c \in PendingOf(socket[s].owner) : call[c].id = frame.id => c = frame.result
         /\ \A c \in PendingOf(socket[s].owner) : c \in Calls /\ call[c].state = "pending"
<1> USE DEF Inv
<1>1. socket[s].down \in Seq([id : Ids, result : Result])
  BY DEF TypeOK, Socket
<1>2. frame \in [id : Ids, result : Result] /\ frame \in Range(socket[s].down)
  BY <1>1, TailRange
<1>3. \A c \in PendingOf(socket[s].owner) :
         c \in Calls /\ call[c].state = "pending" /\ Numbered(c) /\ call[c].client = socket[s].owner
  BY DEF PendingOf, CallInv
<1>4. \A c, d \in PendingOf(socket[s].owner) :
         call[c].id = frame.id /\ call[d].id = frame.id => c = d
  BY <1>3 DEF CallInv
<1>5. ASSUME frame.result # Error
      PROVE  /\ frame.result \in Calls /\ executed[frame.result] > 0
             /\ frame.result \notin strays =>
                  \A c \in PendingOf(socket[s].owner) : call[c].id = frame.id => c = frame.result
  <2> DEFINE r == frame.result
  <2>1. r \in Calls
    BY <1>2, <1>5 DEF Result
  <2>2. /\ executed[r] > 0
        /\ \/ r \in strays
           \/ Numbered(r) /\ call[r].socket = s /\ call[r].id = frame.id
    BY <1>2, <1>5 DEF DownInv
  <2>3. Numbered(r) /\ call[r].socket = s => call[r].client = socket[s].owner
    BY <2>1 DEF CallInv
  <2> QED BY <1>3, <2>1, <2>2, <2>3 DEF CallInv
<1> QED BY <1>2, <1>3, <1>4, <1>5

LEMMA ReceiveInv ==
  ASSUME Inv, NEW s \in Sockets, Receive(s)
  PROVE  Inv'
<1> USE DEF Inv
<1> DEFINE frame == Head(socket[s].down)
           k == socket[s].owner
           Settled(c) == [call[c] EXCEPT !.result = frame.result,
                                         !.state = IF frame.result = Error THEN "failed" ELSE "answered"]
           b == [socket[s] EXCEPT !.down = Tail(@)]
<1>1. /\ call \in [Calls -> Call] /\ socket \in [Sockets -> Socket]
      /\ frame \in [id : Ids, result : Result]
      /\ frame.result # Error /\ frame.result \notin strays =>
           \A c \in PendingOf(k) : call[c].id = frame.id => c = frame.result
      /\ \A c \in PendingOf(k) : c \in Calls /\ call[c].state = "pending"
  BY FrameFacts DEF TypeOK, Receive
<1>2. \A c \in Calls : /\ Settled(c) \in Call /\ Settled(c).client = call[c].client
                       /\ Settled(c).id = call[c].id /\ Settled(c).socket = call[c].socket
                       /\ Settled(c).result = frame.result
                       /\ Settled(c).state = IF frame.result = Error THEN "failed" ELSE "answered"
  BY <1>1 DEF Call
<1>3. call' = [c \in Calls |-> IF c \in PendingOf(k) /\ call[c].id = frame.id THEN Settled(c) ELSE call[c]]
  BY DEF Receive
<1>4. socket[s].down \in Seq([id : Ids, result : Result])
  BY <1>1 DEF Socket
<1>5. /\ b \in Socket /\ b.owner = socket[s].owner /\ b.near = socket[s].near
      /\ b.up = socket[s].up /\ Range(b.down) \subseteq Range(socket[s].down)
  <2>1. Tail(socket[s].down) \in Seq([id : Ids, result : Result])
        /\ Range(Tail(socket[s].down)) \subseteq Range(socket[s].down)
    BY <1>4, TailRange DEF Receive
  <2> QED BY <1>1, <2>1 DEF Socket
<1>6. socket' = [socket EXCEPT ![s] = b] /\ UNCHANGED <<client, worker, relay, beyond>>
  BY DEF Receive
<1> HIDE DEF frame, k, b, Settled
<1>7. /\ socket' \in [Sockets -> Socket] /\ socket'[s] = b
      /\ \A t \in Sockets : t # s => socket'[t] = socket[t]
  BY <1>1, <1>5, <1>6
<1>8. call' \in [Calls -> Call] /\ SameRoutes
  BY <1>1, <1>2, <1>3 DEF SameRoutes
<1>9. TypeOK'
  BY <1>6, <1>7, <1>8 DEF TypeOK, beyond
<1>10. MixedUpOnlyByRestart'
  BY <1>1, <1>2, <1>3, <1>6 DEF MixedUpOnlyByRestart, beyond
<1>11. \A c \in Calls :
          /\ call'[c].state \in {"new", "connecting"} => call[c].state \in {"new", "connecting"}
          /\ call'[c].state = "pending" => call[c].state = "pending"
          /\ call'[c].state = "answered" => call'[c].result # Error
  BY <1>2, <1>3 DEF CallInv
<1> QED BY <1>5, <1>6, <1>7, <1>8, <1>9, <1>10, <1>11, SettleStep

LEMMA TimesOutInv ==
  ASSUME Inv, NEW c \in Calls, TimesOut(c)
  PROVE  Inv'
<1> USE DEF Inv
<1> DEFINE d == [call[c] EXCEPT !.state = "failed"]
<1>1. /\ d \in Call /\ d.state = "failed" /\ d.client = call[c].client /\ d.id = call[c].id
      /\ d.socket = call[c].socket
  BY DEF TypeOK, Call
<1>2. call' = [call EXCEPT ![c] = d] /\ UNCHANGED <<client, socket, worker, relay, beyond>>
  BY DEF TimesOut
<1> HIDE DEF d
<1>3. /\ call' \in [Calls -> Call] /\ SameRoutes
      /\ \A e \in Calls : call'[e] = call[e] \/ call'[e].state = "failed"
  BY <1>1, <1>2 DEF TypeOK, SameRoutes
<1>4. TypeOK' /\ MixedUpOnlyByRestart'
  BY <1>2, <1>3 DEF TypeOK, beyond, MixedUpOnlyByRestart
<1>5. \A e \in Calls : call'[e].state = "answered" => call'[e].result # Error
  BY <1>3 DEF CallInv
<1> QED BY <1>2, <1>3, <1>4, <1>5, SettleStep

-----------------------------------------------------------------------------
(* The relay's steps. *)

\* The relay forgets, reads and answers; calls and numbers stay what they are.
LEMMA RelayShrinks ==
  ASSUME Inv, TypeOK', DownInv',
         UNCHANGED <<call, client, worker, toExtension, running, executed, strays>>,
         relay'.next = relay.next, relay'.pending \subseteq relay.pending,
         Range(toHost') \subseteq Range(toHost),
         \A s \in Sockets : /\ socket'[s].owner = socket[s].owner
                            /\ socket'[s].near = socket[s].near
                            /\ socket'[s].up \subseteq socket[s].up
  PROVE  Inv'
<1> USE DEF Inv
<1>1. \A c : Numbered(c)' <=> Numbered(c)
  BY DEF Numbered
<1>2. \A rid, c : Matches(rid, c) => Matches(rid, c)'
  BY DEF Matches
<1>3. CallInv'
  BY DEF CallInv, Numbered
<1>4. ClientInv'
  <2>1. \A k \in Clients : client[k].socket # 0 => client[k].socket \in Sockets
    BY OwnSocket
  <2> QED BY <2>1 DEF ClientInv, NumberedBy, Numbered
<1>5. SocketInv'
  BY <1>1 DEF SocketInv
<1>6. RelayInv' /\ HistoryInv' /\ MixedUpOnlyByRestart'
  BY <1>1 DEF RelayInv, HistoryInv, MixedUpOnlyByRestart
<1>7. ExtensionInv'
  BY <1>1, <1>2 DEF ExtensionInv
<1> QED BY <1>3, <1>4, <1>5, <1>6, <1>7

LEMMA SocketFacts ==
  ASSUME Inv, NEW s \in Sockets
  PROVE  /\ socket[s] \in Socket /\ socket[s].down \in Seq([id : Ids, result : Result])
         /\ socket[s].up \subseteq Calls
BY DEF Inv, TypeOK, Socket

\* One socket changes, and brings no new answers to its client.
LEMMA OneSocketShrinks ==
  ASSUME Inv, NEW s \in Sockets, NEW b \in Socket, socket' = [socket EXCEPT ![s] = b],
         b.owner = socket[s].owner, b.near = socket[s].near, b.down = socket[s].down,
         b.up \subseteq socket[s].up,
         relay'.next = relay.next, relay' \in [next : Nat, pending : SUBSET relay.pending],
         UNCHANGED <<call, client, worker, beyond>>
  PROVE  Inv'
<1>1. /\ socket' \in [Sockets -> Socket] /\ socket'[s] = b
      /\ \A t \in Sockets : t # s => socket'[t] = socket[t]
  BY DEF Inv, TypeOK
<1>2. TypeOK'
  <2>1. relay' \in [next : Nat, pending : SUBSET [rid : Nat, socket : Sockets, id : Ids]]
    BY DEF Inv, TypeOK
  <2> QED BY <1>1, <2>1 DEF Inv, TypeOK, beyond
<1>3. DownInv'
  BY <1>1 DEF Inv, DownInv, Numbered, beyond
<1>4. UNCHANGED <<toExtension, running, toHost, executed, strays>>
  BY DEF beyond
<1> QED BY <1>1, <1>2, <1>3, <1>4, RelayShrinks

LEMMA NotAdmittedInv ==
  ASSUME Inv, NEW s \in Sockets, NEW c \in socket[s].up, NotAdmitted(s, c)
  PROVE  Inv'
<1> DEFINE b == [socket[s] EXCEPT !.up = @ \ {c}]
<1>1. /\ b \in Socket /\ b.owner = socket[s].owner /\ b.near = socket[s].near
      /\ b.down = socket[s].down /\ b.up \subseteq socket[s].up
  BY SocketFacts DEF Socket
<1>2. socket' = [socket EXCEPT ![s] = b] /\ UNCHANGED <<call, client, worker, relay, beyond>>
  BY DEF NotAdmitted
<1>3. relay'.next = relay.next /\ relay' \in [next : Nat, pending : SUBSET relay.pending]
  BY <1>2 DEF Inv, TypeOK
<1> HIDE DEF b
<1> QED BY <1>1, <1>2, <1>3, OneSocketShrinks

LEMMA LeavingInv ==
  ASSUME Inv, NEW s \in Sockets, ClientGone(s) \/ PanelDisconnects(s)
  PROVE  Inv'
<1>1. relay'.next = relay.next /\ relay' \in [next : Nat, pending : SUBSET relay.pending]
      /\ UNCHANGED <<call, client, worker, beyond>>
  BY DEF ClientGone, PanelDisconnects, Inv, TypeOK
<1>2. CASE ClientGone(s)
  <2> DEFINE b == [socket[s] EXCEPT !.far = "gone"]
  <2>1. /\ b \in Socket /\ b.owner = socket[s].owner /\ b.near = socket[s].near
        /\ b.down = socket[s].down /\ b.up \subseteq socket[s].up
    BY SocketFacts DEF Socket
  <2>2. socket' = [socket EXCEPT ![s] = b]
    BY <1>2 DEF ClientGone
  <2> HIDE DEF b
  <2> QED BY <1>1, <2>1, <2>2, OneSocketShrinks
<1>3. CASE PanelDisconnects(s)
  <2> DEFINE b == [socket[s] EXCEPT !.far = "gone", !.up = {}]
  <2>1. /\ b \in Socket /\ b.owner = socket[s].owner /\ b.near = socket[s].near
        /\ b.down = socket[s].down /\ b.up \subseteq socket[s].up
    BY SocketFacts DEF Socket
  <2>2. socket' = [socket EXCEPT ![s] = b]
    BY <1>3 DEF PanelDisconnects
  <2> HIDE DEF b
  <2> QED BY <1>1, <2>1, <2>2, OneSocketShrinks
<1> QED BY <1>2, <1>3

\* The relay answers a client: with an error, with what its request asked for, or with
\* a stray's result.
LEMMA SettleInv ==
  ASSUME Inv, NEW p \in relay.pending, NEW r \in Result, Settle(p, r),
         r # Error => /\ executed[r] > 0
                      /\ r \in strays \/ (Numbered(r) /\ p.socket = call[r].socket /\ p.id = call[r].id),
         UNCHANGED <<call, client, worker, toExtension, running, executed, strays>>,
         toHost' \in Seq([rid : Nat, result : Result]), Range(toHost') \subseteq Range(toHost)
  PROVE  Inv'
<1> DEFINE s == p.socket
           a == [id |-> p.id, result |-> r]
           b == [socket[s] EXCEPT !.down = IF socket[s].near = "open" THEN Append(@, a) ELSE @]
<1>1. p \in [rid : Nat, socket : Sockets, id : Ids]
  BY DEF Inv, TypeOK
<1>2. s \in Sockets /\ a \in [id : Ids, result : Result]
  BY <1>1
<1>3. socket[s] \in Socket /\ socket[s].down \in Seq([id : Ids, result : Result])
  BY <1>2, SocketFacts
<1>4. /\ Append(socket[s].down, a) \in Seq([id : Ids, result : Result])
      /\ Range(Append(socket[s].down, a)) = Range(socket[s].down) \cup {a}
  <2> DEFINE S == [id : Ids, result : Result]
             down == socket[s].down
  <2>1. a \in S /\ down \in Seq(S)
    BY <1>2, <1>3
  <2> HIDE DEF a, S, down
  <2>2. Append(down, a) \in Seq(S) /\ Range(Append(down, a)) = Range(down) \cup {a}
    BY <2>1, AppendRange
  <2> QED BY <2>2 DEF S, down
<1>5. /\ b \in Socket /\ b.owner = socket[s].owner /\ b.near = socket[s].near
      /\ b.up = socket[s].up /\ Range(b.down) \subseteq Range(socket[s].down) \cup {a}
  BY <1>3, <1>4 DEF Socket
<1>6. socket' = [socket EXCEPT ![s] = b]
      /\ relay' = [relay EXCEPT !.pending = @ \ {p}]
  BY DEF Settle, Down
<1>7. a.id = p.id /\ a.result = r
  OBVIOUS
<1> HIDE DEF s, a, b
<1>8. /\ socket' \in [Sockets -> Socket] /\ socket'[s] = b
      /\ \A t \in Sockets : t # s => socket'[t] = socket[t]
  BY <1>2, <1>5, <1>6 DEF Inv, TypeOK
<1>9. relay'.next \in Nat /\ relay'.pending \subseteq relay.pending
  BY <1>6 DEF Inv, TypeOK
<1>10. TypeOK'
  BY <1>6, <1>8, <1>9 DEF Inv, TypeOK
<1>11. DownInv'
  <2>1. ASSUME NEW t \in Sockets, NEW x \in Range(socket'[t].down), x.result # Error
        PROVE  /\ executed[x.result] > 0
               /\ \/ x.result \in strays
                  \/ Numbered(x.result) /\ call[x.result].socket = t /\ call[x.result].id = x.id
    <3>1. CASE x \in Range(socket[t].down)
      BY <2>1, <3>1 DEF Inv, DownInv
    <3>2. CASE t = s /\ x = a
      BY <1>7, <2>1, <3>2 DEF s
    <3> QED BY <1>5, <1>8, <2>1, <3>1, <3>2
  <2> QED BY <2>1 DEF DownInv, Numbered
<1>12. \A t \in Sockets : /\ socket'[t].owner = socket[t].owner
                          /\ socket'[t].near = socket[t].near
                          /\ socket'[t].up \subseteq socket[t].up
  BY <1>5, <1>8
<1>13. relay'.next = relay.next
  BY <1>6 DEF Inv, TypeOK
<1> QED BY <1>9, <1>10, <1>11, <1>12, <1>13, RelayShrinks

LEMMA HostTimesOutInv ==
  ASSUME Inv, NEW p \in relay.pending, HostTimesOut(p)
  PROVE  Inv'
<1>1. Error \in Result /\ Settle(p, Error)
  BY Constants DEF HostTimesOut
<1>2. /\ toHost' = toHost /\ toHost \in Seq([rid : Nat, result : Result])
      /\ UNCHANGED <<call, client, worker, toExtension, running, executed, strays>>
  BY DEF HostTimesOut, beyond, Inv, TypeOK
<1> QED BY <1>1, <1>2, SettleInv

\* What the extension's answer is, and whom it finds.
LEMMA AnswerFacts ==
  ASSUME Inv, toHost # <<>>, NEW answer, answer = Head(toHost)
  PROVE  /\ answer \in [rid : Nat, result : Result]
         /\ Tail(toHost) \in Seq([rid : Nat, result : Result])
         /\ Range(Tail(toHost)) \subseteq Range(toHost)
         /\ answer.result # Error =>
              /\ executed[answer.result] > 0
              /\ \/ answer.result \in strays
                 \/ /\ Numbered(answer.result)
                    /\ \A p \in relay.pending : p.rid = answer.rid =>
                         p.socket = call[answer.result].socket /\ p.id = call[answer.result].id
<1>1. toHost \in Seq([rid : Nat, result : Result])
  BY DEF Inv, TypeOK
<1>2. /\ answer \in [rid : Nat, result : Result] /\ answer \in Range(toHost)
      /\ Tail(toHost) \in Seq([rid : Nat, result : Result])
      /\ Range(Tail(toHost)) \subseteq Range(toHost)
  BY <1>1, TailRange
<1>3. answer.result # Error =>
        Numbered(answer.result) /\ executed[answer.result] > 0 /\ Matches(answer.rid, answer.result)
  BY <1>2 DEF Inv, ExtensionInv
<1> QED BY <1>2, <1>3 DEF Matches

LEMMA HostAnswersInv ==
  ASSUME Inv, HostAnswers
  PROVE  Inv'
<1> DEFINE answer == Head(toHost)
<1>1. /\ answer \in [rid : Nat, result : Result] /\ toHost' = Tail(toHost)
      /\ toHost' \in Seq([rid : Nat, result : Result]) /\ Range(toHost') \subseteq Range(toHost)
      /\ answer.result # Error =>
           /\ executed[answer.result] > 0
           /\ \/ answer.result \in strays
              \/ /\ Numbered(answer.result)
                 /\ \A p \in relay.pending : p.rid = answer.rid =>
                      p.socket = call[answer.result].socket /\ p.id = call[answer.result].id
  BY AnswerFacts DEF HostAnswers
<1>2. UNCHANGED <<call, client, worker, toExtension, running, executed, strays>>
  BY DEF HostAnswers
<1>3. ASSUME NEW p \in relay.pending, p.rid = answer.rid, Settle(p, answer.result) PROVE Inv'
  <2> HIDE DEF answer
  <2>1. answer.result \in Result
    BY <1>1
  <2>2. answer.result # Error =>
          /\ executed[answer.result] > 0
          /\ answer.result \in strays
               \/ (Numbered(answer.result) /\ p.socket = call[answer.result].socket
                   /\ p.id = call[answer.result].id)
    BY <1>1, <1>3
  <2> QED BY <1>1, <1>2, <1>3, <2>1, <2>2, SettleInv
<1>4. CASE UNCHANGED <<relay, socket>>
  <2>1. TypeOK' /\ DownInv'
    BY <1>1, <1>2, <1>4 DEF Inv, TypeOK, DownInv, Numbered
  <2> QED BY <1>1, <1>2, <1>4, <2>1, RelayShrinks
<1> QED BY <1>3, <1>4 DEF HostAnswers

LEMMA DispatchInv ==
  ASSUME Inv, NEW s \in Sockets, NEW c \in socket[s].up, Dispatch(s, c)
  PROVE  Inv'
<1> USE DEF Inv
<1> DEFINE b == [socket[s] EXCEPT !.up = @ \ {c}]
           q == [rid |-> relay.next, socket |-> s, id |-> call[c].id]
           f == [rid |-> relay.next, call |-> c]
<1>1. /\ b \in Socket /\ b.owner = socket[s].owner /\ b.near = socket[s].near
      /\ b.down = socket[s].down /\ b.up = socket[s].up \ {c} /\ c \in Calls
  BY SocketFacts DEF Socket
<1>2. /\ socket' = [socket EXCEPT ![s] = b]
      /\ relay' = [next |-> relay.next + 1, pending |-> relay.pending \cup {q}]
      /\ relay'.next = relay.next + 1 /\ relay'.pending = relay.pending \cup {q}
      /\ toExtension' = Append(toExtension, f)
      /\ UNCHANGED <<call, client, worker, running, toHost, executed, strays>>
  BY DEF Dispatch
<1>3. /\ relay.next \in Nat /\ toExtension \in Seq([rid : Nat, call : Calls])
      /\ q \in [rid : Nat, socket : Sockets, id : Ids] /\ f \in [rid : Nat, call : Calls]
  BY <1>1 DEF TypeOK, Call
<1>4. /\ toExtension' \in Seq([rid : Nat, call : Calls])
      /\ Range(toExtension') = Range(toExtension) \cup {f}
  <2> DEFINE S == [rid : Nat, call : Calls]
  <2>1. f \in S /\ toExtension \in Seq(S)
    BY <1>3
  <2> HIDE DEF f, S
  <2>2. Append(toExtension, f) \in Seq(S) /\ Range(Append(toExtension, f)) = Range(toExtension) \cup {f}
    BY <2>1, AppendRange
  <2> QED BY <1>2, <2>2 DEF S
<1>5. /\ socket' \in [Sockets -> Socket] /\ socket'[s] = b
      /\ \A t \in Sockets : t # s => socket'[t] = socket[t]
  BY <1>1, <1>2 DEF TypeOK
<1>6. /\ q.rid = relay.next /\ q.socket = s /\ q.id = call[c].id
      /\ f.rid = relay.next /\ f.call = c
  OBVIOUS
<1> HIDE DEF b, q, f
<1>7. TypeOK'
  <2>1. relay' \in [next : Nat, pending : SUBSET [rid : Nat, socket : Sockets, id : Ids]]
    BY <1>2, <1>3 DEF TypeOK
  <2> QED BY <1>2, <1>4, <1>5, <2>1 DEF TypeOK
<1>8. Numbered(c) /\ call[c].socket = s /\ executed[c] = 0
  BY DEF SocketInv
<1>9. CallInv' /\ ClientInv'
  <2>1. \A k \in Clients : client[k].socket # 0 => client[k].socket \in Sockets
    BY OwnSocket
  <2>2. \A t \in Sockets : socket'[t].owner = socket[t].owner
    BY <1>1, <1>5
  <2> QED BY <1>2, <2>1, <2>2 DEF CallInv, ClientInv, NumberedBy, Numbered
<1>10. SocketInv'
  BY <1>1, <1>2, <1>5 DEF SocketInv, Numbered
<1>11. \A p \in relay.pending : p.rid < relay.next /\ p.rid \in Nat
  BY DEF RelayInv, TypeOK
<1>12. RelayInv'
  BY <1>2, <1>3, <1>6, <1>11 DEF RelayInv
<1>13. \A rid \in Nat, d \in Calls : Matches(rid, d) => Matches(rid, d)'
  <2>1. ASSUME NEW rid \in Nat, NEW d \in Calls, rid < relay.next,
               \A p \in relay.pending : p.rid = rid => p.socket = call[d].socket /\ p.id = call[d].id
        PROVE  /\ rid < relay'.next
               /\ \A p \in relay'.pending : p.rid = rid => p.socket = call[d].socket /\ p.id = call[d].id
    BY <1>2, <1>3, <1>6, <2>1
  <2> QED BY <1>2, <2>1 DEF Matches
<1>14. ASSUME NEW rid, rid = f.rid PROVE Matches(rid, c)'
  <2>1. \A p \in relay.pending : p.rid # relay.next
    BY <1>3, <1>11
  <2>2. \A p \in relay'.pending : p.rid = f.rid => p = q
    BY <1>2, <1>6, <2>1
  <2>3. f.rid < relay'.next
    BY <1>2, <1>3, <1>6
  <2> QED BY <1>2, <1>6, <1>8, <1>14, <2>2, <2>3 DEF Matches
<1>15. \A i \in 1..Len(toExtension) : toExtension[i].call # c
  <2>1. \A i \in 1..Len(toExtension) : toExtension[i] \in Range(toExtension)
    BY <1>3, LenProperties DEF Range
  <2>2. \A g \in Range(toExtension) : g.call # c
    BY DEF ExtensionInv
  <2> QED BY <2>1, <2>2
<1>16. \A i, j \in 1..Len(toExtension') : toExtension'[i].call = toExtension'[j].call => i = j
  <2>1. /\ Len(toExtension') = Len(toExtension) + 1 /\ Len(toExtension) \in Nat
        /\ \A i \in 1..Len(toExtension) : toExtension'[i] = toExtension[i]
        /\ toExtension'[Len(toExtension) + 1] = f
    BY <1>2, <1>3, AppendProperties, LenProperties
  <2>2. \A i \in 1..Len(toExtension') : i \in 1..Len(toExtension) \/ i = Len(toExtension) + 1
    BY <2>1
  <2> QED BY <1>6, <1>15, <2>1, <2>2 DEF ExtensionInv
<1>17. /\ \A g \in Range(toExtension) : g.call \in Calls /\ g.rid \in Nat
       /\ \A h \in running : h.call \in Calls /\ h.rid \in Nat
       /\ \A a \in Range(toHost) : a.rid \in Nat /\ (a.result # Error => a.result \in Calls)
  BY QueueTypes
<1>18. ExtensionInv'
  <2>1. \A t \in Sockets : c \notin socket'[t].up
    <3>1. \A t \in Sockets : c \in socket[t].up => t = s
      BY <1>8 DEF SocketInv
    <3> QED BY <1>1, <1>5, <3>1
  <2>2. \A g \in Range(toExtension) : \A t \in Sockets : g.call \notin socket'[t].up
    BY <1>1, <1>5 DEF ExtensionInv
  <2>3. \A g \in Range(toExtension') : /\ Numbered(g.call)' /\ executed'[g.call] = 0
                                       /\ Matches(g.rid, g.call)'
                                       /\ \A t \in Sockets : g.call \notin socket'[t].up
    <3>1. ASSUME NEW g \in Range(toExtension)
          PROVE  /\ Numbered(g.call)' /\ executed'[g.call] = 0 /\ Matches(g.rid, g.call)'
                 /\ \A t \in Sockets : g.call \notin socket'[t].up
      BY <1>2, <1>13, <1>17, <2>2 DEF ExtensionInv, Numbered
    <3>2. Numbered(c)' /\ executed'[c] = 0
      BY <1>2, <1>8 DEF Numbered
    <3>3. ASSUME NEW g, g = f
          PROVE  /\ Numbered(g.call)' /\ executed'[g.call] = 0 /\ Matches(g.rid, g.call)'
                 /\ \A t \in Sockets : g.call \notin socket'[t].up
      <4>1. g.call = c /\ g.rid = f.rid
        BY <1>6, <3>3
      <4> QED BY <1>14, <2>1, <3>2, <4>1
    <3> QED BY <1>4, <3>1, <3>3
  <2>4. \A h \in running' : Numbered(h.call)' /\ executed'[h.call] > 0 /\ Matches(h.rid, h.call)'
    BY <1>2, <1>13, <1>17 DEF ExtensionInv, Numbered
  <2>5. \A a \in Range(toHost') : a.result # Error =>
          Numbered(a.result)' /\ executed'[a.result] > 0 /\ Matches(a.rid, a.result)'
    BY <1>2, <1>13, <1>17 DEF ExtensionInv, Numbered
  <2> QED BY <1>16, <2>3, <2>4, <2>5 DEF ExtensionInv
<1>19. DownInv'
  BY <1>1, <1>2, <1>5 DEF DownInv, Numbered
<1>20. HistoryInv' /\ MixedUpOnlyByRestart'
  BY <1>2 DEF HistoryInv, MixedUpOnlyByRestart, Numbered
<1> QED BY <1>7, <1>9, <1>10, <1>12, <1>18, <1>19, <1>20

\* The worker ends: whatever the extension still has of its requests is a stray.
LEMMA WorkerEndsInv ==
  ASSUME Inv, WorkerEnds
  PROVE  Inv'
<1> USE DEF Inv
<1> DEFINE b(s) == [socket[s] EXCEPT !.up = {}, !.far = IF @ = "open" THEN "gone" ELSE @]
<1>1. PICK n \in 0..Len(toHost) : toHost' = SubSeq(toHost, n + 1, Len(toHost))
  BY DEF WorkerEnds
<1>2. /\ toHost' \in Seq([rid : Nat, result : Result])
      /\ Range(toHost') \subseteq Range(toHost)
  BY <1>1, SubSeqRange DEF TypeOK
<1>3. ASSUME NEW s \in Sockets
      PROVE  /\ b(s) \in Socket /\ b(s).owner = socket[s].owner /\ b(s).near = socket[s].near
             /\ b(s).down = socket[s].down /\ b(s).up = {}
  BY SocketFacts DEF Socket
<1>4. /\ socket' = [s \in Sockets |-> b(s)]
      /\ relay' = NewRelay /\ worker' = worker + 1 /\ worker \in Workers
      /\ UNCHANGED <<call, client, toExtension, running, executed>>
      /\ strays' = strays \cup {h.call : h \in running} \cup {f.call : f \in Range(toExtension)}
                          \cup ({f.result : f \in Range(toHost)} \ {Error})
  BY DEF WorkerEnds
<1> HIDE DEF b
<1>5. /\ socket' \in [Sockets -> Socket]
      /\ \A s \in Sockets : /\ socket'[s].owner = socket[s].owner /\ socket'[s].near = socket[s].near
                            /\ socket'[s].down = socket[s].down /\ socket'[s].up = {}
  BY <1>3, <1>4
<1>6. relay'.next = 1 /\ relay'.pending = {}
      /\ relay' \in [next : Nat, pending : SUBSET [rid : Nat, socket : Sockets, id : Ids]]
  BY <1>4 DEF NewRelay
<1>7. /\ \A h \in running : h.call \in strays'
      /\ \A f \in Range(toExtension) : f.call \in strays'
      /\ \A a \in Range(toHost) : a.result # Error => a.result \in strays'
      /\ strays \subseteq strays'
  BY <1>4
<1>8. strays' \subseteq Calls
  <2>1. \A a \in Range(toHost) : a.result # Error => a.result \in Calls
    BY QueueTypes
  <2> QED BY <1>4, <2>1, QueueTypes DEF TypeOK
<1>9. TypeOK'
  <2>1. worker' \in 1..(MaxWorkers + 1) /\ worker' > 1
    BY <1>4, Constants DEF Workers
  <2> QED BY <1>2, <1>4, <1>5, <1>6, <1>8, <2>1 DEF TypeOK
<1>10. CallInv' /\ ClientInv'
  <2>1. \A k \in Clients : client[k].socket # 0 => client[k].socket \in Sockets
    BY OwnSocket
  <2> QED BY <1>4, <1>5, <2>1 DEF CallInv, ClientInv, NumberedBy, Numbered
<1>11. SocketInv' /\ RelayInv'
  BY <1>5, <1>6 DEF SocketInv, RelayInv
<1>12. ExtensionInv'
  BY <1>2, <1>4, <1>5, <1>7 DEF ExtensionInv, Matches, Numbered
<1>13. DownInv'
  BY <1>4, <1>5, <1>7 DEF DownInv, Numbered
<1>14. HistoryInv' /\ MixedUpOnlyByRestart'
  <2>1. worker' > 1
    BY <1>4, Constants DEF Workers
  <2> QED BY <1>4, <1>7, <2>1 DEF HistoryInv, MixedUpOnlyByRestart, Numbered
<1> QED BY <1>9, <1>10, <1>11, <1>12, <1>13, <1>14

-----------------------------------------------------------------------------
(* The extension's steps. *)

\* The first of the requests, and those behind it.
LEMMA HeadFacts ==
  ASSUME Inv, toExtension # <<>>, NEW f, f = Head(toExtension)
  PROVE  /\ f \in [rid : Nat, call : Calls]
         /\ Numbered(f.call) /\ executed[f.call] = 0 /\ Matches(f.rid, f.call)
         /\ \A s \in Sockets : f.call \notin socket[s].up
         /\ Tail(toExtension) \in Seq([rid : Nat, call : Calls])
         /\ Range(Tail(toExtension)) \subseteq Range(toExtension)
         /\ \A g \in Range(Tail(toExtension)) : g.call # f.call
         /\ \A i, j \in 1..Len(Tail(toExtension)) :
               Tail(toExtension)[i].call = Tail(toExtension)[j].call => i = j
<1>1. toExtension \in Seq([rid : Nat, call : Calls])
  BY DEF Inv, TypeOK
<1>2. /\ f \in [rid : Nat, call : Calls] /\ f \in Range(toExtension)
      /\ Tail(toExtension) \in Seq([rid : Nat, call : Calls])
      /\ Range(Tail(toExtension)) \subseteq Range(toExtension)
  BY <1>1, TailRange
<1>3. /\ Len(Tail(toExtension)) = Len(toExtension) - 1 /\ Len(toExtension) \in Nat
      /\ Len(toExtension) > 0
      /\ \A i \in 1..Len(Tail(toExtension)) : Tail(toExtension)[i] = toExtension[i + 1]
      /\ f = toExtension[1]
  BY <1>1, HeadTailProperties, EmptySeq, LenProperties
<1>4. \A i \in 1..Len(Tail(toExtension)) : i + 1 \in 1..Len(toExtension) /\ i + 1 # 1 /\ i \in Nat
  BY <1>3
<1>5. 1 \in 1..Len(toExtension)
  BY <1>3
<1>6. \A i, j \in 1..Len(toExtension) : toExtension[i].call = toExtension[j].call => i = j
  BY DEF Inv, ExtensionInv
<1>7. \A i \in 1..Len(Tail(toExtension)) : Tail(toExtension)[i].call # f.call
  BY <1>3, <1>4, <1>5, <1>6
<1>8. \A g \in Range(Tail(toExtension)) : \E i \in 1..Len(Tail(toExtension)) : g = Tail(toExtension)[i]
  BY <1>2, LenProperties DEF Range
<1>9. \A i, j \in 1..Len(Tail(toExtension)) :
         Tail(toExtension)[i].call = Tail(toExtension)[j].call => i = j
  <2>1. ASSUME NEW i \in 1..Len(Tail(toExtension)), NEW j \in 1..Len(Tail(toExtension)),
               Tail(toExtension)[i].call = Tail(toExtension)[j].call
        PROVE  i = j
    <3>1. i + 1 = j + 1
      BY <1>3, <1>4, <1>6, <2>1
    <3> QED BY <1>4, <3>1
  <2> QED BY <2>1
<1> QED BY <1>2, <1>7, <1>8, <1>9 DEF Inv, ExtensionInv

LEMMA HandlerStartsInv ==
  ASSUME Inv, HandlerStarts
  PROVE  Inv'
<1> USE DEF Inv
<1>1. toExtension # <<>> /\ toExtension' = Tail(toExtension)
      /\ UNCHANGED <<call, client, socket, worker, relay, strays>>
  BY DEF HandlerStarts
<1>2. PICK f : f = Head(toExtension)
  OBVIOUS
<1>3. /\ f \in [rid : Nat, call : Calls]
      /\ Numbered(f.call) /\ executed[f.call] = 0 /\ Matches(f.rid, f.call)
      /\ \A s \in Sockets : f.call \notin socket[s].up
      /\ toExtension' \in Seq([rid : Nat, call : Calls])
      /\ Range(toExtension') \subseteq Range(toExtension)
      /\ \A g \in Range(toExtension') : g.call # f.call
      /\ \A i, j \in 1..Len(toExtension') : toExtension'[i].call = toExtension'[j].call => i = j
  BY <1>1, <1>2, HeadFacts
<1>4. \A rid, c : Matches(rid, c)' <=> Matches(rid, c)
  BY <1>1 DEF Matches
<1>5. \A c : Numbered(c)' <=> Numbered(c)
  BY <1>1 DEF Numbered
<1>6. CallInv' /\ ClientInv' /\ RelayInv' /\ MixedUpOnlyByRestart'
  BY <1>1 DEF CallInv, ClientInv, RelayInv, NumberedBy, Numbered, MixedUpOnlyByRestart
<1>7. CASE /\ running' = running \cup {f}
           /\ executed' = [executed EXCEPT ![f.call] = @ + 1]
           /\ UNCHANGED toHost
  <2>1. /\ executed' \in [Calls -> Nat] /\ executed'[f.call] = 1
        /\ \A c \in Calls : c # f.call => executed'[c] = executed[c]
    BY <1>3, <1>7 DEF TypeOK
  <2>2. TypeOK'
    BY <1>1, <1>3, <1>7, <2>1 DEF TypeOK
  <2>3. \A g \in Range(toExtension) : g.call \in Calls
    BY QueueTypes
  <2>4. \A a \in Range(toHost) : a.result # Error => a.result \in Calls
    BY QueueTypes
  <2>5. SocketInv'
    <3>1. ASSUME NEW s \in Sockets, NEW c \in socket[s].up
          PROVE  Numbered(c) /\ call[c].socket = s /\ executed'[c] = 0
      <4>1. c \in Calls /\ c # f.call
        BY <1>3, SocketFacts
      <4>2. Numbered(c) /\ call[c].socket = s /\ executed[c] = 0
        BY DEF SocketInv
      <4> QED BY <2>1, <4>1, <4>2
    <3>2. \A s \in Sockets : /\ socket[s].near # "unused" => socket[s].owner \in Clients
                            /\ socket[s].near = "unused" => socket[s].owner = <<>>
      BY DEF SocketInv
    <3> QED BY <1>1, <1>5, <3>1, <3>2 DEF SocketInv
  <2>6. \A c \in Calls : executed[c] > 0 => executed'[c] > 0
    BY <1>3, <2>1
  <2>7. ExtensionInv'
    <3>1. \A g \in Range(toExtension') :
            /\ Numbered(g.call)' /\ executed'[g.call] = 0 /\ Matches(g.rid, g.call)'
            /\ \A s \in Sockets : g.call \notin socket'[s].up
      BY <1>1, <1>3, <1>4, <1>5, <2>1, <2>3 DEF ExtensionInv
    <3>2. \A h \in running' : Numbered(h.call)' /\ executed'[h.call] > 0 /\ Matches(h.rid, h.call)'
      <4>1. \A h \in running : h.call \in Calls
        BY DEF TypeOK
      <4> QED BY <1>3, <1>4, <1>5, <1>7, <2>1, <2>6, <4>1 DEF ExtensionInv
    <3>3. \A a \in Range(toHost') : a.result # Error =>
            Numbered(a.result)' /\ executed'[a.result] > 0 /\ Matches(a.rid, a.result)'
      BY <1>4, <1>5, <1>7, <2>4, <2>6 DEF ExtensionInv
    <3> QED BY <1>3, <3>1, <3>2, <3>3 DEF ExtensionInv
  <2>8. DownInv'
    <3>1. \A s \in Sockets : \A a \in Range(socket[s].down) : a.result # Error => a.result \in Calls
      BY QueueTypes
    <3> QED BY <1>1, <1>5, <2>6, <3>1 DEF DownInv
  <2>9. HistoryInv'
    BY <1>1, <1>3, <1>5, <2>1 DEF HistoryInv
  <2> QED BY <1>6, <2>2, <2>5, <2>7, <2>8, <2>9
<1>8. CASE /\ toHost' = Append(toHost, [rid |-> f.rid, result |-> Error])
           /\ UNCHANGED <<running, executed>>
  <2> DEFINE S == [rid : Nat, result : Result]
             e == [rid |-> f.rid, result |-> Error]
  <2>1. e \in S /\ e.result = Error /\ toHost \in Seq(S)
    BY <1>3, Constants DEF TypeOK
  <2>2. toHost' = Append(toHost, e)
    BY <1>8
  <2> HIDE DEF e, S
  <2>3. toHost' \in Seq(S) /\ Range(toHost') = Range(toHost) \cup {e}
    BY <2>1, <2>2, AppendRange
  <2>4. TypeOK'
    BY <1>1, <1>3, <1>8, <2>3 DEF TypeOK, S
  <2>5. SocketInv' /\ DownInv' /\ HistoryInv'
    BY <1>1, <1>8 DEF SocketInv, DownInv, HistoryInv, Numbered
  <2>6. ExtensionInv'
    <3>1. \A a \in Range(toHost') : a.result # Error =>
            Numbered(a.result)' /\ executed'[a.result] > 0 /\ Matches(a.rid, a.result)'
      BY <1>4, <1>5, <1>8, <2>1, <2>3 DEF ExtensionInv
    <3>2. \A g \in Range(toExtension') :
            /\ Numbered(g.call)' /\ executed'[g.call] = 0 /\ Matches(g.rid, g.call)'
            /\ \A s \in Sockets : g.call \notin socket'[s].up
      BY <1>1, <1>3, <1>4, <1>5, <1>8 DEF ExtensionInv
    <3>3. \A h \in running' : Numbered(h.call)' /\ executed'[h.call] > 0 /\ Matches(h.rid, h.call)'
      BY <1>4, <1>5, <1>8 DEF ExtensionInv
    <3> QED BY <1>3, <3>1, <3>2, <3>3 DEF ExtensionInv
  <2> QED BY <1>6, <2>4, <2>5, <2>6
<1> QED BY <1>2, <1>7, <1>8 DEF HandlerStarts

LEMMA HandlerEndsInv ==
  ASSUME Inv, NEW h \in running, HandlerEnds(h)
  PROVE  Inv'
<1> USE DEF Inv
<1>1. PICK r \in {h.call, Error} : toHost' = Append(toHost, [rid |-> h.rid, result |-> r])
  BY DEF HandlerEnds
<1>2. running' = running \ {h}
      /\ UNCHANGED <<call, client, socket, worker, relay, toExtension, executed, strays>>
  BY DEF HandlerEnds
<1> DEFINE S == [rid : Nat, result : Result]
           e == [rid |-> h.rid, result |-> r]
<1>3. h \in [rid : Nat, call : Calls] /\ r \in Result
  BY Constants DEF TypeOK
<1>4. e \in S /\ e.rid = h.rid /\ e.result = r /\ toHost \in Seq(S) /\ toHost' = Append(toHost, e)
  BY <1>1, <1>3 DEF TypeOK
<1> HIDE DEF e, S
<1>5. toHost' \in Seq(S) /\ Range(toHost') = Range(toHost) \cup {e}
  BY <1>4, AppendRange
<1>6. TypeOK'
  BY <1>2, <1>5 DEF TypeOK, S
<1>7. \A rid, c : Matches(rid, c)' <=> Matches(rid, c)
  BY <1>2 DEF Matches
<1>8. \A c : Numbered(c)' <=> Numbered(c)
  BY <1>2 DEF Numbered
<1>9. CallInv' /\ ClientInv' /\ RelayInv' /\ MixedUpOnlyByRestart' /\ SocketInv' /\ DownInv' /\ HistoryInv'
  BY <1>2 DEF CallInv, ClientInv, RelayInv, NumberedBy, Numbered, MixedUpOnlyByRestart,
              SocketInv, DownInv, HistoryInv
<1>10. ExtensionInv'
  <2>1. Numbered(h.call) /\ executed[h.call] > 0 /\ Matches(h.rid, h.call)
    BY DEF ExtensionInv
  <2>2. \A a \in Range(toHost') : a.result # Error =>
          Numbered(a.result)' /\ executed'[a.result] > 0 /\ Matches(a.rid, a.result)'
    BY <1>2, <1>4, <1>5, <1>7, <1>8, <2>1 DEF ExtensionInv
  <2> QED BY <1>2, <1>7, <1>8, <2>2 DEF ExtensionInv
<1> QED BY <1>6, <1>9, <1>10

-----------------------------------------------------------------------------
(* The invariant. *)

LEMMA InitInv == Init => Inv
<1> SUFFICES ASSUME Init PROVE Inv
  OBVIOUS
<1> USE DEF Init, Inv
<1>1. 0 \in 0..MaxSockets /\ 1 \in 1..(Cardinality(Calls) + 1) /\ 1 \in 1..(MaxWorkers + 1)
  BY Constants, RequestAssumption
<1>2. \A S : <<>> \in Seq(S) /\ Len(<<>>) = 0
  BY EmptySeq
<1>3. Range(<<>>) = {}
  BY DEF Range
<1>4. TypeOK
  <2>1. call \in [Calls -> Call]
    BY <1>1, Constants DEF Call
  <2>2. client \in [Clients -> Client]
    BY <1>1 DEF Client
  <2>3. socket \in [Sockets -> Socket]
    <3>1. [owner |-> <<>>, near |-> "unused", far |-> "none", up |-> {}, down |-> <<>>] \in Socket
      BY <1>2 DEF Socket
    <3> QED BY <3>1
  <2>4. relay \in [next : Nat, pending : SUBSET [rid : Nat, socket : Sockets, id : Ids]]
    BY DEF NewRelay
  <2> QED BY <1>1, <1>2, <2>1, <2>2, <2>3, <2>4 DEF TypeOK
<1>5. \A c \in Calls : ~Numbered(c) /\ call[c].state = "new"
  BY DEF Numbered
<1>6. CallInv
  BY <1>5 DEF CallInv
<1>7. ClientInv
  <2>1. \A k \in Clients : NumberedBy(k) = {}
    BY <1>5 DEF NumberedBy
  <2>2. Cardinality({}) = 0
    BY FS_EmptySet
  <2>3. \A k \in Clients : client[k].socket = 0 /\ client[k].next = 1
    OBVIOUS
  <2>4. 0 + 1 = 1
    OBVIOUS
  <2> HIDE DEF Init, NumberedBy
  <2>5. \A k \in Clients : Cardinality(NumberedBy(k)) + 1 = 1
    BY <2>1, <2>2, <2>4
  <2> QED BY <2>3, <2>5 DEF ClientInv
<1>8. SocketInv /\ RelayInv /\ DownInv
  BY <1>3 DEF SocketInv, RelayInv, DownInv, NewRelay
<1>9. ExtensionInv
  <2>1. 1..Len(toExtension) = {}
    BY <1>2
  <2> QED BY <1>3, <2>1 DEF ExtensionInv
<1>10. HistoryInv /\ MixedUpOnlyByRestart
  BY <1>5 DEF HistoryInv, MixedUpOnlyByRestart
<1> QED BY <1>4, <1>6, <1>7, <1>8, <1>9, <1>10

LEMMA InvStep == Inv /\ [Next]_vars => Inv'
<1> SUFFICES ASSUME Inv, [Next]_vars PROVE Inv'
  OBVIOUS
<1>1. CASE UNCHANGED vars
  BY <1>1 DEF vars, Inv, TypeOK, CallInv, ClientInv, SocketInv, RelayInv, ExtensionInv, DownInv,
              HistoryInv, MixedUpOnlyByRestart, Numbered, NumberedBy, Matches
<1>2. ASSUME NEW c \in Calls, NEW a \in Caller[c], RequestOpen(c, a) \/ RequestConnects(c, a)
      PROVE  Inv'
  <2>1. a \in Agents
    BY RequestAssumption
  <2> QED BY <1>2, <2>1, RequestOpenInv, RequestConnectsInv
<1>3. ASSUME NEW c \in Calls, TimesOut(c) PROVE Inv'
  BY <1>3, TimesOutInv
<1>4. ASSUME NEW s \in Sockets,
             \/ Connected(s) \/ ConnectFails(s) \/ SocketEnds(s) \/ SocketCloses(s)
             \/ Receive(s) \/ ClientGone(s) \/ PanelDisconnects(s)
      PROVE  Inv'
  BY <1>4, ConnectedInv, ClosingInv, ReceiveInv, LeavingInv
<1>5. ASSUME NEW s \in Sockets, NEW c \in socket[s].up, NotAdmitted(s, c) \/ Dispatch(s, c)
      PROVE  Inv'
  BY <1>5, NotAdmittedInv, DispatchInv
<1>6. ASSUME NEW p \in relay.pending, HostTimesOut(p) PROVE Inv'
  BY <1>6, HostTimesOutInv
<1>7. CASE HostAnswers \/ WorkerEnds \/ HandlerStarts
  BY <1>7, HostAnswersInv, WorkerEndsInv, HandlerStartsInv
<1>8. ASSUME NEW h \in running, HandlerEnds(h) PROVE Inv'
  BY <1>8, HandlerEndsInv
<1> QED BY <1>1, <1>2, <1>3, <1>4, <1>5, <1>6, <1>7, <1>8 DEF Next

LEMMA Invariance == Spec => []Inv
BY InitInv, InvStep, PTL DEF Spec

\* The records, the ids and the queues keep their types: a client's ids are bounded
\* by the number of calls.
THEOREM TypeCorrect == Spec => []TypeOK
<1>1. Inv => TypeOK
  BY DEF Inv
<1> QED BY <1>1, Invariance, PTL

\* No command runs twice, whatever the sockets, the timers and the restarts do.
THEOREM ExecutedOnceTheorem == Spec => []ExecutedOnce
<1>1. Inv => ExecutedOnce
  BY DEF Inv, HistoryInv, ExecutedOnce
<1> QED BY <1>1, Invariance, PTL

\* A caller gets its own result, or that of a command a worker left in the extension.
THEOREM MixedUpTheorem == Spec => []MixedUpOnlyByRestart
<1>1. Inv => MixedUpOnlyByRestart
  BY DEF Inv
<1> QED BY <1>1, Invariance, PTL

-----------------------------------------------------------------------------
(* The path keeps what RequestContract promises. *)

Outcome(c) ==
    CASE call[c].state = "answered" /\ call[c].result = c -> "own"
      [] call[c].state = "answered" /\ call[c].result # c -> "foreign"
      [] call[c].state = "failed" -> "failed"
      [] OTHER -> "none"

Unsettled == {"new", "connecting", "pending"}

LEMMA OutcomeFacts ==
  ASSUME TypeOK, NEW c \in Calls
  PROVE  /\ call[c].state \in Unsettled => Outcome(c) = "none"
         /\ call[c].state = "failed" => Outcome(c) = "failed"
         /\ call[c].state = "answered" => Outcome(c) = IF call[c].result = c THEN "own" ELSE "foreign"
BY DEF TypeOK, Call, Outcome, Unsettled

\* Nothing of what is promised changes.
LEMMA Stutters ==
  ASSUME TypeOK, TypeOK', UNCHANGED <<executed, worker>>,
         \A c \in Calls : \/ call'[c] = call[c]
                          \/ call[c].state \in Unsettled /\ call'[c].state \in Unsettled
  PROVE  UNCHANGED Promise!vars
<1>1. \A c \in Calls : Outcome(c)' = Outcome(c)
  <2>1. ASSUME NEW c \in Calls, call'[c] = call[c] PROVE Outcome(c)' = Outcome(c)
    BY <2>1 DEF Outcome
  <2>2. ASSUME NEW c \in Calls, call[c].state \in Unsettled, call'[c].state \in Unsettled
        PROVE  Outcome(c)' = Outcome(c)
    BY <2>2 DEF Outcome, Unsettled
  <2> QED BY <2>1, <2>2
<1> QED BY <1>1 DEF Promise!vars, Outcome

\* Calls fail, each of them unsettled before.
LEMMA Fails ==
  ASSUME TypeOK, TypeOK', UNCHANGED <<executed, worker>>,
         \A c \in Calls : \/ call'[c] = call[c]
                          \/ call[c].state \in Unsettled /\ call'[c].state = "failed"
  PROVE  Promise!FailTogether
<1> DEFINE lost == {c \in Calls : call[c].state \in Unsettled /\ call'[c].state = "failed"}
<1>1. \A c \in Calls : c \in lost => Outcome(c) = "none"
  BY OutcomeFacts
<1>2. \A c \in Calls : Outcome(c)' = IF c \in lost THEN "failed" ELSE Outcome(c)
  <2>1. ASSUME NEW c \in lost PROVE Outcome(c)' = "failed"
    BY <2>1 DEF Outcome
  <2>2. ASSUME NEW c \in Calls, c \notin lost PROVE Outcome(c)' = Outcome(c)
    <3>1. call'[c] = call[c]
      BY <2>2
    <3> QED BY <3>1 DEF Outcome
  <2> QED BY <2>1, <2>2
<1>3. lost \in SUBSET {c \in Calls : [d \in Calls |-> Outcome(d)][c] = "none"}
  BY <1>1
<1>4. [c \in Calls |-> Outcome(c)]'
        = [c \in Calls |-> IF c \in lost THEN "failed" ELSE [d \in Calls |-> Outcome(d)][c]]
  BY <1>2
<1> HIDE DEF lost
<1> QED BY <1>3, <1>4 DEF Promise!FailTogether, Outcome

\* One call is answered.
LEMMA Answered ==
  ASSUME Inv, TypeOK', UNCHANGED <<executed, worker>>, NEW c \in Calls,
         call[c].state \in Unsettled, call'[c].state = "answered",
         \A d \in Calls : d # c => call'[d] = call[d],
         call'[c].result = c \/ call'[c].result \in strays, executed[call'[c].result] > 0
  PROVE  Promise!Next \/ UNCHANGED Promise!vars
<1> DEFINE o == IF call'[c].result = c THEN "own" ELSE "foreign"
<1>1. Outcome(c) = "none" /\ Outcome(c)' = o
  <2>1. Outcome(c) = "none"
    BY OutcomeFacts DEF Inv
  <2> QED BY <2>1 DEF Outcome
<1>2. \A d \in Calls : d # c => Outcome(d)' = Outcome(d)
  BY DEF Outcome
<1>3. [d \in Calls |-> Outcome(d)]' = [[d \in Calls |-> Outcome(d)] EXCEPT ![c] = o]
  BY <1>1, <1>2
<1>4. [d \in Calls |-> Outcome(d)][c] = "none"
  BY <1>1
<1>5. CASE call'[c].result = c
  <2>1. o = "own" /\ c \in {d \in Calls : executed[d] > 0}
    BY <1>5
  <2> HIDE DEF o
  <2>2. Promise!End(c, "own")
    BY <1>3, <1>4, <2>1 DEF Promise!End, Outcome
  <2>3. Promise!Succeeds(c)
    BY <2>1, <2>2 DEF Promise!Succeeds
  <2> QED BY <2>3 DEF Promise!Next
<1>6. CASE call'[c].result # c
  <2>1. o = "foreign" /\ worker > 1
    BY <1>6 DEF Inv, HistoryInv
  <2> HIDE DEF o
  <2>2. Promise!End(c, "foreign")
    BY <1>3, <1>4, <2>1 DEF Promise!End, Outcome
  <2>3. Promise!MixedUp(c)
    BY <2>1, <2>2 DEF Promise!MixedUp
  <2> QED BY <2>3 DEF Promise!Next
<1> QED BY <1>5, <1>6

LEMMA SentPromise ==
  ASSUME TypeOK, TypeOK', UNCHANGED <<executed, worker>>, NEW c \in Calls, NEW k, NEW s,
         call[c].state \in {"new", "connecting"}, Sent(c, k, s)
  PROVE  UNCHANGED Promise!vars
<1>1. call'[c].state = "pending" /\ \A d \in Calls : d # c => call'[d] = call[d]
  BY DEF Sent, TypeOK
<1> QED BY <1>1, Stutters DEF Unsettled

LEMMA DisconnectPromise ==
  ASSUME TypeOK, TypeOK', UNCHANGED <<executed, worker>>, NEW k, NEW near, NEW more,
         \A c \in more : call[c].state \in Unsettled, Disconnect(k, near, more)
  PROVE  Promise!FailTogether
<1>1. \A c \in PendingOf(k) : call[c].state \in Unsettled
  BY DEF PendingOf, Unsettled
<1>2. \A c \in Calls : \/ call'[c] = call[c]
                       \/ c \in PendingOf(k) \cup more /\ call'[c].state = "failed"
  <2>1. ASSUME NEW c \in Calls, c \in PendingOf(k) \cup more PROVE call'[c].state = "failed"
    <3>1. call'[c] = [call[c] EXCEPT !.state = "failed"] /\ call[c] \in Call
      BY <2>1 DEF Disconnect, TypeOK
    <3> QED BY <3>1 DEF Call
  <2>2. ASSUME NEW c \in Calls, c \notin PendingOf(k) \cup more PROVE call'[c] = call[c]
    BY <2>2 DEF Disconnect
  <2> QED BY <2>1, <2>2
<1> QED BY <1>1, <1>2, Fails

LEMMA ReceivePromise ==
  ASSUME Inv, TypeOK', NEW s \in Sockets, Receive(s)
  PROVE  Promise!Next \/ UNCHANGED Promise!vars
<1> DEFINE k == socket[s].owner
<1>1. PICK frame : frame = Head(socket[s].down)
  OBVIOUS
<1>2. /\ \A c, d \in PendingOf(k) : call[c].id = frame.id /\ call[d].id = frame.id => c = d
      /\ frame.result # Error =>
           /\ frame.result \in Calls /\ executed[frame.result] > 0
           /\ frame.result \notin strays => \A c \in PendingOf(k) : call[c].id = frame.id => c = frame.result
      /\ \A c \in PendingOf(k) : c \in Calls /\ call[c].state = "pending"
  BY <1>1, FrameFacts DEF Receive
<1>3. call' = [c \in Calls |->
                 IF c \in PendingOf(k) /\ call[c].id = frame.id
                 THEN [call[c] EXCEPT !.result = frame.result,
                                      !.state = IF frame.result = Error THEN "failed" ELSE "answered"]
                 ELSE call[c]]
      /\ UNCHANGED <<executed, worker>>
  BY <1>1 DEF Receive, beyond
<1>4. /\ TypeOK
      /\ \A c \in Calls : call[c] \in Call
  BY DEF Inv, TypeOK
<1> HIDE DEF k
<1>5. \A c \in Calls :
        IF c \in PendingOf(k) /\ call[c].id = frame.id
        THEN /\ call'[c].result = frame.result
             /\ call'[c].state = IF frame.result = Error THEN "failed" ELSE "answered"
        ELSE call'[c] = call[c]
  BY <1>3, <1>4 DEF Call
<1>6. CASE frame.result = Error
  <2>1. \A c \in Calls : \/ call'[c] = call[c]
                         \/ call[c].state \in Unsettled /\ call'[c].state = "failed"
    BY <1>2, <1>5, <1>6 DEF Unsettled
  <2> QED BY <1>3, <1>4, <2>1, Fails DEF Promise!Next
<1>7. CASE frame.result # Error /\ \E c \in PendingOf(k) : call[c].id = frame.id
  <2>1. PICK c \in PendingOf(k) : call[c].id = frame.id
    BY <1>7
  <2>2. /\ c \in Calls /\ call[c].state \in Unsettled /\ call'[c].state = "answered"
        /\ call'[c].result = frame.result
    BY <1>2, <1>5, <1>7, <2>1 DEF Unsettled
  <2>3. \A d \in Calls : d # c => call'[d] = call[d]
    BY <1>2, <1>5, <2>1
  <2>4. (call'[c].result = c \/ call'[c].result \in strays) /\ executed[call'[c].result] > 0
    BY <1>2, <1>7, <2>1, <2>2
  <2> QED BY <1>3, <2>2, <2>3, <2>4, Answered
<1>8. CASE ~(\E c \in PendingOf(k) : call[c].id = frame.id)
  <2>1. \A c \in Calls : call'[c] = call[c]
    BY <1>5, <1>8
  <2> QED BY <1>3, <1>4, <2>1, Stutters
<1> QED BY <1>6, <1>7, <1>8

LEMMA HandlerStartsPromise ==
  ASSUME Inv, TypeOK', HandlerStarts
  PROVE  Promise!Next \/ UNCHANGED Promise!vars
<1>1. toExtension # <<>> /\ UNCHANGED <<call, worker>>
  BY DEF HandlerStarts
<1>2. PICK f : f = Head(toExtension)
  OBVIOUS
<1>3. f.call \in Calls /\ executed[f.call] = 0
  BY <1>1, <1>2, HeadFacts
<1>4. CASE executed' = [executed EXCEPT ![f.call] = @ + 1]
  <2>1. /\ executed'[f.call] = 1
        /\ \A c \in Calls : c # f.call => executed'[c] = executed[c]
    BY <1>3, <1>4 DEF Inv, TypeOK
  <2>2. {c \in Calls : executed[c] > 0}' = {c \in Calls : executed[c] > 0} \cup {f.call}
    BY <1>3, <2>1
  <2>3. f.call \notin {c \in Calls : executed[c] > 0}
    BY <1>3
  <2>4. UNCHANGED [c \in Calls |-> Outcome(c)]
    BY <1>1 DEF Outcome
  <2>5. Promise!Begin(f.call)
    BY <1>1, <2>2, <2>3, <2>4 DEF Promise!Begin, Outcome
  <2> QED BY <1>3, <2>5 DEF Promise!Next
<1>5. CASE UNCHANGED executed
  BY <1>1, <1>5, Stutters DEF Inv
<1> QED BY <1>2, <1>4, <1>5 DEF HandlerStarts

\* Every step of the path is one that is promised, or none at all.
LEMMA PromiseStep == Inv /\ TypeOK' /\ [Next]_vars => [Promise!Next]_(Promise!vars)
<1> SUFFICES ASSUME Inv, TypeOK', [Next]_vars PROVE Promise!Next \/ UNCHANGED Promise!vars
  OBVIOUS
<1>0. TypeOK
  BY DEF Inv
<1>1. ASSUME UNCHANGED <<call, executed, worker>> PROVE UNCHANGED Promise!vars
  BY <1>0, <1>1, Stutters
<1>2. ASSUME NEW c \in Calls, NEW a \in Caller[c], RequestOpen(c, a) PROVE UNCHANGED Promise!vars
  BY <1>0, <1>2, SentPromise DEF RequestOpen, beyond
<1>3. ASSUME NEW c \in Calls, NEW a \in Caller[c], RequestConnects(c, a) PROVE UNCHANGED Promise!vars
  <2>1. PICK k, s : call' = [call EXCEPT ![c].state = "connecting", ![c].client = k, ![c].socket = s]
    BY <1>3 DEF RequestConnects
  <2>2. call[c].state = "new" /\ UNCHANGED <<executed, worker>>
    BY <1>3 DEF RequestConnects, beyond
  <2>3. call'[c].state = "connecting" /\ \A d \in Calls : d # c => call'[d] = call[d]
    BY <1>0, <2>1 DEF TypeOK, Call
  <2> QED BY <1>0, <2>2, <2>3, Stutters DEF Unsettled
<1>4. ASSUME NEW c \in Calls, TimesOut(c) PROVE Promise!FailTogether
  <2>1. call'[c].state = "failed" /\ \A d \in Calls : d # c => call'[d] = call[d]
    BY <1>0, <1>4 DEF TypeOK, Call, TimesOut
  <2>2. call[c].state \in Unsettled /\ UNCHANGED <<executed, worker>>
    BY <1>4 DEF TimesOut, Unsettled, beyond
  <2> QED BY <1>0, <2>1, <2>2, Fails
<1>5. ASSUME NEW s \in Sockets, Connected(s) PROVE UNCHANGED Promise!vars
  <2>1. PICK c \in ConnectingOn(s) : Sent(c, socket[s].owner, s)
    BY <1>5 DEF Connected
  <2>2. c \in Calls /\ call[c].state \in {"new", "connecting"} /\ UNCHANGED <<executed, worker>>
    BY <1>5 DEF ConnectingOn, Connected, beyond
  <2> QED BY <1>0, <2>1, <2>2, SentPromise
<1>6. ASSUME NEW s \in Sockets, ConnectFails(s) \/ SocketEnds(s) \/ SocketCloses(s)
      PROVE  Promise!FailTogether
  <2>1. \A c \in ConnectingOn(s) : call[c].state \in Unsettled
    BY DEF ConnectingOn, Unsettled
  <2>2. UNCHANGED <<executed, worker>>
    BY <1>6 DEF ConnectFails, SocketEnds, SocketCloses, beyond
  <2>3. PICK near, more : /\ Disconnect(socket[s].owner, near, more)
                          /\ \A c \in more : call[c].state \in Unsettled
    BY <1>6, <2>1 DEF ConnectFails, SocketEnds, SocketCloses
  <2> QED BY <1>0, <2>2, <2>3, DisconnectPromise
<1>7. ASSUME NEW s \in Sockets, Receive(s) PROVE Promise!Next \/ UNCHANGED Promise!vars
  BY <1>7, ReceivePromise
<1>8. ASSUME NEW s \in Sockets, ClientGone(s) \/ PanelDisconnects(s) PROVE UNCHANGED Promise!vars
  BY <1>1, <1>8 DEF ClientGone, PanelDisconnects, beyond
<1>9. ASSUME NEW s \in Sockets, NEW c \in socket[s].up, NotAdmitted(s, c) \/ Dispatch(s, c)
      PROVE  UNCHANGED Promise!vars
  BY <1>1, <1>9 DEF NotAdmitted, Dispatch, beyond
<1>10. ASSUME NEW p \in relay.pending, HostTimesOut(p) PROVE UNCHANGED Promise!vars
  BY <1>1, <1>10 DEF HostTimesOut, beyond
<1>11. CASE HostAnswers
  BY <1>1, <1>11 DEF HostAnswers
<1>12. CASE WorkerEnds
  <2>1. worker \in Workers /\ worker' = worker + 1 /\ UNCHANGED <<call, executed>>
    BY <1>12 DEF WorkerEnds
  <2>2. worker' > 1
    BY <2>1, Constants DEF Workers
  <2>3. Promise!Restart
    BY <2>1, <2>2 DEF Promise!Restart
  <2> QED BY <2>3 DEF Promise!Next
<1>13. CASE HandlerStarts
  BY <1>13, HandlerStartsPromise
<1>14. ASSUME NEW h \in running, HandlerEnds(h) PROVE UNCHANGED Promise!vars
  BY <1>1, <1>14 DEF HandlerEnds
<1>15. CASE UNCHANGED vars
  BY <1>1, <1>15 DEF vars
<1>16. Promise!FailTogether => Promise!Next
  BY DEF Promise!Next
<1> QED BY <1>2, <1>3, <1>4, <1>5, <1>6, <1>7, <1>8, <1>9, <1>10, <1>11, <1>12, <1>13, <1>14,
           <1>15, <1>16 DEF Next

\* The whole path, with its three sets of ids, its queues and its restarts, is what
\* an agent may rely on: at most one start, one end of a call, another's result only
\* after a worker has ended.
THEOREM PromiseKept == Spec => KeepsPromise
<1>1. Init => Promise!Init
  BY DEF Init, Promise!Init
<1>2. Inv => TypeOK
  BY DEF Inv
<1>3. Inv /\ Inv' /\ [Next]_vars => [Promise!Next]_(Promise!vars)
  BY <1>2, PromiseStep, PTL
<1> QED BY <1>1, <1>3, Invariance, PTL DEF Spec, KeepsPromise, Promise!Spec
=============================================================================
