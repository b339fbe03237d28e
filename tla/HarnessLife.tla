------------------------------ MODULE HarnessLife ------------------------------
(***************************************************************************)
(* A process of a harness that serves browser tools (adapters/mcp,         *)
(* adapters/opencode): its servers, the endpoint by which a control job    *)
(* refreshes its tools, and the record by which it tells the other         *)
(* processes of the machine what it has under way (runtime-activity.ts,    *)
(* leases.ts).  They hold back while a record that is active is busy; they *)
(* reap the record of one that is gone.  An MCP process ends its runtime   *)
(* on a signal and exits at once; in OpenCode the host ends it at any time *)
(* and lives on.                                                           *)
(*                                                                         *)
(* The runtime has at most one session and one approval at a time.         *)
(***************************************************************************)
EXTENDS Naturals, FiniteSets

CONSTANTS HarnessCalls, HarnessServers,
          MaxRefreshes    \* bound on the refreshes and disconnections

VARIABLES process,        \* the process, see HarnessLifeTypeOK
          tracking,       \* the tracker of the runtime is not closed
          harnessCall,    \* the calls
          sessions,       \* the runtime has a session object
          approval,       \* its approval: none, pending or expired
          openSession,    \* the browser holds a session of this process
          lease,          \* the record on disk, see HarnessLifeTypeOK
          servers, endpoints, owners,  \* servers, control endpoints, presences
          refresh,        \* the refresh that is under way
          refreshes,      \* how many there were
          cut,            \* calls of a tracked runtime whose connections were cut
          unseen          \* a call ran, or a session was left, that no record told of

harnessLifeVars == <<process, tracking, harnessCall, sessions, approval, openSession, lease,
                     servers, endpoints, owners, refresh, refreshes, cut, unseen>>

NoLease == [present |-> FALSE, inFlight |-> 0, sessions |-> FALSE, approvals |-> FALSE, abandoned |-> FALSE]

\* "leaves": its signal handler ran; "exits": it ran the code that removes its
\* record; "gone": it ended without it.
HarnessLifeTypeOK ==
  /\ process \in {"mcp", "opencode", "leaves", "exits", "gone"}
  /\ {tracking, sessions, openSession, unseen} \subseteq BOOLEAN
  /\ approval \in {"none", "pending", "expired"}
  /\ harnessCall \in [HarnessCalls -> {"idle", "entering", "running", "over"}]
  /\ lease \in [present : BOOLEAN, inFlight : Nat, sessions : BOOLEAN, approvals : BOOLEAN, abandoned : BOOLEAN]
  /\ servers \in [HarnessServers -> {"new", "open", "closed"}]
  /\ endpoints \in [HarnessServers -> {"none", "starting", "up"}]
  /\ owners \subseteq HarnessServers /\ cut \subseteq HarnessCalls
  /\ refresh \in {"none", "reloading", "alone"}
  /\ refreshes \in 0 .. MaxRefreshes

\* createTracker publishes the record.
HarnessLifeInit ==
  /\ process \in {"mcp", "opencode"} /\ tracking = TRUE
  /\ harnessCall = [c \in HarnessCalls |-> "idle"]
  /\ sessions = FALSE /\ approval = "none" /\ openSession = FALSE
  /\ lease = [NoLease EXCEPT !.present = TRUE]
  /\ servers = [s \in HarnessServers |-> "new"] /\ endpoints = [s \in HarnessServers |-> "none"] /\ owners = {}
  /\ refresh = "none" /\ refreshes = 0 /\ cut = {} /\ unseen = FALSE

alive == process \notin {"exits", "gone"}
Acts == process \in {"mcp", "opencode"}
Running == {c \in HarnessCalls : harnessCall[c] = "running"}
Moves(c, at) == harnessCall' = [harnessCall EXCEPT ![c] = at]

-----------------------------------------------------------------------------
(***************************************************************************)
(* Calls.  A call is admitted under the runtime lock: what is published    *)
(* then is lost if the participant was closed while it waited.             *)
(***************************************************************************)
\* snapshot: the sessions and approvals, without those that have expired.
Snapshot(inFlight) == [lease EXCEPT !.inFlight = inFlight, !.sessions = sessions, !.approvals = approval = "pending"]
Pruned == approval' = IF approval = "expired" THEN "none" ELSE approval

EnterCall(c) ==
  /\ harnessCall[c] = "idle"
  /\ Moves(c, IF tracking THEN "entering" ELSE "over")
  /\ UNCHANGED <<process, tracking, sessions, approval, openSession, lease, servers, endpoints,
                 owners, refresh, refreshes, cut, unseen>>
Admit(c) ==
  /\ harnessCall[c] = "entering"
  /\ \/ /\ Moves(c, "running")
        /\ IF tracking THEN lease' = [lease EXCEPT !.inFlight = @ + 1] /\ UNCHANGED unseen
           ELSE unseen' = TRUE /\ UNCHANGED lease
     \/ Moves(c, "over") /\ UNCHANGED <<lease, unseen>>
  /\ UNCHANGED <<process, tracking, sessions, approval, openSession, servers, endpoints, owners,
                 refresh, refreshes, cut>>
\* A call opens a session, leaves an approval to be given, takes it, or finalizes the session.
Work(c) ==
  /\ c \in Running
  /\ \/ sessions' = TRUE /\ openSession' \in {openSession, TRUE} /\ UNCHANGED approval
     \/ sessions /\ approval' = "pending" /\ UNCHANGED <<sessions, openSession>>
     \/ approval = "pending" /\ approval' = "none" /\ UNCHANGED <<sessions, openSession>>
     \/ sessions /\ sessions' = FALSE /\ openSession' = FALSE /\ UNCHANGED approval
  /\ UNCHANGED <<process, tracking, harnessCall, lease, servers, endpoints, owners, refresh,
                 refreshes, cut, unseen>>
LeaveCall(c) ==
  /\ c \in Running /\ Moves(c, "over")
  /\ IF tracking THEN lease' = Snapshot(lease.inFlight - 1) ELSE UNCHANGED lease
  /\ Pruned
  /\ UNCHANGED <<process, tracking, sessions, openSession, servers, endpoints, owners, refresh,
                 refreshes, cut, unseen>>
\* The timer publishes what has changed since.
PublishLease ==
  /\ tracking /\ lease # Snapshot(lease.inFlight)
  /\ lease' = Snapshot(lease.inFlight) /\ Pruned
  /\ UNCHANGED <<process, tracking, harnessCall, sessions, openSession, servers, endpoints, owners,
                 refresh, refreshes, cut, unseen>>
ExpireApproval ==
  /\ approval = "pending" /\ approval' = "expired"
  /\ UNCHANGED <<process, tracking, harnessCall, sessions, openSession, lease, servers, endpoints,
                 owners, refresh, refreshes, cut, unseen>>

-----------------------------------------------------------------------------
(***************************************************************************)
(* The end of the runtime, and of the process.  What is left open is       *)
(* abandoned, for the extension to confirm its end.                        *)
(***************************************************************************)
CloseParticipant == lease' = NoLease
AbandonParticipant == lease' = [Snapshot(lease.inFlight) EXCEPT !.abandoned = TRUE]
Dispose ==
  /\ Acts /\ tracking /\ tracking' = FALSE
  /\ IF sessions \/ approval = "pending" THEN AbandonParticipant ELSE CloseParticipant
  /\ process' = IF process = "mcp" THEN "leaves" ELSE process
  /\ sessions' = FALSE /\ approval' = "none"
  /\ unseen' = (unseen \/ Running # {})
  /\ UNCHANGED <<harnessCall, openSession, servers, endpoints, owners, refresh, refreshes, cut>>
Ends(how) ==
  /\ process' = how
  /\ harnessCall' = [c \in HarnessCalls |-> IF harnessCall[c] = "idle" THEN "idle" ELSE "over"]
  /\ sessions' = FALSE /\ approval' = "none" /\ refresh' = "none"
  /\ servers' = [s \in HarnessServers |-> "closed"] /\ endpoints' = [s \in HarnessServers |-> "none"] /\ owners' = {}
  /\ UNCHANGED <<tracking, openSession, refreshes, cut>>
\* The process exits: a record that is not abandoned removes itself, and an MCP
\* process, which closes what it has closed once more, removes an abandoned one too.
RemovesAtExit == tracking \/ process \in {"mcp", "leaves"}
Exit ==
  /\ alive /\ Ends(IF RemovesAtExit THEN "exits" ELSE "gone")
  /\ IF RemovesAtExit THEN CloseParticipant ELSE UNCHANGED lease
  /\ UNCHANGED unseen
\* The process is killed, maybe before its record tells of its session.
Die ==
  /\ alive /\ Ends("gone") /\ UNCHANGED lease
  /\ unseen' = (unseen \/ (openSession /\ ~ lease.sessions))
\* The session ends in the browser, by the user or by its reconciliation.
SessionEnds ==
  /\ openSession /\ (~ alive \/ ~ tracking) /\ openSession' = FALSE
  /\ UNCHANGED <<process, tracking, harnessCall, sessions, approval, lease, servers, endpoints,
                 owners, refresh, refreshes, cut, unseen>>

\* participantActive, participantBusy
LeaseActive == lease.present /\ alive /\ ~ lease.abandoned
LeaseBusy == lease.inFlight > 0 \/ lease.sessions \/ lease.approvals
\* reapParticipants: verified when the extensions say that no session remains.
MayReap_Unverified(verified) ==
  lease.present /\ ~ LeaseActive /\ (~ LeaseBusy \/ (lease.inFlight = 0 /\ ~ lease.approvals))
MayReap(verified) ==
  lease.present /\ ~ LeaseActive /\ (~ LeaseBusy \/ (lease.inFlight = 0 /\ ~ lease.approvals /\ verified))
\* reconcileRuntimeState: a record that is busy with calls that ended with their
\* process goes too, once its approvals have expired and its sessions are settled.
MayReconcile(settled) == lease.present /\ ~ LeaseActive /\ (lease.sessions => settled)
Reap ==
  /\ \E verified \in {FALSE, ~ openSession} : MayReap(verified) \/ MayReconcile(verified)
  /\ lease' = NoLease
  /\ UNCHANGED <<process, tracking, harnessCall, sessions, approval, openSession, servers, endpoints,
                 owners, refresh, refreshes, cut, unseen>>

-----------------------------------------------------------------------------
(***************************************************************************)
(* Servers.  An initialized client starts a presence and an endpoint; the  *)
(* endpoint may come up after the server was closed.                       *)
(***************************************************************************)
startBrowserClientPresence(s) == owners' = owners \cup {s}
Initialized(s) ==
  /\ servers[s] = "new"
  /\ servers' = [servers EXCEPT ![s] = "open"] /\ endpoints' = [endpoints EXCEPT ![s] = "starting"]
  /\ startBrowserClientPresence(s)
  /\ UNCHANGED <<process, tracking, harnessCall, sessions, approval, openSession, lease, refresh,
                 refreshes, cut, unseen>>
EndpointStarts(s) ==
  /\ endpoints[s] = "starting"
  /\ endpoints' = [endpoints EXCEPT ![s] = IF servers[s] = "open" THEN "up" ELSE "none"]
  /\ UNCHANGED <<process, tracking, harnessCall, sessions, approval, openSession, lease, servers,
                 owners, refresh, refreshes, cut, unseen>>
CloseServer(s) ==
  /\ servers[s] = "open" /\ servers' = [servers EXCEPT ![s] = "closed"]
  /\ owners' = owners \ {s}
  /\ endpoints' = [endpoints EXCEPT ![s] = IF @ = "up" THEN "none" ELSE @]
  /\ UNCHANGED <<process, tracking, harnessCall, sessions, approval, openSession, lease, refresh,
                 refreshes, cut, unseen>>

\* reconnectIdle: no call runs in the process, and no approval is pending.
ReconnectIdle == Running = {} /\ (tracking => approval # "pending")
\* The connections of the browser client are reset at once, then the tools are announced
\* anew.  The job that asked gives up after a while: the refresh goes on alone.
Refresh ==
  /\ (\E s \in HarnessServers : endpoints[s] = "up") /\ refreshes < MaxRefreshes /\ refreshes' = refreshes + 1
  /\ refresh = "none" /\ ReconnectIdle
  /\ refresh' = "reloading"
  /\ cut' = cut \cup {c \in Running : tracking}
  /\ UNCHANGED <<process, tracking, harnessCall, sessions, approval, openSession, lease, servers,
                 endpoints, owners, unseen>>
GiveUpRefresh ==
  /\ refresh = "reloading" /\ refresh' = "alone"
  /\ UNCHANGED <<process, tracking, harnessCall, sessions, approval, openSession, lease, servers,
                 endpoints, owners, refreshes, cut, unseen>>
Refreshed ==
  /\ refresh # "none" /\ refresh' = "none"
  /\ UNCHANGED <<process, tracking, harnessCall, sessions, approval, openSession, lease, servers,
                 endpoints, owners, refreshes, cut, unseen>>
\* The native host, which another process replaces, cuts the connections once no record is busy.
HostDisconnects ==
  /\ refreshes < MaxRefreshes /\ refreshes' = refreshes + 1
  /\ ~ (LeaseActive /\ LeaseBusy)
  /\ cut' = cut \cup {c \in Running : tracking}
  /\ UNCHANGED <<process, tracking, harnessCall, sessions, approval, openSession, lease, servers,
                 endpoints, owners, refresh, unseen>>

HarnessLifeNext ==
  \/ /\ Acts
     /\ \/ \E c \in HarnessCalls : EnterCall(c) \/ Admit(c) \/ Work(c) \/ LeaveCall(c)
        \/ \E s \in HarnessServers : Initialized(s) \/ EndpointStarts(s) \/ CloseServer(s)
        \/ PublishLease \/ Dispose \/ Refresh \/ GiveUpRefresh \/ Refreshed
  \/ ExpireApproval \/ Exit \/ Die \/ SessionEnds \/ Reap \/ HostDisconnects

-----------------------------------------------------------------------------
\* Neither a refresh nor the host cuts a call that a tracked runtime has under way.
CutsNoCall == cut = {}

\* leases.ts:65, :74: no other process removes the record of a session that the
\* browser still holds, however its own was killed or ended its runtime, unless
\* the record never told of the session or of the call that opened it; only its own
\* process removes it, at its exit.
RecordOutlivesSession == openSession /\ ~ unseen => lease.present \/ process = "exits"

\* The record counts the calls that run: no drift over any entries, ends and retries.
RecordCountsCalls == alive /\ tracking => lease.inFlight = Cardinality(Running)

\* A server that is closed leaves neither a presence nor an endpoint behind.
ClosedServersAreGone ==
  \A s \in HarnessServers : servers[s] = "closed" => s \notin owners /\ endpoints[s] # "up"

HarnessLifeSound == CutsNoCall /\ RecordOutlivesSession /\ RecordCountsCalls /\ ClosedServersAreGone

\* Not true: "unfinished sessions and approvals still require extension
\* verification" (leases.ts:74), and an MCP process abandons its record on a signal
\* for that; but at its exit it closes the runtime again, which has no session any
\* more, and that removes the record (mcp/server.ts:305-312, leases.ts:84-91), as
\* does any exit without a signal (leases.ts:85).
RecordOutlivesExit == openSession /\ ~ unseen => lease.present
\* Not true: a process that is killed in the call that opens its session leaves a
\* record that counts the call and names no session; reapParticipants keeps it for
\* that, and reconcileRuntimeState, which does not look at the calls, removes it
\* (reconcile.ts:36-39, :70-73).
UncountedIsKept == lease.present /\ ~ alive /\ lease.inFlight > 0 /\ openSession => ~ MayReconcile(~ openSession)
\* Not true: reapParticipants never removes the record of a process that was killed in
\* a call; that takes a reconciliation, after its grace.
DeadRecordsCanEnd == lease.present /\ ~ alive /\ ~ openSession => MayReap(TRUE)
=============================================================================
