----------------------------- MODULE HostStatus -----------------------------
(***************************************************************************)
(* What the extension knows of its native host and of its own profile, and *)
(* what the popup shows of it: the connection (background/native-rpc.ts),  *)
(* the profile and its announcement (background/runtime-profile.ts), the   *)
(* status that is broadcast (background/runtime-popup.ts, runtime.ts) and  *)
(* the popup that shows it (popup/App.tsx).                                *)
(*                                                                         *)
(* Connections, versions of the local programs and profile ids are numbers *)
(* from 1; each connection has a host of its own.                          *)
(***************************************************************************)
EXTENDS Naturals, Sequences

CONSTANTS ProfileLabels, NoLabel,
          MaxConnections, MaxVersions, MaxStatusSteps   \* bounds

VARIABLES port,        \* the connection in use, 0 if there is none
          connections, \* made so far
          pending,     \* #pending: the generations of announcements, and 0 for a ping
          wire,        \* what the host sent and the extension has not read
          hostStatus, generation,
          announcing,  \* announcements under way: [generation, at, versions, of]
          token,       \* the connection that gave reconciliationToken, or 0
          versions,    \* the versions of the programs the host reports
          profile, stored,   \* the profile state in memory, and in storage
          saving,      \* setProfileLabel under way: [label, at]
          acknowledged,\* the label whose saving was answered last
          idLost,      \* reading the stored profile, or writing it back, has failed
          watching, inbox,   \* the popup has its port, and what is on its way to it
          asked,       \* GET_NATIVE_HOST_STATUS: "none", "sent", or the answer
          askedBeside, \* the popup has asked while it had its port
          popup, statusSteps

hostStatusVars == <<port, connections, pending, wire, hostStatus, generation, announcing, token, versions, profile, stored,
                    saving, acknowledged, idLost, watching, inbox, asked, askedBeside, popup, statusSteps>>
connectionVars == <<port, connections, pending, wire, generation, announcing, token, versions>>
profileVars == <<profile, stored, saving, acknowledged, idLost>>
popupVars == <<watching, inbox, asked, askedBeside, popup>>

Unread == [state |-> "disconnected", checked |-> FALSE, versions |-> 0, of |-> 0]
NoProfile == [id |-> 0, label |-> NoLabel]
NotSaving == [label |-> NoLabel, at |-> "none"]
NoAnswer == [state |-> "none", checked |-> FALSE, versions |-> 0, of |-> 0]
NotSent == [NoAnswer EXCEPT !.state = "sent"]

HostStatusTypeOK ==
  /\ port \in 0..MaxConnections /\ connections \in 0..MaxConnections /\ token \in 0..MaxConnections
  /\ \A asker \in pending : asker \in Nat
  /\ \A a \in announcing : a.at \in {"starts", "asks", "reads"} /\ a.generation <= generation
  /\ profile.label \in ProfileLabels \cup {NoLabel} /\ stored.label \in ProfileLabels \cup {NoLabel}
  /\ {watching, askedBeside, idLost} \subseteq BOOLEAN

Announcement(g) == [generation |-> g, at |-> "starts", versions |-> 0, of |-> 0]

HostStatusInit ==
  /\ port = 0 /\ connections = 0 /\ pending = {} /\ wire = <<>>
  /\ hostStatus = Unread /\ generation = 0 /\ announcing = {} /\ token = 0 /\ versions = 1
  /\ profile = NoProfile /\ stored = NoProfile
  /\ saving = NotSaving /\ acknowledged = NoLabel /\ idLost = FALSE
  /\ watching = FALSE /\ inbox = <<>> /\ asked = NoAnswer /\ askedBeside = FALSE
  /\ popup = NoAnswer /\ statusSteps = 0

Step == statusSteps < MaxStatusSteps /\ statusSteps' = statusSteps + 1

\* broadcastNativeStatus: every change of the status goes to the popup's port.
Broadcast_OnState(status) ==
  /\ hostStatus' = status
  /\ inbox' = IF watching /\ status.state # hostStatus.state THEN Append(inbox, status) ELSE inbox
Broadcast(status) ==
  /\ hostStatus' = status
  /\ inbox' = IF watching /\ status # hostStatus THEN Append(inbox, status) ELSE inbox
\* applyHostVersions
ApplyVersions(of, v) == Broadcast([hostStatus EXCEPT !.checked = TRUE, !.versions = v, !.of = of])
QuietPopup == UNCHANGED <<watching, asked, askedBeside, popup>>

\* What becomes of the answer that an announcement waits for.
Rejected == {IF a.generation \in pending THEN [a EXCEPT !.at = "reads"] ELSE a : a \in announcing}

-----------------------------------------------------------------------------
(***************************************************************************)
(* NativeRpc: connecting, losing the connection and trying again.          *)
(***************************************************************************)
\* connect: what was known of the last host's versions is cleared, and the
\* profile is announced under a new generation.
Connect ==
  /\ port = 0 /\ connections < MaxConnections
  /\ port' = connections + 1 /\ connections' = connections + 1
  /\ Broadcast([state |-> "connecting", checked |-> FALSE, versions |-> 0, of |-> 0])
  /\ generation' = generation + 2
  /\ announcing' = announcing \cup {Announcement(generation + 2)}
  /\ pending' = {} /\ wire' = <<>>
  /\ UNCHANGED <<token, versions, profileVars, statusSteps>> /\ QuietPopup

\* The host cannot be started.
ConnectFails ==
  /\ port = 0 /\ hostStatus.state # "reconnecting" /\ Step
  /\ Broadcast([hostStatus EXCEPT !.state = "reconnecting"])
  /\ UNCHANGED <<port, connections, pending, wire, generation, announcing, token, versions, profileVars>> /\ QuietPopup

\* onDisconnect: requests are rejected, and a timer connects again.
Disconnected ==
  /\ port # 0 /\ Step
  /\ port' = 0 /\ pending' = {} /\ wire' = <<>>
  /\ generation' = generation + 1 /\ token' = 0
  /\ announcing' = Rejected
  /\ Broadcast([hostStatus EXCEPT !.state = "reconnecting"])
  /\ UNCHANGED <<connections, versions, profileVars>> /\ QuietPopup

\* heartbeat: a ping that fails gives the connection up, of its own accord,
\* and so without what options.disconnected does.
Heartbeat ==
  /\ port # 0 /\ 0 \notin pending /\ Step
  /\ pending' = pending \cup {0} /\ wire' = Append(wire, [kind |-> "answer", to |-> 0, versions |-> 0])
  /\ UNCHANGED <<port, connections, generation, announcing, token, versions, hostStatus, profileVars, popupVars>>
HeartbeatFails ==
  /\ 0 \in pending
  /\ port' = 0 /\ pending' = {} /\ wire' = <<>>
  /\ announcing' = Rejected
  /\ Broadcast([hostStatus EXCEPT !.state = "reconnecting"])
  /\ UNCHANGED <<connections, generation, token, versions, profileVars, statusSteps>> /\ QuietPopup

\* reconnect, from the panel: only an idle connection is left.
ReconnectHost ==
  /\ port # 0 /\ pending = {} /\ connections < MaxConnections /\ Step
  /\ port' = connections + 1 /\ connections' = connections + 1 /\ wire' = <<>>
  /\ token' = 0 /\ generation' = generation + 3
  /\ announcing' = announcing \cup {Announcement(generation + 3)}
  /\ Broadcast([state |-> "connecting", checked |-> FALSE, versions |-> 0, of |-> 0])
  /\ UNCHANGED <<pending, versions, profileVars>> /\ QuietPopup

-----------------------------------------------------------------------------
(***************************************************************************)
(* Announcing the profile, and the versions that are answered.             *)
(***************************************************************************)
\* The profile is read once; a read that fails counts as an empty storage,
\* and what results is written back, which can fail as well.  One failure is
\* enough (a bound).
FirstRead ==
  /\ profile = NoProfile /\ ((\E a \in announcing : a.at = "starts") \/ saving.at = "starts")
  /\ \E read, written \in BOOLEAN :
       /\ idLost \/ stored.id = 0 => read /\ written
       /\ profile' = IF read /\ stored.id # 0 THEN stored ELSE [NoProfile EXCEPT !.id = stored.id + 1]
       /\ stored' = IF written THEN profile' ELSE stored
       /\ idLost' = (idLost \/ ~ (read /\ written))
  /\ UNCHANGED <<connectionVars, hostStatus, saving, acknowledged, popupVars, statusSteps>>

\* profile.hello goes out on the connection of that moment.
Becomes(a, b) == announcing' = (announcing \ {a}) \cup {b}
Hello(a) ==
  /\ a.at = "starts" /\ profile # NoProfile
  /\ IF port = 0
     THEN Becomes(a, [a EXCEPT !.at = "reads"]) /\ UNCHANGED <<pending, wire>>
     ELSE /\ Becomes(a, [a EXCEPT !.at = "asks"])
          /\ pending' = pending \cup {a.generation}
          /\ wire' = Append(wire, [kind |-> "answer", to |-> a.generation, versions |-> versions])
  /\ UNCHANGED <<port, connections, generation, token, versions, hostStatus, profileVars, popupVars, statusSteps>>

HelloTimesOut(a) ==
  /\ a.at = "asks" /\ Step
  /\ Becomes(a, [a EXCEPT !.at = "reads"]) /\ pending' = pending \ {a.generation}
  /\ UNCHANGED <<port, connections, wire, generation, token, versions, hostStatus, profileVars, popupVars>>

\* The host reports a change of versions by itself (host.versions).
VersionsChange ==
  /\ versions < MaxVersions
  /\ versions' = versions + 1
  /\ wire' = IF port = 0 THEN wire ELSE Append(wire, [kind |-> "versions", to |-> 0, versions |-> versions + 1])
  /\ UNCHANGED <<port, connections, pending, generation, announcing, token, hostStatus, profileVars,
                 popupVars, statusSteps>>

\* #handleMessage: an answer to a request that still waits says connected.
Message ==
  /\ wire # <<>> /\ wire' = Tail(wire)
  /\ LET m == Head(wire) IN
     \/ /\ m.kind = "answer" /\ m.to \in pending
        /\ pending' = pending \ {m.to}
        /\ Broadcast([hostStatus EXCEPT !.state = "connected"])
        /\ announcing' = {IF a.generation = m.to THEN [a EXCEPT !.at = "reads", !.versions = m.versions, !.of = port]
                                                 ELSE a : a \in announcing}
     \/ /\ m.kind = "answer" /\ m.to \notin pending
        /\ UNCHANGED <<pending, hostStatus, inbox, announcing>>
     \/ /\ m.kind = "versions"
        /\ ApplyVersions(port, m.versions)
        /\ UNCHANGED <<pending, announcing>>
  /\ UNCHANGED <<port, connections, generation, token, versions, profileVars, statusSteps>> /\ QuietPopup

\* announceProfile goes on when the reminder is read: only if this is still
\* the last announcement, and the host is connected.
StillAnnouncing_Connected(a) == hostStatus.state = "connected"
StillAnnouncing(a) == a.generation = generation /\ hostStatus.state = "connected"
Announced(a) ==
  /\ a.at = "reads" /\ announcing' = announcing \ {a}
  /\ IF StillAnnouncing(a)
     THEN token' = a.of /\ ApplyVersions(a.of, a.versions)
     ELSE UNCHANGED <<token, hostStatus, inbox>>
  /\ UNCHANGED <<port, connections, pending, wire, generation, versions, profileVars, statusSteps>> /\ QuietPopup

-----------------------------------------------------------------------------
(***************************************************************************)
(* The label of the profile: kept in memory, then stored, then announced.  *)
(***************************************************************************)
SetProfileLabel(label) ==
  /\ saving.at = "none" /\ Step
  /\ saving' = [label |-> label, at |-> "starts"]
  /\ UNCHANGED <<connectionVars, hostStatus, profile, stored, acknowledged, idLost, popupVars>>
KeepLabel ==
  /\ saving.at = "starts" /\ profile # NoProfile
  /\ profile' = [profile EXCEPT !.label = saving.label]
  /\ saving' = [saving EXCEPT !.at = "storing"]
  /\ UNCHANGED <<connectionVars, hostStatus, stored, acknowledged, idLost, popupVars, statusSteps>>
StoreLabel(ok) ==
  /\ saving.at = "storing"
  /\ stored' = IF ok THEN profile ELSE stored
  /\ acknowledged' = IF ok THEN profile.label ELSE acknowledged
  /\ saving' = NotSaving
  /\ generation' = IF ok THEN generation + 1 ELSE generation
  /\ announcing' = IF ok THEN announcing \cup {Announcement(generation + 1)} ELSE announcing
  /\ UNCHANGED <<port, connections, pending, wire, token, versions, hostStatus, profile, idLost,
                 popupVars, statusSteps>>

\* The background page ends, with its connection, and starts anew.
Restart ==
  /\ Step
  /\ port' = 0 /\ pending' = {} /\ wire' = <<>> /\ hostStatus' = Unread /\ generation' = 0
  /\ announcing' = {} /\ token' = 0 /\ profile' = NoProfile /\ saving' = NotSaving
  /\ watching' = FALSE /\ inbox' = <<>>
  /\ asked' = IF watching THEN NotSent ELSE IF asked = NotSent THEN NoAnswer ELSE asked
  /\ UNCHANGED <<connections, versions, stored, acknowledged, idLost, askedBeside, popup>>

-----------------------------------------------------------------------------
(***************************************************************************)
(* The popup (useNativeStatus): a port, with the status at first and every *)
(* change from then on; a question when nothing has come for 800 ms, and   *)
(* when the port is gone.                                                  *)
(***************************************************************************)
OpenPopup ==
  /\ ~ watching /\ popup = NoAnswer /\ asked = NoAnswer /\ Step
  /\ watching' = TRUE /\ inbox' = <<hostStatus>>
  /\ UNCHANGED <<connectionVars, hostStatus, profileVars, asked, askedBeside, popup>>
Shown ==
  /\ inbox # <<>>
  /\ popup' = Head(inbox) /\ inbox' = Tail(inbox)
  /\ UNCHANGED <<connectionVars, hostStatus, profileVars, watching, asked, askedBeside, statusSteps>>
FallbackAsks ==
  /\ watching /\ popup = NoAnswer /\ asked = NoAnswer
  /\ asked' = NotSent /\ askedBeside' = TRUE
  /\ UNCHANGED <<connectionVars, hostStatus, profileVars, watching, inbox, popup, statusSteps>>
AnswerStatus ==
  /\ asked = NotSent
  /\ asked' = hostStatus
  /\ UNCHANGED <<connectionVars, hostStatus, profileVars, watching, inbox, askedBeside, popup, statusSteps>>
StatusAnswered ==
  /\ asked \notin {NoAnswer, NotSent}
  /\ popup' = asked /\ asked' = NoAnswer
  /\ UNCHANGED <<connectionVars, hostStatus, profileVars, watching, inbox, askedBeside, statusSteps>>
ClosePopup ==
  /\ popup # NoAnswer
  /\ watching' = FALSE /\ inbox' = <<>> /\ asked' = NoAnswer /\ askedBeside' = FALSE /\ popup' = NoAnswer
  /\ UNCHANGED <<connectionVars, hostStatus, profileVars, statusSteps>>

HostStatusNext ==
  \/ Connect \/ ConnectFails \/ Disconnected \/ Heartbeat \/ HeartbeatFails \/ ReconnectHost
  \/ FirstRead \/ VersionsChange \/ Message
  \/ \E a \in announcing : Hello(a) \/ HelloTimesOut(a) \/ Announced(a)
  \/ \E label \in ProfileLabels : SetProfileLabel(label)
  \/ KeepLabel \/ \E ok \in BOOLEAN : StoreLabel(ok)
  \/ Restart
  \/ OpenPopup \/ Shown \/ FallbackAsks \/ AnswerStatus \/ StatusAnswered \/ ClosePopup

-----------------------------------------------------------------------------
\* The versions the extension compares are those of the host it is connected
\* to: an announcement that was answered late, or by an earlier host, does not
\* pass for this one's (versionCheck.generation).
VersionsOfThisHost ==
  hostStatus.state = "connected" /\ hostStatus.checked => hostStatus.of \in {0, port}

\* A label whose saving was answered is the stored one until the next is
\* saved, whatever is announced, refused or restarted meanwhile; a failed read
\* aside, which loses it with the rest of the profile.
SavedLabelStays == acknowledged \in {NoLabel, stored.label} \/ idLost

\* A popup with its port, which did not ask beside it, shows the status when
\* nothing is on its way.
PopupIsCurrent == watching /\ inbox = <<>> /\ ~ askedBeside => popup = hostStatus

HostStatusSound == VersionsOfThisHost /\ SavedLabelStays /\ PopupIsCurrent

(***************************************************************************)
(* Not true:                                                               *)
(***************************************************************************)
\* An answer to the announcement, read before the reminder is, overwrites
\* newer versions that the host has reported meanwhile (runtime-profile.ts:91).
VersionsAreLatest ==
  hostStatus.state = "connected" /\ hostStatus.checked /\ wire = <<>> => hostStatus.versions = versions
\* A heartbeat that fails keeps the token of the host it gave up
\* (native-rpc.ts:102-107, where options.disconnected is not called).
TokenOfThisHost == token \in {0, port}
\* A failed read of the storage replaces the identity of the profile
\* (runtime-profile.ts:57-63).
IdentityKept == stored.id \in {0, 1}
\* A label whose saving failed is in use until the next start (:71-72).
RefusedIsNotUsed == saving.at = "none" /\ profile # NoProfile => profile.label = stored.label
\* A popup that lost its port asks once and is never told again (App.tsx:48).
OpenPopupIsCurrent == popup # NoAnswer /\ inbox = <<>> /\ asked = NoAnswer => popup = hostStatus
=============================================================================
