----------------------------- MODULE NetworkLog -----------------------------
(***************************************************************************)
(* What an agent learns of a tab's requests.  The browser sends the        *)
(* extension events while its debugger is attached; the extension keeps    *)
(* the last of them.  An inspection reads that log, folds it into a record *)
(* per request, and then fetches bodies, while the page goes on: one       *)
(* inspection of one record is modelled.                                   *)
(*                                                                         *)
(* The truth about a request is the browser's.  A status is represented by *)
(* the hop that has it, a size by a number of pieces.                      *)
(***************************************************************************)
EXTENDS Naturals, Sequences, FiniteSets, SequencesExt

CONSTANTS Fetches,        \* ordinary requests of the page
          Sockets,        \* its web sockets
          EventLimit,     \* events kept of a tab (MAX_CDP_EVENTS_PER_TAB)
          MaxHops, MaxPieces, MaxChanges   \* bounds on redirects, pieces, and detachments and clearings

VARIABLES page,           \* the requests that the page makes
          truth,          \* of each request: phase, hop, pieces, hops whose extra info is still to come
          log,            \* the events the extension keeps
          capturing,      \* the debugger is attached
          changes,        \* detachments and clearings so far
          inspection      \* the record it shows, and the body it found

netVars == <<page, truth, log, capturing, changes, inspection>>

NetRequests == Fetches \cup Sockets
Hops == 0 .. MaxHops
Unknown == MaxHops + 1

NetTypeOK ==
  /\ page \in {Fetches, Sockets}
  /\ truth \in [NetRequests -> [phase : {"new", "sent", "response", "finished", "failed", "closed"},
                                hop : Hops, pieces : 0 .. MaxPieces, late : SUBSET Hops]]
  /\ Len(log) <= EventLimit
  /\ \A i \in DOMAIN log : log[i].of \in NetRequests /\ log[i].hop \in Hops
  /\ capturing \in BOOLEAN /\ changes \in 0 .. MaxChanges
  /\ inspection.at \in {"idle", "body", "done"}
  /\ inspection.of \in NetRequests /\ inspection.found \in {"none", "body", "error"}

NetInit ==
  /\ page \in {Fetches, Sockets}
  /\ truth = [r \in NetRequests |-> [phase |-> "new", hop |-> 0, pieces |-> 0, late |-> {}]]
  /\ log = <<>> /\ capturing = TRUE /\ changes = 0
  /\ \E r \in page : inspection = [at |-> "idle", of |-> r, shown |-> "pending", found |-> "none"]

-----------------------------------------------------------------------------
(***************************************************************************)
(* The extension keeps what it is sent of an attached tab.                 *)
(***************************************************************************)
Event(kind, r, hop, pieces) == [kind |-> kind, of |-> r, hop |-> hop, pieces |-> pieces]
KeepLast(s, n) == IF Len(s) > n THEN SubSeq(s, Len(s) - n + 1, Len(s)) ELSE s
RecordCdpEvent(e) == log' = IF capturing THEN KeepLast(Append(log, e), EventLimit) ELSE log

\* The browser's side: the truth moves, and an event says so.
Moves(r, new, e) ==
  /\ truth' = [truth EXCEPT ![r] = new]
  /\ RecordCdpEvent(e)
  /\ UNCHANGED <<page, capturing, changes, inspection>>

Send(r) ==
  /\ r \in page /\ truth[r].phase = "new"
  /\ Moves(r, [truth[r] EXCEPT !.phase = "sent"], Event(IF r \in Sockets THEN "created" ELSE "sent", r, 0, 0))
\* A redirect is the same request, sent again to the next hop.
Redirect(r) ==
  /\ r \in Fetches /\ truth[r].phase = "sent" /\ truth[r].hop < MaxHops
  /\ Moves(r, [truth[r] EXCEPT !.hop = @ + 1, !.late = @ \cup {truth[r].hop}], Event("redirect", r, truth[r].hop + 1, 0))
Respond(r) ==
  /\ truth[r].phase = "sent"
  /\ Moves(r, [truth[r] EXCEPT !.phase = "response", !.late = IF r \in Fetches THEN @ \cup {truth[r].hop} ELSE @],
           Event(IF r \in Sockets THEN "handshake" ELSE "response", r, truth[r].hop, 0))
\* The extra information on a hop comes at its own time.
Extra(r) ==
  \E hop \in truth[r].late :
    Moves(r, [truth[r] EXCEPT !.late = @ \ {hop}], Event("extra", r, hop, 0))
Piece(r) ==
  /\ truth[r].phase = "response" /\ truth[r].pieces < MaxPieces
  /\ Moves(r, [truth[r] EXCEPT !.pieces = @ + 1], Event(IF r \in Sockets THEN "frame" ELSE "data", r, truth[r].hop, 1))
Finish(r) ==
  /\ truth[r].phase = "response"
  /\ LET end == IF r \in Sockets THEN "closed" ELSE "finished"
     IN Moves(r, [truth[r] EXCEPT !.phase = end], Event(end, r, truth[r].hop, truth[r].pieces))
Fail(r) ==
  /\ r \in Fetches /\ truth[r].phase \in {"sent", "response"}
  /\ Moves(r, [truth[r] EXCEPT !.phase = "failed"], Event("failed", r, truth[r].hop, 0))

\* The debugger goes and comes back; an agent clears the log.
Detach == /\ changes < MaxChanges /\ capturing' = ~ capturing /\ changes' = changes + 1
          /\ UNCHANGED <<page, truth, log, inspection>>
ClearCdpEvents == /\ changes < MaxChanges /\ log # <<>> /\ log' = <<>> /\ changes' = changes + 1
                  /\ UNCHANGED <<page, truth, capturing, inspection>>

-----------------------------------------------------------------------------
(***************************************************************************)
(* The record of a request is what its events, in order, make of it.       *)
(***************************************************************************)
FreshRecord == [lifecycle |-> "pending", url |-> Unknown, status |-> Unknown, redirects |-> <<>>,
                pieces |-> 0, encoded |-> 0, frames |-> 0]
Unless(ends, rec, new) == IF rec.lifecycle \in ends THEN rec.lifecycle ELSE new

Redirected_NewAddress(rec, e) == Append(rec.redirects, e.hop)
\* A redirect files the address the record has, or else the one that redirected.
Redirected(rec, e) == Append(rec.redirects, IF rec.url # Unknown THEN rec.url ELSE e.hop - 1)

WithEvent(rec, e) ==
  CASE e.kind \in {"sent", "created"} -> [rec EXCEPT !.url = e.hop]
    [] e.kind = "redirect" -> [rec EXCEPT !.redirects = Redirected(rec, e), !.url = e.hop]
    [] e.kind = "response" -> [rec EXCEPT !.url = e.hop, !.status = e.hop,
                                          !.lifecycle = Unless({"failed", "closed"}, rec, "response")]
    [] e.kind = "extra" -> [rec EXCEPT !.status = e.hop]
    [] e.kind = "data" -> [rec EXCEPT !.pieces = @ + e.pieces, !.encoded = @ + e.pieces]
    [] e.kind = "finished" -> [rec EXCEPT !.encoded = e.pieces, !.lifecycle = Unless({"failed", "closed"}, rec, "finished")]
    [] e.kind = "failed" -> [rec EXCEPT !.lifecycle = "failed"]
    [] e.kind = "handshake" -> [rec EXCEPT !.status = e.hop, !.lifecycle = "response"]
    [] e.kind = "frame" -> [rec EXCEPT !.frames = @ + 1]
    [] e.kind = "closed" -> [rec EXCEPT !.lifecycle = Unless({"failed"}, rec, "closed")]

EventsOf(r) == SelectSeq(log, LAMBDA e : e.of = r)
Seen == {log[i].of : i \in DOMAIN log}
Collected(r) == FoldLeft(WithEvent, FreshRecord, EventsOf(r))

\* A filter names requests, by id, address, method or type, or asks for a known status.
Filters == {[wanted |-> NetRequests, status |-> FALSE], [wanted |-> Fetches, status |-> TRUE]}
Matches(r, filter) == r \in filter.wanted /\ (filter.status => Collected(r).status # Unknown)

-----------------------------------------------------------------------------
\* An inspection reads the log, takes a record that matches, and asks for its body.
InspectNetworkEvents ==
  /\ inspection.at = "idle" /\ capturing
  /\ \E filter \in Filters, r \in Seen :
       /\ Matches(r, filter)
       /\ inspection' = [inspection EXCEPT !.at = "body", !.of = r, !.shown = Collected(r).lifecycle]
  /\ UNCHANGED <<page, truth, log, capturing, changes>>

\* The browser has a body once the request finished.
Result(r) == IF capturing /\ truth[r].phase = "finished" THEN "body" ELSE "error"
FetchBody ==
  /\ inspection.at = "body"
  /\ inspection' = [inspection EXCEPT !.at = "done", !.found = Result(inspection.of)]
  /\ UNCHANGED <<page, truth, log, capturing, changes>>

NetNext ==
  \/ \E r \in NetRequests : Send(r) \/ Redirect(r) \/ Respond(r) \/ Extra(r) \/ Piece(r) \/ Finish(r) \/ Fail(r)
  \/ Detach \/ ClearCdpEvents \/ InspectNetworkEvents \/ FetchBody

-----------------------------------------------------------------------------
\* The redirects of a record, and then its address.
Path(r) == LET rec == Collected(r) IN IF rec.url = Unknown THEN rec.redirects ELSE Append(rec.redirects, rec.url)

\* From whatever part of the events is left, in whatever order they came, a record
\* never ends a request that goes on, never reports more than was received, and
\* lists redirects in their order; if only the limit lost events, without a gap.
RecordsAreTrue ==
  \A r \in Seen : LET rec == Collected(r) IN
    /\ rec.lifecycle \in {"finished", "failed", "closed"} => truth[r].phase = rec.lifecycle
    /\ rec.pieces + rec.frames <= truth[r].pieces
    /\ rec.lifecycle = "finished" => rec.encoded = truth[r].pieces
    /\ \A i \in 1 .. Len(Path(r)) - 1 : Path(r)[i] < Path(r)[i + 1]
    /\ changes = 0 => \A i \in 1 .. Len(Path(r)) - 1 : Path(r)[i + 1] = Path(r)[i] + 1

\* Not true: an answer of a redirect that follows a detachment is filed under the
\* address the record had before it.
RedirectsHaveNoGap == \A r \in Seen : \A i \in 1 .. Len(Path(r)) - 1 : Path(r)[i + 1] = Path(r)[i] + 1

\* Not true: the extra information of a redirect comes after the answer of the next
\* hop, and overwrites its status.
StatusIsTheLast == \A r \in Seen : Collected(r).lifecycle = "finished" => Collected(r).status = truth[r].hop

\* Not true: the record is as old as the reading of the log, the body is not.
BodyOfFinished == inspection.found = "body" => inspection.shown = "finished"
=============================================================================
