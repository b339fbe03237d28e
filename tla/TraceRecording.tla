--------------------------- MODULE TraceRecording ---------------------------
(***************************************************************************)
(* Performance traces: browser_trace_record                                *)
(* (operations/operation-groups/events.ts) lets the browser trace a tab    *)
(* while it reloads, collects what the extension gathered of it, has it    *)
(* analysed (native-host/src/diagnostics) and keeps it as an artifact      *)
(* (core/runtime-interaction.ts, core/artifacts.ts).                       *)
(*                                                                         *)
(* The browser traces one tab at a time, delivers the events after the     *)
(* end, in an order of its own, and forgets a trace when the debugger      *)
(* leaves.  The extension has one buffer for each tab, whichever call it   *)
(* is for.  Left out: what the reload does to the page (PageLoads), and    *)
(* layout shifts, scripts and images in the analysis, which are counted as *)
(* tasks and transfers are.                                                *)
(***************************************************************************)
EXTENDS Integers, FiniteSets, SequencesExt, FiniteSetsExt

CONSTANTS Recordings,         \* calls that record a trace
          TraceTab,           \* the tab of each
          TraceOf,            \* the batches of events the browser may deliver of each
          MaxTraceChunks,     \* MAX_TRACE_CHUNKS
          MaxArtifactEvents,  \* maxBytes, in events
          MaxTraceFaults      \* a bound

VARIABLES recording,      \* call -> where it is and the events it collected
          tracer,         \* the browser: whose trace it makes, and what it still has to deliver
          traceBuffers,   \* tab -> what the extension gathered
          lostTabs,       \* tabs that are not controlled any more
          traces,         \* the artifacts, oldest first, and whether each is still kept
          traceFaults,
          disturbed,      \* calls that met another one on their tab
          uncleared       \* tabs whose trace.clear was lost

traceRecordingVars == <<recording, tracer, traceBuffers, lostTabs, traces, traceFaults, disturbed, uncleared>>

TraceEvents == UNION {ToSet(FlattenSeq(batches)) : batches \in UNION {TraceOf[r] : r \in Recordings}}
Tabs == {TraceTab[r] : r \in Recordings}
Still == [at |-> "idle", of |-> "none", left |-> <<>>]
NoBuffer == [there |-> FALSE, chunks |-> <<>>, complete |-> FALSE, overflowed |-> FALSE]
Active(t) == {r \in Recordings : TraceTab[r] = t
                /\ recording[r].at \in {"begun", "started", "ready", "polling", "collected", "failing"}}
Tracing(t) == tracer.at # "idle" /\ TraceTab[tracer.of] = t
To(r, place) == recording' = [recording EXCEPT ![r].at = place]
Fault == traceFaults < MaxTraceFaults /\ traceFaults' = traceFaults + 1

TraceRecordingTypeOK ==
  /\ \A r \in Recordings : recording[r].trace \in Seq([of : Recordings, event : TraceEvents])
  /\ tracer.at \in {"idle", "recording", "flushing"} /\ \A i \in DOMAIN traces : traces[i].of \in Recordings
  /\ lostTabs \cup uncleared \subseteq Tabs /\ disturbed \subseteq Recordings

TraceRecordingInit ==
  /\ recording = [r \in Recordings |-> [at |-> "new", trace |-> <<>>]]
  /\ tracer = Still /\ traceBuffers = [t \in Tabs |-> NoBuffer]
  /\ lostTabs = {} /\ traces = <<>> /\ traceFaults = 0 /\ disturbed = {} /\ uncleared = {}

-----------------------------------------------------------------------------
(***************************************************************************)
(* A recording.  trace.begin empties the buffer of the tab; from then on   *)
(* whatever fails ends in trace.clear.                                     *)
(***************************************************************************)
Begin_Keeps(r) ==
  LET t == TraceTab[r]
  IN /\ recording[r].at = "new" /\ t \notin lostTabs
     /\ To(r, "begun") /\ traceBuffers' = [traceBuffers EXCEPT ![t].there = TRUE]
     /\ disturbed' = disturbed \cup (IF Active(t) = {} /\ ~ Tracing(t) THEN {} ELSE Active(t) \cup {r})
     /\ UNCHANGED <<tracer, lostTabs, traces, traceFaults, uncleared>>
Begin(r) ==
  LET t == TraceTab[r]
  IN /\ recording[r].at = "new" /\ t \notin lostTabs
     /\ To(r, "begun") /\ traceBuffers' = [traceBuffers EXCEPT ![t] = [NoBuffer EXCEPT !.there = TRUE]]
     /\ disturbed' = disturbed \cup (IF Active(t) = {} /\ ~ Tracing(t) THEN {} ELSE Active(t) \cup {r})
     /\ UNCHANGED <<tracer, lostTabs, traces, traceFaults, uncleared>>

\* Tracing.start fails while the browser traces, here or elsewhere; a start that
\* times out may have been carried out.
Start(r) ==
  /\ recording[r].at = "begun"
  /\ IF tracer.at # "idle" \/ TraceTab[r] \in lostTabs
     THEN To(r, "failing") /\ UNCHANGED <<tracer, traceFaults>>
     ELSE /\ \E batches \in TraceOf[r] : tracer' = [at |-> "recording", of |-> r, left |-> batches]
          /\ \/ To(r, "started") /\ UNCHANGED traceFaults
             \/ To(r, "failing") /\ Fault
  /\ UNCHANGED <<traceBuffers, lostTabs, traces, disturbed, uncleared>>

\* The page is loaded again and is ready, or the time is over; or it never is.
Loaded(r) ==
  /\ recording[r].at = "started"
  /\ \/ To(r, "ready") /\ UNCHANGED traceFaults
     \/ To(r, "failing") /\ Fault
  /\ UNCHANGED <<tracer, traceBuffers, lostTabs, traces, disturbed, uncleared>>

End(r) ==
  /\ recording[r].at = "ready"
  /\ IF Tracing(TraceTab[r]) /\ tracer.at = "recording"
     THEN tracer' = [tracer EXCEPT !.at = "flushing"] /\ To(r, "polling")
     ELSE UNCHANGED tracer /\ To(r, "failing")
  /\ UNCHANGED <<traceBuffers, lostTabs, traces, traceFaults, disturbed, uncleared>>

\* trace.collect is asked until the trace is complete or the time is over.
Collect_Partial(r) ==
  LET buffer == traceBuffers[TraceTab[r]]
  IN /\ recording[r].at = "polling"
     /\ \/ To(r, "failing")
        \/ /\ TraceTab[r] \notin lostTabs /\ buffer.there
           /\ recording' = [recording EXCEPT ![r] = [at |-> "collected", trace |-> buffer.chunks]]
     /\ UNCHANGED <<tracer, traceBuffers, lostTabs, traces, traceFaults, disturbed, uncleared>>
Collect(r) ==
  LET buffer == traceBuffers[TraceTab[r]]
  IN /\ recording[r].at = "polling"
     /\ \/ To(r, "failing")
        \/ /\ TraceTab[r] \notin lostTabs /\ buffer.there /\ buffer.complete
           /\ recording' = [recording EXCEPT ![r] = [at |-> "collected", trace |-> buffer.chunks]]
     /\ UNCHANGED <<tracer, traceBuffers, lostTabs, traces, traceFaults, disturbed, uncleared>>

\* The end of every call, analysed or not; that the request fails is ignored.
Clear_OnSuccess(r) ==
  LET t == TraceTab[r]
  IN /\ recording[r].at \in {"collected", "failing"}
     /\ To(r, IF recording[r].at = "collected" THEN "answered" ELSE "failed")
     /\ disturbed' = disturbed \cup (Active(t) \ {r})
     /\ traceBuffers' = [traceBuffers EXCEPT ![t] = IF recording[r].at = "collected" THEN NoBuffer ELSE @]
     /\ UNCHANGED <<traceFaults, uncleared, tracer, lostTabs, traces>>
Clear(r) ==
  LET t == TraceTab[r]
  IN /\ recording[r].at \in {"collected", "failing"}
     /\ To(r, IF recording[r].at = "collected" THEN "answered" ELSE "failed")
     /\ disturbed' = disturbed \cup (Active(t) \ {r})
     /\ \/ /\ traceBuffers' = [traceBuffers EXCEPT ![t] = NoBuffer]
           /\ UNCHANGED <<traceFaults, uncleared>>
        \/ Fault /\ uncleared' = uncleared \cup {t} /\ UNCHANGED traceBuffers
     /\ UNCHANGED <<tracer, lostTabs, traces>>

-----------------------------------------------------------------------------
(***************************************************************************)
(* The browser, and the extension that hears of it.  What comes without a  *)
(* buffer is an event like any other.                                      *)
(***************************************************************************)
DataCollected ==
  LET t == TraceTab[tracer.of]
      value == [i \in DOMAIN Head(tracer.left) |-> [of |-> tracer.of, event |-> Head(tracer.left)[i]]]
      chunks == traceBuffers[t].chunks \o value
  IN /\ tracer.at = "flushing" /\ tracer.left # <<>>
     /\ tracer' = [tracer EXCEPT !.left = Tail(@)]
     /\ traceBuffers' = IF ~ traceBuffers[t].there THEN traceBuffers
          ELSE [traceBuffers EXCEPT ![t].chunks = chunks,
                                    ![t].overflowed = @ \/ (value # <<>> /\ Len(chunks) >= MaxTraceChunks)]
     /\ UNCHANGED <<recording, lostTabs, traces, traceFaults, disturbed, uncleared>>

TracingComplete ==
  LET t == TraceTab[tracer.of]
  IN /\ tracer.at = "flushing" /\ tracer.left = <<>> /\ tracer' = Still
     /\ traceBuffers' = IF traceBuffers[t].there THEN [traceBuffers EXCEPT ![t].complete = TRUE] ELSE traceBuffers
     /\ UNCHANGED <<recording, lostTabs, traces, traceFaults, disturbed, uncleared>>

\* The turn ends or the user takes the debugger away: the trace is gone, the buffer
\* is not.
Detached(t) ==
  /\ Tracing(t) /\ Fault /\ tracer' = Still
  /\ UNCHANGED <<recording, traceBuffers, lostTabs, traces, disturbed, uncleared>>
Untrack(t) ==
  /\ t \notin lostTabs /\ Active(t) # {} /\ Fault /\ lostTabs' = lostTabs \cup {t}
  /\ tracer' = (IF Tracing(t) THEN Still ELSE tracer)
  /\ traceBuffers' = [traceBuffers EXCEPT ![t] = NoBuffer]
  /\ UNCHANGED <<recording, traces, disturbed, uncleared>>

-----------------------------------------------------------------------------
(***************************************************************************)
(* The artifact.  The store gives up its oldest traces until the rest      *)
(* fits; a trace is inspected while it is there.                           *)
(***************************************************************************)
Size(stored) == FoldLeft(LAMBDA n, a : IF a.kept THEN n + Len(recording[a.of].trace) ELSE n, 0, stored)
enforceLimit_Newest(stored) ==
  [i \in DOMAIN stored |-> [stored[i] EXCEPT !.kept = @ /\ Size(SubSeq(stored, 1, i)) <= MaxArtifactEvents]]
enforceLimit(stored) ==
  [i \in DOMAIN stored |-> [stored[i] EXCEPT !.kept = @ /\ Size(SubSeq(stored, i, Len(stored))) <= MaxArtifactEvents]]
Store(r) ==
  /\ recording[r].at = "answered" /\ To(r, "stored")
  /\ traces' = enforceLimit(Append(traces, [of |-> r, kept |-> TRUE]))
  /\ UNCHANGED <<tracer, traceBuffers, lostTabs, traceFaults, disturbed, uncleared>>
Inspect(r) ==
  /\ recording[r].at = "stored" /\ To(r, IF [of |-> r, kept |-> TRUE] \in ToSet(traces) THEN "inspected" ELSE "missing")
  /\ UNCHANGED <<tracer, traceBuffers, lostTabs, traces, traceFaults, disturbed, uncleared>>
\* Thirty minutes are over.
Expire ==
  /\ Fault /\ \E i \in DOMAIN traces : traces[i].kept /\ traces' = [traces EXCEPT ![i].kept = FALSE]
  /\ UNCHANGED <<recording, tracer, traceBuffers, lostTabs, disturbed, uncleared>>

TraceRecordingNext ==
  \/ \E r \in Recordings : \/ Begin(r) \/ Start(r) \/ Loaded(r) \/ End(r) \/ Collect(r) \/ Clear(r)
                           \/ Store(r) \/ Inspect(r)
  \/ DataCollected \/ TracingComplete \/ Expire
  \/ \E t \in Tabs : Detached(t) \/ Untrack(t)

-----------------------------------------------------------------------------
(***************************************************************************)
(* The analysis (parseTrace): one pass over the events in the order they   *)
(* were delivered.                                                         *)
(***************************************************************************)
None == -1
LongTask == 50
NoMetrics == [navigationStart |-> None, documentHost |-> "none", FCP |-> None, LCP |-> None, mainThread |-> 0, TBT |-> 0,
              starts |-> <<>>, finishes |-> <<>>, resources |-> 0, transferBytes |-> 0]
\* A resource is finished when its start came before.
Finished_Unmatched(m, e) ==
  IF e.id \in DOMAIN m.starts
  THEN [m EXCEPT !.transferBytes = @ + e.amount, !.finishes = (e.id :> e.amount) @@ @, !.resources = @ + 1]
  ELSE [m EXCEPT !.finishes = (e.id :> e.amount) @@ @]
Finished(m, e) ==
  IF e.id \in DOMAIN m.starts
  THEN [m EXCEPT !.transferBytes = @ + e.amount, !.finishes = (e.id :> e.amount) @@ @, !.resources = @ + 1]
  ELSE [m EXCEPT !.transferBytes = @ + e.amount]
After(m, e) ==
  CASE e.name = "navigationStart" ->
         [m EXCEPT !.navigationStart = IF @ = None THEN e.ts ELSE @, !.documentHost = e.host]
    [] e.name = "firstContentfulPaint" -> [m EXCEPT !.FCP = IF @ = None THEN e.ts ELSE @]
    [] e.name = "LargestContentfulPaint" -> [m EXCEPT !.LCP = e.ts]
    [] e.name = "RunTask" -> [m EXCEPT !.mainThread = @ + e.amount, !.TBT = @ + Max({0, e.amount - LongTask})]
    [] e.name = "ResourceSendRequest" -> [m EXCEPT !.starts = (e.id :> e) @@ @]
    [] e.name = "ResourceFinish" -> Finished(m, e)

parseTrace(events) ==
  LET m == FoldLeft(After, NoMetrics, events)
      from == IF m.navigationStart # None \/ events = <<>> THEN m.navigationStart
              ELSE Min({e.ts : e \in ToSet(events)})
      relative(value) == IF value = None \/ from = None THEN None ELSE Max({0, value - from})
      FCP == relative(m.FCP)
      blocking == {id \in DOMAIN m.starts :
                     m.starts[id].type = "Script" /\ (FCP = None \/ m.starts[id].ts <= from + FCP)}
      thirdParty == {id \in DOMAIN m.starts : m.documentHost \notin {"none", m.starts[id].host}}
  IN [FCP |-> FCP, LCP |-> relative(m.LCP), mainThread |-> m.mainThread, TBT |-> m.TBT,
      resources |-> m.resources, transferBytes |-> m.transferBytes, renderBlocking |-> Cardinality(blocking),
      thirdPartyBytes |-> FoldSet(LAMBDA id, n : n + m.finishes[id], 0, thirdParty \cap DOMAIN m.finishes)]
EventsOf(r) == [i \in DOMAIN recording[r].trace |-> recording[r].trace[i].event]

-----------------------------------------------------------------------------
(***************************************************************************)
(* Properties                                                              *)
(***************************************************************************)
Answered == {"answered", "stored", "inspected", "missing"}

\* A recording that was alone on its tab answers with every event of its own trace
\* and with no other, whatever the recording before it left behind.
AloneIsWhole == \A r \in Recordings \ disturbed : recording[r].at \in Answered =>
  /\ \A c \in ToSet(recording[r].trace) : c.of = r
  /\ \E batches \in TraceOf[r] : EventsOf(r) = FlattenSeq(batches)

\* The extension keeps no trace of a tab nobody records, unless trace.clear was lost.
NothingGathers == \A t \in Tabs \ uncleared : traceBuffers[t].there => Active(t) # {}

\* The trace stored last can be inspected if it fits into the store at all, until its
\* time is over.
NewestIsKept == traces # <<>> /\ traceFaults = 0 =>
  Last(traces).kept \/ Len(recording[Last(traces).of].trace) > MaxArtifactEvents

\* Whatever the order the events came in, what other hosts sent is part of what was
\* sent, and long tasks of the time the main thread was busy.
PartsWithinTotals == \A r \in Recordings : recording[r].at \in Answered =>
  LET metrics == parseTrace(EventsOf(r))
  IN metrics.thirdPartyBytes <= metrics.transferBytes /\ metrics.TBT <= metrics.mainThread

TraceRecordingSound == AloneIsWhole /\ NothingGathers /\ NewestIsKept /\ PartsWithinTotals

\* Not true: the last events of a trace that was given up (events.ts calls that
\* retryable) complete the buffer of the recording that follows, which then answers
\* with them at once.
RecordedIsOwn == \A r \in Recordings : recording[r].at \in Answered =>
  \A c \in ToSet(recording[r].trace) : c.of = r

\* Not true: a call that fails after Tracing.start leaves the browser tracing, and no
\* recording starts any more until the debugger leaves.
NobodyTracesInVain == tracer.at = "recording" => Active(TraceTab[tracer.of]) # {}

\* Not true: MAX_TRACE_CHUNKS marks a buffer that goes on growing.
BufferIsBounded == \A t \in Tabs : Len(traceBuffers[t].chunks) <= MaxTraceChunks

\* Not true: a trace larger than the store is pushed out by its own storing; the answer
\* names an artifact that is gone.
StoredIsReadable == traces # <<>> /\ traceFaults = 0 => Last(traces).kept

\* Not true: the largest paint is the one delivered last, not the latest.
LargestIsLatest == \A r \in Recordings : recording[r].at \in Answered =>
  parseTrace(EventsOf(r)).LCP = parseTrace(SortSeq(EventsOf(r), LAMBDA e, f : e.ts < f.ts)).LCP
=============================================================================
