----------------------------- MODULE MCServices -----------------------------
(***************************************************************************)
(* The components that serve a client, for TLC: those that owe it an       *)
(* answer, or an end, whatever fails, and those that keep what belongs to  *)
(* it.  They share no state: a behaviour sets one scene and lets that      *)
(* component act while the others rest in their initial states.            *)
(*                                                                         *)
(* The relay and the embedding queue, whose invariants are proved for      *)
(* every value of their constants, are extended: the configuration gives   *)
(* the constants.  The others are instantiated.                            *)
(***************************************************************************)
EXTENDS McpRelay, EmbedQueue

VARIABLES scene,
    objects, standing, coreCall, browserProfile, ownedTabs, overridden, stored, mixed, clashed,
    process, tracking, harnessCall, sessions, approval, openSession, lease, servers, endpoints, owners, refresh,
    refreshes, cut, unseen,
    signature, legacy, capture, vectorModel, wanted, once, revived, course, records1, rounds,
    database, path, handle, searching, uninvited, overpruned, reusedId, fromDeleted, storeRecords, storeSteps,
    site, documents, childSessions, routes, current, frameCall, given, frameTurns, crossed,
    usageFile, toWrite, writing, ledger, reading, clears,
    shown, entries, pending, outcome, loadCall, gecko, turns,
    recording, tracer, traceBuffers, lostTabs, traces, traceFaults, disturbed, uncleared

-----------------------------------------------------------------------------
\* Two or three calls of one session, of which two overlap.
CoreActions == [openB |-> "open", claim |-> "claim", conf |-> "configure", confB |-> "configure", reset |-> "reset",
                rel |-> "release", fin |-> "finalize", cap |-> "capture", diff |-> "diff"]
Core == INSTANCE CoreSession WITH
    CoreCalls <- DOMAIN CoreActions, ActionOf <- CoreActions, Unset <- "unset",
    CoreProfiles <- {"A", "B"}, TabNumbers <- {1}, ArtifactLimit <- 1,
    AskedProfile <- [c \in DOMAIN CoreActions |->
                        CASE c \in {"openB", "confB"} -> "B" [] c = "claim" -> "A" [] OTHER -> "unset"],
    AskedTab <- [c \in DOMAIN CoreActions |-> IF c = "rel" THEN 1 ELSE 0], MaxTogether <- 2,
    CorePlans <- {{"openB", "cap", "diff"}, {"conf", "openB", "fin"}, {"conf", "confB", "fin"},
                  {"conf", "rel", "claim"}, {"conf", "reset", "fin"}, {"cap", "fin"}}
Harness == INSTANCE HarnessLife WITH
    HarnessCalls <- {"c", "d"}, HarnessServers <- {"s"}, MaxRefreshes <- 1
\* Lessons over two errors, then chains and their vectors.
Legacy == INSTANCE LegacyMemory WITH
    Signatures <- {"s", "t"}, ErrorCodes <- {"e", "f"}, VectorModels <- {"m", "n"}, NoVector <- "none",
    CallerChains <- {<<"own">>},
    LegacyCourses <- {[errors |-> {"e", "f"}, records |-> 3, chains |-> 0, rounds |-> 1, embeds |-> FALSE],
                      [errors |-> {"e"}, records |-> 2, chains |-> 2, rounds |-> 1, embeds |-> TRUE]}
\* A record of each of two actions, or two of one, and one change of the settings.
Stores == INSTANCE MemoryStores WITH
    Host <- "host", Commands <- {"cli"}, StoredActions <- {"a", "b"}, MemoryProfiles <- {"P"}, NoProfile <- "none",
    StoreFiles <- {1, 2}, MaxStoreRecords <- 2, MaxStoreSteps <- 1
\* Two commands for one frame or two, over a frame that changes once, or a press.
Frame == INSTANCE FrameRouting WITH
    Frames <- {1, 2}, OwnProcess <- {2}, RootTold <- TRUE, NoCaller <- "none",
    FrameCalls <- {"ev", "ex", "eg", "mk", "qu", "pr"},
    CallKind <- [ev |-> "evaluate", ex |-> "evaluate", eg |-> "evaluate",
                 mk |-> "make", qu |-> "qualified", pr |-> "press"],
    FrameOf <- [c \in {"ev", "ex", "eg", "mk", "qu", "pr"} |-> IF c = "eg" THEN 2 ELSE 1],
    FramePlans <- {[calls |-> {"ev", "ex"}, turns |-> 1], [calls |-> {"mk", "qu"}, turns |-> 1],
                   [calls |-> {"ev", "eg"}, turns |-> 1], [calls |-> {"pr"}, turns |-> 2]},
    sessions <- childSessions
\* Two rows of a day after one of the week before, and a file that is cleared once.
Usage == INSTANCE UsageLedger WITH
    UsageRows <- {1, 2, 3}, Earlier <- <<2>>, UsageWriters <- {"p", "q"}, NoRow <- 0,
    RowOf <- <<[at |-> 36, service |-> "jev", ms |-> 1], [at |-> 23, service |-> "none", ms |-> 2],
               [at |-> 37, service |-> "jev", ms |-> 3]>>,
    Services <- {"jev", "openai"}, NoService <- "none", ModelService <- <<"none", "openai", "none">>,
    DayLength <- 2, Now <- 38, LastYear <- <<0, 3>>, ChunkSize <- 3, DailyMax <- 3, MaxClears <- 1
\* Two operations that take a tab elsewhere, and one turn of the page.
Loads == INSTANCE PageLoads WITH
    LoadCalls <- {"nav", "data", "back", "fwd"}, NoPending <- "none", MaxTurns <- 1, MaxPolls <- 1,
    LoadKind <- [nav |-> "navigate", data |-> "data", back |-> "back", fwd |-> "forward"],
    WaitUntil <- [nav |-> "load", data |-> "none", back |-> "domcontentloaded", fwd |-> "domcontentloaded"],
    LoadPlans <- {[calls |-> {"nav", "back"}, gecko |-> FALSE], [calls |-> {"data", "nav"}, gecko |-> FALSE],
                  [calls |-> {"back", "fwd"}, gecko |-> TRUE]}
\* Two recordings of one tab, one delivered in one of two orders; one fault.
TraceEvent(name, ts, amount, id, from, type) ==
    [name |-> name, ts |-> ts, amount |-> amount, id |-> id, host |-> from, type |-> type]
Navigated == TraceEvent("navigationStart", 1, 0, 0, "own", "none")
Sent == TraceEvent("ResourceSendRequest", 3, 0, 7, "other", "Script")
Received == TraceEvent("ResourceFinish", 5, 3, 7, "none", "none")
Painted == TraceEvent("firstContentfulPaint", 3, 0, 0, "none", "none")
Largest(ts) == TraceEvent("LargestContentfulPaint", ts, 0, 0, "none", "none")
Task == TraceEvent("RunTask", 2, 60, 0, "none", "none")
Traces == INSTANCE TraceRecording WITH
    Recordings <- {"load", "paint"}, TraceTab <- [r \in {"load", "paint"} |-> 1],
    TraceOf <- [load |-> {<<<<Navigated, Sent>>, <<Received>>>>, <<<<Received, Navigated>>, <<Sent>>>>},
                paint |-> {<<<<Largest(5), Task>>, <<Largest(4), Painted>>>>}],
    MaxTraceChunks <- 2, MaxArtifactEvents <- 4, MaxTraceFaults <- 1

-----------------------------------------------------------------------------
Scenes == {"mcp", "embed", "core", "harness", "legacy", "stores", "frames", "usage", "loads", "traces"}

\* Where a component may begin in several ways, it does so in its own scene only.
Init ==
    /\ scene \in Scenes
    /\ RelayInit
    /\ EmbedInit /\ (scene # "embed" => setting = "m")
    /\ Harness!HarnessLifeInit /\ (scene # "harness" => process = "mcp")
    /\ Legacy!LegacyMemoryInit /\ (scene # "legacy" => course.embeds)
    /\ Stores!MemoryStoresInit /\ (scene # "stores" => path = 0)
    /\ Frame!FrameRoutingInit /\ (scene # "frames" => frameCall["pr"].at = "idle")
    /\ Usage!UsageLedgerInit
    /\ Loads!PageLoadsInit /\ (scene # "loads" => gecko)
    /\ Traces!TraceRecordingInit
    /\ Core!CoreSessionInit
    /\ (scene # "core" => browserProfile = "A" /\ coreCall["cap"].at = "idle" /\ coreCall["fin"].at = "idle")

coreSessionVars == <<objects, standing, coreCall, browserProfile, ownedTabs, overridden, stored,
                     mixed, clashed>>
harnessLifeVars == <<process, tracking, harnessCall, sessions, approval, openSession, lease, servers,
                     endpoints, owners, refresh, refreshes, cut, unseen>>
legacyMemoryVars == <<signature, legacy, capture, vectorModel, wanted, once, revived, course,
                      records1, rounds>>
memoryStoresVars == <<database, path, handle, searching, uninvited, overpruned, reusedId,
                      fromDeleted, storeRecords, storeSteps>>
frameRoutingVars == <<site, documents, childSessions, routes, current, frameCall, given, frameTurns, crossed>>
usageLedgerVars == <<usageFile, toWrite, writing, ledger, reading, clears>>
pageLoadsVars == <<shown, entries, pending, outcome, loadCall, gecko, turns>>
traceRecordingVars == <<recording, tracer, traceBuffers, lostTabs, traces, traceFaults, disturbed, uncleared>>
vars == <<scene, relayVars, embedVars, coreSessionVars, harnessLifeVars, legacyMemoryVars,
          memoryStoresVars, frameRoutingVars, usageLedgerVars, pageLoadsVars, traceRecordingVars>>

\* The components of the other scenes rest.
Rest ==
    /\ UNCHANGED scene
    /\ IF scene = "mcp" THEN TRUE ELSE UNCHANGED relayVars
    /\ IF scene = "embed" THEN TRUE ELSE UNCHANGED embedVars
    /\ IF scene = "core" THEN TRUE ELSE UNCHANGED coreSessionVars
    /\ IF scene = "harness" THEN TRUE ELSE UNCHANGED harnessLifeVars
    /\ IF scene = "legacy" THEN TRUE ELSE UNCHANGED legacyMemoryVars
    /\ IF scene = "stores" THEN TRUE ELSE UNCHANGED memoryStoresVars
    /\ IF scene = "frames" THEN TRUE ELSE UNCHANGED frameRoutingVars
    /\ IF scene = "usage" THEN TRUE ELSE UNCHANGED usageLedgerVars
    /\ IF scene = "loads" THEN TRUE ELSE UNCHANGED pageLoadsVars
    /\ IF scene = "traces" THEN TRUE ELSE UNCHANGED traceRecordingVars

Next ==
    \/ scene = "mcp" /\ RelayNext /\ Rest
    \/ scene = "embed" /\ EmbedNext /\ Rest
    \/ scene = "core" /\ Core!CoreSessionNext /\ Rest
    \/ scene = "harness" /\ Harness!HarnessLifeNext /\ Rest
    \/ scene = "legacy" /\ Legacy!LegacyMemoryNext /\ Rest
    \/ scene = "stores" /\ Stores!MemoryStoresNext /\ Rest
    \/ scene = "frames" /\ Frame!FrameRoutingNext /\ Rest
    \/ scene = "usage" /\ Usage!UsageLedgerNext /\ Rest
    \/ scene = "loads" /\ Loads!PageLoadsNext /\ Rest
    \/ scene = "traces" /\ Traces!TraceRecordingNext /\ Rest

Spec == Init /\ [][Next]_vars /\ RelayFairness /\ EmbedFairness

-----------------------------------------------------------------------------
\* Of the relay and the queue, LeaseCountsWork, CallsAnswered, NothingForgotten and
\* EmbeddedOrLost are checked as they stand there.

\* The type invariants of the components.
ServicesTypeOK ==
    /\ scene \in Scenes
    /\ RelayTypeOK /\ EmbedTypeOK /\ Core!CoreSessionTypeOK
    /\ Harness!HarnessLifeTypeOK /\ Legacy!LegacyMemoryTypeOK /\ Stores!MemoryStoresTypeOK
    /\ Frame!FrameRoutingTypeOK /\ Usage!UsageLedgerTypeOK /\ Loads!PageLoadsTypeOK
    /\ Traces!TraceRecordingTypeOK

\* core/runtime.ts, environment-cleanup.ts, artifacts.ts: a session notes the tabs
\* it overrides, through failures and finalizations, and what it keeps is of its
\* profile; only overlapping calls may defeat it.
\* adapters/runtime-activity.ts, leases.ts: the record of a process counts its calls,
\* no other process removes it before its session, and nothing that runs is cut by a
\* refresh.
\* frame-routing.ts: a command runs in its frame and its context's document, and
\* fails for want of a context only by what changed.
\* operation-groups/session.ts: what is ready, or written into, is never the document
\* that was left, and back is an entry beside the tab's.
\* operation-groups/events.ts, core/artifacts.ts, diagnostics/trace-parser.ts: a trace
\* recorded alone is whole and none but its own, and it is kept and counted.
SessionsSound ==
    /\ Core!CoreSessionSound /\ Harness!HarnessLifeSound
    /\ Frame!FrameRoutingSound /\ Loads!PageLoadsSound /\ Traces!TraceRecordingSound

\* memory/store-*.ts: what was learned is kept by pruning, eviction and merging, and
\* the database obeys its settings and agrees with its statistics, whichever of its
\* processes writes.
\* decisions/usage-ledger.ts: the ledger is counted whole, however it is read and cut,
\* and a report is of its period.
StoreSound == Legacy!LegacyMemorySound /\ Stores!MemoryStoresSound /\ Usage!UsageLedgerSound
=============================================================================
