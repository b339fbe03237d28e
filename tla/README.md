# Specifications of OpenCode Chromium

TLA+ models of the parts of this repository that are concurrent, restart, fail
halfway or are updated while they run. TLC checks them on small instances;
TLAPS proves the theorems of the five `*Proofs` modules, of `RuntimeLock`, `McpRelay` and
`EmbedQueue` for every value of the constants. `PROJECT.json` lists the components,
the runs, the mutants, the lines of code each definition stands for, the hazards and
the theorems.

Paths are relative to the root of the repository. `BG` stands for
`extension-src/entrypoints/background`, `CT` for `src/control`, `NH` for
`native-host/src`, `BO` for `src/browser/operations`.

## 1. The system

An agent's harness (Codex, OpenCode, Claude ...) starts an MCP *supervisor*,
which starts an MCP *worker* of one installed release. The worker's core runtime
keeps sessions, approvals and artifacts; its browser client talks over a local
socket to the *native-messaging worker* of a browser profile. That process is a
child of the profile's *broker*, which the browser started, and which relays
frames between the extension's port and the worker. The extension runs commands
in tabs that agents' sessions own. The native host also keeps the page memory,
the semantic models and the decision service. A *controller* and an *updater*
install releases and move the pointer `runtime.json`; each supervisor and broker
picks up the pointer by itself.

    harness -- MCP supervisor -- MCP worker: core runtime, operations -- client
                                                                           | socket
    page -- extension -- port -- broker -- stdio -- native worker (rpc-relay, memory,
              |                    |                                decisions, models)
        tabs, sessions        runtime.json, leases, runtime-gate.lock
        popup                      |
                         updater, setup, controller jobs, collection of releases

Components share files (the pointer, leases, rows of jobs, the memory's database,
the usage ledger, the clients' configurations), messages (the native port, the
socket, stdio, MCP) and, inside a JavaScript process, objects that calls hold
across awaits. Almost every hazard below is one of these three: a file that was
read before it is written, an answer that is late or lost, an object that was
looked at before an await and used after it.

### Inventory

| Component | Code | State | What is hard | What makes it correct | Modules |
|---|---|---|---|---|---|
| Runtime lock | `CT/state.ts` | lock file, pid in it | processes run between any two system calls and die anywhere | exclusion, calls return, a dead holder's lock is recovered | `RuntimeLock` |
| Release pointer | `src/shared/runtime-config.ts`, `CT/activation.ts` | `runtime.json` | several writers | a rollback goes to something that ran | `RuntimeReleases` |
| Updater, collection | `CT/update.ts` | status, staging, `releases/` | a check is minutes old when it activates; the collector holds no lock | majors only with approval; retained and leased releases stay | `RuntimeReleases` |
| Setup, clients' files | `src/management/setup.ts`, `transaction.ts`, `src/cli` | planned changes, clients' configurations | plan and apply are apart; apps edit the same files | all or nothing, and nobody's edit is lost | `RuntimeReleases`, `ClientSetup` |
| Channels, plugin | `src/management/channels.ts`, `marketplace.ts` | snapshots, the unpacked extension, marker | kills between steps; two locks over one directory | the pointer names a whole snapshot | `ChannelActivation`, `BrowserMarketplace` |
| Supervisor, leases | `CT/mcp-supervisor.ts`, `leases.ts` | lease file, requests in flight | select and publish are apart; workers fail with calls pending | leases pin, calls are answered, what is published is what is in flight | `RuntimeReleases`, `McpRelay`, `HarnessLife` |
| Broker | `CT/browser-broker.ts` | current worker, forwarded ids, probe, contract | late output and exits of replaced workers, probes | no request is orphaned, one worker, idle profiles adopt | `BrowserBroker` |
| Request path | `src/browser/client.ts`, `NH/rpc-relay.ts`, `BG/native-rpc.ts` | ids on three hops, admission, deadlines | late answers, closed sockets, ids that restart | at most once, own answers, every call returns | `RequestPath`, `RequestContract` |
| Sessions and tabs | `BG/runtime.ts`, `runtime-methods.ts`, `finalize-session.ts` | Map of sessions, its copy in storage | handlers interleave at awaits, restarts | one owner, nothing lost by a restart | `TabOwnership` |
| Reconciliation | `CT/reconcile.ts`, `BG/reconcile-sessions.ts` | leases, quiet sessions | proof of abandonment is old when used | live and recent sessions untouched, settled means released | `TabOwnership` |
| Command health | `BG/command-health.ts`, `debugger-attach.ts` | lane, quarantine, attachment | commands that end after their deadline | two calls work in a tab only by a given-up deadline | `TabCommands`, `DebuggerSession` |
| Control jobs | `CT/jobs.ts`, `controller.ts` | rows on disk | detached processes, rows that age | a second start saw the first | `ControlJobs` |
| Core runtime | `src/core` | approvals, recipes, sessions, artifacts | replays, calls of one session that overlap | mutations are not repeated silently; overrides are noted | `RunSteps`, `CoreSession` |
| Browser operations | `BO/*`, `src/browser/*` | attached domains, overrides, tab ids, page ids, traces | lost answers; a page that changes between two commands | an operation acts on, and reports, what it names | `TabEnvironment`, `TabCreation`, `PageInput`, `PageTargets`, `PageLoads`, `TraceRecording`, `NetworkLog` |
| Frames, cursor | `BG/frame-routing.ts`, `runtime-cursor.ts` | contexts, moves | navigation between discovery and use | a command runs in its frame | `FrameRouting`, `CursorMoves` |
| Uploads, downloads | `BG/upload-consent.ts`, `download-events.ts`, `NH/uploads.ts` | pending consents, copies, event log | expiry, limits, pages that go | pages get what was listed; a session reads its own | `Uploads`, `DownloadEvents` |
| Page memory | `NH/memory` | SQLite, embeddings, settings | two processes, ids that come back, pruning | nothing learned is lost, statistics agree | `MemoryLineage`, `EmbedQueue`, `LegacyMemory`, `MemoryStores` |
| Decisions, ranking | `NH/decisions`, `semantic-*.ts` | cache, budgets, settings, models, ledger | settings that change during a question, disposal during use | nothing is sent without consent; a search ranks as if alone | `Decisions`, `SemanticModels`, `SemanticRanking`, `UsageLedger` |
| Host status, popup | `BG/native-rpc.ts`, `runtime-profile.ts`, `popup/*` | port, profile, versions, views | answers out of order | what is shown is the last saved | `HostStatus`, `PopupViews` |
| Firefox | `NH/firefox/backend.ts` | one WebDriver session, guards | tabs that attach during its end | guards and contexts are of the open session | `FirefoxSession` |
| Harness adapters | `src/adapters` | servers, endpoints, records | refresh and exit beside calls | a record counts its calls and outlives their session, but for the exit of its own process | `HarnessLife` |

## 2. Modules

`RuntimeLock`, `RuntimeReleases`, `BrowserBroker`, `TabOwnership` and `RequestPath`
have runs and proofs of their own; the values of their constants are in the last
section of each module. The other components share no variable with each other,
so TLC checks them in two modules, `MCComponents` and `MCServices`: a behaviour
chooses a *scene* and lets that component act while the others rest. The components
that are proved about are extended (`MCComponents` extends `ComponentProofs` and
with it their modules), and get their constants from the configuration; the others
are instantiated.

An operator `Definition_Change` beside a definition is a mutation: a plausible
mistake in the code, which breaks the property it is listed with in `PROJECT.json`.

The map of `PROJECT.json` gives each action, and each operator that stands for code of
its own, the lines it models. An operator that only names a part of an action (a
condition, a selection, a new record) is modelled by lines inside that action's, and
is found there.

### RuntimeLock

`file` is the lock file: who created it and whether the pid has been written.
`pc[p]` is where process `p` is in the loop of `state.ts:47-58`. The actions
are the system calls: `Create` (49), `WritePid` (50), `Exists` (53), `Read`,
`Check` and `Steal` (the three calls of line 54: read the file, probe the pid,
unlink by name), `PollAgain` (55-56), `Release` (60). `End` is the death or the
exit of a process anywhere. A poll counts once against `MaxTries`, which
stands for the deadline of five seconds. Pids are never reused.

### RuntimeReleases

`manifest` is `runtime.json` reduced to the desired and fallback versions, the
staged one, the approved major, the generation, and whether updates are on.
Each updater is a record of its progress through `check()`: `Begin` (the checks
of lines 150-161), `Approve`, `Lock` or `LockTimesOut` (`update-worker.lock`),
`Download`, `Stage`, `Activate`, `UpdateFails`, `Finish`. `Rollback` and
`Configure` are single steps: their bodies run under `runtime-gate.lock`. Setup
is `SetupPlan`, `SetupEnsure`, `SetupBefore` (it reads the file a second time,
which is what the transaction compares with), `SetupApply` or `SetupFails`. A
supervisor goes `Select`, `Pin`, `Unpin`. A collector goes `GcManifest`,
`GcLeases`, then `GcRemove` per directory, `GcEnd`; `Age` lets a directory pass
the seven days. `adopted` and `approvals` are history variables, and so are `read`
(what a collection found retained when it began) and `raced`, which `Watch` keeps
beside every step: a release that is wanted, by the manifest or by a connection,
while a collection that did not see it wanted may still remove it.

### BrowserBroker

The extension's requests (`ext`), the broker's variables under their names in
the code (`child`, `extensionRequests`, `childRequests`, `swap` for `swapping`
with the release chosen, `probed` for the pending probe), and per worker its
state, inbox, clients and pending requests. A worker's standard output is a
queue that the broker reads even after it let go of the worker, as Node does.
`Output` is the `onMessage` of lines 66-79, `Exit` the handler of 83-89, `Tick`
the part of `reconcile()` before its await and `HandleActivity` the part after
it. The pointer moves along the sequence `Manifests`, whose possible values
`RuntimeReleases` describes. `Shutdown` keeps the port open, as lines 175-179 do:
what the extension then sends is noted and forwarded to nobody (`Unserved`), except
that in the code a first hello which selects another release would start a worker
even then; that is left out.

### TabOwnership

JavaScript runs to completion between awaits, so an action is the code between
two awaits: `createTab` is `BeginCreate`, `Create` (the browser made the tab),
`TrackOrFail`, `Grouped`, `Created`. Session objects have identities, because a
handler keeps the object it read before an await although the Map may hold
another by then. `stored` is what `chrome.storage` holds; `Restart` drops the
memory and starts `RestoreRead`, `RestoreSession`, `RestoreTab`, `RestoreEnd`.
Reconciliation is `AskReconcile` (the controller decides from the leases),
`BeginReconcile`, `ReconcileSession`, `ReconcileTab` or `ReconcileBlocked`,
`ReconcileSettle`, and `ReconcileEnd` (the answer arrives, or is lost).
The code starts the restore, connects the port without waiting for it, and has no
guard, so calls, claims, finalizations and reconciliations may be served in the middle
of a restore. They are in the model; the history `early` remembers that one was. Until
then the properties hold, also of tabs that close during the restore; after it TLC
refutes `OneOwner`, `SettledHoldsNothing` and `OwnsOnlyGranted` (section 3).

### RequestPath and RequestContract

A call of an agent (`call`) goes through the client of its process (`client`), a
socket to one native worker (`socket`, `worker`), the relay there (`relay`: its
next id and the ids it waits on) and the extension's handlers (`running`). The
client starts, sends, reconnects, times out or is closed; the relay accepts or
refuses a connection, admits a request, forwards it under an id of its own,
answers it, times it out, drops a socket's requests with the socket; a worker
ends and another starts with ids from one again. `executed` and `strays` are
histories. `RequestContract` is what an agent may rely on: a command begins at
most once, a call ends once, with its own result or with a failure that leaves
open whether it ran; only after a worker's end may it get another call's result.
`RequestPath` implements it by `Promise`, which maps the calls' states to outcomes.

### Components checked in MCComponents

| Scene, module | Code | State and steps | What holds |
|---|---|---|---|
| run: `RunSteps` | `src/core/runtime*.ts`, `approvals.ts`, `retries.ts` | a plan of steps, its replay from memory, fallback, approval tokens, settle conditions | `RunIsHonest`: no call repeats what it knows or fears to have done, claims a mutation that did not happen, or spends an approval on another request; what an error said had not been performed may have been (`misreported`), and is repeated |
| tab: `TabCommands` | `BG/command-health.ts`, `debugger-attach.ts`, `runtime-cdp.ts` | the lane of a tab, deadlines, quarantine, attach and detach by generation, owner changes | `ApartUnlessOrphaned`, `DebuggerIsKnown` |
| input: `PageInput` | `BO/interaction-runtime.ts`, `keyboard.ts` | gestures under one turn, fills over several, users and pages between | `HeldIsAccounted`, `FillIsExact` |
| targets: `PageTargets` | `BO/page-state.ts`, `operation-groups/inspection.ts` | ids given to nodes, lookups, maps, clicks, over a page that moves, covers and replaces nodes; its revision counts records of the observer, and style sheets, transitions or the pointer change the page without one | `PageTargetsSound`: a click that is confirmed was on the node that was listed, and nothing came into or left the document of a search while it ran |
| jobs: `ControlJobs` | `CT/jobs.ts`, `controller.ts` | rows: start, join, run, age, lose, prune | `TwiceOnlyOvertaken` |
| setup: `ClientSetup` | `src/management/setup.ts`, `transaction.ts`, `src/cli` | plan, lock, compare, write, roll back, link, install, edits of apps | `ClientSetupSound`; of edits, that one is lost only between a command's look at the file and its write, or in a file that is then written back (`EditsKept`) |
| activate: `ChannelActivation` | `src/management/channels.ts`, `development-extension.ts` | build, snapshot, replace the extension, move the pointer, kills | `ActivationSound` |
| market: `BrowserMarketplace` | `src/management/marketplace.ts` | marker, lock, commands of Codex that may fail | `MarketSound` |
| lineage: `MemoryLineage` | `NH/memory/store-*.ts` | record, fold, replace, splice, prune, recall | `LineageKept`, `LostOnlyByReturn` |
| models: `SemanticModels` | `NH/semantic-runtime.ts` | load, join a load, use, dispose, delete | `ListedIsAlive` |
| rank: `SemanticRanking` | `NH/semantic-ranking.ts`, `semantic-settings.ts` | word scores, gate, embeddings through two caches, reranking, settings saved meanwhile | `RankingSound`: the order is that of a search alone, with no caches |
| decide: `Decisions` | `NH/decisions` | coalescing of searches that share images alike, budgets, text then image, cache, settings | `SentUnderConsent`, with `QuestionsShared` in it |
| upload: `Uploads` | `BG/upload-*.ts`, `NH/uploads.ts` | list, ask, copy, compare the address, hand over to a node or by coordinates, note, release | `UploadsSound`: a file input gets the listed file in its document; a drag at the address last looked at, unless the tab left it after that (`strayed`) |
| download: `DownloadEvents` | `BG/download-events.ts` | bounded logs per session, tabs that change hands | `ReadsItsOwn` |
| network: `NetworkLog` | `src/browser/network.ts`, `events.ts` | bounded log of events, records folded from it, bodies | `RecordsAreTrue` |
| domain: `DebuggerSession` | `BO/session-runtime.ts` | attachment and domains an agent believes in, one retry | `PerformedOnce` |
| env: `TabEnvironment` | `src/browser/environment.ts` | overrides and preload scripts, their record, reset | `OverridesTracked` |
| creation: `TabCreation` | `src/browser/client.ts`, `BO/session-runtime.ts` | choice of a profile, create, recover after a lost answer | `AnswerIsOwn`, `UsedCoversTabs` |
| firefox: `FirefoxSession` | `NH/firefox/backend.ts` | open, attach, guard, detach, end, loss | `FirefoxSound` |
| cursor: `CursorMoves` | `BG/runtime-cursor.ts`, `entrypoints/cursor.ts` | numbered moves, arrivals, time-outs, reloads | `ArrivedIsThere` |
| status: `HostStatus` | `BG/native-rpc.ts`, `runtime-profile.ts`, `popup/App.tsx` | connect, announce, heartbeat, label, broadcast | `HostStatusSound` |
| popup: `PopupViews` | `popup/*.tsx` | load, edit, save, stale answers | `PopupViewsSound` |

### Components checked in MCServices

| Scene, module | Code | State and steps | What holds |
|---|---|---|---|
| mcp: `McpRelay` | `CT/mcp-supervisor.ts`, `mcp-worker.ts` | calls, workers that start, fail, change; requests of workers, also while they start; deadlines; close | `LeaseCountsWork`, `CallsAnswered` (liveness) |
| embed: `EmbedQueue` | `NH/memory/embed.ts`, `embedding-service.ts` | bounded queue, batches, retries, rebuilds, model changes | `NothingForgotten`, `EmbeddedOrLost` (liveness) |
| core: `CoreSession` | `src/core/runtime.ts`, `artifacts.ts` | session objects held across awaits, profile, overrides, artifacts, finalize | `CoreSessionSound`, of calls that do not overlap in the flagged ways (`mixed`, `clashed`) |
| harness: `HarnessLife` | `src/adapters`, `CT/leases.ts` | servers, records, refresh; a process that is killed, that leaves on a signal and then exits, or exits without one | `HarnessLifeSound`: a record outlives the session it told of, unless its own process exits and removes it |
| legacy: `LegacyMemory` | `NH/memory/store-foundation.ts`, `purge.ts` | signatures, lessons, chains, vectors, pruning | `LegacyMemorySound` |
| stores: `MemoryStores` | `NH/memory/store-*.ts`, `src/cli/memory.ts` | two processes over one database, settings, backup, delete | `MemoryStoresSound` |
| frames: `FrameRouting` | `BG/frame-routing.ts` | discovery, contexts, commands over frames that change | `FrameRoutingSound` |
| usage: `UsageLedger` | `NH/decisions/usage*.ts` | rows in two pieces, folds, reports, clears | `UsageLedgerSound` |
| loads: `PageLoads` | `BO/operation-groups/session.ts` | navigate, data, back, forward, ready checks | `PageLoadsSound` |
| traces: `TraceRecording` | `BO/operation-groups/events.ts`, `NH/diagnostics` | record, collect, fold, keep | `TraceRecordingSound` |

Where a property holds only outside some overlap, the module keeps a history
variable that marks it and the property names it: `overtaken`, `orphaned`,
`mixed`, `clashed`, `collided`, `swapped`, `superseded`, `crossed`, `overlapped`,
`disturbed`, `early`, `raced`, `misreported`, `strayed`. The unrestricted statements are in section 3.
`lowered` (`CursorMoves`) and `undoLost` (`FirefoxSession`) are of the same kind.
`crossed` of `TabCreation` holds the profiles in which a tab was asked for beside a
finalization. `configuration.ts:81-97` reads the profiles in use, waits for all of
them, and then forgets all that are in use: those that came into use meanwhile go
with them, and a later finalization does not ask them for the session's tabs.

## 3. Runs

| Run | Question | Outcome |
|---|---|---|
| `RuntimeLockMortal` | exclusion until the first death, clean releases, returning calls, recovery of a dead holder's lock | holds |
| `RuntimeLockExclusion` | exclusion after a death | violated |
| `MCReleasesUpdate` | fallback, approvals with an updater, a setup, rollbacks and configuration | holds |
| `MCReleasesCollect` | does a collection spare what is retained or leased, unless that was taken up after it had looked (`raced`)? beside an updater, leases and rollbacks | holds |
| `MCReleasesCollectUpdate` | collection against an activation | violated |
| `MCBrokerUpdate` | orphaned requests, two workers, adoption when idle, over an update and a crash | holds |
| `MCBrokerBusy` | does a busy worker drain? | violated |
| `TabOwnershipServe` | one owner, only granted tabs, settled sessions until a call is served in the middle of a restore; storage; two calls at once and a restart | holds |
| `TabOwnershipSurvive` | does storage keep what memory has, also after a restart? | violated |
| `RequestPathServe` | commands run at most once, are answered by themselves while the worker lives, return, are forgotten by the relay; refinement of `RequestContract` | holds |
| `MCComponents` | the scenes of the first table above | holds |
| `MCServices` | the scenes of the second table; liveness of the MCP relay and of the embedding queue | holds |

### Bounds

* `RuntimeLockMortal`: three processes, two mortal, one poll before the
  deadline. Every race over the file involves a holder that is gone and two
  waiters; more polls repeat the same states.
* `MCReleasesUpdate`: three versions (a release, a major, a minor of that
  major), one updater, one setup, three changes of the pointer, so that
  an update, a rollback and a setup fit in any order.
* `MCReleasesCollect`: three versions, one updater, a supervisor, a collector, two
  changes of the pointer: an update or a rollback fits before, into or after the
  collection. `MCReleasesCollectUpdate` is the same without the supervisor.
* `MCBrokerUpdate`: the port's hello and one request, one request of a worker,
  one client, one crash, four workers: the first, its restart, the update and
  one more.
* `TabOwnershipServe`: two sessions, two tabs of which one is the user's, two
  calls in flight, two calls in all, one restart, one harness that may die. Two
  calls are what the races over one tab need. `Talk` and `Act` are not counted.
* `RequestPathServe`: two calls, of one agent or of two (the second call's agent
  is chosen), two sockets, two workers. An answer can only go astray between two
  calls, over one reconnection or one restart.
* `MCComponents`, `MCServices`: two or three actors per scene (two calls, two
  tabs, two processes), one or two faults of a kind, and the smallest limit of a
  queue or cache that can be passed. The configurations and the `INSTANCE`
  statements of these two modules give each component its constants; a limit of the code such as 500
  events or 1,000 rows becomes two or three, so that the step past it is taken.
  `MaxTurns` of `TabCreation`, what happens beside its calls, is two, so that a
  finalization and something beside it fit; what takes three (another profile
  connects, is selected during a finalization, and is forgotten) is covered by the
  proof, for any number. `MaxVersions` of `HostStatus` is two: the host announces a
  change of its version.

### What the violations show

* **RuntimeLockExclusion.** A reads the pid of a holder that is gone; B does
  the same, unlinks the file and creates its own; A then unlinks *by name*,
  which removes B's lock, and enters too. A process that exits normally right
  after releasing is enough: a waiter may have read its pid before. The window
  is `state.ts:54`; both updates of `runtime.json` then run at once.
* **MCReleasesCollectUpdate.** The collector keeps what was desired or fallback
  when it read the pointer (`update.ts:95`). An old but installed release that
  is activated afterwards is removed under the pointer.
* **MCBrokerBusy.** `reconcile()` looks at the requests in flight before its
  probe, and at the answer to the probe alone after it. A request forwarded in
  between dies with its worker (`browser-broker.ts:165-171`), and the exit
  handler does not fail it, because the worker is no longer `child`.
* **TabOwnershipSurvive.** While `restoreSessions` fills the Map, a tab event
  stores the Map as it is (`BG/runtime.ts:267`). Nothing stores it again at the
  end of the restore, so the next restart loses the sessions that were late.

### Statements the code does not meet

The modules state these as well, and TLC refutes them. Some are sentences of the
repository that hold only with an exception (`NeverRepeated`: "never replay a failed
mutation automatically", `docs/releases/1.10.1.md:7`; `RecordOutlivesExit`: "unfinished
sessions and approvals still require extension verification", `leases.ts:74`;
`RetainedInstalled`: "desired and fallback releases are retained",
`docs/runtime-updates.md:17`), and a property of a passing run then states what holds
and names the exception. `FallbackUnleased` (`docs/runtime-updates.md:17`) and
`SetupReplacesItsPlan` (`transaction.ts:24`) quote such sentences too, and nothing
weaker replaces them. The others are what a reader of the
code might expect, in words that no document uses. Four stand for the rest in runs of
their own, above. To see the trace of another, make the statement the only
`INVARIANT` (or `PROPERTY`) of a copy of the run's configuration; for a component
of `MCComponents` or `MCServices`, add it to the conjunction its scene is part
of. The comment above each definition says what the trace shows.

| Module | Statement | What the trace shows |
|---|---|---|
| `RuntimeLock` | `RetryGetsIn` (under `RetrySpec`) | a process killed between `openSync` and the write leaves an empty file that nobody removes |
| `RuntimeReleases` | `FallbackUnleased`, `SetupReplacesItsPlan` | setup plans from one manifest, reads the file again to compare, and so replaces a newer one |
| `BrowserBroker` | `NoOrphanEver`, `ConnectedWorkerDrains`, `WorkerSpeaksContract`, `ProfileRouted`, `IdleProfileAdopts` | a broker that shut down keeps its port and fails nothing; the probe counts as a client; the contract changes during the probe; a restarted worker is not told the hello; a request that left with its worker blocks every later probe |
| `TabOwnership` | `OneOwner`, `SettledHoldsNothing`, `OwnsOnlyGranted` without `early` | a restored tab joins its session unchecked, after another call took it, after the session was settled, or after it was released |
| `TabOwnership` | `GrantedIsOwned`, `RecentUntouched`, `LiveSessionsKept` | finalizing deletes the entry of a newer session object; the session becomes active, or the harness comes back, after the decision |
| `RequestPath` | `OwnAnswer`, `EveryCallReturns` | a new worker counts its ids from one again, and a late answer of the extension meets one of them; a socket destroyed before it connected leaves its calls waiting |
| `RunSteps`, `CoreSession` | `NeverRepeated`; `CoreSessionSound` of calls that overlap | a replayed action that was performed but did not settle, or of which an error said it was not, is performed again |
| `TabCommands`, `DebuggerSession` | `OneAtATime`, `KnownIsAttached`, `AttachedToOwner`, `NoForeignCommand`; `EnabledIsEnabled` | a call that gives up frees the lane of one that still works |
| `PageInput`, `PageTargets`, `PageLoads` | `FillIsExactAnyway`, `NotStartedChangedNothing`; `BoxesAreCurrent`, `PictureIsOfItsView`, `MapIsOneState`, `PressIsOnItsNode`, `PointIsOnItsNode`; `HistoryIsReady`, `ReadyIsThere`, `ContentIsInItsOwn` | the page changes between two commands of one operation |
| `FrameRouting`, `CursorMoves` | `StillFramesWork`, `RoutesAreCurrent`, `CheckedIsRun`, `PressIsInItsFrame`; `ArrivedIsThereAnyway`, `NothingFliesUnwatched` | a frame navigates between its discovery and its use; two moves carry one number |
| `TabCreation`, `TabEnvironment` | `FailedLeavesNothing`, `NavigatesWhatItMade`; `AlwaysTracked`, `ReportedIsApplied` | an answer is lost after the effect |
| `NetworkLog`, `DownloadEvents`, `Uploads`, `TraceRecording` | `RedirectsHaveNoGap`, `StatusIsTheLast`, `BodyOfFinished`; `NeverClaimed`; `DragsLandWhereLocated`, `CopiesFollowPages`, `AttachedSurvives`; `RecordedIsOwn`, `NobodyTracesInVain`, `BufferIsBounded`, `StoredIsReadable`, `LargestIsLatest` | events past the limit; a drag goes by coordinates to the page that is shown then; a page left, or a host replaced, between a copy and its note; two recordings over one browser |
| `ControlJobs`, `McpRelay`, `HarnessLife` | `OneActionPerKind`; `AnswersGoHome`, `AnswersAreRouted`; `RecordOutlivesExit`, `UncountedIsKept`, `DeadRecordsCanEnd` | a row that looks lost is joined by a second process; an answer to a replaced worker, or before there is one; the exit that follows a signal closes a runtime that was emptied, and removes the record it had abandoned |
| `MemoryLineage`, `LegacyMemory`, `MemoryStores`, `EmbedQueue` | `EveryRecipeHasHead`; `CountedAnew`, `EveryChainHasHead`, `RebuildPossible`, `ChainsLabelled`, `RepeatedAreYoung`; `NegativesAgree`, `BackedUpOnce`, `PrunesAsSet`, `AttemptsCounted`, `DeletedIsSilent`; `SearchSeesAll` | pruning beside recording, two processes over one file, a model that changes during a rebuild |
| `Decisions`, `SemanticModels`, `SemanticRanking`, `UsageLedger` | `KeptProviderServes`; `UsedIsAlive`, `OneModel`, `ReadyIsLoaded`, `NothingLeaks`; `BetterIsNotBelow`, `NoSaveLost`; `BucketsAreOfTheFile`, `WholeRowsCount`, `PastIsReported` | settings read before an await are saved after it; a model is disposed while it is used or loaded |
| `HostStatus`, `PopupViews`, `FirefoxSession` | `VersionsAreLatest`, `TokenOfThisHost`, `IdentityKept`, `RefusedIsNotUsed`, `OpenPopupIsCurrent`; `ModelsNoneOlder`, `ScopeAlwaysShown`, `EditsKept`; `AttachedHasContext` | an answer of an older connection or of an older question arrives last |
| `ClientSetup`, `ChannelActivation`, `BrowserMarketplace` | `RolledBackIsBefore`, `EditsSurvive`, `DoneIsConnected`, `RegisteredStays`, `KeyIsRead`, `OneOwnPlugin`; `ExtensionIsWhole`, `NobodyIsCut`, `NothingOverwritten`, `IsolationStays`, `LockIsOfTheLiving`; `OneRefresh`, `SourceNeverLost` | an app writes its configuration between compare and write; two commands hold two locks over one directory; two waiters find the same dead owner |

## 4. Fairness

* `RuntimeLock`: weak fairness of each process' steps. A process that runs is
  scheduled, and what runs under the lock ends: the longest section is bounded
  by the timeouts of `runProcess`. Nothing is assumed of `Call` or `End`.
* `BrowserBroker`: weak fairness of timers, deliveries and handlers of one
  process; a SIGTERM ends a worker. Strong fairness of a worker's activity
  report and of reading its output, since a probe that times out disables them
  again and again: a worker is not slower than two seconds for ever. Nothing is
  assumed of crashes, clients, requests or of the pointer.
* `RequestPath`: weak fairness of the client's and the relay's timers, of a
  connection's outcome (accepted or refused) and of the relay noticing a closed
  socket. Nothing is assumed of the extension, of the worker's end, or of an
  answer: calls return because of their deadline.
* `McpRelay`: a worker that a call chose is started, initializes or fails; the
  call's timer fires. Nothing is assumed of the worker's answer.
* `EmbedQueue`: timers fire and a call of the model ends, with success or not.
  Strong fairness of `EmbedBatch`, which waits for the semaphore that a rebuild
  may take in between; the semaphore is first in, first out.
* All other modules state safety only.

## 5. Proofs

Each theorem holds for every value of the constants that `ConstantsAssumption`
of its module allows: any sets of processes, releases, sessions, tabs, calls, any
bounds. The inductive invariants were checked by TLC on the instances of section 3
before they were proved. Every run evaluates the assumptions.

**`RuntimeLock`**: `TypeCorrect`, `ExclusionTheorem`, `NoLostReleaseTheorem`.
Exclusion is not inductive: a state with nobody inside and no file while two
processes believe they created it would have to be excluded. `LockInv` says
that, while all are live, a process holds exactly if the file exists and is its
own, and nobody is about to steal. Each action preserves it (`LockInvStep`).

**`RuntimeReleasesProofs`**: `TypeCorrect`, `FallbackDiffersTheorem`,
`FallbackWasDesiredTheorem`, `MajorTheorem`, `RetainedTheorem`, `LeasesTheorem`,
`CalmTheorem`. `Inv` says that the manifest and the copy a setup planned from are
`Sound` (fallback differs, fallback and desired were desired, staged and approved
majors were approved), that every desired release's major was approved, and that
whatever an updater carries between two steps is approved. The last part is what makes
the theorems hold although the pointer moves between the check and the activation.

That a collection removes nothing retained or leased is false where something takes
the release up meanwhile, as the run `MCReleasesCollectUpdate` shows. Nothing is
assumed of who runs beside it: `RetainedTheorem` and `LeasesTheorem` hold for any
updaters, setups, supervisors and collectors, of every release that is not `raced`.
`RaceInv` says that what a collector is about to remove was not retained when it looked
and is not leased unless raced (`CollectorKeeps`), and that a release is raced as soon
as it is wanted and threatened; the lemmas `...Wants` say of each kind of step that what
it comes to want was wanted or leased before, or is on disk (`NothingNew`).
`CalmTheorem` says where the exception is empty: without updaters and setups no
order of rollbacks, connections and collections races.

**`BrowserBrokerProofs`**: `TypeCorrect`, `OneWorkerTheorem`,
`NoOrphanRequestTheorem`. `Inv` says that workers are started in the order of
their numbers (`InOrder`), that the port is open exactly while the broker has a
worker it has not killed (`ChildInv`), and `OneWorker`. While the manifest stays
there is one release to run and no probe (`OneRelease`), and every waiting
request is held: by an inbox, an output, or by the exit to come of the current
worker, which fails it (`AllHeld`). `NoOrphanRequestTheorem` assumes
`StaysCompatible`: the release at the start speaks the extension's contract.
Otherwise the extension's hello itself replaces the worker, and takes the
requests forwarded before it along. The property holds as long as the broker has not
shut down: after that nobody fails what is in flight (`NoOrphanEver` is refuted).

**`RequestPathProofs`**: `TypeCorrect`, `ExecutedOnceTheorem`, `MixedUpTheorem`,
`PromiseKept`. A client's id is used once and a relay's id once in the life of its
worker. `CallInv`, `ClientInv` and `SocketInv` say the first (a client counts what
it sent; what waits to be admitted was not begun and is nowhere else),
`RelayInv` and `Matches` the second (a number on its way is that of its request in
the relay's table, or of none, unless another worker gave it). `DownInv` carries
it to the answers on a socket, and `HistoryInv` says that strays need a second
worker. `PromiseKept` is the refinement of `RequestContract`: under `Inv` every
step maps to one of its steps or to a stutter (`PromiseStep`), and the answer that
settles a call is its own or a stray's.

**`TabOwnershipProofs`**: `TypeCorrect`, `StorageTheorem`, and `OneOwnerTheorem`,
`GrantedTheorem` and `SettledTheorem` of every behaviour up to the first call or
release that is served in the middle of a restore (`~early`). Not inductive by
themselves:
a restart copies `stored` back into the Map tab by tab, so the tabs *still to be
restored* count as held (`HeldInv`), `stored` itself has no tab twice and none
that was not granted (`StoredInv`), and what is being untracked is in storage
only if it is in the Map (`StaleInv`: otherwise untracking, which writes only
when it changed the Map, would leave it behind). `RestoreInv` says which object
the restore holds, `Alone` that until `early` no call and no release is under way
beside the restore, `LeaseInv`
that an expired lease has no calls and a settled one no tabs. Most actions differ
in what they do to one session's object alone: `CommonStep` states the
preservation once for all of them, and the lemmas per action check its premises.

**`McpRelay`**: `LeaseCountsWorkTheorem`, for any finite sets of calls and workers
(hypotheses of the theorem: nothing else is assumed). The count in the lease
equals the size of two sets, and each action changes one of them: by one element
(`Enters`, `Leaves`), by all the calls of a worker that fails (`Rejected`), or not
at all (`GoesOn`).

**`EmbedQueue`**: `NothingForgottenTheorem`, under `Limits` (a batch holds at least
one item, the mark of a bare row is not a model's name). The inductive invariant
adds types and that a call of the model names a model. `SpliceFacts` and
`PushFacts` say that the queue, its batch and the rows known to be lost together
keep every row over a splice and a push, which all actions but the outcomes of a
batch consist of.

**`ComponentProofs`** proves components that `MCComponents` checks, each from the
assumption its module states.

`TabCommands`: `ApartTheorem`, of `TabSpec`, for a `NoCommand` that is no call.
That two calls do not work in a tab together says nothing of the calls that wait, so
`LaneInv` states the queue: until `orphaned`, the calls without an answer wait for
each other in one order, of which `tail` is the last, and one that works waits for
none (`InLine`); work that outlived its call is alone in the tab, kept so by
`Lifecycle` or, for a cleanup, by the quarantine (`Alone`). `MovedInv`, `QueuedInv`,
`DoneInv`, `TimeoutInv` and their like say what each kind of step does to that order.
TLC checked `LaneInv` with three calls before it was proved. It refuted a first form
of `Queued`, in which a gesture that queues for a second time waited for the gate it
had opened itself; in the code that gate is a promise already fulfilled.
`DebuggerTheorem`, for a `NoSession` that is no session (`SessionAssumption`), rests on
`LaneInv` too: a debugger the extension does not know is being detached
(`BeingDetached`), by the call whose attachment came to nothing, late or not, or by a
detachment. The order of the queue is what keeps another call from ending in between.

`PageInput`: `InputTheorem`, for calls of the six kinds and fields apart from
`NoEditable` and `NoInput` (`InputAssumption`). `CommandTable` says where each command
stands among those of its operation, and `EffectOfCommand` what it does to the page;
from these, what is pressed is that of a gesture past its first command or of one
called unknown (`HeldByCalls`), and a fill past its first command is where the focus
is, unless that was moved (`FillAtFocus`). Verification looks at the focus, so it is
this that makes a completed fill exact.

`PageTargets`: `TargetsTheorem`, for any elements, calls and plans. What a call keeps
from one step to the next is as old as the page was then: `CallSees` says that it is of
no later document or revision than the page, and, if of the same revision, that the
page still has those nodes, wherever they are and whether or not they can be seen;
`SeenStays` carries it over every change of the page. What
a call reports at its end (`CallEnds`) is compared in the step that ends it.

`TabCommandsTheorem` joins these to `TabCommandsSound`.

`RunSteps`: `RunTheorem`, for plans of the four kinds of steps (`PlanAssumption`). What
was applied says little before it is related to where the call is and to the steps
that an error misreported: `RunInv` adds that
what is behind the call was performed (`Behind`), that what is ahead of it was not
unless a replay from memory went before and did not settle (`Ahead`, `ReplayKnows`),
and that a token belongs to one approval (`OneApprovalEach`). `BeginInv`, `CallInv` and
`AnswerInv` carry it over the three kinds of steps.

`Uploads`: `UploadsTheorem`, for finitely many uploads, each of one tab
(`UploadAssumption`). The page, its address and the file that an upload was located on stay in its
record while the user is asked and copies are made, so `UploadInv` relates the host's
copy to that record (`KeptAsListed`), and says that nothing is given before the end
(`GivenLast`) and that only uploads that are over are noted for a tab (`AttachedOver`).
`QuestionsBounded` counts a set, which one action alone lets grow (`NoQuestionMore`).

`Decisions`: `ConsentTheorem`, for searches of any hosts, `Nobody` being none of them.
A question is asked by the leader of its topic, the searches of a host that share
images alike (`AskedByLeader`), so there is one at a time, and a provider that a
screenshot waits for was made for images (`QueuedForImages`): what it was made for is
compared with the settings again when it sends.

Five components keep what an agent believes of its tabs; together they are
`TabStateTheorem`, whose property is `TabStateTracked`. Their histories tell when a
promise lapses, so two of the invariants hold only until then: `EnvInv` until a
configuration and a reset overlap, `CursorInv` until a gesture publishes under a
number that is behind the last one.

`DebuggerSession`: `PerformedOnceTheorem`, for sequences of domains
(`DomainAssumption`). The command of a call is the last thing it sends, so `DomainInv`
says that until the end nothing of it was performed and `next` is one of its
positions (`NotYet`). The next position is the least of a set that is not empty;
`LeastIsIn` gets it from the well-founded order of the naturals, as no induction is at
hand.

`TabEnvironment`: `OverridesTheorem`, for finitely many calls and sequences of fields
(`EnvAssumption`). Calls keep the record of the tab across their awaits, so `EnvKnown`
says which one they keep: a configuration the tab's (`ConfigureInv`), a reset the tab's
or one that another reset has emptied (`ResetInv`), and that what is under way is of
one kind (`OneKind`).

`TabCreation`: `CreationTheorem`, for a `NoTab` that is no call and a `NoBrowser` that is
no profile (`CreationAssumption`). `TabsOfCalls` says that a call has at most one tab and
is served until that is tracked; `ProfilesCover` counts a tab that is only asked for as
one of its profile; `FinalizationReaches` that, while a finalization has not failed, what
it has yet to reach is in profiles it still asks. `Gentle` collects what the steps of
calls and browsers have in common. The invariant was refuted by TLC in a first form of
the model, in which `crossed` marked only the calls under way at the *end* of a
finalization: a call that chose its profile after the finalization began, and was done
before its end, leaves a tab in a profile that is then forgotten.

`FirefoxSession`: `FirefoxTheorem`. `FoxTabInv` follows a tab through attach, guard,
answer and their undoing, `FoxGuardInv` says that every guard is one the backend knows
and will remove, until the undoing of a late attachment was lost.

`CursorMoves`: `CursorTheorem`, for moves and gestures that are apart
(`CursorAssumption`). A number is waited for by the move that published it
(`PublishedOnce`, `NobodyAhead`), the page owes the number of the point it glides to
(`PageOwes`), and a number that is on its way back was reached (`ArrivalsAreThere`).

Three components keep a record of something that others change; together they are
`RecordsTheorem`, whose property is `RecordsAreSo`.

`SemanticModels`: `ModelsTheorem`, for requests each of one model (`ModelAssumption`).
An instance that is listed is disposed of only by the step that takes it off the list,
which needs that it is listed once and that the numbers of instances were given out in
order (`ModelsInv`). That a request may *use* a disposed instance is not excluded:
`UsedIsAlive` is refuted (section 3).

`HostStatus`: `HostTheorem`, for any labels and bounds. An answer may come over a
connection that was replaced, so `AnnouncedHere` says that an announcement of the
present generation was answered by the present port or not yet, and `OfThisPort` that
without a port nothing is awaited. `PopupFollows` says that the last status on its way
to a popup is the present one (`BroadcastFollows` carries it over every change), and
`ProfileKept` that a label is stored when there is a profile.

`BrowserMarketplace`: `MarketTheorem`, for refreshers that are no words of the lock file
(`MarketAssumption`). Refreshes overlap in spite of the lock, so `PluginIsOffered` holds
of all that are under way: one that has installed the plugin finds what the source
offers, whatever the others do. `HoldsTheLock` and `SourceMissing` hold until a refresh
is superseded.

Not proved, and checked by TLC only:

* liveness, which needs fairness and ENABLED: `CallsReturn` (of both modules),
  `StaleLockRecovered`, `IdleBrokerAdopts`, `RelayDrains`, `CallsAnswered`,
  `EmbeddedOrLost`;
* `CommandsSound` and `AnswersSound` of `MCComponents`, and `SessionsSound` and
  `StoreSound` of `MCServices`: each is a conjunction over several components. Some of
  their modules use recursion over sequences and data that the prover cannot induct
  over.

## 6. What is left out

* Contents: JSON parsing, hashes, npm, file permissions, page scripts, CDP
  results, vectors and text scores (ranks are numbers of a small set), wording.
* In the lock: reuse of pids, file systems without exclusive creation.
* In the releases: development checkouts that follow a branch; the controller's
  bootstrap. The section under `runtime-gate.lock` is one step, which
  `RuntimeLock` shows to be justified only until a process ends: a race of two
  writers that both hold the lock is not in `RuntimeReleases`.
* In the broker: writes that fail halfway, reconnection of the port (the run is
  the life of one port), the periodic maintenance (in `TabOwnership`), the worker that
  a first hello may start after the shutdown.
* In the tabs: tab groups that forbid a claim, names, policies, CDP commands, and
  the second restore that `onStartup` begins beside the first.
* In the request path: the client's retry of `host.status`, the host's own
  requests to the extension, the rows of connections, reconnection of the port.
* In the cursor: moves that carry a number or `visible: false` of their caller
  (`runtime-cursor.ts:78-86`): nothing in the repository calls `moveMouse` with
  either. Gestures publish under numbers of their own (`runtime-cdp.ts:77-107`) and
  hiding publishes `visible: false`, and both are modelled.
* In the environment: the network domain that is enabled before a field that needs it.
* Of the components in the two big runs, what the notes in `PROJECT.json` name,
  component by component: mostly formatting, page scripts, and commands that are
  sent and answered without state.

## 7. Plan

Done: the modules and runs above, and the proofs of section 5. Left:

1. The invariants of the components that are only model-checked.
2. What weaker ownership `TabOwnership` has after a call was served in the middle of a
   restore; so far only the types and the storage of the first life are proved of it.
