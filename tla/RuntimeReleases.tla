--------------------------- MODULE RuntimeReleases ---------------------------
(***************************************************************************)
(* The release pointer runtime.json and everything that moves or relies on *)
(* it: the updater (src/src/control/update.ts), activation and rollback    *)
(* (activation.ts, shared/runtime-config.ts), setup (management/setup.ts), *)
(* the leases of MCP supervisors (mcp-supervisor.ts, leases.ts) and the    *)
(* collection of old releases (garbageCollectReleases).                    *)
(*                                                                         *)
(* A managed release is its version: its root is releases/<version>/...    *)
(* A section under runtime-gate.lock is one step (see RuntimeLock).        *)
(***************************************************************************)
EXTENDS Naturals, FiniteSets

CONSTANTS
    Versions,       \* published releases, ordered as isNewerVersion orders them
    MajorOf,        \* the major number of each
    Updaters,       \* processes running createRuntimeUpdater(...).tick
    SetupVersions,  \* the releases whose setup command somebody may run
    Supervisors,    \* MCP connections
    Collectors,     \* processes running garbageCollectReleases
    MaxGeneration,  \* bound: changes of the desired release in a behaviour
    None            \* no release, no holder, no plan

ASSUME ConstantsAssumption ==
    /\ Versions \subseteq Nat
    /\ SetupVersions \subseteq Versions
    /\ MajorOf \in [Versions -> Nat \ {0}]
    /\ \A v, w \in Versions : v > w => MajorOf[v] >= MajorOf[w]
    /\ MaxGeneration \in Nat
    /\ None \notin Versions \cup Updaters

VARIABLES
    manifest,       \* runtime.json
    installed,      \* complete, validated directories under releases/
    aged,           \* those whose mtime is past the seven days of grace
    worker,         \* holder of update-worker.lock
    updater,        \* each updater's progress through check()
    setup,          \* the setup command's progress
    lease,          \* each supervisor's participant record
    gc,             \* each collector's progress
    adopted,        \* history: every release that was ever desired
    approvals,      \* history: the majors the user approved or installed
    read,           \* history: the retained releases when each collector began
    raced           \* history: the releases of a race, see Watch

history == <<adopted, approvals>>
vars == <<manifest, installed, aged, worker, updater, setup, lease, gc, history, read, raced>>

Majors == {MajorOf[v] : v \in Versions}
Maybe == Versions \cup {None}

Manifest == [desired : Versions, fallback : Maybe, staged : Maybe,
             autoUpdate : BOOLEAN, generation : 0..MaxGeneration,
             approvedMajor : Majors \cup {0}]

Updater == [pc : {"idle", "approve", "lock", "download", "stage", "activate"},
            target : Maybe, initial : Maybe, manual : BOOLEAN]

Setup == [pc : {"idle", "ensure", "before", "apply"}, version : Maybe,
          auto : {"keep", "on", "off"},
          existing : Manifest \cup {None}, before : Manifest \cup {None}]

Lease == [pc : {"closed", "selected", "pinned"}, root : Maybe]

Collector == [pc : {"idle", "manifest", "removing"}, keep : SUBSET Versions,
              todo : SUBSET Versions]

IdleUpdater == [pc |-> "idle", target |-> None, initial |-> None, manual |-> FALSE]
IdleSetup == [pc |-> "idle", version |-> None, auto |-> "keep",
              existing |-> None, before |-> None]
Closed == [pc |-> "closed", root |-> None]
IdleCollector == [pc |-> "idle", keep |-> {}, todo |-> {}]

TypeOK ==
    /\ manifest \in Manifest
    /\ installed \subseteq Versions
    /\ aged \subseteq installed
    /\ worker \in Updaters \cup {None}
    /\ updater \in [Updaters -> Updater]
    /\ setup \in Setup
    /\ lease \in [Supervisors -> Lease]
    /\ gc \in [Collectors -> Collector]
    /\ adopted \subseteq Versions
    /\ approvals \subseteq Majors

Retained(m) == {m.desired, m.fallback} \ {None}

\* An installation at rest: a desired release, perhaps a fallback, older
\* directories still on disk, and connections pinned to any of them.
Init ==
    /\ \E d \in Versions, f \in Maybe, a \in BOOLEAN :
         /\ f # d
         /\ manifest = [desired |-> d, fallback |-> f, staged |-> None,
                        autoUpdate |-> a, generation |-> 0, approvedMajor |-> 0]
    /\ installed \in {i \in SUBSET Versions : Retained(manifest) \subseteq i}
    /\ aged \in IF Collectors = {} THEN {{}} ELSE SUBSET installed
    /\ lease \in [Supervisors -> {Closed} \cup
                    {[pc |-> "pinned", root |-> v] : v \in installed}]
    /\ worker = None
    /\ updater = [u \in Updaters |-> IdleUpdater]
    /\ setup = IdleSetup
    /\ gc = [c \in Collectors |-> IdleCollector]
    /\ adopted = Retained(manifest)
    /\ approvals = {MajorOf[v] : v \in adopted}
    /\ read = [c \in Collectors |-> {}]
    /\ raced = {}

-----------------------------------------------------------------------------
(***************************************************************************)
(* shared/runtime-config.ts                                                *)
(***************************************************************************)

\* Mutation: the fallback is whatever was staged last.
SelectDesired_StagedFallback(m, d, f) ==
    [m EXCEPT !.desired = d, !.staged = None, !.generation = @ + 1,
              !.fallback = IF m.staged # None /\ m.staged # d THEN m.staged ELSE f]

\* selectDesiredRuntime: the old fallback survives only if the new one is the
\* release that becomes desired.
SelectDesired(m, d, f) ==
    [m EXCEPT !.desired = d,
              !.fallback = IF f = d THEN @ ELSE f,
              !.staged = None,
              !.generation = @ + 1]

\* Bound on the behaviours explored, not a guard of the code.
MayChange == manifest.generation < MaxGeneration

Publish(m) ==
    /\ manifest' = m
    /\ adopted' = adopted \cup {m.desired}
    /\ UNCHANGED approvals

-----------------------------------------------------------------------------
(***************************************************************************)
(* The updater: check() in control/update.ts                               *)
(***************************************************************************)
Newer(v, w) == v > w
MajorUpgrade(v, w) == MajorOf[v] > MajorOf[w]

UpdaterOnly == UNCHANGED <<installed, aged, setup, lease, gc>>

Finish(u) ==
    /\ updater' = [updater EXCEPT ![u] = IdleUpdater]
    /\ worker' = IF worker = u THEN None ELSE worker

\* Mutation: any updater may cross a major version.
Begin_NoApproval(u, target, manual, approved) ==
    /\ updater[u].pc = "idle"
    /\ manual \/ manifest.autoUpdate
    /\ Newer(target, manifest.desired) \/ manifest.staged = target
    /\ updater' = [updater EXCEPT ![u] =
         [pc |-> "lock", target |-> target, initial |-> manifest.desired, manual |-> manual]]
    /\ UNCHANGED <<manifest, worker, history>> /\ UpdaterOnly

\* Lines 151-161: an eligible target; a major one needs an approval, given with
\* this call or recorded before, else only the status file changes.
Begin(u, target, manual, approved) ==
    LET major == MajorUpgrade(target, manifest.desired) IN
    /\ updater[u].pc = "idle"
    /\ manual \/ manifest.autoUpdate
    /\ Newer(target, manifest.desired) \/ manifest.staged = target
    /\ major => approved \/ manifest.approvedMajor = MajorOf[target]
    /\ updater' = [updater EXCEPT ![u] =
         [pc |-> IF major THEN "approve" ELSE "lock", target |-> target,
          initial |-> manifest.desired, manual |-> manual]]
    /\ approvals' = IF major /\ approved THEN approvals \cup {MajorOf[target]}
                                         ELSE approvals
    /\ UNCHANGED <<manifest, worker, adopted>> /\ UpdaterOnly

\* Mutation: the version is recorded instead of its major number.
Approve_Version(u) ==
    /\ updater[u].pc = "approve"
    /\ manifest' = [manifest EXCEPT !.approvedMajor = updater[u].target]
    /\ updater' = [updater EXCEPT ![u].pc = "lock"]
    /\ UNCHANGED <<worker, history>> /\ UpdaterOnly

\* Line 158.
Approve(u) ==
    /\ updater[u].pc = "approve"
    /\ manifest' = [manifest EXCEPT !.approvedMajor = MajorOf[updater[u].target]]
    /\ updater' = [updater EXCEPT ![u].pc = "lock"]
    /\ UNCHANGED <<worker, history>> /\ UpdaterOnly

\* Lines 162-169: the worker lock, then a second look at the manifest.
Lock(u) ==
    /\ updater[u].pc = "lock"
    /\ worker = None
    /\ \/ /\ manifest.desired = updater[u].initial
          /\ updater[u].manual \/ manifest.autoUpdate
          /\ worker' = u
          /\ updater' = [updater EXCEPT ![u].pc =
               IF updater[u].target \in installed THEN "stage" ELSE "download"]
       \/ /\ \/ manifest.desired # updater[u].initial
             \/ ~updater[u].manual /\ ~manifest.autoUpdate
          /\ Finish(u)
    /\ UNCHANGED <<manifest, history>> /\ UpdaterOnly

\* The worker lock, which setup takes too, times out after five seconds: tick
\* swallows the error.
LockTimesOut(u) ==
    /\ updater[u].pc = "lock"
    /\ worker # None \/ setup.pc = "ensure"
    /\ updater' = [updater EXCEPT ![u] = IdleUpdater]
    /\ UNCHANGED <<manifest, worker, history>> /\ UpdaterOnly

\* Lines 170-175: installed and validated in a staging directory, then renamed.
Download(u) ==
    /\ updater[u].pc = "download"
    /\ installed' = installed \cup {updater[u].target}
    /\ updater' = [updater EXCEPT ![u].pc = "stage"]
    /\ UNCHANGED <<manifest, aged, worker, setup, lease, gc, history>>

\* Lines 185-190: the download or a validation failed; or the process died and
\* its lock was taken over as stale.
UpdateFails(u) ==
    /\ updater[u].pc # "idle"
    /\ Finish(u)
    /\ UNCHANGED <<manifest, history>> /\ UpdaterOnly

\* Lines 176-182: validate, then record the staged release if the manifest is
\* still the one this check started from; go on to activation either way.
Stage(u) ==
    LET t == updater[u].target IN
    /\ updater[u].pc = "stage"
    /\ t \in installed
    /\ manifest' =
         IF /\ manifest.desired = updater[u].initial
            /\ updater[u].manual \/ manifest.autoUpdate
            /\ Newer(t, manifest.desired)
         THEN [manifest EXCEPT !.staged = t]
         ELSE manifest
    /\ updater' = [updater EXCEPT ![u].pc = "activate"]
    /\ UNCHANGED <<worker, history>> /\ UpdaterOnly

\* Line 183 and activateRelease.
Activate(u) ==
    LET t == updater[u].target IN
    /\ updater[u].pc = "activate"
    /\ \/ /\ ~manifest.autoUpdate \/ manifest.desired = t
          /\ UNCHANGED <<manifest, history>>
       \/ /\ manifest.autoUpdate /\ manifest.desired # t
          /\ MayChange
          /\ Publish(SelectDesired(manifest, t, manifest.desired))
    /\ Finish(u)
    /\ UpdaterOnly

UpdateStep(u) ==
    \/ \E target \in Versions, manual, approved \in BOOLEAN :
         Begin(u, target, manual, approved)
    \/ Approve(u) \/ Lock(u) \/ LockTimesOut(u) \/ Download(u)
    \/ UpdateFails(u) \/ Stage(u) \/ Activate(u)

-----------------------------------------------------------------------------
(***************************************************************************)
(* rollbackRelease, configure and the setup command                        *)
(***************************************************************************)
PointerOnly == UNCHANGED <<installed, aged, worker, updater, setup, lease, gc>>

\* Mutation: desired and fallback are not swapped.
Rollback_KeepsFallback ==
    /\ manifest.fallback # None
    /\ MayChange
    /\ Publish(SelectDesired(manifest, manifest.fallback, manifest.fallback))
    /\ PointerOnly

Rollback ==
    /\ manifest.fallback # None
    /\ MayChange
    /\ Publish(SelectDesired(manifest, manifest.fallback, manifest.desired))
    /\ PointerOnly

Configure(enabled) ==
    /\ manifest' = [manifest EXCEPT !.autoUpdate = enabled]
    /\ PointerOnly /\ UNCHANGED history

SetupOnly == UNCHANGED <<aged, worker, updater, lease, gc>>

\* setup.ts:94: the plan starts from the manifest as it is now.  Whoever runs the
\* setup command of a release approves its major version.
SetupPlan(v, auto) ==
    /\ setup.pc = "idle"
    /\ setup' = [IdleSetup EXCEPT !.pc = "ensure", !.version = v, !.auto = auto,
                                  !.existing = manifest]
    /\ approvals' = approvals \cup {MajorOf[v]}
    /\ UNCHANGED <<manifest, installed, adopted>> /\ SetupOnly

\* setup.ts:97, ensureManagedRelease: the release is downloaded if it must be.
SetupEnsure ==
    /\ setup.pc = "ensure"
    /\ worker = None
    /\ installed' = installed \cup {setup.version}
    /\ setup' = [setup EXCEPT !.pc = "before"]
    /\ UNCHANGED <<manifest, history>> /\ SetupOnly

\* setup.ts:108: the text the transaction compares is read here, after the wait.
SetupBefore ==
    /\ setup.pc = "before"
    /\ setup' = [setup EXCEPT !.pc = "apply", !.before = manifest]
    /\ UNCHANGED <<manifest, installed, history>> /\ SetupOnly

\* setup.ts:98-107, computed from the manifest of the plan.
Planned ==
    LET e == setup.existing
        m == IF e.desired = setup.version
             THEN e ELSE SelectDesired(e, setup.version, e.desired)
    IN  [m EXCEPT !.autoUpdate = IF setup.auto = "keep" THEN @ ELSE setup.auto = "on"]

\* setup.ts:113, applyTransaction under the gate lock.
SetupApply ==
    /\ setup.pc = "apply"
    /\ \/ manifest # setup.before /\ UNCHANGED <<manifest, history>>
       \/ /\ manifest = setup.before
          /\ Planned.generation <= MaxGeneration
          /\ Publish(Planned)
    /\ setup' = IdleSetup
    /\ UNCHANGED installed /\ SetupOnly

\* Setup is interrupted, or a step of it throws.
SetupFails ==
    /\ setup.pc # "idle"
    /\ setup' = IdleSetup
    /\ UNCHANGED <<manifest, installed, history>> /\ SetupOnly

SetupStep == \/ \E v \in SetupVersions, auto \in {"keep", "on", "off"} : SetupPlan(v, auto)
             \/ SetupEnsure \/ SetupBefore \/ SetupApply \/ SetupFails

-----------------------------------------------------------------------------
(***************************************************************************)
(* Leases and garbage collection                                           *)
(***************************************************************************)
LeaseOnly == UNCHANGED <<manifest, installed, aged, worker, updater, setup, gc, history>>

\* mcp-supervisor.ts:16-17 reads the desired release of a new connection ...
Select(s) ==
    /\ lease[s].pc = "closed"
    /\ lease' = [lease EXCEPT ![s] = [pc |-> "selected", root |-> manifest.desired]]
    /\ LeaseOnly

\* ... and line 18 publishes the participant that pins it.
Pin(s) ==
    /\ lease[s].pc = "selected"
    /\ lease' = [lease EXCEPT ![s].pc = "pinned"]
    /\ LeaseOnly

\* The connection closes, or its process dies: participantActive is false.
Unpin(s) ==
    /\ lease[s].pc # "closed"
    /\ lease' = [lease EXCEPT ![s] = Closed]
    /\ LeaseOnly

Pinned == {lease[s].root : s \in {x \in Supervisors : lease[x].pc = "pinned"}}

CollectorOnly == UNCHANGED <<manifest, worker, updater, setup, lease, history>>

\* Mutation: only the desired release is kept.
GcManifest_DesiredOnly(c) ==
    /\ gc[c].pc = "idle"
    /\ gc' = [gc EXCEPT ![c] = [pc |-> "manifest", keep |-> {manifest.desired}, todo |-> {}]]
    /\ UNCHANGED <<installed, aged>> /\ CollectorOnly

\* Lines 93-95.
GcManifest(c) ==
    /\ gc[c].pc = "idle"
    /\ gc' = [gc EXCEPT ![c] = [pc |-> "manifest", keep |-> Retained(manifest), todo |-> {}]]
    /\ UNCHANGED <<installed, aged>> /\ CollectorOnly

\* Mutation: the participants are not read.
GcLeases_Ignored(c) ==
    /\ gc[c].pc = "manifest"
    /\ gc' = [gc EXCEPT ![c].pc = "removing", ![c].todo = installed \ gc[c].keep]
    /\ UNCHANGED <<installed, aged>> /\ CollectorOnly

\* Lines 96-103: the live leases, then the directory listing.
GcLeases(c) ==
    /\ gc[c].pc = "manifest"
    /\ gc' = [gc EXCEPT ![c].pc = "removing",
                        ![c].todo = installed \ (gc[c].keep \cup Pinned)]
    /\ UNCHANGED <<installed, aged>> /\ CollectorOnly

\* Lines 104-107, one directory: removed if its mtime is old enough.
GcRemove(c) ==
    /\ gc[c].pc = "removing"
    /\ \E v \in gc[c].todo :
         /\ gc' = [gc EXCEPT ![c].todo = @ \ {v}]
         /\ installed' = IF v \in aged THEN installed \ {v} ELSE installed
         /\ aged' = aged \ {v}
    /\ CollectorOnly

GcEnd(c) ==
    /\ gc[c].pc = "removing"
    /\ gc[c].todo = {}
    /\ gc' = [gc EXCEPT ![c] = IdleCollector]
    /\ UNCHANGED <<installed, aged>> /\ CollectorOnly

\* Seven days pass for a directory.  A collection takes much less, and nobody
\* else looks at the age.
Age ==
    /\ Collectors # {}
    /\ \A c \in Collectors : gc[c].pc = "idle"
    /\ \E v \in installed \ aged : aged' = aged \cup {v}
    /\ UNCHANGED <<manifest, installed, worker, updater, setup, lease, gc, history>>

-----------------------------------------------------------------------------
Next ==
    \/ \E u \in Updaters : UpdateStep(u)
    \/ Rollback
    \/ \E enabled \in BOOLEAN : Configure(enabled)
    \/ SetupStep
    \/ \E s \in Supervisors : Select(s) \/ Pin(s) \/ Unpin(s)
    \/ \E c \in Collectors : GcManifest(c) \/ GcLeases(c) \/ GcRemove(c) \/ GcEnd(c)
    \/ Age

-----------------------------------------------------------------------------
(***************************************************************************)
(* A history of the races between a collection and whoever selects a       *)
(* release.  It watches the steps above and constrains none of them.       *)
(***************************************************************************)

\* What somebody has found installed and is using, or is about to use, without
\* another look at the disk: the pointer's releases, the target an updater has
\* validated, what a setup command plans with, the release a connection has read.
\* A lease that is published is not among them: the collector reads the leases.
Wanted ==
    Retained(manifest)
      \cup {updater[u].target : u \in {x \in Updaters : updater[x].pc = "activate"}}
      \cup (IF setup.pc = "idle" THEN {} ELSE Retained(setup.existing))
      \cup (IF setup.pc \in {"before", "apply"} THEN {setup.version} ELSE {})
      \cup {lease[s].root : s \in {x \in Supervisors : lease[x].pc = "selected"}}

\* Old directories that were not retained when a collection under way began.
Threatened ==
    {v \in aged : \E c \in Collectors : gc[c].pc # "idle" /\ v \notin read[c]}

\* A release is `raced' once it is wanted while it is threatened, until the
\* collection is over and the release is, or is again, on disk.
Watch ==
    /\ read' = [c \in Collectors |-> IF gc[c].pc = "idle" /\ gc'[c].pc # "idle"
                                     THEN Retained(manifest) ELSE read[c]]
    /\ raced' = {v \in raced : v \in Threatened' \/ v \notin installed'}
                  \cup (Wanted' \cap Threatened')

Spec == Init /\ [][Next /\ Watch]_vars

-----------------------------------------------------------------------------
\* A rollback is never a no-op: the fallback is another release than the desired
\* one, whatever mix of updates, rollbacks and setups produced the manifest.
FallbackDiffers == manifest.fallback # manifest.desired

\* "a merely staged release is never a fallback" (runtime-updates.md:11): every
\* fallback was desired once, so its root passed validation and was started.
FallbackWasDesired == manifest.fallback \in adopted \cup {None}

Adopts(u) == /\ updater[u].pc = "activate"
             /\ manifest'.desired = updater[u].target
             /\ manifest'.desired # manifest.desired

\* "A major release requires one explicit approval" (runtime-updates.md:21): no
\* update crosses to a major the user never approved or installed, although check()
\* decides from a manifest that rollbacks and setups may replace before it activates.
MajorNeedsApproval ==
    [][\A u \in Updaters :
         Adopts(u) /\ MajorUpgrade(updater[u].target, manifest.desired)
           => MajorOf[updater[u].target] \in approvals]_vars

\* "Desired and fallback releases are retained" (runtime-updates.md:17).
RetainedInstalled == Retained(manifest) \subseteq installed

\* What the code guarantees instead: a desired or fallback release is missing only
\* after a collection that read the manifest before the release was in it, and that
\* was under way while an updater, a setup command or the pointer took it up.  No
\* order of rollbacks, updates, setups, connections and collections loses it else.
RetainedUnlessRaced == Retained(manifest) \subseteq installed \cup raced

\* "only when no live lease references them" (runtime-updates.md:17), although a
\* connection reads its release first and publishes its lease later, and pointers
\* move in between: a leased release is missing only if such a collection was under
\* way between the reading and the publishing.  A lease published before the
\* collector reads the leases protects its release through any moves and collections.
LeasesUnlessRaced == Pinned \subseteq installed \cup raced

\* "The last successfully active, unleased release becomes the fallback"
\* (runtime-updates.md:17).
FallbackUnleased ==
    [][manifest'.fallback \notin {manifest.fallback, None}
         => manifest'.fallback \notin Pinned]_vars

\* "Configuration changed since planning" (transaction.ts:24): setup replaces the
\* manifest it planned from, and no other.
SetupReplacesItsPlan ==
    [][setup.pc = "apply" /\ setup'.pc = "idle" /\ manifest' # manifest
         => manifest = setup.existing]_vars

-----------------------------------------------------------------------------
\* Values of MajorOf for TLC: no major upgrade, and one.
OneMajor == [v \in Versions |-> 1]
TwoMajors == [v \in Versions |-> IF v = 1 THEN 1 ELSE 2]
=============================================================================
