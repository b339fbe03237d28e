-------------------------- MODULE ChannelActivation --------------------------
(***************************************************************************)
(* What the `link`, `sync` and `dev-extension` commands do to the runtime  *)
(* directory (management/channels.ts, development-extension.ts and         *)
(* cli/runtime-link.ts).  `activateChannel` builds the checkout, publishes *)
(* a complete snapshot of it under builds/, replaces the unpacked          *)
(* extension and moves the pointer runtime.json;                           *)
(* `publishDevelopmentExtension` replaces the same extension directory     *)
(* from another checkout under another lock; `link` rewrites the pointer   *)
(* under no lock at all.                                                   *)
(*                                                                         *)
(* Commands are processes: each of their steps is an action, and a process *)
(* may be killed at any of them.  A source tree is its fingerprint.        *)
(***************************************************************************)
EXTENDS Naturals, FiniteSets, TLC

CONSTANTS Commands,     \* the processes
          Prints,       \* fingerprints the source tree may have
          Absent,       \* "there is no such file"
          MaxTrouble,   \* bound on failing writes and killed processes
          MaxBustle     \* bound on edits, connecting clients and other writers

VARIABLES linker,        \* process -> what it does and how far it is
          tree,           \* fingerprint of the checkout now
          output,         \* fingerprint of what the last build of it produced
          builds,         \* published snapshot -> fingerprint of its content
          dependencies,   \* "none", "part", "ready": the shared node_modules
          pointer,        \* runtime.json
          postponed,      \* pending-activation.json
          unpacked,       \* content of the extension directory
          previous,       \* content of extension-previous
          activating,     \* owner of activation.lock
          publishing,     \* owner of development-extension.lock
          busyClients,    \* an agent is connected to a browser
          trouble, bustle,
          swapped,        \* both kinds of command replaced one directory
          rewritten       \* pointer writes nobody saw: what they dropped

files == <<tree, output, builds, dependencies, pointer, postponed, unpacked, previous>>
locks == <<activating, publishing>>
world == <<busyClients, trouble, bustle, swapped, rewritten>>

(* A pointer as parseRuntimeActivation keeps it; Checkout is what          *)
(* writeRuntimeManifest leaves.                                            *)
NoPointer == [root |-> Absent, follow |-> FALSE, updated |-> FALSE, isolated |-> FALSE]
Torn == [NoPointer EXCEPT !.root = "torn"]
Checkout == [NoPointer EXCEPT !.root = "checkout"]
IdleCommand == [kind |-> "none", at |-> "idle", print |-> Absent, active |-> NoPointer,
              staged |-> Absent, backup |-> Absent]

(* readActivation and readRuntimeManifest: a file that does not parse, such *)
(* as one that is being written, is no activation.                         *)
readActivation == IF pointer.root = "torn" THEN NoPointer ELSE pointer

(* A directory that is copied into another keeps what was there.           *)
CopiedOver(dir, content) == IF dir \in {Absent, content} THEN content ELSE "mixture"

Inside(p) == linker[p].at \notin {"idle", "done", "dead"}
Advance(p, at) == linker' = [linker EXCEPT ![p].at = at]

-----------------------------------------------------------------------------
(* Starting a command                                                      *)

(* `link --follow-branch`, and `sync` where a link follows the branch: the *)
(* pointer and the fingerprint are read before any lock is taken.          *)
StartActivate(p) ==
    /\ linker[p].kind = "activate" /\ linker[p].at = "idle"
    /\ linker' = [linker EXCEPT ![p].at = "lock", ![p].print = tree,
                                  ![p].active = readActivation]
    /\ UNCHANGED <<files, locks, world>>

(* `dev-extension`, and `sync` in the checkout that was published last and *)
(* where no link follows the branch.                                       *)
StartPublish(p) ==
    /\ linker[p].kind = "publish" /\ linker[p].at = "idle"
    /\ unpacked # "part"              \* it must be an extension of ours, or empty
    /\ linker' = [linker EXCEPT ![p].at = "lock", ![p].print = tree]
    /\ UNCHANGED <<files, locks, world>>

(* openSync(lock, "wx"): whoever holds it, alive or not, the command stops.*)
Activate_Lock(p) ==
    /\ linker[p].kind = "activate" /\ linker[p].at = "lock"
    /\ IF activating = Absent
       THEN /\ activating' = p
            /\ Advance(p, IF linker[p].print \in DOMAIN builds THEN "check" ELSE "build")
       ELSE Advance(p, "done") /\ UNCHANGED activating
    /\ UNCHANGED <<files, publishing, world>>

(* withRuntimeLock breaks the lock of a dead owner and waits for a living  *)
(* one.                                                                    *)
Publish_Lock(p) ==
    /\ linker[p].kind = "publish" /\ linker[p].at = "lock"
    /\ \A q \in Commands : publishing = q => linker[q].at = "dead"
    /\ publishing' = p
    /\ Advance(p, "build")
    /\ UNCHANGED <<files, activating, world>>

-----------------------------------------------------------------------------
(* Building, common to both: the build reads the checkout, and is refused  *)
(* when the checkout is no longer what was fingerprinted.                  *)
Build(p) ==
    /\ linker[p].at = "build"
    /\ output' = tree
    /\ Advance(p, IF tree = linker[p].print THEN "stage" ELSE "leave")
    /\ UNCHANGED <<tree, builds, dependencies, pointer, postponed, unpacked, previous, locks, world>>

(* The output is copied to a staging directory of its own.                 *)
Stage(p) ==
    /\ linker[p].at = "stage"
    /\ linker' = [linker EXCEPT ![p].staged = output,
                                  ![p].at = IF linker[p].kind = "activate" THEN "depend"
                                                                           ELSE "aside"]
    /\ UNCHANGED <<files, locks, world>>

(* Dependencies are installed once for a lockfile; an installation that did *)
(* not reach ready.json is made again.                                     *)
Depend(p) ==
    /\ \/ /\ linker[p].at = "depend"
          /\ dependencies' = IF dependencies = "ready" THEN "ready" ELSE "part"
          /\ Advance(p, IF dependencies = "ready" THEN "snapshot" ELSE "install")
       \/ /\ linker[p].at = "install"
          /\ dependencies' = "ready"
          /\ Advance(p, "snapshot")
    /\ UNCHANGED <<tree, output, builds, pointer, postponed, unpacked, previous, locks, world>>

(* The staged build starts, and one rename publishes it.                   *)
Snapshot(p) ==
    /\ linker[p].at = "snapshot"
    /\ dependencies = "ready"
    /\ builds' = builds @@ (linker[p].print :> linker[p].staged)
    /\ Advance(p, "check")
    /\ UNCHANGED <<tree, output, dependencies, pointer, postponed, unpacked, previous, locks, world>>

(* Every registered host is asked for its clients; a busy one leaves the   *)
(* request in pending-activation.json.                                     *)
runtimeBusy == busyClients
BusyCheck(p) ==
    /\ linker[p].at = "check"
    /\ IF runtimeBusy
       THEN postponed' = linker[p].print /\ Advance(p, "leave")
       ELSE /\ UNCHANGED postponed
            /\ Advance(p, IF previous # Absent THEN "leave" ELSE "aside")
    /\ UNCHANGED <<tree, output, builds, dependencies, pointer, unpacked, previous, locks, world>>

-----------------------------------------------------------------------------
(* Replacing the extension directory                                       *)

Other(p) == {q \in Commands \ {p} : linker[q].at \in {"copy", "rest", "write", "undo", "swap"}}

(* The directory that is there is renamed, to extension-previous by an     *)
(* activation and to a backup of its own by dev-extension, so that it can  *)
(* be put back.                                                            *)
Aside(p) ==
    /\ linker[p].at = "aside"
    /\ unpacked' = Absent
    /\ IF linker[p].kind = "activate"
       THEN /\ previous' = unpacked
            /\ Advance(p, "copy")
       ELSE /\ UNCHANGED previous
            /\ linker' = [linker EXCEPT ![p].at = "swap", ![p].backup = unpacked]
    /\ swapped' = (swapped \/ Other(p) # {})
    /\ UNCHANGED <<tree, output, builds, dependencies, pointer, postponed, locks,
                   busyClients, trouble, bustle, rewritten>>

(* An activation copies the snapshot's extension file by file...           *)
Copy(p) ==
    /\ linker[p].at \in {"copy", "rest"}
    /\ unpacked' = CopiedOver(IF linker[p].at = "rest" /\ unpacked = "part"
                              THEN Absent ELSE unpacked,
                              IF linker[p].at = "copy" /\ unpacked = Absent THEN "part"
                              ELSE builds[linker[p].print])
    /\ Advance(p, IF linker[p].at = "copy" THEN "rest" ELSE "write")
    /\ UNCHANGED <<tree, output, builds, dependencies, pointer, postponed, previous, locks, world>>

(* ... and dev-extension renames its stage, which fails on a directory     *)
(* that has come to be there.                                              *)
Swap(p) ==
    /\ linker[p].at = "swap"
    /\ IF unpacked = Absent
       THEN unpacked' = linker[p].staged /\ Advance(p, "write")
       ELSE UNCHANGED unpacked /\ Advance(p, "undo")
    /\ UNCHANGED <<tree, output, builds, dependencies, pointer, postponed, previous, locks, world>>

(* The pointer an activation writes is made from the pointer it read       *)
(* before it took the lock: isolation is kept from it, and whatever it     *)
(* does not name (what the updater selected, and its generation) is gone.  *)
activation(p) ==
    [root |-> linker[p].print, follow |-> TRUE, updated |-> FALSE,
     isolated |-> linker[p].active.isolated]

Write_Pointer(p) ==
    /\ linker[p].kind = "activate" /\ linker[p].at = "write"
    /\ pointer' = activation(p)
    /\ rewritten' = (rewritten \/ readActivation # linker[p].active)
    /\ Advance(p, "tidy")
    /\ UNCHANGED <<tree, output, builds, dependencies, postponed, unpacked, previous, locks,
                   busyClients, trouble, bustle, swapped>>

Write_Marker(p) ==
    /\ linker[p].kind = "publish" /\ linker[p].at = "write"
    /\ Advance(p, "leave")
    /\ UNCHANGED <<files, locks, world>>

(* A copy or a write that fails is undone: what was made is removed (or    *)
(* moved aside), what was there comes back.                                *)
Fail(p) ==
    /\ linker[p].at \in {"copy", "rest", "write"} /\ trouble < MaxTrouble
    /\ trouble' = trouble + 1
    /\ Advance(p, "undo")
    /\ UNCHANGED <<files, locks, busyClients, bustle, swapped, rewritten>>

Undo_Forgets(p) ==
    /\ linker[p].at = "undo"
    /\ IF linker[p].kind = "activate"
       THEN /\ unpacked' = Absent
            /\ previous' = Absent
       ELSE /\ unpacked' = IF unpacked \in {Absent, linker[p].staged}
                           THEN linker[p].backup ELSE unpacked
            /\ UNCHANGED previous
    /\ Advance(p, "leave")
    /\ UNCHANGED <<tree, output, builds, dependencies, pointer, postponed, locks, world>>

Undo(p) ==
    /\ linker[p].at = "undo"
    /\ IF linker[p].kind = "activate"
       THEN /\ unpacked' = previous
            /\ previous' = Absent
       ELSE /\ unpacked' = IF unpacked \in {Absent, linker[p].staged}
                           THEN linker[p].backup ELSE unpacked
            /\ UNCHANGED previous
    /\ Advance(p, "leave")
    /\ UNCHANGED <<tree, output, builds, dependencies, pointer, postponed, locks, world>>

(* extension-previous and an older pending activation are removed.         *)
Tidy(p) ==
    /\ linker[p].at = "tidy"
    /\ previous' = Absent /\ postponed' = Absent
    /\ Advance(p, "leave")
    /\ UNCHANGED <<tree, output, builds, dependencies, pointer, unpacked, locks, world>>

Leave(p) ==
    /\ linker[p].at = "leave"
    /\ IF linker[p].kind = "activate" THEN activating' = Absent /\ UNCHANGED publishing
                                       ELSE publishing' = Absent /\ UNCHANGED activating
    /\ Advance(p, "done")
    /\ UNCHANGED <<files, world>>

-----------------------------------------------------------------------------
(* Other writers                                                           *)

(* `link`: writeRuntimeManifest opens the pointer, which truncates it, and *)
(* writes a fresh one of generation 0 that knows of no channel.            *)
Link(p) ==
    /\ linker[p].kind = "link" /\ linker[p].at \in {"idle", "write"}
    /\ pointer' = IF linker[p].at = "idle" THEN Torn ELSE Checkout
    /\ Advance(p, IF linker[p].at = "idle" THEN "write" ELSE "done")
    /\ UNCHANGED <<tree, output, builds, dependencies, postponed, unpacked, previous, locks, world>>

(* The updater selects a release, under the runtime lock (RuntimeReleases).*)
UpdaterSelects ==
    /\ bustle < MaxBustle /\ readActivation # NoPointer /\ ~ pointer.updated
    /\ pointer' = [pointer EXCEPT !.updated = TRUE]
    /\ bustle' = bustle + 1
    /\ UNCHANGED <<linker, tree, output, builds, dependencies, postponed, unpacked, previous,
                   locks, busyClients, trouble, swapped, rewritten>>

Edit ==
    /\ bustle < MaxBustle
    /\ \E f \in Prints \ {tree} : tree' = f
    /\ bustle' = bustle + 1
    /\ UNCHANGED <<linker, output, builds, dependencies, pointer, postponed, unpacked, previous,
                   locks, busyClients, trouble, swapped, rewritten>>

ClientsComeAndGo ==
    /\ bustle < MaxBustle
    /\ busyClients' = ~ busyClients
    /\ bustle' = bustle + 1
    /\ UNCHANGED <<linker, files, locks, trouble, swapped, rewritten>>

(* A command is killed: nothing is undone, its locks stay.                 *)
Killed(p) ==
    /\ Inside(p) /\ trouble < MaxTrouble
    /\ trouble' = trouble + 1
    /\ Advance(p, "dead")
    /\ UNCHANGED <<files, locks, busyClients, bustle, swapped, rewritten>>

ActivationStep(p) ==
    \/ StartActivate(p) \/ Activate_Lock(p) \/ Depend(p) \/ Snapshot(p) \/ BusyCheck(p)
    \/ Copy(p) \/ Write_Pointer(p) \/ Tidy(p)
PublishStep(p) == StartPublish(p) \/ Publish_Lock(p) \/ Swap(p) \/ Write_Marker(p)
CommonStep(p) == Build(p) \/ Stage(p) \/ Aside(p) \/ Fail(p) \/ Undo(p) \/ Leave(p)

ActivationNext ==
    \/ \E p \in Commands : ActivationStep(p) \/ PublishStep(p) \/ CommonStep(p)
                           \/ Link(p) \/ Killed(p)
    \/ UpdaterSelects \/ Edit \/ ClientsComeAndGo

activationVars == <<linker, files, locks, world>>

ActivationTypeOK ==
    /\ DOMAIN linker = Commands /\ tree \in Prints /\ output \in Prints \cup {Absent}
    /\ DOMAIN builds \subseteq Prints /\ dependencies \in {"none", "part", "ready"}
    /\ postponed \in Prints \cup {Absent}
    /\ {activating, publishing} \subseteq Commands \cup {Absent}
    /\ busyClients \in BOOLEAN /\ trouble <= MaxTrouble /\ bustle <= MaxBustle

ActivationInit ==
    /\ \E kinds \in [Commands -> {"activate", "publish", "link"}] :
           linker = [p \in Commands |-> [IdleCommand EXCEPT !.kind = kinds[p]]]
    /\ tree \in Prints /\ output = Absent
    /\ builds = << >> /\ dependencies \in {"none", "part"}
    /\ pointer \in {NoPointer, [Checkout EXCEPT !.follow = TRUE, !.isolated = TRUE]}
    /\ postponed = Absent /\ unpacked = "old" /\ previous = Absent
    /\ activating = Absent /\ publishing = Absent
    /\ busyClients = FALSE /\ trouble = 0 /\ bustle = 0
    /\ swapped = FALSE /\ rewritten = FALSE

-----------------------------------------------------------------------------
(* A published snapshot holds the build of the sources it is named by, as  *)
(* long as no other command built the checkout meanwhile.                  *)
Alone == Cardinality({p \in Commands : linker[p].kind \in {"activate", "publish"}}) = 1
SnapshotsAreWhole == Alone => \A f \in DOMAIN builds : builds[f] = f

(* The pointer names only snapshots that are published, whatever else      *)
(* runs and wherever a command is killed.                                  *)
PointerIsPublished ==
    readActivation # NoPointer => pointer.root \in DOMAIN builds \cup {"checkout"}

(* Whatever a command that replaces the extension directory runs into,     *)
(* the user has an extension: a whole one in its place, or the old one in  *)
(* extension-previous or in the backup of a command that did not end.      *)
ExtensionRecoverable ==
    ~ swapped => \/ unpacked \notin {Absent, "part"}
                 \/ previous # Absent
                 \/ \E p \in Commands : linker[p].at # "done" /\ linker[p].backup # Absent

Replacing == \E p \in Commands :
    linker[p].at \in {"copy", "rest", "write", "undo", "swap"}

(* What is in the extension directory of an installation whose pointer was *)
(* moved by an activation, and which nothing is replacing, is the          *)
(* extension of that activation.                                           *)
ExtensionMatches ==
    ~ swapped /\ ~ Replacing /\ readActivation # NoPointer
        /\ (\A p \in Commands : linker[p].kind # "publish" /\ linker[p].at # "dead")
        /\ pointer.root \in DOMAIN builds
        => unpacked = builds[pointer.root]

ActivationSound ==
    SnapshotsAreWhole /\ PointerIsPublished /\ ExtensionRecoverable /\ ExtensionMatches

-----------------------------------------------------------------------------
(* Not true.  An extension directory that nothing replaces is one whole    *)
(* build: the two commands replace one directory under two locks.          *)
ExtensionIsWhole ==
    ~ Replacing /\ (\A p \in Commands : linker[p].at # "dead") => unpacked \notin {"mixture", "part"}

(* Not true.  Activation does not cut agents that are connected            *)
(* (management/channels.ts:80, "must finish and disconnect before          *)
(* activation"): they are asked for once, and may connect afterwards.      *)
NobodyIsCut == \A p \in Commands : linker[p].at = "tidy" => ~ busyClients

(* Not true.  An activation keeps what was written since it started.       *)
NothingOverwritten == ~ rewritten

(* Not true.  State isolation, once on, stays on.                          *)
IsolationStays ==
    [][readActivation.isolated => pointer'.root = "torn" \/ pointer'.isolated]_<<pointer>>

(* Not true.  An activation can start when none is running: the lock of a  *)
(* killed one is never broken (the file holds no pid).                     *)
LockIsOfTheLiving == \A p \in Commands : activating = p => linker[p].at # "dead"
=============================================================================
