----------------------------- MODULE ClientSetup -----------------------------
(***************************************************************************)
(* The commands that connect agent apps and browsers to the runtime, over  *)
(* the files they share with those apps and with each other: setup and     *)
(* uninstall (management/setup.ts), which plan every file first, wait for  *)
(* the release, and apply the plan as one transaction under the runtime    *)
(* lock; link (cli/runtime-link.ts) and install or uninstall --client      *)
(* (cli/install.ts), which take no lock and go file by file.  An app, or   *)
(* its user, edits its configuration at any moment.                        *)
(***************************************************************************)
EXTENDS Naturals, Sequences

CONSTANTS SetupCommands, CommandKind,     \* "setup", "unsetup", "link", "client" or "unclient"
          ClientOrder, BrowserOrder,      \* the files, in the order of the plan
          ExtensionIds, StoreId, InstalledIds,  \* InstalledIds: what each browser's profiles hold
          Major,                          \* of the OpenCode that is installed
          SetupScenes,                    \* [commands, targets, files, registry, recorded, faults]:
                                          \* where the runs begin
          MaxEdits, MaxFaults             \* bounds

VARIABLES targets,    \* the clients that are asked for, and the browsers that are installed
          files,      \* what each file holds
          registry,   \* for each browser: what its registration names
          recorded,   \* extension-ids.json
          setup,      \* where each command is
          locked,     \* who holds the runtime lock
          setupEdits, setupFaults,
          secured,    \* the edits of each client's file that no command was about to lose
          narrowed,   \* commands that took an id from a registration
          collided  \* two commands were writing at one time

clientSetupVars == <<targets, files, registry, recorded, setup, locked, setupEdits, setupFaults,
                     secured, narrowed, collided>>

Clients == {ClientOrder[i] : i \in DOMAIN ClientOrder}
Browsers == {BrowserOrder[i] : i \in DOMAIN BrowserOrder}
Targets(order) == SelectSeq(order, LAMBDA f : f \in targets)
Nobody == "nobody"
Absent == [present |-> FALSE]

\* What a command starts from when the file is not there.
Blank(f) ==
  CASE f = "codex" -> [present |-> TRUE, own |-> "none", inline |-> FALSE, native |-> FALSE, skill |-> "none", edits |-> 0]
    [] f = "opencode" -> [present |-> TRUE, plugin |-> <<>>, plugins |-> <<>>, legacy |-> FALSE, edits |-> 0]
    [] f = "dsh" -> [present |-> TRUE, row |-> "none", edits |-> 0]
    [] f = "skill" -> [present |-> TRUE, body |-> "none", edits |-> 0]
    [] f \in Browsers -> [present |-> TRUE, ids |-> {}]
    [] OTHER -> [present |-> TRUE, own |-> "none", edits |-> 0]
Text(f) == IF files[f].present THEN files[f] ELSE Blank(f)

Idle == [at |-> "idle", todo |-> <<>>, before |-> <<>>, after |-> <<>>, done |-> <<>>, registered |-> <<>>,
         hosts |-> {}, were |-> [b \in {} |-> ""], errors |-> 0, missed |-> {}, torn |-> FALSE,
         start |-> <<>>, alone |-> TRUE, same |-> TRUE, connected |-> TRUE]

-----------------------------------------------------------------------------
(***************************************************************************)
(* planConfiguration: what the file of a client becomes.                   *)
(***************************************************************************)
\* codexConfig: an inline setting is left to the user, and the table is not
\* written where the native plugin serves.
CodexRefuses(c) == c.inline /\ c.own # "none"
PlanCodex(c, remove) == [c EXCEPT !.own = IF remove \/ c.native THEN "none" ELSE "ours"]

PlanClaude(c, remove) == [c EXCEPT !.own = IF remove THEN "none" ELSE "ours"]

\* ownPlugin: the package, the path that is expected, and, beside the launcher,
\* the directory that serves OpenCode 2.
OwnPlugins(launcher) == {"package"} \cup (IF launcher THEN {"launcher", "v2"} ELSE {"build"})
PlanOpencode_OneKey(c, remove, major, launcher) ==
  LET key == IF major >= 2 THEN "plugins" ELSE "plugin"
      kept == SelectSeq(c[key], LAMBDA e : e \notin OwnPlugins(launcher))
      entry == CASE ~launcher -> "build" [] major >= 2 -> "v2" [] OTHER -> "launcher"
  IN  [c EXCEPT !.plugin = <<>>, !.plugins = <<>>, !.legacy = FALSE, ![key] = IF remove THEN kept ELSE Append(kept, entry)]
PlanOpencode(c, remove, major, launcher) ==
  LET key == IF major >= 2 THEN "plugins" ELSE "plugin"
      other == IF major >= 2 THEN "plugin" ELSE "plugins"
      kept == SelectSeq(c[key] \o c[other], LAMBDA e : e \notin OwnPlugins(launcher))
      entry == CASE ~launcher -> "build" [] major >= 2 -> "v2" [] OTHER -> "launcher"
  IN  [c EXCEPT ![key] = IF remove THEN kept ELSE Append(kept, entry), ![other] = <<>>, !.legacy = FALSE]

\* planDeepSeek: a row that overrides the bundle's is disabled and not removed,
\* and two rows are left to the user.
DeepSeekRefuses(c) == c.row = "two"
PlanDeepSeek(c, remove) ==
  [c EXCEPT !.row = IF remove THEN IF @ = "override" THEN "disabled" ELSE IF @ = "inserted" THEN "none" ELSE @
                    ELSE IF @ = "none" THEN "inserted" ELSE IF @ = "disabled" THEN "override" ELSE @]

\* planSkills: the skill's files are part of the plan.
PlanSkill(c, remove) == IF remove THEN Absent ELSE [c EXCEPT !.body = "ours", !.edits = 0]
\* upsertCodexSkillConfig: one block that enables the skill, in place of any other.
UpsertSkillConfig(c) == [c EXCEPT !.skill = "on"]

Refuses(f) == \/ f = "codex" /\ CodexRefuses(Text(f))
              \/ f = "dsh" /\ DeepSeekRefuses(Text(f))
PlanHarness(f, remove, major, launcher) ==
  IF remove /\ ~files[f].present /\ launcher THEN Absent
  ELSE CASE f = "codex" -> PlanCodex(Text(f), remove)
         [] f = "opencode" -> PlanOpencode(Text(f), remove, major, launcher)
         [] f = "dsh" -> PlanDeepSeek(Text(f), remove)
         [] f = "skill" -> PlanSkill(Text(f), remove)
         [] OTHER -> PlanClaude(Text(f), remove)

(***************************************************************************)
(* Which extensions may reach the host: what is registered, what the       *)
(* profiles show (nothing, while the browser holds them) and what was      *)
(* recorded.                                                               *)
(***************************************************************************)
ResolveExtensionIds_First(b, detected) ==
  IF detected # {} THEN detected ELSE IF Text(b).ids # {} THEN Text(b).ids ELSE recorded
ResolveExtensionIds(b, detected) == Text(b).ids \cup detected \cup recorded
Detected == {d \in [Browsers -> SUBSET ExtensionIds] : \A b \in Browsers : d[b] \in {{}, InstalledIds[b]}}
PlanManifest(b, detected) ==
  [present |-> TRUE, ids |-> LET ids == ResolveExtensionIds(b, detected) IN IF ids = {} THEN {StoreId} ELSE ids]

-----------------------------------------------------------------------------
ClientSetupInit ==
  \E scene \in SetupScenes :
    /\ targets = scene.targets /\ files = scene.files /\ registry = scene.registry /\ recorded = scene.recorded
    /\ setup = [p \in SetupCommands |-> [Idle EXCEPT !.at = IF p \in scene.commands THEN "idle" ELSE "done"]]
    /\ locked = Nobody /\ setupEdits = 0 /\ setupFaults = scene.faults
    /\ secured = [f \in Clients |-> 0] /\ narrowed = {} /\ collided = FALSE

At(p, place) == setup[p].at = place
Is(p, kinds) == CommandKind[p] \in kinds
Removes(p) == Is(p, {"unsetup", "unclient"})
To(p, place) == setup' = [setup EXCEPT ![p].at = place]
Fault == setupFaults < MaxFaults /\ setupFaults' = setupFaults + 1
Ended == {"done", "refused", "failed", "rolledback", "incomplete"}
\* The command writes, or has read what it is going to write.
Writing(p) == setup[p].at \in {"locked", "checked", "restores", "undoes", "resolved", "links", "removed", "copied", "enables"}
\* Whoever is writing meanwhile is not alone any more.
Disturb(ps, p) == [q \in SetupCommands |-> IF q # p /\ Writing(q) THEN [ps[q] EXCEPT !.alone = FALSE] ELSE ps[q]]
Overlap(p) == collided' = (collided \/ \E q \in SetupCommands \ {p} : Writing(q) \/ setup[q].at \in {"ensures", "planned"})

\* manageSetup: the clients' files are read and planned, before the release is there.
PlanClients(p) ==
  /\ Is(p, {"setup", "unsetup"}) /\ At(p, "idle")
  /\ IF \E f \in Clients \cap targets : Refuses(f) THEN To(p, "refused")
     ELSE \E major \in {Major, 1} :
            LET after == [f \in Clients \cup Browsers |->
                            IF f \in Clients \cap targets THEN PlanHarness(f, Removes(p), major, TRUE) ELSE files[f]]
            IN  setup' = [setup EXCEPT ![p] = [@ EXCEPT
                            !.at = IF Removes(p) THEN "planned" ELSE "ensures", !.before = files, !.after = after,
                            !.todo = SelectSeq(Targets(ClientOrder), LAMBDA f : files[f] # after[f]), !.were = registry]]
  /\ UNCHANGED <<targets, files, registry, recorded, locked, setupEdits, setupFaults, narrowed, collided>>

\* ensureManagedRelease fails: nothing was written.
EnsureFails(p) ==
  /\ At(p, "ensures") /\ Fault /\ To(p, "failed")
  /\ UNCHANGED <<targets, files, registry, recorded, locked, setupEdits, narrowed, collided>>

\* planNativeHosts: once the release is there, so are the browsers' files, and
\* what the registry holds.
PlanHosts(p) ==
  /\ At(p, "ensures")
  /\ \E detected \in Detected :
       LET hosts == Browsers \cap targets
           after == [f \in hosts |-> PlanManifest(f, detected[f])]
       IN  setup' = [setup EXCEPT ![p] = [@ EXCEPT
                       !.at = "planned", !.hosts = hosts, !.were = registry,
                       !.before = [f \in DOMAIN @ |-> IF f \in Browsers THEN files[f] ELSE @[f]],
                       !.after = [f \in DOMAIN @ |-> IF f \in hosts THEN after[f] ELSE IF f \in Browsers THEN files[f] ELSE @[f]],
                       !.todo = @ \o SelectSeq(Targets(BrowserOrder), LAMBDA f : files[f] # after[f])]]
  /\ UNCHANGED <<targets, files, registry, recorded, locked, setupEdits, setupFaults, narrowed, collided>>

\* withRuntimeLock
EnterLock(p) ==
  /\ At(p, "planned") /\ locked = Nobody /\ locked' = p
  /\ setup' = [setup EXCEPT ![p] = [@ EXCEPT
                 !.at = "locked", !.start = files, !.missed = {f \in Clients \cup Browsers : files[f] # setup[p].before[f]},
                 !.alone = (\A q \in SetupCommands \ {p} : ~Writing(q)) /\ registry = setup[p].were]]
  /\ Overlap(p)
  /\ UNCHANGED <<targets, files, registry, recorded, setupEdits, setupFaults, narrowed>>

(***************************************************************************)
(* applyTransaction                                                        *)
(***************************************************************************)
StillAsPlanned_Trusted(p, f) == TRUE
StillAsPlanned(p, f) == files[f] = setup[p].before[f]
CheckFile(p) ==
  /\ At(p, "locked") /\ setup[p].todo # <<>>
  /\ IF StillAsPlanned(p, Head(setup[p].todo)) THEN To(p, "checked")
     ELSE setup' = [setup EXCEPT ![p].at = "undoes", ![p].todo = <<>>]
  /\ UNCHANGED <<targets, files, registry, recorded, locked, setupEdits, setupFaults, narrowed, collided>>

Narrows(f, new) == f \in Browsers /\ ~(Text(f).ids \subseteq IF new.present THEN new.ids ELSE {})
WriteFile(p) ==
  LET f == Head(setup[p].todo)
      next == IF Is(p, {"setup", "unsetup"}) THEN "locked" ELSE "links"
      moved == [setup EXCEPT ![p] = [@ EXCEPT !.at = next, !.todo = Tail(@), !.done = Append(@, f)]]
  IN  /\ At(p, "checked")
      /\ files' = [files EXCEPT ![f] = setup[p].after[f]]
      /\ setup' = Disturb(moved, p)
      /\ narrowed' = IF Narrows(f, setup[p].after[f]) THEN narrowed \cup {p} ELSE narrowed
      /\ UNCHANGED <<targets, registry, recorded, locked, setupEdits, setupFaults, collided>>

WriteFails(p) ==
  /\ At(p, "checked") /\ Fault
  /\ setup' = [setup EXCEPT ![p].at = IF Is(p, {"setup", "unsetup"}) THEN "undoes" ELSE "failed", ![p].todo = <<>>]
  /\ UNCHANGED <<targets, files, registry, recorded, locked, setupEdits, narrowed, collided>>

\* applyRegistryChanges: one browser after the other, and back if one fails.
Unregistered(p) == SelectSeq(BrowserOrder, LAMBDA b : b \in setup[p].hosts)
RegisterHost(p) ==
  LET b == Head(Unregistered(p))
  IN  /\ At(p, "locked") /\ setup[p].todo = <<>> /\ Unregistered(p) # <<>>
      /\ registry' = [registry EXCEPT ![b] = "ours"]
      /\ setup' = Disturb([setup EXCEPT ![p] = [@ EXCEPT !.hosts = @ \ {b}, !.registered = Append(@, b)]], p)
      /\ UNCHANGED <<targets, files, recorded, locked, setupEdits, setupFaults, narrowed, collided>>
RegisterFails(p) ==
  /\ At(p, "locked") /\ setup[p].todo = <<>> /\ Unregistered(p) # <<>> /\ Fault /\ To(p, "restores")
  /\ UNCHANGED <<targets, files, registry, recorded, locked, setupEdits, narrowed, collided>>
RestoreHost_Skipped(p) == To(p, "undoes") /\ UNCHANGED registry
RestoreHost(p) ==
  LET n == Len(setup[p].registered) IN
  IF n = 0 THEN To(p, "undoes") /\ UNCHANGED registry
  ELSE LET b == setup[p].registered[n]
       IN  /\ registry' = [registry EXCEPT ![b] = setup[p].were[b]]
           /\ setup' = Disturb([setup EXCEPT ![p].registered = SubSeq(@, 1, n - 1)], p)
RestoreHosts(p) ==
  /\ At(p, "restores") /\ RestoreHost(p)
  /\ UNCHANGED <<targets, files, recorded, locked, setupEdits, setupFaults, narrowed, collided>>
\* The error takes the place of the first one, and the rest is not restored.
RestoreHostFails(p) ==
  /\ At(p, "restores") /\ setup[p].registered # <<>> /\ Fault
  /\ setup' = [setup EXCEPT ![p].at = "undoes", ![p].torn = TRUE]
  /\ UNCHANGED <<targets, files, registry, recorded, locked, setupEdits, narrowed, collided>>

\* The files that were written are written back, the last one first.
UndoFile(p) ==
  LET n == Len(setup[p].done)
      f == setup[p].done[n]
  IN  /\ At(p, "undoes") /\ n > 0
      /\ files' = [files EXCEPT ![f] = setup[p].before[f]]
      /\ setup' = Disturb([setup EXCEPT ![p].done = SubSeq(@, 1, n - 1)], p)
      /\ narrowed' = IF Narrows(f, setup[p].before[f]) /\ files[f] # setup[p].after[f] THEN narrowed \cup {p} ELSE narrowed
      /\ UNCHANGED <<targets, registry, recorded, locked, setupEdits, setupFaults, collided>>
UndoFails(p) ==
  LET n == Len(setup[p].done)
  IN  /\ At(p, "undoes") /\ n > 0 /\ Fault
      /\ setup' = [setup EXCEPT ![p].done = SubSeq(@, 1, n - 1), ![p].errors = @ + 1]
      /\ UNCHANGED <<targets, files, registry, recorded, locked, setupEdits, narrowed, collided>>

Finish(p) ==
  LET c == setup[p]
      over == \/ c.at = "locked" /\ c.todo = <<>> /\ Unregistered(p) = <<>>
              \/ c.at = "undoes" /\ c.done = <<>>
      outcome == IF c.at = "locked" THEN "done" ELSE IF c.errors = 0 THEN "rolledback" ELSE "incomplete"
      same == IF outcome = "done" THEN \A f \in Clients \cup Browsers : c.after[f] \in {c.before[f], files[f]}
              ELSE files = c.start /\ (Removes(p) \/ registry = c.were)
  IN  /\ Is(p, {"setup", "unsetup"}) /\ over
      /\ setup' = [setup EXCEPT ![p] = [Idle EXCEPT !.at = outcome, !.same = same, !.connected = files = c.after, !.alone = c.alone, !.torn = c.torn,
                                        !.missed = c.missed, !.done = c.done, !.after = c.after]]
      /\ locked' = Nobody
      /\ UNCHANGED <<targets, files, registry, recorded, setupEdits, setupFaults, narrowed, collided>>

-----------------------------------------------------------------------------
(***************************************************************************)
(* link: the browsers, then the clients, without the lock.                 *)
(***************************************************************************)
\* linkTargets and installManifest: a browser's ids are read ...
StartLink(p) ==
  /\ Is(p, {"link", "client", "unclient"}) /\ At(p, "idle")
  /\ setup' = [setup EXCEPT ![p] = [@ EXCEPT
                 !.at = "links", !.before = files, !.after = files, !.start = files,
                 !.todo = IF Is(p, {"link"}) THEN SelectSeq(Targets(BrowserOrder) \o Targets(ClientOrder), LAMBDA f : f # "claude-code")
                          ELSE SelectSeq(Targets(ClientOrder), LAMBDA f : f # "skill")]]
  /\ Overlap(p)
  /\ UNCHANGED <<targets, files, registry, recorded, locked, setupEdits, setupFaults, narrowed>>
LinkBrowser(p) ==
  /\ At(p, "links") /\ setup[p].todo # <<>> /\ Head(setup[p].todo) \in Browsers
  /\ LET b == Head(setup[p].todo) IN
     \E detected \in {{}, InstalledIds[b]} :
       LET ids == ResolveExtensionIds(b, detected)
       IN  setup' = [setup EXCEPT ![p] = [@ EXCEPT
                       !.at = IF ids = {} THEN "links" ELSE "resolved", !.todo = IF ids = {} THEN Tail(@) ELSE @,
                       !.after[b] = [present |-> TRUE, ids |-> ids], !.hosts = IF ids = {} THEN @ ELSE @ \cup {b}]]
  /\ UNCHANGED <<targets, files, registry, recorded, locked, setupEdits, setupFaults, narrowed, collided>>
\* ... and written, with the registration; after the last of them, so is what
\* all of them allow.
LinkManifest(p) ==
  LET b == Head(setup[p].todo)
      rest == Tail(setup[p].todo)
      last == \A i \in DOMAIN rest : rest[i] \notin Browsers
  IN  /\ At(p, "resolved")
      /\ files' = [files EXCEPT ![b] = setup[p].after[b]]
      /\ registry' = [registry EXCEPT ![b] = "ours"]
      /\ recorded' = IF last THEN UNION {setup[p].after[x].ids : x \in setup[p].hosts} ELSE recorded
      /\ setup' = Disturb([setup EXCEPT ![p].at = "links", ![p].todo = rest], p)
      /\ narrowed' = IF Narrows(b, setup[p].after[b]) THEN narrowed \cup {p} ELSE narrowed
      /\ UNCHANGED <<targets, locked, setupEdits, setupFaults, collided>>

\* installSkills: the directory is removed, copied again, and enabled in Codex's
\* configuration, which is read and written without a comparison.
RemoveSkill(p) ==
  /\ At(p, "links") /\ setup[p].todo # <<>> /\ Head(setup[p].todo) = "skill"
  /\ LET after == PlanSkill(Text("skill"), FALSE) IN
     IF files["skill"] = after THEN files' = files /\ To(p, "copied")
     ELSE files' = [files EXCEPT !["skill"] = Absent] /\ setup' = Disturb([setup EXCEPT ![p].at = "removed"], p)
  /\ UNCHANGED <<targets, registry, recorded, locked, setupEdits, setupFaults, narrowed, collided>>
CopySkill(p) ==
  /\ At(p, "removed")
  /\ files' = [files EXCEPT !["skill"] = PlanSkill(Blank("skill"), FALSE)]
  /\ setup' = Disturb([setup EXCEPT ![p].at = "copied"], p)
  /\ UNCHANGED <<targets, registry, recorded, locked, setupEdits, setupFaults, narrowed, collided>>
ReadSkillConfig(p) ==
  /\ At(p, "copied")
  /\ LET after == UpsertSkillConfig(Text("codex")) IN
     setup' = [setup EXCEPT ![p] = IF after = files["codex"] THEN [@ EXCEPT !.at = "links", !.todo = Tail(@)]
                                   ELSE [@ EXCEPT !.at = "enables", !.after["codex"] = after]]
  /\ UNCHANGED <<targets, files, registry, recorded, locked, setupEdits, setupFaults, narrowed, collided>>
WriteSkillConfig(p) ==
  /\ At(p, "enables")
  /\ files' = [files EXCEPT !["codex"] = setup[p].after["codex"]]
  /\ setup' = Disturb([setup EXCEPT ![p].at = "links", ![p].todo = Tail(@)], p)
  /\ UNCHANGED <<targets, registry, recorded, locked, setupEdits, setupFaults, narrowed, collided>>

\* linkClientSurfaces, installClient, uninstallClient: a client's file is read,
\* planned, compared and written on its own, for the version 1 of OpenCode.
LinkClient(p) ==
  /\ At(p, "links") /\ setup[p].todo # <<>> /\ Head(setup[p].todo) \in Clients \ {"skill"}
  /\ LET f == Head(setup[p].todo)
         after == PlanHarness(f, Removes(p), 1, Is(p, {"link"}))
         skips == f = "dsh" /\ ~files[f].present
     IN  IF ~skips /\ Refuses(f) THEN To(p, "failed")
         ELSE setup' = [setup EXCEPT ![p] =
                IF skips THEN [@ EXCEPT !.todo = Tail(@)]
                ELSE IF after = files[f] THEN [@ EXCEPT !.todo = Tail(@), !.after[f] = after]
                ELSE [@ EXCEPT !.at = "checked", !.before[f] = files[f], !.after[f] = after]]
  /\ UNCHANGED <<targets, files, registry, recorded, locked, setupEdits, setupFaults, narrowed, collided>>
LinkEnds(p) ==
  /\ At(p, "links") /\ setup[p].todo = <<>>
  /\ LET c == setup[p] IN
     setup' = [setup EXCEPT ![p] = [Idle EXCEPT !.at = "done", !.alone = c.alone, !.done = c.done, !.after = c.after,
                                                !.same = \A i \in DOMAIN c.done : files[c.done[i]] = c.after[c.done[i]]]]
  /\ UNCHANGED <<targets, files, registry, recorded, locked, setupEdits, setupFaults, narrowed, collided>>

\* A command has read the file and is to write it without another look, or may
\* write back what was there before.
MayOverwrite(p, f) ==
  \/ At(p, "checked") /\ Head(setup[p].todo) = f
  \/ At(p, "enables") /\ f = "codex"
  \/ Is(p, {"setup", "unsetup"}) /\ setup[p].at \notin Ended /\ \E i \in DOMAIN setup[p].done : setup[p].done[i] = f
\* The app or its user changes its own file.
Edit(f) ==
  /\ setupEdits < MaxEdits /\ setupEdits' = setupEdits + 1 /\ files[f].present
  /\ files' = [files EXCEPT ![f].edits = @ + 1]
  /\ setup' = Disturb(setup, Nobody)
  /\ secured' = IF \E p \in SetupCommands : MayOverwrite(p, f) THEN secured ELSE [secured EXCEPT ![f] = files'[f].edits]
  /\ UNCHANGED <<targets, registry, recorded, locked, setupFaults, narrowed, collided>>

ClientSetupNext ==
  \/ /\ UNCHANGED secured
     /\ \E p \in SetupCommands :
          \/ PlanClients(p) \/ EnsureFails(p) \/ PlanHosts(p) \/ EnterLock(p)
          \/ CheckFile(p) \/ WriteFile(p) \/ WriteFails(p)
          \/ RegisterHost(p) \/ RegisterFails(p) \/ RestoreHosts(p) \/ RestoreHostFails(p)
          \/ UndoFile(p) \/ UndoFails(p) \/ Finish(p)
          \/ StartLink(p) \/ LinkBrowser(p) \/ LinkManifest(p)
          \/ RemoveSkill(p) \/ CopySkill(p) \/ ReadSkillConfig(p) \/ WriteSkillConfig(p) \/ LinkClient(p) \/ LinkEnds(p)
  \/ \E f \in Clients \cap targets : Edit(f)

-----------------------------------------------------------------------------
ClientSetupTypeOK ==
  /\ DOMAIN files = Clients \cup Browsers /\ DOMAIN setup = SetupCommands
  /\ \A b \in Browsers : registry[b] \in {"none", "other", "ours"}
  /\ \A p \in SetupCommands : setup[p].at \in Ended \cup
       {"idle", "ensures", "planned", "locked", "checked", "restores", "undoes", "links", "resolved", "removed", "copied", "enables"}
  /\ locked \in SetupCommands \cup {Nobody} /\ recorded \subseteq ExtensionIds

\* transaction.ts: a setup that is alone with its files either wrote its whole
\* plan or left every file, and every registration it could restore, as it was.
AllOrNothing ==
  \A p \in SetupCommands : setup[p].at \in {"done", "rolledback"} /\ setup[p].alone /\ ~setup[p].torn => setup[p].same

\* transaction.ts:25: a plan is not carried out over what was written while it
\* waited for the release and for the lock.
StalePlanAborts ==
  \A p \in SetupCommands : At(p, "done") => \A i \in DOMAIN setup[p].done : setup[p].done[i] \notin setup[p].missed

\* native-host.ts:255-260: no source alone narrows who may reach the host; only
\* commands that write at one time may.
IdsNeverNarrow == narrowed # {} => collided

\* configuration.ts: whoever installs or removes, what the user has put into the
\* list of plugins stays, in its order, and each client holds one entry of ours
\* as a command knows it.
UsersPlugins(c) == SelectSeq(c.plugins \o c.plugin, LAMBDA e : e \notin {"package", "launcher", "v2", "build"})
PluginsKept ==
  /\ "opencode" \in Clients => UsersPlugins(Text("opencode")) = <<"user1", "user2">>
  /\ \A p \in SetupCommands : At(p, "done") /\ setup[p].done # <<>> /\ "opencode" \in targets =>
       LET c == setup[p].after["opencode"]
       IN  c.present => Len(SelectSeq(c.plugins \o c.plugin, LAMBDA e : e \in OwnPlugins(Is(p, {"setup", "unsetup", "link"}))))
                          = IF Removes(p) THEN 0 ELSE 1

\* transaction.ts:23-24, :37-42, runtime-link.ts, install.ts: what a user edits is lost
\* only if it falls between a command's look at the file and its write, or into a
\* file that a transaction has written and then writes back; and not in our own skill.
EditsKept ==
  \A f \in Clients \ {"skill"} : secured[f] > 0 => files[f].present /\ files[f].edits >= secured[f]

ClientSetupSound == AllOrNothing /\ StalePlanAborts /\ EditsKept /\ IdsNeverNarrow /\ PluginsKept

\* Not true: applyRegistryChanges gives up at the first registration that it
\* cannot restore, and the transaction then says that it was rolled back
\* (native-host.ts:190-192, transaction.ts:42).
RolledBackIsBefore == \A p \in SetupCommands : At(p, "rolledback") /\ setup[p].alone => setup[p].same
\* Not true: an edit that falls between the comparison and the rename, or into
\* a transaction that is then undone, is overwritten (transaction.ts:25-32, :38).
EditsSurvive == setupEdits = 1 /\ MaxEdits = 1 => \E f \in Clients : files[f].present /\ files[f].edits = 1
\* Not true: a file that the plan leaves as it is is not compared again, and may
\* have been changed since (transaction.ts:16).
DoneIsConnected ==
  \A p \in SetupCommands : At(p, "done") /\ setup[p].alone /\ setup[p].done # <<>> /\ Is(p, {"setup"}) =>
    setup[p].connected
\* Not true: a registration that link has made while setup was waiting is
\* deleted when that setup restores what it had read (setup.ts:112).
RegisteredStays == [][\A b \in Browsers : registry[b] = "ours" => registry'[b] = "ours"]_clientSetupVars
\* Not true: link and install --client write for version 1 whatever is installed,
\* and move the whole list to the key that OpenCode 2 does not read
\* (install.ts:32, configuration.ts:118).
KeyIsRead == "opencode" \in Clients /\ Major = 2 /\ files["opencode"].present => files["opencode"].plugin = <<>>
\* Not true: what install --client writes is not known to setup as its own, nor
\* what link writes to uninstall --client (configuration.ts:26-38).
OneOwnPlugin ==
  "opencode" \in Clients /\ files["opencode"].present =>
    LET c == files["opencode"]
    IN  Len(SelectSeq(c.plugins \o c.plugin, LAMBDA e : e \in {"package", "launcher", "v2", "build"})) <= 1
=============================================================================
