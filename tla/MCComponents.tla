---------------------------- MODULE MCComponents ----------------------------
(***************************************************************************)
(* The components that share no state with each other, for TLC, side by    *)
(* side: a behaviour sets one scene and lets that component act while the  *)
(* others rest in their initial states.                                    *)
(*                                                                         *)
(* ComponentProofs is extended, with the components whose invariants it    *)
(* proves for every value of their constants: the configuration gives the  *)
(* constants.  The others are instantiated.                                *)
(***************************************************************************)
EXTENDS ComponentProofs, TLC

VARIABLES scene,
    rows, overtaken,
    chains, recording, records, returned,
    tabOwner, downloads, filed, began, forgotten, moves,
    page, truth, log, capturing, netChanges, inspection,
    open, kept, loads, writing, viewBusy, revision, scope, shown, acked, stale, edits, dirty, timer, editLost,
    jobs, action, starts, polls, reached, service, loaded, storedService, submitted, typedFor, sharedFor, viewSteps,
    targets, files, registry, recorded, setup, locked, setupEdits, setupFaults, secured, narrowed, collided,
    linker, tree, output, builds, dependencies, pointer, postponed, unpacked, previous, activating, publishing,
    busyClients, trouble, bustle, swapped, rewritten,
    semanticSettings, saver, loadedModel, queryEmbeddingCache, documentEmbeddingCache, ranker, modelFaults, saveLost

-----------------------------------------------------------------------------
Element(label, role) == [label |-> label, role |-> role]
AnyThen(labels) == [i \in DOMAIN labels |-> Element(labels[i], "any")]

\* Of the components that are extended, for the configuration.
SmallPlans == {<<"write", "settled">>, <<"read", "write">>, <<"settled">>, <<"write", "risky">>}
OneHost == [s \in {"a", "b"} |-> "h"]
TwoTabs == [u \in {"u", "v"} |-> IF u = "u" THEN 1 ELSE 2]
OneOrBoth == [c \in {"c", "d"} |-> IF c = "c" THEN <<"P">> ELSE <<"P", "N">>]
\* Two overlapping configurations and a reset.
TwoAndReset == [c \in {"c", "d", "r"} |-> CASE c = "c" -> <<"network", "script">>
                                           [] c = "d" -> <<"network">> [] c = "r" -> <<>>]

\* Any two input operations; those that overlap in a field are a fill, an append and what is typed.
KindOfInput == [c \in InputCalls |-> c]
FieldOfInput == [c \in InputCalls |-> IF c \in {"clear", "chord"} THEN "g" ELSE "f"]
\* A search or a map and a click on what it lists, or what needs neither.
KindOfPageCall == [se |-> "search", sh |-> "shot", ma |-> "map", in |-> "inspect", cl |-> "click",
                   fr |-> "frame", pr |-> "press", po |-> "point", sl |-> "select"]
FewPageCalls == {{"se", "fr"}, {"ma", "pr"}, {"ma", "po"}, {"sh"}, {"sl"}, {"se", "in", "cl"}}

\* Two requests for different models, and a deletion.
TwoModels == [a |-> "q", b |-> "p", c |-> "q"]
UseOrDelete == [a |-> "deep", b |-> "embed", c |-> "delete"]

Jobs == INSTANCE ControlJobs WITH JobKinds <- {"update", "diagnose"}, Listed <- 1, MaxJobs <- 3
\* Two requests that differ in the role of one element, two that overlap.
Lineage == INSTANCE MemoryLineage WITH
    Requests <- {AnyThen(<<"x">>), <<Element("x", "button")>>, AnyThen(<<"x", "y", "z">>), AnyThen(<<"y", "z", "x">>)},
    Agents <- {"a"}, MaxSteps <- 4, MaxRecords <- 3
Download == INSTANCE DownloadEvents WITH
    DownloadIds <- {"k", "l"}, PageTabs <- {1}, DownloadTab <- [d \in {"k", "l"} |-> 1],
    Readers <- {"r", "s"}, NoReader <- "none", EventLimit <- 2, DownloadLimit <- 1, ReaderLimit <- 1, MaxMoves <- 2
Network == INSTANCE NetworkLog WITH
    Fetches <- {"r"}, Sockets <- {"s"}, EventLimit <- 2, MaxHops <- 2, MaxPieces <- 1,
    MaxChanges <- 1, changes <- netChanges
\* One view at a time.
Popup == INSTANCE PopupViews WITH
    Views <- {"memory", "updates", "semantic", "action", "provider"}, Scopes <- {"current", "all"},
    Routes <- {"router", "direct"}, NoKey <- "noKey", MaxViewSteps <- 4, MaxLoads <- 2
\* One or two commands, over the files of some clients and browsers, with what
\* of the faults is left to happen.
SetupFiles(inline) == [
    skill |-> [present |-> TRUE, body |-> "old", edits |-> 0],
    codex |-> [present |-> TRUE, own |-> "old", inline |-> inline, native |-> FALSE, skill |-> "off", edits |-> 0],
    opencode |-> [present |-> TRUE, plugin |-> <<>>, plugins |-> <<"user1", "package", "user2">>,
                  legacy |-> TRUE, edits |-> 0],
    dsh |-> [present |-> TRUE, row |-> "override", edits |-> 0],
    chrome |-> [present |-> TRUE, ids |-> {"x", "y"}],
    brave |-> [present |-> FALSE]] @@ [f \in {"claude-code"} |-> [present |-> FALSE]]
SetupScene(commands, targets_, done) ==
    [commands |-> commands, targets |-> targets_, files |-> SetupFiles(done = 2), recorded |-> {}, faults |-> done,
     registry |-> [chrome |-> "other", brave |-> "none"]]
SetupScenes == {
    SetupScene({"s", "t"}, {"opencode", "chrome"}, 1), SetupScene({"s", "l"}, {"chrome", "brave"}, 1),
    SetupScene({"s"}, {"chrome", "brave"}, 0), SetupScene({"s", "u"}, {"codex", "skill"}, 1),
    SetupScene({"u", "l"}, {"claude-code", "dsh"}, 1), SetupScene({"s", "l"}, {"skill", "codex"}, 1),
    SetupScene({"i", "s"}, {"opencode"}, 1), SetupScene({"l", "r"}, {"opencode", "chrome"}, 1),
    SetupScene({"s"}, {"codex", "opencode"}, 2)}
Install == INSTANCE ClientSetup WITH
    SetupCommands <- {"s", "t", "u", "l", "i", "r"}, StoreId <- "z", Major <- 2,
    CommandKind <- [s |-> "setup", t |-> "setup", u |-> "unsetup", l |-> "link", i |-> "client", r |-> "unclient"],
    ClientOrder <- <<"skill", "codex", "opencode", "dsh", "claude-code">>, BrowserOrder <- <<"chrome", "brave">>,
    ExtensionIds <- {"x", "y", "z"}, InstalledIds <- [chrome |-> {"x"}, brave |-> {"y"}],
    SetupScenes <- SetupScenes, MaxEdits <- 1, MaxFaults <- 2
\* Commands: one activation, and any other command or a second activation.
Activate == INSTANCE ChannelActivation WITH
    Commands <- {"p", "q"}, Prints <- {"f1", "f2"}, Absent <- "absent", MaxTrouble <- 1, MaxBustle <- 1
\* Two pages that share units; a unit is judged by words and models apart.
Unit(text, flags, q1, q2) ==
    [text |-> text, flags |-> flags,
     hit |-> [q1 |-> [phrase |-> q1[1], words |-> q1[2]], q2 |-> [phrase |-> q2[1], words |-> q2[2]]],
     like |-> [q1 |-> q1[3], q2 |-> q2[3]], judged |-> [q1 |-> q1[4], q2 |-> q2[4]]]
RankedPages == [
    small |-> <<Unit("a", {"interactive"}, <<FALSE, 1, 60, 20>>, <<FALSE, 0, 50, 40>>),
                Unit("b", {}, <<FALSE, 1, 90, 70>>, <<FALSE, 0, 50, 10>>)>>,
    large |-> <<Unit("b", {"inViewport"}, <<FALSE, 1, 90, 70>>, <<FALSE, 0, 50, 10>>),
                Unit("c", {"heading"}, <<FALSE, 0, 80, 90>>, <<TRUE, 2, 20, 5>>),
                Unit("a", {"interactive"}, <<FALSE, 1, 12, 20>>, <<FALSE, 0, 50, 40>>),
                Unit("d", {}, <<FALSE, 1, 5, 5>>, <<FALSE, 0, 70, 95>>),
                Unit("e", {"interactive"}, <<FALSE, 1, 40, 50>>, <<FALSE, 1, 95, 90>>)>>]
Ranker == INSTANCE SemanticRanking WITH
    Rankers <- {"p", "q"}, Pages <- RankedPages, Savers <- {"h"},
    Searches <- {[page |-> "large", query |-> "q1", strategy |-> "deep"],
                 [page |-> "large", query |-> "q1", strategy |-> "auto"],
                 [page |-> "large", query |-> "q2", strategy |-> "semantic"],
                 [page |-> "small", query |-> "q1", strategy |-> "lexical"]},
    Patches <- {[embeddingDims |-> 128], [enabled |-> FALSE, embeddingDims |-> 7, agentResultCount |-> 1]},
    SupportedDims <- {128, 256}, DefaultDims <- 256, EmbeddingCandidates <- 4, RerankCandidates <- 2, Batch <- 3,
    QueryCapacity <- 1, DocumentCapacity <- 3, MaxModelFaults <- 1

-----------------------------------------------------------------------------
Scenes ==
    {"run", "tab", "jobs", "lineage", "decide", "upload", "download", "domain",
     "env", "models", "network", "creation", "input", "firefox", "cursor",
     "status", "popup", "setup", "activate", "market", "rank", "targets"}

\* Where a component may begin in several ways, it does so in its own scene only.
Init ==
    /\ scene \in Scenes
    /\ RunInit /\ Jobs!JobInit /\ Lineage!LineageInit
    /\ UploadInit /\ DomainInit /\ EnvInit
    /\ ModelInit
    /\ Network!NetInit /\ (scene # "network" => page = {"r"})
    /\ TabCreationInit /\ connected = {"A"}
    /\ PageInputInit
    /\ FirefoxSessionInit
    /\ CursorMovesInit /\ (scene # "cursor" => watched)
    /\ HostStatusInit
    /\ Popup!PopupViewsInit /\ (scene # "popup" => open = "memory")
    /\ Install!ClientSetupInit /\ (scene # "setup" => recorded = {} /\ targets = {"codex", "opencode"})
    /\ Activate!ActivationInit /\ linker["p"].kind = "activate" /\ tree = "f1" /\ dependencies = "none"
    /\ pointer.isolated /\ (scene # "activate" => linker["q"].kind = "link")
    /\ MarketInit /\ (scene # "market" => marketLock = "gone" /\ marker = "retry")
    /\ IF scene = "market" THEN refresher["p"].force \/ ~ refresher["q"].force
       ELSE refresher["p"].force /\ ~ refresher["q"].force
            /\ market = [source |-> "none", snapshot |-> "none", installed |-> "none", offers |-> "old"]
    /\ Ranker!RankingInit
    /\ PageTargetsInit /\ (scene # "targets" => pageCall["sh"].at = "idle")
    /\ TabInit /\ (scene # "tab" => owner \in Sessions)
    /\ DecisionInit /\ (scene # "decide" => ~settings.images)
    /\ Download!DownloadInit /\ (scene # "download" => tabOwner = [t \in {1} |-> "r"])

jobVars == <<rows, overtaken>>
lineageVars == <<chains, recording, records, returned>>
downloadVars == <<tabOwner, downloads, filed, began, forgotten, moves>>
netVars == <<page, truth, log, capturing, netChanges, inspection>>
popupViewsVars == <<open, kept, loads, writing, viewBusy, revision, scope, shown, acked, stale, edits, dirty, timer, editLost,
    jobs, action, starts, polls, reached, service, loaded, storedService, submitted, typedFor, sharedFor, viewSteps>>
clientSetupVars == <<targets, files, registry, recorded, setup, locked, setupEdits, setupFaults,
                     secured, narrowed, collided>>
activationVars == <<linker, tree, output, builds, dependencies, pointer, postponed, unpacked,
                    previous, activating, publishing, busyClients, trouble, bustle, swapped,
                    rewritten>>
rankingVars == <<semanticSettings, saver, loadedModel, queryEmbeddingCache, documentEmbeddingCache,
                 ranker, modelFaults, saveLost>>
vars == <<scene, runVars, tabVars, jobVars, lineageVars, decisionVars, uploadVars, downloadVars,
          domainVars, envVars, modelVars, netVars, tabCreationVars, pageInputVars,
          firefoxSessionVars, cursorMovesVars, hostStatusVars, popupViewsVars,
          clientSetupVars, activationVars, marketVars, rankingVars, pageTargetsVars>>

\* The components of the other scenes rest.
Rest ==
    /\ UNCHANGED scene
    /\ IF scene = "run" THEN TRUE ELSE UNCHANGED runVars
    /\ IF scene = "tab" THEN TRUE ELSE UNCHANGED tabVars
    /\ IF scene = "jobs" THEN TRUE ELSE UNCHANGED jobVars
    /\ IF scene = "lineage" THEN TRUE ELSE UNCHANGED lineageVars
    /\ IF scene = "decide" THEN TRUE ELSE UNCHANGED decisionVars
    /\ IF scene = "upload" THEN TRUE ELSE UNCHANGED uploadVars
    /\ IF scene = "download" THEN TRUE ELSE UNCHANGED downloadVars
    /\ IF scene = "domain" THEN TRUE ELSE UNCHANGED domainVars
    /\ IF scene = "env" THEN TRUE ELSE UNCHANGED envVars
    /\ IF scene = "models" THEN TRUE ELSE UNCHANGED modelVars
    /\ IF scene = "network" THEN TRUE ELSE UNCHANGED netVars
    /\ IF scene = "creation" THEN TRUE ELSE UNCHANGED tabCreationVars
    /\ IF scene = "input" THEN TRUE ELSE UNCHANGED pageInputVars
    /\ IF scene = "firefox" THEN TRUE ELSE UNCHANGED firefoxSessionVars
    /\ IF scene = "cursor" THEN TRUE ELSE UNCHANGED cursorMovesVars
    /\ IF scene = "status" THEN TRUE ELSE UNCHANGED hostStatusVars
    /\ IF scene = "popup" THEN TRUE ELSE UNCHANGED popupViewsVars
    /\ IF scene = "setup" THEN TRUE ELSE UNCHANGED clientSetupVars
    /\ IF scene = "activate" THEN TRUE ELSE UNCHANGED activationVars
    /\ IF scene = "market" THEN TRUE ELSE UNCHANGED marketVars
    /\ IF scene = "rank" THEN TRUE ELSE UNCHANGED rankingVars
    /\ IF scene = "targets" THEN TRUE ELSE UNCHANGED pageTargetsVars

Next ==
    \/ scene = "run" /\ RunNext /\ Rest
    \/ scene = "tab" /\ TabNext /\ Rest
    \/ scene = "jobs" /\ Jobs!JobNext /\ Rest
    \/ scene = "lineage" /\ Lineage!LineageNext /\ Rest
    \/ scene = "decide" /\ DecisionNext /\ Rest
    \/ scene = "upload" /\ UploadNext /\ Rest
    \/ scene = "download" /\ Download!DownloadNext /\ Rest
    \/ scene = "domain" /\ DomainNext /\ Rest
    \/ scene = "env" /\ EnvNext /\ Rest
    \/ scene = "models" /\ ModelNext /\ Rest
    \/ scene = "network" /\ Network!NetNext /\ Rest
    \/ scene = "creation" /\ TabCreationNext /\ Rest
    \/ scene = "input" /\ PageInputNext /\ Rest
    \/ scene = "firefox" /\ FirefoxSessionNext /\ Rest
    \/ scene = "cursor" /\ CursorMovesNext /\ Rest
    \/ scene = "status" /\ HostStatusNext /\ Rest
    \/ scene = "popup" /\ Popup!PopupViewsNext /\ Rest
    \/ scene = "setup" /\ Install!ClientSetupNext /\ Rest
    \/ scene = "activate" /\ Activate!ActivationNext /\ Rest
    \/ scene = "market" /\ MarketNext /\ Rest
    \/ scene = "rank" /\ Ranker!RankingNext /\ Rest
    \/ scene = "targets" /\ PageTargetsNext /\ Rest

Spec == Init /\ [][Next]_vars

-----------------------------------------------------------------------------
\* The type invariants of the components.
ComponentsTypeOK ==
    /\ scene \in Scenes
    /\ RunTypeOK /\ TabTypeOK /\ Jobs!JobTypeOK
    /\ Lineage!LineageTypeOK /\ DecisionTypeOK /\ UploadTypeOK
    /\ Download!DownloadTypeOK /\ DomainTypeOK /\ EnvTypeOK
    /\ ModelTypeOK /\ Network!NetTypeOK /\ TabCreationTypeOK
    /\ PageInputTypeOK /\ FirefoxSessionTypeOK /\ CursorMovesTypeOK
    /\ HostStatusTypeOK /\ Popup!PopupViewsTypeOK /\ Install!ClientSetupTypeOK
    /\ Activate!ActivationTypeOK /\ MarketTypeOK /\ Ranker!RankingTypeOK
    /\ PageTargetsTypeOK

\* control/jobs.ts: an action runs twice only if its second start could not
\* see the first.  management/setup.ts, transaction.ts, cli/*: a setup that is
\* alone writes all of its plan or nothing, and not over what was changed while
\* it waited; an edit is lost only between a command's look at the file and its
\* write, or in a file that is written back; the user's plugins stay, and no
\* command narrows who may reach the host but beside another one.  management/channels.ts,
\* development-extension.ts, marketplace.ts: whatever is killed or fails, the
\* pointer names a whole snapshot and the extension can be had back.
CommandsSound ==
    /\ Jobs!TwiceOnlyOvertaken /\ Install!ClientSetupSound
    /\ Activate!ActivationSound

\* memory/store-*.ts: pruning, folding, splicing and reused ids leave every
\* lineage whole; only a correction that returns to a replaced recipe loses it.
\* semantic-ranking.ts: a search ranks as if it ran alone, with no caches.
\* download-events.ts: a session reads of its own downloads only.  network.ts:
\* a captured request tells what went over the network for it.  popup/*: what
\* comes back late is not shown over what came after, and a key goes to the
\* service it is for.
AnswersSound ==
    /\ Lineage!LineageKept /\ Lineage!LostOnlyByReturn /\ Ranker!RankingSound
    /\ Download!ReadsItsOwn /\ Network!RecordsAreTrue /\ Popup!PopupViewsSound
=============================================================================
