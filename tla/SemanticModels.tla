--------------------------- MODULE SemanticModels ---------------------------
(***************************************************************************)
(* The models a semantic worker keeps in memory.  A model is an embedding, *)
(* and for a deep search a reranker too; each is loaded when a request     *)
(* needs it, and what other models left behind is disposed of.  Requests   *)
(* of one worker interleave wherever they wait: for a load, for a disposal *)
(* or for the model's answer.                                              *)
(*                                                                         *)
(* `held' stands for the maps embeddingPipelines and rerankers; every load *)
(* makes a new instance, with a number.  A load is done either by the      *)
(* shared preparation of a model, which later requests join, or by the     *)
(* request itself when it finds the model gone again.                      *)
(***************************************************************************)
EXTENDS Integers, FiniteSets

CONSTANTS SearchModels,   \* the models
          DeepModels,     \* those with a reranker
          ModelCalls,     \* requests to the worker
          ModelOf,        \* the model of a request
          RequestKind,    \* "rank", "auto", "deep", "embed", "prepare" or "delete"
          MaxLoads        \* instances made in a behaviour

ASSUME ModelAssumption == ModelOf \in [ModelCalls -> SearchModels]

VARIABLES held,           \* the instance of each part of each model, 0 for none
          disposed,       \* the instances that were disposed of
          made,           \* how many were made
          loader,         \* preparations and requests: where in a load they are
          modelCall,      \* each request: its step and the instance it uses
          loadState,      \* what the worker reports of its loading
          idleModel       \* the model that the idle timer will unload

modelVars == <<held, disposed, made, loader, modelCall, loadState, idleModel>>

Parts == {"embedding", "reranker"}
Instances == 1 .. MaxLoads
Loaders == SearchModels \cup ModelCalls
NoModel == "none"
Model(l) == IF l \in SearchModels THEN l ELSE ModelOf[l]
PartsOf(m) == IF m \in DeepModels THEN Parts ELSE {"embedding"}

ModelTypeOK ==
  /\ held \in [Parts -> [SearchModels -> {0} \cup Instances]]
  /\ disposed \subseteq Instances
  /\ made \in 0 .. MaxLoads
  /\ loader \in [Loaders -> [at : {"none", "clear", "load", "replace"}, part : Parts, sweep : Parts]]
  /\ modelCall \in [ModelCalls -> [at : {"idle", "join", "embedding", "embed", "reranker", "rerank",
                                         "unlist", "over", "failed"}, uses : {0} \cup Instances]]
  /\ loadState \in [state : {"idle", "loading", "ready", "error"}, model : SearchModels \cup {NoModel}]
  /\ idleModel \in SearchModels \cup {NoModel}

ModelInit ==
  /\ held = [p \in Parts |-> [m \in SearchModels |-> 0]]
  /\ disposed = {} /\ made = 0
  /\ loader = [l \in Loaders |-> [at |-> "none", part |-> "embedding", sweep |-> "embedding"]]
  /\ modelCall = [c \in ModelCalls |-> [at |-> "idle", uses |-> 0]]
  /\ loadState = [state |-> "idle", model |-> NoModel]
  /\ idleModel = NoModel

-----------------------------------------------------------------------------
(***************************************************************************)
(* A load of one part.  Before and after an embedding, and after a         *)
(* reranker, the parts of all other models are taken out and disposed of   *)
(* one by one, embeddings first: `sweep' is how far the sweep came.        *)
(***************************************************************************)
Loading(part) == [at |-> IF part = "embedding" THEN "clear" ELSE "load", part |-> part, sweep |-> "embedding"]
Resting == [at |-> "none", part |-> "embedding", sweep |-> "embedding"]
Others(l, part) == {m \in SearchModels \ {Model(l)} : held[part][m] # 0}
LeftToSweep(l) == {part \in {loader[l].sweep, "reranker"} : Others(l, part) # {}}

\* unloadModelsExcept, one disposal.
Sweep(l) ==
  /\ loader[l].at \in {"clear", "replace"}
  /\ LeftToSweep(l) # {}
  /\ LET part == IF "embedding" \in LeftToSweep(l) THEN "embedding" ELSE "reranker"
     IN \E m \in Others(l, part) :
          /\ held' = [held EXCEPT ![part][m] = 0]
          /\ disposed' = disposed \cup {held[part][m]}
          /\ loader' = [loader EXCEPT ![l].sweep = part]
  /\ UNCHANGED <<made, modelCall, loadState, idleModel>>
BeginLoad(l) ==
  /\ loader[l].at = "clear" /\ LeftToSweep(l) = {}
  /\ loader' = [loader EXCEPT ![l].at = "load"]
  /\ UNCHANGED <<held, disposed, made, modelCall, loadState, idleModel>>
\* The files are read: there is an instance that no map lists yet.
Loaded(l) ==
  /\ loader[l].at = "load"
  /\ loader' = [loader EXCEPT ![l].at = "replace", ![l].sweep = "embedding"]
  /\ UNCHANGED <<held, disposed, made, modelCall, loadState, idleModel>>
\* The sweep is over: the instance is listed.
CanList(l) == loader[l].at = "replace" /\ LeftToSweep(l) = {} /\ made < MaxLoads
List(l) == /\ made' = made + 1
           /\ held' = [held EXCEPT ![loader[l].part][Model(l)] = made + 1]

-----------------------------------------------------------------------------
(***************************************************************************)
(* The shared preparation of a model: its embedding, then its reranker.    *)
(***************************************************************************)
Complete(m, store) == \A part \in PartsOf(m) : store[part][m] # 0
ReportLoad(state, m) == loadState' = [state |-> state, model |-> m]
Joined(m) == {c \in ModelCalls : modelCall[c].at = "join" /\ ModelOf[c] = m}
AfterPreparing(c) == IF RequestKind[c] = "prepare" THEN "over" ELSE "embedding"
\* An "auto" search does not wait for a preparation: it is answered without the model.
WaitingAt(c) == IF RequestKind[c] = "auto" THEN "over" ELSE "join"
Ready(c) == IF RequestKind[c] = "auto" THEN held["embedding"][ModelOf[c]] # 0 ELSE Complete(ModelOf[c], held)
JoinedGoOn(m, at(_)) == modelCall' = [c \in ModelCalls |-> IF c \in Joined(m) THEN [at |-> at(c), uses |-> 0] ELSE modelCall[c]]

PrepareModel(c) ==
  /\ modelCall[c].at = "idle" /\ RequestKind[c] # "delete"
  /\ LET m == ModelOf[c] IN
     IF Ready(c)
     THEN /\ IF RequestKind[c] = "auto" THEN UNCHANGED loadState ELSE ReportLoad("ready", m)
          /\ modelCall' = [modelCall EXCEPT ![c].at = AfterPreparing(c)]
          /\ UNCHANGED loader
     ELSE /\ modelCall' = [modelCall EXCEPT ![c].at = WaitingAt(c)]
          /\ IF loader[m].at # "none" THEN UNCHANGED <<loader, loadState>>
             ELSE /\ loader' = [loader EXCEPT ![m] = Loading(IF held["embedding"][m] = 0 THEN "embedding" ELSE "reranker")]
                  /\ ReportLoad("loading", m)
  /\ UNCHANGED <<held, disposed, made, idleModel>>

\* A part of the preparation is listed: the next part follows, or all is ready.
Prepared(m) ==
  /\ CanList(m) /\ List(m)
  /\ IF loader[m].part = "embedding" /\ m \in DeepModels /\ held["reranker"][m] = 0
     THEN /\ loader' = [loader EXCEPT ![m] = Loading("reranker")]
          /\ ReportLoad("loading", m) /\ UNCHANGED modelCall
     ELSE /\ loader' = [loader EXCEPT ![m] = Resting]
          /\ ReportLoad("ready", m) /\ JoinedGoOn(m, AfterPreparing)
  /\ UNCHANGED <<disposed, idleModel>>
\* A load fails: so do those who wait for it.
PreparationFails(m) ==
  /\ loader[m].at = "load"
  /\ loader' = [loader EXCEPT ![m] = Resting]
  /\ ReportLoad("error", m)
  /\ JoinedGoOn(m, LAMBDA c : "failed")
  /\ UNCHANGED <<held, disposed, made, idleModel>>

-----------------------------------------------------------------------------
(***************************************************************************)
(* A request uses the parts it finds, or loads them itself.                *)
(***************************************************************************)
UseOf == [embedding |-> "embed", reranker |-> "rerank"]
Find(c) ==
  /\ modelCall[c].at \in Parts /\ loader[c].at = "none"
  /\ LET part == modelCall[c].at IN
     IF held[part][ModelOf[c]] # 0
     THEN /\ modelCall' = [modelCall EXCEPT ![c] = [at |-> UseOf[part], uses |-> held[part][ModelOf[c]]]]
          /\ UNCHANGED loader
     ELSE /\ loader' = [loader EXCEPT ![c] = Loading(part)]
          /\ UNCHANGED modelCall
  /\ UNCHANGED <<held, disposed, made, loadState, idleModel>>
LoadedItself(c) ==
  /\ CanList(c) /\ List(c)
  /\ modelCall' = [modelCall EXCEPT ![c] = [at |-> UseOf[loader[c].part], uses |-> made + 1]]
  /\ loader' = [loader EXCEPT ![c] = Resting]
  /\ UNCHANGED <<disposed, loadState, idleModel>>

\* Its own load fails: the search is answered without the model, or with the
\* embedding's order alone.
OwnLoadFails(c) ==
  /\ loader[c].at = "load"
  /\ loader' = [loader EXCEPT ![c] = Resting]
  /\ modelCall' = [modelCall EXCEPT ![c] = [at |-> IF loader[c].part = "embedding" THEN "failed" ELSE "over", uses |-> 0]]
  /\ idleModel' = IF loader[c].part = "reranker" THEN ModelOf[c] ELSE idleModel
  /\ UNCHANGED <<held, disposed, made, loadState>>

\* The deep search sets the idle timer anew for its own model when it is over.
Over(c, at) ==
  /\ modelCall' = [modelCall EXCEPT ![c] = [at |-> at, uses |-> 0]]
  /\ idleModel' = IF RequestKind[c] = "deep" /\ at = "over" THEN ModelOf[c] ELSE idleModel
\* An answer of the embedding; a disposed one gives an error instead.
Embed(c) ==
  /\ modelCall[c].at = "embed"
  /\ CASE modelCall[c].uses \in disposed -> Over(c, "failed")
       [] modelCall[c].uses \notin disposed /\ RequestKind[c] = "deep" ->
            modelCall' = [modelCall EXCEPT ![c] = [at |-> "reranker", uses |-> 0]] /\ UNCHANGED idleModel
       [] OTHER -> Over(c, "over")
  /\ UNCHANGED <<held, disposed, made, loader, loadState>>
\* The reranker's failure is reported beside the embedding's results.
Rerank(c) ==
  /\ modelCall[c].at = "rerank"
  /\ Over(c, "over")
  /\ UNCHANGED <<held, disposed, made, loader, loadState>>

IdleUnload_KeepsReranker ==
  /\ idleModel # NoModel
  /\ held' = [held EXCEPT !["embedding"][idleModel] = 0]
  /\ disposed' = disposed \cup {held[part][idleModel] : part \in {p \in Parts : held[p][idleModel] # 0}}
  /\ idleModel' = NoModel
  /\ UNCHANGED <<made, loader, modelCall, loadState>>
\* Two minutes after the last deep search its model goes, in use or not.
IdleUnload ==
  /\ idleModel # NoModel
  /\ held' = [part \in Parts |-> [held[part] EXCEPT ![idleModel] = 0]]
  /\ disposed' = disposed \cup {held[part][idleModel] : part \in {p \in Parts : held[p][idleModel] # 0}}
  /\ idleModel' = NoModel
  /\ UNCHANGED <<made, loader, modelCall, loadState>>

-----------------------------------------------------------------------------
\* A deletion is refused while the model is being prepared; it takes the embedding
\* out, then, after that one's disposal, the reranker.
Unlist(m, part) ==
  /\ held' = [held EXCEPT ![part][m] = 0]
  /\ disposed' = disposed \cup ({held[part][m]} \ {0})
Delete(c) ==
  /\ modelCall[c].at = "idle" /\ RequestKind[c] = "delete"
  /\ IF loader[ModelOf[c]].at # "none"
     THEN modelCall' = [modelCall EXCEPT ![c].at = "failed"] /\ UNCHANGED <<held, disposed>>
     ELSE Unlist(ModelOf[c], "embedding") /\ modelCall' = [modelCall EXCEPT ![c].at = "unlist"]
  /\ UNCHANGED <<made, loader, loadState, idleModel>>
DeleteFiles(c) ==
  /\ modelCall[c].at = "unlist"
  /\ Unlist(ModelOf[c], "reranker")
  /\ modelCall' = [modelCall EXCEPT ![c].at = "over"]
  /\ ReportLoad("idle", NoModel)
  /\ UNCHANGED <<made, loader, idleModel>>

ModelNext ==
  \/ \E l \in Loaders : Sweep(l) \/ BeginLoad(l) \/ Loaded(l)
  \/ \E m \in SearchModels : Prepared(m) \/ PreparationFails(m)
  \/ \E c \in ModelCalls : \/ PrepareModel(c) \/ Find(c) \/ LoadedItself(c) \/ OwnLoadFails(c) \/ Embed(c) \/ Rerank(c)
                           \/ Delete(c) \/ DeleteFiles(c)
  \/ IdleUnload

-----------------------------------------------------------------------------
Listed == {held[p][m] : p \in Parts, m \in SearchModels} \ {0}
InUse == {modelCall[c].uses : c \in ModelCalls} \ {0}

\* What the maps list was not disposed of, however loads, sweeps, deletions and
\* the idle timer interleave: a request that finds a model finds a live one.
ListedIsAlive == Listed \cap disposed = {}

\* Not true: a model is taken from under a request that waits for its answer.
UsedIsAlive == InUse \cap disposed = {}

\* Not true: semanticStatus reports that at most one model is loaded, and two
\* loads that pass each other both list theirs.
OneModel == \A part \in Parts : Cardinality({m \in SearchModels : held[part][m] # 0}) <= 1

\* Not true: what is reported ready was taken out since.
ReadyIsLoaded == loadState.state = "ready" => Complete(loadState.model, held)

\* Not true: two requests that find their model gone both load it, and the first
\* instance is overwritten without being disposed of.
NothingLeaks == \A i \in 1 .. made : i \in Listed \cup disposed \cup InUse
=============================================================================
