----------------------------- MODULE LegacyMemory -----------------------------
(***************************************************************************)
(* The records of the first version of the page memory, which the store    *)
(* keeps for provenance: signatures with the lessons of their failures,    *)
(* and chains of signatures (memory/store-foundation.ts, compose.ts,       *)
(* store-maintenance.ts, purge.ts).                                        *)
(*                                                                         *)
(* A lesson is old once its value is negligible, which its age and its     *)
(* count decide.  The lessons an eviction takes are any, as the values     *)
(* that order them are not modelled.                                       *)
(***************************************************************************)
EXTENDS Naturals, Sequences, FiniteSets, FiniteSetsExt, SequencesExt

CONSTANTS Signatures, ErrorCodes, VectorModels, NoVector,
          CallerChains,       \* the chain ids that a caller chose
          LegacyCourses       \* bounds a behaviour picks one of: error codes, records, chains, other steps, embeddings

VARIABLES signature,          \* signatures: counts, lessons and embedding
          legacy,             \* chains: fingerprint -> row
          capture,            \* the quota was reached: no more is recorded
          vectorModel,        \* model_id in meta, of the last embedding applied
          wanted,             \* the model that the settings select
          once,               \* signatures that were ever confirmed
          revived,            \* chains that a correction led back to
          course, records1, rounds

legacyMemoryVars == <<signature, legacy, capture, vectorModel, wanted, once, revived, course,
                      records1, rounds>>

NoLesson == [count |-> 0, old |-> FALSE, hit |-> "never"]
Unknown == [known |-> FALSE, confirmed |-> 0, failed |-> 0, lessons |-> [e \in ErrorCodes |-> NoLesson], vector |-> NoVector]
Unreplaced == <<"none">>
Chain(steps) == [steps |-> steps, by |-> Unreplaced, vector |-> NoVector, model |-> NoVector]

LegacyMemoryTypeOK ==
  /\ \A s \in Signatures : signature[s].vector \in VectorModels \cup {NoVector}
  /\ \A c \in DOMAIN legacy : legacy[c].steps \in Seq(Signatures)
  /\ capture \in BOOLEAN /\ vectorModel \in VectorModels \cup {NoVector} /\ wanted \in VectorModels
  /\ once \subseteq Signatures /\ revived \subseteq DOMAIN legacy

LegacyMemoryInit ==
  /\ signature = [s \in Signatures |-> Unknown]
  /\ legacy = [c \in {} |-> Chain(<<>>)]
  /\ capture = TRUE /\ vectorModel = NoVector /\ wanted = CHOOSE m \in VectorModels : TRUE
  /\ once = {} /\ revived = {} /\ course \in LegacyCourses /\ records1 = 0 /\ rounds = 0

Known(sigs) == {s \in Signatures : sigs[s].known}
Lessons(row) == {e \in ErrorCodes : row.lessons[e].count > 0}
LessonSum(row) == FoldSet(LAMBDA e, n : n + row.lessons[e].count, 0, ErrorCodes)

-----------------------------------------------------------------------------
(***************************************************************************)
(* Lessons leave by age or for room.  The failures of a confirmed          *)
(* signature are then counted anew; one that was never confirmed goes with *)
(* its last lesson.                                                        *)
(***************************************************************************)
Forget_Confirmed(row, gone) ==
  LET left == [row EXCEPT !.lessons = [e \in ErrorCodes |-> IF e \in gone THEN NoLesson ELSE @[e]]] IN
  IF gone = {} THEN row
  ELSE IF Lessons(left) = {} THEN Unknown
  ELSE IF row.confirmed > 0 THEN [left EXCEPT !.failed = LessonSum(left)]
  ELSE left
Forget(row, gone) ==
  LET left == [row EXCEPT !.lessons = [e \in ErrorCodes |-> IF e \in gone THEN NoLesson ELSE @[e]]] IN
  IF gone = {} THEN row
  ELSE IF row.confirmed > 0 THEN [left EXCEPT !.failed = LessonSum(left)]
  ELSE IF Lessons(left) = {} THEN Unknown
  ELSE left

\* _evictForQuota: nothing, or lessons until the store fits, or until none is left.
EvictForQuota(sigs) ==
  \E gone \in [Signatures -> SUBSET ErrorCodes] :
    /\ \A s \in Signatures : gone[s] \subseteq Lessons(sigs[s])
    /\ signature' = [s \in Signatures |-> Forget(sigs[s], gone[s])]
    /\ capture' \in IF \A s \in Signatures : gone[s] = Lessons(sigs[s]) THEN BOOLEAN ELSE {TRUE}

\* _pruneAged: a lesson is as old as its last use by a search, or else as its last failure.
Old(lesson) == lesson.count > 0 /\ IF lesson.hit = "never" THEN lesson.old ELSE lesson.hit = "old"
PruneAged(sigs) == [s \in Signatures |-> Forget(sigs[s], {e \in ErrorCodes : Old(sigs[s].lessons[e])})]
Prune ==
  /\ rounds < course.rounds /\ rounds' = rounds + 1
  /\ EvictForQuota(PruneAged(signature))
  /\ UNCHANGED <<legacy, vectorModel, wanted, once, revived, course, records1>>

\* The purge period goes by.
AgeLessons ==
  /\ rounds < course.rounds /\ rounds' = rounds + 1
  /\ signature' = [s \in Signatures |-> [signature[s] EXCEPT !.lessons =
        [e \in ErrorCodes |-> [@[e] EXCEPT !.old = signature[s].lessons[e].count > 0,
                                           !.hit = IF @ = "new" THEN "old" ELSE @]]]]
  /\ UNCHANGED <<legacy, capture, vectorModel, wanted, once, revived, course, records1>>
\* touchFailureHits: a search returned what has only failed.
TouchHits(s) ==
  /\ signature[s].known /\ signature[s].confirmed = 0
  /\ \E e \in Lessons(signature[s]) : signature[s].lessons[e].hit # "new"
  /\ signature' = [signature EXCEPT ![s].lessons =
        [e \in ErrorCodes |-> IF @[e].count > 0 THEN [@[e] EXCEPT !.hit = "new"] ELSE @[e]]]
  /\ UNCHANGED <<legacy, capture, vectorModel, wanted, once, revived, course, records1, rounds>>

-----------------------------------------------------------------------------
(***************************************************************************)
(* Recording a signature, and its step in the chain of the caller.         *)
(***************************************************************************)
Success(row) == [row EXCEPT !.known = TRUE, !.confirmed = @ + 1]
Failure(row, e) ==
  [row EXCEPT !.known = TRUE, !.failed = @ + 1,
              !.lessons[e] = [@ EXCEPT !.count = @ + 1, !.old = FALSE]]
NoteChainStep(c, s) ==
  IF c \in DOMAIN legacy /\ s \notin Range(legacy[c].steps)
  THEN [legacy EXCEPT ![c].steps = Append(@, s)] ELSE legacy
RecordSignature(s, c) ==
  /\ records1 < course.records /\ records1' = records1 + 1
  /\ IF ~ capture THEN UNCHANGED <<signature, legacy, capture, once>>
     ELSE /\ \/ /\ EvictForQuota([signature EXCEPT ![s] = Success(@)])
                /\ once' = once \cup {s}
             \/ /\ \E e \in course.errors : EvictForQuota([signature EXCEPT ![s] = Failure(@, e)])
                /\ UNCHANGED once
          /\ legacy' = NoteChainStep(c, s)
  /\ UNCHANGED <<vectorModel, wanted, revived, course, rounds>>

Fits == Cardinality(DOMAIN legacy) < course.chains
Insert(chains, c, row) == IF c \in DOMAIN chains THEN chains ELSE (c :> row) @@ chains
EnsureChain(c) ==
  /\ c \notin DOMAIN legacy /\ Fits /\ capture
  /\ legacy' = Insert(legacy, c, Chain(<<>>))
  /\ UNCHANGED <<signature, capture, vectorModel, wanted, once, revived, course, records1, rounds>>

-----------------------------------------------------------------------------
(***************************************************************************)
(* Embeddings.  A rebuild embeds the signatures that have none; what an    *)
(* earlier model embedded stays as it is.  The vector of a chain is the    *)
(* mean of those of its signatures, whose dimensions must agree.           *)
(***************************************************************************)
StepVectors(sigs, steps) == {sigs[s].vector : s \in Range(steps)} \ {NoVector}
Composed(chains, c, model) ==
  LET vectors == StepVectors(signature, chains[c].steps) IN
  IF vectors = {} THEN chains
  ELSE [chains EXCEPT ![c].vector = CHOOSE v \in vectors : TRUE, ![c].model = model]
Composable(chains, c) == Cardinality(StepVectors(signature, chains[c].steps)) < 2
HeadsOf(chains) == {c \in DOMAIN chains : chains[c].by = Unreplaced}

ApplyVectors(s) ==
  /\ course.embeds /\ signature[s].known /\ signature[s].vector = NoVector
  /\ signature' = [signature EXCEPT ![s].vector = wanted] /\ vectorModel' = wanted
  /\ UNCHANGED <<legacy, capture, wanted, once, revived, course, records1, rounds>>
SelectModel ==
  /\ rounds < course.rounds /\ rounds' = rounds + 1
  /\ \E m \in VectorModels \ {wanted} : wanted' = m
  /\ UNCHANGED <<signature, legacy, capture, vectorModel, once, revived, course, records1>>
\* search with includeLegacy: it composes what heads have no vector yet, or throws.
ComposeAtSearch(c) ==
  /\ c \in HeadsOf(legacy) /\ legacy[c].vector = NoVector
  /\ Composable(legacy, c) /\ StepVectors(signature, legacy[c].steps) # {}
  /\ legacy' = Composed(legacy, c, vectorModel)
  /\ UNCHANGED <<signature, capture, vectorModel, wanted, once, revived, course, records1, rounds>>

-----------------------------------------------------------------------------
(***************************************************************************)
(* Chains grow out of others: composed of confirmed signatures, merged     *)
(* over a shared boundary, corrected in a step.  What they come from is    *)
(* replaced.  A fingerprint is of what a chain was made from.              *)
(***************************************************************************)
Overlaps(base, incoming) ==
  {n \in 1 .. Min({Len(base), Len(incoming)}) :
     SubSeq(base, Len(base) - n + 1, Len(base)) = SubSeq(incoming, 1, n)}
AppendOverlap(base, incoming) ==
  base \o SubSeq(incoming, 1 + (IF Overlaps(base, incoming) = {} THEN 0 ELSE Max(Overlaps(base, incoming))), Len(incoming))
Replaced(chains, old, c) == [k \in DOMAIN chains |-> IF k \in old THEN [chains[k] EXCEPT !.by = c] ELSE chains[k]]
ComposedIfPossible(chains, c) == IF Composable(chains, c) THEN Composed(chains, c, vectorModel) ELSE chains

ComposeChain(steps) ==
  LET c == <<"compose", steps>> IN
  /\ \A s \in Range(steps) : signature[s].confirmed > 0
  /\ c \notin DOMAIN legacy /\ Fits
  /\ legacy' = ComposedIfPossible(Insert(legacy, c, Chain(steps)), c)
  /\ UNCHANGED <<signature, capture, vectorModel, wanted, once, revived, course, records1, rounds>>
MergeChains(base, incoming) ==
  LET steps == AppendOverlap(legacy[base].steps, legacy[incoming].steps)
      c == <<"merge", steps, base, incoming>> IN
  /\ c \in DOMAIN legacy \/ Fits
  /\ legacy' = ComposedIfPossible(Replaced(Insert(legacy, c, Chain(steps)), {base, incoming}, c), c)
  /\ UNCHANGED <<signature, capture, vectorModel, wanted, once, revived, course, records1, rounds>>
CorrectStep(old, at, s) ==
  LET steps == [legacy[old].steps EXCEPT ![at] = s]
      c == <<"correct", steps, at, s>> IN
  /\ legacy[old].steps[at] # s /\ signature[s].confirmed > 0
  /\ c \in DOMAIN legacy \/ Fits
  /\ legacy' = ComposedIfPossible(Replaced(Insert(legacy, c, Chain(steps)), {old}, c), c)
  /\ revived' = IF c \in DOMAIN legacy THEN revived \cup {c} ELSE revived
  /\ UNCHANGED <<signature, capture, vectorModel, wanted, once, course, records1, rounds>>

LegacyMemoryNext ==
  \/ \E s \in Signatures : (\E c \in CallerChains : RecordSignature(s, c)) \/ TouchHits(s) \/ ApplyVectors(s)
  \/ Prune \/ AgeLessons \/ SelectModel
  \/ \E c \in CallerChains : EnsureChain(c)
  \/ \E c \in DOMAIN legacy : ComposeAtSearch(c)
  \/ \E steps \in {<<s>> : s \in Signatures} : ComposeChain(steps)
  \/ \E c \in DOMAIN legacy, d \in DOMAIN legacy : MergeChains(c, d)
  \/ \E c \in DOMAIN legacy, s \in Signatures : \E at \in DOMAIN legacy[c].steps : CorrectStep(c, at, s)

-----------------------------------------------------------------------------
\* What was confirmed once is never purged or evicted, and what was not stays as
\* long as it teaches a lesson.
ConfirmedKept == once \subseteq Known(signature)
UnconfirmedTeach == \A s \in Known(signature) : signature[s].confirmed = 0 => Lessons(signature[s]) # {}

\* The failures that are counted cover the lessons that are kept.
FailuresCoverLessons == \A s \in Signatures : signature[s].failed >= LessonSum(signature[s])

\* The chain that replaced another one exists, and the way leads on to a chain that
\* nothing has replaced, unless a correction led back.
RECURSIVE LeadsToHead(_, _)
LeadsToHead(c, seen) ==
  legacy[c].by = Unreplaced \/ (c \notin seen /\ legacy[c].by \in DOMAIN legacy /\ LeadsToHead(legacy[c].by, seen \cup {c}))
LineageLeadsOn == revived = {} => \A c \in DOMAIN legacy : LeadsToHead(c, {})

LegacyMemorySound == ConfirmedKept /\ UnconfirmedTeach /\ FailuresCoverLessons /\ LineageLeadsOn

\* Not true: failures that are no lesson any more stay counted when the signature
\* was confirmed only later.
CountedAnew == \A s \in Known(signature) : signature[s].confirmed > 0 => signature[s].failed = LessonSum(signature[s])
\* Not true: a correction that is taken back leaves chains that replace each other.
EveryChainHasHead == \A c \in DOMAIN legacy : LeadsToHead(c, {})
\* Not true: signatures of two models in one chain fail each rebuild.
RebuildPossible == \A c \in HeadsOf(legacy) : Composable(legacy, c)
\* Not true: a chain may be labelled with a model that made none of its vectors.
ChainsLabelled == \A c \in DOMAIN legacy : legacy[c].vector = legacy[c].model
\* Not true: a lesson that was repeated lately is pruned by the age of its last hit.
RepeatedAreYoung == \A s \in Signatures : \A e \in Lessons(signature[s]) :
  ~ signature[s].lessons[e].old => ~ Old(signature[s].lessons[e])
=============================================================================
