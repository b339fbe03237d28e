--------------------------- MODULE SemanticRanking ---------------------------
(***************************************************************************)
(* How the native host ranks the units of a page for a query               *)
(* (native-host/src/semantic-ranking.ts), with the settings it ranks by    *)
(* (semantic-settings.ts).  A ranking is an asynchronous call: it reads    *)
(* the settings, ranks by words, and then, unless that is enough, loads a  *)
(* model, embeds the query and the candidates through two caches shared by *)
(* all calls, and in a deep search asks a reranker about the first ones.   *)
(* Several calls interleave at each wait, while another host process may   *)
(* write the settings.                                                     *)
(*                                                                         *)
(* A unit is what the scores depend on: the text that names it, its flags, *)
(* and for each query the words it has and how a model judges it.  Scores  *)
(* are in hundredths.                                                      *)
(***************************************************************************)
EXTENDS Integers, Sequences, FiniteSets, SequencesExt, FiniteSetsExt

CONSTANTS Rankers,          \* concurrent calls
          Pages,            \* page -> sequence of units
          Searches,         \* what may be asked: [page, query, strategy]
          Savers,           \* host processes that write the settings
          Patches,          \* what they write
          SupportedDims, DefaultDims,
          EmbeddingCandidates, RerankCandidates, Batch,
          QueryCapacity, DocumentCapacity,
          MaxModelFaults    \* bound on models that fail

VARIABLES semanticSettings, \* settings.json
          saver,            \* process -> the settings it is about to write, or "none"
          loadedModel,      \* the embedding model is in memory
          queryEmbeddingCache, documentEmbeddingCache,   \* <<key, vector>>, oldest first
          ranker,           \* call -> how far it is and what it knows
          modelFaults,
          saveLost          \* a patch was overwritten by a process that had not read it

rankingVars == <<semanticSettings, saver, loadedModel, queryEmbeddingCache,
                 documentEmbeddingCache, ranker, modelFaults, saveLost>>

-----------------------------------------------------------------------------
(* Settings                                                                *)

(* Undefined dimensions are the default ones (configuredDimensions).       *)
configuredDimensions(s) == IF s.embeddingDims \in SupportedDims THEN s.embeddingDims ELSE DefaultDims

ResultCounts == {1, 3, 5}
normalizeSettings(s) ==
    [enabled |-> s.enabled,
     embeddingDims |-> IF s.embeddingDims \in SupportedDims THEN s.embeddingDims ELSE 0,
     agentResultCount |-> IF s.agentResultCount \in ResultCounts THEN s.agentResultCount ELSE 5]

(* setSemanticSettings: dimensions that are not supported leave those that *)
(* are set; a result count that is not offered becomes the default one.    *)
Merged(current, patch) ==
    LET merge == [f \in DOMAIN current |-> IF f \in DOMAIN patch THEN patch[f] ELSE current[f]]
    IN normalizeSettings(IF merge.embeddingDims \in SupportedDims THEN merge
                         ELSE [merge EXCEPT !.embeddingDims = current.embeddingDims])

NoSave == [patch |-> << >>, next |-> << >>, writing |-> FALSE]

ReadAndMerge(h) ==
    /\ ~ saver[h].writing
    /\ \E patch \in Patches :
           /\ Merged(semanticSettings, patch) # semanticSettings
           /\ saver' = [saver EXCEPT ![h] = [patch |-> patch, writing |-> TRUE,
                                             next |-> Merged(semanticSettings, patch)]]
    /\ UNCHANGED <<semanticSettings, loadedModel, queryEmbeddingCache, documentEmbeddingCache,
                   ranker, modelFaults, saveLost>>

writeJsonAtomic(h) ==
    /\ saver[h].writing
    /\ semanticSettings' = saver[h].next
    /\ saveLost' = (saveLost \/ Merged(semanticSettings, saver[h].patch) # saver[h].next)
    /\ saver' = [saver EXCEPT ![h] = NoSave]
    /\ UNCHANGED <<loadedModel, queryEmbeddingCache, documentEmbeddingCache, ranker, modelFaults>>

-----------------------------------------------------------------------------
(* Scores                                                                  *)

Clamp(n) == Max({0, Min({100, n})})

(* Half of a score is for the words of the query a text has, the rest for  *)
(* the whole phrase and for a word within a word.  Queries have two words. *)
lexicalScore(unit, query) ==
    LET hit == unit.hit[query]
    IN Min({100, (IF hit.phrase THEN 35 ELSE 0) + (IF hit.words > 0 THEN 10 ELSE 0)
                 + (hit.words * 55) \div 2})

unitBoost(unit) ==
    (IF "interactive" \in unit.flags THEN 5 ELSE 0) + (IF "inViewport" \in unit.flags THEN 3 ELSE 0)
    - (IF "disabled" \in unit.flags THEN 15 ELSE 0) - (IF "heading" \in unit.flags THEN 2 ELSE 0)

Lexical(unit, query) == lexicalScore(unit, query) + unitBoost(unit)

(* Positions of units by falling score; equal ones keep their order.       *)
Ranked(positions, Score(_)) ==
    SortSeq(positions, LAMBDA i, j :
        \/ Score(i) > Score(j)
        \/ Score(i) = Score(j) /\ SelectInSeq(positions, LAMBDA p : p = i)
                                  < SelectInSeq(positions, LAMBDA p : p = j))

Positions(units) == [i \in 1..Len(units) |-> i]
baseRanking(units, query) ==
    Ranked(Positions(units), LAMBDA i : Clamp(Lexical(units[i], query)))

(* One text has the phrase, or one has all the words, or the first one is  *)
(* far ahead.                                                              *)
lexicalIsConfident(units, query) ==
    LET ranked == baseRanking(units, query)
        Of(n) == IF Len(ranked) < n THEN 0 ELSE Clamp(Lexical(units[ranked[n]], query))
    IN \/ Cardinality({i \in 1..Len(units) : units[i].hit[query].phrase}) = 1
       \/ Cardinality({i \in 1..Len(units) : units[i].hit[query].words = 2}) = 1
       \/ Of(1) >= 78 /\ Of(1) - Of(2) >= 18

(* The candidates to embed: seven in ten by words, three by structure.     *)
embeddingCandidateIndexes(units, query) ==
    LET limit == EmbeddingCandidates
        byLexical == SubSeq(Ranked(Positions(units), LAMBDA i : Lexical(units[i], query)),
                            1, (limit * 7 + 9) \div 10)
        structure == SelectSeq(Positions(units), LAMBDA i :
                         units[i].flags \cap {"interactive", "inViewport", "heading"} # {})
        byStructure == SubSeq(structure, 1, Min({Len(structure), (limit * 3) \div 10}))
    IN IF Len(units) <= limit THEN 1..Len(units)
       ELSE ToSet(byLexical) \cup ToSet(byStructure)

-----------------------------------------------------------------------------
(* Caches.  A vector is known by the dimensions it was made for and its    *)
(* text; its key is the model's profile and that text.                     *)
Cached(cache, key) == \E i \in 1..Len(cache) : cache[i].key = key
At(cache, key) == CHOOSE e \in ToSet(cache) : e.key = key

lruGet(cache, key) ==
    IF Cached(cache, key)
    THEN Append(SelectSeq(cache, LAMBDA e : e.key # key), At(cache, key)) ELSE cache

lruSet(cache, key, vector, capacity) ==
    LET with == Append(SelectSeq(cache, LAMBDA e : e.key # key), [key |-> key, vector |-> vector])
    IN IF Len(with) > capacity THEN Tail(with) ELSE with

Key_NoProfile(dims, text) == <<text>>
Key(dims, text) == <<dims, text>>
Vector(dims, text) == [dims |-> dims, text |-> text]

(* dot multiplies as many components as both have: vectors of different    *)
(* dimensions give a number that means nothing.                            *)
dot(queryVector, vector, unit, query) ==
    IF /\ queryVector = Vector(queryVector.dims, query)
       /\ vector = Vector(queryVector.dims, unit.text)
    THEN unit.like[query] ELSE 0

-----------------------------------------------------------------------------
(* A call                                                                  *)
NoRanking == [at |-> "idle", page |-> "none", query |-> "none", strategy |-> "none", limit |-> 0,
              dims |-> 0, enabled |-> FALSE, queryVector |-> << >>, vectors |-> << >>, missing |-> << >>,
              order |-> << >>, reranked |-> << >>, result |-> << >>, mode |-> "none",
              degraded |-> "no"]
unitsOf(r) == Pages[ranker[r].page]

(* formatRanking gives the first maxResults of a ranking.                  *)
Answer(call, ranked, mode, degraded) ==
    [NoRanking EXCEPT !.at = "done", !.page = call.page, !.query = call.query,
         !.strategy = call.strategy, !.limit = call.limit, !.enabled = call.enabled,
         !.reranked = call.reranked, !.mode = mode, !.degraded = degraded,
         !.result = SubSeq(ranked, 1, Min({Len(ranked), call.limit}))]

ByWords(call, degraded) ==
    Answer(call, baseRanking(Pages[call.page], call.query), "lexical", degraded)

(* An automatic search does not wait for a model that is not there: it     *)
(* answers by words and has the model prepared.                            *)
rankPageUnits(r) ==
    /\ ranker[r].at = "idle"
    /\ \E search \in Searches :
       LET strategy == search.strategy
           call == [NoRanking EXCEPT !.page = search.page, !.query = search.query,
                        !.strategy = strategy,
                        !.limit = semanticSettings.agentResultCount,
                        !.enabled = semanticSettings.enabled,
                        !.dims = configuredDimensions(semanticSettings)]
           words == \/ strategy = "lexical"
                    \/ /\ strategy = "auto"
                       /\ ~ call.enabled \/ lexicalIsConfident(Pages[search.page], search.query)
       IN ranker' = [ranker EXCEPT ![r] =
              IF words THEN ByWords(call, "no")
              ELSE IF strategy = "semantic" /\ ~ call.enabled THEN ByWords(call, "model-disabled")
              ELSE IF strategy = "auto" /\ ~ loadedModel THEN ByWords(call, "model-preparing")
              ELSE [call EXCEPT !.at = "load"]]
    /\ UNCHANGED <<semanticSettings, saver, loadedModel, queryEmbeddingCache,
                   documentEmbeddingCache, modelFaults, saveLost>>

(* The model that an automatic search asked for comes later, or another    *)
(* search loads it (SemanticModels has how).                               *)
ModelComes ==
    /\ ~ loadedModel
    /\ \E r \in Rankers : ranker[r].at = "load" \/ ranker[r].degraded = "model-preparing"
    /\ loadedModel' = TRUE
    /\ UNCHANGED <<semanticSettings, saver, queryEmbeddingCache, documentEmbeddingCache, ranker,
                   modelFaults, saveLost>>

Load(r) ==
    /\ ranker[r].at = "load" /\ loadedModel
    /\ ranker' = [ranker EXCEPT ![r].at = "query"]
    /\ UNCHANGED <<semanticSettings, saver, loadedModel, queryEmbeddingCache,
                   documentEmbeddingCache, modelFaults, saveLost>>

(* What a call does between the vector of its query and the next wait: it  *)
(* looks every candidate up, and remembers which are missing.              *)
LookUp(call, queryVector, documents) ==
    LET units == Pages[call.page]
        candidates == SetToSortSeq(embeddingCandidateIndexes(units, call.query), <)
        KeyOf(i) == Key(call.dims, units[i].text)
        Known(i) == Cached(documents, KeyOf(i))
    IN [call EXCEPT !.at = "documents", !.queryVector = queryVector,
            !.vectors = [i \in {j \in ToSet(candidates) : Known(j)} |-> At(documents, KeyOf(i)).vector],
            !.missing = SelectSeq(candidates, LAMBDA i : ~ Known(i))]

Touched(call, documents) ==
    FoldLeft(LAMBDA cache, i : lruGet(cache, Key(call.dims, Pages[call.page][i].text)), documents,
             SetToSortSeq(embeddingCandidateIndexes(Pages[call.page], call.query), <))

EmbedQuery(r) ==
    LET call == ranker[r]
        key == Key(call.dims, call.query)
        vector == IF Cached(queryEmbeddingCache, key) THEN At(queryEmbeddingCache, key).vector
                  ELSE Vector(call.dims, call.query)
    IN /\ call.at = "query"
       /\ queryEmbeddingCache' = IF Cached(queryEmbeddingCache, key) THEN lruGet(queryEmbeddingCache, key)
                                 ELSE lruSet(queryEmbeddingCache, key, vector, QueryCapacity)
       /\ ranker' = [ranker EXCEPT ![r] = LookUp(call, vector, documentEmbeddingCache)]
       /\ documentEmbeddingCache' = Touched(call, documentEmbeddingCache)
       /\ UNCHANGED <<semanticSettings, saver, loadedModel, modelFaults, saveLost>>

EmbedDocuments(r) ==
    LET call == ranker[r]
        count == Min({Batch, Len(call.missing)})
        batch == SubSeq(call.missing, 1, count)
        TextOf(i) == unitsOf(r)[i].text
    IN /\ call.at = "documents" /\ call.missing # << >>
       /\ documentEmbeddingCache' =
              FoldLeft(LAMBDA cache, i : lruSet(cache, Key(call.dims, TextOf(i)),
                                                Vector(call.dims, TextOf(i)), DocumentCapacity),
                       documentEmbeddingCache, batch)
       /\ ranker' = [ranker EXCEPT
              ![r].missing = SubSeq(call.missing, count + 1, Len(call.missing)),
              ![r].vectors = [i \in DOMAIN call.vectors \cup ToSet(batch) |->
                                  IF i \in DOMAIN call.vectors THEN call.vectors[i]
                                  ELSE Vector(call.dims, TextOf(i))]]
       /\ UNCHANGED <<semanticSettings, saver, loadedModel, queryEmbeddingCache, modelFaults, saveLost>>

(* Of a unit that was not embedded the words count in full.                *)
Preliminary(call, i) ==
    LET unit == Pages[call.page][i]
        lexical == Clamp(Lexical(unit, call.query))
    IN IF i \in DOMAIN call.vectors
       THEN dot(call.queryVector, call.vectors[i], unit, call.query) * 72 + lexical * 28
       ELSE lexical * 100

Rank(r) ==
    LET call == ranker[r]
        ranked == Ranked(Positions(unitsOf(r)), LAMBDA i : Preliminary(call, i))
    IN /\ call.at = "documents" /\ call.missing = << >>
       /\ ranker' = [ranker EXCEPT ![r] =
              IF call.strategy = "deep" /\ ranked # << >>
              THEN [call EXCEPT !.at = "rerank", !.order = ranked]
              ELSE Answer(call, ranked, "adaptive", "no")]
       /\ UNCHANGED <<semanticSettings, saver, loadedModel, queryEmbeddingCache,
                      documentEmbeddingCache, modelFaults, saveLost>>

(* One candidate after the other is judged; then those that were not are   *)
(* put back by a fixed part of their score.                                *)
Final(call, i) ==
    LET unit == Pages[call.page][i]
    IN IF i \in ToSet(call.reranked)
       THEN (unit.judged[call.query] * 76 + Clamp(Lexical(unit, call.query)) * 6
             + (IF i \in DOMAIN call.vectors
                THEN dot(call.queryVector, call.vectors[i], unit, call.query) * 18 ELSE 0)) * 100
       ELSE Preliminary(call, i) * 82

Rerank(r) ==
    LET call == ranker[r]
        count == Min({RerankCandidates, Len(call.order)})
    IN /\ call.at = "rerank"
       /\ ranker' = [ranker EXCEPT ![r] =
              IF Len(call.reranked) < count
              THEN [call EXCEPT !.reranked = Append(@, call.order[Len(@) + 1])]
              ELSE Answer(call, Ranked(call.order, LAMBDA i : Final(call, i)), "deep", "no")]
       /\ UNCHANGED <<semanticSettings, saver, loadedModel, queryEmbeddingCache,
                      documentEmbeddingCache, modelFaults, saveLost>>

(* A model that fails: before there are scores the words answer, and a     *)
(* reranker that fails leaves the preliminary ranking, whatever it judged. *)
ModelFails(r) ==
    LET call == ranker[r]
    IN /\ call.at \in {"load", "query", "documents", "rerank"} /\ modelFaults < MaxModelFaults
       /\ call.at = "documents" => call.missing # << >>
       /\ modelFaults' = modelFaults + 1
       /\ ranker' = [ranker EXCEPT ![r] =
              IF call.at = "rerank"
              THEN Answer([call EXCEPT !.reranked = << >>], call.order, "deep", "no")
              ELSE ByWords(call, "model-failure")]
       /\ UNCHANGED <<semanticSettings, saver, loadedModel, queryEmbeddingCache,
                      documentEmbeddingCache, saveLost>>

RankingNext ==
    \/ \E h \in Savers : ReadAndMerge(h) \/ writeJsonAtomic(h)
    \/ ModelComes
    \/ \E r \in Rankers : \/ rankPageUnits(r) \/ Load(r) \/ EmbedQuery(r) \/ EmbedDocuments(r)
                          \/ Rank(r) \/ Rerank(r) \/ ModelFails(r)

RankingTypeOK ==
    /\ semanticSettings = normalizeSettings(semanticSettings)
    /\ loadedModel \in BOOLEAN /\ modelFaults \in 0..MaxModelFaults /\ saveLost \in BOOLEAN
    /\ Len(queryEmbeddingCache) <= QueryCapacity /\ Len(documentEmbeddingCache) <= DocumentCapacity

RankingInit ==
    /\ semanticSettings = [enabled |-> TRUE, embeddingDims |-> 0, agentResultCount |-> 3]
    /\ saver = [h \in Savers |-> NoSave]
    /\ loadedModel = FALSE
    /\ queryEmbeddingCache = << >> /\ documentEmbeddingCache = << >>
    /\ ranker = [r \in Rankers |-> NoRanking]
    /\ modelFaults = 0 /\ saveLost = FALSE

-----------------------------------------------------------------------------
(* What a call should answer, without caches, batches or other calls.      *)
Pure(call) ==
    LET units == Pages[call.page]
        embedded == embeddingCandidateIndexes(units, call.query)
        Words(i) == Clamp(Lexical(units[i], call.query))
        Blend(i) == IF i \in embedded THEN units[i].like[call.query] * 72 + Words(i) * 28
                    ELSE Words(i) * 100
        Judged(i) == IF i \in ToSet(call.reranked)
                     THEN (units[i].judged[call.query] * 76 + Words(i) * 6
                           + (IF i \in embedded THEN units[i].like[call.query] ELSE 0) * 18) * 100
                     ELSE Blend(i) * 82
        Value(i) == CASE call.mode = "lexical"  -> Words(i)
                      [] call.mode = "adaptive" -> Blend(i)
                      [] call.mode = "deep"     -> IF call.reranked = << >> THEN Blend(i) ELSE Judged(i)
    IN [i \in 1..Len(units) |-> Value(i)]

(* Whatever ran meanwhile, and whatever the caches held, a finished search *)
(* gives the best units for its own query by the scores of its mode: in    *)
(* falling order, none twice, and none left out that scores more.          *)
RankingIsPure ==
    \A r \in Rankers : ranker[r].at = "done" =>
        LET call == ranker[r]
            value == Pure(call)
            result == call.result
        IN /\ Len(result) = Min({Len(Pages[call.page]), call.limit})
           /\ \A i, j \in 1..Len(result) : i < j => /\ result[i] # result[j]
                                                    /\ value[result[i]] >= value[result[j]]
           /\ \A i \in DOMAIN value \ ToSet(result), j \in ToSet(result) : value[i] <= value[j]

(* An answer by words that was not asked for says so, unless search is off *)
(* or the words decide.                                                    *)
DegradedIsSaid ==
    \A r \in Rankers :
        (ranker[r].at = "done" /\ ranker[r].mode = "lexical" /\ ranker[r].degraded = "no") =>
            \/ ranker[r].strategy = "lexical"
            \/ /\ ranker[r].strategy = "auto"
               /\ ~ ranker[r].enabled \/ lexicalIsConfident(unitsOf(r), ranker[r].query)

RankingSound == RankingIsPure /\ DegradedIsSaid

-----------------------------------------------------------------------------
(* Not true.  A unit that words and model both judge better is not ranked  *)
(* below another: one that was not embedded is judged by its words alone,  *)
(* on the same scale.                                                      *)
BetterIsNotBelow ==
    \A r \in Rankers : ranker[r].at = "done" /\ ranker[r].mode = "adaptive" =>
        LET units == unitsOf(r)
            query == ranker[r].query
            Worse(i, j) == /\ Lexical(units[i], query) < Lexical(units[j], query)
                           /\ units[i].like[query] < units[j].like[query]
            result == ranker[r].result
        IN \A k \in 1..Len(result), j \in 1..Len(units) :
               j \notin ToSet(SubSeq(result, 1, k)) => ~ Worse(result[k], j)

(* Not true.  What one host process saved is not undone by another that    *)
(* saved something else (semantic-settings.ts:141, "Settings are shared    *)
(* across native-host processes").                                         *)
NoSaveLost == ~ saveLost
=============================================================================
