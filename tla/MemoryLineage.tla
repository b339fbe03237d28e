--------------------------- MODULE MemoryLineage ---------------------------
(***************************************************************************)
(* The recipes of the page memory (native-host/src/memory/store-*.ts) and  *)
(* the runs that record and recall them (core/runtime-memory.ts).          *)
(*                                                                         *)
(* A run records its steps in a row of its own, which becomes a recipe     *)
(* when the run ends.  A recipe that is confirmed under another row's      *)
(* fingerprint is folded into it, one that corrects a recalled recipe      *)
(* replaces it, and two heads that overlap are spliced into a longer one.  *)
(*                                                                         *)
(* All steps are on one host, and every step that was tried is recorded.   *)
(* A step is what identifies it: its label and the role, which a request   *)
(* may leave open ("any").  Row ids are those of SQLite: one more than the *)
(* largest in use, so an id comes back when its row was deleted.  Counters *)
(* are kept as "above zero".                                               *)
(***************************************************************************)
EXTENDS Naturals, Sequences, FiniteSets

CONSTANTS Requests,   \* the step lists agents submit
          Agents,     \* runs are sequential within an agent
          MaxSteps,   \* MAX_CHAIN_STEPS
          MaxRecords  \* how many runs are recorded (a bound)

VARIABLES chains,     \* memory_chains_v2: id -> row
          recording,  \* agent -> the run under way
          records,    \* runs recorded so far
          returned    \* corrections that ended on a recipe already replaced

lineageVars == <<chains, recording, records, returned>>

NotRunning == [request |-> <<>>, steps |-> <<>>, at |-> 1, row |-> 0, over |-> 0, replay |-> FALSE]
Row(recipe) == [recipe |-> recipe, listed |-> FALSE, confirmed |-> FALSE, failed |-> FALSE, by |-> 0, over |-> 0]
NextId(store) == IF DOMAIN store = {} THEN 1 ELSE 1 + CHOOSE n \in DOMAIN store : \A id \in DOMAIN store : id <= n
Put(store, id, row) == [k \in DOMAIN store \cup {id} |-> IF k = id THEN row ELSE store[k]]
Without(store, ids) == [k \in DOMAIN store \ ids |-> store[k]]
Heads(store) == {id \in DOMAIN store : store[id].by = 0}
WithFingerprint(store, recipe) == {id \in DOMAIN store : store[id].listed /\ store[id].recipe = recipe}

LineageInit == /\ chains = [id \in {} |-> Row(<<>>)]
               /\ recording = [a \in Agents |-> NotRunning]
               /\ records = 0 /\ returned = {}

-----------------------------------------------------------------------------
\* Recall: the live recipe with the request's fingerprint that never failed,
\* or else one that resembles it.
Compatible(remembered, source) ==
    /\ remembered.label = source.label
    /\ remembered.role = "any" \/ source.role = "any" \/ remembered.role = source.role
Resembles(recipe, request) ==
    Len(recipe) = Len(request) /\ \A i \in DOMAIN request : Compatible(recipe[i], request[i])

Recallable == {id \in Heads(chains) : chains[id].listed /\ ~chains[id].failed}
Exact(request) == {id \in Recallable : chains[id].recipe = request}
Alike(request) == {id \in Recallable : Resembles(chains[id].recipe, request)}
Bound(recipe, request) ==
    [i \in DOMAIN request |-> IF recipe[i].role = "any" THEN request[i] ELSE recipe[i]]

Begin(a, request, steps, over, replay) ==
    recording' = [recording EXCEPT ![a] = [NotRunning EXCEPT !.request = request, !.steps = steps,
                                                             !.over = over, !.replay = replay]]

StartRun(a, request) ==
    /\ recording[a] = NotRunning /\ records < MaxRecords
    /\ records' = records + 1
    /\ \/ /\ Exact(request) = {}
          /\ Begin(a, request, request, 0, FALSE)
       \/ \E id \in IF Exact(request) # {} THEN Exact(request) ELSE Alike(request) :
             Begin(a, request, Bound(chains[id].recipe, request), id, TRUE)
    /\ UNCHANGED <<chains, returned>>

\* One step was tried, and recorded in the run's own row.
RecordStep(a) ==
    LET r == recording[a]
        row == IF r.row = 0 THEN NextId(chains) ELSE r.row
        recipe == IF r.row = 0 THEN <<>> ELSE chains[row].recipe
    IN /\ r.at <= Len(r.steps)
       /\ chains' = Put(chains, row, [(IF r.row = 0 THEN Row(<<>>) ELSE chains[row]) EXCEPT
                                         !.recipe = Append(recipe, r.steps[r.at])])
       /\ recording' = [recording EXCEPT ![a].at = @ + 1, ![a].row = row]
       /\ UNCHANGED <<records, returned>>

-----------------------------------------------------------------------------
\* _finalizeChain, one transaction: fold or keep the row, let it replace the
\* recipe it corrects, and splice it with the first head it overlaps.
Count(row, ok) == [row EXCEPT !.confirmed = @ \/ ok, !.failed = @ \/ ~ok]

Folded(store, row, ok) ==
    LET existing == WithFingerprint(store, store[row].recipe) \ {row} IN
    IF existing = {} THEN [store EXCEPT ![row] = Count([@ EXCEPT !.listed = TRUE], ok)]
    ELSE Without([store EXCEPT ![CHOOSE id \in existing : TRUE] = Count(@, ok)], {row})

Replaced(store, over, id) ==
    IF over \in {0, id} THEN store
    ELSE [k \in DOMAIN store |->
            [store[k] EXCEPT !.by = IF k = over /\ @ = 0 THEN id ELSE @,
                             !.over = IF k = id /\ @ = 0 THEN over ELSE @]]

Overlap(f, s, n) == \A i \in 1..n : f[Len(f) - n + i] = s[i]
Sizes(f, s) == {n \in 2..Len(f) : n <= Len(s) /\ (Overlap(f, s, n) \/ Overlap(s, f, n))}
MergeOverlap(f, s) ==
    LET n == CHOOSE m \in Sizes(f, s) : \A k \in Sizes(f, s) : k <= m
        Splice(u, v) == u \o SubSeq(v, n + 1, Len(v)) IN
    IF Sizes(f, s) = {} THEN <<>> ELSE IF Overlap(f, s, n) THEN Splice(f, s) ELSE Splice(s, f)

Taken(store, recipe) == \E id \in WithFingerprint(store, recipe) : store[id].by # 0
Merge(store, candidate, id) == MergeOverlap(store[candidate].recipe, store[id].recipe)
Mergeable(store, id) ==
    {c \in Heads(store) \ {id} :
        /\ Len(Merge(store, c, id)) \in (Len(store[c].recipe) + 1)..MaxSteps
        /\ Len(Merge(store, c, id)) > Len(store[id].recipe)
        /\ ~Taken(store, Merge(store, c, id))}

MergedHead(store, id) ==
    IF id \notin Heads(store) \/ Mergeable(store, id) = {} THEN store
    ELSE LET c == CHOOSE n \in Mergeable(store, id) : \A m \in Mergeable(store, id) : n <= m
             recipe == Merge(store, c, id)
             known == WithFingerprint(store, recipe)
             m == IF known = {} THEN NextId(store) ELSE CHOOSE k \in known : TRUE
             with == IF known # {} THEN store
                     ELSE Put(store, m, [Row(recipe) EXCEPT !.listed = TRUE, !.confirmed = TRUE])
         IN [k \in DOMAIN with |->
                [with[k] EXCEPT !.by = IF k \in {c, id} THEN m ELSE @,
                                !.over = IF k = m /\ @ = 0 THEN id ELSE @]]

FinalizeChain(row, ok, over) ==
    LET folded == Folded(chains, row, ok)
        id == CHOOSE k \in WithFingerprint(folded, chains[row].recipe) : TRUE
    IN IF ok THEN /\ chains' = MergedHead(Replaced(folded, over, id), id)
                  /\ returned' = IF over \notin {0, id} /\ folded[id].by # 0
                                 THEN returned \cup {id} ELSE returned
       ELSE chains' = folded /\ UNCHANGED returned

\* The run ends; the call that finalises its row may be lost.  A replay that
\* failed before it could change anything is followed by the run as it was
\* requested, which corrects what was recalled.
EndRun(a, ok) ==
    LET r == recording[a] IN
    /\ r # NotRunning /\ r.at > (IF ok THEN Len(r.steps) ELSE 1)
    /\ \/ FinalizeChain(r.row, ok, IF ok THEN r.over ELSE 0)
       \/ UNCHANGED <<chains, returned>>
    /\ IF r.replay /\ ~ok THEN \/ Begin(a, r.request, r.request, r.over, FALSE)
                               \/ recording' = [recording EXCEPT ![a] = NotRunning]
       ELSE recording' = [recording EXCEPT ![a] = NotRunning]
    /\ UNCHANGED records

\* Old rows that were never confirmed are deleted.
Aged_Failed(id) == (~chains[id].confirmed \/ chains[id].failed) /\ id \notin {recording[a].row : a \in Agents}
Aged(id) == ~chains[id].confirmed /\ id \notin {recording[a].row : a \in Agents}
PruneAged ==
    /\ \E old \in SUBSET {id \in DOMAIN chains : Aged(id)} : old # {} /\ chains' = Without(chains, old)
    /\ UNCHANGED <<recording, records, returned>>

LineageNext ==
    \/ \E a \in Agents : \/ \E request \in Requests : StartRun(a, request)
                         \/ RecordStep(a)
                         \/ \E ok \in BOOLEAN : EndRun(a, ok)
    \/ PruneAged

-----------------------------------------------------------------------------
LineageTypeOK ==
    /\ \A id \in DOMAIN chains : /\ id \in Nat \ {0} /\ chains[id].recipe # <<>>
                                 /\ chains[id].by \in Nat /\ chains[id].over \in Nat
    /\ DOMAIN recording = Agents /\ records \in 0..MaxRecords
    /\ \A a \in Agents : recording[a].row \in DOMAIN chains \cup {0}

\* What replaced_by and supersedes name is there, and was confirmed: neither
\* the pruning of unconfirmed rows nor the reuse of their ids breaks a lineage.
LineageKept ==
    \A id \in DOMAIN chains :
        \A other \in {chains[id].by, chains[id].over} \ {0} :
            other \in DOMAIN chains \ {id} /\ chains[other].confirmed /\ chains[other].listed

RECURSIVE Later(_, _)
Later(id, seen) == IF id = 0 \/ id \in seen \/ id \notin DOMAIN chains THEN seen
                   ELSE Later(chains[id].by, seen \cup {id})
Successors(id) == Later(id, {})

\* Every recipe is a head or was replaced, in the end, by one that is.
EveryRecipeHasHead == \A id \in DOMAIN chains : Successors(id) \cap Heads(chains) # {}

\* The only way to lose all of a lineage is to correct a recipe with one that
\* was itself replaced before.
LostOnlyByReturn ==
    \A id \in DOMAIN chains :
        \/ Successors(id) \cap Heads(chains) # {}
        \/ Successors(id) \cap returned # {}
=============================================================================
