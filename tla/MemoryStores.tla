----------------------------- MODULE MemoryStores -----------------------------
(***************************************************************************)
(* The store of the page memory as its processes share it: the native host *)
(* and the command line each open the database with a copy of its settings *)
(* in memory (memory/store-foundation.ts, store-query.ts,                  *)
(* store-maintenance.ts, profile-stats.ts, cli/memory.ts).                 *)
(*                                                                         *)
(* A database is a file with a number, so that one that was deleted while  *)
(* a process had it open differs from the one that takes its place.  Rows  *)
(* are those of actions; ids are SQLite's: one more than the largest.      *)
(***************************************************************************)
EXTENDS Naturals, Sequences, FiniteSets, FiniteSetsExt

CONSTANTS Host, Commands,  \* processes with a store: the native host, and commands
          StoredActions, MemoryProfiles, NoProfile,
          StoreFiles,      \* numbers of database files, from 1
          MaxStoreRecords, MaxStoreSteps  \* bounds: records, and other changes

VARIABLES database,        \* file -> what it holds
          path,            \* the file at the path of the store, or 0
          handle,          \* process -> its file and its copy of the settings
          searching,       \* process -> the search that awaits its query's embedding
          uninvited,       \* a record was written although capture was off
          overpruned,      \* a prune took what the setting on disk would keep
          reusedId,        \* an id came back that events still name
          fromDeleted,     \* a search answered from a database that was deleted
          storeRecords, storeSteps

memoryStoresVars == <<database, path, handle, searching, uninvited, overpruned, reusedId,
                      fromDeleted, storeRecords, storeSteps>>

Handles == {Host} \cup Commands
Settings == [enabled |-> FALSE, paused |-> FALSE, purge |-> "long", attempts |-> 0]
NoRow == [id |-> 0, confirmed |-> 0, failed |-> 0, profiles |-> {}, aged |-> FALSE]
Fresh == [settings |-> Settings, current |-> TRUE, backups |-> 0, tried |-> 0,
          rows |-> [a \in StoredActions |-> NoRow], events |-> <<>>]
Closed == [file |-> 0, at |-> "closed", settings |-> Settings]
NoSearch == [at |-> "none", found |-> {}]

Stored(content) == {a \in StoredActions : content.rows[a].id > 0}

MemoryStoresTypeOK ==
  /\ path \in StoreFiles \cup {0}
  /\ \A h \in Handles : handle[h].file \in StoreFiles \cup {0} /\ handle[h].at \in {"closed", "migrating", "open", "deleting"}
  /\ \A f \in StoreFiles : \A i \in DOMAIN database[f].events : database[f].events[i].profile \in MemoryProfiles \cup {NoProfile}
  /\ {uninvited, overpruned, reusedId, fromDeleted} \subseteq BOOLEAN

\* A database of an earlier release that was enabled, or none.
MemoryStoresInit ==
  /\ \/ path = 0 /\ database = [f \in StoreFiles |-> Fresh]
     \/ path = 1 /\ database = [f \in StoreFiles |-> IF f = 1 THEN [Fresh EXCEPT !.current = FALSE, !.settings.enabled = TRUE,
                                                                !.settings.purge = "short"] ELSE Fresh]
  /\ handle = [h \in Handles |-> Closed]
  /\ searching = [h \in Handles |-> NoSearch]
  /\ uninvited = FALSE /\ overpruned = FALSE /\ reusedId = FALSE /\ fromDeleted = FALSE
  /\ storeRecords = 0 /\ storeSteps = 0

Now(h) == IF handle[h].file = 0 THEN Fresh ELSE database[handle[h].file]
Step == storeSteps < MaxStoreSteps /\ storeSteps' = storeSteps + 1
NewFile == Min({f \in StoreFiles : database[f] = Fresh /\ \A h \in Handles : handle[h].file # f})

-----------------------------------------------------------------------------
(***************************************************************************)
(* Opening reads the settings; an old schema is then backed up and marked. *)
(***************************************************************************)
OpenStore(h) ==
  /\ handle[h].at = "closed"
  /\ path # 0 \/ \E f \in StoreFiles : database[f] = Fresh /\ \A k \in Handles : handle[k].file # f
  /\ LET f == IF path = 0 THEN NewFile ELSE path IN
     /\ path' = f
     /\ handle' = [handle EXCEPT ![h] = [file |-> f, settings |-> database[f].settings,
                                         at |-> IF database[f].current THEN "open" ELSE "migrating"]]
  /\ UNCHANGED <<database, searching, uninvited, overpruned, reusedId, fromDeleted, storeRecords, storeSteps>>
Migrate(h) ==
  /\ handle[h].at = "migrating"
  /\ database' = [database EXCEPT ![handle[h].file].current = TRUE, ![handle[h].file].backups = @ + 1]
  /\ handle' = [handle EXCEPT ![h].at = "open", ![h].settings = Now(h).settings]
  /\ UNCHANGED <<path, searching, uninvited, overpruned, reusedId, fromDeleted, storeRecords, storeSteps>>
CloseStore(h) ==
  /\ handle[h].at = "open" /\ Step
  /\ handle' = [handle EXCEPT ![h] = Closed]
  /\ searching' = [searching EXCEPT ![h] = NoSearch]
  /\ UNCHANGED <<database, path, uninvited, overpruned, reusedId, fromDeleted, storeRecords>>
\* hardDelete closes, waits, and then removes what is at the path.
HardDelete(h) ==
  /\ handle[h].at = "open" /\ Step
  /\ handle' = [handle EXCEPT ![h] = [Closed EXCEPT !.at = "deleting"]]
  /\ searching' = [searching EXCEPT ![h] = NoSearch]
  /\ UNCHANGED <<database, path, uninvited, overpruned, reusedId, fromDeleted, storeRecords>>
RemoveFiles(h) ==
  /\ handle[h].at = "deleting"
  /\ handle' = [handle EXCEPT ![h] = Closed] /\ path' = 0
  /\ UNCHANGED <<database, searching, uninvited, overpruned, reusedId, fromDeleted, storeRecords, storeSteps>>

-----------------------------------------------------------------------------
(***************************************************************************)
(* Capture.  One transaction reads the settings, and adds or counts the    *)
(* row, its profile and its event; it fails as a whole.                    *)
(***************************************************************************)
CaptureGate_Cached(h) == handle[h].settings
CaptureGate(h) == Now(h).settings
NextRowId(content) == 1 + Max({0} \cup {content.rows[a].id : a \in StoredActions})
Counted(content, a, ok, p) ==
  LET row == content.rows[a]
      id == IF row.id = 0 THEN NextRowId(content) ELSE row.id IN
  [content EXCEPT !.rows[a] = [id |-> id, aged |-> FALSE,
                               confirmed |-> row.confirmed + (IF ok THEN 1 ELSE 0),
                               failed |-> row.failed + (IF ok THEN 0 ELSE 1),
                               profiles |-> row.profiles \cup ({p} \ {NoProfile})],
                  !.events = Append(@, [kind |-> "action", id |-> id, ok |-> ok, profile |-> p])]
RecordAction(h, a, ok, p) ==
  /\ handle[h].at = "open" /\ storeRecords < MaxStoreRecords /\ storeRecords' = storeRecords + 1
  /\ LET gate == CaptureGate(h) IN
     /\ handle' = [handle EXCEPT ![h].settings = gate]
     /\ \/ /\ gate.enabled /\ ~ gate.paused
           /\ database' = [database EXCEPT ![handle[h].file] = Counted(@, a, ok, p)]
           /\ uninvited' = (uninvited \/ ~ Now(h).settings.enabled \/ Now(h).settings.paused)
           /\ reusedId' = (reusedId \/ /\ Now(h).rows[a].id = 0
                                       /\ \E i \in DOMAIN Now(h).events : Now(h).events[i].id = NextRowId(Now(h)))
        \/ UNCHANGED <<database, uninvited, reusedId>>  \* capture is off, or over the quota, or the write fails
  /\ UNCHANGED <<path, searching, overpruned, fromDeleted, storeSteps>>
\* noteEmbeddingAttempt counts on from the copy.
NoteAttempt(h) ==
  /\ handle[h].at = "open" /\ Step
  /\ database' = [database EXCEPT ![handle[h].file].settings.attempts = handle[h].settings.attempts + 1,
                                  ![handle[h].file].tried = @ + 1]
  /\ handle' = [handle EXCEPT ![h].settings.attempts = @ + 1]
  /\ UNCHANGED <<path, searching, uninvited, overpruned, reusedId, fromDeleted, storeRecords>>

-----------------------------------------------------------------------------
(***************************************************************************)
(* Settings and pruning.  The settings that are written are also kept in   *)
(* the copy, even when the transaction that writes them fails.             *)
(***************************************************************************)
Switch(h, with) ==
  /\ handle[h].at = "open" /\ Step
  /\ database' = [database EXCEPT ![handle[h].file].settings = with]
  /\ handle' = [handle EXCEPT ![h].settings = with]
  /\ UNCHANGED <<path, searching, uninvited, overpruned, reusedId, fromDeleted, storeRecords>>
EnableMemory(h) == Switch(h, [Now(h).settings EXCEPT !.enabled = TRUE, !.paused = FALSE])
DisableMemory(h) == Switch(h, [Now(h).settings EXCEPT !.enabled = FALSE, !.paused = FALSE])
PauseMemory(h) == Switch(h, [Now(h).settings EXCEPT !.paused = TRUE])
ResumeMemory(h) == Switch(h, [Now(h).settings EXCEPT !.paused = FALSE])
ConfigureStore(h) ==
  \/ \E period \in {"short", "long"} \ {Now(h).settings.purge} : Switch(h, [Now(h).settings EXCEPT !.purge = period])
  \/ /\ handle[h].at = "open" /\ Step
     /\ \E period \in {"short", "long"} : handle' = [handle EXCEPT ![h].settings = [Now(h).settings EXCEPT !.purge = period]]
     /\ UNCHANGED <<database, path, searching, uninvited, overpruned, reusedId, fromDeleted, storeRecords>>
\* The status and the capture state renew the copy.
ReadStatus(h) ==
  /\ handle[h].at = "open" /\ handle[h].settings # Now(h).settings
  /\ handle' = [handle EXCEPT ![h].settings = Now(h).settings]
  /\ UNCHANGED <<database, path, searching, uninvited, overpruned, reusedId, fromDeleted,
                 storeRecords, storeSteps>>
AgeRows ==
  /\ \E f \in StoreFiles, a \in StoredActions : database[f].rows[a].id > 0 /\ ~ database[f].rows[a].aged
  /\ database' = [f \in StoreFiles |-> [database[f] EXCEPT !.rows =
        [a \in StoredActions |-> [@[a] EXCEPT !.aged = database[f].rows[a].id > 0]]]]
  /\ UNCHANGED <<path, handle, searching, uninvited, overpruned, reusedId, fromDeleted,
                 storeRecords, storeSteps>>
\* _pruneAged of the rows; the attributions go with their row, the events stay.
PrunesRow(row, period) == row.id > 0 /\ row.confirmed = 0 /\ row.aged /\ period = "short"
PruneStore(h) ==
  /\ handle[h].at = "open" /\ Step
  /\ LET gone == {a \in StoredActions : PrunesRow(Now(h).rows[a], handle[h].settings.purge)} IN
     /\ database' = [database EXCEPT ![handle[h].file].rows = [a \in StoredActions |-> IF a \in gone THEN NoRow ELSE @[a]]]
     /\ overpruned' = (overpruned \/ \E a \in gone : ~ PrunesRow(Now(h).rows[a], Now(h).settings.purge))
  /\ UNCHANGED <<path, handle, searching, uninvited, reusedId, fromDeleted, storeRecords>>

-----------------------------------------------------------------------------
(***************************************************************************)
(* A search notes itself, reads the rows, and awaits the embedding of its  *)
(* query.                                                                  *)
(***************************************************************************)
SearchEvent(p) == [kind |-> "search", id |-> 0, ok |-> TRUE, profile |-> p]
SearchStore(h, p) ==
  /\ handle[h].at = "open" /\ Step /\ searching[h].at = "none"
  /\ database' = [database EXCEPT ![handle[h].file].events = Append(@, SearchEvent(p))]
  /\ handle' = [handle EXCEPT ![h].settings = Now(h).settings]
  /\ searching' = [searching EXCEPT ![h] = [at |-> "embedding", found |-> Stored(Now(h))]]
  /\ UNCHANGED <<path, uninvited, overpruned, reusedId, fromDeleted, storeRecords>>
SearchReturns(h) ==
  /\ searching[h].at = "embedding"
  /\ searching' = [searching EXCEPT ![h] = NoSearch]
  /\ fromDeleted' = (fromDeleted \/ (searching[h].found # {} /\ handle[h].file # path))
  /\ UNCHANGED <<database, path, handle, uninvited, overpruned, reusedId, storeRecords, storeSteps>>

\* Either changes the settings, prunes and searches.
EitherCalls(h) ==
  \/ OpenStore(h) \/ Migrate(h) \/ CloseStore(h)
  \/ EnableMemory(h) \/ DisableMemory(h) \/ PauseMemory(h) \/ ResumeMemory(h)
  \/ ConfigureStore(h) \/ PruneStore(h) \/ ReadStatus(h) \/ NoteAttempt(h) \/ SearchReturns(h)
\* The host records; only a command deletes the store, and its searches have no profile.
HostCalls ==
  \/ EitherCalls(Host)
  \/ \E a \in StoredActions, ok \in BOOLEAN, p \in MemoryProfiles \cup {NoProfile} : RecordAction(Host, a, ok, p)
  \/ \E p \in MemoryProfiles \cup {NoProfile} : SearchStore(Host, p)
RunCommand(h) == EitherCalls(h) \/ HardDelete(h) \/ RemoveFiles(h) \/ SearchStore(h, NoProfile)

MemoryStoresNext == HostCalls \/ (\E h \in Commands : RunCommand(h)) \/ AgeRows

-----------------------------------------------------------------------------
(***************************************************************************)
(* The statistics, of all or of a scope: the profiles that are chosen, and *)
(* perhaps what belongs to none.                                           *)
(***************************************************************************)
InScope(profiles, scope, unknown) == profiles \cap scope # {} \/ (unknown /\ profiles = {})
EventsIn(content, scope, unknown) ==
  {i \in DOMAIN content.events : InScope({content.events[i].profile} \ {NoProfile}, scope, unknown)}
ExecutionsIn(content, scope, unknown) == {i \in EventsIn(content, scope, unknown) : content.events[i].kind = "action"}
ActionsIn(content, scope, unknown) == {a \in Stored(content) : InScope(content.rows[a].profiles, scope, unknown)}
\* negativeActions, by the events; without a scope the rows are asked.
NegativeIn(content, scope, unknown) ==
  {a \in Stored(content) : \E i \in ExecutionsIn(content, scope, unknown) :
     content.events[i].id = content.rows[a].id /\ ~ content.events[i].ok}
NegativeActions(content) == {a \in Stored(content) : content.rows[a].failed > 0}

-----------------------------------------------------------------------------
\* Nothing is recorded while capture is off, whichever process switched it off.
CaptureObeys == ~ uninvited

\* What the rows count was recorded as an event: they never count more.
RowsCountEvents ==
  \A f \in StoreFiles :
    FoldSet(LAMBDA a, n : n + database[f].rows[a].confirmed + database[f].rows[a].failed, 0, StoredActions)
      <= Cardinality(ExecutionsIn(database[f], MemoryProfiles, TRUE))

\* The statistics of a profile agree with each other: it has an action only if it has
\* an execution of it, and with all profiles and the rest in the scope the negative
\* actions are those that are counted without one, unless an id came back.
ScopesAgree ==
  \A f \in StoreFiles :
    /\ \A a \in StoredActions, p \in MemoryProfiles :
         a \in ActionsIn(database[f], {p}, FALSE) =>
           \E i \in ExecutionsIn(database[f], {p}, FALSE) : database[f].events[i].id = database[f].rows[a].id
    /\ ~ reusedId => NegativeIn(database[f], MemoryProfiles, TRUE) = NegativeActions(database[f])

\* Only a database of the current schema is used.
UsedIsCurrent == \A h \in Handles : handle[h].at = "open" => Now(h).current

MemoryStoresSound == CaptureObeys /\ RowsCountEvents /\ ScopesAgree /\ UsedIsCurrent

\* Not true: an action that never failed is negative once it has the id of one that did.
NegativesAgree == \A f \in StoreFiles : NegativeIn(database[f], MemoryProfiles, TRUE) = NegativeActions(database[f])
\* Not true: two processes that open an old database both back it up.
BackedUpOnce == \A f \in StoreFiles : database[f].backups <= 1
\* Not true: a prune obeys the setting on disk.
PrunesAsSet == ~ overpruned
\* Not true: attempts that two processes note are both counted.
AttemptsCounted == \A f \in StoreFiles : database[f].settings.attempts = database[f].tried
\* Not true: a store that was deleted answers no more.
DeletedIsSilent == ~ fromDeleted
=============================================================================
