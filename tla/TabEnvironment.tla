--------------------------- MODULE TabEnvironment ---------------------------
(***************************************************************************)
(* The emulation a session configures on a tab, and its reset.  The        *)
(* process keeps a record of the overrides it may have applied, so that a  *)
(* reset, by the agent or by the finalization of the session, removes      *)
(* them all even after lost answers; the session keeps the tabs it         *)
(* configured and the environment it reports.  Calls of one session may    *)
(* overlap.  The fields stand for those that need the network domain,      *)
(* which is enabled, with a wait, before the first of them is applied, and *)
(* for preload scripts: one is known by an identifier that the browser     *)
(* answers with, and without it cannot be removed.                         *)
(***************************************************************************)
EXTENDS Integers, Sequences, FiniteSetsExt

CONSTANTS EnvCalls,    \* calls of browser_configure
          Fields,
          Preloads,    \* those of them that are scripts, each of one call
          FieldsOf,    \* the fields a call configures, in order; none for a reset
          MaxFailures

ASSUME EnvAssumption == IsFiniteSet(EnvCalls) /\ FieldsOf \in [EnvCalls -> Seq(Fields)] /\ Preloads \subseteq Fields

VARIABLES envCall,      \* each call: its step, its record, what it has done and failed at
          tabRecord,      \* the record of the tab, 0 for none
          fields,       \* the fields noted in each record made
          unanswered,   \* the scripts among them that have no identifier (pendingPreloads)
          overrides,    \* the fields overridden in the browser
          configured,   \* the session lists the tab for its cleanup
          environment,  \* the fields the session reports as configured
          overlapped,   \* a configuration and a reset have been under way together
          failures

envVars == <<envCall, tabRecord, fields, unanswered, overrides, configured, environment, overlapped, failures>>

Records == 1 .. Cardinality(EnvCalls)
EnvRunning == {"look", "next", "send", "wait", "failing"}

EnvTypeOK ==
  /\ envCall \in [EnvCalls -> [at: EnvRunning \cup {"idle", "over", "failed"}, record: {0} \cup Records,
                               field: Fields \cup {"none"}, done: Nat, missed: SUBSET Fields]]
  /\ tabRecord \in {0} \cup Records
  /\ fields \in [Records -> SUBSET Fields] /\ unanswered \in [Records -> SUBSET Preloads]
  /\ overrides \subseteq Fields /\ environment \subseteq Fields
  /\ configured \in BOOLEAN /\ overlapped \in BOOLEAN
  /\ failures \in 0 .. MaxFailures

EnvInit ==
  /\ envCall = [c \in EnvCalls |-> [at |-> "idle", record |-> 0, field |-> "none", done |-> 0, missed |-> {}]]
  /\ tabRecord = 0 /\ fields = [r \in Records |-> {}] /\ unanswered = [r \in Records |-> {}]
  /\ overrides = {} /\ environment = {}
  /\ configured = FALSE /\ overlapped = FALSE
  /\ failures = 0

IsReset(c) == FieldsOf[c] = <<>>
WantedFields(c) == {FieldsOf[c][i] : i \in 1 .. Len(FieldsOf[c])}
Under(c) == envCall[c].at \in EnvRunning
ToStep(c, step) == envCall' = [envCall EXCEPT ![c].at = step]
Ended(c, step) == envCall' = [envCall EXCEPT ![c] = [at |-> step, record |-> 0, field |-> "none", done |-> 0, missed |-> {}]]

\* A configuration lists the tab before anything is sent.
StartConfigure(c) ==
  /\ envCall[c].at = "idle"
  /\ ToStep(c, "look")
  /\ configured' = (configured \/ ~ IsReset(c))
  /\ overlapped' = (overlapped \/ \E d \in EnvCalls : Under(d) /\ IsReset(d) # IsReset(c))
  /\ UNCHANGED <<tabRecord, fields, unanswered, overrides, environment, failures>>

\* The session learns the outcome: a reset unlists the tab, a configuration is reported.
ReportDone(c) ==
  /\ Ended(c, "over")
  /\ configured' = (configured /\ ~ IsReset(c))
  /\ environment' = IF IsReset(c) THEN {} ELSE environment \cup WantedFields(c)

\* The record of the tab is looked up; without one there is nothing to reset.
LookUp(c) ==
  /\ envCall[c].at = "look"
  /\ IF IsReset(c) /\ tabRecord = 0
     THEN ReportDone(c) /\ UNCHANGED <<tabRecord, fields, unanswered>>
     ELSE LET record == IF tabRecord # 0 THEN tabRecord
                        ELSE Min({r \in Records : \A d \in EnvCalls : envCall[d].record # r})
          IN /\ envCall' = [envCall EXCEPT ![c].at = "next", ![c].record = record]
             /\ tabRecord' = record
             /\ fields' = IF tabRecord = 0 THEN [fields EXCEPT ![record] = {}] ELSE fields
             /\ unanswered' = IF tabRecord = 0 THEN [unanswered EXCEPT ![record] = {}] ELSE unanswered
             /\ UNCHANGED <<configured, environment>>
  /\ UNCHANGED <<overrides, overlapped, failures>>

\* A field is noted in the record before its command is sent.
ApplyField_NotedLate(c) ==
  LET call == envCall[c] IN
  /\ call.at = "next" /\ ~ IsReset(c) /\ call.done < Len(FieldsOf[c])
  /\ envCall' = [envCall EXCEPT ![c].at = "send", ![c].field = FieldsOf[c][call.done + 1], ![c].done = @ + 1]
  /\ fields' = [fields EXCEPT ![call.record] =
       IF call.done > 0 THEN @ \cup {FieldsOf[c][call.done]} ELSE @]
  /\ UNCHANGED <<tabRecord, unanswered, overrides, configured, environment, overlapped, failures>>
ApplyField(c) ==
  LET call == envCall[c]
      field == FieldsOf[c][call.done + 1]
  IN /\ call.at = "next" /\ ~ IsReset(c) /\ call.done < Len(FieldsOf[c])
     /\ envCall' = [envCall EXCEPT ![c].at = "send", ![c].field = field, ![c].done = @ + 1]
     /\ fields' = [fields EXCEPT ![call.record] = @ \cup {field}]
     /\ unanswered' = [unanswered EXCEPT ![call.record] = @ \cup ({field} \cap Preloads)]
     /\ UNCHANGED <<tabRecord, overrides, configured, environment, overlapped, failures>>

\* A reset takes the fields of its record one by one, those added meanwhile as well, but
\* not a script without an identifier.
ResetField(c, field) ==
  LET call == envCall[c] IN
  /\ call.at = "next" /\ IsReset(c) /\ field \in fields[call.record] \ (call.missed \cup unanswered[call.record])
  /\ envCall' = [envCall EXCEPT ![c].at = "send", ![c].field = field]
  /\ UNCHANGED <<tabRecord, fields, unanswered, overrides, configured, environment, overlapped, failures>>

\* The browser performs the command.
Override(c) ==
  /\ envCall[c].at = "send" /\ ToStep(c, "wait")
  /\ overrides' = IF IsReset(c) THEN overrides \ {envCall[c].field} ELSE overrides \cup {envCall[c].field}
  /\ UNCHANGED <<tabRecord, fields, unanswered, configured, environment, overlapped, failures>>

\* Its answer arrives: a field that was reset leaves the record, a script gets its identifier.
Acknowledge(c) ==
  LET call == envCall[c] IN
  /\ call.at = "wait" /\ ToStep(c, "next")
  /\ fields' = IF IsReset(c) THEN [fields EXCEPT ![call.record] = @ \ {call.field}] ELSE fields
  /\ unanswered' = IF IsReset(c) THEN unanswered ELSE [unanswered EXCEPT ![call.record] = @ \ {call.field}]
  /\ UNCHANGED <<tabRecord, overrides, configured, environment, overlapped, failures>>

\* The command fails, before or after it was performed: a configuration ends there, a
\* reset goes on with the other fields.
FailCommand(c) ==
  LET call == envCall[c] IN
  /\ call.at \in {"send", "wait"} /\ failures < MaxFailures
  /\ failures' = failures + 1
  /\ IF IsReset(c)
     THEN envCall' = [envCall EXCEPT ![c].at = "next", ![c].missed = @ \cup {call.field}]
     ELSE Ended(c, "failed")
  /\ UNCHANGED <<tabRecord, fields, unanswered, overrides, configured, environment, overlapped>>

FinishConfigure(c) ==
  /\ envCall[c].at = "next" /\ ~ IsReset(c) /\ envCall[c].done = Len(FieldsOf[c])
  /\ ReportDone(c)
  /\ UNCHANGED <<tabRecord, fields, unanswered, overrides, overlapped, failures>>

\* An empty record is dropped; a reset that missed a field, or met a script without an
\* identifier, fails and keeps the tab listed.
FinishReset(c) ==
  LET call == envCall[c] IN
  /\ call.at = "next" /\ IsReset(c)
  /\ fields[call.record] \subseteq call.missed \cup unanswered[call.record]
  /\ tabRecord' = IF fields[call.record] = {} THEN 0 ELSE tabRecord
  /\ IF call.missed = {} /\ unanswered[call.record] = {} THEN ReportDone(c)
     ELSE Ended(c, "failed") /\ UNCHANGED <<configured, environment>>
  /\ UNCHANGED <<fields, unanswered, overrides, overlapped, failures>>

\* The browser drops the overrides of a debugger that is detached.
DropOverrides ==
  /\ overrides # {} /\ failures < MaxFailures
  /\ failures' = failures + 1 /\ overrides' = {}
  /\ UNCHANGED <<envCall, tabRecord, fields, unanswered, configured, environment, overlapped>>

EnvNext ==
  \/ \E c \in EnvCalls : \/ StartConfigure(c) \/ LookUp(c) \/ ApplyField(c)
                         \/ (\E field \in Fields : ResetField(c, field))
                         \/ Override(c) \/ Acknowledge(c) \/ FailCommand(c)
                         \/ FinishConfigure(c) \/ FinishReset(c)
  \/ DropOverrides

EnvSpec == EnvInit /\ [][EnvNext]_envVars

(***************************************************************************)
(* Properties                                                              *)
(***************************************************************************)

\* Every override and script in the browser is in the record of the tab and the tab is
\* listed, so a reset or the finalization will remove it or fail, whatever failed or got
\* lost before; unless a configuration and a reset overlapped.
OverridesTracked ==
  overrides = {} \/ overlapped \/ (configured /\ tabRecord # 0 /\ overrides \subseteq fields[tabRecord])

\* Not true: an overlapping reset drops the record a configuration is about to note
\* its fields in, or unlists the tab after a later configuration.
AlwaysTracked ==
  overrides = {} \/ (configured /\ tabRecord # 0 /\ overrides \subseteq fields[tabRecord])

\* Not true: the session goes on reporting an environment that went with the debugger.
ReportedIsApplied == environment \subseteq overrides \/ \E c \in EnvCalls : Under(c)
=============================================================================
