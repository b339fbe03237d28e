----------------------------- MODULE PageLoads -----------------------------
(***************************************************************************)
(* The operations that take a tab to another page and answer when it is    *)
(* ready: browser_navigate with an address or a data URL                   *)
(* (operation-groups/session.ts), browser_back and browser_forward         *)
(* (operations/index.ts).  Chromium answers Page.navigate when the         *)
(* navigation has committed or failed, and navigateToHistoryEntry when it  *)
(* has begun; Firefox traverses its history by a distance.  The page may   *)
(* navigate by itself, and the newest navigation replaces one under way.   *)
(***************************************************************************)
EXTENDS Integers, Sequences, FiniteSets

CONSTANTS LoadCalls,
          LoadKind,       \* call -> "navigate", "data", "back" or "forward"
          WaitUntil,      \* call -> "none", "domcontentloaded" or "load"
          LoadPlans,      \* calls that may overlap, and whether the tab is of Firefox
          NoPending,
          MaxTurns,       \* bound on navigations of the page itself and failures
          MaxPolls        \* bound on the times readyState is asked for

VARIABLES shown,       \* the document of the tab: its number, entry and readyState
          entries,     \* the history: its entries, and which of them is current
          pending,     \* the navigation under way: whose, and to which entry
          outcome,     \* call -> how its navigation ended: the document, or none
          loadCall,    \* call -> its step and what it knows
          gecko,       \* the tab is of Firefox
          turns        \* turns of the page that are left

pageLoadsVars == <<shown, entries, pending, outcome, loadCall, gecko, turns>>

Ends == {"idle", "never", "ready", "failed", "timeout", "no entry"}
NoNavigation == [by |-> NoPending, entry |-> 0]

NoCall == [at |-> "idle", entry |-> 0, polls |-> 0, readIn |-> 0, setIn |-> 0, beside |-> {}]
Delta(c) == IF LoadKind[c] = "back" THEN -1 ELSE 1

IndexOf(entry) == CHOOSE i \in DOMAIN entries.list : entries.list[i] = entry
Has(entry) == \E i \in DOMAIN entries.list : entries.list[i] = entry
Beside(c) == LET i == entries.at + Delta(c) IN IF i \in DOMAIN entries.list THEN {entries.list[i]} ELSE {}

-----------------------------------------------------------------------------
(* The browser                                                             *)

\* A navigation begins, to an entry or, with entry 0, to a new one.
Begin(by, entry) ==
    /\ pending' = [by |-> by, entry |-> entry]
    /\ outcome' = IF pending.by \in LoadCalls THEN [outcome EXCEPT ![pending.by].how = "aborted"] ELSE outcome

\* What is beside the current entry, noted for the calls under way.
Note(calls) ==
    [c \in LoadCalls |-> IF calls[c].at \in Ends THEN calls[c] ELSE [calls[c] EXCEPT !.beside = @ \cup Beside(c)']]

Commit ==
    /\ pending.by # NoPending
    /\ LET new == shown.last + 1
           made == IF Has(pending.entry) THEN entries.made ELSE entries.made + 1
           list == IF Has(pending.entry) THEN entries.list ELSE Append(SubSeq(entries.list, 1, entries.at), made)
           at == IF Has(pending.entry) THEN IndexOf(pending.entry) ELSE Len(list)
       IN /\ entries' = [list |-> list, at |-> at, made |-> made]
          /\ shown' = [last |-> new, entry |-> list[at], ready |-> "loading"]
          /\ outcome' = IF pending.by \in LoadCalls
                        THEN [outcome EXCEPT ![pending.by] = [how |-> "committed", doc |-> new]] ELSE outcome
    /\ pending' = NoNavigation
    /\ loadCall' = Note(loadCall)
    /\ UNCHANGED <<gecko, turns>>

\* It becomes a download, or is refused: the document stays.
Fail ==
    /\ pending.by # NoPending /\ turns > 0 /\ turns' = turns - 1
    /\ pending' = NoNavigation
    /\ outcome' = IF pending.by \in LoadCalls THEN [outcome EXCEPT ![pending.by].how = "failed"] ELSE outcome
    /\ UNCHANGED <<shown, entries, loadCall, gecko>>

Progress ==
    /\ shown.ready # "complete"
    /\ shown' = [shown EXCEPT !.ready = IF @ = "loading" THEN "interactive" ELSE "complete"]
    /\ UNCHANGED <<entries, pending, outcome, loadCall, gecko, turns>>

PageNavigates ==
    /\ turns > 0 /\ turns' = turns - 1
    /\ \E c \in LoadCalls : loadCall[c].at \notin Ends
    /\ Begin("page", 0)
    /\ UNCHANGED <<shown, entries, loadCall, gecko>>

-----------------------------------------------------------------------------
(* The operations                                                          *)
Set(c, call) == loadCall' = [loadCall EXCEPT ![c] = call]
End(c, how) == Set(c, [loadCall[c] EXCEPT !.at = how])

execute(c) ==
    /\ loadCall[c].at = "idle"
    /\ Set(c, [NoCall EXCEPT !.at = IF LoadKind[c] \in {"navigate", "data"} THEN "navigate"
                                    ELSE IF gecko THEN "traverse" ELSE "history",
                             !.beside = Beside(c)])
    /\ UNCHANGED <<shown, entries, pending, outcome, gecko, turns>>

\* Page.navigate, of a data URL to about:blank first.
Navigate(c) ==
    /\ loadCall[c].at = "navigate"
    /\ Begin(c, 0)
    /\ Set(c, [loadCall[c] EXCEPT !.at = "answer"])
    /\ UNCHANGED <<shown, entries, gecko, turns>>

AfterAnswer(c) == IF LoadKind[c] = "data" THEN "content" ELSE "poll"

\* Its answer, whatever it says; or the command has timed out.
Answered_AtOnce(c) == TRUE
Answered(c) == outcome[c].how # "none"
NavigateReturns(c) ==
    /\ loadCall[c].at = "answer"
    /\ IF Answered(c) THEN End(c, AfterAnswer(c)) ELSE End(c, "failed")
    /\ UNCHANGED <<shown, entries, pending, outcome, gecko, turns>>

\* navigateDataUrl writes into the document that is there.
setDocumentContent(c) ==
    /\ loadCall[c].at = "content"
    /\ Set(c, [loadCall[c] EXCEPT !.at = "poll", !.setIn = shown.last])
    /\ shown' = [shown EXCEPT !.ready = "complete"]
    /\ UNCHANGED <<entries, pending, outcome, gecko, turns>>

\* navigateHistory: the entry is taken from the history as it is now.
TargetIndex_Last(c) == IF Delta(c) < 0 THEN 1 ELSE Len(entries.list)
TargetIndex(c) == entries.at + Delta(c)
getNavigationHistory(c) ==
    /\ loadCall[c].at = "history"
    /\ IF TargetIndex(c) \in DOMAIN entries.list
       THEN Set(c, [loadCall[c] EXCEPT !.at = "entry", !.entry = entries.list[TargetIndex(c)]])
       ELSE End(c, "no entry")
    /\ UNCHANGED <<shown, entries, pending, outcome, gecko, turns>>

navigateToHistoryEntry(c) ==
    /\ loadCall[c].at = "entry"
    /\ IF Has(loadCall[c].entry)
       THEN Begin(c, loadCall[c].entry) /\ End(c, "poll")
       ELSE End(c, "failed") /\ UNCHANGED <<pending, outcome>>
    /\ UNCHANGED <<shown, entries, gecko, turns>>

\* pageBackend.history, on Firefox.
traverseHistory(c) ==
    /\ loadCall[c].at = "traverse"
    /\ IF Beside(c) # {}
       THEN \E entry \in Beside(c) : Begin(c, entry) /\ Set(c, [loadCall[c] EXCEPT !.at = "poll", !.entry = entry])
       ELSE End(c, "failed") /\ UNCHANGED <<pending, outcome>>
    /\ UNCHANGED <<shown, entries, gecko, turns>>

expected(c) == IF WaitUntil[c] = "load" THEN {"complete"} ELSE {"interactive", "complete"}

\* waitForPageReady: readyState of the document that is there; it may fail to
\* be read while one document replaces another.
waitForPageReady(c) ==
    /\ loadCall[c].at = "poll"
    /\ IF WaitUntil[c] = "none" THEN End(c, "ready")
       ELSE \/ /\ shown.ready \in expected(c)
               /\ Set(c, [loadCall[c] EXCEPT !.at = "ready", !.readIn = shown.last])
            \/ /\ shown.ready \notin expected(c) \/ pending.by # NoPending
               /\ Set(c, [loadCall[c] EXCEPT !.polls = @ + 1,
                                              !.at = IF loadCall[c].polls + 1 < MaxPolls THEN "poll" ELSE "timeout"])
    /\ UNCHANGED <<shown, entries, pending, outcome, gecko, turns>>

-----------------------------------------------------------------------------
PageLoadsInit ==
    /\ shown = [last |-> 1, entry |-> 2, ready |-> "complete"]
    /\ entries = [list |-> <<1, 2, 3>>, at |-> 2, made |-> 3]
    /\ pending = NoNavigation
    /\ outcome = [c \in LoadCalls |-> [how |-> "none", doc |-> 0]]
    /\ \E plan \in LoadPlans :
           /\ gecko = plan.gecko
           /\ loadCall = [c \in LoadCalls |-> [NoCall EXCEPT !.at = IF c \in plan.calls THEN "idle" ELSE "never"]]
    /\ turns = MaxTurns

PageLoadsNext ==
    \/ Commit \/ Fail \/ Progress \/ PageNavigates
    \/ \E c \in LoadCalls :
           \/ execute(c) \/ Navigate(c) \/ NavigateReturns(c) \/ setDocumentContent(c)
           \/ getNavigationHistory(c) \/ navigateToHistoryEntry(c) \/ traverseHistory(c)
           \/ waitForPageReady(c)

PageLoadsTypeOK ==
    /\ shown.last \in Nat /\ shown.ready \in {"loading", "interactive", "complete"}
    /\ entries.at \in DOMAIN entries.list
    /\ gecko \in BOOLEAN /\ pending.by \in LoadCalls \cup {"page", NoPending}
    /\ \A c \in LoadCalls :
           /\ outcome[c].how \in {"none", "committed", "aborted", "failed"}
           /\ loadCall[c].at \in Ends \cup {"navigate", "answer", "content", "history", "entry", "traverse", "poll"}

-----------------------------------------------------------------------------
\* session.ts:159-167, operations/index.ts:161-169: where the navigation of a call
\* has committed, what is answered to be ready, and what the content of a data URL
\* is written into, is its document or one that has replaced it, never the document
\* that was there before.
NeverTheOldDocument ==
    \A c \in LoadCalls :
        LoadKind[c] \in {"navigate", "data"} /\ outcome[c].how = "committed" =>
            /\ loadCall[c].readIn = 0 \/ loadCall[c].readIn >= outcome[c].doc
            /\ loadCall[c].setIn = 0 \/ loadCall[c].setIn >= outcome[c].doc

\* operations/index.ts:218-228: whatever else navigates meanwhile, back and forward
\* go to an entry that was beside the one the tab was at during the call.
BackIsBack ==
    \A c \in LoadCalls :
        LoadKind[c] \in {"back", "forward"} /\ loadCall[c].entry # 0 => loadCall[c].entry \in loadCall[c].beside

PageLoadsSound == NeverTheOldDocument /\ BackIsBack

\* Not true: the same of back and forward.  The entry is only begun when readyState is
\* asked for, and the answer may be of the document that is left (index.ts:226-227).
HistoryIsReady ==
    \A c \in LoadCalls : LoadKind[c] \in {"back", "forward"} /\ outcome[c].how = "committed" =>
        loadCall[c].readIn = 0 \/ loadCall[c].readIn >= outcome[c].doc

\* Not true: that a navigation which is answered to be ready has come about.  What
\* Page.navigate answers, an error text too, is not read (session.ts:165).
ReadyIsThere == \A c \in LoadCalls : LoadKind[c] = "navigate" /\ loadCall[c].readIn # 0 => outcome[c].how = "committed"

\* Not true: that a data URL is written into the blank document that was made for it.
\* Another page that was navigated to meanwhile is overwritten (index.ts:162-168).
ContentIsInItsOwn == \A c \in LoadCalls : loadCall[c].setIn # 0 => loadCall[c].setIn = outcome[c].doc
=============================================================================
