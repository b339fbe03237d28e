-------------------------- MODULE BrowserMarketplace --------------------------
(***************************************************************************)
(* The refresh of the browser plugin that Codex installs from its          *)
(* marketplace (management/marketplace.ts).  Every harness that starts,    *)
(* and every setup, may run refreshBrowserMarketplace; each run looks at   *)
(* Codex's configuration and at the marker of the last refresh, takes a    *)
(* lock file, and gives Codex a sequence of commands, each of which may    *)
(* fail.  Codex itself is external: its commands are what they do to the   *)
(* configured source, the snapshot of it and the installed plugin.         *)
(***************************************************************************)
EXTENDS Naturals, FiniteSets

CONSTANTS Refreshers,     \* the processes
          MaxCodexFaults  \* bound on failing commands and killed processes

ASSUME MarketAssumption == "none" \notin Refreshers /\ "gone" \notin Refreshers

VARIABLES market,         \* Codex: [source, snapshot, installed], and what the source offers
          marker,         \* codex-marketplace-refresh.json: "none", "checked", "retry"
          refresher,      \* process -> [at, health, force]
          marketLock,     \* owner in the lock file, "gone" for an older dead one, or "none"
          codexFaults,
          superseded       \* a refresh began with a view that was true no more, or lost its lock

marketVars == <<market, marker, refresher, marketLock, codexFaults, superseded>>

(* inspectBrowserMarketplace, of a plugin that is enabled in Codex.        *)
health ==
    IF market.source = "custom" THEN "custom_source"
    ELSE IF market.source = "none" THEN "missing_source"
    ELSE IF market.installed = "new" THEN "installed" ELSE "outdated"

RefresherTo(r, at) == refresher' = [refresher EXCEPT ![r].at = at]
LockOfDead == marketLock = "gone" \/ \E d \in Refreshers : marketLock = d /\ refresher[d].at = "dead"

(* The health and the marker are read before the lock.  A marker of this   *)
(* version that is recent answers "current" when the plugin is there, and  *)
(* "retry" keeps a failing refresh from being repeated.                    *)
InspectMarket(r) ==
    /\ refresher[r].at = "idle"
    /\ refresher' = [refresher EXCEPT ![r].health = health,
           ![r].at = IF \/ health = "custom_source"
                        \/ ~ refresher[r].force /\ marker = "checked" /\ health = "installed"
                        \/ ~ refresher[r].force /\ marker = "retry"
                     THEN "done" ELSE "owner"]
    /\ UNCHANGED <<market, marker, marketLock, codexFaults, superseded>>

(* The owner of the lock is looked at, and the lock of a dead one removed: *)
(* two steps, between which the lock may have become another's.            *)
ReadOwner(r) ==
    /\ refresher[r].at = "owner"
    /\ RefresherTo(r, IF LockOfDead THEN "unlink" ELSE "open")
    /\ UNCHANGED <<market, marker, marketLock, codexFaults, superseded>>

UnlinkDead(r) ==
    /\ refresher[r].at = "unlink"
    /\ superseded' = (superseded \/ (marketLock # "none" /\ ~ LockOfDead))
    /\ marketLock' = "none"
    /\ RefresherTo(r, "open")
    /\ UNCHANGED <<market, marker, codexFaults>>

(* openSync(lock, "wx"), else "pending".                                   *)
OpenLock(r) ==
    /\ refresher[r].at = "open"
    /\ IF marketLock = "none"
       THEN /\ marketLock' = r
            /\ RefresherTo(r, IF refresher[r].health = "missing_source" THEN "add" ELSE "upgrade")
            /\ superseded' = (superseded \/ refresher[r].health # health)
       ELSE RefresherTo(r, "done") /\ UNCHANGED <<marketLock, superseded>>
    /\ UNCHANGED <<market, marker, codexFaults>>

-----------------------------------------------------------------------------
(* Codex's commands.  A failing one leaves Codex as it was; only the first *)
(* `marketplace add` has a second chance, after the source is removed.     *)
After(at) == CASE at = "add" -> "upgrade" [] at = "remove" -> "again"
               [] at = "again" -> "upgrade" [] at = "upgrade" -> "plugin"
               [] at = "plugin" -> "checked"

CodexCommands == {"add", "remove", "again", "upgrade", "plugin"}

CodexEffect(at) ==
    CASE at \in {"add", "again"} -> [market EXCEPT !.source = "ours", !.snapshot = "fresh"]
      [] at = "remove"  -> [market EXCEPT !.source = "none", !.snapshot = "none"]
      [] at = "upgrade" -> [market EXCEPT !.snapshot = "fresh"]
      [] at = "plugin"  -> [market EXCEPT !.installed = IF market.snapshot = "fresh"
                                                        THEN market.offers ELSE "old"]

(* Codex refuses to add a source it still has a snapshot of, and to        *)
(* upgrade or install from one it does not know.                           *)
Refuses(at) ==
    \/ at = "add" /\ market.snapshot # "none"
    \/ at = "again" /\ market.source = "ours"
    \/ at \in {"upgrade", "plugin"} /\ market.source = "none"

Run(r) ==
    /\ refresher[r].at \in CodexCommands
    /\ ~ Refuses(refresher[r].at)
    /\ market' = CodexEffect(refresher[r].at)
    /\ RefresherTo(r, After(refresher[r].at))
    /\ UNCHANGED <<marker, marketLock, codexFaults, superseded>>

RunFails(r) ==
    /\ refresher[r].at \in CodexCommands
    /\ IF Refuses(refresher[r].at) THEN UNCHANGED codexFaults
       ELSE codexFaults < MaxCodexFaults /\ codexFaults' = codexFaults + 1
    /\ RefresherTo(r, IF refresher[r].at = "add" THEN "remove" ELSE "retry")
    /\ UNCHANGED <<market, marker, marketLock, superseded>>

(* What Codex says it installed is verified on disk before the marker says *)
(* that this version was checked.                                          *)
Mark_Unverified(r) ==
    /\ refresher[r].at \in {"checked", "retry"}
    /\ marker' = refresher[r].at
    /\ RefresherTo(r, "unlock")
    /\ UNCHANGED <<market, marketLock, codexFaults, superseded>>

Mark(r) ==
    /\ refresher[r].at \in {"checked", "retry"}
    /\ IF refresher[r].at = "checked" /\ market.installed = "new"
       THEN marker' = "checked" ELSE marker' = "retry"
    /\ RefresherTo(r, "unlock")
    /\ UNCHANGED <<market, marketLock, codexFaults, superseded>>

(* The lock file is unlinked, whoever it is of now.                        *)
Unlock(r) ==
    /\ refresher[r].at = "unlock"
    /\ marketLock' = "none"
    /\ RefresherTo(r, "done")
    /\ UNCHANGED <<market, marker, codexFaults, superseded>>

RefresherKilled(r) ==
    /\ refresher[r].at \in CodexCommands \cup {"unlink", "open", "checked", "retry", "unlock"}
    /\ codexFaults < MaxCodexFaults
    /\ codexFaults' = codexFaults + 1
    /\ RefresherTo(r, "dead")
    /\ UNCHANGED <<market, marker, marketLock, superseded>>

MarketNext ==
    \E r \in Refreshers :
        \/ InspectMarket(r) \/ ReadOwner(r) \/ UnlinkDead(r) \/ OpenLock(r) \/ Run(r) \/ RunFails(r)
        \/ Mark(r) \/ Unlock(r) \/ RefresherKilled(r)

MarketTypeOK ==
    /\ marker \in {"none", "checked", "retry"} /\ DOMAIN refresher = Refreshers
    /\ marketLock \in Refreshers \cup {"none", "gone"}
    /\ codexFaults <= MaxCodexFaults /\ superseded \in BOOLEAN

MarketInit ==
    /\ market \in [source : {"none", "ours", "custom"}, snapshot : {"none", "stale"},
                   installed : {"none", "new"}, offers : {"old", "new"}]
    /\ marker \in {"none", "retry"}
    /\ \E f \in [Refreshers -> BOOLEAN] :
           refresher = [r \in Refreshers |-> [at |-> "idle", health |-> "none", force |-> f[r]]]
    /\ marketLock \in {"none", "gone"} /\ codexFaults = 0 /\ superseded = FALSE

-----------------------------------------------------------------------------
(* A marker that says the version was checked is true of what Codex has    *)
(* installed, whichever refreshes overlap: `current` is not answered for a *)
(* plugin that was only asked for.                                         *)
CheckedIsInstalled == marker = "checked" => market.installed = "new"

(* A source the user pointed elsewhere is never touched.                  *)
CustomUntouched ==
    \A r \in Refreshers : refresher[r].at \in CodexCommands => market.source # "custom"

(* A source that is configured is not removed, unless a refresh began with *)
(* the view of another moment or two refreshes overlap.                    *)
SourceKept == superseded \/ \A r \in Refreshers :
    refresher[r].at = "remove" => market.source = "none"

MarketSound == CheckedIsInstalled /\ CustomUntouched /\ SourceKept

-----------------------------------------------------------------------------
(* Not true.  One refresh talks to Codex at a time: two that found the     *)
(* same dead owner remove its lock one after the other.                    *)
OneRefresh ==
    Cardinality({r \in Refreshers : refresher[r].at \in CodexCommands \cup {"checked", "retry"}}) <= 1

(* Not true.  A refresh never leaves Codex without the source it had: one  *)
(* that saw none before it waited for the lock removes the source another  *)
(* has just added, and may fail to add it again.                           *)
SourceNeverLost == [][market.source = "ours" => market'.source = "ours"]_market
=============================================================================
