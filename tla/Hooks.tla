------------------------------- MODULE Hooks -------------------------------
(***************************************************************************)
(* The hooks around tool calls and model calls (src/index.ts:1041-1512),   *)
(* for the sessions of one project that share one file, with the mode that *)
(* harness_toggle switches (src/mode/State.ts).  Whether the gate blocks a *)
(* write is left open here: SkillGate says when it does.                   *)
(***************************************************************************)
EXTENDS Integers

CONSTANTS
  Calls,       \* tool calls and model calls, by their ids
  SessionOf,   \* call -> its session
  CallsOf,     \* call -> the kinds and agents it may have
  Toggles,     \* fibers that call harness_toggle
  FailClosed,  \* config.harness.failClosedForGate
  AllowEdits,  \* config.harness.allowEdits
  Unset        \* nothing stored, cached, seen or told

\* execute.before and execute.after of a tool, or the context hook.
CallKinds == {"write", "patch", "shell", "context"}

\* A strict agent, another one, one that opted out, and a child session of
\* the plugin, whose agent is not strict.
Agents == {"strict", "plain", "opted out", "internal"}

Fibers == Calls \cup Toggles
HookPoints ==
  {"idle", "before", "before: cache", "gate", "snapshot", "running", "ended", "failed",
   "after", "after: cache", "feedback", "context", "context: cache", "header",
   "toggle: cache", "set", "set: cache", "done"}
Texts == {"absent", "old", "new"}

ASSUME UnsetAssumption == Unset \notin BOOLEAN /\ Unset \notin Texts

VARIABLES
  storedMode, \* the mode in storage: Unset, or BOOLEAN
  cachedMode, \* the mode in memory
  at,        \* fiber -> where it is
  loading,   \* fiber -> the mode it read from storage or is about to set
  kind,      \* call -> its kind
  agent,     \* call -> who calls
  file,      \* the text of the file
  snapshots, \* pendingSnapshots: key -> the text before the call
  acted,     \* calls whose hook blocked, advised or guided because of the mode
  told,      \* what the last toggle that was answered said (history)
  silent,    \* calls whose hook began after "disabled" was told (history)
  taken,     \* call -> the snapshot its after-hook took
  seen       \* call -> the text its snapshot holds (history)

hookVars ==
  <<storedMode, cachedMode, at, loading, kind, agent, file, snapshots, acted,
    told, silent, taken, seen>>
modeVars == <<storedMode, cachedMode, loading, told>>
callVars == <<kind, agent, file, snapshots, taken, seen>>

SnapshotByCall(c) == <<SessionOf[c], c>>

\* A mutant: the snapshots are kept by session.
SnapshotBySession(c) == <<SessionOf[c], SessionOf[c]>>

snapshotKey(c) == SnapshotByCall(c)

Keys == {<<SessionOf[c], d>> : c \in Calls, d \in Calls \cup {SessionOf[c2] : c2 \in Calls}}

HooksInit ==
  /\ storedMode = Unset
  /\ cachedMode = Unset
  /\ at = [f \in Fibers |-> "idle"]
  /\ loading = [f \in Fibers |-> Unset]
  /\ kind = [c \in Calls |-> "write"]
  /\ agent = [c \in Calls |-> "plain"]
  /\ file \in {"absent", "old"}
  /\ snapshots = [k \in Keys |-> Unset]
  /\ acted = {}
  /\ told = Unset
  /\ silent = {}
  /\ taken = [c \in Calls |-> Unset]
  /\ seen = [c \in Calls |-> Unset]

Moves(f, from, to) == at[f] = from /\ at' = [at EXCEPT ![f] = to]
Acts(c) == acted' = acted \cup {c}

\* A hook that begins is to be silent when the mode was told to be off.
Begins(c) ==
  silent' = IF told = FALSE THEN silent \cup {c} ELSE silent \ {c}

----------------------------------------------------------------------------
(* ModeState.enabled: from the cache, or from storage, which is read first *)
(* and cached in a later step.  A failing read counts as enabled.          *)

LoadMode(f, from, caching) ==
  /\ cachedMode = Unset
  /\ Moves(f, from, caching)
  /\ \/ /\ loading' = [loading EXCEPT ![f] = IF storedMode = Unset THEN TRUE ELSE storedMode]
        /\ told' = told /\ silent' = silent
     \/ /\ loading' = [loading EXCEPT ![f] = TRUE]
        /\ told' = IF told = FALSE THEN Unset ELSE told
        /\ silent' = {}
  /\ UNCHANGED <<storedMode, cachedMode, acted, callVars>>

\* The mode is now known to be on or off for this fiber.
KnowsMode(f, on, from, caching) ==
  \/ /\ cachedMode # Unset
     /\ at[f] = from
     /\ on = cachedMode
     /\ UNCHANGED modeVars
  \/ /\ at[f] = caching
     /\ on = loading[f]
     /\ cachedMode' = loading[f]
     /\ loading' = [loading EXCEPT ![f] = Unset]
     /\ UNCHANGED <<storedMode, told>>

Goto(f, to) == at' = [at EXCEPT ![f] = to]

----------------------------------------------------------------------------
(* harness_toggle: reads the mode, writes storage and then the cache.      *)

\* The desired mode is an argument, or the opposite of the present one.
ToggleReads(t) ==
  \/ LoadMode(t, "idle", "toggle: cache")
  \/ \E desired \in BOOLEAN :
       /\ \/ cachedMode # Unset /\ at[t] = "idle" /\ cachedMode' = cachedMode
          \/ at[t] = "toggle: cache" /\ cachedMode' = loading[t]
       /\ Goto(t, "set")
       /\ loading' = [loading EXCEPT ![t] = desired]
       /\ UNCHANGED <<storedMode, told, acted, silent, callVars>>

ToggleStores(t) ==
  /\ \/ /\ Moves(t, "set", "set: cache")
        /\ storedMode' = loading[t]
        /\ loading' = loading
        /\ told' = Unset
     \/ /\ Moves(t, "set", "idle")          \* ModePersistenceError
        /\ loading' = [loading EXCEPT ![t] = Unset]
        /\ UNCHANGED <<storedMode, told>>
  /\ UNCHANGED <<cachedMode, acted, silent, callVars>>

\* Fibers that hold a mode they read or stored, and will cache it.
Caching == {f \in Fibers : at[f] \in {"before: cache", "after: cache", "context: cache",
                                      "toggle: cache", "set: cache"}}

\* A mutant: the new mode waits for the next load.
CachesNothing(t) ==
  /\ Moves(t, "set: cache", "idle")
  /\ loading' = [loading EXCEPT ![t] = Unset]
  /\ told' = IF Caching = {t} /\ storedMode = loading[t] THEN loading[t] ELSE Unset
  /\ silent' = IF loading[t] THEN {} ELSE silent
  /\ UNCHANGED <<storedMode, cachedMode, acted, callVars>>

ToggleCaches(t) ==
  /\ Moves(t, "set: cache", "idle")
  /\ cachedMode' = loading[t]
  /\ loading' = [loading EXCEPT ![t] = Unset]
  /\ told' = IF Caching = {t} /\ storedMode = loading[t] THEN loading[t] ELSE Unset
  /\ silent' = IF loading[t] THEN {} ELSE silent
  /\ UNCHANGED <<storedMode, acted, callVars>>

----------------------------------------------------------------------------
(* execute.before                                                          *)

\* denyInternalMutation; then a command that is not destructive, or a session
\* whose location does not resolve, for which the mode counts as on.
Before(c) ==
  \E k \in CallKinds \ {"context"}, a \in Agents :
    /\ <<k, a>> \in CallsOf[c]
    /\ kind' = [kind EXCEPT ![c] = k]
    /\ agent' = [agent EXCEPT ![c] = a]
    /\ Begins(c)
    /\ \/ /\ a = "internal" /\ ~AllowEdits
          /\ Moves(c, "idle", "done")
       \/ /\ a = "internal" => AllowEdits
          /\ \/ Moves(c, "idle", "before")
             \/ k = "shell" /\ Moves(c, "idle", "running")
             \/ k = "shell" /\ a = "strict" /\ Moves(c, "idle", "done")
             \/ k # "shell" /\ FailClosed /\ Moves(c, "idle", "done")
             \/ k # "shell" /\ ~FailClosed /\ Moves(c, "idle", "running")
    /\ UNCHANGED <<modeVars, file, snapshots, taken, seen, acted>>

\* A destructive command, or a patch that cannot be parsed, of a strict agent
\* is blocked while the mode is on; a command goes on to run.
CheckMode(c) ==
  \/ LoadMode(c, "before", "before: cache")
  \/ /\ \E on \in BOOLEAN :
          /\ KnowsMode(c, on, "before", "before: cache")
          /\ \/ /\ on /\ agent[c] = "strict" /\ kind[c] \in {"shell", "patch"}
                /\ Goto(c, "done")
                /\ Acts(c)
             \/ /\ kind[c] = "shell" => ~(on /\ agent[c] = "strict")
                /\ Goto(c, IF kind[c] = "shell" THEN "running" ELSE "gate")
                /\ acted' = acted
     /\ UNCHANGED <<silent, callVars>>

\* The mode is asked for again, and is in the cache by now.  An evaluation
\* that fails blocks or passes as failClosedForGate says.
Gate(c) ==
  /\ \/ /\ agent[c] = "strict" /\ cachedMode = TRUE
        /\ Moves(c, "gate", "done")
        /\ Acts(c)
     \/ Moves(c, "gate", "snapshot") /\ acted' = acted
  /\ UNCHANGED <<modeVars, silent, callVars>>

\* No path, a path outside the root, which is refused, or the file.  A file
\* that does not exist resolves to nothing and leaves no snapshot.
TakeSnapshot(c) ==
  \/ /\ Moves(c, "snapshot", "running") \/ Moves(c, "snapshot", "done")
     /\ UNCHANGED <<modeVars, acted, silent, callVars>>
  \/ /\ Moves(c, "snapshot", "running")
     /\ file # "absent"
     /\ snapshots' = [snapshots EXCEPT ![snapshotKey(c)] = file]
     /\ seen' = [seen EXCEPT ![c] = file]
     /\ UNCHANGED <<modeVars, acted, silent, kind, agent, file, taken>>

\* The host runs the tool.
Run(c) ==
  /\ \/ Moves(c, "running", "ended") /\ file' \in {"old", "new"}
     \/ Moves(c, "running", "failed") /\ file' = file
  /\ UNCHANGED <<modeVars, acted, silent, kind, agent, snapshots, taken, seen>>

----------------------------------------------------------------------------
(* execute.after: the snapshot of the call is taken before anything else.  *)

\* The location of the session may not resolve.
After(c) ==
  /\ Begins(c)
  /\ snapshots' = [snapshots EXCEPT ![snapshotKey(c)] = Unset]
  /\ seen' = [seen EXCEPT ![c] = Unset]
  /\ \/ /\ agent[c] # "opted out" /\ kind[c] # "shell"
        /\ Moves(c, "ended", "after")
        /\ taken' = [taken EXCEPT ![c] = snapshots[snapshotKey(c)]]
     \/ Moves(c, "ended", "done") /\ taken' = taken
     \/ Moves(c, "failed", "done") /\ taken' = taken
  /\ UNCHANGED <<modeVars, kind, agent, file, acted>>

CheckModeAfter(c) ==
  \/ LoadMode(c, "after", "after: cache")
  \/ /\ \E on \in BOOLEAN :
          /\ KnowsMode(c, on, "after", "after: cache")
          /\ Goto(c, IF on THEN "feedback" ELSE "done")
     /\ UNCHANGED <<acted, silent, callVars>>

\* Patterns that match the text added since the snapshot; a failure of the
\* scan is logged.
Feedback(c) ==
  /\ Moves(c, "feedback", "done")
  /\ \/ /\ taken[c] # Unset /\ file \notin {taken[c], "absent"}
        /\ Acts(c)
     \/ acted' = acted
  /\ taken' = [taken EXCEPT ![c] = Unset]
  /\ UNCHANGED <<modeVars, silent, kind, agent, file, snapshots, seen>>

----------------------------------------------------------------------------
(* The context hook: the tools of an internal session are taken away, then *)
(* the guidance is added, and always when the location does not resolve.   *)

Context(c) ==
  /\ Moves(c, "idle", "context") \/ Moves(c, "idle", "done")
  /\ \E a \in Agents :
       /\ <<"context", a>> \in CallsOf[c]
       /\ agent' = [agent EXCEPT ![c] = a]
  /\ kind' = [kind EXCEPT ![c] = "context"]
  /\ Begins(c)
  /\ UNCHANGED <<modeVars, file, snapshots, taken, seen, acted>>

Guide(c) ==
  \/ LoadMode(c, "context", "context: cache")
  \/ /\ \E on \in BOOLEAN :
          /\ KnowsMode(c, on, "context", "context: cache")
          /\ Goto(c, "done")
          /\ IF on /\ agent[c] # "opted out" THEN Acts(c) ELSE acted' = acted
     /\ UNCHANGED <<silent, callVars>>

\* The plugin starts anew: its fibers and what it holds in memory are gone.
Restart ==
  /\ cachedMode' = Unset
  /\ loading' = [f \in Fibers |-> Unset]
  /\ at' = [f \in Fibers |-> IF f \in Calls /\ at[f] # "idle" THEN "done" ELSE "idle"]
  /\ snapshots' = [k \in Keys |-> Unset]
  /\ taken' = [c \in Calls |-> Unset]
  /\ seen' = [c \in Calls |-> Unset]
  /\ UNCHANGED <<storedMode, kind, agent, file, acted, told, silent>>

HooksNext ==
  \/ Restart
  \/ \E t \in Toggles :
       ToggleReads(t) \/ ToggleStores(t) \/ ToggleCaches(t)
  \/ \E c \in Calls :
       \/ Before(c) \/ CheckMode(c) \/ Gate(c) \/ TakeSnapshot(c) \/ Run(c)
       \/ After(c) \/ CheckModeAfter(c) \/ Feedback(c) \/ Context(c) \/ Guide(c)

HooksSpec == HooksInit /\ [][HooksNext]_hookVars

HooksTypeOK ==
  /\ {storedMode, cachedMode, told} \subseteq BOOLEAN \cup {Unset}
  /\ at \in [Fibers -> HookPoints]
  /\ loading \in [Fibers -> BOOLEAN \cup {Unset}]
  /\ kind \in [Calls -> CallKinds] /\ agent \in [Calls -> Agents]
  /\ file \in Texts
  /\ snapshots \in [Keys -> Texts \cup {Unset}]
  /\ acted \subseteq Calls /\ silent \subseteq Calls
  /\ taken \in [Calls -> Texts \cup {Unset}] /\ seen \in [Calls -> Texts \cup {Unset}]

(* Once a toggle was answered with "disabled", no hook that begins later   *)
(* blocks, advises or guides because of the mode, through restarts and     *)
(* until the mode is switched on (State.ts:1-6), for sessions whose        *)
(* location resolves.  Nothing counts as told when another fiber holds a   *)
(* mode that it will cache after the toggle, or when storage fails to      *)
(* read, which counts as enabled (State.ts:48-57).                         *)
OffIsSilent == acted \cap silent = {}

(* The text before a call is kept from its before-hook to its after-hook   *)
(* and no longer, and is never that of another call of the session         *)
(* (index.ts:1147-1158, 1314-1320, 1343-1350).                             *)
SnapshotsAreOwn ==
  /\ \A c \in Calls : seen[c] # Unset => snapshots[snapshotKey(c)] = seen[c]
  /\ \A k \in Keys :
       snapshots[k] # Unset =>
         \E c \in Calls : at[c] \in {"running", "ended", "failed"} /\ k = snapshotKey(c)
=============================================================================
