----------------------------- MODULE VerifyLoop -----------------------------
(***************************************************************************)
(* The verification loop of the plugin (src/index.ts, src/Ledger.ts,       *)
(* src/Events.ts).                                                         *)
(*                                                                         *)
(* A session's tool calls edit files; the after-hook records each edited   *)
(* path in the session's change ledger, which lives in memory.  A run      *)
(* peeks at the ledger, verifies the files, persists a report and drains   *)
(* the ledger.  Runs are started by the verify tool (Calls) and, one at a  *)
(* time, by the consumer of the host's event stream (Watcher) when an      *)
(* execution of the session ends.  The ids of the events whose run         *)
(* completed are kept in the host's storage, which survives a restart.     *)
(*                                                                         *)
(* Abstractions: one project; sessions whose changes are monitored and     *)
(* whose ends trigger (mode on, trigger 'auto', no internal origin), as    *)
(* every other hook call or event returns without touching this state.     *)
(* A run reads the contents of its files at one instant, its Verify step.  *)
(***************************************************************************)
EXTENDS Naturals, Sequences, SequencesExt

CONSTANTS
  Sessions,       \* sessions of the project
  Files,          \* paths inside the project root
  Calls,          \* calls of the verify tool
  Watcher,        \* the consumer of the event stream
  NoSession,      \* no session
  NoId,           \* an event whose id is not a string
  KeptRuns,       \* how many processed event ids are stored (64)
  MaxEdits,       \* bound: edits
  MaxEvents,      \* bound: executions that end
  MaxDuplicates,  \* bound: events delivered again
  MaxCrashes      \* bound: restarts of the plugin

ASSUME WatcherIsNoCall == Watcher \notin Calls
ASSUME NoSessionIsNone == NoSession \notin Sessions
ASSUME NoIdIsNone == NoId \notin Nat
ASSUME BoundsAreNaturals ==
  /\ KeptRuns \in Nat /\ MaxEdits \in Nat /\ MaxEvents \in Nat
  /\ MaxDuplicates \in Nat /\ MaxCrashes \in Nat

Runners == Calls \cup {Watcher}
Event == [session : Sessions, id : Nat \cup {NoId}]
NoEvent == [session |-> NoSession, id |-> NoId]

\* Between its peek and its drain a run holds an opinion about the ledger.
Open == {"verify", "persist", "drain"}
Steps == {"idle", "dedupe", "peek", "record"} \cup Open

VARIABLES
  changes,     \* ChangeLedger: session -> recorded paths
  hooks,       \* session -> edited paths whose after-hook has not run yet
  queue,       \* events of the host the consumer has not taken
  current,     \* the event the consumer is handling
  inFlight,    \* the sessions in the inFlight set
  runs,        \* host storage: session -> processed event ids, latest first
  processed,   \* the consumer's copy of runs[current.session]
  run,         \* runner -> [pc, session, files peeked, files seen by Verify]
  edits, events, duplicates, crashes,  \* counters for the bounds
  log,         \* history: the events that carried an id, in order
  unverified,  \* history: session -> paths edited and in no report since
  overlapped,  \* history: session -> paths edited or recorded during an open run
  failed,      \* history: sessions whose automatic run failed since their last end
  finished     \* history: session -> ids stored, latest first, since a run
               \* whose read of them had failed replaced them

counters == <<edits, events, duplicates, crashes>>
host == <<queue, log>>
ghosts == <<unverified, overlapped, failed, finished>>
vars == <<changes, hooks, host, current, inFlight, runs, processed, run, counters, ghosts>>

\* slice(0, KeptRuns): the latest ids.
Kept(ids) == SubSeq(ids, 1, IF Len(ids) < KeptRuns THEN Len(ids) ELSE KeptRuns)

NoRun == [pc |-> "idle", session |-> NoSession, files |-> {}, seen |-> {}]

Init ==
  /\ changes = [s \in Sessions |-> {}]
  /\ hooks = [s \in Sessions |-> {}]
  /\ queue = <<>>
  /\ current = NoEvent
  /\ inFlight = {}
  /\ runs = [s \in Sessions |-> <<>>]
  /\ processed = <<>>
  /\ run = [r \in Runners |-> NoRun]
  /\ edits = 0 /\ events = 0 /\ duplicates = 0 /\ crashes = 0
  /\ log = <<>>
  /\ unverified = [s \in Sessions |-> {}]
  /\ overlapped = [s \in Sessions |-> {}]
  /\ failed = {}
  /\ finished = [s \in Sessions |-> <<>>]
-----------------------------------------------------------------------------
(* The session: edits, their after-hook, the end of an execution *)

OpenIn(s) == {r \in Runners : run[r].session = s /\ run[r].pc \in Open}

Overlap(s, f) ==
  overlapped' = [overlapped EXCEPT ![s] = IF OpenIn(s) = {} THEN @ ELSE @ \cup {f}]

\* A tool call writes f: whatever a run has read of it is out of date.
Edit(s, f) ==
  /\ edits < MaxEdits
  /\ edits' = edits + 1
  /\ hooks' = [hooks EXCEPT ![s] = @ \cup {f}]
  /\ unverified' = [unverified EXCEPT ![s] = @ \cup {f}]
  /\ run' = [r \in Runners |->
               IF run[r].session = s THEN [run[r] EXCEPT !.seen = @ \ {f}] ELSE run[r]]
  /\ Overlap(s, f)
  /\ UNCHANGED <<changes, host, current, inFlight, runs, processed,
                 events, duplicates, crashes, failed, finished>>

\* execute.after of a completed call records each affected path.
Record(s, f) ==
  /\ f \in hooks[s]
  /\ hooks' = [hooks EXCEPT ![s] = @ \ {f}]
  /\ changes' = [changes EXCEPT ![s] = @ \cup {f}]
  /\ Overlap(s, f)
  /\ UNCHANGED <<host, current, inFlight, runs, processed, run, counters,
                 unverified, failed, finished>>

\* session.execution.succeeded; the host runs the hooks of a call before.
EndExecution(s) ==
  /\ events < MaxEvents
  /\ hooks[s] = {}
  /\ events' = events + 1
  /\ failed' = failed \ {s}
  /\ \/ /\ log' = Append(log, [session |-> s, id |-> events'])
        /\ queue' = Append(queue, [session |-> s, id |-> events'])
     \/ /\ queue' = Append(queue, [session |-> s, id |-> NoId])
        /\ UNCHANGED log
  /\ UNCHANGED <<changes, hooks, current, inFlight, runs, processed, run,
                 edits, duplicates, crashes, unverified, overlapped, finished>>

\* The host may deliver an event again, after a restart for instance.
Redeliver ==
  /\ duplicates < MaxDuplicates
  /\ duplicates' = duplicates + 1
  /\ \E k \in 1..Len(log) : queue' = Append(queue, log[k])
  /\ UNCHANGED <<changes, hooks, current, inFlight, runs, processed, run, log,
                 edits, events, crashes, ghosts>>
-----------------------------------------------------------------------------
(* The consumer: one event after the other *)

Start(r, step, s) ==
  run' = [run EXCEPT ![r] = [pc |-> step, session |-> s, files |-> {}, seen |-> {}]]

\* The next event: dropped when its session is in flight, in flight otherwise.
TakeEvent ==
  LET e == Head(queue) IN
    /\ current = NoEvent
    /\ queue # <<>>
    /\ queue' = Tail(queue)
    /\ IF e.session \in inFlight
         THEN UNCHANGED <<current, inFlight, run>>
         ELSE /\ inFlight' = inFlight \cup {e.session}
              /\ current' = e
              /\ Start(Watcher, "dedupe", e.session)
    /\ UNCHANGED <<changes, hooks, runs, processed, log, counters, ghosts>>

\* The event is done with.
Finish ==
  /\ current' = NoEvent
  /\ processed' = <<>>
  /\ run' = [run EXCEPT ![Watcher] = NoRun]

\* Mutant: the stored ids are not consulted.
NeverReplay ==
  /\ run[Watcher].pc = "dedupe"
  /\ processed' = runs[current.session]
  /\ run' = [run EXCEPT ![Watcher].pc = "peek"]
  /\ UNCHANGED <<current, changes, hooks, host, inFlight, runs, counters, ghosts>>

\* The stored ids are read; a read that fails counts as no ids.  A replay
\* returns at once and stays in flight, because the finalizer that removes the
\* session is set up only afterwards.
Dedupe ==
  /\ run[Watcher].pc = "dedupe"
  /\ \E ids \in {runs[current.session], <<>>} :
       IF current.id # NoId /\ current.id \in ToSet(ids)
         THEN Finish
         ELSE /\ processed' = ids
              /\ run' = [run EXCEPT ![Watcher].pc = "peek"]
              /\ UNCHANGED current
  /\ UNCHANGED <<changes, hooks, host, inFlight, runs, counters, ghosts>>

\* Mutant: the session stays in flight.
KeepInFlight ==
  /\ UNCHANGED inFlight
  /\ Finish

\* ensuring: the session leaves the inFlight set, however the run ended.
Release ==
  /\ inFlight' = inFlight \ {current.session}
  /\ Finish

\* The consumer's read of the stored ids did not fail.
IdsAreRead == processed = runs[current.session]

\* Mutant: an id that is not a string is stored like any other.
RecordAnyId ==
  LET s == current.session
      Latest(ids) == <<current.id>> \o ids
  IN /\ run[Watcher].pc = "record"
     /\ runs' = [runs EXCEPT ![s] = Kept(Latest(processed))]
     /\ finished' = [finished EXCEPT ![s] = Latest(IF IdsAreRead THEN @ ELSE <<>>)]
     /\ Release
     /\ UNCHANGED <<changes, hooks, host, counters, unverified, overlapped, failed>>

\* The event's id is stored after the drain, before the ids that were read: when
\* that read failed it replaces them.  A failure to store is ignored.
RecordRun ==
  LET s == current.session
      Latest(ids) == <<current.id>> \o ids
  IN /\ run[Watcher].pc = "record"
     /\ \/ /\ current.id # NoId
           /\ runs' = [runs EXCEPT ![s] = Kept(Latest(processed))]
           /\ finished' = [finished EXCEPT ![s] = Latest(IF IdsAreRead THEN @ ELSE <<>>)]
        \/ UNCHANGED <<runs, finished>>
     /\ Release
     /\ UNCHANGED <<changes, hooks, host, counters, unverified, overlapped, failed>>
-----------------------------------------------------------------------------
(* A run, of the tool or of the consumer *)

\* The record of r's run at its next stage.
At(r, step, files, seen) ==
  [pc |-> step, session |-> run[r].session, files |-> files, seen |-> seen]

\* The verify tool is called in a session.
CallVerify(c, s) ==
  /\ run[c].pc = "idle"
  /\ Start(c, "peek", s)
  /\ UNCHANGED <<changes, hooks, host, current, inFlight, runs, processed, counters, ghosts>>

\* The run is over: the consumer releases the session, the tool call returns.
EndRun(r) ==
  IF r = Watcher THEN Release
  ELSE /\ run' = [run EXCEPT ![r] = NoRun]
       /\ UNCHANGED <<current, processed, inFlight>>

\* changes.peek; the consumer has nothing to do when the ledger is empty.
Peek(r) ==
  LET s == run[r].session IN
    /\ run[r].pc = "peek"
    /\ IF r = Watcher /\ changes[s] = {}
         THEN EndRun(r)
         ELSE /\ run' = [run EXCEPT ![r] = At(r, "verify", changes[s], {})]
              /\ UNCHANGED <<current, processed, inFlight>>
    /\ UNCHANGED <<changes, hooks, host, runs, counters, ghosts>>

\* Orchestrator.verify reads the files as they are now, whatever it finds.
Verify(r) ==
  /\ run[r].pc = "verify"
  /\ run' = [run EXCEPT ![r] = At(r, "persist", run[r].files, run[r].files)]
  /\ UNCHANGED <<changes, hooks, host, current, inFlight, runs, processed, counters, ghosts>>

\* Mutant: a report that could not be written is ignored.
PersistIgnored(r) ==
  /\ run[r].pc = "persist"
  /\ run' = [run EXCEPT ![r] = At(r, "drain", run[r].files, run[r].seen)]
  /\ UNCHANGED <<changes, hooks, host, current, inFlight, runs, processed, counters, ghosts>>

\* persistReport: the temporary file was renamed to the report.
Persist(r) ==
  LET s == run[r].session IN
    /\ run[r].pc = "persist"
    /\ run' = [run EXCEPT ![r] = At(r, "drain", run[r].files, run[r].seen)]
    /\ unverified' = [unverified EXCEPT ![s] = @ \ run[r].seen]
    /\ UNCHANGED <<changes, hooks, host, current, inFlight, runs, processed,
                   counters, overlapped, failed, finished>>

\* changes.drain empties the ledger, whatever the report says and whatever was
\* recorded since the peek.
Drain(r) ==
  LET s == run[r].session IN
    /\ run[r].pc = "drain"
    /\ changes' = [changes EXCEPT ![s] = {}]
    /\ IF r = Watcher
         THEN /\ run' = [run EXCEPT ![r] = At(r, "record", run[r].files, run[r].seen)]
              /\ UNCHANGED <<current, processed, inFlight>>
         ELSE EndRun(r)
    /\ UNCHANGED <<hooks, host, runs, counters, ghosts>>

\* A check dies, the report cannot be persisted, or the call is interrupted:
\* the ledger is kept, and the consumer goes on to the next event.
RunFails(r) ==
  LET s == run[r].session IN
    /\ run[r].pc \in {"peek"} \cup Open
    /\ failed' = IF r = Watcher THEN failed \cup {s} ELSE failed
    /\ EndRun(r)
    /\ UNCHANGED <<changes, hooks, host, runs, counters, unverified, overlapped, finished>>

\* The plugin restarts: only the host's storage and its log survive.
Crash ==
  /\ crashes < MaxCrashes
  /\ crashes' = crashes + 1
  /\ changes' = [s \in Sessions |-> {}]
  /\ hooks' = [s \in Sessions |-> {}]
  /\ queue' = <<>>
  /\ current' = NoEvent
  /\ inFlight' = {}
  /\ processed' = <<>>
  /\ run' = [r \in Runners |-> NoRun]
  /\ unverified' = [s \in Sessions |-> {}]
  /\ overlapped' = [s \in Sessions |-> {}]
  /\ UNCHANGED <<runs, log, edits, events, duplicates, failed, finished>>
-----------------------------------------------------------------------------
Session(s) == EndExecution(s) \/ \E f \in Files : Edit(s, f) \/ Record(s, f)

RunStep(r) == Peek(r) \/ Verify(r) \/ Persist(r) \/ Drain(r)

Consumer == TakeEvent \/ Dedupe \/ RecordRun \/ RunStep(Watcher)

Next ==
  \/ \E s \in Sessions : Session(s) \/ \E c \in Calls : CallVerify(c, s)
  \/ Redeliver
  \/ Consumer
  \/ \E c \in Calls : RunStep(c)
  \/ \E r \in Runners : RunFails(r)
  \/ Crash

Spec == Init /\ [][Next]_vars

\* The consumer's fiber runs; checks end, for they are run under a timeout.
FairSpec == Spec /\ WF_vars(Consumer)
-----------------------------------------------------------------------------
(* Properties *)

TypeOK ==
  /\ changes \in [Sessions -> SUBSET Files]
  /\ hooks \in [Sessions -> SUBSET Files]
  /\ queue \in Seq(Event)
  /\ current \in Event \cup {NoEvent}
  /\ inFlight \subseteq Sessions
  /\ runs \in [Sessions -> Seq(Nat)]
  /\ processed \in Seq(Nat)
  /\ run \in [Runners -> [pc : Steps, session : Sessions \cup {NoSession},
                          files : SUBSET Files, seen : SUBSET Files]]
  /\ <<edits, events, duplicates, crashes>> \in Nat \X Nat \X Nat \X Nat
  /\ log \in Seq(Event)
  /\ unverified \in [Sessions -> SUBSET Files]
  /\ overlapped \in [Sessions -> SUBSET Files]
  /\ failed \subseteq Sessions
  /\ finished \in [Sessions -> Seq(Nat)]

\* An edit leaves the ledger only through a report that read it, unless it was
\* made or recorded while another run stood between its peek and its drain.
\* (index.ts:12-13, 429)
LostOnlyToOverlap ==
  \A s \in Sessions : unverified[s] \subseteq changes[s] \cup hooks[s] \cup overlapped[s]

\* When a run fails, what it had peeked and no report has read is still in the
\* ledger: "a failed run RETAINS the change ledger for retry". (index.ts:13)
FailedRunsRetain ==
  [][\A r \in Runners :
       LET s == run[r].session IN
         RunFails(r) => run[r].files \cap unverified[s] \subseteq changes'[s] \cup hooks'[s]]_vars

\* The consumer never verifies for one of the last KeptRuns ids it stored:
\* "replays never re-verify", across restarts.  Two exceptions, both because a
\* failing read of the storage counts as no ids: the run that could not read
\* them, and the ids its own then replaces. (index.ts:1560-1573, 1625)
ReplaysNeverVerify ==
  run[Watcher].pc \in Open /\ IdsAreRead =>
    current.id \notin ToSet(Kept(finished[current.session]))

\* A new event of a session with pending changes starts a run: "the next
\* trigger retries". (index.ts:1630)
NextTriggerRetries ==
  [][LET e == Head(queue) IN
       /\ queue # <<>>
       /\ queue' = Tail(queue)
       /\ crashes' = crashes
       /\ changes[e.session] # {}
       /\ e.id \notin ToSet(runs[e.session])
       => current' = e]_vars

\* As long as no event was delivered twice, the changes of a session whose
\* execution has ended leave the ledger, or a run fails over them, or the
\* plugin restarts; no event is left behind. (index.ts:1543, 1630)
TriggersVerify ==
  \A s \in Sessions :
    (changes[s] # {} /\ \E k \in 1..Len(queue) : queue[k].session = s)
      ~> (changes[s] = {} \/ s \in failed \/ duplicates > 0)
=============================================================================
