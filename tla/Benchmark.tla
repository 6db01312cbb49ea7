----------------------------- MODULE Benchmark -----------------------------
(***************************************************************************)
(* One benchmark job: Runner.run (src/benchmark/Runner.ts) over the store  *)
(* (bench-store/src/Store.ts), the executor of child sessions              *)
(* (src/session/Executor.ts) and the registry that keeps child sessions    *)
(* read-only (src/session/Origin.ts).                                      *)
(*                                                                         *)
(* Each trial is a fiber; a bounded number run at once.  A trial generates *)
(* a candidate's answer in one child session and a judge's verdict in      *)
(* another, both with a directory of their own.  A fiber that fails makes  *)
(* Effect.forEach interrupt the others.                                    *)
(*                                                                         *)
(* Abstractions: an answer is valid, invalid or empty; a score is its      *)
(* total and that of the deterministic checks; trials are numbered in the  *)
(* order of their profile and trial ids.  Each store operation is one      *)
(* transaction, which fails as a whole.  The prompt registered with an     *)
(* origin follows it.  A crash stops host and plugin alike.                *)
(***************************************************************************)
EXTENDS Integers, FiniteSets

CONSTANTS
  Trials,       \* the trials of the job, in the order of their ids
  Scores,       \* records [total, checks]
  NoScore,      \* no score
  NoTrial,      \* no leader
  Concurrency,  \* trials that run at once
  Stuck         \* bound: the sessions whose directory may fail to be removed

ASSUME TrialsAreOrdered == Trials \subseteq Int
ASSUME ScoresAreNumbers == Scores \subseteq [total : Int, checks : Int]
ASSUME NoScoreIsNone == NoScore \notin Scores
ASSUME NoTrialIsNone == NoTrial \notin Trials
ASSUME ConcurrencyIsPositive == Concurrency \in Nat \ {0}

Roles == {"candidate", "judge"}
Sessions == Trials \X Roles
Failures == {"contract-invalid", "llm-error", "timeout", "interrupted", "judge-unavailable"}
Terminal == Failures \cup {"scored"}
Steps == {"queued", "workspace", "create", "generate", "interrupt", "complete", "end", "over"}
RunSteps == {"createJob", "createTrials", "start", "trials", "stopping", "close", "over"}

VARIABLES
  job,      \* benchmark_jobs: status, or "none"
  row,      \* benchmark_trials: trial -> status, or "absent"
  score,    \* trial_scores: trial -> score
  leader,   \* leading_solutions
  events,   \* benchmark_history: the kinds of the job's events
  traced,   \* trials with a trace event
  run,      \* where the run is
  refs,     \* the scores the run has read
  fiber,    \* trial -> [pc, role, outcome, score]
  origins,  \* Origins: the registered sessions
  dirs,     \* the directories that exist, named by their session
  acting,   \* sessions in which the host generates
  adrift,   \* history: sessions nobody waits for that the host has not stopped yet
  stray,    \* history: directories abandoned by a crash or an interruption, or that
            \* could not be removed
  halted    \* history: trials whose fiber was interrupted

store == <<job, row, score, leader, events, traced>>
child == <<origins, dirs, acting>>
history == <<adrift, stray, halted>>
vars == <<store, run, refs, fiber, child, history>>

At(pc, role, outcome, value) ==
  [pc |-> pc, role |-> role, outcome |-> outcome, score |-> value]

Queued == At("queued", "candidate", "pending", NoScore)
Over == At("over", "candidate", "pending", NoScore)

\* The outcome of a trial is known and is to be recorded.
Decided(outcome, value) == At("complete", "candidate", outcome, value)

Init ==
  /\ job = "none"
  /\ row = [t \in Trials |-> "absent"]
  /\ score = [t \in Trials |-> NoScore]
  /\ leader = NoTrial
  /\ events = {}
  /\ traced = {}
  /\ run = "createJob"
  /\ refs = [t \in Trials |-> NoScore]
  /\ fiber = [t \in Trials |-> Queued]
  /\ origins = {} /\ dirs = {} /\ acting = {}
  /\ adrift = {} /\ stray = {} /\ halted = {}

Goto(t, record) == fiber' = [fiber EXCEPT ![t] = record]
Session(t) == <<t, fiber[t].role>>
Running(t) == fiber[t].pc \notin {"queued", "over"}

\* cleanupWorkspace for each of a set: a removal that fails is ignored.
CleanUp(gone) ==
  \E left \in SUBSET (gone \cap dirs \cap Stuck) :
    /\ dirs' = dirs \ (gone \ left)
    /\ stray' = stray \cup left

\* The fiber of a trial may go on: it was not interrupted.
Ready(t, pc) == run = "trials" /\ fiber[t].pc = pc
-----------------------------------------------------------------------------
(* The run before and after its trials *)

CreateJob ==
  /\ run = "createJob"
  /\ job' = "running"
  /\ run' = "createTrials"
  /\ UNCHANGED <<row, score, leader, events, traced, refs, fiber, child, history>>

CreateTrials ==
  /\ run = "createTrials"
  /\ row' = [t \in Trials |-> "pending"]
  /\ run' = "start"
  /\ UNCHANGED <<job, score, leader, events, traced, refs, fiber, child, history>>

\* appendHistory: job.started
Start ==
  /\ run = "start"
  /\ events' = events \cup {"job.started"}
  /\ run' = "trials"
  /\ UNCHANGED <<job, row, score, leader, traced, refs, fiber, child, history>>

\* forEach is over; listAllTrials and listAllScores.
Collect ==
  /\ run = "trials"
  /\ \A t \in Trials : fiber[t].pc = "over"
  /\ refs' = score
  /\ run' = "close"
  /\ UNCHANGED <<store, fiber, child, history>>

\* Mutant: the checks come before the total.
BeatsByChecks(a, b) ==
  \/ refs[a].checks > refs[b].checks
  \/ refs[a].checks = refs[b].checks /\ a < b

\* byLeaderOrder: total, then checks, then ids.
Beats(a, b) ==
  \/ refs[a].total > refs[b].total
  \/ /\ refs[a].total = refs[b].total
     /\ \/ refs[a].checks > refs[b].checks
        \/ refs[a].checks = refs[b].checks /\ a < b

Referred == {t \in Trials : refs[t] # NoScore}

\* selectLeader
IsLeader(t) == t \in Referred /\ \A u \in Referred \ {t} : Beats(t, u)

\* Mutant: the event of the end is a write of its own, which may not happen.
CloseJobOnly ==
  /\ run = "close"
  /\ \A t \in Trials : row[t] # "pending"
  /\ job = "running"
  /\ \/ /\ Referred = {}
        /\ job' = "failed"
        /\ leader' = leader
     \/ \E t \in Trials :
          /\ IsLeader(t)
          /\ job' = "completed"
          /\ leader' = t
  /\ run' = "over"
  /\ UNCHANGED <<row, score, events, traced, refs, fiber, child, history>>

\* completeJob: status, leader and event in one transaction.
CloseJob ==
  /\ run = "close"
  /\ \A t \in Trials : row[t] # "pending"
  /\ job = "running"
  /\ \/ /\ Referred = {}
        /\ job' = "failed"
        /\ leader' = leader
     \/ \E t \in Trials :
          /\ IsLeader(t)
          /\ job' = "completed"
          /\ leader' = t
  /\ events' = events \cup {"job.completed"}
  /\ run' = "over"
  /\ UNCHANGED <<row, score, traced, refs, fiber, child, history>>

\* A store operation of the run fails, or the caller interrupts it there.
RunFails ==
  /\ run \in {"createJob", "createTrials", "start", "close"}
  /\ run' = "over"
  /\ UNCHANGED <<store, refs, fiber, child, history>>

\* forEach has waited for the fibers it interrupted; the run fails.
Stop ==
  /\ run = "stopping"
  /\ \A t \in Trials : ~Running(t)
  /\ run' = "over"
  /\ UNCHANGED <<store, refs, fiber, child, history>>
-----------------------------------------------------------------------------
(* The fiber of a trial: Executor.run, for the candidate and for the judge *)

\* Mutant: trials that are over keep their place.
BeginInPlace(t) ==
  /\ Ready(t, "queued")
  /\ Cardinality({u \in Trials : fiber[u].pc # "queued"}) < Concurrency
  /\ Goto(t, At("workspace", "candidate", "pending", NoScore))
  /\ UNCHANGED <<store, run, refs, child, history>>

\* forEach starts the next trial.
Begin(t) ==
  /\ Ready(t, "queued")
  /\ Cardinality({u \in Trials : Running(u)}) < Concurrency
  /\ Goto(t, At("workspace", "candidate", "pending", NoScore))
  /\ UNCHANGED <<store, run, refs, child, history>>

\* workspaceDirFor
MakeDirectory(t) ==
  /\ Ready(t, "workspace")
  /\ dirs' = dirs \cup {Session(t)}
  /\ Goto(t, At("create", fiber[t].role, "pending", NoScore))
  /\ UNCHANGED <<store, run, refs, origins, acting, history>>

\* No directory for the candidate: the trial fails unrecorded.
NoDirectory(t) ==
  /\ Ready(t, "workspace")
  /\ fiber[t].role = "candidate"
  /\ Goto(t, Over)
  /\ run' = "stopping"
  /\ UNCHANGED <<store, refs, child, history>>

\* No judge is configured, or there is no directory for it.
NoJudge(t) ==
  /\ Ready(t, "workspace")
  /\ fiber[t].role = "judge"
  /\ Goto(t, Decided("judge-unavailable", NoScore))
  /\ UNCHANGED <<store, run, refs, child, history>>

\* The session exists, is registered, and generates.
Create(t) ==
  /\ Ready(t, "create")
  /\ origins' = origins \cup {Session(t)}
  /\ acting' = acting \cup {Session(t)}
  /\ Goto(t, At("generate", fiber[t].role, "pending", NoScore))
  /\ UNCHANGED <<store, run, refs, dirs, history>>

\* Mutant: the name of the operation is taken for a status.
ExecutorFailsUnmapped(t, outcome) ==
  /\ Goto(t, Decided("generate", NoScore))
  /\ UNCHANGED <<dirs, stray>>

\* Executor.run failed: the status of the operation that failed, or that of a
\* missing verdict; the directory of the judge is cleaned up.
ExecutorFails(t, outcome) ==
  IF fiber[t].role = "judge"
    THEN /\ Goto(t, Decided("judge-unavailable", NoScore))
         /\ CleanUp({Session(t)})
    ELSE /\ Goto(t, Decided(outcome, NoScore))
         /\ UNCHANGED <<dirs, stray>>

\* An unknown model, or no session.
CreateFails(t) ==
  /\ Ready(t, "create")
  /\ ExecutorFails(t, "interrupted")
  /\ UNCHANGED <<store, run, refs, origins, acting, adrift, halted>>

\* An error of the host, or an empty text.
GenerateFails(t) ==
  /\ Ready(t, "generate")
  /\ acting' = acting \ {Session(t)}
  /\ origins' = origins \ {Session(t)}
  /\ ExecutorFails(t, "llm-error")
  /\ UNCHANGED <<store, run, refs, adrift, halted>>

\* Mutant: the origin is released before the session is interrupted.
TimeOutReleasing(t) ==
  /\ Ready(t, "generate")
  /\ Goto(t, At("interrupt", fiber[t].role, "pending", NoScore))
  /\ origins' = origins \ {Session(t)}
  /\ UNCHANGED <<store, run, refs, dirs, acting, history>>

\* The time is over: the host is asked to interrupt the session.
TimeOut(t) ==
  /\ Ready(t, "generate")
  /\ Goto(t, At("interrupt", fiber[t].role, "pending", NoScore))
  /\ UNCHANGED <<store, run, refs, child, history>>

\* It answered, or failed to, which is ignored; onExit releases the origin.
AfterInterrupt(t) ==
  /\ Ready(t, "interrupt")
  /\ \/ acting' = acting \ {Session(t)} /\ UNCHANGED adrift
     \/ adrift' = adrift \cup {Session(t)} /\ UNCHANGED acting
  /\ origins' = origins \ {Session(t)}
  /\ ExecutorFails(t, "timeout")
  /\ UNCHANGED <<store, run, refs, halted>>

\* The candidate's answer: its origin stays until the outcome is recorded.
Answer(t) ==
  /\ Ready(t, "generate")
  /\ fiber[t].role = "candidate"
  /\ acting' = acting \ {Session(t)}
  /\ \/ Goto(t, Decided("contract-invalid", NoScore))
     \/ Goto(t, At("workspace", "judge", "pending", NoScore))
  /\ UNCHANGED <<store, run, refs, origins, dirs, history>>

\* The judge's answer: a verdict, or none.  Its origin stays.
Verdict(t) ==
  /\ Ready(t, "generate")
  /\ fiber[t].role = "judge"
  /\ acting' = acting \ {Session(t)}
  /\ CleanUp({Session(t)})
  /\ \/ \E value \in Scores : Goto(t, Decided("scored", value))
     \/ Goto(t, Decided("judge-unavailable", NoScore))
  /\ UNCHANGED <<store, run, refs, origins, adrift, halted>>
-----------------------------------------------------------------------------
(* The end of a trial *)

\* Mutant: the origin is not released.
RecordHolding(t) ==
  /\ Ready(t, "complete")
  /\ row[t] = "pending"
  /\ row' = [row EXCEPT ![t] = fiber[t].outcome]
  /\ score' = [score EXCEPT ![t] = fiber[t].score]
  /\ Goto(t, At("end", "candidate", "pending", NoScore))
  /\ UNCHANGED <<job, leader, events, traced, run, refs, child, history>>

\* completeTrial: status and score in one transaction, then the origin of the
\* candidate is released.
Record(t) ==
  /\ Ready(t, "complete")
  /\ IF row[t] = "pending"
       THEN /\ row' = [row EXCEPT ![t] = fiber[t].outcome]
            /\ score' = [score EXCEPT ![t] = fiber[t].score]
       ELSE UNCHANGED <<row, score>>
  /\ origins' = origins \ {Session(t)}
  /\ Goto(t, At("end", "candidate", "pending", NoScore))
  /\ UNCHANGED <<job, leader, events, traced, run, refs, dirs, acting, history>>

\* The transaction fails: origin and directory are given back, the trial fails.
RecordFails(t) ==
  /\ Ready(t, "complete")
  /\ origins' = origins \ {Session(t)}
  /\ CleanUp({Session(t)})
  /\ Goto(t, Over)
  /\ run' = "stopping"
  /\ UNCHANGED <<store, refs, acting, adrift, halted>>

\* recordTrace and cleanupWorkspace, whose failures are ignored.
End(t) ==
  /\ fiber[t].pc = "end"
  /\ \/ traced' = traced \cup {t}
     \/ UNCHANGED traced
  /\ CleanUp({Session(t)})
  /\ Goto(t, Over)
  /\ UNCHANGED <<job, row, score, leader, events, run, refs, origins, acting, adrift, halted>>

\* Mutant: the directory is removed on the regular way only.
InterruptedKeeping(t) ==
  /\ run = "stopping"
  /\ fiber[t].pc \in {"workspace", "create", "generate", "interrupt", "complete"}
  /\ origins' = origins \ {Session(t)}
  /\ adrift' = adrift \cup (acting \cap {Session(t)})
  /\ halted' = halted \cup {t}
  /\ Goto(t, Over)
  /\ UNCHANGED <<store, run, refs, dirs, acting, stray>>

\* The fiber is interrupted: the finalizers it has reached release the session
\* it waits for and clean up its directories, of which those may stay that cannot
\* be removed or are just being made; no one interrupts the session.  The
\* transaction that records an outcome may have begun, with its finalizer, or not.
Interrupted(t) ==
  /\ run = "stopping"
  /\ fiber[t].pc \in {"workspace", "create", "generate", "interrupt", "complete"}
  /\ \/ origins' = origins \ {Session(t)}
     \/ fiber[t].pc = "complete" /\ UNCHANGED origins
  /\ LET own == {x \in dirs : x[1] = t}
         made == IF fiber[t].pc = "workspace" THEN {Session(t)} ELSE {}
     IN  \E left \in SUBSET ((own \cap Stuck) \cup made) :
           /\ dirs' = (dirs \ own) \cup left
           /\ stray' = stray \cup left
  /\ adrift' = adrift \cup (acting \cap {Session(t)})
  /\ halted' = halted \cup {t}
  /\ Goto(t, Over)
  /\ UNCHANGED <<store, run, refs, acting>>
-----------------------------------------------------------------------------
(* The caller and the host *)

\* The caller of the tool is interrupted while trials run.
Cancel ==
  /\ run = "trials"
  /\ run' = "stopping"
  /\ UNCHANGED <<store, refs, fiber, child, history>>

\* A session that nobody waits for comes to its end.
HostStops(x) ==
  /\ x \in acting \cap adrift
  /\ acting' = acting \ {x}
  /\ adrift' = adrift \ {x}
  /\ UNCHANGED <<store, run, refs, fiber, origins, dirs, stray, halted>>

Crash ==
  /\ run # "over"
  /\ run' = "over"
  /\ refs' = [t \in Trials |-> NoScore]
  /\ fiber' = [t \in Trials |-> Over]
  /\ origins' = {}
  /\ acting' = {} /\ adrift' = {}
  /\ stray' = dirs
  /\ halted' = {}
  /\ UNCHANGED <<store, dirs>>
-----------------------------------------------------------------------------
Run == CreateJob \/ CreateTrials \/ Start \/ Collect \/ CloseJob \/ RunFails \/ Stop

Fiber(t) ==
  \/ Begin(t) \/ MakeDirectory(t) \/ NoDirectory(t) \/ NoJudge(t)
  \/ Create(t) \/ CreateFails(t) \/ GenerateFails(t)
  \/ TimeOut(t) \/ AfterInterrupt(t) \/ Answer(t) \/ Verdict(t)
  \/ Record(t) \/ RecordFails(t) \/ End(t) \/ Interrupted(t)

Next ==
  \/ Run
  \/ \E t \in Trials : Fiber(t)
  \/ \E x \in Sessions : HostStops(x)
  \/ Cancel
  \/ Crash

Spec == Init /\ [][Next]_vars

\* The run and its fibers go on: Effect's scheduler is fair, a generation ends
\* under its timeout, and host and store answer.
FairSpec == Spec /\ WF_vars(Run) /\ \A t \in Trials : WF_vars(Fiber(t))
-----------------------------------------------------------------------------
(* Properties *)

TypeOK ==
  /\ job \in {"none", "running", "completed", "failed"}
  /\ row \in [Trials -> {"absent", "pending"} \cup Terminal]
  /\ score \in [Trials -> Scores \cup {NoScore}]
  /\ leader \in Trials \cup {NoTrial}
  /\ events \subseteq {"job.started", "job.completed"}
  /\ traced \subseteq Trials
  /\ run \in RunSteps
  /\ refs \in [Trials -> Scores \cup {NoScore}]
  /\ fiber \in [Trials -> [pc : Steps, role : Roles, outcome : Terminal \cup {"pending"},
                           score : Scores \cup {NoScore}]]
  /\ origins \subseteq Sessions /\ dirs \subseteq Sessions /\ acting \subseteq Sessions
  /\ adrift \subseteq Sessions /\ stray \subseteq Sessions /\ halted \subseteq Trials

\* The store tells the life of a job as TrialLife promises it, whatever fails,
\* is interrupted or crashes on the way. (task/Store.ts:8-13)
Life == INSTANCE TrialLife WITH
  Totals <- {s.total : s \in Scores},
  NoTotal <- NoScore,
  status <- row,
  total <- [t \in Trials |-> IF score[t] = NoScore THEN NoScore ELSE score[t].total]

LifeSpec == Life!Spec

\* A session in which the host generates is registered, and so read-only,
\* unless it was left adrift. (Executor.ts:180, 222-232)
ActingIsReadOnly == acting \ adrift \subseteq origins

\* The candidate of a trial that is over is not registered any more, however the
\* trial ended, unless its fiber was interrupted. (Runner.ts:327, 365, 415)
CandidatesAreReleased ==
  \A t \in Trials \ halted : fiber[t].pc = "over" => <<t, "candidate">> \notin origins

\* When a job has ended no session of it is registered: "origin cleanup runs in
\* ensuring". (Executor.ts:16-17)
OriginsAreReleased == job \in {"completed", "failed"} => origins = {}

\* A directory exists only while the fiber that made it uses it, unless it was
\* abandoned or could not be removed. (Runner.ts:208, 445)
DirectoriesAreRemoved ==
  \A x \in dirs \ stray : Running(x[1]) /\ (x[2] = "judge" => fiber[x[1]].role = "judge")

\* The history tells the end of a job that has ended and of no other, and a
\* trial is traced only when it is recorded. (Store.ts:746-791)
HistoryTells ==
  /\ job \in {"completed", "failed"} <=> "job.completed" \in events
  /\ "job.completed" \in events => "job.started" \in events
  /\ \A t \in traced : row[t] \in Terminal

\* A run ends, with its job or without it. (Runner.ts:458-556)
RunEnds == <>(run = "over")
=============================================================================
