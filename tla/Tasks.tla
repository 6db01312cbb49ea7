------------------------------- MODULE Tasks -------------------------------
(***************************************************************************)
(* The operations of the tool effect_harness_benchmark                     *)
(* (src/benchmark/Tool.ts:337-533) over the tables of the benchmark store  *)
(* (bench-store/src/Store.ts): tasks and their revisions, profiles, the    *)
(* start of a job, and what the status operations answer.                  *)
(*                                                                         *)
(* An operation opens the store anew and runs several statements; the      *)
(* operations of several users interleave between them.  A statement, and  *)
(* what sql.withTransaction encloses, is one step.  What a trial does is   *)
(* in module Benchmark; here it ends with a status and perhaps a score.    *)
(*                                                                         *)
(* A specification is a task, a problem (which stands for the rubric and   *)
(* the other texts) and a list of profiles; a profile is its id.           *)
(***************************************************************************)
EXTENDS Integers, FiniteSets, SequencesExt

CONSTANTS
  Users,        \* calls of the tool that run at once
  TaskIds,
  Problems,
  ProfileLists, \* the lists of profile ids a task may name
  Configured,   \* compound.benchmark.models: the profiles each start stores first
  JudgeProfile, \* compound.benchmark.judgeProfileId, or Absent
  RevisionOf,   \* the hash of a specification
  Trials,       \* the numbers of trials a start may ask for
  ListCap,      \* LIST_CAP: the rows a list answers at most
  Place,        \* profile -> its place in the order of the ids
  MaxOps,       \* operations begun (bound)
  MaxJobs,      \* jobs begun (bound)
  Absent

Specs == [task : TaskIds, problem : Problems, models : ProfileLists]
Profiles == (UNION {Range(l) : l \in ProfileLists}) \cup ({JudgeProfile} \ {Absent})
Revisions == {RevisionOf[s] : s \in Specs}
\* What task.update replaces: the fields given.
Changes == [problem : Problems \cup {Absent}, models : ProfileLists \cup {Absent}]

ASSUME TasksAssumption ==
  /\ RevisionOf \in [Specs -> Revisions]
  /\ <<>> \notin ProfileLists
  /\ Configured \subseteq Profiles
  /\ Trials \subseteq Nat \ {0}
  /\ MaxOps \in Nat
  /\ ListCap \in Nat
  /\ Place \in [Profiles -> Nat]
  /\ Absent \notin Problems \cup ProfileLists \cup Specs \cup Revisions \cup Profiles

VARIABLES
  revisions, \* task_revisions: revision -> specification, or Absent
  current,   \* tasks: task -> current_revision, or Absent
  profiles,  \* model_profiles: the ids stored
  jobs,      \* benchmark_jobs, in the order of their creation, with their trials,
             \* scores and events
  op,        \* user -> the operation under way
  ops,       \* operations begun
  promised   \* task -> the fields its last answers promise (history)

taskVars == <<revisions, current, profiles, jobs, op, ops, promised>>

OpSteps == {"idle", "update", "resolve", "job", "trials", "history", "run",
          "list trials", "list scores", "answer"}
TrialEnds == {"scored", "failed"}
TrialIds == Profiles \X Nat
NoOp == [at |-> "idle", task |-> Absent, read |-> Absent, change |-> Absent, trials |-> 0,
         judge |-> Absent, with |-> {}, job |-> 0, told |-> Absent]
NoPromise == [problem |-> Absent, models |-> Absent]

TasksInit ==
  /\ revisions = [r \in Revisions |-> Absent]
  /\ current = [t \in TaskIds |-> Absent]
  /\ profiles = {}
  /\ jobs = <<>>
  /\ op = [u \in Users |-> NoOp]
  /\ ops = 0
  /\ promised = [t \in TaskIds |-> NoPromise]

Opens(u) ==
  /\ op[u].at = "idle"
  /\ ops < MaxOps
  /\ ops' = ops + 1
Leaves(u) == op' = [op EXCEPT ![u] = NoOp]

\* getTask: the specification of the current revision.
SpecOfTask(t) == IF current[t] = Absent THEN Absent ELSE revisions[current[t]]

Merged(spec, change) ==
  [spec EXCEPT
     !.problem = IF change.problem = Absent THEN @ ELSE change.problem,
     !.models = IF change.models = Absent THEN @ ELSE change.models]

-----------------------------------------------------------------------------
(* Tasks: upsertTask is one transaction; task.update reads before it *)

\* A revision is a hash: another specification may hold it.  If it is one of
\* the same task the contents differ, else the insertion breaks the primary key.
MayStore(spec) == revisions[RevisionOf[spec]] \in {Absent, spec}

\* Mutant: the task keeps the revision it was inserted with.
StoredAside(spec) ==
  IF revisions[RevisionOf[spec]] = spec
  THEN UNCHANGED <<revisions, current>>
  ELSE /\ revisions' = [revisions EXCEPT ![RevisionOf[spec]] = spec]
       /\ current' = [current EXCEPT ![spec.task] = IF @ = Absent THEN RevisionOf[spec] ELSE @]

\* A specification stored before is answered as it is, and the task keeps
\* its current revision.
Stored(spec) ==
  IF revisions[RevisionOf[spec]] = spec
  THEN UNCHANGED <<revisions, current>>
  ELSE /\ revisions' = [revisions EXCEPT ![RevisionOf[spec]] = spec]
       /\ current' = [current EXCEPT ![spec.task] = RevisionOf[spec]]

\* What the answer promises: the fields it was given and those it read, if
\* they were still those of the task; nothing, if it answered with a revision
\* that is not the current one.
Promise(spec, change, fresh) ==
  IF revisions[RevisionOf[spec]] = spec /\ current[spec.task] # RevisionOf[spec]
  THEN NoPromise
  ELSE IF fresh THEN Merged(promised[spec.task], change)
  ELSE change

TaskCreate(u) ==
  /\ Opens(u)
  /\ \E spec \in Specs :
       IF MayStore(spec)
       THEN /\ Stored(spec)
            /\ promised' = [promised EXCEPT
                 ![spec.task] = Promise(spec, [problem |-> spec.problem, models |-> spec.models], TRUE)]
       ELSE UNCHANGED <<revisions, current, promised>>
  /\ UNCHANGED <<profiles, jobs, op>>

TaskUpdate(u) ==
  /\ Opens(u)
  /\ \E t \in TaskIds, change \in Changes :
       /\ current[t] # Absent
       /\ op' = [op EXCEPT ![u] =
                   [NoOp EXCEPT !.at = "update", !.task = t, !.read = SpecOfTask(t),
                                !.change = change]]
  /\ UNCHANGED <<revisions, current, profiles, jobs, promised>>

UpdateTask(u) ==
  /\ op[u].at = "update"
  /\ LET spec == Merged(op[u].read, op[u].change) IN
     IF MayStore(spec)
     THEN /\ Stored(spec)
          /\ promised' = [promised EXCEPT ![spec.task] =
               Promise(spec, op[u].change, op[u].read = SpecOfTask(spec.task))]
     ELSE UNCHANGED <<revisions, current, promised>>
  /\ Leaves(u)
  /\ UNCHANGED <<profiles, jobs, ops>>

ProfileAdd(u) ==
  /\ Opens(u)
  /\ \E p \in Profiles : profiles' = profiles \cup {p}
  /\ UNCHANGED <<revisions, current, jobs, op, promised>>

\* task.get, task.list and profile.list, and any operation on something the
\* store does not know, only answer.

-----------------------------------------------------------------------------
(* benchmark.start *)

\* seedProfiles, and the task.
BenchmarkStart(u) ==
  /\ Opens(u)
  /\ Cardinality({v \in Users : op[v].at \in {"resolve", "job"}}) + Len(jobs) < MaxJobs
  /\ profiles' = profiles \cup Configured
  /\ \E t \in TaskIds, n \in Trials, judge \in Profiles \cup {JudgeProfile} :
       op' = IF current[t] = Absent THEN op
             ELSE [op EXCEPT ![u] =
                    [NoOp EXCEPT !.at = "resolve", !.task = t, !.read = SpecOfTask(t),
                                 !.trials = n, !.judge = judge]]
  /\ UNCHANGED <<revisions, current, jobs, promised>>

\* Mutant: profiles that are not stored are dropped.
SomeResolvable(spec, judge) ==
  judge \in profiles \cup {Absent} /\ Range(spec.models) \cap profiles # {}

\* The judge and every profile of the task must be stored.
Resolvable(spec, judge) == judge \in profiles \cup {Absent} /\ Range(spec.models) \subseteq profiles

ResolveProfiles(u) ==
  /\ op[u].at = "resolve"
  /\ IF Resolvable(op[u].read, op[u].judge)
     THEN op' = [op EXCEPT ![u].at = "job",
                           ![u].with = Range(op[u].read.models) \cap profiles]
     ELSE Leaves(u)
  /\ UNCHANGED <<revisions, current, profiles, jobs, ops, promised>>

\* createJob checks that the revision is stored for the task.
CreateJob(u) ==
  /\ op[u].at = "job"
  /\ IF revisions[RevisionOf[op[u].read]] # Absent /\ revisions[RevisionOf[op[u].read]].task = op[u].task
     THEN /\ jobs' = Append(jobs,
                 [task |-> op[u].task, revision |-> RevisionOf[op[u].read], status |-> "running",
                  rows |-> <<>>, scores |-> {}, leader |-> Absent, events |-> <<>>])
          /\ op' = [op EXCEPT ![u].at = "trials", ![u].job = Len(jobs) + 1]
     ELSE /\ Leaves(u)
          /\ jobs' = jobs
  /\ UNCHANGED <<revisions, current, profiles, ops, promised>>

PendingRows(with, n) == [i \in with \X (1 .. n) |-> "pending"]

\* One transaction for all rows; a list that names a profile twice breaks
\* their primary key, and the job stays as it is.
CreateTrials(u) ==
  /\ op[u].at = "trials"
  /\ IF IsInjective(op[u].read.models)
     THEN /\ jobs' = [jobs EXCEPT ![op[u].job].rows = PendingRows(op[u].with, op[u].trials)]
          /\ op' = [op EXCEPT ![u].at = "history"]
     ELSE /\ Leaves(u)
          /\ jobs' = jobs
  /\ UNCHANGED <<revisions, current, profiles, ops, promised>>

StartHistory(u) ==
  /\ op[u].at = "history"
  /\ jobs' = [jobs EXCEPT ![op[u].job].events = Append(@, "job.started")]
  /\ op' = [op EXCEPT ![u].at = "run"]
  /\ UNCHANGED <<revisions, current, profiles, ops, promised>>

\* completeTrial: the status and the score in one transaction.
CompleteTrial(u) ==
  /\ op[u].at = "run"
  /\ \E i \in DOMAIN jobs[op[u].job].rows, end \in TrialEnds :
       /\ jobs[op[u].job].rows[i] = "pending"
       /\ jobs' = [jobs EXCEPT ![op[u].job].rows[i] = end,
                               ![op[u].job].scores = IF end = "scored" THEN @ \cup {i} ELSE @]
  /\ UNCHANGED <<revisions, current, profiles, op, ops, promised>>

\* completeJob: status, leader and event in one transaction.
CompleteJob(u) ==
  /\ op[u].at = "run"
  /\ \A i \in DOMAIN jobs[op[u].job].rows : jobs[op[u].job].rows[i] # "pending"
  /\ \E status \in {"completed", "failed"}, leader \in jobs[op[u].job].scores \cup {Absent} :
       /\ status = "completed" <=> jobs[op[u].job].scores # {}
       /\ leader # Absent <=> status = "completed"
       /\ jobs' = [jobs EXCEPT ![op[u].job].status = status, ![op[u].job].leader = leader,
                               ![op[u].job].events = Append(@, "job.completed")]
  /\ Leaves(u)
  /\ UNCHANGED <<revisions, current, profiles, ops, promised>>

\* A statement fails, or the call is interrupted: what it has written stays.
OpEnds(u) ==
  /\ op[u].at # "idle"
  /\ Leaves(u)
  /\ UNCHANGED <<revisions, current, profiles, jobs, ops, promised>>

-----------------------------------------------------------------------------
(* benchmark.status: the job, its trials, their scores, one after the other *)

StatusOfJob(u) ==
  /\ Opens(u)
  /\ \E j \in DOMAIN jobs :
       op' = [op EXCEPT ![u] = [NoOp EXCEPT !.at = "list trials", !.job = j,
                                  !.told = [status |-> jobs[j].status, rows |-> <<>>, scores |-> {}]]]
  /\ UNCHANGED <<revisions, current, profiles, jobs, promised>>

\* What a list with a limit may answer of a set of rows.
Cuts(rows) ==
  IF Cardinality(rows) <= ListCap THEN {rows}
  ELSE {cut \in SUBSET rows : Cardinality(cut) = ListCap}

\* Trials are listed by profile and trial.
Precedes(i, k) == Place[i[1]] < Place[k[1]] \/ (i[1] = k[1] /\ i[2] < k[2])
FirstTrials(rows) ==
  {cut \in Cuts(DOMAIN rows) : \A i \in cut, k \in DOMAIN rows \ cut : Precedes(i, k)}

ListTrials(u) ==
  /\ op[u].at = "list trials"
  /\ \E cut \in FirstTrials(jobs[op[u].job].rows) :
       op' = [op EXCEPT ![u].at = "list scores",
                        ![u].told.rows = [i \in cut |-> jobs[op[u].job].rows[i]]]
  /\ UNCHANGED <<revisions, current, profiles, jobs, ops, promised>>

\* benchmark.trial begins here: it lists the trials and then the scores.
TrialOfJob(u) ==
  /\ Opens(u)
  /\ \E j \in DOMAIN jobs : \E cut \in FirstTrials(jobs[j].rows) :
       op' = [op EXCEPT ![u] = [NoOp EXCEPT !.at = "list scores", !.job = j,
                                  !.told = [status |-> "running",
                                            rows |-> [i \in cut |-> jobs[j].rows[i]],
                                            scores |-> {}]]]
  /\ UNCHANGED <<revisions, current, profiles, jobs, promised>>

\* Scores are listed by the time of their scoring, whatever the trial: any
\* of them may be cut off.
ListScores(u) ==
  /\ op[u].at = "list scores"
  /\ \E cut \in Cuts(jobs[op[u].job].scores) :
       op' = [op EXCEPT ![u].at = "answer", ![u].told.scores = cut]
  /\ UNCHANGED <<revisions, current, profiles, jobs, ops, promised>>

\* benchmark.leading and benchmark.history read one table and only answer.

TasksNext ==
  \E u \in Users :
    \/ TaskCreate(u) \/ TaskUpdate(u) \/ UpdateTask(u) \/ ProfileAdd(u)
    \/ BenchmarkStart(u) \/ ResolveProfiles(u) \/ CreateJob(u) \/ CreateTrials(u)
    \/ StartHistory(u) \/ CompleteTrial(u) \/ CompleteJob(u) \/ OpEnds(u)
    \/ StatusOfJob(u) \/ TrialOfJob(u) \/ ListTrials(u) \/ ListScores(u)

TasksSpec == TasksInit /\ [][TasksNext]_taskVars

-----------------------------------------------------------------------------
(* Properties *)

TasksTypeOK ==
  /\ revisions \in [Revisions -> Specs \cup {Absent}]
  /\ current \in [TaskIds -> Revisions \cup {Absent}]
  /\ profiles \subseteq Profiles
  /\ \A j \in DOMAIN jobs :
       /\ jobs[j].task \in TaskIds
       /\ jobs[j].revision \in Revisions
       /\ jobs[j].status \in {"running", "completed", "failed"}
       /\ \A i \in DOMAIN jobs[j].rows : i \in TrialIds /\ jobs[j].rows[i] \in {"pending"} \cup TrialEnds
       /\ jobs[j].scores \subseteq DOMAIN jobs[j].rows
       /\ jobs[j].leader \in jobs[j].scores \cup {Absent}
  /\ \A u \in Users : op[u].at \in OpSteps /\ op[u].job \in 0 .. Len(jobs)
  /\ ops \in 0 .. MaxOps
  /\ promised \in [TaskIds -> Changes]

\* What task.create and task.update answered is in the task, field by field,
\* until another answer replaces it.  An update that writes over one it has
\* not read takes what it took from the older specification with it, and a
\* return to an earlier specification is answered and does not take place
\* (bench-store/src/Store.ts:516-523): these promise less, see Promise.
UpdatesAreKept ==
  \A t \in TaskIds :
    /\ promised[t].problem # Absent => SpecOfTask(t).problem = promised[t].problem
    /\ promised[t].models # Absent => SpecOfTask(t).models = promised[t].models

\* A job runs the profiles of the revision it names, all of them stored, each
\* as often as the others, whatever is updated meanwhile; and no trial is over
\* before the job's history began.  A status that tells of an ended job tells
\* how each of its trials ended, and of any trial told as scored the score is
\* told: up to the limit of a list.  Beyond it (Store.ts:502) trials are left
\* out, and a trial is told as scored without its score, as the two lists are
\* cut in different orders (Store.ts:709, 732; src/benchmark/Tool.ts:448-449).
JobsRunTheirRevision ==
  /\ \A j \in DOMAIN jobs :
       /\ revisions[jobs[j].revision] # Absent
       /\ revisions[jobs[j].revision].task = jobs[j].task
       /\ DOMAIN jobs[j].rows # {} =>
            /\ {i[1] : i \in DOMAIN jobs[j].rows} = Range(revisions[jobs[j].revision].models)
            /\ {i[1] : i \in DOMAIN jobs[j].rows} \subseteq profiles
            /\ \E n \in Trials : \A p \in {i[1] : i \in DOMAIN jobs[j].rows} :
                 {i[2] : i \in {k \in DOMAIN jobs[j].rows : k[1] = p}} = 1 .. n
       /\ jobs[j].events = <<>> => \A i \in DOMAIN jobs[j].rows : jobs[j].rows[i] = "pending"
       /\ jobs[j].status # "running" => Last(jobs[j].events) = "job.completed"
  /\ \A u \in Users :
       LET told == op[u].told IN
       op[u].at = "answer" =>
         /\ told.status # "running" =>
              /\ \A i \in DOMAIN told.rows : told.rows[i] # "pending"
              /\ \/ DOMAIN told.rows = DOMAIN jobs[op[u].job].rows
                 \/ Cardinality(DOMAIN told.rows) = ListCap
         /\ \/ \A i \in DOMAIN told.rows : told.rows[i] = "scored" => i \in told.scores
            \/ Cardinality(told.scores) = ListCap
=============================================================================
