------------------------------- MODULE Suite -------------------------------
(***************************************************************************)
(* Runner.runTask of compound-kit (Suite.ts) over Env (Env.ts): a trial    *)
(* takes its key, makes a workspace of its own on disk, runs a blueprint   *)
(* and its acceptance criteria in it, and gives both up.                   *)
(*                                                                         *)
(* Each runner keeps its keys and its counter in memory; the directories   *)
(* of all runners lie under one root.  A path is the label of the trial,   *)
(* the counter and the clock; a label that fills the 120 characters of     *)
(* Env.ts:106 cuts the counter off.  The owner marker of a directory is    *)
(* what destroy reads of it: none or unreadable, this root's or another's. *)
(***************************************************************************)
EXTENDS Integers, FiniteSets

CONSTANTS
  Attempts,     \* calls of runTask
  Asks,         \* what they may be for together: attempt -> runner and key
  TrialKeys,         \* blueprint, model, task and trial
  LabelOf,      \* key -> task, model and trial: the path does not tell the blueprint
  Runners,      \* runners, in processes of their own
  Long,         \* labels that cut the counter off
  Fixtures,     \* \subseteq {"plain", "marked"}: fixtureDir holds a marker or not; {} for no fixtureDir
  Criteria,     \* criterion -> "command" or "judge"
  Hours,        \* readings of the clock (bound)
  MaxCrashes,   \* crashes (bound)
  Nowhere

Paths == {LabelOf[k] : k \in TrialKeys} \X (0 .. Cardinality(Attempts)) \X (0 .. Hours)

ASSUME SuiteAssumption ==
  /\ Asks \subseteq [Attempts -> Runners \X TrialKeys]
  /\ Hours \in Nat /\ MaxCrashes \in Nat
  /\ Fixtures \subseteq {"plain", "marked"}
  /\ \A c \in DOMAIN Criteria : Criteria[c] \in {"command", "judge"}
  /\ Nowhere \notin Paths

ASSUME AttemptsAssumption == IsFiniteSet(Attempts)

VARIABLES
  asked,      \* attempt -> the runner and the key it is for
  place,      \* attempt -> where the fiber is
  keys,       \* the keys each runner holds: <<runner, key>>
  counter,    \* runner -> workspaces it has named
  hour,       \* the clock
  marker,     \* path -> the marker of the directory, or "absent"
  workspace,  \* attempt -> its path
  outcome,    \* attempt -> how it ended
  left,       \* attempts whose directory destroy left (history)
  crashes     \* crashes so far

suiteVars == <<asked, place, keys, counter, hour, marker, workspace, outcome, left, crashes>>

AttemptPlaces == {"idle", "create", "mkdir", "stamp", "copy", "created", "run", "destroy", "remove",
           "release", "over"}
Creating == {"create", "mkdir", "stamp", "copy", "created"}
Outcomes == {"none", "duplicate", "not created", "stopped", "crashed",
             "passed", "not passed"}

SuiteInit ==
  /\ asked \in Asks
  /\ place = [a \in Attempts |-> "idle"]
  /\ keys = {}
  /\ counter = [r \in Runners |-> 0]
  /\ hour = 0
  /\ marker = [p \in Paths |-> "absent"]
  /\ workspace = [a \in Attempts |-> Nowhere]
  /\ outcome = [a \in Attempts |-> "none"]
  /\ left = {}
  /\ crashes = 0

Advances(a, next) == place' = [place EXCEPT ![a] = next]

EndsWith(a, result) ==
  /\ Advances(a, "over")
  /\ outcome' = [outcome EXCEPT ![a] = result]

ClockTick ==
  /\ hour < Hours
  /\ hour' = hour + 1
  /\ UNCHANGED <<asked, place, keys, counter, marker, workspace, outcome, left, crashes>>

TakeKey(a) ==
  /\ place[a] = "idle"
  /\ IF asked[a] \in keys
     THEN EndsWith(a, "duplicate") /\ keys' = keys
     ELSE /\ keys' = keys \cup {asked[a]}
          /\ Advances(a, "create")
          /\ outcome' = outcome
  /\ UNCHANGED <<asked, counter, hour, marker, workspace, left, crashes>>

-----------------------------------------------------------------------------
(* Env.create.  The ensuring that releases the key is not attached yet *)

NameWorkspace(a) ==
  /\ place[a] = "create"
  /\ counter' = [counter EXCEPT ![asked[a][1]] = @ + 1]
  /\ LET label == LabelOf[asked[a][2]] IN
     workspace' = [workspace EXCEPT ![a] =
       <<label, IF label \in Long THEN 0 ELSE counter[asked[a][1]] + 1, hour>>]
  /\ Advances(a, "mkdir")
  /\ UNCHANGED <<asked, keys, hour, marker, outcome, left, crashes>>

\* Mutant: with recursive set, a directory that is there will do.
MakeAnyWorkspace(a) ==
  /\ place[a] = "mkdir"
  /\ marker' = [marker EXCEPT ![workspace[a]] = IF @ = "absent" THEN "none" ELSE @]
  /\ Advances(a, "stamp")
  /\ UNCHANGED <<asked, keys, counter, hour, workspace, outcome, left, crashes>>

\* makeDirectory fails when the directory is there.
MakeWorkspace(a) ==
  /\ place[a] = "mkdir"
  /\ marker[workspace[a]] = "absent"
  /\ marker' = [marker EXCEPT ![workspace[a]] = "none"]
  /\ Advances(a, "stamp")
  /\ UNCHANGED <<asked, keys, counter, hour, workspace, outcome, left, crashes>>

\* A temporary file, then a rename.
StampOwnership(a) ==
  /\ place[a] = "stamp"
  /\ marker' = [marker EXCEPT ![workspace[a]] = "own"]
  /\ Advances(a, IF Fixtures = {} THEN "created" ELSE "copy")
  /\ UNCHANGED <<asked, keys, counter, hour, workspace, outcome, left, crashes>>

\* The copy overwrites what is there, the marker too.
CopyFixture(a) ==
  /\ place[a] = "copy"
  /\ \E f \in Fixtures :
       marker' = [marker EXCEPT ![workspace[a]] = IF f = "marked" THEN "other" ELSE @]
  /\ Advances(a, "created")
  /\ UNCHANGED <<asked, keys, counter, hour, workspace, outcome, left, crashes>>

\* A task id that is no file name, no fixture, a failing step or an
\* interruption: the attempt fails, and keeps its key.
NotCreated(a) ==
  /\ place[a] \in Creating
  /\ EndsWith(a, "not created")
  /\ UNCHANGED <<asked, keys, counter, hour, marker, workspace, left, crashes>>

-----------------------------------------------------------------------------
(* runInWorkspace *)

EnterWorkspace(a) ==
  /\ place[a] = "created"
  /\ Advances(a, "run")
  /\ UNCHANGED <<asked, keys, counter, hour, marker, workspace, outcome, left, crashes>>

\* The blueprint's commands run in the workspace: they may write the marker or
\* remove it.  That they remove the directory they work in is left out.
Meddle(a) ==
  /\ place[a] = "run"
  /\ \E m \in {"none", "other"} : marker' = [marker EXCEPT ![workspace[a]] = m]
  /\ UNCHANGED <<asked, place, keys, counter, hour, workspace, outcome, left, crashes>>

\* What a criterion can come to, and what it must come to.
Comes(kind) == IF kind = "command" THEN {"exit 0", "exit 1", "timed out", "no exit"}
               ELSE {"score", "low score"}
Meets(result) == result \in {"exit 0", "score"}

RunEnds(a) ==
  /\ place[a] = "run"
  /\ \E results \in [DOMAIN Criteria -> UNION {Comes(Criteria[c]) : c \in DOMAIN Criteria}] :
       /\ \A c \in DOMAIN Criteria : results[c] \in Comes(Criteria[c])
       /\ outcome' = [outcome EXCEPT ![a] =
            IF DOMAIN Criteria # {} /\ \A c \in DOMAIN Criteria : Meets(results[c])
            THEN "passed" ELSE "not passed"]
  /\ Advances(a, "destroy")
  /\ UNCHANGED <<asked, keys, counter, hour, marker, workspace, left, crashes>>

\* The model fails, or the attempt is interrupted: the finalizers run.
RunStops(a) ==
  /\ place[a] = "run"
  /\ outcome' = [outcome EXCEPT ![a] = "stopped"]
  /\ Advances(a, "destroy")
  /\ UNCHANGED <<asked, keys, counter, hour, marker, workspace, left, crashes>>

\* Env.destroy removes only what carries a marker of its own root.
Destroy(a) ==
  /\ place[a] = "destroy"
  /\ IF marker[workspace[a]] = "own"
     THEN Advances(a, "remove") /\ left' = left
     ELSE Advances(a, "release") /\ left' = left \cup {a}
  /\ UNCHANGED <<asked, keys, counter, hour, marker, workspace, outcome, crashes>>

RemoveWorkspace(a) ==
  /\ place[a] = "remove"
  /\ marker' = [marker EXCEPT ![workspace[a]] = "absent"]
  /\ Advances(a, "release")
  /\ UNCHANGED <<asked, keys, counter, hour, workspace, outcome, left, crashes>>

\* A removal that fails is logged; it may have removed the marker by then.
RemoveFails(a) ==
  /\ place[a] = "remove"
  /\ \E m \in {"own", "none"} : marker' = [marker EXCEPT ![workspace[a]] = m]
  /\ left' = left \cup {a}
  /\ Advances(a, "release")
  /\ UNCHANGED <<asked, keys, counter, hour, workspace, outcome, crashes>>

ReleaseKey(a) ==
  /\ place[a] = "release"
  /\ keys' = keys \ {asked[a]}
  /\ Advances(a, "over")
  /\ UNCHANGED <<asked, counter, hour, marker, workspace, outcome, left, crashes>>

\* The process of a runner dies and starts anew: the directories stay.
CrashRunner(r) ==
  /\ crashes < MaxCrashes
  /\ crashes' = crashes + 1
  /\ keys' = {k \in keys : k[1] # r}
  /\ counter' = [counter EXCEPT ![r] = 0]
  /\ LET dead == {a \in Attempts : asked[a][1] = r /\ place[a] \notin {"idle", "over"}} IN
     /\ place' = [a \in Attempts |-> IF a \in dead THEN "over" ELSE place[a]]
     /\ outcome' = [a \in Attempts |-> IF a \in dead THEN "crashed" ELSE outcome[a]]
  /\ UNCHANGED <<asked, hour, marker, workspace, left>>

SuiteNext ==
  \/ ClockTick
  \/ \E a \in Attempts :
       \/ TakeKey(a) \/ NameWorkspace(a) \/ MakeWorkspace(a) \/ StampOwnership(a)
       \/ CopyFixture(a) \/ NotCreated(a) \/ EnterWorkspace(a) \/ Meddle(a)
       \/ RunEnds(a) \/ RunStops(a) \/ Destroy(a) \/ RemoveWorkspace(a)
       \/ RemoveFails(a) \/ ReleaseKey(a)
  \/ \E r \in Runners : CrashRunner(r)

SuiteSpec == SuiteInit /\ [][SuiteNext]_suiteVars

-----------------------------------------------------------------------------
(* Properties *)

SuiteTypeOK ==
  /\ asked \in [Attempts -> Runners \X TrialKeys]
  /\ place \in [Attempts -> AttemptPlaces]
  /\ keys \subseteq Runners \X TrialKeys
  /\ counter \in [Runners -> 0 .. Cardinality(Attempts)]
  /\ hour \in 0 .. Hours
  /\ marker \in [Paths -> {"absent", "none", "own", "other"}]
  /\ workspace \in [Attempts -> Paths \cup {Nowhere}]
  /\ outcome \in [Attempts -> Outcomes]
  /\ left \subseteq Attempts
  /\ crashes \in 0 .. MaxCrashes

InWorkspace(a) == place[a] \in {"stamp", "copy", "created", "run", "destroy", "remove"}
HoldsKey(a) == place[a] \notin {"idle", "over"}

\* Two trials at work never share a directory, whatever runner they belong to,
\* nor, in one runner, a key; the directory is there while its trial is.  A
\* key or a directory that nobody uses was left by an attempt whose workspace
\* could not be made, by a crash (the directory only), or by a removal that
\* failed or was refused: any other trial gives up both (Suite.ts:129-216,
\* Env.ts:84-181).
TrialsKeepApart ==
  /\ \A a \in Attempts :
       /\ HoldsKey(a) => asked[a] \in keys
       /\ InWorkspace(a) => marker[workspace[a]] # "absent"
  /\ \A a, b \in Attempts : a # b =>
       /\ InWorkspace(a) /\ InWorkspace(b) => workspace[a] # workspace[b]
       /\ HoldsKey(a) /\ HoldsKey(b) => asked[a] # asked[b]
  /\ \A k \in keys : \E a \in Attempts :
       asked[a] = k /\ (HoldsKey(a) \/ outcome[a] = "not created")
  /\ \A p \in Paths : marker[p] # "absent" => \E a \in Attempts :
       /\ workspace[a] = p
       /\ InWorkspace(a) \/ a \in left \/ outcome[a] \in {"not created", "crashed"}
=============================================================================
