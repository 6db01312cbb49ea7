----------------------------- MODULE TrialLife -----------------------------
(***************************************************************************)
(* What a benchmark job promises to whoever reads its store, whatever      *)
(* happened to the run that wrote it: its trials appear together, each     *)
(* leaves pending at most once, a total is kept for the scored ones and no *)
(* other, and a job ends once, when no trial is pending, with a leader of  *)
(* the highest total.  (docs/spec/06-benchmark-store-spec.md)              *)
(***************************************************************************)
EXTENDS Integers

CONSTANTS
  Trials,   \* the trials of the job
  Totals,   \* the totals a score can have
  NoTotal,  \* no total
  NoTrial   \* no leader

Failures == {"contract-invalid", "llm-error", "timeout", "interrupted", "judge-unavailable"}
Terminal == Failures \cup {"scored"}
Ended == {"completed", "failed"}

VARIABLES
  job,     \* status of the job, or "none"
  status,  \* trial -> status, or "absent"
  total,   \* trial -> total
  leader

vars == <<job, status, total, leader>>

Init ==
  /\ job = "none"
  /\ status = [t \in Trials |-> "absent"]
  /\ total = [t \in Trials |-> NoTotal]
  /\ leader = NoTrial

Open ==
  /\ job = "none"
  /\ job' = "running"
  /\ UNCHANGED <<status, total, leader>>

Enter ==
  /\ job = "running"
  /\ \A t \in Trials : status[t] = "absent"
  /\ status' = [t \in Trials |-> "pending"]
  /\ UNCHANGED <<job, total, leader>>

Fail(t, outcome) ==
  /\ job = "running"
  /\ status[t] = "pending"
  /\ status' = [status EXCEPT ![t] = outcome]
  /\ UNCHANGED <<job, total, leader>>

Score(t, value) ==
  /\ job = "running"
  /\ status[t] = "pending"
  /\ status' = [status EXCEPT ![t] = "scored"]
  /\ total' = [total EXCEPT ![t] = value]
  /\ UNCHANGED <<job, leader>>

Scored == {t \in Trials : status[t] = "scored"}

Close ==
  /\ job = "running"
  /\ \A t \in Trials : status[t] \in Terminal
  /\ \/ /\ Scored = {}
        /\ job' = "failed"
        /\ leader' = NoTrial
     \/ \E best \in Scored :
          /\ \A t \in Scored : total[t] <= total[best]
          /\ job' = "completed"
          /\ leader' = best
  /\ UNCHANGED <<status, total>>

Next ==
  \/ Open
  \/ Enter
  \/ \E t \in Trials, outcome \in Failures : Fail(t, outcome)
  \/ \E t \in Trials, value \in Totals : Score(t, value)
  \/ Close

Spec == Init /\ [][Next]_vars
=============================================================================
