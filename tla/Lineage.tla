------------------------------ MODULE Lineage ------------------------------
(***************************************************************************)
(* The evolution of one blueprint (compound-kit/src/Evolution.ts) saved by *)
(* several processes through Store.saveLineage.  Every operation works on  *)
(* the lineage its caller holds and replaces the stored one whole.         *)
(***************************************************************************)
EXTENDS Integers, Sequences

CONSTANTS
  Evolvers,    \* processes that evolve the blueprint
  Scores,      \* scores of a candidate
  Evaluators,  \* evaluator versions
  MaxCommits,  \* commits in a lineage (bound)
  MaxAttempts, \* attempts in a lineage (bound)
  NoLineage    \* nothing stored or held

ASSUME LineageAssumption == Scores \subseteq Int /\ MaxCommits \in Nat /\ MaxAttempts \in Nat

Points == [train : Scores, holdout : Scores]
Candidates ==
  [version : 1 .. MaxCommits + 1, score : Points, verified : BOOLEAN, evaluator : Evaluators]
Lineages ==
  [baseline : Points, evaluator : Evaluators, best : Points,
   committed : Seq(Points), attempts : Nat, sinceCommit : Nat]

ASSUME NoLineageAssumption == NoLineage \notin Lineages

VARIABLES
  stored,      \* <id>.lineage.json
  view,        \* process -> the lineage it holds
  answered,    \* the commits answered to a caller since the baseline (history)
  overwritten  \* a save replaced a lineage its process did not hold (history)

lineageVars == <<stored, view, answered, overwritten>>

LineageInit ==
  /\ stored = NoLineage
  /\ view = [e \in Evolvers |-> NoLineage]
  /\ answered = <<>>
  /\ overwritten = FALSE

Fresh(score, evaluator) ==
  [baseline |-> score, evaluator |-> evaluator, best |-> score,
   committed |-> <<>>, attempts |-> 0, sinceCommit |-> 0]

Promoted(l, score) ==
  [baseline |-> l.baseline, evaluator |-> l.evaluator, best |-> score,
   committed |-> Append(l.committed, score), attempts |-> l.attempts, sinceCommit |-> 0]

Attempted(l) ==
  [baseline |-> l.baseline, evaluator |-> l.evaluator, best |-> l.best,
   committed |-> l.committed, attempts |-> l.attempts + 1,
   sinceCommit |-> l.sinceCommit + 1]

\* A mutant: a better train score is enough.
BetterOnTrain(score, best) == score.train > best.train

Better(score, best) == score.train > best.train /\ score.holdout > best.holdout

\* Saved under the lock with one rename; the caller then holds what it saved.
Save(e, l) ==
  /\ stored' = l
  /\ view' = [view EXCEPT ![e] = l]
  /\ overwritten' = (overwritten \/ view[e] # stored)

Load(e) ==
  /\ stored # NoLineage
  /\ view' = [view EXCEPT ![e] = stored]
  /\ UNCHANGED <<stored, answered, overwritten>>

\* The baseline starts over and keeps nothing of a lineage that was stored.
EstablishBaseline(e) ==
  \E score \in Points, evaluator \in Evaluators :
    /\ stored' = Fresh(score, evaluator)
    /\ view' = [view EXCEPT ![e] = Fresh(score, evaluator)]
    /\ answered' = <<>>
    /\ overwritten' = FALSE

Promotable(l, c) ==
  /\ c.evaluator = l.evaluator
  /\ c.verified
  /\ c.version = Len(l.committed) + 1
  /\ Better(c.score, l.best)

\* stale-evaluator, verification-failed, version-conflict, score-regression;
\* a save that fails on the lock or the write leaves the same state.
RefuseCandidate(e) ==
  /\ view[e] # NoLineage
  /\ {c \in Candidates : ~Promotable(view[e], c)} # {}
  /\ UNCHANGED lineageVars

Commit(e) ==
  /\ view[e] # NoLineage
  /\ Len(view[e].committed) < MaxCommits
  /\ \E c \in Candidates :
       /\ Promotable(view[e], c)
       /\ Save(e, Promoted(view[e], c.score))
       /\ answered' = Append(answered, c.score)

\* The process dies after the rename and before the answer.
CommitAndDie(e) ==
  /\ view[e] # NoLineage
  /\ Len(view[e].committed) < MaxCommits
  /\ \E c \in Candidates :
       /\ Promotable(view[e], c)
       /\ stored' = Promoted(view[e], c.score)
  /\ view' = [view EXCEPT ![e] = NoLineage]
  /\ overwritten' = (overwritten \/ view[e] # stored)
  /\ answered' = answered

JournalAttempt(e) ==
  /\ view[e] # NoLineage
  /\ view[e].attempts < MaxAttempts
  /\ Save(e, Attempted(view[e]))
  /\ answered' = answered

LineageNext ==
  \E e \in Evolvers :
      Load(e) \/ EstablishBaseline(e) \/ RefuseCandidate(e) \/ Commit(e)
      \/ CommitAndDie(e) \/ JournalAttempt(e)

LineageSpec == LineageInit /\ [][LineageNext]_lineageVars

LineageTypeOK ==
  /\ stored \in Lineages \cup {NoLineage}
  /\ view \in [Evolvers -> Lineages \cup {NoLineage}]
  /\ answered \in Seq(Points)
  /\ overwritten \in BOOLEAN

Above(p, q) == p.train > q.train /\ p.holdout > q.holdout

Improves(l) ==
  /\ \A i \in 1 .. Len(l.committed) :
       /\ Above(l.committed[i], l.baseline)
       /\ \A j \in 1 .. i - 1 : Above(l.committed[i], l.committed[j])
  /\ l.best = IF l.committed = <<>> THEN l.baseline ELSE l.committed[Len(l.committed)]

Keeps(l, scores) ==
  \A i \in 1 .. Len(scores) : \E j \in 1 .. Len(l.committed) : l.committed[j] = scores[i]

(* Every lineage that is stored or held improves on both scores with every *)
(* version, and its running best is the last one, also when processes      *)
(* overwrite each other: a version that beats the baseline and not the     *)
(* running best is refused (Evolution.ts:149-194).  And a commit that was  *)
(* answered stays in the stored lineage, whatever dies in between, until   *)
(* the baseline is established again and unless a process that held        *)
(* another lineage saved over it: the lock of saveLineage covers the write *)
(* and not the read it is based on (Store.ts:246-260, Evolution.ts:175).   *)
LineageImproves ==
  /\ stored # NoLineage => Improves(stored)
  /\ \A e \in Evolvers : view[e] # NoLineage => Improves(view[e])
  /\ ~overwritten /\ answered # <<>> => stored # NoLineage /\ Keeps(stored, answered)
=============================================================================
