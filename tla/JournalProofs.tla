--------------------------- MODULE JournalProofs ---------------------------
(* Proofs about one journal stream, for any number of processes, callers,  *)
(* requests, entries and corruptions: types, exclusion, durability, who    *)
(* waits for whom, the chain, and what the index of request ids answers.   *)
EXTENDS Journal, TLAPS

USE FibersBelongToInstances, LockValuesDiffer, BoundsAreNaturals, DistinctMarkers

-----------------------------------------------------------------------------
(* Lemmas on lines and chains *)

LEMMA LastHashType ==
  ASSUME NEW s \in Seq(Line), Decodes(s)
  PROVE  LastHash(s) \in Hash
<1>1. CASE Len(s) = 0
  BY <1>1 DEF LastHash, Genesis, Hash
<1>2. CASE Len(s) # 0
  <2>1. Len(s) \in 1..Len(s)
    BY <1>2
  <2>2. s[Len(s)] \in Entry
    BY <2>1 DEF Decodes, Line
  <2> QED BY <1>2, <2>2 DEF LastHash, Entry
<1> QED BY <1>1, <1>2

LEMMA SealType ==
  ASSUME NEW n \in Nat, NEW h \in Hash, NEW p \in Payload
  PROVE  Seal(n, h, p) \in Hash
BY DEF Seal, Hash

LEMMA SealedEntryType ==
  ASSUME NEW s \in Seq(Line), Decodes(s), NEW p \in Payload
  PROVE  SealedEntry(s, p) \in Entry
<1>1. LastHash(s) \in Hash
  BY LastHashType
<1>2. Len(s) \in Nat
  OBVIOUS
<1>3. Seal(Len(s), LastHash(s), p) \in Hash
  BY <1>1, <1>2, SealType
<1> QED BY <1>1, <1>2, <1>3 DEF SealedEntry, Entry

\* Appending a sealed entry to a stream that decodes gives one that decodes.
LEMMA SealingKeepsTheChain ==
  ASSUME NEW s \in Seq(Line), Decodes(s), NEW p \in Payload
  PROVE  Decodes(Append(s, SealedEntry(s, p)))
<1> DEFINE e == SealedEntry(s, p)
           t == Append(s, e)
<1>1. e \in Entry
  BY SealedEntryType
<1>2. /\ Len(t) = Len(s) + 1
      /\ \A i \in 1..Len(s) : t[i] = s[i]
      /\ t[Len(s) + 1] = e
  BY <1>1 DEF Line
<1>3. e.sequence = Len(s) /\ e.payload = p /\ e.previousHash = LastHash(s)
  BY DEF SealedEntry
<1>4. e.hash = Seal(e.sequence, e.previousHash, e.payload)
  BY DEF SealedEntry
<1> HIDE DEF e, t
<1>5. SUFFICES ASSUME NEW i \in 1..Len(t)
      PROVE  /\ t[i] # Garbage
             /\ t[i].sequence = i - 1
             /\ t[i].hash = Seal(t[i].sequence, t[i].previousHash, t[i].payload)
             /\ t[i].previousHash = IF i = 1 THEN Genesis ELSE t[i - 1].hash
  BY DEF Decodes, t, e
<1>6. CASE i \in 1..Len(s)
  BY <1>2, <1>6 DEF Decodes
<1>7. CASE i = Len(s) + 1
  <2>1. LastHash(s) = IF i = 1 THEN Genesis ELSE s[i - 1].hash
    BY <1>7 DEF LastHash
  <2>2. i # 1 => i - 1 \in 1..Len(s)
    BY <1>7
  <2>3. t[i] = e
    BY <1>2, <1>7
  <2> QED BY <1>1, <1>2, <1>3, <1>4, <1>7, <2>1, <2>2, <2>3
<1> QED BY <1>2, <1>6, <1>7
-----------------------------------------------------------------------------
(* Types.  A fiber past the read holds a history that decodes, one that is  *)
(* about to write the index holds the entry it appended, and one that took  *)
(* the stream for missing holds nothing.                                    *)

ReadDecodes == \A f \in Fibers : pc[f] \in {"ids", "stream", "index"} => Decodes(raw[f])

EntryAppended ==
  \A f \in Fibers :
    pc[f] = "index" => answer[f] \in Entry /\ call[f].request \in Requests

MissedIsEmpty ==
  \A f \in missed :
    /\ pc[f] \in {"ids", "stream", "index", "unlock"}
    /\ pc[f] \in {"ids", "stream"} => raw[f] = <<>>

TInv == TypeOK /\ ReadDecodes /\ EntryAppended /\ MissedIsEmpty

LEMMA LeaveTypes ==
  ASSUME TInv, NEW f \in Fibers, Leave(f)
  PROVE  /\ permit' \in [Instances -> BOOLEAN]
         /\ pc' \in [Fibers -> Steps]
         /\ call' \in [Fibers -> [op : {"append", "repair", "none"}, request : Payload]]
         /\ raw' \in [Fibers -> Seq(Line)]
         /\ known' \in [Fibers -> [Requests -> Nat \cup {None}]]
         /\ missed' \subseteq Fibers
         /\ answer' \in [Fibers -> Entry \cup {None}]
         /\ ReadDecodes'
         /\ EntryAppended'
         /\ MissedIsEmpty'
<1> USE DEF TInv, TypeOK, Leave, Goto
<1>1. pc' \in [Fibers -> Steps]
  BY DEF Steps
<1>2. call' \in [Fibers -> [op : {"append", "repair", "none"}, request : Payload]]
  BY DEF NoCall, Payload
<1>3. raw' \in [Fibers -> Seq(Line)] /\ permit' \in [Instances -> BOOLEAN]
  OBVIOUS
<1>4. known' \in [Fibers -> [Requests -> Nat \cup {None}]]
  BY DEF NoIds
<1>5. answer' \in [Fibers -> Entry \cup {None}] /\ missed' \subseteq Fibers
  OBVIOUS
<1>6. ReadDecodes' /\ EntryAppended' /\ MissedIsEmpty'
  BY DEF ReadDecodes, EntryAppended, MissedIsEmpty
<1> QED BY <1>1, <1>2, <1>3, <1>4, <1>5, <1>6

LEMMA CorruptionTypes ==
  ASSUME TInv, Corruption
  PROVE  TInv'
<1> USE DEF TInv, TypeOK
<1>1. ASSUME NEW k \in 1..Len(file), Garble(k)
      PROVE  TInv'
  <2>1. file' \in Seq(Line) /\ damaged' \subseteq Entry
    BY <1>1 DEF Garble, Destroyed, Line
  <2>2. ReadDecodes' /\ EntryAppended' /\ MissedIsEmpty'
    BY <1>1 DEF Garble, locals, ReadDecodes, EntryAppended, MissedIsEmpty
  <2> QED BY <1>1, <2>1, <2>2 DEF Garble, locals
<1>2. ASSUME NEW k \in 1..Len(file), DropLine(k)
      PROVE  TInv'
  <2>1. Len(file) - 1 \in Nat
    OBVIOUS
  <2>2. \A i \in 1..(Len(file) - 1) :
          (IF i < k THEN file[i] ELSE file[i + 1]) \in Line
    OBVIOUS
  <2>3. file' \in Seq(Line)
    BY <1>2, <2>1, <2>2 DEF DropLine
  <2>4. damaged' \subseteq Entry
    BY <1>2 DEF DropLine, Destroyed, Line
  <2>5. ReadDecodes' /\ EntryAppended' /\ MissedIsEmpty'
    BY <1>2 DEF DropLine, locals, ReadDecodes, EntryAppended, MissedIsEmpty
  <2> QED BY <1>2, <2>3, <2>4, <2>5 DEF DropLine, locals
<1>3. CASE DropIds
  <2>1. ReadDecodes' /\ EntryAppended' /\ MissedIsEmpty'
    BY <1>3 DEF DropIds, locals, ReadDecodes, EntryAppended, MissedIsEmpty
  <2>2. ids' \in [Requests -> Nat \cup {None}] /\ orphaned' \subseteq Payload
    BY <1>3 DEF DropIds, NoIds, Payload
  <2> QED BY <1>3, <2>1, <2>2 DEF DropIds, locals
<1> QED BY <1>1, <1>2, <1>3 DEF Corruption

LEMMA ProgressTypes ==
  ASSUME TInv, NEW f \in Fibers, Progress(f)
  PROVE  TInv'
<1> USE DEF TInv, TypeOK, files, locals, history
<1>1. CASE TakePermit(f)
  BY <1>1 DEF TakePermit, Goto, Steps, ReadDecodes, EntryAppended, MissedIsEmpty
<1>2. CASE AcquireLock(f)
  BY <1>2 DEF AcquireLock, Goto, Steps, Locked, ReadDecodes, EntryAppended, MissedIsEmpty
<1>3. CASE RefuseLock(f)
  BY <1>3, LeaveTypes DEF RefuseLock
<1>4. CASE ReadStream(f)
  <2>0. PICK text \in {file, <<>>} : ReadAs(f, text)
    BY <1>4 DEF ReadStream
  <2>1. text \in Seq(Line) /\ raw' = [raw EXCEPT ![f] = text]
    <3>1. file \in Seq(Line) /\ <<>> \in Seq(Line)
      OBVIOUS
    <3>2. raw' = [raw EXCEPT ![f] = text]
      BY <2>0 DEF ReadAs
    <3> QED BY <3>1, <3>2
  <2>2. pc' = [pc EXCEPT ![f] = pc'[f]] /\ pc'[f] \in {"ids", "quarantine", "unlock"}
    BY <2>0 DEF ReadAs, Goto
  <2>3. raw' \in [Fibers -> Seq(Line)] /\ pc' \in [Fibers -> Steps]
    BY <2>1, <2>2 DEF Steps, Locked
  <2>4. missed' \subseteq Fibers /\ misreads' \in Nat
    BY <2>0 DEF ReadAs, Counted
  <2>5. pc'[f] = "ids" => Decodes(text)
    BY <2>0 DEF ReadAs, Goto
  <2>6. ReadDecodes'
    BY <2>1, <2>2, <2>5 DEF ReadDecodes
  <2>7. EntryAppended'
    BY <2>0, <2>2 DEF ReadAs, EntryAppended
  <2>8. MissedIsEmpty'
    <3>1. text # file => text = <<>>
      OBVIOUS
    <3>2. f \notin missed
      BY <2>0 DEF ReadAs, MissedIsEmpty
    <3>3. text # file => pc'[f] # "quarantine"
      BY <2>0, <3>1 DEF ReadAs, Goto, Lines
    <3>4. \A g \in missed' : g # f => g \in missed /\ pc'[g] = pc[g] /\ raw'[g] = raw[g]
      BY <2>0, <2>1, <2>2 DEF ReadAs
    <3>5. f \in missed' => text # file
      BY <2>0, <3>2 DEF ReadAs
    <3> QED BY <2>1, <2>2, <3>1, <3>3, <3>4, <3>5 DEF MissedIsEmpty
  <2> QED BY <2>0, <2>3, <2>4, <2>6, <2>7, <2>8 DEF ReadAs
<1>5. CASE ReadIds(f)
  <2>0. PICK index \in {ids, NoIds} : ReplayOrAppend(f, index)
    BY <1>5 DEF ReadIds
  <2>1. Replays(f, index) \subseteq Entry
    <3>1. Decodes(raw[f])
      BY <2>0 DEF ReplayOrAppend, ReadDecodes
    <3> QED BY <3>1 DEF Replays, Decodes, Line
  <2>2. answer' \in [Fibers -> Entry \cup {None}]
    BY <2>0, <2>1 DEF ReplayOrAppend
  <2>3. pc' \in [Fibers -> Steps] /\ misreads' \in Nat
    <3>1. pc' = [pc EXCEPT ![f] = pc'[f]] /\ pc'[f] \in {"stream", "unlock"}
      BY <2>0 DEF ReplayOrAppend, Goto
    <3>2. misreads' \in Nat
      BY <2>0 DEF ReplayOrAppend, Counted
    <3> QED BY <3>1, <3>2 DEF Steps, Locked
  <2>4. known' \in [Fibers -> [Requests -> Nat \cup {None}]]
    <3>1. index \in [Requests -> Nat \cup {None}]
      BY DEF NoIds
    <3> QED BY <2>0, <3>1 DEF ReplayOrAppend
  <2>5. ReadDecodes' /\ EntryAppended' /\ MissedIsEmpty'
    BY <2>0 DEF ReplayOrAppend, Goto, ReadDecodes, EntryAppended, MissedIsEmpty
  <2> QED BY <2>0, <2>2, <2>3, <2>4, <2>5 DEF ReplayOrAppend
<1>6. CASE WriteStream(f)
  <2> DEFINE e == SealedEntry(raw[f], call[f].request)
  <2>1. raw[f] \in Seq(Line) /\ Decodes(raw[f]) /\ call[f].request \in Payload
    BY <1>6 DEF WriteStream, ReadDecodes
  <2>2. e \in Entry
    BY <2>1, SealedEntryType
  <2> HIDE DEF e
  <2>3. file' = Append(raw[f], e) /\ answer' = [answer EXCEPT ![f] = e]
    BY <1>6 DEF WriteStream, e
  <2>4. file' \in Seq(Line)
    BY <2>1, <2>2, <2>3 DEF Line
  <2>5. pc' \in [Fibers -> Steps]
    BY <1>6 DEF WriteStream, Goto, Steps, Locked
  <2>6. ReadDecodes' /\ EntryAppended' /\ MissedIsEmpty'
    BY <1>6, <2>1, <2>2, <2>3
    DEF WriteStream, Goto, ReadDecodes, EntryAppended, MissedIsEmpty, Payload
  <2>7. answer' \in [Fibers -> Entry \cup {None}]
    BY <2>2, <2>3
  <2>8. UNCHANGED <<ids, quarantine, lock, permit, call, raw, known, missed,
                    acked, damaged, damages, misreads>>
    BY <1>6 DEF WriteStream
  <2>9. orphaned' \subseteq Payload /\ replaced' \subseteq Entry
    BY <1>6 DEF WriteStream, Ignored, Payload, Entries, Lines, Line
  <2> QED BY <2>4, <2>5, <2>6, <2>7, <2>8, <2>9
<1>7. CASE WriteIds(f)
  <2>1. ids' \in [Requests -> Nat \cup {None}]
    BY <1>7 DEF WriteIds, EntryAppended, Entry
  <2>2. pc' \in [Fibers -> Steps] /\ ReadDecodes' /\ EntryAppended' /\ MissedIsEmpty'
    BY <1>7 DEF WriteIds, Goto, Steps, Locked, ReadDecodes, EntryAppended, MissedIsEmpty
  <2>3. orphaned' \subseteq Payload
    BY <1>7 DEF WriteIds, Ignored, Payload
  <2> QED BY <1>7, <2>1, <2>2, <2>3 DEF WriteIds
<1>8. CASE Quarantine(f)
  <2>1. quarantine' \subseteq Line
    BY <1>8 DEF Quarantine
  <2>2. pc' \in [Fibers -> Steps] /\ ReadDecodes' /\ EntryAppended' /\ MissedIsEmpty'
    BY <1>8 DEF Quarantine, Goto, Steps, Locked, ReadDecodes, EntryAppended, MissedIsEmpty
  <2> QED BY <1>8, <2>1, <2>2 DEF Quarantine
<1>9. CASE Rewrite(f)
  <2>1. file' \in Seq(Line)
    BY <1>9 DEF Rewrite
  <2>2. pc' \in [Fibers -> Steps] /\ ReadDecodes' /\ EntryAppended' /\ MissedIsEmpty'
    BY <1>9 DEF Rewrite, Goto, Steps, Locked, ReadDecodes, EntryAppended, MissedIsEmpty
  <2> QED BY <1>9, <2>1, <2>2 DEF Rewrite
<1>10. CASE Unlock(f)
  <2>1. acked' \subseteq [request : Payload, entry : Entry]
    BY <1>10 DEF Unlock
  <2> QED BY <1>10, <2>1, LeaveTypes DEF Unlock
<1> QED
  BY <1>1, <1>2, <1>3, <1>4, <1>5, <1>6, <1>7, <1>8, <1>9, <1>10 DEF Progress

LEMMA OrphansType ==
  ASSUME TInv, NEW fs \in SUBSET Fibers
  PROVE  Orphans(fs) \subseteq Payload
BY DEF Orphans, TInv, TypeOK

LEMMA CrashTypes ==
  ASSUME TInv, NEW i \in Instances, Crash(i)
  PROVE  TInv'
<1> USE DEF TInv, TypeOK, files, locals
<1> DEFINE gone == {f \in Fibers : InstanceOf[f] = i}
<1>1. pc' \in [Fibers -> Steps]
  BY DEF Crash, Steps
<1>2. call' \in [Fibers -> [op : {"append", "repair", "none"}, request : Payload]]
  BY DEF Crash, NoCall, Payload
<1>3. /\ raw' \in [Fibers -> Seq(Line)] /\ answer' \in [Fibers -> Entry \cup {None}]
      /\ missed' \subseteq Fibers
  BY DEF Crash
<1>4. known' \in [Fibers -> [Requests -> Nat \cup {None}]]
  BY DEF Crash, NoIds
<1>5. permit' \in [Instances -> BOOLEAN] /\ lock' \in Fibers \cup {Free, Abandoned}
  BY DEF Crash
<1>6. orphaned' \subseteq Payload
  BY OrphansType DEF Crash
<1>7. ReadDecodes' /\ EntryAppended' /\ MissedIsEmpty'
  BY DEF Crash, ReadDecodes, EntryAppended, MissedIsEmpty
<1> QED BY <1>1, <1>2, <1>3, <1>4, <1>5, <1>6, <1>7 DEF Crash

LEMMA TypesAreInductive == TInv /\ [Next]_vars => TInv'
<1> SUFFICES ASSUME TInv, [Next]_vars PROVE TInv'
  OBVIOUS
<1> USE DEF TInv, TypeOK, files, locals, history
<1>1. ASSUME NEW f \in Fibers, NEW op \in {"append", "repair"}, NEW r \in Payload,
             Call(f, op, r)
      PROVE  TInv'
  BY <1>1 DEF Call, Goto, Steps, Locked, ReadDecodes, EntryAppended, MissedIsEmpty
<1>2. ASSUME NEW f \in Fibers, Progress(f) PROVE TInv'
  BY <1>2, ProgressTypes
<1>3. ASSUME NEW f \in Fibers, GiveUp(f) PROVE TInv'
  BY <1>3 DEF GiveUp, Goto, NoCall, Payload, Steps, Locked, ReadDecodes, EntryAppended, MissedIsEmpty
<1>4. ASSUME NEW f \in Fibers, InterruptLock(f) PROVE TInv'
  BY <1>4, LeaveTypes DEF InterruptLock
<1>5. ASSUME NEW f \in Fibers, StepFails(f) PROVE TInv'
  <2>1. orphaned' \subseteq Payload
    BY <1>5, OrphansType DEF StepFails
  <2>2. pc' \in [Fibers -> Steps] /\ ReadDecodes' /\ EntryAppended' /\ MissedIsEmpty'
    BY <1>5 DEF StepFails, Goto, Steps, Locked, ReadDecodes, EntryAppended, MissedIsEmpty
  <2> QED BY <1>5, <2>1, <2>2 DEF StepFails
<1>6. ASSUME NEW i \in Instances, Crash(i) PROVE TInv'
  BY <1>6, CrashTypes
<1>7. CASE ClearLock
  BY <1>7 DEF ClearLock, ReadDecodes, EntryAppended, MissedIsEmpty
<1>8. CASE Corruption
  BY <1>8, CorruptionTypes
<1>9. CASE UNCHANGED vars
  BY <1>9 DEF vars, ReadDecodes, EntryAppended, MissedIsEmpty
<1> QED BY <1>1, <1>2, <1>4, <1>5, <1>6, <1>7, <1>8, <1>9, <1>3 DEF Next

LEMMA TypesInit == Init => TInv
BY DEF Init, TInv, TypeOK, NoIds, NoCall, Payload, Steps, ReadDecodes, EntryAppended, MissedIsEmpty

LEMMA TypesHold == Spec => []TInv
BY TypesInit, TypesAreInductive, PTL DEF Spec

\* Every variable keeps its type.
THEOREM TypeCorrect == Spec => []TypeOK
BY TypesHold, PTL DEF TInv
-----------------------------------------------------------------------------
(* Mutual exclusion.  The invariant is inductive on its own: a lock that is *)
(* free is taken by one fiber, and only its owner or its owner's death      *)
(* changes it.                                                              *)

LEMMA ExclusionStep ==
  TypeOK /\ WritersOwnTheLock /\ [Next]_vars => WritersOwnTheLock'
<1> SUFFICES ASSUME TypeOK, WritersOwnTheLock, [Next]_vars
             PROVE  WritersOwnTheLock'
  OBVIOUS
<1> USE DEF WritersOwnTheLock, Locked, Goto, Leave
<1>0. pc \in [Fibers -> Steps]
  BY DEF TypeOK
<1>1. ASSUME NEW f \in Fibers, NEW op \in {"append", "repair"}, NEW r \in Payload,
             Call(f, op, r)
      PROVE  WritersOwnTheLock'
  BY <1>0, <1>1 DEF Call
<1>2. ASSUME NEW f \in Fibers, Progress(f)
      PROVE  WritersOwnTheLock'
  <2>1. CASE TakePermit(f)    BY <1>0, <2>1 DEF TakePermit
  <2>2. CASE AcquireLock(f)   BY <1>0, <2>2 DEF AcquireLock
  <2>3. CASE RefuseLock(f)    BY <1>0, <2>3 DEF RefuseLock
  <2>4. CASE ReadStream(f)    BY <1>0, <2>4 DEF ReadStream, ReadAs
  <2>5. CASE ReadIds(f)       BY <1>0, <2>5 DEF ReadIds, ReplayOrAppend
  <2>6. CASE WriteStream(f)   BY <1>0, <2>6 DEF WriteStream
  <2>7. CASE WriteIds(f)      BY <1>0, <2>7 DEF WriteIds
  <2>8. CASE Quarantine(f)    BY <1>0, <2>8 DEF Quarantine
  <2>9. CASE Rewrite(f)       BY <1>0, <2>9 DEF Rewrite
  <2>10. CASE Unlock(f)       BY <1>0, <2>10 DEF Unlock
  <2> QED BY <1>2, <2>1, <2>2, <2>3, <2>4, <2>5, <2>6, <2>7, <2>8, <2>9, <2>10
          DEF Progress
<1>3. ASSUME NEW f \in Fibers, GiveUp(f)
      PROVE  WritersOwnTheLock'
  BY <1>0, <1>3 DEF GiveUp
<1>4. ASSUME NEW f \in Fibers, InterruptLock(f)
      PROVE  WritersOwnTheLock'
  BY <1>0, <1>4 DEF InterruptLock
<1>5. ASSUME NEW f \in Fibers, StepFails(f)
      PROVE  WritersOwnTheLock'
  BY <1>0, <1>5 DEF StepFails
<1>6. ASSUME NEW i \in Instances, Crash(i)
      PROVE  WritersOwnTheLock'
  BY <1>0, <1>6 DEF Crash
<1>7. CASE ClearLock
  BY <1>0, <1>7 DEF ClearLock
<1>8. CASE Corruption
  BY <1>8 DEF Corruption, Garble, DropLine, DropIds
<1>9. CASE UNCHANGED vars
  BY <1>9 DEF vars
<1> QED BY <1>1, <1>2, <1>4, <1>5, <1>6, <1>7, <1>8, <1>9, <1>3 DEF Next

\* Two writers of a stream never interleave: the directory lock belongs to the
\* one fiber that reads, decides or writes. (Journal.ts:11, Lock.ts:5)
THEOREM Exclusion == Spec => []WritersOwnTheLock
<1>1. Init => WritersOwnTheLock
  BY DEF Init, WritersOwnTheLock, Locked
<1> QED BY <1>1, ExclusionStep, TypeCorrect, PTL DEF Spec
-----------------------------------------------------------------------------
(* History.  What must be kept (Safe) never shrinks.  The strengthening:    *)
(* under the lock the fiber's copy covers the file, unless the fiber took   *)
(* the stream for missing and is appending to nothing; a repair has saved   *)
(* what it is about to cut, and an answer is already safe.                  *)

Safe == Entries(file) \cup quarantine \cup damaged \cup replaced

HoldsCopy == {"ids", "stream", "quarantine", "rewrite"}

CopyCoversFile ==
  \A f \in Fibers :
    pc[f] \in HoldsCopy => f \in missed \/ Entries(file) \subseteq Entries(raw[f])

CopyIsSafe ==
  \A f \in Fibers : pc[f] \in HoldsCopy => Entries(raw[f]) \subseteq Safe

SavedBeforeCut ==
  \A f \in Fibers :
    pc[f] = "rewrite" =>
      \A n \in 0..Len(raw[f]) :
        ValidPrefix(raw[f], n) =>
          \A i \in (n + 1)..Len(raw[f]) : raw[f][i] \in quarantine

AnswerIsSafe == \A f \in Fibers : answer[f] # None => answer[f] \in Safe

KInv ==
  /\ TInv
  /\ WritersOwnTheLock
  /\ CopyCoversFile
  /\ CopyIsSafe
  /\ SavedBeforeCut
  /\ AnswerIsSafe
  /\ AcknowledgedKept

\* A stream has one place to cut.
LEMMA CutIsUnique ==
  ASSUME NEW s \in Seq(Line), NEW m \in 0..Len(s), NEW n \in 0..Len(s),
         ValidPrefix(s, m), ValidPrefix(s, n)
  PROVE  m = n
BY DEF ValidPrefix

LEMMA CorruptionLosesOnlyDamaged ==
  ASSUME TypeOK, Corruption
  PROVE  Entries(file') \subseteq Entries(file) /\ Safe \subseteq Safe'
<1>0. file \in Seq(Line)
  BY DEF TypeOK
<1>1. ASSUME NEW k \in 1..Len(file), Garble(k)
      PROVE  Entries(file') \subseteq Entries(file) /\ Safe \subseteq Safe'
  BY <1>0, <1>1 DEF Garble, Destroyed, Entries, Lines, Safe
<1>2. ASSUME NEW k \in 1..Len(file), DropLine(k)
      PROVE  Entries(file') \subseteq Entries(file) /\ Safe \subseteq Safe'
  <2>1. /\ Len(file') = Len(file) - 1
        /\ \A i \in 1..Len(file') : file'[i] = IF i < k THEN file[i] ELSE file[i + 1]
    BY <1>0, <1>2 DEF DropLine
  <2>2. Entries(file') \subseteq Entries(file)
    <3>1. ASSUME NEW i \in 1..Len(file')
          PROVE  \E j \in 1..Len(file) : file'[i] = file[j]
      BY <1>0, <2>1
    <3> QED BY <3>1 DEF Entries, Lines
  <2>3. ASSUME NEW i \in 1..Len(file), i # k
        PROVE  \E j \in 1..Len(file') : file'[j] = file[i]
    <3>1. CASE i < k
      <4>1. i \in 1..Len(file') /\ file'[i] = file[i]
        BY <1>0, <2>1, <3>1
      <4> QED BY <4>1
    <3>2. CASE i > k
      <4>1. i - 1 \in 1..Len(file') /\ file'[i - 1] = file[i]
        BY <1>0, <2>1, <3>2
      <4> QED BY <4>1
    <3> QED BY <2>3, <3>1, <3>2
  <2>4. Entries(file) \subseteq Entries(file') \cup Destroyed(k)
    <3>1. SUFFICES ASSUME NEW x \in Entries(file)
                   PROVE  x \in Entries(file') \cup Destroyed(k)
      OBVIOUS
    <3>2. PICK i \in 1..Len(file) : x = file[i] /\ x # Garbage
      BY <3>1 DEF Entries, Lines
    <3>3. CASE i = k
      BY <3>2, <3>3 DEF Destroyed
    <3>4. CASE i # k
      BY <2>3, <3>2, <3>4 DEF Entries, Lines
    <3> QED BY <3>3, <3>4
  <2> QED BY <1>2, <2>2, <2>4 DEF DropLine, Safe
<1>3. CASE DropIds
  BY <1>3 DEF DropIds, Safe
<1> QED BY <1>1, <1>2, <1>3 DEF Corruption

LEMMA AppendKeepsEntries ==
  ASSUME NEW s \in Seq(Line), NEW e \in Entry
  PROVE  Entries(Append(s, e)) = Entries(s) \cup {e}
<1>1. /\ Len(Append(s, e)) = Len(s) + 1
      /\ \A i \in 1..Len(s) : Append(s, e)[i] = s[i]
      /\ Append(s, e)[Len(s) + 1] = e
  BY DEF Line
<1> QED BY <1>1 DEF Entries, Lines

LEMMA WriteStreamIsSafe ==
  ASSUME KInv, NEW f \in Fibers, WriteStream(f)
  PROVE  Safe \subseteq Safe' /\ answer'[f] \in Safe'
<1> DEFINE e == SealedEntry(raw[f], call[f].request)
<1>1. /\ raw[f] \in Seq(Line) /\ call[f].request \in Payload
      /\ Decodes(raw[f]) /\ answer \in [Fibers -> Entry \cup {None}]
  BY DEF KInv, TInv, TypeOK, ReadDecodes, WriteStream
<1>2. e \in Entry
  BY <1>1, SealedEntryType
<1>3. f \in missed \/ Entries(file) \subseteq Entries(raw[f])
  BY DEF KInv, CopyCoversFile, HoldsCopy, WriteStream
<1>4. /\ file' = Append(raw[f], e) /\ answer'[f] = e
      /\ replaced' = IF f \in missed THEN replaced \cup Entries(file) ELSE replaced
      /\ UNCHANGED <<quarantine, damaged>>
  BY <1>1 DEF WriteStream
<1> HIDE DEF e
<1>5. Entries(file') = Entries(raw[f]) \cup {e}
  BY <1>1, <1>2, <1>4, AppendKeepsEntries
<1> QED BY <1>3, <1>4, <1>5 DEF Safe

LEMMA RewriteIsSafe ==
  ASSUME KInv, NEW f \in Fibers, Rewrite(f)
  PROVE  Safe \subseteq Safe'
<1>1. raw[f] \in Seq(Line) /\ pc[f] = "rewrite"
  BY DEF KInv, TInv, TypeOK, Rewrite
<1>2. Entries(file) \subseteq Entries(raw[f])
  BY <1>1 DEF KInv, TInv, MissedIsEmpty, CopyCoversFile, HoldsCopy
<1>3. PICK n \in 0..Len(raw[f]) : ValidPrefix(raw[f], n) /\ file' = SubSeq(raw[f], 1, n)
  BY DEF Rewrite
<1>4. \A i \in (n + 1)..Len(raw[f]) : raw[f][i] \in quarantine
  BY <1>1, <1>3 DEF KInv, SavedBeforeCut
<1>5. Len(file') = n /\ \A i \in 1..n : file'[i] = raw[f][i]
  BY <1>1, <1>3
<1>6. Entries(raw[f]) \subseteq Entries(file') \cup quarantine
  BY <1>1, <1>4, <1>5 DEF Entries, Lines
<1> QED BY <1>2, <1>6 DEF Rewrite, Safe, history

\* The shape of every step but ReadStream and Quarantine: what is safe stays
\* safe, new answers are safe, and whoever goes on holding a copy has not
\* changed it and sees no new entry in the file.
LEMMA QuietStep ==
  ASSUME KInv, TInv', WritersOwnTheLock',
         Safe \subseteq Safe',
         quarantine \subseteq quarantine',
         \A f \in Fibers :
           pc'[f] \in HoldsCopy =>
             /\ Entries(file') \subseteq Entries(file)
             /\ pc[f] \in HoldsCopy
             /\ pc'[f] = "rewrite" => pc[f] = "rewrite"
             /\ raw'[f] = raw[f]
             /\ f \in missed => f \in missed',
         \A f \in Fibers : answer'[f] # None => answer'[f] = answer[f] \/ answer'[f] \in Safe',
         \A a \in acked' : a \in acked \/ a.entry \in Safe
  PROVE  KInv'
<1> USE DEF KInv
<1>1. CopyCoversFile'
  BY DEF CopyCoversFile
<1>2. CopyIsSafe'
  BY DEF CopyIsSafe
<1>3. SavedBeforeCut'
  BY DEF SavedBeforeCut, HoldsCopy
<1>4. AnswerIsSafe'
  BY DEF AnswerIsSafe
<1>5. AcknowledgedKept'
  BY DEF AcknowledgedKept, Safe
<1> QED BY <1>1, <1>2, <1>3, <1>4, <1>5

LEMMA ReadStreamKeeps ==
  ASSUME KInv, TInv', WritersOwnTheLock', NEW f \in Fibers, ReadStream(f)
  PROVE  KInv'
<1>1. PICK text \in {file, <<>>} : ReadAs(f, text)
  BY DEF ReadStream
<1>2. /\ pc \in [Fibers -> Steps] /\ raw \in [Fibers -> Seq(Line)] /\ missed \subseteq Fibers
      /\ raw' = [raw EXCEPT ![f] = text]
      /\ missed' = IF text = file THEN missed ELSE missed \cup {f}
      /\ UNCHANGED <<file, quarantine, damaged, replaced, answer, acked>>
      /\ \A g \in Fibers \ {f} : pc'[g] = pc[g]
      /\ pc[f] = "read" /\ pc'[f] # "rewrite"
  BY <1>1 DEF KInv, TInv, TypeOK, ReadAs, Goto, files
<1>3. Entries(<<>>) = {}
  BY DEF Lines, Entries
<1>4. CopyCoversFile' /\ CopyIsSafe'
  BY <1>2, <1>3 DEF KInv, CopyCoversFile, CopyIsSafe, Safe
<1>5. SavedBeforeCut'
  BY <1>2 DEF KInv, SavedBeforeCut
<1>6. AnswerIsSafe' /\ AcknowledgedKept'
  BY <1>2 DEF KInv, AnswerIsSafe, AcknowledgedKept, Safe
<1> QED BY <1>4, <1>5, <1>6 DEF KInv

LEMMA QuarantineKeeps ==
  ASSUME KInv, TInv', WritersOwnTheLock', NEW f \in Fibers, Quarantine(f)
  PROVE  KInv'
<1>0. /\ pc \in [Fibers -> Steps] /\ raw \in [Fibers -> Seq(Line)]
      /\ pc[f] = "quarantine"
      /\ UNCHANGED <<file, damaged, replaced, answer, acked, raw, missed>>
      /\ pc' = [pc EXCEPT ![f] = "rewrite"]
      /\ quarantine \subseteq quarantine'
  BY DEF KInv, TInv, TypeOK, Quarantine, Goto, locals, history
<1>1. CopyCoversFile' /\ CopyIsSafe'
  BY <1>0 DEF KInv, CopyCoversFile, CopyIsSafe, Safe, HoldsCopy
<1>2. SavedBeforeCut'
  <2>1. PICK n \in 0..Len(raw[f]) :
          /\ ValidPrefix(raw[f], n)
          /\ quarantine' = quarantine \cup {raw[f][i] : i \in (n + 1)..Len(raw[f])}
    BY DEF Quarantine
  <2>2. \A m \in 0..Len(raw[f]) : ValidPrefix(raw[f], m) => m = n
    BY <1>0, <2>1, CutIsUnique
  <2>3. \A m \in 0..Len(raw[f]) :
          ValidPrefix(raw[f], m) =>
            \A i \in (m + 1)..Len(raw[f]) : raw[f][i] \in quarantine'
    BY <2>1, <2>2
  <2> QED BY <1>0, <2>3 DEF KInv, SavedBeforeCut
<1>3. AnswerIsSafe' /\ AcknowledgedKept'
  BY <1>0 DEF KInv, AnswerIsSafe, AcknowledgedKept, Safe
<1> QED BY <1>1, <1>2, <1>3 DEF KInv

LEMMA ProgressKeeps ==
  ASSUME KInv, TInv', WritersOwnTheLock', NEW f \in Fibers, Progress(f)
  PROVE  KInv'
<1> USE DEF HoldsCopy, Goto
<1>0. /\ pc \in [Fibers -> Steps] /\ raw \in [Fibers -> Seq(Line)]
      /\ answer \in [Fibers -> Entry \cup {None}]
      /\ \A g \in Fibers : answer[g] # None => answer[g] \in Safe
      /\ \A g \in Fibers : pc[g] \in Locked => lock = g
  BY DEF KInv, TInv, TypeOK, AnswerIsSafe, WritersOwnTheLock
<1>1. CASE TakePermit(f)
  BY <1>0, <1>1, QuietStep DEF TakePermit, files, locals, history, Safe
<1>2. CASE AcquireLock(f)
  BY <1>0, <1>2, QuietStep DEF AcquireLock, files, locals, history, Safe
<1>3. CASE RefuseLock(f)
  BY <1>0, <1>3, QuietStep DEF RefuseLock, Leave, files, history, Safe
<1>4. CASE ReadStream(f)
  BY <1>4, ReadStreamKeeps
<1>5. CASE ReadIds(f)
  <2>0. PICK index \in {ids, NoIds} : ReplayOrAppend(f, index)
    BY <1>5 DEF ReadIds
  <2>1. Replays(f, index) \subseteq Safe
    <3>1. raw[f] \in Seq(Line) /\ Decodes(raw[f]) /\ Entries(raw[f]) \subseteq Safe
      BY <1>0, <2>0 DEF ReplayOrAppend, KInv, TInv, ReadDecodes, CopyIsSafe
    <3>2. Replays(f, index) \subseteq Entries(raw[f])
      BY <3>1 DEF Replays, Entries, Lines, Decodes
    <3> QED BY <3>1, <3>2
  <2>2. Safe' = Safe /\ UNCHANGED <<file, quarantine, raw, missed, acked>>
    BY <2>0 DEF ReplayOrAppend, files, Safe
  <2>3. \A g \in Fibers : answer'[g] # None => answer'[g] = answer[g] \/ answer'[g] \in Safe'
    BY <1>0, <2>0, <2>1, <2>2 DEF ReplayOrAppend
  <2>4. \A g \in Fibers : pc'[g] \in HoldsCopy =>
          pc[g] \in HoldsCopy /\ (pc'[g] = "rewrite" => pc[g] = "rewrite")
    BY <1>0, <2>0 DEF ReplayOrAppend
  <2> QED BY <2>2, <2>3, <2>4, QuietStep
<1>6. CASE WriteStream(f)
  <2>1. Safe \subseteq Safe' /\ answer'[f] \in Safe'
    BY <1>6, WriteStreamIsSafe
  <2>2. \A g \in Fibers : pc'[g] \notin HoldsCopy
    BY <1>0, <1>6 DEF WriteStream, Locked
  <2>3. \A g \in Fibers \ {f} : answer'[g] = answer[g]
    BY <1>0, <1>6 DEF WriteStream
  <2>4. UNCHANGED <<quarantine, acked>>
    BY <1>6 DEF WriteStream, history
  <2> QED BY <2>1, <2>2, <2>3, <2>4, QuietStep
<1>7. CASE WriteIds(f)
  BY <1>0, <1>7, QuietStep DEF WriteIds, locals, history, Safe
<1>8. CASE Quarantine(f)
  BY <1>8, QuarantineKeeps
<1>9. CASE Rewrite(f)
  <2>1. Safe \subseteq Safe'
    BY <1>9, RewriteIsSafe
  <2>2. \A g \in Fibers : pc'[g] \notin HoldsCopy
    BY <1>0, <1>9 DEF Rewrite, Locked
  <2>3. UNCHANGED <<quarantine, acked, answer>>
    BY <1>9 DEF Rewrite, locals, history
  <2> QED BY <2>1, <2>2, <2>3, QuietStep
<1>10. CASE Unlock(f)
  <2>1. Safe' = Safe /\ UNCHANGED <<file, quarantine>>
    BY <1>10 DEF Unlock, files, Safe
  <2>2. \A a \in acked' : a \in acked \/ a.entry \in Safe
    BY <1>0, <1>10 DEF Unlock
  <2>3. \A g \in Fibers : answer'[g] # None => answer'[g] = answer[g]
    BY <1>0, <1>10 DEF Unlock, Leave
  <2>4. \A g \in Fibers : pc'[g] \in HoldsCopy =>
          pc'[g] = pc[g] /\ raw'[g] = raw[g] /\ (g \in missed => g \in missed')
    BY <1>0, <1>10 DEF Unlock, Leave
  <2> QED BY <2>1, <2>2, <2>3, <2>4, QuietStep
<1> QED
  BY <1>1, <1>2, <1>3, <1>4, <1>5, <1>6, <1>7, <1>8, <1>9, <1>10 DEF Progress

LEMMA KeepStep == KInv /\ [Next]_vars => KInv'
<1> SUFFICES ASSUME KInv, [Next]_vars PROVE KInv'
  OBVIOUS
<1> USE DEF HoldsCopy, Goto
<1>0. TInv' /\ WritersOwnTheLock'
  BY TypesAreInductive, ExclusionStep DEF KInv, TInv
<1>1. /\ TypeOK
      /\ pc \in [Fibers -> Steps] /\ raw \in [Fibers -> Seq(Line)]
      /\ answer \in [Fibers -> Entry \cup {None}]
  BY DEF KInv, TInv, TypeOK
<1>2. ASSUME NEW f \in Fibers, NEW op \in {"append", "repair"}, NEW r \in Payload,
             Call(f, op, r)
      PROVE  KInv'
  BY <1>0, <1>1, <1>2, QuietStep DEF Call, files, history, Safe
<1>3. ASSUME NEW f \in Fibers, Progress(f) PROVE KInv'
  BY <1>0, <1>3, ProgressKeeps
<1>4. ASSUME NEW f \in Fibers, GiveUp(f) PROVE KInv'
  BY <1>0, <1>1, <1>4, QuietStep DEF GiveUp, files, history, Safe
<1>5. ASSUME NEW f \in Fibers, InterruptLock(f) PROVE KInv'
  BY <1>0, <1>1, <1>5, QuietStep DEF InterruptLock, Leave, files, history, Safe
<1>6. ASSUME NEW f \in Fibers, StepFails(f) PROVE KInv'
  BY <1>0, <1>1, <1>6, QuietStep DEF StepFails, files, Safe
<1>7. ASSUME NEW i \in Instances, Crash(i) PROVE KInv'
  <2>1. UNCHANGED <<file, quarantine, damaged, replaced, acked>>
    BY <1>7 DEF Crash, files
  <2>2. \A g \in Fibers :
          /\ \/ pc'[g] = "idle"
             \/ pc'[g] = pc[g] /\ raw'[g] = raw[g] /\ (g \in missed => g \in missed')
          /\ answer'[g] = None \/ answer'[g] = answer[g]
    BY <1>1, <1>7 DEF Crash
  <2> QED BY <1>0, <2>1, <2>2, QuietStep DEF Safe
<1>8. CASE ClearLock
  BY <1>0, <1>8, QuietStep DEF ClearLock, files, locals, history, Safe
<1>9. CASE Corruption
  <2>1. Entries(file') \subseteq Entries(file) /\ Safe \subseteq Safe'
    BY <1>1, <1>9, CorruptionLosesOnlyDamaged
  <2>2. UNCHANGED <<quarantine, pc, raw, missed, answer, acked>>
    BY <1>9 DEF Corruption, Garble, DropLine, DropIds, locals
  <2> QED BY <1>0, <2>1, <2>2, QuietStep
<1>10. CASE UNCHANGED vars
  BY <1>0, <1>10, QuietStep DEF vars, files, locals, history, Safe
<1> QED BY <1>2, <1>3, <1>5, <1>6, <1>7, <1>8, <1>9, <1>10, <1>4 DEF Next

LEMMA KeepHolds == Spec => []KInv
<1>1. Init => KInv
  BY TypesInit
  DEF Init, KInv, WritersOwnTheLock, Locked, CopyCoversFile, CopyIsSafe,
      SavedBeforeCut, AnswerIsSafe, AcknowledgedKept, HoldsCopy
<1> QED BY <1>1, KeepStep, PTL DEF Spec

\* An entry returned to a caller is never lost, whatever crashes, fails or is
\* repaired, unless it was destroyed from outside or its stream was taken for
\* missing by an append whose exists() failed. (Journal.ts:10, 199)
THEOREM AcknowledgedEntriesAreKept == Spec => []AcknowledgedKept
BY KeepHolds, PTL DEF KInv

LEMMA SafeGrows ==
  KInv /\ [Next]_vars =>
    Entries(file) \subseteq Entries(file') \cup quarantine' \cup damaged' \cup replaced'
<1> SUFFICES ASSUME KInv, [Next]_vars PROVE Safe \subseteq Safe'
  BY DEF Safe
<1> USE DEF Safe, files, history, locals, Leave
<1>1. ASSUME NEW f \in Fibers, NEW op \in {"append", "repair"}, NEW r \in Payload,
             Call(f, op, r)
      PROVE  Safe \subseteq Safe'
  BY <1>1 DEF Call
<1>2. ASSUME NEW f \in Fibers, Progress(f) PROVE Safe \subseteq Safe'
  <2>1. CASE WriteStream(f)  BY <2>1, WriteStreamIsSafe
  <2>2. CASE Rewrite(f)      BY <2>2, RewriteIsSafe
  <2>3. CASE Quarantine(f)   BY <2>3 DEF Quarantine
  <2>4. CASE TakePermit(f) \/ AcquireLock(f) \/ RefuseLock(f)
    BY <2>4 DEF TakePermit, AcquireLock, RefuseLock
  <2>5. CASE ReadStream(f) \/ ReadIds(f) \/ WriteIds(f) \/ Unlock(f)
    BY <2>5 DEF ReadStream, ReadAs, ReadIds, ReplayOrAppend, WriteIds, Unlock
  <2> QED BY <1>2, <2>1, <2>2, <2>3, <2>4, <2>5 DEF Progress
<1>3. ASSUME NEW f \in Fibers, GiveUp(f) \/ InterruptLock(f) \/ StepFails(f)
      PROVE  Safe \subseteq Safe'
  BY <1>3 DEF GiveUp, InterruptLock, StepFails
<1>4. ASSUME NEW i \in Instances, Crash(i) PROVE Safe \subseteq Safe'
  BY <1>4 DEF Crash
<1>5. CASE ClearLock
  BY <1>5 DEF ClearLock
<1>6. CASE Corruption
  BY <1>6, CorruptionLosesOnlyDamaged DEF KInv, TInv
<1>7. CASE UNCHANGED vars
  BY <1>7 DEF vars
<1> QED BY <1>1, <1>2, <1>3, <1>4, <1>5, <1>6, <1>7 DEF Next

\* Repairs destroy nothing, and appends nothing but a stream they took for
\* missing: any other entry that leaves the stream is in quarantine or was
\* destroyed from outside. (Journal.ts:10, 14, 199)
THEOREM HistoryIsKept == Spec => HistoryKept
<1>1. KInv /\ [Next]_vars =>
        [Entries(file) \subseteq Entries(file') \cup quarantine' \cup damaged' \cup replaced']_vars
  BY SafeGrows
<1> QED BY <1>1, KeepHolds, PTL DEF Spec, HistoryKept

-----------------------------------------------------------------------------
(* The semaphore of a process admits one fiber past "wait", and a lock      *)
(* directory with a live owner has an owner at work.                        *)

Admitted == {"mkdir"} \cup Locked

OneAdmitted ==
  /\ \A f \in Fibers : pc[f] \in Admitted => ~permit[InstanceOf[f]]
  /\ \A f, g \in Fibers :
       pc[f] \in Admitted /\ pc[g] \in Admitted /\ InstanceOf[f] = InstanceOf[g] => f = g

OwnersAreAtWork == lock \in Fibers => pc[lock] \in Locked

QueueInv == OneAdmitted /\ OwnersAreAtWork

\* A step of one fiber that admits nobody and keeps its permit, or leaves.
LEMMA FiberKeepsQueue ==
  ASSUME TypeOK, WritersOwnTheLock, QueueInv, NEW f \in Fibers, NEW step \in Steps,
         pc' = [pc EXCEPT ![f] = step],
         \/ permit' = permit /\ (step \in Admitted => pc[f] \in Admitted)
         \/ /\ permit' = [permit EXCEPT ![InstanceOf[f]] = (step \notin Admitted)]
            /\ pc[f] \in Admitted \/ permit[InstanceOf[f]],
         \/ lock' = lock /\ (pc[f] \in Locked => step \in Locked)
         \/ lock' \notin Fibers
         \/ lock' = f /\ step \in Locked
  PROVE  QueueInv'
<1>0. /\ pc \in [Fibers -> Steps] /\ permit \in [Instances -> BOOLEAN]
      /\ InstanceOf \in [Fibers -> Instances]
  BY FibersBelongToInstances DEF TypeOK
<1>1. /\ pc'[f] = step
      /\ \A g \in Fibers : g # f => pc'[g] = pc[g]
  BY <1>0
<1>2. OneAdmitted'
  <2>1. CASE permit' = permit /\ (step \in Admitted => pc[f] \in Admitted)
    BY <1>1, <2>1 DEF QueueInv, OneAdmitted
  <2>2. CASE /\ permit' = [permit EXCEPT ![InstanceOf[f]] = (step \notin Admitted)]
             /\ pc[f] \in Admitted \/ permit[InstanceOf[f]]
    <3>1. \A g \in Fibers : g # f /\ pc[g] \in Admitted => InstanceOf[g] # InstanceOf[f]
      BY <2>2 DEF QueueInv, OneAdmitted
    <3>2. /\ permit'[InstanceOf[f]] = (step \notin Admitted)
          /\ \A i \in Instances : i # InstanceOf[f] => permit'[i] = permit[i]
      BY <1>0, <2>2
    <3> QED BY <1>0, <1>1, <3>1, <3>2 DEF QueueInv, OneAdmitted
  <2> QED BY <2>1, <2>2
<1>3. OwnersAreAtWork'
  BY <1>1 DEF QueueInv, OwnersAreAtWork
<1> QED BY <1>2, <1>3 DEF QueueInv

LEMMA QueueStep == TypeOK /\ WritersOwnTheLock /\ QueueInv /\ [Next]_vars => QueueInv'
<1> SUFFICES ASSUME TypeOK, WritersOwnTheLock, QueueInv, [Next]_vars PROVE QueueInv'
  OBVIOUS
<1> USE DEF Locked, Admitted, Steps
<1>0. pc \in [Fibers -> Steps]
  BY DEF TypeOK
<1>1. ASSUME NEW f \in Fibers, NEW op \in {"append", "repair"}, NEW r \in Payload,
             Call(f, op, r)
      PROVE  QueueInv'
  BY <1>1, FiberKeepsQueue DEF Call, Goto
<1>2. ASSUME NEW f \in Fibers, Progress(f) PROVE QueueInv'
  <2> USE FiberKeepsQueue DEF Goto
  <2>1. CASE TakePermit(f)
    <3>1. permit' = [permit EXCEPT ![InstanceOf[f]] = ("mkdir" \notin Admitted)]
      BY <2>1 DEF TakePermit
    <3> QED BY <2>1, <3>1 DEF TakePermit
  <2>2. CASE AcquireLock(f)   BY <2>2 DEF AcquireLock
  <2>3. CASE RefuseLock(f)
    <3>1. permit' = [permit EXCEPT ![InstanceOf[f]] = ("idle" \notin Admitted)]
      BY <2>3 DEF RefuseLock, Leave
    <3> QED BY <2>3, <3>1 DEF RefuseLock, Leave
  <2>4. CASE ReadStream(f)    BY <2>4 DEF ReadStream, ReadAs
  <2>5. CASE ReadIds(f)       BY <2>5 DEF ReadIds, ReplayOrAppend
  <2>6. CASE WriteStream(f)   BY <2>6 DEF WriteStream
  <2>7. CASE WriteIds(f)      BY <2>7 DEF WriteIds
  <2>8. CASE Quarantine(f)    BY <2>8 DEF Quarantine
  <2>9. CASE Rewrite(f)       BY <2>9 DEF Rewrite
  <2>10. CASE Unlock(f)
    <3>1. permit' = [permit EXCEPT ![InstanceOf[f]] = ("idle" \notin Admitted)]
      BY <2>10 DEF Unlock, Leave
    <3>2. lock' \notin Fibers
      BY <2>10, LockValuesDiffer DEF Unlock
    <3> QED BY <2>10, <3>1, <3>2 DEF Unlock, Leave
  <2> QED BY <1>2, <2>1, <2>2, <2>3, <2>4, <2>5, <2>6, <2>7, <2>8, <2>9, <2>10
          DEF Progress
<1>3. ASSUME NEW f \in Fibers, GiveUp(f) PROVE QueueInv'
  BY <1>3, FiberKeepsQueue DEF GiveUp, Goto
<1>4. ASSUME NEW f \in Fibers, InterruptLock(f) PROVE QueueInv'
  <2>1. permit' = [permit EXCEPT ![InstanceOf[f]] = ("idle" \notin Admitted)]
    BY <1>4 DEF InterruptLock, Leave
  <2>2. lock' \notin Fibers
    BY <1>4, LockValuesDiffer DEF InterruptLock
  <2> QED BY <1>4, <2>1, <2>2, FiberKeepsQueue DEF InterruptLock, Leave, Goto
<1>5. ASSUME NEW f \in Fibers, StepFails(f) PROVE QueueInv'
  BY <1>5, FiberKeepsQueue DEF StepFails, Goto
<1>6. ASSUME NEW i \in Instances, Crash(i) PROVE QueueInv'
  <2>1. /\ \A f \in Fibers : pc'[f] = IF InstanceOf[f] = i THEN "idle" ELSE pc[f]
        /\ \A j \in Instances : j # i => permit'[j] = permit[j]
        /\ lock' = IF lock \in {f \in Fibers : InstanceOf[f] = i} THEN Abandoned ELSE lock
    BY <1>0, <1>6 DEF Crash, TypeOK
  <2>2. OneAdmitted'
    BY <2>1, FibersBelongToInstances DEF QueueInv, OneAdmitted
  <2>3. OwnersAreAtWork'
    BY <2>1, LockValuesDiffer DEF QueueInv, OwnersAreAtWork
  <2> QED BY <2>2, <2>3 DEF QueueInv
<1>7. CASE ClearLock
  BY <1>7, LockValuesDiffer DEF ClearLock, QueueInv, OneAdmitted, OwnersAreAtWork
<1>8. CASE Corruption
  BY <1>8 DEF Corruption, Garble, DropLine, DropIds, QueueInv, OneAdmitted, OwnersAreAtWork
<1>9. CASE UNCHANGED vars
  BY <1>9 DEF vars, QueueInv, OneAdmitted, OwnersAreAtWork
<1> QED BY <1>1, <1>2, <1>3, <1>4, <1>5, <1>6, <1>7, <1>8, <1>9 DEF Next

\* Callers of one process never refuse each other the lock: they wait for the
\* semaphore. (Journal.ts:172)
THEOREM SiblingsWait == Spec => []SiblingsQueue
<1>1. Init => QueueInv
  BY LockValuesDiffer DEF Init, QueueInv, OneAdmitted, OwnersAreAtWork, Admitted, Locked
<1>2. QueueInv => SiblingsQueue
  BY DEF QueueInv, OneAdmitted, OwnersAreAtWork, SiblingsQueue, Admitted, Locked
<1> QED BY <1>1, <1>2, QueueStep, TypeCorrect, Exclusion, PTL DEF Spec
-----------------------------------------------------------------------------
(* While nothing outside has touched the files: the chain decodes, nobody   *)
(* repairs, copies under the lock are those of the files or were taken for  *)
(* missing, the index points at entries of its requests, and so does every  *)
(* answer.  The requests whose entries went with a stream that was taken    *)
(* for missing are left out: nothing is known of where the index points.    *)

IdleHaveNoAnswer == \A f \in Fibers : pc[f] \in {"idle", "wait"} => answer[f] = None

ChainHolds == Decodes(file) /\ \A f \in Fibers : pc[f] \notin {"quarantine", "rewrite"}

CopiesAreCurrent ==
  \A f \in Fibers :
    /\ pc[f] \in {"ids", "stream"} => raw[f] = file \/ f \in missed
    /\ pc[f] \in {"stream", "index"} => known[f] \in {ids, NoIds}

PointsAt(n, r) == n + 1 \in 1..Len(file) /\ file[n + 1].payload = r

IdsPoint ==
  /\ \A r \in Requests : ids[r] # None /\ r \notin Displaced => PointsAt(ids[r], r)
  /\ \A f \in Fibers : pc[f] = "index" => PointsAt(answer[f].sequence, call[f].request)

AnswersAreOwn ==
  /\ \A f \in Fibers :
       answer[f] # None /\ call[f].request \notin Displaced =>
         answer[f].payload = call[f].request
  /\ \A a \in acked : a.request \notin Displaced => a.entry.payload = a.request

Untouched == ChainHolds /\ CopiesAreCurrent /\ IdsPoint /\ AnswersAreOwn

OwnInv == IdleHaveNoAnswer /\ (damages = 0 => Untouched)

\* A step that leaves the files alone, and what the fibers hold of them
\* unless they let go of it.
LEMMA FilesStandStill ==
  ASSUME Untouched, UNCHANGED <<file, ids, replaced>>,
         \A f \in Fibers :
           /\ pc'[f] \notin {"quarantine", "rewrite"}
           /\ pc'[f] \in {"ids", "stream"} =>
                /\ pc[f] \in {"ids", "stream"} /\ raw'[f] = raw[f]
                /\ f \in missed => f \in missed'
           /\ pc'[f] \in {"stream", "index"} =>
                pc[f] \in {"stream", "index"} /\ known'[f] = known[f]
           /\ pc'[f] = "index" =>
                pc[f] = "index" /\ answer'[f] = answer[f] /\ call'[f] = call[f]
           /\ answer'[f] # None => answer'[f] = answer[f] /\ call'[f] = call[f],
         \A a \in acked' :
           a \in acked \/ \E f \in Fibers :
             answer[f] # None /\ a = [request |-> call[f].request, entry |-> answer[f]]
  PROVE  Untouched'
<1>1. ChainHolds'
  BY DEF Untouched, ChainHolds, Decodes
<1>2. CopiesAreCurrent'
  BY DEF Untouched, CopiesAreCurrent
<1>3. IdsPoint'
  BY DEF Untouched, IdsPoint, PointsAt, Displaced
<1>4. AnswersAreOwn'
  BY DEF Untouched, AnswersAreOwn, Displaced
<1> QED BY <1>1, <1>2, <1>3, <1>4 DEF Untouched

LEMMA ReadStreamIsCurrent ==
  ASSUME TInv, WritersOwnTheLock, Untouched, NEW f \in Fibers, ReadStream(f)
  PROVE  Untouched'
<1>1. PICK text \in {file, <<>>} : ReadAs(f, text)
  BY DEF ReadStream
<1>2. /\ pc \in [Fibers -> Steps] /\ raw \in [Fibers -> Seq(Line)] /\ file \in Seq(Line)
      /\ missed \subseteq Fibers
      /\ raw' = [raw EXCEPT ![f] = text]
      /\ missed' = IF text = file THEN missed ELSE missed \cup {f}
      /\ UNCHANGED <<file, ids, replaced, known, answer, call, acked>>
      /\ \A g \in Fibers : g # f => pc'[g] = pc[g]
  BY <1>1 DEF TInv, TypeOK, ReadAs, Goto, files
<1>3. Garbage \notin Lines(text)
  BY DEF Untouched, ChainHolds, Decodes, Lines
<1>4. pc'[f] \in {"ids", "unlock"}
  BY <1>1, <1>2, <1>3 DEF ReadAs, Goto
<1>5. ChainHolds'
  BY <1>2, <1>4 DEF Untouched, ChainHolds, Decodes
<1>6. CopiesAreCurrent'
  BY <1>2, <1>4 DEF Untouched, CopiesAreCurrent
<1>7. IdsPoint' /\ AnswersAreOwn'
  BY <1>2, <1>4 DEF Untouched, IdsPoint, PointsAt, AnswersAreOwn, Displaced
<1> QED BY <1>5, <1>6, <1>7 DEF Untouched

\* In a chain that decodes, an entry stands where its sequence says, and a
\* stream taken for missing replays nothing.
LEMMA ReplaysAreOwn ==
  ASSUME TInv, Untouched, NEW f \in Fibers, pc[f] = "ids",
         NEW index \in {ids, NoIds}, NEW e \in Replays(f, index),
         call[f].request \notin Displaced
  PROVE  e.payload = call[f].request
<1> DEFINE r == call[f].request
<1>1. r \in Requests /\ index[r] # None
  BY DEF Replays, TInv, TypeOK, Payload
<1>2. index = ids /\ ids[r] # None
  BY <1>1 DEF NoIds
<1>3. PICK j \in 1..Len(raw[f]) : e = raw[f][j] /\ raw[f][j].sequence = ids[r]
  BY <1>2 DEF Replays
<1>4. f \notin missed
  BY <1>3 DEF TInv, MissedIsEmpty
<1>5. raw[f] = file /\ Decodes(file) /\ file \in Seq(Line) /\ ids[r] \in Nat
  BY <1>1, <1>2, <1>4 DEF TInv, TypeOK, Untouched, CopiesAreCurrent, ChainHolds
<1>6. ids[r] = j - 1
  BY <1>3, <1>5 DEF Decodes
<1>7. file[ids[r] + 1].payload = r
  BY <1>1, <1>2 DEF Untouched, IdsPoint, PointsAt
<1>8. ids[r] + 1 = j
  BY <1>5, <1>6
<1> QED BY <1>3, <1>5, <1>7, <1>8

LEMMA ReadIdsIsCurrent ==
  ASSUME TInv, Untouched, NEW f \in Fibers, ReadIds(f)
  PROVE  Untouched'
<1>0. PICK index \in {ids, NoIds} : ReplayOrAppend(f, index)
  BY DEF ReadIds
<1>1. /\ pc \in [Fibers -> Steps] /\ known \in [Fibers -> [Requests -> Nat \cup {None}]]
      /\ answer \in [Fibers -> Entry \cup {None}]
      /\ known' = [known EXCEPT ![f] = index] /\ pc[f] = "ids"
      /\ UNCHANGED <<file, ids, replaced, raw, missed, call, acked>>
      /\ \A g \in Fibers : g # f => pc'[g] = pc[g]
      /\ pc'[f] \in {"stream", "unlock"}
  BY <1>0 DEF TInv, TypeOK, ReplayOrAppend, Goto, files
<1>2. /\ \A g \in Fibers : g # f => answer'[g] = answer[g]
      /\ answer'[f] = answer[f] \/ answer'[f] \in Replays(f, index)
  BY <1>0, <1>1 DEF ReplayOrAppend
<1>3. ChainHolds'
  BY <1>1 DEF Untouched, ChainHolds, Decodes
<1>4. CopiesAreCurrent'
  BY <1>1 DEF Untouched, CopiesAreCurrent
<1>5. IdsPoint'
  <2>1. \A g \in Fibers : pc'[g] = "index" => g # f /\ pc[g] = "index"
    BY <1>1
  <2> QED BY <1>1, <1>2, <2>1 DEF Untouched, IdsPoint, PointsAt, Displaced
<1>6. AnswersAreOwn'
  <2>1. answer'[f] \in Replays(f, index) /\ call[f].request \notin Displaced =>
          answer'[f].payload = call[f].request
    BY <1>1, ReplaysAreOwn
  <2>2. \A g \in Fibers : g # f => answer'[g] = answer[g] /\ call'[g] = call[g]
    BY <1>1, <1>2
  <2>3. Displaced' = Displaced /\ acked' = acked
    BY <1>1 DEF Displaced
  <2> QED BY <1>1, <1>2, <2>1, <2>2, <2>3 DEF Untouched, AnswersAreOwn
<1> QED BY <1>3, <1>4, <1>5, <1>6 DEF Untouched

\* What an append that took the stream for missing replaces is displaced: the
\* index points at nobody's entry but a displaced one's.
LEMMA MissedWriteDisplaces ==
  ASSUME TInv, Untouched, NEW f \in Fibers, f \in missed,
         replaced' = replaced \cup Entries(file),
         NEW r \in Requests, ids[r] # None
  PROVE  r \in Displaced'
<1>1. CASE r \in Displaced
  BY <1>1 DEF Displaced
<1>2. CASE r \notin Displaced
  <2>1. ids[r] + 1 \in 1..Len(file) /\ file[ids[r] + 1].payload = r
    BY <1>2 DEF Untouched, IdsPoint, PointsAt
  <2>2. file[ids[r] + 1] \in Entries(file)
    BY <2>1 DEF Untouched, ChainHolds, Decodes, Entries, Lines
  <2> QED BY <2>1, <2>2 DEF Displaced
<1> QED BY <1>1, <1>2

LEMMA WriteStreamPoints ==
  ASSUME TInv, WritersOwnTheLock, Untouched, NEW f \in Fibers, WriteStream(f)
  PROVE  Untouched'
<1> DEFINE s == raw[f]
           e == SealedEntry(s, call[f].request)
<1>0. /\ pc \in [Fibers -> Steps] /\ pc[f] = "stream" /\ file \in Seq(Line)
      /\ answer \in [Fibers -> Entry \cup {None}] /\ ids \in [Requests -> Nat \cup {None}]
      /\ call[f].request \in Payload
      /\ \A g \in Fibers : g # f => pc[g] \notin Locked
  BY DEF TInv, TypeOK, WriteStream, WritersOwnTheLock, Locked
<1>1. s \in Seq(Line) /\ Decodes(s) /\ known[f] \in {ids, NoIds} /\ (s = file \/ f \in missed)
  BY <1>0 DEF TInv, TypeOK, ReadDecodes, Untouched, CopiesAreCurrent
<1>2. e \in Entry /\ e.sequence = Len(s) /\ e.payload = call[f].request
  BY <1>0, <1>1, SealedEntryType DEF SealedEntry
<1>3. Decodes(Append(s, e))
  BY <1>0, <1>1, SealingKeepsTheChain
<1>4. /\ file' = Append(s, e) /\ answer' = [answer EXCEPT ![f] = e]
      /\ UNCHANGED <<ids, call, raw, known, missed, acked>>
      /\ \A g \in Fibers : g # f => pc'[g] = pc[g]
      /\ pc'[f] \in {"unlock", "index"}
      /\ replaced' = IF f \in missed THEN replaced \cup Entries(file) ELSE replaced
  BY <1>0, <1>1 DEF WriteStream, Goto
<1> HIDE DEF e, s
<1>5. /\ Len(file') = Len(s) + 1 /\ file'[Len(s) + 1] = e
      /\ \A i \in 1..Len(s) : file'[i] = s[i]
      /\ Len(s) \in Nat
  BY <1>0, <1>1, <1>2, <1>4 DEF Line
<1>6. ChainHolds'
  BY <1>0, <1>3, <1>4 DEF Untouched, ChainHolds, Decodes
<1>7. CopiesAreCurrent'
  BY <1>0, <1>1, <1>4 DEF CopiesAreCurrent, Locked
<1>8. IdsPoint'
  <2>1. ASSUME NEW r \in Requests, ids[r] # None, r \notin Displaced'
        PROVE  PointsAt(ids[r], r)'
    <3>1. f \notin missed
      BY <1>4, <2>1, MissedWriteDisplaces
    <3>2. s = file /\ r \notin Displaced
      BY <1>1, <1>4, <2>1, <3>1 DEF Displaced
    <3>3. ids[r] \in Nat /\ ids[r] + 1 \in 1..Len(file) /\ file[ids[r] + 1].payload = r
      BY <1>0, <2>1, <3>2 DEF Untouched, IdsPoint, PointsAt
    <3> QED BY <1>4, <1>5, <3>2, <3>3 DEF PointsAt
  <2>2. ASSUME NEW g \in Fibers, pc'[g] = "index"
        PROVE  PointsAt(answer[g].sequence, call[g].request)'
    <3>1. g = f
      BY <1>0, <1>4, <2>2 DEF Locked
    <3>2. answer'[g] = e /\ call'[g] = call[f]
      BY <1>0, <1>4, <3>1
    <3> QED BY <1>2, <1>5, <3>2 DEF PointsAt
  <2> QED BY <1>4, <2>1, <2>2 DEF IdsPoint
<1>9. AnswersAreOwn'
  <2>1. \A r : r \notin Displaced' => r \notin Displaced
    BY <1>4 DEF Displaced
  <2> QED BY <1>0, <1>2, <1>4, <2>1 DEF Untouched, AnswersAreOwn
<1> QED BY <1>6, <1>7, <1>8, <1>9 DEF Untouched

LEMMA WriteIdsPoints ==
  ASSUME TInv, WritersOwnTheLock, Untouched, NEW f \in Fibers, WriteIds(f)
  PROVE  Untouched'
<1>0. /\ pc \in [Fibers -> Steps] /\ pc[f] = "index"
      /\ known[f] \in {ids, NoIds} /\ ids \in [Requests -> Nat \cup {None}]
      /\ \A g \in Fibers : g # f => pc[g] \notin Locked
      /\ PointsAt(answer[f].sequence, call[f].request)
  BY DEF TInv, TypeOK, WriteIds, WritersOwnTheLock, Locked, Untouched, CopiesAreCurrent, IdsPoint
<1>1. /\ ids' = [known[f] EXCEPT ![call[f].request] = answer[f].sequence]
      /\ UNCHANGED <<file, replaced, call, raw, known, missed, answer, acked>>
      /\ \A g \in Fibers : pc'[g] = IF g = f THEN "unlock" ELSE pc[g]
  BY <1>0 DEF WriteIds, Goto, locals
<1>2. ChainHolds' /\ AnswersAreOwn'
  BY <1>0, <1>1 DEF Untouched, ChainHolds, Decodes, AnswersAreOwn, Displaced
<1>3. CopiesAreCurrent'
  BY <1>0, <1>1 DEF CopiesAreCurrent, Locked
<1>4. IdsPoint'
  <2>1. ASSUME NEW r \in Requests, ids'[r] # None, r \notin Displaced
        PROVE  PointsAt(ids'[r], r)
    <3>1. CASE r = call[f].request
      BY <1>0, <1>1, <3>1 DEF NoIds
    <3>2. CASE r # call[f].request
      <4>1. known[f][r] # None
        BY <1>0, <1>1, <2>1, <3>2 DEF NoIds
      <4>2. ids[r] # None /\ ids'[r] = ids[r]
        BY <1>0, <1>1, <3>2, <4>1 DEF NoIds
      <4> QED BY <2>1, <4>2 DEF Untouched, IdsPoint
    <3> QED BY <3>1, <3>2
  <2>2. \A g \in Fibers : pc'[g] # "index"
    BY <1>0, <1>1 DEF Locked
  <2> QED BY <1>1, <2>1, <2>2 DEF IdsPoint, PointsAt, Displaced
<1> QED BY <1>2, <1>3, <1>4 DEF Untouched

LEMMA ProgressIsOwn ==
  ASSUME TInv, WritersOwnTheLock, Untouched, NEW f \in Fibers, Progress(f)
  PROVE  Untouched'
<1> USE DEF Goto, files, locals, history
<1>0. /\ pc \in [Fibers -> Steps] /\ raw \in [Fibers -> Seq(Line)]
      /\ known \in [Fibers -> [Requests -> Nat \cup {None}]]
      /\ answer \in [Fibers -> Entry \cup {None}]
      /\ \A g \in Fibers : pc[g] \notin {"quarantine", "rewrite"}
  BY DEF TInv, TypeOK, Untouched, ChainHolds
<1>1. CASE TakePermit(f) \/ AcquireLock(f)
  BY <1>0, <1>1, FilesStandStill DEF TakePermit, AcquireLock
<1>2. CASE RefuseLock(f)
  BY <1>0, <1>2, FilesStandStill DEF RefuseLock, Leave
<1>3. CASE ReadStream(f)
  BY <1>3, ReadStreamIsCurrent
<1>4. CASE ReadIds(f)
  BY <1>4, ReadIdsIsCurrent
<1>5. CASE WriteStream(f)
  BY <1>5, WriteStreamPoints
<1>6. CASE WriteIds(f)
  BY <1>6, WriteIdsPoints
<1>7. CASE Quarantine(f) \/ Rewrite(f)
  BY <1>0, <1>7 DEF Quarantine, Rewrite
<1>8. CASE Unlock(f)
  <2>1. /\ UNCHANGED <<file, ids, replaced>>
        /\ \A g \in Fibers :
             /\ g # f => /\ pc'[g] = pc[g] /\ raw'[g] = raw[g] /\ known'[g] = known[g]
                         /\ answer'[g] = answer[g] /\ call'[g] = call[g]
                         /\ g \in missed => g \in missed'
             /\ pc'[f] = "idle" /\ answer'[f] = None
    BY <1>0, <1>8 DEF Unlock, Leave, TInv, TypeOK
  <2>2. \A a \in acked' : a \in acked \/
          (answer[f] # None /\ a = [request |-> call[f].request, entry |-> answer[f]])
    BY <1>8 DEF Unlock
  <2> QED BY <1>0, <2>1, <2>2, FilesStandStill
<1> QED BY <1>1, <1>2, <1>3, <1>4, <1>5, <1>6, <1>7, <1>8 DEF Progress

LEMMA IdleStep == TypeOK /\ IdleHaveNoAnswer /\ [Next]_vars => IdleHaveNoAnswer'
<1> SUFFICES ASSUME TypeOK, IdleHaveNoAnswer, [Next]_vars PROVE IdleHaveNoAnswer'
  OBVIOUS
<1> USE DEF IdleHaveNoAnswer, Goto, Leave, locals
<1>0. pc \in [Fibers -> Steps] /\ answer \in [Fibers -> Entry \cup {None}]
  BY DEF TypeOK
<1>1. ASSUME NEW f \in Fibers, NEW op \in {"append", "repair"}, NEW r \in Payload,
             Call(f, op, r)
      PROVE  IdleHaveNoAnswer'
  BY <1>0, <1>1 DEF Call
<1>2. ASSUME NEW f \in Fibers, Progress(f) PROVE IdleHaveNoAnswer'
  <2>1. CASE TakePermit(f) \/ AcquireLock(f) \/ RefuseLock(f)
    BY <1>0, <2>1 DEF TakePermit, AcquireLock, RefuseLock
  <2>2. CASE ReadStream(f) \/ ReadIds(f)
    BY <1>0, <2>2 DEF ReadStream, ReadAs, ReadIds, ReplayOrAppend
  <2>3. CASE WriteStream(f) \/ WriteIds(f)
    BY <1>0, <2>3 DEF WriteStream, WriteIds
  <2>4. CASE Quarantine(f) \/ Rewrite(f) \/ Unlock(f)
    BY <1>0, <2>4 DEF Quarantine, Rewrite, Unlock
  <2> QED BY <1>2, <2>1, <2>2, <2>3, <2>4 DEF Progress
<1>3. ASSUME NEW f \in Fibers, GiveUp(f) \/ InterruptLock(f) \/ StepFails(f)
      PROVE  IdleHaveNoAnswer'
  BY <1>0, <1>3 DEF GiveUp, InterruptLock, StepFails
<1>4. ASSUME NEW i \in Instances, Crash(i) PROVE IdleHaveNoAnswer'
  BY <1>0, <1>4 DEF Crash
<1>5. CASE ClearLock \/ Corruption \/ UNCHANGED vars
  BY <1>5 DEF ClearLock, Corruption, Garble, DropLine, DropIds, vars
<1> QED BY <1>1, <1>2, <1>3, <1>4, <1>5 DEF Next

LEMMA OwnStep == TInv /\ WritersOwnTheLock /\ OwnInv /\ [Next]_vars => OwnInv'
<1> SUFFICES ASSUME TInv, WritersOwnTheLock, OwnInv, [Next]_vars PROVE OwnInv'
  OBVIOUS
<1> USE DEF Goto, files, locals, history
<1>0. /\ pc \in [Fibers -> Steps] /\ raw \in [Fibers -> Seq(Line)]
      /\ known \in [Fibers -> [Requests -> Nat \cup {None}]]
      /\ call \in [Fibers -> [op : {"append", "repair", "none"}, request : Payload]]
      /\ answer \in [Fibers -> Entry \cup {None}] /\ damages \in Nat
  BY DEF TInv, TypeOK
<1>1. IdleHaveNoAnswer'
  BY IdleStep DEF TInv, OwnInv
<1>2. SUFFICES ASSUME damages' = 0 PROVE Untouched'
  BY <1>1 DEF OwnInv
<1>3. ASSUME damages' = damages PROVE Untouched
  BY <1>2, <1>3 DEF OwnInv
<1>4. ASSUME NEW f \in Fibers, NEW op \in {"append", "repair"}, NEW r \in Payload,
             Call(f, op, r)
      PROVE  Untouched'
  <2>1. Untouched /\ answer[f] = None
    BY <1>3, <1>4 DEF Call, OwnInv, IdleHaveNoAnswer
  <2> QED BY <1>0, <1>4, <2>1, FilesStandStill DEF Call, Untouched, ChainHolds
<1>5. ASSUME NEW f \in Fibers, Progress(f) PROVE Untouched'
  <2>1. damages' = damages
    BY <1>5 DEF Progress, TakePermit, AcquireLock, RefuseLock, ReadStream, ReadAs, ReadIds,
       ReplayOrAppend, WriteStream, WriteIds, Quarantine, Rewrite, Unlock
  <2> QED BY <1>3, <1>5, <2>1, ProgressIsOwn
<1>6. ASSUME NEW f \in Fibers, GiveUp(f) PROVE Untouched'
  <2>1. Untouched /\ answer[f] = None
    BY <1>3, <1>6 DEF GiveUp, OwnInv, IdleHaveNoAnswer
  <2> QED BY <1>0, <1>6, <2>1, FilesStandStill DEF GiveUp, Untouched, ChainHolds
<1>7. ASSUME NEW f \in Fibers, InterruptLock(f) PROVE Untouched'
  <2>1. Untouched
    BY <1>3, <1>7 DEF InterruptLock
  <2> QED BY <1>0, <1>7, <2>1, FilesStandStill DEF InterruptLock, Leave, Untouched, ChainHolds
<1>8. ASSUME NEW f \in Fibers, StepFails(f) PROVE Untouched'
  <2>1. Untouched
    BY <1>3, <1>8 DEF StepFails
  <2> QED BY <1>0, <1>8, <2>1, FilesStandStill DEF StepFails, Untouched, ChainHolds
<1>9. ASSUME NEW i \in Instances, Crash(i) PROVE Untouched'
  <2>1. Untouched /\ UNCHANGED <<file, ids, replaced, acked>>
    BY <1>3, <1>9 DEF Crash
  <2>2. \A g \in Fibers :
          \/ pc'[g] = "idle" /\ answer'[g] = None
          \/ /\ pc'[g] = pc[g] /\ raw'[g] = raw[g] /\ known'[g] = known[g]
             /\ g \in missed => g \in missed'
             /\ answer'[g] = answer[g] /\ call'[g] = call[g]
    BY <1>0, <1>9 DEF Crash
  <2> QED BY <2>1, <2>2, FilesStandStill DEF Untouched, ChainHolds
<1>10. CASE ClearLock
  <2>1. Untouched
    BY <1>3, <1>10 DEF ClearLock
  <2> QED BY <1>10, <2>1, FilesStandStill DEF ClearLock, Untouched, ChainHolds
<1>11. CASE Corruption
  BY <1>0, <1>2, <1>11 DEF Corruption, Garble, DropLine, DropIds
<1>12. CASE UNCHANGED vars
  <2>1. Untouched
    BY <1>3, <1>12 DEF vars
  <2> QED BY <1>12, <2>1, FilesStandStill DEF vars, Untouched, ChainHolds
<1> QED BY <1>4, <1>5, <1>6, <1>7, <1>8, <1>9, <1>10, <1>11, <1>12 DEF Next

LEMMA OwnHolds == Spec => []OwnInv
<1>1. Init => OwnInv
  BY DEF Init, OwnInv, IdleHaveNoAnswer, Untouched, ChainHolds, Decodes, CopiesAreCurrent, IdsPoint,
     AnswersAreOwn, NoIds, Displaced
<1> QED BY <1>1, OwnStep, TypesHold, Exclusion, PTL DEF Spec

\* Whatever the two writes, the failures and the crashes leave behind decodes,
\* while nothing outside touches the files. (Journal.ts:12)
THEOREM ChainStaysIntact == Spec => []ChainIntact
<1>1. OwnInv => ChainIntact
  BY DEF OwnInv, Untouched, ChainHolds, ChainIntact
<1> QED BY <1>1, OwnHolds, PTL

\* A retried request is answered with an entry that was written for it, while
\* nothing outside touches the files, unless its entry went with a stream that
\* was taken for missing. (Journal.ts:13, 199)
THEOREM AnswersAreForTheirRequests == Spec => []AnsweredByOwnEntry
<1>1. OwnInv => AnsweredByOwnEntry
  BY DEF OwnInv, Untouched, AnswersAreOwn, AnsweredByOwnEntry
<1> QED BY <1>1, OwnHolds, PTL
-----------------------------------------------------------------------------
(* Requests are written once, also in files that were touched: whatever is  *)
(* in the stream, or in a copy that may become the stream, of a request     *)
(* whose entry the index has not lost, is one entry and the one the index   *)
(* names (or will name, once its writer has written the index).             *)

Occurs(s, r) == {i \in 1..Len(s) : s[i] # Garbage /\ s[i].payload = r}

Tidy(s, r, n) == \A i, j \in Occurs(s, r) : i = j /\ s[i].sequence = n

Writing(f, r) == pc[f] = "index" /\ call[f].request = r

FileIsTidy ==
  \A r \in Requests \ orphaned :
    /\ (\A f \in Fibers : ~Writing(f, r)) => Tidy(file, r, ids[r])
    /\ \A f \in Fibers : Writing(f, r) => Tidy(file, r, answer[f].sequence)

CopiesAreTidy ==
  \A f \in Fibers : pc[f] \in HoldsCopy =>
    \A r \in Requests \ orphaned : Tidy(raw[f], r, ids[r])

IndexIsKnown ==
  \A f \in Fibers : pc[f] \in {"stream", "index"} =>
    \A r \in Requests \ orphaned : known[f][r] \in {ids[r], None}

AskedIsNew ==
  \A f \in Fibers : pc[f] = "stream" =>
    \A r \in Requests \ orphaned :
      call[f].request = r => Occurs(raw[f], r) = {} \/ r \in Ignored(f)

TidyInv == FileIsTidy /\ CopiesAreTidy /\ IndexIsKnown /\ AskedIsNew

LEMMA TidyWithout ==
  ASSUME NEW s, NEW t, NEW r, NEW n, Tidy(s, r, n),
         \A i \in Occurs(t, r) : i \in Occurs(s, r) /\ t[i] = s[i]
  PROVE  Tidy(t, r, n)
BY DEF Tidy

LEMMA GarbledIsTidy ==
  ASSUME NEW s \in Seq(Line), NEW k \in 1..Len(s), NEW r, NEW n, Tidy(s, r, n)
  PROVE  Tidy([s EXCEPT ![k] = Garbage], r, n)
<1> DEFINE t == [s EXCEPT ![k] = Garbage]
<1>1. Len(t) = Len(s) /\ \A i \in 1..Len(s) : t[i] = IF i = k THEN Garbage ELSE s[i]
  OBVIOUS
<1> HIDE DEF t
<1>2. \A i \in Occurs(t, r) : i \in Occurs(s, r) /\ t[i] = s[i]
  BY <1>1 DEF Occurs
<1> QED BY <1>2, TidyWithout DEF t

LEMMA PrefixIsTidy ==
  ASSUME NEW s \in Seq(Line), NEW k \in 0..Len(s), NEW r, NEW n, Tidy(s, r, n)
  PROVE  Tidy(SubSeq(s, 1, k), r, n)
<1> DEFINE t == SubSeq(s, 1, k)
<1>1. Len(t) = k /\ \A i \in 1..k : t[i] = s[i]
  OBVIOUS
<1> HIDE DEF t
<1>2. \A i \in Occurs(t, r) : i \in Occurs(s, r) /\ t[i] = s[i]
  BY <1>1 DEF Occurs
<1> QED BY <1>2, TidyWithout DEF t

LEMMA ShorterIsTidy ==
  ASSUME NEW s \in Seq(Line), NEW k \in 1..Len(s), NEW r, NEW n, Tidy(s, r, n),
         NEW t, t = [i \in 1..(Len(s) - 1) |-> IF i < k THEN s[i] ELSE s[i + 1]]
  PROVE  Tidy(t, r, n)
<1> DEFINE From(i) == IF i < k THEN i ELSE i + 1
<1>1. /\ Len(s) - 1 \in Nat /\ Len(t) = Len(s) - 1
      /\ \A i \in 1..(Len(s) - 1) : t[i] = s[From(i)] /\ From(i) \in 1..Len(s)
  OBVIOUS
<1>2. \A i \in Occurs(t, r) :
        i \in 1..(Len(s) - 1) /\ From(i) \in Occurs(s, r) /\ t[i] = s[From(i)]
  BY <1>1 DEF Occurs
<1>3. SUFFICES ASSUME NEW i \in Occurs(t, r), NEW j \in Occurs(t, r)
               PROVE  i = j /\ t[i].sequence = n
  BY DEF Tidy
<1>4. From(i) = From(j) /\ s[From(i)].sequence = n
  BY <1>2 DEF Tidy
<1>5. i \in Nat /\ j \in Nat
  BY <1>2
<1>6. i = j
  BY <1>4, <1>5
<1> QED BY <1>2, <1>4, <1>6

LEMMA AppendedIsTidy ==
  ASSUME NEW s \in Seq(Line), NEW e \in Entry, NEW r, NEW n,
         IF e.payload = r THEN Occurs(s, r) = {} /\ n = e.sequence ELSE Tidy(s, r, n)
  PROVE  Tidy(Append(s, e), r, n)
<1> DEFINE t == Append(s, e)
<1>1. /\ Len(t) = Len(s) + 1 /\ t[Len(s) + 1] = e
      /\ \A i \in 1..Len(s) : t[i] = s[i]
      /\ Len(s) \in Nat
  BY DEF Line
<1> HIDE DEF t
<1>2. \A i \in Occurs(t, r) : i \in 1..Len(s) => i \in Occurs(s, r) /\ t[i] = s[i]
  BY <1>1 DEF Occurs
<1>3. \A i \in Occurs(t, r) : i \in 1..Len(s) \/ i = Len(s) + 1
  BY <1>1 DEF Occurs
<1>4. CASE e.payload = r
  BY <1>1, <1>2, <1>3, <1>4 DEF Tidy, t
<1>5. CASE e.payload # r
  <2>1. \A i \in Occurs(t, r) : i # Len(s) + 1
    BY <1>1, <1>5 DEF Occurs
  <2> QED BY <1>2, <1>3, <1>5, <2>1, TidyWithout DEF t
<1> QED BY <1>4, <1>5

\* A step that leaves the files alone and writes no index: nobody but a fiber
\* whose request is lost from the index then stops writing it.
LEMMA TidyStandsStill ==
  ASSUME TidyInv, UNCHANGED <<file, ids>>, orphaned \subseteq orphaned',
         \A f \in Fibers :
           /\ pc'[f] \in HoldsCopy => pc[f] \in HoldsCopy /\ raw'[f] = raw[f]
           /\ pc'[f] \in {"stream", "index"} =>
                /\ pc'[f] = pc[f] /\ known'[f] = known[f]
                /\ call'[f] = call[f] /\ answer'[f] = answer[f]
           /\ pc[f] = "index" /\ pc'[f] # "index" => call[f].request \in orphaned'
  PROVE  TidyInv'
<1>1. FileIsTidy'
  <2> SUFFICES ASSUME NEW r \in Requests, r \notin orphaned'
      PROVE  /\ (\A f \in Fibers : ~Writing(f, r)') => Tidy(file, r, ids[r])
             /\ \A f \in Fibers : Writing(f, r)' => Tidy(file, r, answer'[f].sequence)
    BY DEF FileIsTidy, Tidy, Occurs
  <2>1. \A f \in Fibers : Writing(f, r)' <=> Writing(f, r)
    BY DEF Writing
  <2>2. \A f \in Fibers : Writing(f, r)' => answer'[f] = answer[f]
    BY DEF Writing
  <2> QED BY <2>1, <2>2 DEF TidyInv, FileIsTidy
<1>2. CopiesAreTidy'
  <2> SUFFICES ASSUME NEW f \in Fibers, pc'[f] \in HoldsCopy, NEW r \in Requests, r \notin orphaned'
      PROVE  Tidy(raw'[f], r, ids'[r])
    BY DEF CopiesAreTidy, Tidy, Occurs
  <2> QED BY DEF TidyInv, CopiesAreTidy
<1>3. IndexIsKnown'
  BY DEF TidyInv, IndexIsKnown
<1>4. AskedIsNew'
  <2> SUFFICES ASSUME NEW f \in Fibers, pc'[f] = "stream",
                      NEW r \in Requests, r \notin orphaned', call'[f].request = r
      PROVE  Occurs(raw'[f], r) = {} \/ r \in Ignored(f)'
    BY DEF AskedIsNew, Occurs
  <2>1. pc[f] = "stream" /\ raw'[f] = raw[f] /\ call'[f] = call[f] /\ known'[f] = known[f]
    BY DEF HoldsCopy
  <2> QED BY <2>1 DEF TidyInv, AskedIsNew, Ignored
<1> QED BY <1>1, <1>2, <1>3, <1>4 DEF TidyInv

LEMMA ReadStreamIsTidy ==
  ASSUME TypeOK, WritersOwnTheLock, TidyInv, NEW f \in Fibers, ReadStream(f)
  PROVE  TidyInv'
<1> PICK text \in {file, <<>>} : ReadAs(f, text)
  BY DEF ReadStream
<1>0. /\ pc \in [Fibers -> Steps] /\ raw \in [Fibers -> Seq(Line)] /\ pc[f] = "read"
      /\ raw' = [raw EXCEPT ![f] = text]
      /\ UNCHANGED <<file, ids, known, answer, call, orphaned>>
      /\ \A g \in Fibers : g # f => pc'[g] = pc[g] /\ pc[g] \notin Locked
      /\ pc'[f] \in {"ids", "quarantine", "unlock"}
  BY DEF TypeOK, ReadAs, Goto, files, WritersOwnTheLock, Locked
<1>1. \A g \in Fibers, r \in Requests : ~Writing(g, r) /\ ~Writing(g, r)'
  BY <1>0 DEF Writing, Locked
<1>2. \A r \in Requests \ orphaned : Tidy(file, r, ids[r])
  BY <1>1 DEF TidyInv, FileIsTidy
<1>3. FileIsTidy'
  <2> SUFFICES ASSUME NEW r \in Requests, r \notin orphaned PROVE Tidy(file, r, ids[r])
    BY <1>0, <1>1 DEF FileIsTidy, Tidy, Occurs
  <2> QED BY <1>2
<1>4. CopiesAreTidy'
  <2> SUFFICES ASSUME NEW g \in Fibers, pc'[g] \in HoldsCopy, NEW r \in Requests, r \notin orphaned
      PROVE  Tidy(raw'[g], r, ids[r])
    BY <1>0 DEF CopiesAreTidy, Tidy, Occurs
  <2>1. g = f /\ raw'[g] = text
    BY <1>0 DEF HoldsCopy, Locked
  <2>2. Tidy(<<>>, r, ids[r])
    BY DEF Tidy, Occurs
  <2> QED BY <1>2, <2>1, <2>2
<1>5. \A g \in Fibers : pc'[g] \notin {"stream", "index"}
  BY <1>0 DEF Locked
<1> QED BY <1>3, <1>4, <1>5 DEF TidyInv, IndexIsKnown, AskedIsNew

LEMMA FileStaysTidy ==
  ASSUME FileIsTidy, UNCHANGED <<file, ids, orphaned>>,
         \A g \in Fibers, r \in Requests : ~Writing(g, r) /\ ~Writing(g, r)'
  PROVE  FileIsTidy'
BY DEF FileIsTidy, Tidy, Occurs

LEMMA ReadIdsIsTidy ==
  ASSUME TInv, WritersOwnTheLock, TidyInv, NEW f \in Fibers, ReadIds(f)
  PROVE  TidyInv'
<1> PICK index \in {ids, NoIds} : ReplayOrAppend(f, index)
  BY DEF ReadIds
<1>0. /\ pc \in [Fibers -> Steps] /\ known \in [Fibers -> [Requests -> Nat \cup {None}]]
      /\ raw[f] \in Seq(Line) /\ pc[f] = "ids"
      /\ known' = [known EXCEPT ![f] = index]
      /\ UNCHANGED <<file, ids, raw, call, orphaned>>
      /\ \A g \in Fibers : g # f => pc'[g] = pc[g] /\ pc[g] \notin Locked
      /\ pc'[f] \in {"stream", "unlock"}
  BY DEF TInv, TypeOK, ReplayOrAppend, Goto, files, WritersOwnTheLock, Locked
<1>1. \A g \in Fibers, r \in Requests : ~Writing(g, r) /\ ~Writing(g, r)'
  BY <1>0 DEF Writing, Locked
<1>2. FileIsTidy'
  BY <1>0, <1>1, FileStaysTidy DEF TidyInv
<1>3. CopiesAreTidy'
  <2> SUFFICES ASSUME NEW g \in Fibers, pc'[g] \in HoldsCopy, NEW r \in Requests, r \notin orphaned
      PROVE  Tidy(raw[g], r, ids[r])
    BY <1>0 DEF CopiesAreTidy, Tidy, Occurs
  <2>1. g = f
    BY <1>0 DEF HoldsCopy, Locked
  <2> QED BY <1>0, <2>1 DEF TidyInv, CopiesAreTidy, HoldsCopy
<1>4. IndexIsKnown'
  <2>1. \A g \in Fibers : pc'[g] \in {"stream", "index"} => g = f
    BY <1>0 DEF Locked
  <2> QED BY <1>0, <2>1 DEF IndexIsKnown, NoIds
<1>5. AskedIsNew'
  <2> SUFFICES ASSUME NEW g \in Fibers, pc'[g] = "stream",
                      NEW r \in Requests, r \notin orphaned, call[g].request = r,
                      NEW i \in Occurs(raw[g], r)
      PROVE  r \in Ignored(g)'
    BY <1>0 DEF AskedIsNew, Occurs
  <2>1. g = f /\ Replays(f, index) = {}
    BY <1>0 DEF ReplayOrAppend, Goto, Locked
  <2>2. i \in 1..Len(raw[f]) /\ raw[f][i] # Garbage /\ raw[f][i] \in Line
    BY <1>0, <2>1 DEF Occurs
  <2>3. Tidy(raw[f], r, ids[r]) /\ i \in Occurs(raw[f], r)
    BY <1>0, <2>1 DEF TidyInv, CopiesAreTidy, HoldsCopy
  <2>4. raw[f][i].sequence = ids[r]
    BY <2>3 DEF Tidy
  <2>5. ids[r] \in Nat
    BY <2>2, <2>4 DEF Line, Entry
  <2>6. ids[r] # None /\ r # NoRequest
    BY <2>5, DistinctMarkers
  <2>7. call[f].request = r
    BY <2>1
  <2>8. CASE index[r] = None
    BY <1>0, <2>1, <2>6, <2>8 DEF Ignored
  <2>9. CASE index[r] # None
    <3>1. index[r] = ids[r]
      BY <2>9 DEF NoIds
    <3>2. i \in {j \in 1..Len(raw[f]) : raw[f][j].sequence = index[r]}
      BY <2>2, <2>4, <3>1
    <3>3. Replays(f, index) =
            {raw[f][k] : k \in {j \in 1..Len(raw[f]) : raw[f][j].sequence = index[r]}}
      BY <2>6, <2>7, <2>9 DEF Replays
    <3>4. raw[f][i] \in Replays(f, index)
      BY <3>2, <3>3
    <3> QED BY <2>1, <3>4
  <2> QED BY <2>8, <2>9
<1> QED BY <1>2, <1>3, <1>4, <1>5 DEF TidyInv

LEMMA WriteStreamIsTidy ==
  ASSUME TInv, WritersOwnTheLock, TidyInv, NEW f \in Fibers, WriteStream(f)
  PROVE  TidyInv'
<1> DEFINE e == SealedEntry(raw[f], call[f].request)
<1>0. /\ pc \in [Fibers -> Steps] /\ pc[f] = "stream" /\ raw[f] \in Seq(Line) /\ Decodes(raw[f])
      /\ answer \in [Fibers -> Entry \cup {None}] /\ call[f].request \in Payload
      /\ \A g \in Fibers : g # f => pc[g] \notin Locked
  BY DEF TInv, TypeOK, ReadDecodes, WriteStream, WritersOwnTheLock, Locked
<1>1. e \in Entry /\ e.payload = call[f].request
  BY <1>0, SealedEntryType DEF SealedEntry
<1>2. /\ file' = Append(raw[f], e) /\ answer' = [answer EXCEPT ![f] = e]
      /\ UNCHANGED <<ids, call, raw, known>>
      /\ orphaned \subseteq orphaned' /\ Ignored(f) \cap {call[f].request} \subseteq orphaned'
      /\ \A g \in Fibers : g # f => pc'[g] = pc[g]
      /\ pc'[f] = IF call[f].request = NoRequest THEN "unlock" ELSE "index"
  BY <1>0 DEF WriteStream, Goto
<1> HIDE DEF e
<1>3. answer'[f] = e /\ \A g \in Fibers : pc'[g] \notin HoldsCopy
  BY <1>0, <1>2 DEF HoldsCopy, Locked
<1>4. FileIsTidy'
  <2> SUFFICES ASSUME NEW r \in Requests, r \notin orphaned'
      PROVE  /\ (\A g \in Fibers : ~Writing(g, r)') => Tidy(file', r, ids[r])
             /\ \A g \in Fibers : Writing(g, r)' => Tidy(file', r, answer'[g].sequence)
    BY <1>2 DEF FileIsTidy, Tidy, Occurs
  <2>1. \A g \in Fibers : Writing(g, r)' <=> g = f /\ call[f].request = r
    BY <1>0, <1>2, DistinctMarkers DEF Writing, Locked
  <2>2. CASE call[f].request = r
    <3>1. Occurs(raw[f], r) = {}
      BY <1>0, <1>2, <2>2 DEF TidyInv, AskedIsNew
    <3>2. Tidy(file', r, e.sequence)
      BY <1>0, <1>1, <1>2, <2>2, <3>1, AppendedIsTidy
    <3> QED BY <1>3, <2>1, <2>2, <3>2
  <2>3. CASE call[f].request # r
    <3>1. Tidy(raw[f], r, ids[r])
      BY <1>0, <1>2 DEF TidyInv, CopiesAreTidy, HoldsCopy
    <3>2. Tidy(file', r, ids[r])
      BY <1>0, <1>1, <1>2, <2>3, <3>1, AppendedIsTidy
    <3> QED BY <2>1, <2>3, <3>2
  <2> QED BY <2>2, <2>3
<1>5. IndexIsKnown'
  <2>1. \A g \in Fibers : pc'[g] \in {"stream", "index"} => pc[g] \in {"stream", "index"}
    BY <1>0, <1>2
  <2> QED BY <1>2, <2>1 DEF TidyInv, IndexIsKnown
<1>6. CopiesAreTidy' /\ AskedIsNew'
  BY <1>3 DEF CopiesAreTidy, AskedIsNew, HoldsCopy
<1> QED BY <1>4, <1>5, <1>6 DEF TidyInv

LEMMA WriteIdsIsTidy ==
  ASSUME TInv, WritersOwnTheLock, TidyInv, NEW f \in Fibers, WriteIds(f)
  PROVE  TidyInv'
<1>0. /\ pc \in [Fibers -> Steps] /\ pc[f] = "index" /\ call[f].request \in Requests
      /\ known[f] \in [Requests -> Nat \cup {None}]
      /\ \A g \in Fibers : g # f => pc[g] \notin Locked
  BY DEF TInv, TypeOK, EntryAppended, WriteIds, WritersOwnTheLock, Locked
<1>1. /\ ids' = [known[f] EXCEPT ![call[f].request] = answer[f].sequence]
      /\ UNCHANGED <<file, call, raw, known, answer>>
      /\ orphaned' = orphaned \cup Ignored(f)
      /\ \A g \in Fibers : pc'[g] = IF g = f THEN "unlock" ELSE pc[g]
  BY <1>0 DEF WriteIds, Goto, locals
<1>2. \A g \in Fibers : pc'[g] \notin HoldsCopy /\ pc'[g] \notin {"stream", "index"}
  BY <1>0, <1>1 DEF HoldsCopy, Locked
<1>3. FileIsTidy'
  <2> SUFFICES ASSUME NEW r \in Requests, r \notin orphaned' PROVE Tidy(file, r, ids'[r])
    BY <1>1, <1>2 DEF FileIsTidy, Writing, Tidy, Occurs
  <2>1. CASE call[f].request = r
    <3>1. Tidy(file, r, answer[f].sequence)
      BY <1>0, <1>1, <2>1 DEF TidyInv, FileIsTidy, Writing
    <3> QED BY <1>0, <1>1, <2>1, <3>1
  <2>2. CASE call[f].request # r
    <3>1. \A g \in Fibers : ~Writing(g, r)
      BY <1>0, <2>2 DEF Writing, Locked
    <3>2. Tidy(file, r, ids[r]) /\ known[f][r] = ids[r]
      BY <1>0, <1>1, <3>1 DEF TidyInv, FileIsTidy, IndexIsKnown, Ignored
    <3> QED BY <1>0, <1>1, <2>2, <3>2
  <2> QED BY <2>1, <2>2
<1> QED BY <1>2, <1>3 DEF TidyInv, CopiesAreTidy, IndexIsKnown, AskedIsNew, HoldsCopy

LEMMA RewriteIsTidy ==
  ASSUME TInv, WritersOwnTheLock, TidyInv, NEW f \in Fibers, Rewrite(f)
  PROVE  TidyInv'
<1>0. /\ pc \in [Fibers -> Steps] /\ pc[f] = "rewrite" /\ raw[f] \in Seq(Line)
      /\ \A g \in Fibers : g # f => pc[g] \notin Locked
  BY DEF TInv, TypeOK, Rewrite, WritersOwnTheLock, Locked
<1>1. PICK n \in 0..Len(raw[f]) : file' = SubSeq(raw[f], 1, n)
  BY DEF Rewrite
<1>2. /\ UNCHANGED <<ids, orphaned>>
      /\ \A g \in Fibers : pc'[g] = IF g = f THEN "unlock" ELSE pc[g]
  BY <1>0 DEF Rewrite, Goto, locals, history
<1>3. \A g \in Fibers : pc'[g] \notin HoldsCopy /\ pc'[g] \notin {"stream", "index"}
  BY <1>0, <1>2 DEF HoldsCopy, Locked
<1>4. FileIsTidy'
  <2> SUFFICES ASSUME NEW r \in Requests, r \notin orphaned PROVE Tidy(file', r, ids[r])
    BY <1>2, <1>3 DEF FileIsTidy, Writing, Tidy, Occurs
  <2>1. Tidy(raw[f], r, ids[r])
    BY <1>0 DEF TidyInv, CopiesAreTidy, HoldsCopy
  <2> QED BY <1>0, <1>1, <2>1, PrefixIsTidy
<1> QED BY <1>3, <1>4 DEF TidyInv, CopiesAreTidy, IndexIsKnown, AskedIsNew, HoldsCopy

LEMMA CorruptionIsTidy ==
  ASSUME TInv, TidyInv, Corruption
  PROVE  TidyInv'
<1>0. file \in Seq(Line)
  BY DEF TInv, TypeOK
<1>1. ASSUME UNCHANGED <<ids, pc, locals, orphaned>>,
             NEW t, file' = t, \A r, n : Tidy(file, r, n) => Tidy(t, r, n)
      PROVE  TidyInv'
  <2>1. FileIsTidy'
    <3>1. \A f \in Fibers, r \in Requests : Writing(f, r)' <=> Writing(f, r)
      BY <1>1 DEF Writing, locals
    <3> SUFFICES ASSUME NEW r \in Requests, r \notin orphaned
        PROVE  /\ (\A g \in Fibers : ~Writing(g, r)') => Tidy(t, r, ids[r])
               /\ \A g \in Fibers : Writing(g, r)' => Tidy(t, r, answer[g].sequence)
      BY <1>1 DEF FileIsTidy, Tidy, Occurs, locals
    <3> QED BY <1>1, <3>1 DEF TidyInv, FileIsTidy
  <2>2. CopiesAreTidy' /\ IndexIsKnown' /\ AskedIsNew'
    BY <1>1 DEF TidyInv, CopiesAreTidy, IndexIsKnown, AskedIsNew, Ignored, locals, Tidy, Occurs
  <2> QED BY <2>1, <2>2 DEF TidyInv
<1>2. ASSUME NEW k \in 1..Len(file), Garble(k) PROVE TidyInv'
  BY <1>0, <1>1, <1>2, GarbledIsTidy DEF Garble
<1>3. ASSUME NEW k \in 1..Len(file), DropLine(k) PROVE TidyInv'
  BY <1>0, <1>1, <1>3, ShorterIsTidy DEF DropLine
<1>4. CASE DropIds
  <2>1. /\ UNCHANGED <<file, pc, locals>>
        /\ \A r \in Requests \ orphaned' : r \notin orphaned /\ ids'[r] = ids[r]
    BY <1>4 DEF DropIds, NoIds
  <2>2. FileIsTidy'
    <3> SUFFICES ASSUME NEW r \in Requests, r \notin orphaned'
        PROVE  /\ (\A g \in Fibers : ~Writing(g, r)') => Tidy(file, r, ids'[r])
               /\ \A g \in Fibers : Writing(g, r)' => Tidy(file, r, answer[g].sequence)
      BY <2>1 DEF FileIsTidy, Tidy, Occurs, locals
    <3>1. \A f \in Fibers : Writing(f, r)' <=> Writing(f, r)
      BY <2>1 DEF Writing, locals
    <3> QED BY <2>1, <3>1 DEF TidyInv, FileIsTidy
  <2>3. CopiesAreTidy'
    <3> SUFFICES ASSUME NEW f \in Fibers, pc[f] \in HoldsCopy, NEW r \in Requests, r \notin orphaned'
        PROVE  Tidy(raw[f], r, ids'[r])
      BY <2>1 DEF CopiesAreTidy, Tidy, Occurs, locals
    <3> QED BY <2>1 DEF TidyInv, CopiesAreTidy
  <2>4. IndexIsKnown' /\ AskedIsNew'
    BY <2>1 DEF TidyInv, IndexIsKnown, AskedIsNew, Ignored, locals, Occurs
  <2> QED BY <2>2, <2>3, <2>4 DEF TidyInv
<1> QED BY <1>2, <1>3, <1>4 DEF Corruption

LEMMA ProgressIsTidy ==
  ASSUME TInv, WritersOwnTheLock, TidyInv, NEW f \in Fibers, Progress(f)
  PROVE  TidyInv'
<1> USE DEF Goto, files, locals, history
<1>0. pc \in [Fibers -> Steps] /\ raw \in [Fibers -> Seq(Line)]
  BY DEF TInv, TypeOK
<1>1. CASE TakePermit(f) \/ AcquireLock(f)
  BY <1>0, <1>1, TidyStandsStill DEF TakePermit, AcquireLock, HoldsCopy
<1>2. CASE RefuseLock(f) \/ Unlock(f)
  <2>1. /\ UNCHANGED <<file, ids, orphaned>> /\ pc[f] # "index" /\ pc'[f] = "idle"
        /\ \A g \in Fibers : g # f =>
             /\ pc'[g] = pc[g] /\ raw'[g] = raw[g] /\ known'[g] = known[g]
             /\ call'[g] = call[g] /\ answer'[g] = answer[g]
    BY <1>0, <1>2 DEF RefuseLock, Unlock, Leave, TInv, TypeOK
  <2> QED BY <2>1, TidyStandsStill DEF HoldsCopy
<1>3. CASE ReadStream(f)
  BY <1>3, ReadStreamIsTidy DEF TInv
<1>4. CASE ReadIds(f)
  BY <1>4, ReadIdsIsTidy
<1>5. CASE WriteStream(f)
  BY <1>5, WriteStreamIsTidy
<1>6. CASE WriteIds(f)
  BY <1>6, WriteIdsIsTidy
<1>7. CASE Quarantine(f)
  BY <1>0, <1>7, TidyStandsStill DEF Quarantine, HoldsCopy
<1>8. CASE Rewrite(f)
  BY <1>8, RewriteIsTidy
<1> QED BY <1>1, <1>2, <1>3, <1>4, <1>5, <1>6, <1>7, <1>8 DEF Progress

LEMMA TidyStep == TInv /\ WritersOwnTheLock /\ TidyInv /\ [Next]_vars => TidyInv'
<1> SUFFICES ASSUME TInv, WritersOwnTheLock, TidyInv, [Next]_vars PROVE TidyInv'
  OBVIOUS
<1> USE DEF Goto, files, locals, history, HoldsCopy
<1>0. pc \in [Fibers -> Steps] /\ raw \in [Fibers -> Seq(Line)]
  BY DEF TInv, TypeOK
<1>1. ASSUME NEW f \in Fibers, NEW op \in {"append", "repair"}, NEW r \in Payload,
             Call(f, op, r)
      PROVE  TidyInv'
  BY <1>0, <1>1, TidyStandsStill DEF Call, TInv, TypeOK
<1>2. ASSUME NEW f \in Fibers, Progress(f) PROVE TidyInv'
  BY <1>2, ProgressIsTidy
<1>3. ASSUME NEW f \in Fibers, GiveUp(f) PROVE TidyInv'
  BY <1>0, <1>3, TidyStandsStill DEF GiveUp, TInv, TypeOK
<1>4. ASSUME NEW f \in Fibers, InterruptLock(f) PROVE TidyInv'
  <2>1. /\ UNCHANGED <<file, ids, orphaned>> /\ pc[f] # "index" /\ pc'[f] = "idle"
        /\ \A g \in Fibers : g # f =>
             /\ pc'[g] = pc[g] /\ raw'[g] = raw[g] /\ known'[g] = known[g]
             /\ call'[g] = call[g] /\ answer'[g] = answer[g]
    BY <1>0, <1>4 DEF InterruptLock, Leave, TInv, TypeOK
  <2> QED BY <2>1, TidyStandsStill
<1>5. ASSUME NEW f \in Fibers, StepFails(f) PROVE TidyInv'
  <2>1. /\ UNCHANGED <<file, ids, raw, known, call>> /\ orphaned \subseteq orphaned'
        /\ pc[f] = "index" => call[f].request \in orphaned'
        /\ pc'[f] = "unlock"
        /\ \A g \in Fibers : g # f => pc'[g] = pc[g] /\ answer'[g] = answer[g]
    BY <1>0, <1>5 DEF StepFails, Orphans, TInv, TypeOK
  <2> QED BY <2>1, TidyStandsStill
<1>6. ASSUME NEW i \in Instances, Crash(i) PROVE TidyInv'
  <2>1. UNCHANGED <<file, ids>> /\ orphaned \subseteq orphaned'
    BY <1>6 DEF Crash
  <2>2. ASSUME NEW g \in Fibers
        PROVE  \/ /\ pc'[g] = "idle"
                  /\ pc[g] = "index" => call[g].request \in orphaned'
               \/ /\ pc'[g] = pc[g] /\ raw'[g] = raw[g] /\ known'[g] = known[g]
                  /\ answer'[g] = answer[g] /\ call'[g] = call[g]
    BY <1>0, <1>6 DEF Crash, Orphans, TInv, TypeOK
  <2> QED BY <2>1, <2>2, TidyStandsStill
<1>7. CASE ClearLock
  BY <1>7, TidyStandsStill DEF ClearLock
<1>8. CASE Corruption
  BY <1>8, CorruptionIsTidy
<1>9. CASE UNCHANGED vars
  BY <1>9, TidyStandsStill DEF vars
<1> QED BY <1>1, <1>2, <1>3, <1>4, <1>5, <1>6, <1>7, <1>8, <1>9 DEF Next

LEMMA TidyMeansOnce == TidyInv => WrittenOnce
<1> SUFFICES ASSUME TidyInv, NEW r \in Requests \ orphaned,
                    NEW i \in 1..Len(file), NEW j \in 1..Len(file),
                    file[i] # Garbage, file[j] # Garbage,
                    file[i].payload = r, file[j].payload = r
             PROVE  i = j
  BY DEF WrittenOnce
<1>1. i \in Occurs(file, r) /\ j \in Occurs(file, r)
  BY DEF Occurs
<1>2. PICK n : Tidy(file, r, n)
  BY DEF TidyInv, FileIsTidy
<1> QED BY <1>1, <1>2 DEF Tidy

\* A request is in the stream at most once, however often it is retried and
\* whatever is corrupted or repaired, unless the index lost its entry or the
\* retry could not read the index. (Journal.ts:13, 273)
THEOREM RequestsAreWrittenOnce == Spec => []WrittenOnce
<1>1. Init => TidyInv
  BY DEF Init, TidyInv, FileIsTidy, CopiesAreTidy, IndexIsKnown, AskedIsNew, HoldsCopy, Tidy, Occurs
<1> QED BY <1>1, TidyStep, TidyMeansOnce, TypesHold, Exclusion, PTL DEF Spec

============================================================================
