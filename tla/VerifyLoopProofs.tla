--------------------------- MODULE VerifyLoopProofs ---------------------------
(* Proofs about VerifyLoop: types, what can be lost, and which events are *)
(* verified, for every number of sessions, paths, calls and stored ids.   *)
EXTENDS VerifyLoop, TLAPS, SequenceTheorems

\* A run that is under way belongs to a session, the consumer's run to the
\* event it handles.
RunsAreAttached ==
  /\ \A r \in Runners : run[r].pc # "idle" => run[r].session \in Sessions
  /\ \A c \in Calls : run[c].pc \notin {"dedupe", "record"}
  /\ run[Watcher].pc # "idle" => current \in Event /\ run[Watcher].session = current.session

TInv == TypeOK /\ RunsAreAttached

Run == [pc : Steps, session : Sessions \cup {NoSession},
        files : SUBSET Files, seen : SUBSET Files]

LEMMA KeptType ==
  ASSUME NEW ids \in Seq(Nat)
  PROVE  Kept(ids) \in Seq(Nat)
<1>1. (IF Len(ids) < KeptRuns THEN Len(ids) ELSE KeptRuns) \in 0..Len(ids)
  BY BoundsAreNaturals
<1> QED BY <1>1 DEF Kept

LEMMA NoRunType == NoRun \in Run
BY DEF NoRun, Run, Steps

\* The parts of TypeOK that the proofs need one by one.
LedgerTypes ==
  /\ changes \in [Sessions -> SUBSET Files]
  /\ hooks \in [Sessions -> SUBSET Files]
  /\ unverified \in [Sessions -> SUBSET Files]
  /\ overlapped \in [Sessions -> SUBSET Files]
  /\ failed \subseteq Sessions

EventTypes ==
  /\ queue \in Seq(Event)
  /\ log \in Seq(Event)
  /\ runs \in [Sessions -> Seq(Nat)]
  /\ finished \in [Sessions -> Seq(Nat)]
  /\ edits \in Nat /\ events \in Nat /\ duplicates \in Nat /\ crashes \in Nat

ConsumerTypes ==
  /\ current \in Event \cup {NoEvent}
  /\ processed \in Seq(Nat)
  /\ inFlight \subseteq Sessions

LEMMA TypeParts ==
  TypeOK <=> LedgerTypes /\ EventTypes /\ ConsumerTypes /\ run \in [Runners -> Run]
BY DEF TypeOK, LedgerTypes, EventTypes, ConsumerTypes, Run

LEMMA TypePartsNext ==
  TypeOK' <=> LedgerTypes' /\ EventTypes' /\ ConsumerTypes' /\ run' \in [Runners -> Run]
BY DEF TypeOK, LedgerTypes, EventTypes, ConsumerTypes, Run

\* The end of a run, of either kind, keeps the types.
LEMMA EndRunTypes ==
  ASSUME TInv, NEW r \in Runners, EndRun(r)
  PROVE  /\ run' \in [Runners -> Run]
         /\ ConsumerTypes'
         /\ RunsAreAttached'
<1>1. run \in [Runners -> Run] /\ ConsumerTypes /\ Watcher \in Runners /\ Calls \subseteq Runners
  BY TypeParts DEF TInv, Runners
<1>2. CASE r = Watcher
  <2>1. current' = NoEvent /\ processed' = <<>> /\ inFlight' \subseteq inFlight
        /\ run' = [run EXCEPT ![Watcher] = NoRun]
    BY <1>2 DEF EndRun, Release, Finish
  <2>2. ConsumerTypes'
    BY <1>1, <2>1 DEF ConsumerTypes
  <2>3. run' \in [Runners -> Run]
    BY <1>1, <2>1, NoRunType
  <2>4. RunsAreAttached'
    BY <1>1, <2>1 DEF TInv, RunsAreAttached, NoRun
  <2> QED BY <2>2, <2>3, <2>4
<1>3. CASE r # Watcher
  <2>1. run' = [run EXCEPT ![r] = NoRun] /\ UNCHANGED <<current, processed, inFlight>>
    BY <1>3 DEF EndRun
  <2>2. ConsumerTypes'
    BY <1>1, <2>1 DEF ConsumerTypes
  <2>3. run' \in [Runners -> Run]
    BY <1>1, <2>1, NoRunType
  <2>4. RunsAreAttached'
    BY <1>1, <1>3, <2>1 DEF TInv, RunsAreAttached, NoRun
  <2> QED BY <2>2, <2>3, <2>4
<1> QED BY <1>2, <1>3

\* A step of a run to its next stage.
LEMMA AdvanceTypes ==
  ASSUME TInv, NEW r \in Runners, NEW step \in Steps, NEW files \in SUBSET Files,
         NEW seen \in SUBSET Files, run[r].pc # "idle",
         r # Watcher => step \notin {"dedupe", "record"},
         run' = [run EXCEPT ![r] = At(r, step, files, seen)],
         UNCHANGED <<current, processed, inFlight>>
  PROVE  /\ run' \in [Runners -> Run]
         /\ ConsumerTypes'
         /\ RunsAreAttached'
<1>1. run \in [Runners -> Run] /\ ConsumerTypes /\ Watcher \in Runners /\ Calls \subseteq Runners
  BY TypeParts DEF TInv, Runners
<1>2. run' \in [Runners -> Run]
  BY <1>1 DEF Run, At
<1>3. ConsumerTypes'
  BY <1>1 DEF ConsumerTypes
<1>4. RunsAreAttached'
  BY <1>1, WatcherIsNoCall DEF TInv, RunsAreAttached, Run, At
<1> QED BY <1>2, <1>3, <1>4

LEMMA RunStepTypes ==
  ASSUME TInv, NEW r \in Runners, RunStep(r) \/ RunFails(r)
  PROVE  TInv'
<1>1. /\ LedgerTypes /\ EventTypes /\ run[r] \in Run /\ run[r].pc # "idle"
      /\ run[r].session \in Sessions
      /\ {"verify", "persist", "drain", "record"} \subseteq Steps
  BY TypeParts
  DEF TInv, RunsAreAttached, Steps, Open, RunStep, RunFails, Peek, Verify, Persist, Drain
<1>2. LedgerTypes' /\ EventTypes'
  <2>1. EventTypes'
    BY <1>1 DEF EventTypes, host, counters, ghosts, RunStep, RunFails, Peek, Verify, Persist, Drain
  <2>2. LedgerTypes'
    BY <1>1 DEF LedgerTypes, ghosts, Run, RunStep, RunFails, Peek, Verify, Persist, Drain
  <2> QED BY <2>1, <2>2
<1>3. CASE EndRun(r)
  BY <1>2, <1>3, EndRunTypes, TypePartsNext DEF TInv
<1>4. ASSUME NEW step \in Steps, NEW files \in SUBSET Files, NEW seen \in SUBSET Files,
             r # Watcher => step \notin {"dedupe", "record"},
             run' = [run EXCEPT ![r] = At(r, step, files, seen)],
             UNCHANGED <<current, processed, inFlight>>
      PROVE  TInv'
  BY <1>1, <1>2, <1>4, AdvanceTypes, TypePartsNext DEF TInv
<1>5. /\ run[r].files \in SUBSET Files /\ run[r].seen \in SUBSET Files
      /\ changes[run[r].session] \in SUBSET Files /\ {} \in SUBSET Files
  BY <1>1 DEF Run, LedgerTypes
<1>6. CASE RunFails(r)
  BY <1>3, <1>6 DEF RunFails
<1>7. CASE Peek(r)
  <2>1. CASE r = Watcher /\ changes[run[r].session] = {}
    BY <1>3, <1>7, <2>1 DEF Peek
  <2>2. CASE ~(r = Watcher /\ changes[run[r].session] = {})
    BY <1>1, <1>4, <1>5, <1>7, <2>2 DEF Peek
  <2> QED BY <2>1, <2>2
<1>8. CASE Verify(r)
  BY <1>1, <1>4, <1>5, <1>8 DEF Verify
<1>9. CASE Persist(r)
  BY <1>1, <1>4, <1>5, <1>9 DEF Persist
<1>10. CASE Drain(r)
  <2>1. CASE r = Watcher
    BY <1>1, <1>4, <1>5, <1>10, <2>1 DEF Drain
  <2>2. CASE r # Watcher
    BY <1>3, <1>10, <2>2 DEF Drain
  <2> QED BY <2>1, <2>2
<1> QED BY <1>6, <1>7, <1>8, <1>9, <1>10 DEF RunStep
-----------------------------------------------------------------------------
LEMMA SessionTypes ==
  ASSUME TInv, NEW s \in Sessions, Session(s)
  PROVE  TInv'
<1>1. /\ LedgerTypes /\ EventTypes /\ ConsumerTypes /\ RunsAreAttached
      /\ run \in [Runners -> Run]
  BY TypeParts DEF TInv
<1>2. ASSUME NEW f \in Files, Edit(s, f) PROVE TInv'
  <2>1. LedgerTypes'
    BY <1>1, <1>2 DEF LedgerTypes, Edit, Overlap
  <2>2. EventTypes' /\ ConsumerTypes'
    BY <1>1, <1>2 DEF EventTypes, ConsumerTypes, Edit, host
  <2>3. /\ run' \in [Runners -> Run]
        /\ \A r \in Runners : run'[r].pc = run[r].pc /\ run'[r].session = run[r].session
    BY <1>1, <1>2 DEF Run, Edit
  <2>4. RunsAreAttached'
    BY <1>1, <1>2, <2>3 DEF RunsAreAttached, Edit, Runners
  <2> QED BY <2>1, <2>2, <2>3, <2>4, TypePartsNext DEF TInv
<1>3. ASSUME NEW f \in Files, Record(s, f) PROVE TInv'
  <2>1. LedgerTypes'
    BY <1>1, <1>3 DEF LedgerTypes, Record, Overlap
  <2>2. EventTypes' /\ ConsumerTypes' /\ RunsAreAttached' /\ run' \in [Runners -> Run]
    BY <1>1, <1>3 DEF EventTypes, ConsumerTypes, RunsAreAttached, Record, host, counters
  <2> QED BY <2>1, <2>2, TypePartsNext DEF TInv
<1>4. CASE EndExecution(s)
  <2>1. [session |-> s, id |-> events'] \in Event /\ [session |-> s, id |-> NoId] \in Event
    BY <1>1, <1>4 DEF EndExecution, EventTypes, Event
  <2>2. queue' \in Seq(Event) /\ log' \in Seq(Event)
    <3>1. queue \in Seq(Event) /\ log \in Seq(Event)
      BY <1>1 DEF EventTypes
    <3>2. \/ queue' = Append(queue, [session |-> s, id |-> events'])
             /\ log' = Append(log, [session |-> s, id |-> events'])
          \/ queue' = Append(queue, [session |-> s, id |-> NoId]) /\ log' = log
      BY <1>4 DEF EndExecution
    <3>3. \A q \in Seq(Event), e \in Event : Append(q, e) \in Seq(Event)
      OBVIOUS
    <3> QED BY <2>1, <3>1, <3>2, <3>3
  <2>3. EventTypes' /\ ConsumerTypes' /\ LedgerTypes'
    BY <1>1, <1>4, <2>2 DEF EventTypes, ConsumerTypes, LedgerTypes, EndExecution
  <2>4. RunsAreAttached' /\ run' \in [Runners -> Run]
    BY <1>1, <1>4 DEF RunsAreAttached, EndExecution
  <2> QED BY <2>3, <2>4, TypePartsNext DEF TInv
<1> QED BY <1>2, <1>3, <1>4 DEF Session

LEMMA ConsumerTypesKept ==
  ASSUME TInv, TakeEvent \/ Dedupe \/ RecordRun
  PROVE  TInv'
<1>1. /\ LedgerTypes /\ EventTypes /\ ConsumerTypes /\ RunsAreAttached
      /\ run \in [Runners -> Run] /\ Watcher \in Runners
  BY TypeParts DEF TInv, Runners
<1>2. CASE TakeEvent
  <2>1. queue \in Seq(Event) /\ queue # <<>>
    BY <1>1, <1>2 DEF EventTypes, TakeEvent
  <2>2. Head(queue) \in Event /\ Tail(queue) \in Seq(Event)
    BY <2>1
  <2>3. Head(queue).session \in Sessions
    BY <2>2 DEF Event
  <2>4. LedgerTypes' /\ EventTypes' /\ ConsumerTypes'
    BY <1>1, <1>2, <2>2, <2>3
    DEF LedgerTypes, EventTypes, ConsumerTypes, TakeEvent, counters, ghosts
  <2>5. \/ UNCHANGED <<current, run>>
        \/ /\ current' = Head(queue)
           /\ run' = [run EXCEPT ![Watcher] = [pc |-> "dedupe", session |-> Head(queue).session,
                                               files |-> {}, seen |-> {}]]
    BY <1>2 DEF TakeEvent, Start
  <2>6. run' \in [Runners -> Run]
    BY <1>1, <2>3, <2>5 DEF Run, Steps
  <2>7. RunsAreAttached'
    BY <1>1, <2>2, <2>3, <2>5, WatcherIsNoCall DEF RunsAreAttached, Runners
  <2> QED BY <2>4, <2>6, <2>7, TypePartsNext DEF TInv
<1>3. CASE Dedupe
  <2>1. current \in Event /\ runs[current.session] \in Seq(Nat)
    BY <1>1, <1>3 DEF Dedupe, RunsAreAttached, Event, EventTypes
  <2>2. LedgerTypes' /\ EventTypes' /\ ConsumerTypes'
    <3>1. /\ current' \in {current, NoEvent} /\ processed' \in {<<>>, runs[current.session]}
          /\ UNCHANGED <<changes, hooks, host, inFlight, runs, counters, ghosts>>
      BY <1>3 DEF Dedupe, Finish
    <3>2. LedgerTypes' /\ EventTypes'
      BY <1>1, <3>1 DEF LedgerTypes, EventTypes, host, counters, ghosts
    <3>3. ConsumerTypes'
      <4>1. <<>> \in Seq(Nat)
        OBVIOUS
      <4>2. processed' \in Seq(Nat)
        BY <2>1, <3>1, <4>1
      <4>3. current' \in Event \cup {NoEvent} /\ inFlight' \subseteq Sessions
        BY <1>1, <3>1 DEF ConsumerTypes
      <4> QED BY <4>2, <4>3 DEF ConsumerTypes
    <3> QED BY <3>2, <3>3
  <2>3. \/ current' = NoEvent /\ run' = [run EXCEPT ![Watcher] = NoRun]
        \/ UNCHANGED current /\ run' = [run EXCEPT ![Watcher].pc = "peek"]
    BY <1>3 DEF Dedupe, Finish
  <2>4. run' \in [Runners -> Run]
    BY <1>1, <2>3, NoRunType DEF Run, Steps
  <2>5. RunsAreAttached'
    BY <1>1, <1>3, <2>3, WatcherIsNoCall DEF RunsAreAttached, Runners, NoRun, Dedupe, Run
  <2> QED BY <2>2, <2>4, <2>5, TypePartsNext DEF TInv
<1>4. CASE RecordRun
  <2>1. Release /\ EndRun(Watcher)
    BY <1>4 DEF RecordRun, EndRun
  <2>2. EventTypes'
    <3>1. CASE UNCHANGED <<runs, finished>>
      BY <1>1, <1>4, <3>1 DEF RecordRun, EventTypes, host, counters
    <3>2. CASE ~UNCHANGED <<runs, finished>>
      <4> DEFINE since == IF IdsAreRead THEN finished[current.session] ELSE <<>>
      <4>1. current \in Event /\ current.id \in Nat /\ current.session \in Sessions
        BY <1>1, <1>4, <3>2 DEF RecordRun, RunsAreAttached, Event
      <4>2. /\ processed \in Seq(Nat) /\ finished[current.session] \in Seq(Nat)
            /\ <<current.id>> \in Seq(Nat)
        BY <1>1, <4>1 DEF EventTypes, ConsumerTypes
      <4>3. since \in Seq(Nat)
        BY <4>2
      <4>6. /\ <<current.id>> \o processed \in Seq(Nat)
            /\ <<current.id>> \o since \in Seq(Nat)
        BY <4>2, <4>3
      <4>4. /\ runs' = [runs EXCEPT ![current.session] = Kept(<<current.id>> \o processed)]
            /\ finished' = [finished EXCEPT ![current.session] = <<current.id>> \o since]
        BY <1>4, <3>2 DEF RecordRun
      <4> HIDE DEF since
      <4>5. runs' \in [Sessions -> Seq(Nat)] /\ finished' \in [Sessions -> Seq(Nat)]
        BY <1>1, <4>6, <4>4, KeptType DEF EventTypes
      <4> QED BY <1>1, <1>4, <4>5 DEF RecordRun, EventTypes, host, counters
    <3> QED BY <3>1, <3>2
  <2>3. LedgerTypes'
    BY <1>1, <1>4 DEF RecordRun, LedgerTypes
  <2> QED BY <1>1, <2>1, <2>2, <2>3, EndRunTypes, TypePartsNext DEF TInv
<1> QED BY <1>2, <1>3, <1>4

LEMMA TypesAreInductive == TInv /\ [Next]_vars => TInv'
<1> SUFFICES ASSUME TInv, [Next]_vars PROVE TInv'
  OBVIOUS
<1>0. /\ LedgerTypes /\ EventTypes /\ ConsumerTypes /\ RunsAreAttached
      /\ run \in [Runners -> Run] /\ Watcher \in Runners /\ Calls \subseteq Runners
  BY TypeParts DEF TInv, Runners
<1>1. ASSUME NEW s \in Sessions, Session(s) PROVE TInv'
  BY <1>1, SessionTypes
<1>2. ASSUME NEW s \in Sessions, NEW c \in Calls, CallVerify(c, s) PROVE TInv'
  <2>1. run' = [run EXCEPT ![c] = [pc |-> "peek", session |-> s, files |-> {}, seen |-> {}]]
    BY <1>2 DEF CallVerify, Start
  <2>2. run' \in [Runners -> Run]
    BY <1>0, <2>1 DEF Run, Steps
  <2>3. RunsAreAttached'
    BY <1>0, <1>2, <2>1, WatcherIsNoCall DEF RunsAreAttached, CallVerify
  <2>4. LedgerTypes' /\ EventTypes' /\ ConsumerTypes'
    BY <1>0, <1>2
    DEF LedgerTypes, EventTypes, ConsumerTypes, CallVerify, host, counters, ghosts
  <2> QED BY <2>2, <2>3, <2>4, TypePartsNext DEF TInv
<1>3. CASE Redeliver
  <2>1. queue' \in Seq(Event)
    <3>1. queue \in Seq(Event) /\ log \in Seq(Event)
      BY <1>0 DEF EventTypes
    <3>2. PICK k \in 1..Len(log) : queue' = Append(queue, log[k])
      BY <1>3 DEF Redeliver
    <3>3. log[k] \in Event
      BY <3>1
    <3> QED BY <3>1, <3>2, <3>3
  <2>2. LedgerTypes' /\ EventTypes' /\ ConsumerTypes' /\ RunsAreAttached'
    BY <1>0, <1>3, <2>1
    DEF LedgerTypes, EventTypes, ConsumerTypes, RunsAreAttached, Redeliver, ghosts
  <2>3. run' \in [Runners -> Run]
    BY <1>0, <1>3 DEF Redeliver
  <2> QED BY <2>2, <2>3, TypePartsNext DEF TInv
<1>4. CASE Consumer
  BY <1>0, <1>4, ConsumerTypesKept, RunStepTypes DEF Consumer
<1>5. ASSUME NEW c \in Calls, RunStep(c) PROVE TInv'
  BY <1>0, <1>5, RunStepTypes
<1>6. ASSUME NEW r \in Runners, RunFails(r) PROVE TInv'
  BY <1>6, RunStepTypes
<1>7. CASE Crash
  <2>1. run' \in [Runners -> Run] /\ RunsAreAttached'
    BY <1>0, <1>7, NoRunType DEF Crash, RunsAreAttached, NoRun
  <2>2. LedgerTypes' /\ EventTypes' /\ ConsumerTypes'
    BY <1>0, <1>7 DEF LedgerTypes, EventTypes, ConsumerTypes, Crash
  <2> QED BY <2>1, <2>2, TypePartsNext DEF TInv
<1>8. CASE UNCHANGED vars
  BY <1>0, <1>8, TypePartsNext
  DEF TInv, vars, host, counters, ghosts, LedgerTypes, EventTypes, ConsumerTypes, RunsAreAttached
<1> QED BY <1>1, <1>2, <1>3, <1>4, <1>5, <1>6, <1>7, <1>8 DEF Next

LEMMA TypesInit == Init => TInv
<1> SUFFICES ASSUME Init PROVE TInv
  OBVIOUS
<1>1. run \in [Runners -> Run] /\ RunsAreAttached
  BY NoRunType, WatcherIsNoCall DEF Init, RunsAreAttached, NoRun, Runners
<1>2. LedgerTypes /\ EventTypes /\ ConsumerTypes
  BY DEF Init, LedgerTypes, EventTypes, ConsumerTypes
<1> QED BY <1>1, <1>2, TypeParts DEF TInv

LEMMA TypesHold == Spec => []TInv
BY TypesInit, TypesAreInductive, PTL DEF Spec

\* Every variable keeps its type.
THEOREM TypeCorrect == Spec => []TypeOK
BY TypesHold, PTL DEF TInv
-----------------------------------------------------------------------------
(* What can be lost.  While a run is open, whatever entered the ledger of   *)
(* its session after its peek is overlapped; once it has read its files,    *)
(* whatever it peeked and does not see any more is overlapped too; once its *)
(* report is persisted, what it still sees is verified.                     *)

OpenRuns ==
  \A r \in Runners :
    LET s == run[r].session IN
      /\ run[r].pc \in Open => changes[s] \subseteq run[r].files \cup overlapped[s]
      /\ run[r].pc \in {"persist", "drain"} =>
           run[r].files \subseteq run[r].seen \cup overlapped[s]
      /\ run[r].pc = "drain" => run[r].seen \cap unverified[s] = {}

LInv == TInv /\ OpenRuns /\ LostOnlyToOverlap

\* Steps that touch neither the ledger nor its history, and open no run.
LEMMA QuietStep ==
  ASSUME LInv, TInv',
         UNCHANGED <<changes, hooks, unverified, overlapped>>,
         \A r \in Runners : run'[r].pc \in Open => run'[r] = run[r]
  PROVE  LInv'
BY DEF LInv, OpenRuns, LostOnlyToOverlap, Open

LEMMA SessionLoses ==
  ASSUME LInv, TInv', NEW s \in Sessions, Session(s)
  PROVE  LInv'
<1>1. /\ LedgerTypes /\ run \in [Runners -> Run] /\ RunsAreAttached
  BY TypeParts DEF LInv, TInv
<1>2. ASSUME NEW f \in Files, Edit(s, f) PROVE LInv'
  <2>1. \A r \in Runners :
          /\ run'[r].pc = run[r].pc /\ run'[r].session = run[r].session
          /\ run'[r].files = run[r].files
          /\ run'[r].seen = IF run[r].session = s THEN run[r].seen \ {f} ELSE run[r].seen
    BY <1>1, <1>2 DEF Edit, Run
  <2>2. /\ UNCHANGED changes
        /\ hooks' = [hooks EXCEPT ![s] = @ \cup {f}]
        /\ unverified' = [unverified EXCEPT ![s] = @ \cup {f}]
        /\ overlapped' = [overlapped EXCEPT ![s] = IF OpenIn(s) = {} THEN @ ELSE @ \cup {f}]
    BY <1>2 DEF Edit, Overlap
  <2>3. LostOnlyToOverlap'
    BY <1>1, <2>2 DEF LInv, LostOnlyToOverlap, LedgerTypes
  <2>4. ASSUME NEW r \in Runners
        PROVE  LET t == run'[r].session IN
                 /\ run'[r].pc \in Open => changes'[t] \subseteq run'[r].files \cup overlapped'[t]
                 /\ run'[r].pc \in {"persist", "drain"} =>
                      run'[r].files \subseteq run'[r].seen \cup overlapped'[t]
                 /\ run'[r].pc = "drain" => run'[r].seen \cap unverified'[t] = {}
    <3>0. CASE run[r].pc \notin Open
      BY <2>1, <3>0 DEF Open
    <3>1. CASE run[r].pc \in Open /\ run[r].session # s
      BY <1>1, <2>1, <2>2, <3>1 DEF LInv, OpenRuns, LedgerTypes, RunsAreAttached, Open
    <3>2. CASE run[r].pc \in Open /\ run[r].session = s
      <4>1. r \in OpenIn(s)
        BY <3>2 DEF OpenIn
      <4>2. /\ overlapped'[s] = overlapped[s] \cup {f}
            /\ unverified'[s] = unverified[s] \cup {f}
            /\ changes'[s] = changes[s]
        BY <1>1, <2>2, <4>1 DEF LedgerTypes
      <4> QED BY <2>1, <3>2, <4>2 DEF LInv, OpenRuns
    <3> QED BY <3>0, <3>1, <3>2
  <2> QED BY <2>3, <2>4 DEF LInv, OpenRuns
<1>3. ASSUME NEW f \in Files, Record(s, f) PROVE LInv'
  <2>1. /\ UNCHANGED <<run, unverified>>
        /\ changes' = [changes EXCEPT ![s] = @ \cup {f}]
        /\ hooks' = [hooks EXCEPT ![s] = @ \ {f}]
        /\ overlapped' = [overlapped EXCEPT ![s] = IF OpenIn(s) = {} THEN @ ELSE @ \cup {f}]
    BY <1>3 DEF Record, Overlap
  <2>2. LostOnlyToOverlap'
    BY <1>1, <2>1 DEF LInv, LostOnlyToOverlap, LedgerTypes
  <2>3. ASSUME NEW r \in Runners, run[r].pc \in Open
        PROVE  LET t == run[r].session IN
                 /\ changes'[t] \subseteq run[r].files \cup overlapped'[t]
                 /\ overlapped[t] \subseteq overlapped'[t]
    <3>1. CASE run[r].session # s
      BY <1>1, <2>1, <2>3, <3>1 DEF LInv, OpenRuns, LedgerTypes, RunsAreAttached, Open
    <3>2. CASE run[r].session = s
      <4>1. r \in OpenIn(s)
        BY <2>3, <3>2 DEF OpenIn
      <4>2. /\ overlapped'[s] = overlapped[s] \cup {f}
            /\ changes'[s] = changes[s] \cup {f}
        BY <1>1, <2>1, <4>1 DEF LedgerTypes
      <4> QED BY <2>3, <3>2, <4>2 DEF LInv, OpenRuns
    <3> QED BY <3>1, <3>2
  <2>4. OpenRuns'
    BY <2>1, <2>3 DEF LInv, OpenRuns, Open
  <2> QED BY <2>2, <2>4 DEF LInv
<1>4. CASE EndExecution(s)
  BY <1>4, QuietStep DEF EndExecution, ghosts
<1> QED BY <1>2, <1>3, <1>4 DEF Session

LEMMA RunStepLoses ==
  ASSUME LInv, TInv', NEW r \in Runners, RunStep(r)
  PROVE  LInv'
<1>1. /\ LedgerTypes /\ run \in [Runners -> Run] /\ run[r].session \in Sessions
      /\ Watcher \in Runners
  BY TypeParts DEF LInv, TInv, RunsAreAttached, RunStep, Peek, Verify, Persist, Drain, Runners
<1>2. CASE Peek(r)
  <2>1. CASE EndRun(r)
    BY <1>1, <1>2, <2>1, QuietStep
    DEF Peek, EndRun, Release, Finish, NoRun, Open, ghosts
  <2>2. CASE run' = [run EXCEPT ![r] = At(r, "verify", changes[run[r].session], {})]
    BY <1>1, <1>2, <2>2
    DEF Peek, At, LInv, OpenRuns, LostOnlyToOverlap, Open, ghosts
  <2> QED BY <1>2, <2>1, <2>2 DEF Peek
<1>3. CASE Verify(r)
  BY <1>1, <1>3 DEF Verify, At, LInv, OpenRuns, LostOnlyToOverlap, Open, ghosts
<1>4. CASE Persist(r)
  <2>1. /\ run' = [run EXCEPT ![r] = At(r, "drain", run[r].files, run[r].seen)]
        /\ unverified' = [unverified EXCEPT ![run[r].session] = @ \ run[r].seen]
        /\ UNCHANGED <<changes, hooks, overlapped>>
        /\ run[r].pc = "persist"
    BY <1>4 DEF Persist
  <2>2. \A s \in Sessions : unverified'[s] \subseteq unverified[s]
    BY <1>1, <2>1 DEF LedgerTypes
  <2>3. LostOnlyToOverlap'
    BY <2>1, <2>2 DEF LInv, LostOnlyToOverlap
  <2>4. run[r].seen \cap unverified'[run[r].session] = {}
    BY <1>1, <2>1 DEF LedgerTypes
  <2>5. ASSUME NEW q \in Runners
        PROVE  LET s == run'[q].session IN
                 /\ run'[q].pc \in Open => changes'[s] \subseteq run'[q].files \cup overlapped'[s]
                 /\ run'[q].pc \in {"persist", "drain"} =>
                      run'[q].files \subseteq run'[q].seen \cup overlapped'[s]
                 /\ run'[q].pc = "drain" => run'[q].seen \cap unverified'[s] = {}
    <3>1. CASE q = r
      BY <1>1, <2>1, <2>4, <3>1 DEF LInv, OpenRuns, At, Open
    <3>2. CASE q # r
      BY <1>1, <2>1, <2>2, <3>2 DEF LInv, TInv, RunsAreAttached, OpenRuns, Open
    <3> QED BY <3>1, <3>2
  <2> QED BY <2>3, <2>5 DEF LInv, OpenRuns
<1>5. CASE Drain(r)
  <2>1. /\ run[r].pc = "drain"
        /\ changes' = [changes EXCEPT ![run[r].session] = {}]
        /\ UNCHANGED <<hooks, unverified, overlapped>>
    BY <1>5 DEF Drain, ghosts
  <2>2. unverified[run[r].session] \subseteq hooks[run[r].session] \cup overlapped[run[r].session]
    BY <1>1, <2>1 DEF LInv, OpenRuns, LostOnlyToOverlap, Open
  <2>3. LostOnlyToOverlap'
    BY <1>1, <2>1, <2>2 DEF LInv, LostOnlyToOverlap, LedgerTypes
  <2>4. \A q \in Runners : run'[q].pc \in Open => q # r /\ run'[q] = run[q]
    BY <1>1, <1>5 DEF Drain, EndRun, At, NoRun, Open
  <2>5. \A s \in Sessions : changes'[s] \subseteq changes[s]
    BY <1>1, <2>1 DEF LedgerTypes
  <2>6. OpenRuns'
    BY <1>1, <2>1, <2>4, <2>5 DEF LInv, TInv, RunsAreAttached, OpenRuns, Open
  <2> QED BY <2>3, <2>6 DEF LInv
<1> QED BY <1>2, <1>3, <1>4, <1>5 DEF RunStep

LEMMA LossStep == LInv /\ [Next]_vars => LInv'
<1> SUFFICES ASSUME LInv, [Next]_vars PROVE LInv'
  OBVIOUS
<1>0. TInv'
  BY TypesAreInductive DEF LInv
<1>1. run \in [Runners -> Run] /\ Watcher \in Runners /\ Calls \subseteq Runners
  BY TypeParts DEF LInv, TInv, Runners
<1>2. ASSUME NEW s \in Sessions, Session(s) PROVE LInv'
  BY <1>0, <1>2, SessionLoses
<1>3. ASSUME NEW s \in Sessions, NEW c \in Calls, CallVerify(c, s) PROVE LInv'
  BY <1>0, <1>1, <1>3, QuietStep DEF CallVerify, Start, Open, ghosts
<1>4. CASE Redeliver
  BY <1>0, <1>4, QuietStep DEF Redeliver, ghosts
<1>5. CASE TakeEvent
  BY <1>0, <1>1, <1>5, QuietStep DEF TakeEvent, Start, Open, ghosts
<1>6. CASE Dedupe
  <2>1. \/ run' = [run EXCEPT ![Watcher] = NoRun]
        \/ run' = [run EXCEPT ![Watcher].pc = "peek"]
    BY <1>6 DEF Dedupe, Finish
  <2>2. \A r \in Runners : run'[r].pc \in Open => run'[r] = run[r]
    BY <1>1, <2>1 DEF Open, NoRun, Run
  <2> QED BY <1>0, <1>6, <2>2, QuietStep DEF Dedupe, ghosts
<1>7. CASE RecordRun
  BY <1>0, <1>1, <1>7, QuietStep DEF RecordRun, Release, Finish, NoRun, Open
<1>8. ASSUME NEW r \in Runners, RunStep(r) PROVE LInv'
  BY <1>0, <1>8, RunStepLoses
<1>9. ASSUME NEW r \in Runners, RunFails(r) PROVE LInv'
  BY <1>0, <1>1, <1>9, QuietStep DEF RunFails, EndRun, Release, Finish, NoRun, Open
<1>10. CASE Crash
  BY <1>0, <1>10 DEF Crash, LInv, OpenRuns, LostOnlyToOverlap, NoRun, Open
<1>11. CASE UNCHANGED vars
  BY <1>0, <1>11, QuietStep DEF vars, ghosts
<1> QED BY <1>1, <1>2, <1>3, <1>4, <1>5, <1>6, <1>7, <1>8, <1>9, <1>10, <1>11
        DEF Next, Consumer

\* A change leaves the ledger only through a report that read it, unless it
\* was made or recorded during another run's peek-to-drain window.
THEOREM LossNeedsOverlap == Spec => []LostOnlyToOverlap
<1>1. Init => LInv
  BY TypesInit DEF Init, LInv, OpenRuns, LostOnlyToOverlap, NoRun, Open
<1> QED BY <1>1, LossStep, PTL DEF Spec, LInv
-----------------------------------------------------------------------------
(* Replays.  What is stored is the latest of what was stored since a run    *)
(* that had read nothing replaced it; from the check on the consumer holds  *)
(* what is stored, or nothing.                                              *)

Deduped == {"peek", "record"} \cup Open

LatestAreStored == \A s \in Sessions : runs[s] = Kept(finished[s])

EventIsNew ==
  run[Watcher].pc \in Deduped =>
    /\ processed \in {runs[current.session], <<>>}
    /\ IdsAreRead => current.id \notin ToSet(runs[current.session])

ReplayInv == LatestAreStored /\ EventIsNew

\* An id put before the latest ids is put before all of them.
LEMMA KeptLatest ==
  ASSUME NEW ids \in Seq(Nat), NEW n \in Nat
  PROVE  Kept(<<n>> \o Kept(ids)) = Kept(<<n>> \o ids)
<1> DEFINE m == IF Len(ids) < KeptRuns THEN Len(ids) ELSE KeptRuns
           t == SubSeq(ids, 1, m)
           a == <<n>> \o t
           b == <<n>> \o ids
           k == IF Len(b) < KeptRuns THEN Len(b) ELSE KeptRuns
<1>1. KeptRuns \in Nat /\ Len(ids) \in Nat /\ m \in 0..Len(ids)
  BY BoundsAreNaturals
<1>2. t \in Seq(Nat) /\ Len(t) = m /\ \A i \in 1..m : t[i] = ids[i]
  BY <1>1
<1> HIDE DEF t
<1>3. /\ Len(a) = m + 1 /\ Len(b) = Len(ids) + 1
      /\ a \in Seq(Nat) /\ b \in Seq(Nat)
      /\ \A i \in 1..Len(a) : a[i] = IF i = 1 THEN n ELSE t[i - 1]
      /\ \A i \in 1..Len(b) : b[i] = IF i = 1 THEN n ELSE ids[i - 1]
  BY <1>1, <1>2
<1>4. k = IF Len(a) < KeptRuns THEN Len(a) ELSE KeptRuns
  BY <1>1, <1>3
<1>5. k \in Nat /\ k <= Len(a) /\ k <= Len(b)
  BY <1>1, <1>3
<1>6. \A i \in 1..k : a[i] = b[i]
  BY <1>1, <1>2, <1>3, <1>5
<1> HIDE DEF a, b, k
<1>7. SubSeq(a, 1, k) = SubSeq(b, 1, k)
  BY <1>3, <1>5, <1>6
<1> QED BY <1>4, <1>7 DEF Kept, a, b, k, t, m

\* A step that stores nothing, and in which the consumer gets no further than
\* it was.
LEMMA NothingStored ==
  ASSUME ReplayInv, UNCHANGED <<runs, finished>>,
         run'[Watcher].pc \in Deduped =>
           run[Watcher].pc \in Deduped /\ UNCHANGED <<current, processed>>
  PROVE  ReplayInv'
<1>1. LatestAreStored'
  BY DEF ReplayInv, LatestAreStored
<1>2. EventIsNew'
  BY DEF ReplayInv, EventIsNew, IdsAreRead
<1> QED BY <1>1, <1>2 DEF ReplayInv

LEMMA ReplayStep == TInv /\ ReplayInv /\ [Next]_vars => ReplayInv'
<1> SUFFICES ASSUME TInv, ReplayInv, [Next]_vars PROVE ReplayInv'
  OBVIOUS
<1> USE DEF ghosts, host, counters
<1>0. /\ run \in [Runners -> Run] /\ Watcher \in Runners
      /\ runs \in [Sessions -> Seq(Nat)] /\ finished \in [Sessions -> Seq(Nat)]
      /\ \A c \in Calls : c # Watcher
      /\ run[Watcher].pc # "idle" => current \in Event
  BY WatcherIsNoCall DEF TInv, TypeOK, Run, Runners, RunsAreAttached
<1>1. ASSUME NEW s \in Sessions, NEW f \in Files, Edit(s, f) PROVE ReplayInv'
  <2>1. run'[Watcher].pc = run[Watcher].pc
    BY <1>0, <1>1 DEF Edit, Run
  <2> QED BY <1>1, <2>1, NothingStored DEF Edit
<1>2. ASSUME NEW s \in Sessions, EndExecution(s) \/ (\E f \in Files : Record(s, f))
      PROVE  ReplayInv'
  BY <1>2, NothingStored DEF EndExecution, Record
<1>3. ASSUME NEW c \in Calls, \E s \in Sessions : CallVerify(c, s) PROVE ReplayInv'
  BY <1>0, <1>3, NothingStored DEF CallVerify, Start
<1>4. CASE Redeliver
  BY <1>4, NothingStored DEF Redeliver
<1>5. CASE TakeEvent
  <2>1. run'[Watcher].pc = "dedupe" \/ UNCHANGED <<run, current, processed>>
    BY <1>0, <1>5 DEF TakeEvent, Start
  <2> QED BY <1>5, <2>1, NothingStored DEF TakeEvent, Deduped, Open
<1>6. CASE Dedupe
  <2>1. UNCHANGED <<runs, finished>> /\ current \in Event
    BY <1>0, <1>6 DEF Dedupe
  <2>2. PICK ids \in {runs[current.session], <<>>} :
               IF current.id # NoId /\ current.id \in ToSet(ids)
                 THEN Finish
                 ELSE /\ processed' = ids
                      /\ run' = [run EXCEPT ![Watcher].pc = "peek"]
                      /\ UNCHANGED current
    BY <1>6 DEF Dedupe
  <2>3. CASE current.id # NoId /\ current.id \in ToSet(ids)
    BY <1>0, <2>1, <2>2, <2>3, NothingStored DEF Finish, NoRun, Deduped, Open
  <2>4. CASE ~(current.id # NoId /\ current.id \in ToSet(ids))
    <3>1. processed' = ids /\ current' = current
      BY <2>2, <2>4
    <3>2. runs[current.session] \in Seq(Nat)
      BY <1>0, <2>1 DEF Event
    <3>3. ToSet(runs[current.session]) \subseteq Nat
      BY <3>2 DEF ToSet
    <3>4. IdsAreRead' => current.id \notin ToSet(runs[current.session])
      BY <2>1, <2>4, <3>1, <3>3, NoIdIsNone DEF IdsAreRead
    <3>5. EventIsNew'
      BY <2>1, <2>2, <3>1, <3>4 DEF EventIsNew
    <3>6. LatestAreStored'
      BY <2>1 DEF ReplayInv, LatestAreStored
    <3> QED BY <3>5, <3>6 DEF ReplayInv
  <2> QED BY <2>3, <2>4
<1>7. CASE RecordRun
  <2> DEFINE s == current.session
  <2>1. run[Watcher].pc = "record" /\ run'[Watcher].pc = "idle" /\ s \in Sessions
        /\ current.id \in Nat \cup {NoId}
    BY <1>0, <1>7 DEF RecordRun, Release, Finish, NoRun, Event
  <2>2. EventIsNew'
    BY <2>1 DEF EventIsNew, Deduped, Open
  <2> DEFINE since == IF IdsAreRead THEN finished[s] ELSE <<>>
  <2>3. processed = Kept(since) /\ since \in Seq(Nat)
    <3>1. CASE IdsAreRead
      BY <1>0, <2>1, <3>1 DEF ReplayInv, LatestAreStored, IdsAreRead
    <3>2. CASE ~IdsAreRead
      <4>1. processed = <<>>
        BY <2>1, <3>2 DEF ReplayInv, EventIsNew, Deduped, IdsAreRead
      <4>2. Kept(<<>>) = <<>>
        BY BoundsAreNaturals DEF Kept
      <4> QED BY <3>2, <4>1, <4>2
    <3> QED BY <3>1, <3>2
  <2>4. LatestAreStored'
    <3>1. CASE /\ current.id # NoId
               /\ runs' = [runs EXCEPT ![s] = Kept(<<current.id>> \o processed)]
               /\ finished' = [finished EXCEPT ![s] = <<current.id>> \o since]
      <4>1. Kept(<<current.id>> \o processed) = Kept(<<current.id>> \o since)
        BY <1>0, <2>1, <2>3, <3>1, KeptLatest
      <4> HIDE DEF since
      <4> QED BY <1>0, <2>1, <3>1, <4>1 DEF ReplayInv, LatestAreStored
    <3>2. CASE UNCHANGED <<runs, finished>>
      BY <3>2 DEF ReplayInv, LatestAreStored
    <3> QED BY <1>7, <3>1, <3>2 DEF RecordRun
  <2> QED BY <2>2, <2>4 DEF ReplayInv
<1>8. ASSUME NEW r \in Runners, RunStep(r) PROVE ReplayInv'
  <2>1. UNCHANGED <<runs, finished>>
    BY <1>8 DEF RunStep, Peek, Verify, Persist, Drain
  <2>2. CASE r = Watcher
    <3>1. run[Watcher].pc \in Deduped
      BY <1>8, <2>2 DEF RunStep, Peek, Verify, Persist, Drain, Deduped, Open
    <3>2. run'[Watcher].pc = "idle" \/ UNCHANGED <<current, processed>>
      BY <1>0, <1>8, <2>2
      DEF RunStep, Peek, Verify, Persist, Drain, EndRun, Release, Finish, NoRun
    <3> QED BY <2>1, <3>1, <3>2, NothingStored DEF Deduped, Open
  <2>3. CASE r # Watcher
    <3>1. run'[Watcher] = run[Watcher] /\ UNCHANGED <<current, processed>>
      BY <1>0, <1>8, <2>3 DEF RunStep, Peek, Verify, Persist, Drain, EndRun
    <3> QED BY <2>1, <3>1, NothingStored
  <2> QED BY <2>2, <2>3
<1>9. ASSUME NEW r \in Runners, RunFails(r) PROVE ReplayInv'
  <2>1. UNCHANGED <<runs, finished>>
    BY <1>9 DEF RunFails
  <2>2. CASE r = Watcher
    BY <1>0, <1>9, <2>1, <2>2, NothingStored
    DEF RunFails, EndRun, Release, Finish, NoRun, Deduped, Open
  <2>3. CASE r # Watcher
    BY <1>0, <1>9, <2>1, <2>3, NothingStored DEF RunFails, EndRun
  <2> QED BY <2>2, <2>3
<1>10. CASE Crash
  BY <1>0, <1>10, NothingStored DEF Crash, NoRun, Deduped, Open
<1>11. CASE UNCHANGED vars
  BY <1>11, NothingStored DEF vars
<1> QED
  BY <1>0, <1>1, <1>2, <1>3, <1>4, <1>5, <1>6, <1>7, <1>8, <1>9, <1>10, <1>11
  DEF Next, Session, Consumer, Runners

\* The consumer never verifies for one of the last KeptRuns ids it stored,
\* across restarts and however often an event is delivered, but for a run that
\* could not read them and the ids such a run replaced. (index.ts:1560-1573)
THEOREM NoReplayIsVerified == Spec => []ReplaysNeverVerify
<1>1. Init => ReplayInv
  BY BoundsAreNaturals
  DEF Init, ReplayInv, LatestAreStored, EventIsNew, Kept, NoRun, Deduped, Open, Runners
<1>2. TInv /\ ReplayInv => ReplaysNeverVerify
  <2> SUFFICES ASSUME TInv, ReplayInv, run[Watcher].pc \in Open, IdsAreRead
               PROVE  current.id \notin ToSet(Kept(finished[current.session]))
    BY DEF ReplaysNeverVerify
  <2>1. current \in Event
    BY DEF TInv, RunsAreAttached, Open
  <2>2. current.session \in Sessions
    BY <2>1 DEF Event
  <2> QED BY <2>2 DEF ReplayInv, EventIsNew, LatestAreStored, Deduped
<1> QED BY <1>1, <1>2, ReplayStep, TypesHold, PTL DEF Spec
=============================================================================
