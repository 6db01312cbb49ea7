--------------------------- MODULE BenchmarkProofs ---------------------------
(* Proofs about Benchmark: its types, what it promises to the readers of the *)
(* store (TrialLife), and which sessions are read-only and released, for any *)
(* number of trials, any scores and any concurrency.                         *)
EXTENDS Benchmark, TLAPS

\* Where a fiber can be.
Places == [pc : Steps, role : Roles, outcome : Terminal \cup {"pending"},
           score : Scores \cup {NoScore}]

LEMMA AtType ==
  ASSUME NEW pc \in Steps, NEW role \in Roles, NEW outcome \in Terminal \cup {"pending"},
         NEW value \in Scores \cup {NoScore}
  PROVE  At(pc, role, outcome, value) \in Places
BY DEF At, Places

LEMMA OverType == Over \in Places /\ Queued \in Places
BY AtType DEF Over, Queued, Steps, Roles

LEMMA DecidedType ==
  ASSUME NEW outcome \in Terminal, NEW value \in Scores \cup {NoScore}
  PROVE  Decided(outcome, value) \in Places
BY AtType DEF Decided, Steps, Roles

LEMMA FiberType == TypeOK => fiber \in [Trials -> Places]
BY DEF TypeOK, Places

LEMMA SessionType ==
  ASSUME TypeOK, NEW t \in Trials
  PROVE  Session(t) \in Sessions /\ fiber[t].role \in Roles
BY FiberType DEF Session, Sessions, Places

LEMMA GotoType ==
  ASSUME TypeOK, NEW t \in Trials, NEW rec \in Places, Goto(t, rec)
  PROVE  fiber' \in [Trials -> Places]
BY FiberType DEF Goto

LEMMA TypesInit == Init => TypeOK
<1> SUFFICES ASSUME Init PROVE TypeOK OBVIOUS
<1>1. fiber \in [Trials -> Places] BY OverType DEF Init
<1> QED BY <1>1 DEF Init, TypeOK, Places, RunSteps

\* Steps of the run keep the types.
LEMMA RunTypes == TypeOK /\ Run => TypeOK'
<1> SUFFICES ASSUME TypeOK, Run PROVE TypeOK' OBVIOUS
<1> USE DEF TypeOK, RunSteps, store, child, history
<1>1. CASE CreateJob BY <1>1 DEF CreateJob
<1>2. CASE CreateTrials BY <1>2 DEF CreateTrials
<1>3. CASE Start BY <1>3 DEF Start
<1>4. CASE Collect BY <1>4 DEF Collect
<1>5. CASE CloseJob BY <1>5 DEF CloseJob, IsLeader, Referred
<1>6. CASE RunFails BY <1>6 DEF RunFails
<1>7. CASE Stop BY <1>7 DEF Stop
<1> QED BY <1>1, <1>2, <1>3, <1>4, <1>5, <1>6, <1>7 DEF Run

\* A step that types the fibers and what else it changes keeps the types.
LEMMA FiberKeepsTypes ==
  ASSUME TypeOK, fiber' \in [Trials -> Places],
         row' \in [Trials -> {"absent", "pending"} \cup Terminal],
         score' \in [Trials -> Scores \cup {NoScore}],
         traced' \subseteq Trials, run' \in RunSteps,
         UNCHANGED <<job, leader, events, refs>>,
         origins' \subseteq Sessions, dirs' \subseteq Sessions, acting' \subseteq Sessions,
         adrift' \subseteq Sessions, stray' \subseteq Sessions, halted' \subseteq Trials
  PROVE  TypeOK'
BY DEF TypeOK, Places

\* Cleaning up takes some directories away and counts the others as strays.
LEMMA CleanUpEffect ==
  ASSUME NEW gone, CleanUp(gone)
  PROVE  /\ dirs' \subseteq dirs /\ stray \subseteq stray' /\ stray' \subseteq stray \cup dirs
         /\ \A x \in gone : x \in dirs' => x \in stray'
         /\ \A x \in dirs' : x \in dirs
BY DEF CleanUp

LEMMA CleanUpType ==
  ASSUME TypeOK, NEW gone, CleanUp(gone)
  PROVE  dirs' \subseteq Sessions /\ stray' \subseteq Sessions
BY CleanUpEffect DEF TypeOK

LEMMA ExecutorFailsType ==
  ASSUME TypeOK, NEW t \in Trials, NEW outcome \in Terminal, ExecutorFails(t, outcome)
  PROVE  fiber' \in [Trials -> Places] /\ dirs' \subseteq Sessions /\ stray' \subseteq Sessions
<1>1. Decided("judge-unavailable", NoScore) \in Places /\ Decided(outcome, NoScore) \in Places
  BY DecidedType DEF Terminal, Failures
<1>2. fiber' \in [Trials -> Places] BY <1>1, GotoType DEF ExecutorFails
<1>3. dirs' \subseteq Sessions /\ stray' \subseteq Sessions
  BY CleanUpType DEF ExecutorFails, TypeOK
<1> QED BY <1>2, <1>3

\* Steps of a trial keep the types.
LEMMA FiberTypes == ASSUME TypeOK, NEW t \in Trials, Fiber(t) PROVE TypeOK'
<1>0. Session(t) \in Sessions /\ fiber[t].role \in Roles BY SessionType
<1>1. CASE Begin(t) \/ MakeDirectory(t) \/ Create(t) \/ TimeOut(t)
  <2>1. ASSUME NEW pc \in {"create", "generate", "interrupt"}
        PROVE  At(pc, fiber[t].role, "pending", NoScore) \in Places
    BY <1>0, AtType DEF Steps
  <2>2. At("workspace", "candidate", "pending", NoScore) \in Places
    BY AtType DEF Steps, Roles
  <2>3. fiber' \in [Trials -> Places]
    BY <1>1, <2>1, <2>2, GotoType DEF Begin, MakeDirectory, Create, TimeOut
  <2> QED BY <1>0, <1>1, <2>3, FiberKeepsTypes
          DEF Begin, MakeDirectory, Create, TimeOut, TypeOK, store, child, history
<1>2. CASE NoDirectory(t)
  <2>1. fiber' \in [Trials -> Places] BY <1>2, OverType, GotoType DEF NoDirectory
  <2> QED BY <1>2, <2>1, FiberKeepsTypes
          DEF NoDirectory, TypeOK, RunSteps, store, child, history
<1>10. CASE RecordFails(t)
  <2>1. fiber' \in [Trials -> Places] BY <1>10, OverType, GotoType DEF RecordFails
  <2>2. dirs' \subseteq Sessions /\ stray' \subseteq Sessions
    BY <1>10, CleanUpType DEF RecordFails
  <2> QED BY <1>10, <2>1, <2>2, FiberKeepsTypes DEF RecordFails, TypeOK, RunSteps, store
<1>3. CASE NoJudge(t)
  <2>1. fiber' \in [Trials -> Places]
    BY <1>3, DecidedType, GotoType DEF NoJudge, Terminal, Failures
  <2> QED BY <1>3, <2>1, FiberKeepsTypes DEF NoJudge, TypeOK, store, child, history
<1>4. CASE CreateFails(t) \/ GenerateFails(t) \/ AfterInterrupt(t)
  <2>1. fiber' \in [Trials -> Places] /\ dirs' \subseteq Sessions /\ stray' \subseteq Sessions
    BY <1>4, ExecutorFailsType DEF CreateFails, GenerateFails, AfterInterrupt, Terminal, Failures
  <2> QED BY <1>0, <1>4, <2>1, FiberKeepsTypes
          DEF CreateFails, GenerateFails, AfterInterrupt, TypeOK, store, history
<1>5. CASE Answer(t)
  <2>1. At("workspace", "judge", "pending", NoScore) \in Places
    BY AtType DEF Steps, Roles
  <2>2. fiber' \in [Trials -> Places]
    BY <1>5, <2>1, DecidedType, GotoType DEF Answer, Terminal, Failures
  <2> QED BY <1>5, <2>2, FiberKeepsTypes DEF Answer, TypeOK, store, history
<1>6. CASE Verdict(t)
  <2>1. fiber' \in [Trials -> Places]
    BY <1>6, DecidedType, GotoType DEF Verdict, Terminal, Failures
  <2>2. dirs' \subseteq Sessions /\ stray' \subseteq Sessions BY <1>6, CleanUpType DEF Verdict
  <2> QED BY <1>6, <2>1, <2>2, FiberKeepsTypes DEF Verdict, TypeOK, store
<1>7. CASE Record(t)
  <2>1. At("end", "candidate", "pending", NoScore) \in Places
    BY AtType DEF Steps, Roles
  <2>2. fiber' \in [Trials -> Places] BY <1>7, <2>1, GotoType DEF Record
  <2>3. fiber[t].score \in Scores \cup {NoScore} BY FiberType DEF Places
  <2>4. score' \in [Trials -> Scores \cup {NoScore}] BY <1>7, <2>3 DEF Record, TypeOK
  <2> QED BY <1>7, <2>2, <2>4, FiberKeepsTypes DEF Record, TypeOK, history
<1>8. CASE End(t)
  <2>1. fiber' \in [Trials -> Places] BY <1>8, OverType, GotoType DEF End
  <2>2. dirs' \subseteq Sessions /\ stray' \subseteq Sessions BY <1>8, CleanUpType DEF End
  <2> QED BY <1>8, <2>1, <2>2, FiberKeepsTypes DEF End, TypeOK
<1>9. CASE Interrupted(t)
  <2>1. fiber' \in [Trials -> Places] BY <1>9, OverType, GotoType DEF Interrupted
  <2>2. dirs' \subseteq Sessions /\ stray' \subseteq Sessions
    BY <1>0, <1>9 DEF Interrupted, TypeOK
  <2> QED BY <1>0, <1>9, <2>1, <2>2, FiberKeepsTypes DEF Interrupted, TypeOK, store
<1> QED BY <1>1, <1>2, <1>3, <1>4, <1>5, <1>6, <1>7, <1>8, <1>9, <1>10 DEF Fiber

LEMMA TypesAreInductive == TypeOK /\ [Next]_vars => TypeOK'
<1> SUFFICES ASSUME TypeOK, [Next]_vars PROVE TypeOK' OBVIOUS
<1>1. CASE Run BY <1>1, RunTypes
<1>2. CASE \E t \in Trials : Fiber(t) BY <1>2, FiberTypes
<1>3. CASE Cancel \/ (\E x \in Sessions : HostStops(x))
  BY <1>3 DEF Cancel, HostStops, TypeOK, RunSteps, store, child, history
<1>4. CASE Crash
  <2>1. fiber' \in [Trials -> Places] BY <1>4, OverType DEF Crash
  <2> QED BY <1>4, <2>1 DEF Crash, TypeOK, Places, RunSteps, store
<1>5. CASE UNCHANGED vars
  BY <1>5 DEF vars, store, child, history, TypeOK
<1> QED BY <1>1, <1>2, <1>3, <1>4, <1>5 DEF Next

\* The type invariant of the benchmark, for any trials, scores and concurrency.
THEOREM TypeCorrect == Spec => []TypeOK
<1> QED BY TypesInit, TypesAreInductive, PTL DEF Spec
-----------------------------------------------------------------------------
(* Sessions and directories *)

\* A fiber that waits for no session is its candidate's.
RolesFit ==
  \A t \in Trials :
    fiber[t].pc \in {"queued", "complete", "end", "over"} => fiber[t].role = "candidate"

\* A session that acts and is not adrift is the one its fiber waits for.
ActingIsAwaited ==
  \A t \in Trials, r \in Roles :
    <<t, r>> \in acting /\ <<t, r>> \notin adrift =>
      <<t, r>> \in origins /\ fiber[t].pc \in {"generate", "interrupt"} /\ fiber[t].role = r

\* A candidate is registered from its creation to the end of its judgement.
CandidateIsHeld ==
  \A t \in Trials \ halted :
    <<t, "candidate">> \in origins =>
      \/ fiber[t].role = "judge"
      \/ fiber[t].pc \in {"generate", "interrupt", "complete"}

\* A directory is there for the session it was made for, that of the candidate
\* for the judge's too.
DirectoryIsUsed ==
  \A t \in Trials :
    /\ <<t, "judge">> \in dirs \ stray =>
         fiber[t].role = "judge" /\ fiber[t].pc \in {"create", "generate", "interrupt"}
    /\ <<t, "candidate">> \in dirs \ stray =>
         \/ fiber[t].role = "judge"
         \/ fiber[t].pc \in {"create", "generate", "interrupt", "complete", "end"}

ChildInv == RolesFit /\ ActingIsAwaited /\ CandidateIsHeld /\ DirectoryIsUsed

LEMMA Place ==
  ASSUME TypeOK, NEW t \in Trials, NEW rec, Goto(t, rec)
  PROVE  fiber'[t] = rec /\ \A u \in Trials \ {t} : fiber'[u] = fiber[u]
BY DEF Goto, TypeOK

LEMMA AtFields ==
  ASSUME NEW pc, NEW role, NEW outcome, NEW value
  PROVE  /\ At(pc, role, outcome, value).pc = pc
         /\ At(pc, role, outcome, value).role = role
         /\ At(pc, role, outcome, value).outcome = outcome
         /\ At(pc, role, outcome, value).score = value
BY DEF At

LEMMA ChildInit == Init => ChildInv
BY AtFields DEF Init, Queued, ChildInv, RolesFit, ActingIsAwaited, CandidateIsHeld, DirectoryIsUsed

\* Where a step of a trial leaves its fiber.
LEMMA Moves ==
  ASSUME TypeOK, NEW t \in Trials, Fiber(t)
  PROVE  /\ \A u \in Trials \ {t} : fiber'[u] = fiber[u]
         /\ Begin(t) => fiber'[t].pc = "workspace" /\ fiber'[t].role = "candidate"
         /\ MakeDirectory(t) => fiber'[t].pc = "create" /\ fiber'[t].role = fiber[t].role
         /\ Create(t) => fiber'[t].pc = "generate" /\ fiber'[t].role = fiber[t].role
         /\ TimeOut(t) => fiber'[t].pc = "interrupt" /\ fiber'[t].role = fiber[t].role
         /\ NoJudge(t) \/ CreateFails(t) \/ GenerateFails(t) \/ AfterInterrupt(t) \/ Verdict(t)
              => fiber'[t].pc = "complete" /\ fiber'[t].role = "candidate"
         /\ Answer(t) => \/ fiber'[t].pc = "complete" /\ fiber'[t].role = "candidate"
                         \/ fiber'[t].pc = "workspace" /\ fiber'[t].role = "judge"
         /\ Record(t) => fiber'[t].pc = "end" /\ fiber'[t].role = "candidate"
         /\ NoDirectory(t) \/ RecordFails(t) \/ End(t) \/ Interrupted(t)
              => fiber'[t].pc = "over" /\ fiber'[t].role = "candidate"
<1> USE Place, AtFields
<1>1. \A u \in Trials \ {t} : fiber'[u] = fiber[u]
  BY DEF Fiber, Begin, MakeDirectory, NoDirectory, NoJudge, Create, CreateFails, GenerateFails,
         TimeOut, AfterInterrupt, Answer, Verdict, Record, RecordFails, End, Interrupted, ExecutorFails
<1>2. Begin(t) => fiber'[t].pc = "workspace" /\ fiber'[t].role = "candidate" BY DEF Begin
<1>3. MakeDirectory(t) => fiber'[t].pc = "create" /\ fiber'[t].role = fiber[t].role
  BY DEF MakeDirectory
<1>4. Create(t) => fiber'[t].pc = "generate" /\ fiber'[t].role = fiber[t].role BY DEF Create
<1>5. TimeOut(t) => fiber'[t].pc = "interrupt" /\ fiber'[t].role = fiber[t].role BY DEF TimeOut
<1>6. NoJudge(t) \/ CreateFails(t) \/ GenerateFails(t) \/ AfterInterrupt(t) \/ Verdict(t)
        => fiber'[t].pc = "complete" /\ fiber'[t].role = "candidate"
  BY DEF NoJudge, CreateFails, GenerateFails, AfterInterrupt, Verdict, ExecutorFails, Decided
<1>7. Answer(t) => \/ fiber'[t].pc = "complete" /\ fiber'[t].role = "candidate"
                   \/ fiber'[t].pc = "workspace" /\ fiber'[t].role = "judge"
  BY DEF Answer, Decided
<1>8. Record(t) => fiber'[t].pc = "end" /\ fiber'[t].role = "candidate" BY DEF Record
<1>9. NoDirectory(t) \/ RecordFails(t) \/ End(t) \/ Interrupted(t)
        => fiber'[t].pc = "over" /\ fiber'[t].role = "candidate"
  BY DEF NoDirectory, RecordFails, End, Interrupted, Over
<1> QED BY <1>1, <1>2, <1>3, <1>4, <1>5, <1>6, <1>7, <1>8, <1>9
LEMMA RolesStep ==
  ASSUME TypeOK, NEW t \in Trials, Fiber(t), RolesFit
  PROVE  RolesFit'
BY Moves DEF Fiber, RolesFit

LEMMA ActingStep ==
  ASSUME TypeOK, NEW t \in Trials, Fiber(t), ActingIsAwaited
  PROVE  ActingIsAwaited'
<1> SUFFICES ASSUME NEW u \in Trials, NEW r \in Roles, <<u, r>> \in acting', <<u, r>> \notin adrift'
             PROVE  <<u, r>> \in origins' /\ fiber'[u].pc \in {"generate", "interrupt"}
                    /\ fiber'[u].role = r
  BY DEF ActingIsAwaited
<1> USE DEF Session
<1>1. CASE Create(t)
  <2>1. CASE <<u, r>> = Session(t) BY <1>1, <2>1, Moves DEF Create
  <2>2. CASE <<u, r>> # Session(t)
    <3>1. <<u, r>> \in acting /\ <<u, r>> \notin adrift BY <1>1, <2>2 DEF Create, history
    <3>2. u # t BY <1>1, <3>1 DEF ActingIsAwaited, Create, Ready
    <3> QED BY <1>1, <3>1, <3>2, Moves DEF ActingIsAwaited, Create
  <2> QED BY <2>1, <2>2
<1>2. CASE ~Create(t)
  <2>1. acting' \subseteq acting /\ adrift \subseteq adrift'
    BY <1>2 DEF Fiber, Begin, MakeDirectory, NoDirectory, NoJudge, CreateFails, GenerateFails,
                TimeOut, AfterInterrupt, Answer, Verdict, Record, RecordFails, End, Interrupted,
                child, history
  <2>2. /\ <<u, r>> \in origins
        /\ fiber[u].pc \in {"generate", "interrupt"} /\ fiber[u].role = r
    BY <2>1 DEF ActingIsAwaited
  <2>3. CASE u # t
    <3>1. <<u, r>> \in origins'
      BY <1>2, <2>2, <2>3 DEF Fiber, Begin, MakeDirectory, NoDirectory, NoJudge, CreateFails,
            GenerateFails, TimeOut, AfterInterrupt, Answer, Verdict, Record, RecordFails, End,
            Interrupted, child
    <3> QED BY <2>2, <2>3, <3>1, Moves
  <2>4. CASE u = t
    <3>1. <<u, r>> = Session(t) BY <2>2, <2>4
    <3>2. TimeOut(t)
      BY <1>2, <2>2, <2>4, <3>1 DEF Fiber, Ready, Begin, MakeDirectory, NoDirectory, NoJudge,
            CreateFails, GenerateFails, AfterInterrupt, Answer, Verdict, Record, RecordFails, End,
            Interrupted
    <3> QED BY <2>2, <2>4, <3>2, Moves DEF TimeOut, child
  <2> QED BY <2>3, <2>4
<1> QED BY <1>1, <1>2

LEMMA CandidateStep ==
  ASSUME TypeOK, NEW t \in Trials, Fiber(t), RolesFit, CandidateIsHeld
  PROVE  CandidateIsHeld'
<1> SUFFICES ASSUME NEW u \in Trials \ halted', <<u, "candidate">> \in origins'
             PROVE  \/ fiber'[u].role = "judge"
                    \/ fiber'[u].pc \in {"generate", "interrupt", "complete"}
  BY DEF CandidateIsHeld
<1> USE DEF Session, Ready
<1>1. halted \subseteq halted'
  BY DEF Fiber, Begin, MakeDirectory, NoDirectory, NoJudge, Create, CreateFails, GenerateFails,
         TimeOut, AfterInterrupt, Answer, Verdict, Record, RecordFails, End, Interrupted, history
<1>2. CASE u # t
  <2>1. <<u, "candidate">> \in origins
    BY <1>2 DEF Fiber, Begin, MakeDirectory, NoDirectory, NoJudge, Create, CreateFails,
          GenerateFails, TimeOut, AfterInterrupt, Answer, Verdict, Record, RecordFails, End,
          Interrupted, child
  <2> QED BY <1>1, <1>2, <2>1, Moves DEF CandidateIsHeld
<1>3. CASE u = t
  <2>1. CASE Create(t) \/ TimeOut(t) \/ NoJudge(t) \/ CreateFails(t) \/ GenerateFails(t)
             \/ AfterInterrupt(t) \/ Verdict(t) \/ Answer(t)
    BY <1>3, <2>1, Moves
  <2>2. CASE Begin(t) \/ MakeDirectory(t) \/ NoDirectory(t) \/ End(t)
    <3>1. <<u, "candidate">> \in origins
      BY <2>2 DEF Begin, MakeDirectory, NoDirectory, End, child
    <3>2. fiber[t].role = "judge"
      BY <1>1, <1>3, <2>2, <3>1 DEF CandidateIsHeld, Begin, MakeDirectory, NoDirectory, End
    <3> QED BY <1>3, <2>2, <3>2, Moves DEF RolesFit, Begin, NoDirectory, End
  <2>3. CASE Record(t) \/ RecordFails(t)
    BY <1>3, <2>3 DEF RolesFit, Record, RecordFails
  <2>4. CASE Interrupted(t) BY <1>3, <2>4 DEF Interrupted
  <2> QED BY <2>1, <2>2, <2>3, <2>4 DEF Fiber
<1> QED BY <1>2, <1>3
LEMMA DirectoryStep ==
  ASSUME TypeOK, NEW t \in Trials, Fiber(t), RolesFit, DirectoryIsUsed
  PROVE  DirectoryIsUsed'
<1> SUFFICES ASSUME NEW u \in Trials, NEW r \in Roles, <<u, r>> \in dirs', <<u, r>> \notin stray'
             PROVE  /\ r = "judge" => /\ fiber'[u].role = "judge"
                                      /\ fiber'[u].pc \in {"create", "generate", "interrupt"}
                    /\ r = "candidate" =>
                         \/ fiber'[u].role = "judge"
                         \/ fiber'[u].pc \in {"create", "generate", "interrupt", "complete", "end"}
  BY DEF DirectoryIsUsed, Roles
<1> USE DEF Session, Ready, Roles
<1>1. CASE u # t
  <2>1. \/ \E gone : CleanUp(gone)
        \/ UNCHANGED <<dirs, stray>>
        \/ MakeDirectory(t) \/ Interrupted(t)
    BY DEF Fiber, Begin, NoDirectory, NoJudge, Create, CreateFails,
          GenerateFails, TimeOut, AfterInterrupt, Answer, Verdict, Record, RecordFails, End,
          ExecutorFails, child, history
  <2>2. ASSUME MakeDirectory(t) PROVE <<u, r>> \in dirs /\ <<u, r>> \notin stray
    BY <1>1, <2>2 DEF MakeDirectory, history
  <2>3. ASSUME Interrupted(t) PROVE <<u, r>> \in dirs /\ <<u, r>> \notin stray
    <3>1. PICK left \in SUBSET (({x \in dirs : x[1] = t} \cap Stuck)
                                \cup (IF fiber[t].pc = "workspace" THEN {Session(t)} ELSE {})) :
            dirs' = (dirs \ {x \in dirs : x[1] = t}) \cup left /\ stray' = stray \cup left
      BY <2>3 DEF Interrupted
    <3> QED BY <1>1, <3>1
  <2>4. <<u, r>> \in dirs /\ <<u, r>> \notin stray
    BY <2>1, <2>2, <2>3, CleanUpEffect
  <2> QED BY <1>1, <2>4, Moves DEF DirectoryIsUsed
<1>2. CASE u = t
  <2>1. CASE MakeDirectory(t)
    <3>1. CASE r = fiber[t].role BY <1>2, <2>1, <3>1, Moves
    <3>2. CASE r # fiber[t].role
      <4>1. <<u, r>> \in dirs /\ <<u, r>> \notin stray
        BY <1>2, <2>1, <3>2 DEF MakeDirectory, history
      <4> QED BY <1>2, <2>1, <4>1, Moves DEF MakeDirectory, DirectoryIsUsed
    <3> QED BY <3>1, <3>2
  <2>2. CASE Interrupted(t)
    <3>1. PICK left : /\ dirs' = (dirs \ {x \in dirs : x[1] = t}) \cup left
                      /\ stray' = stray \cup left
      BY <2>2 DEF Interrupted
    <3> QED BY <1>2, <3>1
  <2>3. CASE Begin(t) \/ NoDirectory(t) \/ NoJudge(t) \/ Create(t) \/ TimeOut(t) \/ Answer(t)
             \/ Record(t)
    <3>1. <<u, r>> \in dirs /\ <<u, r>> \notin stray
      BY <2>3 DEF Begin, NoDirectory, NoJudge, Create, TimeOut, Answer, Record, child, history
    <3> QED BY <1>2, <2>3, <3>1, Moves
            DEF DirectoryIsUsed, RolesFit, Begin, NoDirectory, NoJudge, Create, TimeOut, Answer, Record
  <2>4. CASE CreateFails(t) \/ GenerateFails(t) \/ AfterInterrupt(t) \/ Verdict(t)
    <3>0. \/ CleanUp({Session(t)})
          \/ fiber[t].role # "judge" /\ UNCHANGED <<dirs, stray>>
      BY <2>4 DEF CreateFails, GenerateFails, AfterInterrupt, Verdict, ExecutorFails
    <3>1. <<u, r>> \in dirs /\ <<u, r>> \notin stray /\ (fiber[t].role = "judge" => r # "judge")
      BY <1>2, <3>0, CleanUpEffect
    <3> QED BY <1>2, <2>4, <3>1, Moves DEF DirectoryIsUsed
  <2>5. CASE RecordFails(t) \/ End(t)
    <3>1. fiber[t].role = "candidate" BY <2>5 DEF RecordFails, End, RolesFit
    <3>2. CleanUp({Session(t)}) BY <2>5 DEF RecordFails, End
    <3>3. <<u, r>> \in dirs /\ <<u, r>> \notin stray /\ r # "candidate"
      BY <1>2, <3>1, <3>2, CleanUpEffect
    <3> QED BY <1>2, <3>1, <3>3 DEF DirectoryIsUsed
  <2> QED BY <2>1, <2>2, <2>3, <2>4, <2>5 DEF Fiber
<1> QED BY <1>1, <1>2

\* Steps of others leave what ChildInv is about, or take from it.
LEMMA ChildOthers ==
  ASSUME TypeOK, ChildInv,
         \/ Run
         \/ \E x \in Sessions : HostStops(x)
         \/ Cancel
         \/ Crash
         \/ UNCHANGED vars
  PROVE  ChildInv'
<1> USE DEF ChildInv, RolesFit, ActingIsAwaited, CandidateIsHeld, DirectoryIsUsed
<1>1. CASE Run
  <2>1. UNCHANGED <<fiber, child, history>>
    BY <1>1 DEF Run, CreateJob, CreateTrials, Start, Collect, CloseJob, RunFails, Stop
  <2> QED BY <2>1 DEF child, history
<1>2. CASE \E x \in Sessions : HostStops(x)
  <2>1. /\ acting' \ adrift' \subseteq acting \ adrift
        /\ UNCHANGED <<fiber, origins, dirs, stray, halted>>
    BY <1>2 DEF HostStops
  <2> QED BY <2>1
<1>3. CASE Cancel BY <1>3 DEF Cancel, child, history
<1>4. CASE Crash
  <2>1. \A t \in Trials : fiber'[t].pc = "over" /\ fiber'[t].role = "candidate"
    BY <1>4, AtFields DEF Crash, Over
  <2>2. origins' = {} /\ acting' = {} /\ dirs' \ stray' = {} BY <1>4 DEF Crash
  <2> QED BY <2>1, <2>2
<1>5. CASE UNCHANGED vars BY <1>5 DEF vars, child, history
<1> QED BY <1>1, <1>2, <1>3, <1>4, <1>5

LEMMA ChildStep == TypeOK /\ ChildInv /\ [Next]_vars => ChildInv'
<1> SUFFICES ASSUME TypeOK, ChildInv, [Next]_vars PROVE ChildInv' OBVIOUS
<1>1. CASE \E t \in Trials : Fiber(t)
  BY <1>1, RolesStep, ActingStep, CandidateStep, DirectoryStep DEF ChildInv
<1>2. CASE ~\E t \in Trials : Fiber(t) BY <1>2, ChildOthers DEF Next
<1> QED BY <1>1, <1>2

LEMMA ChildCorrect == Spec => [](TypeOK /\ ChildInv)
BY TypesInit, TypesAreInductive, ChildInit, ChildStep, PTL DEF Spec

\* In every reachable state a session in which the host generates is registered
\* as an origin, and so read-only, unless it was left adrift: the origin is
\* released after the interrupt, on every way out of a generation.
THEOREM ActingSessionsAreReadOnly == Spec => []ActingIsReadOnly
<1>1. TypeOK /\ ChildInv => ActingIsReadOnly
  BY DEF TypeOK, ChildInv, ActingIsAwaited, ActingIsReadOnly, Sessions
<1> QED BY <1>1, ChildCorrect, PTL

\* However a trial ends, its candidate is released, unless its fiber was
\* interrupted.
THEOREM CandidatesAreReleasedAtLast == Spec => []CandidatesAreReleased
<1>1. ChildInv => CandidatesAreReleased
  BY DEF ChildInv, RolesFit, CandidateIsHeld, CandidatesAreReleased
<1> QED BY <1>1, ChildCorrect, PTL

\* A directory that no interruption or crash abandoned, and whose removal did not
\* fail, is in use.
THEOREM DirectoriesAreInUse == Spec => []DirectoriesAreRemoved
<1>1. TypeOK /\ ChildInv => DirectoriesAreRemoved
  <2> SUFFICES ASSUME TypeOK, ChildInv, NEW t \in Trials, NEW r \in Roles, <<t, r>> \in dirs \ stray
               PROVE  Running(t) /\ (r = "judge" => fiber[t].role = "judge")
    BY DEF TypeOK, Sessions, DirectoriesAreRemoved
  <2>1. fiber[t].role = "judge" => Running(t) BY DEF ChildInv, RolesFit, Running
  <2> QED BY <2>1 DEF ChildInv, DirectoryIsUsed, Roles, Running
<1> QED BY <1>1, ChildCorrect, PTL
-----------------------------------------------------------------------------
(* The store *)

JobFits ==
  /\ run = "createJob" => job = "none"
  /\ run \in RunSteps \ {"createJob", "over"} => job = "running"
  /\ job \in {"none", "running"} => leader = NoTrial

\* The rows of the trials appear together, after the job.
RowsFit ==
  /\ run \in {"createJob", "createTrials"} => \A t \in Trials : row[t] = "absent"
  /\ run \in RunSteps \ {"createJob", "createTrials", "over"} => \A t \in Trials : row[t] # "absent"

\* What is scored has a score, in the store and in the fiber that will record it.
ScoresFit ==
  /\ \A t \in Trials : row[t] = "scored" <=> score[t] # NoScore
  /\ \A t \in Trials : fiber[t].pc = "complete" =>
       /\ fiber[t].outcome \in Terminal
       /\ fiber[t].outcome = "scored" <=> fiber[t].score # NoScore
  /\ run = "close" => refs = score

\* The events come with the changes they tell.
EventsFit ==
  /\ "job.completed" \in events <=> job \in {"completed", "failed"}
  /\ run \in {"trials", "stopping", "close"} => "job.started" \in events
  /\ "job.completed" \in events => "job.started" \in events
  /\ \A t \in Trials : fiber[t].pc = "end" => row[t] \in Terminal
  /\ \A t \in traced : row[t] \in Terminal

StoreInv == JobFits /\ RowsFit /\ ScoresFit /\ EventsFit

LEMMA StoreInit == Init => StoreInv
BY AtFields DEF Init, Queued, RunSteps, StoreInv, JobFits, RowsFit, ScoresFit, EventsFit

LEMMA StoreRun == ASSUME TypeOK, StoreInv, Run PROVE StoreInv'
<1> USE DEF StoreInv, store, child, history, RunSteps
<1>1. JobFits'
  BY DEF Run, CreateJob, CreateTrials, Start, Collect, CloseJob, RunFails, Stop, JobFits
<1>2. RowsFit'
  BY DEF Run, CreateJob, CreateTrials, Start, Collect, CloseJob, RunFails, Stop, RowsFit
<1>3. ScoresFit'
  <2>1. (\A t \in Trials : row[t] = "scored" <=> score[t] # NoScore)'
    BY DEF Run, CreateJob, CreateTrials, Start, Collect, CloseJob, RunFails, Stop, ScoresFit, RowsFit
  <2> QED
    BY <2>1 DEF Run, CreateJob, CreateTrials, Start, Collect, CloseJob, RunFails, Stop, ScoresFit
<1>4. EventsFit'
  <2>1. CASE CreateTrials
    <3>1. \A t \in Trials : row[t] \notin Terminal
      BY <2>1 DEF CreateTrials, RowsFit, Terminal, Failures
    <3>2. traced = {} BY <3>1 DEF EventsFit, TypeOK
    <3> QED BY <2>1, <3>1, <3>2 DEF CreateTrials, EventsFit
  <2>2. CASE Run /\ ~CreateTrials
    BY <2>2 DEF Run, CreateJob, Start, Collect, CloseJob, RunFails, Stop, EventsFit, JobFits
  <2> QED BY <2>1, <2>2
<1> QED BY <1>1, <1>2, <1>3, <1>4

\* A trial's fiber knows its outcome before it records it.
LEMMA OutcomeStep ==
  ASSUME TypeOK, NEW t \in Trials, Fiber(t), fiber'[t].pc = "complete"
  PROVE  /\ fiber'[t].outcome \in Terminal
         /\ fiber'[t].outcome = "scored" <=> fiber'[t].score # NoScore
<1> USE Place, AtFields DEF Decided, Terminal, Failures
<1>1. CASE NoJudge(t) BY <1>1 DEF NoJudge
<1>2. CASE CreateFails(t) \/ GenerateFails(t) \/ AfterInterrupt(t)
  <2>1. ASSUME NEW outcome \in {"interrupted", "llm-error", "timeout"}, ExecutorFails(t, outcome)
        PROVE  fiber'[t].outcome \in Failures /\ fiber'[t].score = NoScore
    BY <2>1 DEF ExecutorFails
  <2> QED BY <1>2, <2>1 DEF CreateFails, GenerateFails, AfterInterrupt
<1>3. CASE Answer(t) BY <1>3 DEF Answer
<1>4. CASE Verdict(t)
  <2>1. CASE \E value \in Scores : Goto(t, Decided("scored", value)) BY <2>1, NoScoreIsNone
  <2>2. CASE Goto(t, Decided("judge-unavailable", NoScore)) BY <2>2
  <2> QED BY <1>4, <2>1, <2>2 DEF Verdict
<1> QED BY <1>1, <1>2, <1>3, <1>4, Moves DEF Fiber

\* What the recording of an outcome does to the store.
LEMMA RecordEffect ==
  ASSUME TypeOK, StoreInv, NEW t \in Trials, Record(t)
  PROVE  /\ UNCHANGED <<job, leader, events, traced, run, refs>> /\ run = "trials"
         /\ row'[t] \in Terminal
         /\ row'[t] = "scored" <=> score'[t] # NoScore
         /\ \A u \in Trials \ {t} : row'[u] = row[u] /\ score'[u] = score[u]
         /\ row[t] # "pending" => row' = row /\ score' = score
<1> USE DEF TypeOK, StoreInv, RowsFit, ScoresFit, Record, Ready, RunSteps
<1>1. CASE row[t] = "pending" BY <1>1
<1>2. CASE row[t] # "pending" BY <1>2
<1> QED BY <1>1, <1>2

LEMMA StoreFiber == ASSUME TypeOK, StoreInv, NEW t \in Trials, Fiber(t) PROVE StoreInv'
<1> USE DEF store, child, history, RunSteps
<1>1. CASE Record(t)
  <2>1. fiber'[t].pc = "end" /\ \A u \in Trials \ {t} : fiber'[u] = fiber[u] BY <1>1, Moves
  <2>2. JobFits' /\ RowsFit'
    <3>1. ASSUME NEW u \in Trials PROVE row'[u] # "absent"
      BY <1>1, RecordEffect DEF StoreInv, RowsFit, Terminal, Failures
    <3> QED BY <1>1, <3>1, RecordEffect DEF StoreInv, JobFits, RowsFit
  <2>3. ScoresFit' BY <1>1, <2>1, RecordEffect DEF StoreInv, ScoresFit
  <2>4. EventsFit'
    <3>1. ASSUME NEW u \in Trials, row[u] \in Terminal PROVE row'[u] \in Terminal
      BY <1>1, <3>1, RecordEffect
    <3>2. \A u \in Trials : fiber'[u].pc = "end" => u = t \/ fiber[u].pc = "end" BY <2>1
    <3>3. traced \subseteq Trials BY DEF TypeOK
    <3> QED BY <1>1, <3>1, <3>2, <3>3, RecordEffect DEF StoreInv, EventsFit
  <2> QED BY <2>2, <2>3, <2>4 DEF StoreInv
<1>2. CASE ~Record(t)
  <2>1. UNCHANGED <<job, row, score, leader, events, refs>>
    BY <1>2 DEF Fiber, Begin, MakeDirectory, NoDirectory, NoJudge, Create, CreateFails,
          GenerateFails, TimeOut, AfterInterrupt, Answer, Verdict, RecordFails, End, Interrupted
  <2>2. run' = run \/ (run = "trials" /\ run' = "stopping")
    BY <1>2 DEF Fiber, Ready, Begin, MakeDirectory, NoDirectory, NoJudge, Create, CreateFails,
          GenerateFails, TimeOut, AfterInterrupt, Answer, Verdict, RecordFails, End, Interrupted
  <2>3. \A u \in Trials : fiber'[u] = fiber[u] \/ (u = t /\ fiber'[u].pc # "end")
    BY <1>2, Moves DEF Fiber
  <2>4. traced' = traced \/ (fiber[t].pc = "end" /\ traced' \subseteq traced \cup {t})
    BY <1>2 DEF Fiber, Begin, MakeDirectory, NoDirectory, NoJudge, Create, CreateFails,
          GenerateFails, TimeOut, AfterInterrupt, Answer, Verdict, RecordFails, End, Interrupted
  <2>5. JobFits' /\ RowsFit' BY <2>1, <2>2 DEF StoreInv, JobFits, RowsFit
  <2>6. ScoresFit' BY <2>1, <2>2, <2>3, OutcomeStep DEF StoreInv, ScoresFit
  <2>7. EventsFit' BY <2>1, <2>2, <2>3, <2>4 DEF StoreInv, EventsFit
  <2> QED BY <2>5, <2>6, <2>7 DEF StoreInv
<1> QED BY <1>1, <1>2

LEMMA StoreStep == TypeOK /\ StoreInv /\ [Next]_vars => StoreInv'
<1> SUFFICES ASSUME TypeOK, StoreInv, [Next]_vars PROVE StoreInv' OBVIOUS
<1> USE DEF StoreInv, JobFits, RowsFit, ScoresFit, EventsFit, RunSteps
<1>1. CASE Run BY <1>1, StoreRun
<1>2. CASE \E t \in Trials : Fiber(t) BY <1>2, StoreFiber
<1>3. CASE Cancel \/ \E x \in Sessions : HostStops(x) BY <1>3 DEF Cancel, HostStops, store
<1>4. CASE Crash
  <2>1. \A t \in Trials : fiber'[t].pc = "over" BY <1>4, AtFields DEF Crash, Over
  <2>2. UNCHANGED <<job, row, score, leader, events, traced>> /\ run' = "over"
    BY <1>4 DEF Crash, store
  <2> QED BY <2>1, <2>2
<1>5. CASE UNCHANGED vars BY <1>5 DEF vars, store
<1> QED BY <1>1, <1>2, <1>3, <1>4, <1>5 DEF Next

LEMMA StoreCorrect == Spec => [](TypeOK /\ StoreInv)
BY TypesInit, TypesAreInductive, StoreInit, StoreStep, PTL DEF Spec

\* The history of a job tells its end when it has ended, and only then, and
\* traces only recorded trials: each event is written with what it tells.
THEOREM HistoryTellsTheJob == Spec => []HistoryTells
<1>1. StoreInv => HistoryTells BY DEF StoreInv, EventsFit, HistoryTells
<1> QED BY <1>1, StoreCorrect, PTL
-----------------------------------------------------------------------------
(* The store implements TrialLife *)

LEMMA LifeInit == Init => Life!Init
BY DEF Init, Life!Init

\* A step that leaves rows, scores, job and leader leaves the life of the job.
LEMMA LifeStutters ==
  ASSUME UNCHANGED <<job, row, score, leader>>
  PROVE  UNCHANGED Life!vars
BY DEF Life!vars

\* Recording an outcome is a failure or a score of a pending trial.
LEMMA LifeRecord ==
  ASSUME TypeOK, StoreInv, NEW t \in Trials, Record(t)
  PROVE  [Life!Next]_Life!vars
<1>1. CASE row[t] # "pending"
  BY <1>1, RecordEffect, LifeStutters
<1>2. CASE row[t] = "pending"
  <2>1. /\ row' = [row EXCEPT ![t] = fiber[t].outcome]
        /\ score' = [score EXCEPT ![t] = fiber[t].score]
        /\ UNCHANGED <<job, leader>> /\ job = "running"
        /\ fiber[t].outcome \in Terminal
        /\ fiber[t].outcome = "scored" <=> fiber[t].score # NoScore
        /\ score[t] = NoScore
    BY <1>2 DEF Record, Ready, StoreInv, JobFits, ScoresFit, RunSteps
  <2>2. score \in [Trials -> Scores \cup {NoScore}] /\ fiber[t].score \in Scores \cup {NoScore}
    BY FiberType DEF TypeOK, Places
  <2>3. CASE fiber[t].outcome = "scored"
    <3>1. fiber[t].score \in Scores /\ fiber[t].score # NoScore BY <2>1, <2>2, <2>3
    <3>2. fiber[t].score.total \in {s.total : s \in Scores} BY <3>1
    <3>3. [u \in Trials |-> IF score[u] = NoScore THEN NoScore ELSE score[u].total]' =
          [[u \in Trials |-> IF score[u] = NoScore THEN NoScore ELSE score[u].total]
             EXCEPT ![t] = fiber[t].score.total]
      BY <2>1, <2>2, <3>1
    <3>4. \E value \in {s.total : s \in Scores} : Life!Score(t, value)
      BY <1>2, <2>1, <2>3, <3>2, <3>3 DEF Life!Score
    <3> QED BY <3>4 DEF Life!Next
  <2>4. CASE fiber[t].outcome # "scored"
    <3>1. fiber[t].outcome \in Failures BY <2>1, <2>4 DEF Terminal
    <3>2. score' = score BY <2>1, <2>2, <2>4
    <3>3. Life!Fail(t, fiber[t].outcome) BY <1>2, <2>1, <3>2 DEF Life!Fail
    <3>4. fiber[t].outcome \in Life!Failures BY <3>1 DEF Failures, Life!Failures
    <3> QED BY <3>3, <3>4 DEF Life!Next
  <2> QED BY <2>3, <2>4
<1> QED BY <1>1, <1>2

\* Closing the job finds its trials recorded, and a leader of the best total.
LEMMA LifeClose ==
  ASSUME TypeOK, StoreInv, CloseJob
  PROVE  Life!Close
<1>1. refs = score /\ leader = NoTrial /\ job = "running" /\ row' = row /\ score' = score
  BY DEF CloseJob, StoreInv, ScoresFit, JobFits
<1>2. \A t \in Trials : row[t] \in Terminal
  BY DEF CloseJob, StoreInv, RowsFit, RunSteps, TypeOK
<1>3. Referred = Life!Scored
  BY <1>1 DEF Referred, Life!Scored, StoreInv, ScoresFit
<1>4. CASE Referred = {} /\ job' = "failed" /\ leader' = leader
  BY <1>1, <1>2, <1>3, <1>4 DEF Life!Close, Life!Terminal, Terminal, Life!Failures, Failures
<1>5. ASSUME NEW best \in Trials, IsLeader(best), job' = "completed", leader' = best
      PROVE  Life!Close
  <2>1. best \in Life!Scored BY <1>3, <1>5 DEF IsLeader
  <2>2. \A t \in Referred : score[t] \in [total : Int, checks : Int] /\ score[t] # NoScore
    BY <1>1, ScoresAreNumbers DEF Referred, TypeOK
  <2>3. ASSUME NEW t \in Referred PROVE score[t].total <= score[best].total
    <3>1. CASE t = best BY <2>2, <3>1
    <3>2. CASE t # best
      <4>1. Beats(best, t) BY <1>5, <3>2 DEF IsLeader
      <4> QED BY <1>1, <1>5, <2>2, <4>1 DEF Beats, IsLeader
    <3> QED BY <3>1, <3>2
  <2>4. \A t \in Life!Scored :
          (IF score[t] = NoScore THEN NoScore ELSE score[t].total)
            <= (IF score[best] = NoScore THEN NoScore ELSE score[best].total)
    BY <1>3, <2>1, <2>2, <2>3
  <2>5. Life!Scored \subseteq Trials BY DEF Life!Scored
  <2>6. \A t \in Trials : row[t] \in Life!Terminal
    BY <1>2 DEF Life!Terminal, Terminal, Life!Failures, Failures
  <2>7. UNCHANGED [t \in Trials |-> IF score[t] = NoScore THEN NoScore ELSE score[t].total]
    BY <1>1
  <2> QED BY <1>1, <1>5, <2>1, <2>4, <2>5, <2>6, <2>7 DEF Life!Close
<1> QED BY <1>4, <1>5 DEF CloseJob

LEMMA LifeStep == TypeOK /\ StoreInv /\ [Next]_vars => [Life!Next]_Life!vars
<1> SUFFICES ASSUME TypeOK, StoreInv, [Next]_vars PROVE [Life!Next]_Life!vars OBVIOUS
<1> USE DEF store
<1>1. CASE CreateJob
  <2>1. Life!Open BY <1>1 DEF CreateJob, Life!Open, StoreInv, JobFits
  <2> QED BY <2>1 DEF Life!Next
<1>2. CASE CreateTrials
  <2>1. Life!Enter
    BY <1>2 DEF CreateTrials, Life!Enter, StoreInv, JobFits, RowsFit, RunSteps
  <2> QED BY <2>1 DEF Life!Next
<1>3. CASE CloseJob BY <1>3, LifeClose DEF Life!Next
<1>4. CASE Start \/ Collect \/ RunFails \/ Stop \/ Cancel \/ Crash
           \/ \E x \in Sessions : HostStops(x)
  BY <1>4, LifeStutters DEF Start, Collect, RunFails, Stop, Cancel, Crash, HostStops
<1>5. ASSUME NEW t \in Trials, Fiber(t) PROVE [Life!Next]_Life!vars
  <2>1. CASE Record(t) BY <2>1, LifeRecord
  <2>2. CASE ~Record(t)
    BY <1>5, <2>2, LifeStutters DEF Fiber, Begin, MakeDirectory, NoDirectory, NoJudge, Create,
          CreateFails, GenerateFails, TimeOut, AfterInterrupt, Answer, Verdict, RecordFails, End,
          Interrupted
  <2> QED BY <2>1, <2>2
<1>6. CASE UNCHANGED vars BY <1>6, LifeStutters DEF vars
<1> QED BY <1>1, <1>2, <1>3, <1>4, <1>5, <1>6 DEF Next, Run

\* The store implements TrialLife for any trials, scores and concurrency: what a
\* reader sees of a job goes through its life, whatever fails, is interrupted or
\* crashes, and a job that ended has recorded trials and a leader of the best
\* total.
THEOREM StoreTellsTheLife == Spec => LifeSpec
<1> QED BY LifeInit, StoreCorrect, LifeStep, PTL DEF Spec, LifeSpec, Life!Spec
=============================================================================
