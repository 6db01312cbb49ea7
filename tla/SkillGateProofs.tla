--------------------------- MODULE SkillGateProofs ---------------------------
(* Proofs about SkillGate: what is credited, what is forgotten, and what a  *)
(* write that is let through can rely on, for every set of skills and calls. *)
EXTENDS SkillGate, FiniteSetTheorems, TLAPS

Record == [pc : Steps, skill : Skills \cup {NoSkill},
           carried : SUBSET Skills, names : SUBSET Skills]

\* A running read is of a skill.
ReadsAreOfSkills == \A r \in Readers : fiber[r].pc = "reading" => pending[r] \in Skills

TInv == TypeOK /\ ReadsAreOfSkills

LEMMA AtType ==
  ASSUME NEW pc \in Steps, NEW skill \in Skills \cup {NoSkill},
         NEW carried \in SUBSET Skills, NEW names \in SUBSET Skills
  PROVE  At(pc, skill, carried, names) \in Record
BY DEF At, Record

LEMMA IdleType == Idle \in Record
BY AtType DEF Idle, Steps

LEMMA FiberType == TypeOK => fiber \in [Fibers -> Record]
BY DEF TypeOK, Record

LEMMA NamesType == TypeOK => Names \in SUBSET Skills
BY DEF TypeOK, Names

LEMMA TypesInit == Init => TInv
<1> SUFFICES ASSUME Init PROVE TInv OBVIOUS
<1>1. fiber \in [Fibers -> Record] BY IdleType DEF Init
<1>2. TypeOK BY <1>1 DEF Init, TypeOK, Record
<1>3. ReadsAreOfSkills BY DEF Init, ReadsAreOfSkills, Idle, At, Fibers
<1> QED BY <1>2, <1>3 DEF TInv

\* A step that gives one fiber a well typed record that is not a running read
\* keeps the types, when it types the rest.
LEMMA SetKeepsTypes ==
  ASSUME TInv, NEW f \in Fibers, NEW rec \in Record, Set(f, rec), rec.pc # "reading",
         memory' \subseteq Skills, hydrated' \in BOOLEAN, stored' \subseteq Skills,
         pending' = pending,
         read' \subseteq Skills, context' \subseteq Skills, live' \subseteq Skills,
         raced' \in BOOLEAN, leftover' \subseteq Skills
  PROVE  TInv'
<1>1. fiber' \in [Fibers -> Record] BY FiberType DEF Set, TInv
<1>2. TypeOK' BY <1>1 DEF TInv, TypeOK, Record
<1>3. ASSUME NEW r \in Readers, fiber'[r].pc = "reading" PROVE pending'[r] \in Skills
  <2>1. fiber \in [Fibers -> Record] BY FiberType DEF TInv
  <2>2. r \in Fibers BY DEF Fibers
  <2>3. r # f BY <1>3, <2>1, <2>2 DEF Set
  <2>4. fiber'[r] = fiber[r] BY <2>1, <2>2, <2>3 DEF Set
  <2> QED BY <1>3, <2>4 DEF TInv, ReadsAreOfSkills
<1> QED BY <1>2, <1>3 DEF TInv, ReadsAreOfSkills

\* The same for a step that takes or sets the pending entry of the read call.
LEMMA ReadKeepsTypes ==
  ASSUME TInv, NEW r \in Readers, NEW rec \in Record, Set(r, rec),
         NEW entry \in Skills \cup {NoSkill},
         pending' = [pending EXCEPT ![r] = entry],
         rec.pc = "reading" => entry \in Skills,
         UNCHANGED <<ledger, context, live, raced, leftover>>, read' \subseteq Skills
  PROVE  TInv'
<1>0. r \in Fibers BY DEF Fibers
<1>1. fiber \in [Fibers -> Record] BY FiberType DEF TInv
<1>2. fiber' \in [Fibers -> Record] BY <1>0, <1>1 DEF Set
<1>3. pending' \in [Readers -> Skills \cup {NoSkill}] BY DEF TInv, TypeOK
<1>4. TypeOK' BY <1>2, <1>3 DEF TInv, TypeOK, Record, ledger
<1>5. ASSUME NEW q \in Readers, fiber'[q].pc = "reading" PROVE pending'[q] \in Skills
  <2>0. q \in Fibers BY DEF Fibers
  <2>1. CASE q = r
    <3>1. fiber'[q] = rec BY <2>1, <1>0, <1>1 DEF Set
    <3> QED BY <3>1, <2>1, <1>5 DEF TInv, TypeOK
  <2>2. CASE q # r
    <3>1. fiber'[q] = fiber[q] BY <2>2, <2>0, <1>0, <1>1 DEF Set
    <3> QED BY <3>1, <2>2, <1>5 DEF TInv, TypeOK, ReadsAreOfSkills
  <2> QED BY <2>1, <2>2
<1> QED BY <1>4, <1>5 DEF TInv, ReadsAreOfSkills

LEMMA LedgerTypes ==
  ASSUME TInv, NEW f \in Fibers, Hydrate(f) \/ Mark(f) \/ Persist(f)
  PROVE  TInv'
<1>1. fiber[f] \in Record BY FiberType DEF TInv
<1>2. CASE Hydrate(f)
  <2>0. PICK found \in {stored, {}} : Set(f, At("seed", fiber[f].skill, found, fiber[f].names))
    BY <1>2 DEF Hydrate
  <2> DEFINE rec == At("seed", fiber[f].skill, found, fiber[f].names)
  <2>1. rec \in Record /\ rec.pc # "reading" BY <1>1 DEF At, Record, Steps, TInv, TypeOK
  <2>2. Set(f, rec) BY <2>0
  <2> QED BY <1>2, <2>1, <2>2, SetKeepsTypes DEF Hydrate, ledger, TInv, TypeOK
<1>3. CASE Mark(f)
  <2>1. fiber[f].skill \in Skills BY <1>1, <1>3 DEF Mark, Record
  <2>2. memory' \subseteq Skills BY <1>1, <1>3, <2>1 DEF Mark, Seeded, Record, TInv, TypeOK
  <2> DEFINE rec == At("persist", fiber[f].skill, memory', {})
  <2>3. rec \in Record /\ rec.pc # "reading" BY <1>1, <2>1, <2>2 DEF At, Record, Steps
  <2>4. Set(f, rec) BY <1>3 DEF Mark
  <2> HIDE DEF rec
  <2> QED BY <1>3, <2>1, <2>2, <2>3, <2>4, SetKeepsTypes DEF Mark, TInv, TypeOK
<1>4. CASE Persist(f)
  <2>1. Idle.pc # "reading" BY DEF Idle, At
  <2> QED BY <1>1, <1>4, <2>1, IdleType, SetKeepsTypes DEF Persist, Record, history, TInv, TypeOK
<1> QED BY <1>2, <1>3, <1>4

LEMMA ReaderTypes ==
  ASSUME TInv, NEW r \in Readers, Reader(r)
  PROVE  TInv'
<1>0. r \in Fibers /\ fiber[r] \in Record BY FiberType DEF TInv, Fibers
<1>1. ASSUME NEW skill \in Skills, BeforeRead(r, skill) PROVE TInv'
  <2> DEFINE rec == At("reading", NoSkill, {}, {})
  <2>1. rec \in Record BY AtType DEF Steps
  <2>2. Set(r, rec) BY <1>1 DEF BeforeRead
  <2> HIDE DEF rec
  <2> QED BY <1>1, <2>1, <2>2, ReadKeepsTypes DEF BeforeRead, history, TInv, TypeOK
<1>2. CASE FailedRead(r)
  <2>1. Idle.pc # "reading" BY DEF Idle, At
  <2> QED BY <1>2, <2>1, IdleType, ReadKeepsTypes DEF FailedRead, history, TInv, TypeOK
<1>3. CASE CompletedRead(r)
  <2>1. pending[r] \in Skills BY <1>3 DEF CompletedRead, TInv, ReadsAreOfSkills
  <2> DEFINE rec == At("hydrate", pending[r], {}, {})
  <2>2. rec \in Record BY <2>1, AtType DEF Steps
  <2>3. rec.pc # "reading" BY DEF At
  <2>4. Set(r, rec) BY <1>3 DEF CompletedRead, StartMark
  <2>5. read' \subseteq Skills BY <1>3, <2>1 DEF CompletedRead, StartMark, TInv, TypeOK
  <2> HIDE DEF rec
  <2> QED BY <1>3, <2>2, <2>3, <2>4, <2>5, ReadKeepsTypes DEF CompletedRead
<1>4. CASE AfterOptedOut(r)
  <2>1. Idle.pc # "reading" BY DEF Idle, At
  <2> QED BY <1>0, <1>4, <2>1, IdleType, SetKeepsTypes
          DEF AfterOptedOut, ledger, history, TInv, TypeOK
<1> QED BY <1>1, <1>2, <1>3, <1>4 DEF Reader

LEMMA WriterTypes ==
  ASSUME TInv, NEW w \in Writers, StartGate(w) \/ Decide(w)
  PROVE  TInv'
<1>0. w \in Fibers /\ fiber[w] \in Record BY FiberType DEF TInv, Fibers
<1>1. CASE StartGate(w)
  <2> DEFINE rec == At("hydrate", NoSkill, {}, Names)
  <2>1. rec \in Record BY AtType, NamesType DEF Steps, TInv
  <2>2. rec.pc # "reading" BY DEF At
  <2>3. Set(w, rec) BY <1>1 DEF StartGate
  <2> HIDE DEF rec
  <2> QED BY <1>0, <1>1, <2>1, <2>2, <2>3, SetKeepsTypes
          DEF StartGate, ledger, history, TInv, TypeOK
<1>2. CASE Decide(w)
  <2>1. Idle.pc # "reading" BY DEF Idle, At
  <2>2. memory' \subseteq Skills BY <1>0, <1>2 DEF Decide, Seeded, Record, TInv, TypeOK
  <2> QED BY <1>0, <1>2, <2>1, <2>2, IdleType, SetKeepsTypes
          DEF Decide, history, TInv, TypeOK
<1> QED BY <1>1, <1>2

LEMMA ConsumerTypes ==
  ASSUME TInv, (\E skill \in Skills : Activated(skill)) \/ Compacted \/ Remove
  PROVE  TInv'
<1>0. Consumer \in Fibers BY DEF Fibers
<1>1. Idle.pc # "reading" BY DEF Idle, At
<1>2. ASSUME NEW skill \in Skills, Activated(skill) PROVE TInv'
  <2> DEFINE rec == At("hydrate", skill, {}, {})
  <2>1. rec \in Record BY AtType DEF Steps
  <2>2. rec.pc # "reading" BY DEF At
  <2>3. Set(Consumer, rec) BY <1>2 DEF Activated, StartMark
  <2>4. read' \subseteq Skills BY <1>2 DEF Activated, StartMark, TInv, TypeOK
  <2> HIDE DEF rec
  <2> QED BY <1>0, <1>2, <2>1, <2>2, <2>3, <2>4, SetKeepsTypes
          DEF Activated, ledger, TInv, TypeOK
<1>3. CASE Compacted
  <2> DEFINE rec == At("remove", NoSkill, {}, {})
  <2>1. rec \in Record BY AtType DEF Steps
  <2>2. rec.pc # "reading" BY DEF At
  <2>3. Set(Consumer, rec) BY <1>3 DEF Compacted
  <2>4. raced' \in BOOLEAN BY <1>3 DEF Compacted
  <2> HIDE DEF rec
  <2> QED BY <1>0, <1>3, <2>1, <2>2, <2>3, <2>4, SetKeepsTypes DEF Compacted, TInv, TypeOK
<1>4. CASE Remove
  BY <1>0, <1>1, <1>4, IdleType, SetKeepsTypes DEF Remove, history, TInv, TypeOK
<1> QED BY <1>2, <1>3, <1>4

LEMMA RestartTypes == TInv /\ Restart => TInv'
<1> SUFFICES ASSUME TInv, Restart PROVE TInv' OBVIOUS
<1>1. fiber' \in [Fibers -> Record] BY IdleType DEF Restart
<1>2. TypeOK' BY <1>1 DEF Restart, TInv, TypeOK, Record
<1>3. ReadsAreOfSkills' BY DEF Restart, ReadsAreOfSkills, Idle, At, Fibers
<1> QED BY <1>2, <1>3 DEF TInv

LEMMA TypesAreInductive == TInv /\ [Next]_vars => TInv'
<1> SUFFICES ASSUME TInv, [Next]_vars PROVE TInv' OBVIOUS
<1>1. CASE \E r \in Readers : Reader(r) BY <1>1, ReaderTypes
<1>2. CASE \E w \in Writers : Writer(w)
  BY <1>2, WriterTypes DEF Writer, LetThrough, Block
<1>3. CASE (\E skill \in Skills : Activated(skill)) \/ Compacted \/ Remove
  BY <1>3, ConsumerTypes
<1>4. CASE \E f \in Fibers : Hydrate(f) \/ Mark(f) \/ Persist(f) BY <1>4, LedgerTypes
<1>5. CASE Restart BY <1>5, RestartTypes
<1>6. CASE UNCHANGED vars
  BY <1>6 DEF vars, ledger, history, TInv, TypeOK, ReadsAreOfSkills
<1> QED BY <1>1, <1>2, <1>3, <1>4, <1>5, <1>6 DEF Next

LEMMA TypesAlways == Spec => []TInv
<1> QED BY TypesInit, TypesAreInductive, PTL DEF Spec

\* The type invariant of the skill gate, for any skills, calls and minimum.
THEOREM TypeCorrect == Spec => []TypeOK
<1>1. TInv => TypeOK BY DEF TInv
<1> QED BY <1>1, TypesAlways, PTL
-----------------------------------------------------------------------------
(* What is credited *)

\* The skills a fiber marks or carries were read as well.
Credited ==
  /\ CreditsAreRead
  /\ \A f \in Fibers : /\ fiber[f].carried \subseteq read
                       /\ fiber[f].skill \in read \cup {NoSkill}

\* A step of one fiber keeps Credited when what it leaves in the ledger, in
\* storage and in its own record was read.
LEMMA SetKeepsCredited ==
  ASSUME TInv, Credited, NEW f \in Fibers, NEW rec, Set(f, rec),
         read \subseteq read', memory' \cup stored' \subseteq read',
         rec.carried \subseteq read', rec.skill \in read' \cup {NoSkill}
  PROVE  Credited'
<1>1. fiber \in [Fibers -> Record] BY FiberType DEF TInv
<1>2. ASSUME NEW g \in Fibers
      PROVE  fiber'[g].carried \subseteq read' /\ fiber'[g].skill \in read' \cup {NoSkill}
  <2>1. CASE g = f
    <3>1. fiber'[g] = rec BY <1>1, <2>1 DEF Set
    <3> QED BY <3>1
  <2>2. CASE g # f
    <3>1. fiber'[g] = fiber[g] BY <1>1, <2>2 DEF Set
    <3> QED BY <3>1 DEF Credited
  <2> QED BY <2>1, <2>2
<1> QED BY <1>2 DEF Credited, CreditsAreRead

LEMMA IdleFields == Idle.carried = {} /\ Idle.skill = NoSkill /\ Idle.pc = "idle"
BY DEF Idle, At

LEMMA CreditedInit == Init => Credited
BY IdleFields DEF Init, Credited, CreditsAreRead

LEMMA LedgerCredited ==
  ASSUME TInv, Credited, NEW f \in Fibers, Hydrate(f) \/ Mark(f) \/ Persist(f)
  PROVE  Credited'
<1>0. fiber[f].carried \subseteq read /\ fiber[f].skill \in read \cup {NoSkill}
  BY DEF Credited
<1>1. CASE Hydrate(f)
  <2>0. PICK found \in {stored, {}} : Set(f, At("seed", fiber[f].skill, found, fiber[f].names))
    BY <1>1 DEF Hydrate
  <2> DEFINE rec == At("seed", fiber[f].skill, found, fiber[f].names)
  <2>1. rec.carried \subseteq stored /\ rec.skill = fiber[f].skill BY DEF At
  <2>2. Set(f, rec) BY <2>0
  <2> HIDE DEF rec
  <2> QED BY <1>0, <1>1, <2>1, <2>2, SetKeepsCredited
          DEF Hydrate, ledger, Credited, CreditsAreRead
<1>2. CASE Mark(f)
  <2>1. fiber[f].skill \in read BY <1>0, <1>2 DEF Mark
  <2>2. memory' \subseteq read BY <1>0, <1>2, <2>1 DEF Mark, Seeded, Credited, CreditsAreRead
  <2> DEFINE rec == At("persist", fiber[f].skill, memory', {})
  <2>3. rec.carried = memory' /\ rec.skill = fiber[f].skill BY DEF At
  <2>4. Set(f, rec) BY <1>2 DEF Mark
  <2> HIDE DEF rec
  <2> QED BY <1>2, <2>1, <2>2, <2>3, <2>4, SetKeepsCredited DEF Mark, Credited, CreditsAreRead
<1>3. CASE Persist(f)
  BY <1>0, <1>3, IdleFields, SetKeepsCredited DEF Persist, history, Credited, CreditsAreRead
<1> QED BY <1>1, <1>2, <1>3

LEMMA ReaderCredited ==
  ASSUME TInv, Credited, NEW r \in Readers, Reader(r)
  PROVE  Credited'
<1>0. r \in Fibers BY DEF Fibers
<1>1. ASSUME NEW skill \in Skills, BeforeRead(r, skill) PROVE Credited'
  <2> DEFINE rec == At("reading", NoSkill, {}, {})
  <2>1. rec.carried = {} /\ rec.skill = NoSkill BY DEF At
  <2>2. Set(r, rec) BY <1>1 DEF BeforeRead
  <2> HIDE DEF rec
  <2> QED BY <1>0, <1>1, <2>1, <2>2, SetKeepsCredited
          DEF BeforeRead, ledger, history, Credited, CreditsAreRead
<1>2. CASE FailedRead(r) \/ AfterOptedOut(r)
  BY <1>0, <1>2, IdleFields, SetKeepsCredited
  DEF FailedRead, AfterOptedOut, ledger, history, Credited, CreditsAreRead
<1>3. CASE CompletedRead(r)
  <2> DEFINE rec == At("hydrate", pending[r], {}, {})
  <2>1. rec.carried = {} /\ rec.skill = pending[r] BY DEF At
  <2>2. Set(r, rec) /\ read' = read \cup {pending[r]} BY <1>3 DEF CompletedRead, StartMark
  <2> HIDE DEF rec
  <2> QED BY <1>0, <1>3, <2>1, <2>2, SetKeepsCredited
          DEF CompletedRead, ledger, Credited, CreditsAreRead
<1> QED BY <1>1, <1>2, <1>3 DEF Reader

LEMMA WriterCredited ==
  ASSUME TInv, Credited, NEW w \in Writers, StartGate(w) \/ Decide(w)
  PROVE  Credited'
<1>0. w \in Fibers /\ fiber[w].carried \subseteq read BY DEF Fibers, Credited
<1>1. CASE StartGate(w)
  <2> DEFINE rec == At("hydrate", NoSkill, {}, Names)
  <2>1. rec.carried = {} /\ rec.skill = NoSkill BY DEF At
  <2>2. Set(w, rec) BY <1>1 DEF StartGate
  <2> HIDE DEF rec
  <2> QED BY <1>0, <1>1, <2>1, <2>2, SetKeepsCredited
          DEF StartGate, ledger, history, Credited, CreditsAreRead
<1>2. CASE Decide(w)
  BY <1>0, <1>2, IdleFields, SetKeepsCredited
  DEF Decide, Seeded, history, Credited, CreditsAreRead
<1> QED BY <1>1, <1>2

LEMMA ConsumerCredited ==
  ASSUME TInv, Credited, (\E skill \in Skills : Activated(skill)) \/ Compacted \/ Remove
  PROVE  Credited'
<1>0. Consumer \in Fibers BY DEF Fibers
<1>1. ASSUME NEW skill \in Skills, Activated(skill) PROVE Credited'
  <2> DEFINE rec == At("hydrate", skill, {}, {})
  <2>1. rec.carried = {} /\ rec.skill = skill BY DEF At
  <2>2. Set(Consumer, rec) /\ read' = read \cup {skill} BY <1>1 DEF Activated, StartMark
  <2> HIDE DEF rec
  <2> QED BY <1>0, <1>1, <2>1, <2>2, SetKeepsCredited
          DEF Activated, ledger, Credited, CreditsAreRead
<1>2. CASE Compacted
  <2> DEFINE rec == At("remove", NoSkill, {}, {})
  <2>1. rec.carried = {} /\ rec.skill = NoSkill BY DEF At
  <2>2. Set(Consumer, rec) BY <1>2 DEF Compacted
  <2> HIDE DEF rec
  <2> QED BY <1>0, <1>2, <2>1, <2>2, SetKeepsCredited DEF Compacted, Credited, CreditsAreRead
<1>3. CASE Remove
  BY <1>0, <1>3, IdleFields, SetKeepsCredited DEF Remove, history, Credited, CreditsAreRead
<1> QED BY <1>1, <1>2, <1>3

LEMMA CreditedIsInductive == TInv /\ Credited /\ [Next]_vars => Credited'
<1> SUFFICES ASSUME TInv, Credited, [Next]_vars PROVE Credited' OBVIOUS
<1>1. CASE \E r \in Readers : Reader(r) BY <1>1, ReaderCredited
<1>2. CASE \E w \in Writers : Writer(w)
  BY <1>2, WriterCredited DEF Writer, LetThrough, Block
<1>3. CASE (\E skill \in Skills : Activated(skill)) \/ Compacted \/ Remove
  BY <1>3, ConsumerCredited
<1>4. CASE \E f \in Fibers : Hydrate(f) \/ Mark(f) \/ Persist(f) BY <1>4, LedgerCredited
<1>5. CASE Restart
  BY <1>5, IdleFields DEF Restart, Credited, CreditsAreRead
<1>6. CASE UNCHANGED vars
  BY <1>6 DEF vars, ledger, history, Credited, CreditsAreRead
<1> QED BY <1>1, <1>2, <1>3, <1>4, <1>5, <1>6 DEF Next

\* Only skills that were read to the end or activated are ever credited, in
\* memory or in storage.
THEOREM OnlyReadSkillsAreCredited == Spec => []CreditsAreRead
<1>1. Credited => CreditsAreRead BY DEF Credited
<1> QED BY <1>1, CreditedInit, CreditedIsInductive, TypesAlways, PTL DEF Spec
-----------------------------------------------------------------------------
(* What is kept *)

\* No interleaving of hydrations and marks loses a skill that was marked.
THEOREM MarksAreKept == Spec => []NothingForgotten
<1>1. Init => NothingForgotten BY DEF Init, NothingForgotten
<1>2. NothingForgotten /\ [Next]_vars => NothingForgotten'
  <2> SUFFICES ASSUME NothingForgotten, [Next]_vars PROVE NothingForgotten' OBVIOUS
  <2>1. CASE \E r \in Readers : Reader(r)
    BY <2>1 DEF Reader, BeforeRead, FailedRead, CompletedRead, AfterOptedOut,
                ledger, history, NothingForgotten
  <2>2. CASE \E w \in Writers : Writer(w)
    BY <2>2 DEF Writer, StartGate, LetThrough, Block, Decide, Seeded,
                ledger, history, NothingForgotten
  <2>3. CASE \E f \in Fibers : Mark(f)
    BY <2>3 DEF Mark, Seeded, NothingForgotten
  <2>4. CASE \E f \in Fibers : Hydrate(f) \/ Persist(f)
    BY <2>4 DEF Hydrate, Persist, ledger, history, NothingForgotten
  <2>5. CASE (\E skill \in Skills : Activated(skill)) \/ Remove
    BY <2>5 DEF Activated, Remove, ledger, history, NothingForgotten
  <2>6. CASE Compacted \/ Restart BY <2>6 DEF Compacted, Restart, NothingForgotten
  <2>7. CASE UNCHANGED vars BY <2>7 DEF vars, ledger, history, NothingForgotten
  <2> QED BY <2>1, <2>2, <2>3, <2>4, <2>5, <2>6, <2>7 DEF Next
<1> QED BY <1>1, <1>2, PTL DEF Spec
-----------------------------------------------------------------------------
(* What a compaction forgets *)

\* What may be found after a compaction.
Findable == context \cup leftover

\* Only fibers that carry a set have one, and unless the last compaction was
\* raced, the ledger, what the fibers carry, and storage once the compaction is
\* over hold only skills marked since or left over.
Fresh ==
  /\ \A f \in Fibers : ~Carries(f) => fiber[f].carried = {}
  /\ ~raced => /\ memory \subseteq Findable
               /\ fiber[Consumer].pc # "remove" => stored \subseteq Findable
               /\ \A f \in Fibers : fiber[f].carried \subseteq Findable

\* A step of one fiber that does not shrink the context keeps Fresh when what
\* it leaves is fresh.
LEMMA SetKeepsFresh ==
  ASSUME TInv, Fresh, NEW f \in Fibers, NEW rec, Set(f, rec),
         rec.pc \notin {"seed", "persist"} => rec.carried = {},
         Findable \subseteq Findable',
         ~raced' => /\ ~raced
                    /\ memory' \subseteq Findable'
                    /\ rec.carried \subseteq Findable'
                    /\ fiber'[Consumer].pc # "remove" => stored' \subseteq Findable'
  PROVE  Fresh'
<1>1. fiber \in [Fibers -> Record] BY FiberType DEF TInv
<1>2. fiber'[f] = rec BY <1>1 DEF Set
<1>3. \A g \in Fibers : g # f => fiber'[g] = fiber[g] BY <1>1 DEF Set
<1>4. ASSUME NEW g \in Fibers, ~Carries(g)' PROVE fiber'[g].carried = {}
  <2>1. CASE g = f BY <1>2, <1>4, <2>1 DEF Carries
  <2>2. CASE g # f
    <3>1. fiber'[g] = fiber[g] BY <1>3, <2>2
    <3> QED BY <1>4, <3>1 DEF Carries, Fresh
  <2> QED BY <2>1, <2>2
<1>5. ASSUME ~raced', NEW g \in Fibers PROVE fiber'[g].carried \subseteq Findable'
  <2>1. CASE g = f BY <1>2, <1>5, <2>1
  <2>2. CASE g # f
    <3>1. fiber'[g] = fiber[g] BY <1>3, <2>2
    <3> QED BY <1>5, <3>1 DEF Fresh
  <2> QED BY <2>1, <2>2
<1> QED BY <1>4, <1>5 DEF Fresh

LEMMA FreshInit == Init => Fresh
BY IdleFields DEF Init, Fresh, Carries

\* A step of another fiber leaves the consumer where it is.
LEMMA ConsumerStays ==
  ASSUME TInv, NEW f \in Fibers, f # Consumer, NEW rec, Set(f, rec)
  PROVE  fiber'[Consumer] = fiber[Consumer]
BY FiberType DEF Set, Fibers, TInv

LEMMA LedgerFresh ==
  ASSUME TInv, Fresh, NEW f \in Fibers, Hydrate(f) \/ Mark(f) \/ Persist(f)
  PROVE  Fresh'
<1>0. /\ fiber \in [Fibers -> Record]
      /\ Consumer \in Fibers
  BY FiberType DEF TInv, Fibers
<1>1. CASE Hydrate(f)
  <2>0. PICK found \in {stored, {}} : Set(f, At("seed", fiber[f].skill, found, fiber[f].names))
    BY <1>1 DEF Hydrate
  <2> DEFINE rec == At("seed", fiber[f].skill, found, fiber[f].names)
  <2>1. rec.carried \subseteq stored /\ rec.pc = "seed" BY DEF At
  <2>2. Set(f, rec) BY <2>0
  <2> HIDE DEF rec
  <2>3. ~raced' => ~raced /\ fiber[Consumer].pc # "remove" BY <1>1 DEF Hydrate
  <2>4. UNCHANGED <<memory, stored, Findable>> BY <1>1 DEF Hydrate, ledger, Findable
  <2>5. ~raced' => stored \subseteq Findable /\ memory \subseteq Findable BY <2>3 DEF Fresh
  <2> QED BY <2>1, <2>2, <2>3, <2>4, <2>5, SetKeepsFresh
<1>2. CASE Mark(f)
  <2> DEFINE rec == At("persist", fiber[f].skill, memory', {})
  <2>1. rec.carried = memory' /\ rec.pc = "persist" BY DEF At
  <2>2. Set(f, rec) BY <1>2 DEF Mark
  <2> HIDE DEF rec
  <2>3. /\ raced' = raced /\ stored' = stored
        /\ Findable' = Findable \cup {fiber[f].skill}
    BY <1>2 DEF Mark, Findable
  <2>4. ~raced => memory' \subseteq Findable' BY <1>2, <2>3 DEF Mark, Seeded, Fresh
  <2>5. ASSUME ~raced, fiber'[Consumer].pc # "remove" PROVE stored' \subseteq Findable'
    <3>1. CASE f = Consumer
      <4>1. fiber[Consumer].pc # "remove" BY <1>2, <3>1 DEF Mark, Ready
      <4> QED BY <2>3, <2>5, <4>1 DEF Fresh
    <3>2. CASE f # Consumer
      <4>1. fiber[Consumer].pc # "remove" BY <2>2, <2>5, <3>2, ConsumerStays
      <4> QED BY <2>3, <2>5, <4>1 DEF Fresh
    <3> QED BY <3>1, <3>2
  <2> QED BY <2>1, <2>2, <2>3, <2>4, <2>5, SetKeepsFresh
<1>3. CASE Persist(f)
  <2>1. UNCHANGED <<memory, Findable, raced>> BY <1>3 DEF Persist, history, Findable
  <2>2. ~raced => memory \subseteq Findable BY DEF Fresh
  <2>3. stored' \in {fiber[f].carried, stored} /\ Set(f, Idle) BY <1>3 DEF Persist
  <2>4. fiber'[Consumer].pc # "remove" => fiber[Consumer].pc # "remove"
    <3>1. CASE f = Consumer BY <1>3, <3>1 DEF Persist
    <3>2. CASE f # Consumer BY <2>3, <3>2, ConsumerStays
    <3> QED BY <3>1, <3>2
  <2>5. ~raced /\ fiber'[Consumer].pc # "remove" => stored' \subseteq Findable
    BY <2>3, <2>4 DEF Fresh
  <2> QED BY <2>1, <2>2, <2>3, <2>5, IdleFields, SetKeepsFresh
<1> QED BY <1>1, <1>2, <1>3

\* A step of a reader or a writer leaves storage and the context alone, carries
\* nothing away and adds at most what it carried to the ledger.
LEMMA CallFresh ==
  ASSUME TInv, Fresh,
         \/ \E r \in Readers : Reader(r)
         \/ \E w \in Writers : StartGate(w) \/ Decide(w)
  PROVE  Fresh'
<1>1. ASSUME NEW f \in Fibers \ {Consumer}, NEW rec, Set(f, rec),
             rec.pc \notin {"seed", "persist"}, rec.carried = {},
             UNCHANGED <<stored, Findable, raced>>,
             memory' \subseteq memory \cup fiber[f].carried
      PROVE  Fresh'
  <2>1. fiber'[Consumer] = fiber[Consumer] BY <1>1, ConsumerStays
  <2>2. ~raced => memory' \subseteq Findable BY <1>1 DEF Fresh
  <2>3. ~raced /\ fiber'[Consumer].pc # "remove" => stored' \subseteq Findable'
    BY <1>1, <2>1 DEF Fresh
  <2> QED BY <1>1, <2>2, <2>3, SetKeepsFresh
<1>2. ASSUME NEW r \in Readers, Reader(r) PROVE Fresh'
  <2>0. r \in Fibers \ {Consumer} BY FibersDiffer DEF Fibers
  <2>1. UNCHANGED <<memory, stored, Findable, raced>>
    BY <1>2 DEF Findable, Reader, BeforeRead, FailedRead, CompletedRead, AfterOptedOut, ledger, history
  <2>2. \E rec : Set(r, rec) /\ rec.pc \notin {"seed", "persist"} /\ rec.carried = {}
    <3>1. CASE \E skill \in Skills : BeforeRead(r, skill) BY <3>1 DEF BeforeRead, At
    <3>2. CASE FailedRead(r) \/ AfterOptedOut(r)
      BY <3>2, IdleFields DEF FailedRead, AfterOptedOut
    <3>3. CASE CompletedRead(r) BY <3>3 DEF CompletedRead, StartMark, At
    <3> QED BY <1>2, <3>1, <3>2, <3>3 DEF Reader
  <2> QED BY <1>1, <2>0, <2>1, <2>2
<1>3. ASSUME NEW w \in Writers, StartGate(w) \/ Decide(w) PROVE Fresh'
  <2>0. w \in Fibers \ {Consumer} BY FibersDiffer DEF Fibers
  <2>1. UNCHANGED <<stored, Findable, raced>> /\ memory' \subseteq memory \cup fiber[w].carried
    BY <1>3 DEF Findable, StartGate, Decide, Seeded, ledger, history
  <2>2. \E rec : Set(w, rec) /\ rec.pc \notin {"seed", "persist"} /\ rec.carried = {}
    <3>1. CASE StartGate(w) BY <3>1 DEF StartGate, At
    <3>2. CASE Decide(w) BY <3>2, IdleFields DEF Decide
    <3> QED BY <1>3, <3>1, <3>2
  <2> QED BY <1>1, <2>0, <2>1, <2>2
<1> QED BY <1>2, <1>3

LEMMA ConsumerFresh ==
  ASSUME TInv, Fresh, (\E skill \in Skills : Activated(skill)) \/ Compacted \/ Remove
  PROVE  Fresh'
<1>0. /\ fiber \in [Fibers -> Record]
      /\ Consumer \in Fibers
  BY FiberType DEF TInv, Fibers
<1>1. ASSUME NEW skill \in Skills, Activated(skill) PROVE Fresh'
  <2> DEFINE rec == At("hydrate", skill, {}, {})
  <2>1. rec.carried = {} BY DEF At
  <2>2. Set(Consumer, rec) BY <1>1 DEF Activated, StartMark
  <2> HIDE DEF rec
  <2>3. UNCHANGED <<memory, stored, Findable, raced>> BY <1>1 DEF Activated, ledger, Findable
  <2>4. ~raced => memory \subseteq Findable /\ stored \subseteq Findable
    BY <1>1 DEF Activated, Fresh
  <2> QED BY <1>0, <2>1, <2>2, <2>3, <2>4, SetKeepsFresh
<1>2. CASE Compacted
  <2> DEFINE rec == At("remove", NoSkill, {}, {})
  <2>1. rec.carried = {} /\ rec.pc = "remove" BY DEF At
  <2>2. Set(Consumer, rec) BY <1>2 DEF Compacted
  <2> HIDE DEF rec
  <2>3. fiber'[Consumer] = rec BY <1>0, <2>2 DEF Set
  <2>4. \A f \in Fibers : f # Consumer => fiber'[f] = fiber[f] BY <1>0, <2>2 DEF Set
  <2>5. ASSUME NEW f \in Fibers, ~Carries(f)' PROVE fiber'[f].carried = {}
    <3>1. CASE f = Consumer BY <2>1, <2>3, <3>1
    <3>2. CASE f # Consumer
      <4>1. fiber'[f] = fiber[f] BY <2>4, <3>2
      <4> QED BY <2>5, <4>1 DEF Carries, Fresh
    <3> QED BY <3>1, <3>2
  <2>6. ASSUME ~raced', NEW f \in Fibers PROVE fiber'[f].carried = {}
    <3>1. CASE f = Consumer BY <2>1, <2>3, <3>1
    <3>2. CASE f # Consumer
      <4>1. fiber'[f] = fiber[f] BY <2>4, <3>2
      <4>2. ~Carries(f) BY <1>2, <2>6 DEF Compacted
      <4> QED BY <4>1, <4>2 DEF Fresh
    <3> QED BY <3>1, <3>2
  <2>7. memory' = {} BY <1>2 DEF Compacted
  <2> QED BY <2>1, <2>3, <2>5, <2>6, <2>7 DEF Fresh
<1>3. CASE Remove
  <2>1. UNCHANGED <<memory, raced>> /\ Set(Consumer, Idle) BY <1>3 DEF Remove
  <2>2. Findable \subseteq Findable' /\ stored' \subseteq Findable'
    <3>1. CASE stored' = {} /\ UNCHANGED leftover BY <1>3, <3>1 DEF Remove, Findable
    <3>2. CASE leftover' = leftover \cup stored /\ UNCHANGED stored
      BY <1>3, <3>2 DEF Remove, Findable
    <3> QED BY <1>3, <3>1, <3>2 DEF Remove
  <2>3. ~raced => memory \subseteq Findable' BY <2>2 DEF Fresh
  <2> QED BY <1>0, <2>1, <2>2, <2>3, IdleFields, SetKeepsFresh
<1> QED BY <1>1, <1>2, <1>3

LEMMA RestartFresh == Fresh /\ Restart => Fresh'
<1> SUFFICES ASSUME Fresh, Restart PROVE Fresh' OBVIOUS
<1>1. \A f \in Fibers : fiber'[f].carried = {} BY IdleFields DEF Restart
<1>2. ~raced' => stored \subseteq Findable BY DEF Restart, Fresh
<1> QED BY <1>1, <1>2 DEF Restart, Fresh, Findable

LEMMA FreshIsInductive == TInv /\ Fresh /\ [Next]_vars => Fresh'
<1> SUFFICES ASSUME TInv, Fresh, [Next]_vars PROVE Fresh' OBVIOUS
<1>1. CASE \E r \in Readers : Reader(r) BY <1>1, CallFresh
<1>2. CASE \E w \in Writers : Writer(w)
  BY <1>2, CallFresh DEF Writer, LetThrough, Block
<1>3. CASE (\E skill \in Skills : Activated(skill)) \/ Compacted \/ Remove
  BY <1>3, ConsumerFresh
<1>4. CASE \E f \in Fibers : Hydrate(f) \/ Mark(f) \/ Persist(f) BY <1>4, LedgerFresh
<1>5. CASE Restart BY <1>5, RestartFresh
<1>6. CASE UNCHANGED vars
  BY <1>6 DEF vars, ledger, history, Fresh, Carries, Findable
<1> QED BY <1>1, <1>2, <1>3, <1>4, <1>5, <1>6 DEF Next

LEMMA FreshAlways == Spec => []Fresh
<1> QED BY FreshInit, FreshIsInductive, TypesAlways, PTL DEF Spec

\* A compaction that nothing overlaps forgets every skill but those it fails to
\* remove from storage.
THEOREM CompactionsForget == Spec => []CompactionForgets
<1>1. Fresh => CompactionForgets BY DEF Fresh, CompactionForgets, Findable
<1> QED BY <1>1, FreshAlways, PTL

\* After such a compaction a write that is let through has Min skills of the
\* present context, left over or under way.
THEOREM OnlyEarnedWritesPass == Spec => WritesAreEarned
<1> DEFINE Known(w) == context \cup leftover \cup fiber[w].names
           Earned == \A w \in Writers : LetThrough(w) /\ ~raced => Cardinality(Known(w)) >= Min
<1>1. TInv /\ Fresh /\ [Next]_vars => [Earned]_vars
  <2> SUFFICES ASSUME TInv, Fresh, NEW w \in Writers, LetThrough(w), ~raced
               PROVE  Cardinality(Known(w)) >= Min
    OBVIOUS
  <2>1. w \in Fibers /\ fiber[w] \in Record BY FiberType DEF TInv, Fibers
  <2>2. Known(w) \subseteq Skills BY <2>1 DEF Record, TInv, TypeOK
  <2>3. Seeded(w) \cup fiber[w].names \subseteq Known(w) BY <2>1 DEF Seeded, Fresh, Findable
  <2> HIDE DEF Known
  <2>4. IsFiniteSet(Known(w)) BY <2>2, SkillsAreFinite, FS_Subset
  <2>5. /\ Cardinality(Seeded(w) \cup fiber[w].names) <= Cardinality(Known(w))
        /\ IsFiniteSet(Seeded(w) \cup fiber[w].names)
    BY <2>3, <2>4, FS_Subset
  <2>6. /\ Cardinality(Seeded(w) \cup fiber[w].names) \in Nat
        /\ Cardinality(Known(w)) \in Nat
    BY <2>4, <2>5, FS_CardinalityType
  <2>7. Cardinality(Seeded(w) \cup fiber[w].names) >= Min BY DEF LetThrough, CountDistinct
  <2> QED BY <2>5, <2>6, <2>7, MinIsNatural
<1> QED BY <1>1, FreshAlways, TypesAlways, PTL DEF Spec, WritesAreEarned
-----------------------------------------------------------------------------
(* What is pending *)

\* A read of an agent that did not opt out is pending only while it runs.
THEOREM OnlyRunningReadsPend == Spec => []PendingIsRunning
<1>1. Init => PendingIsRunning BY DEF Init, PendingIsRunning
<1>2. ASSUME TInv, PendingIsRunning, [Next]_vars PROVE PendingIsRunning'
  <2>0. fiber \in [Fibers -> Record] /\ Readers \subseteq Fibers
    BY <1>2, FiberType DEF TInv, Fibers
  <2>1. ASSUME NEW f \in Fibers, fiber[f].pc # "reading", NEW rec, Set(f, rec),
               pending' = pending
        PROVE  PendingIsRunning'
    BY <1>2, <2>0, <2>1 DEF Set, PendingIsRunning
  <2>2. ASSUME NEW r \in Readers, Reader(r) PROVE PendingIsRunning'
    <3>1. ASSUME NEW skill \in Skills, BeforeRead(r, skill) PROVE PendingIsRunning'
      BY <1>2, <2>0, <3>1 DEF BeforeRead, Set, At, PendingIsRunning, TInv, TypeOK
    <3>2. CASE FailedRead(r) \/ CompletedRead(r)
      <4>1. pending' = [pending EXCEPT ![r] = NoSkill] BY <3>2 DEF FailedRead, CompletedRead
      <4>2. \E rec : Set(r, rec) BY <3>2 DEF FailedRead, CompletedRead, StartMark
      <4> QED BY <1>2, <2>0, <4>1, <4>2 DEF Set, PendingIsRunning, TInv, TypeOK
    <3>3. CASE AfterOptedOut(r)
      BY <1>2, <2>0, <3>3 DEF AfterOptedOut, Set, PendingIsRunning
    <3> QED BY <2>2, <3>1, <3>2, <3>3 DEF Reader
  <2>3. ASSUME NEW w \in Writers, StartGate(w) \/ Decide(w) PROVE PendingIsRunning'
    <3>1. w \in Fibers /\ w \notin Readers BY FibersDiffer DEF Fibers
    <3>2. \E rec : Set(w, rec) BY <2>3 DEF StartGate, Decide
    <3>3. pending' = pending BY <2>3 DEF StartGate, Decide
    <3> QED BY <1>2, <2>0, <3>1, <3>2, <3>3 DEF Set, PendingIsRunning
  <2>4. ASSUME NEW f \in Fibers, Hydrate(f) \/ Mark(f) \/ Persist(f) PROVE PendingIsRunning'
    <3>1. fiber[f].pc # "reading" BY <2>4 DEF Hydrate, Mark, Ready, Persist
    <3>2. \E rec : Set(f, rec) BY <2>4 DEF Hydrate, Mark, Persist
    <3>3. pending' = pending BY <2>4 DEF Hydrate, Mark, Persist
    <3> QED BY <2>1, <3>1, <3>2, <3>3
  <2>5. CASE (\E skill \in Skills : Activated(skill)) \/ Compacted \/ Remove
    <3>1. Consumer \in Fibers /\ fiber[Consumer].pc # "reading"
      BY <2>5 DEF Activated, Compacted, Remove, Fibers
    <3>2. \E rec : Set(Consumer, rec) BY <2>5 DEF Activated, StartMark, Compacted, Remove
    <3>3. pending' = pending BY <2>5 DEF Activated, Compacted, Remove
    <3> QED BY <2>1, <3>1, <3>2, <3>3
  <2>6. CASE Restart BY <2>6 DEF Restart, PendingIsRunning
  <2>7. CASE UNCHANGED vars BY <1>2, <2>7 DEF vars, PendingIsRunning
  <2> QED BY <1>2, <2>2, <2>3, <2>4, <2>5, <2>6, <2>7
          DEF Next, Writer, LetThrough, Block
<1>3. TInv /\ PendingIsRunning /\ [Next]_vars => PendingIsRunning' BY <1>2
<1> QED BY <1>1, <1>3, TypesAlways, PTL DEF Spec
=============================================================================
