------------------------------ MODULE SkillGate ------------------------------
(***************************************************************************)
(* The skills of one session: the ledger of loaded skills, the reads in    *)
(* progress and the gate that lets a strict agent write (src/Ledger.ts and *)
(* the hooks of src/index.ts).                                             *)
(*                                                                         *)
(* The ledger lives in memory, is filled from the host's storage the first *)
(* time it is used (hydrateOnce) and is written back after each skill.     *)
(* Its users are fibers: the hooks of read calls (Readers), the hooks of   *)
(* write calls (Writers) and the consumer of the event stream (Consumer).  *)
(* They interleave at every access to storage.                             *)
(*                                                                         *)
(* Abstractions: one session of one project, whose location resolves, with *)
(* the mode on; the skills are the effect-* ones, as all others are        *)
(* filtered out; a write is one whose projection holds Effect code, as any *)
(* other is decided without the ledger.  Every access to the host's        *)
(* storage may fail, and its failure is ignored: nothing is read, stored   *)
(* or removed then, and the fiber goes on.                                 *)
(***************************************************************************)
EXTENDS Naturals, FiniteSets

CONSTANTS
  Skills,     \* names of effect-* skills
  Readers,    \* calls of the read tool
  OptedOut,   \* those made by an agent that opted out
  Writers,    \* calls of a write tool by a strict agent
  Consumer,   \* the consumer of the event stream
  NoSkill,    \* no skill
  Min         \* minEffectSkills

ASSUME OptedOutRead == OptedOut \subseteq Readers
ASSUME FibersDiffer ==
  /\ Consumer \notin Readers \cup Writers
  /\ Readers \cap Writers = {}
ASSUME NoSkillIsNone == NoSkill \notin Skills
ASSUME SkillsAreFinite == IsFiniteSet(Skills)
ASSUME MinIsNatural == Min \in Nat

Fibers == Readers \cup Writers \cup {Consumer}
Steps == {"idle", "reading", "hydrate", "seed", "persist", "remove"}

VARIABLES
  memory,    \* the ledger's set for the session
  hydrated,  \* was it filled from storage since the last reset?
  stored,    \* host storage: the persisted set, empty when there is none
  pending,   \* PendingReads: read call -> skill it reads, or NoSkill
  fiber,     \* fiber -> [pc, skill it marks, set it carries, pending names]
  read,      \* history: skills whose read or activation completed
  context,   \* history: skills marked since the last compaction
  live,      \* history: skills marked since the last compaction or restart
  raced,     \* history: did the last compaction overlap another use of the ledger?
  leftover   \* history: what the last compaction failed to remove from storage

ledger == <<memory, hydrated, stored>>
history == <<read, context, live, raced, leftover>>
vars == <<ledger, pending, fiber, history>>

At(pc, skill, carried, names) ==
  [pc |-> pc, skill |-> skill, carried |-> carried, names |-> names]

Idle == At("idle", NoSkill, {}, {})

Init ==
  /\ memory = {}
  /\ hydrated = FALSE
  /\ stored = {}
  /\ pending = [r \in Readers |-> NoSkill]
  /\ fiber = [f \in Fibers |-> Idle]
  /\ read = {}
  /\ context = {}
  /\ live = {}
  /\ raced = FALSE
  /\ leftover = {}

Set(f, record) == fiber' = [fiber EXCEPT ![f] = record]

\* PendingReads.names
Names == {pending[r] : r \in Readers} \ {NoSkill}
-----------------------------------------------------------------------------
(* The uses of the ledger *)

\* f calls ledger.mark for a skill: the read or the activation is complete.
StartMark(f, skill) ==
  /\ Set(f, At("hydrate", skill, {}, {}))
  /\ read' = read \cup {skill}

\* hydrateOnce, first part: storage is read, and the fiber waits for it.  A read
\* that fails counts as an empty set.
Hydrate(f) ==
  /\ fiber[f].pc = "hydrate"
  /\ ~hydrated
  /\ \E found \in {stored, {}} : Set(f, At("seed", fiber[f].skill, found, fiber[f].names))
  /\ raced' = (raced \/ fiber[Consumer].pc = "remove")
  /\ UNCHANGED <<ledger, pending, read, context, live, leftover>>

\* hydrateOnce is over for f: the ledger was hydrated, or f has the stored set.
Ready(f) ==
  \/ fiber[f].pc = "hydrate" /\ hydrated
  \/ fiber[f].pc = "seed"

\* Mutant: what was stored replaces what is in memory.
ReplacedBy(f) == IF fiber[f].pc = "seed" THEN fiber[f].carried ELSE memory

\* memory.seed adds what was stored to what is in memory.
Seeded(f) == memory \cup fiber[f].carried

\* mark, second part: the skill is added, and the set to persist is read.
Mark(f) ==
  /\ fiber[f].skill # NoSkill
  /\ Ready(f)
  /\ memory' = Seeded(f) \cup {fiber[f].skill}
  /\ hydrated' = TRUE
  /\ Set(f, At("persist", fiber[f].skill, memory', {}))
  /\ context' = context \cup {fiber[f].skill}
  /\ live' = live \cup {fiber[f].skill}
  /\ UNCHANGED <<stored, pending, read, raced, leftover>>

\* persist: the set read in Mark reaches storage, or storage keeps what it has.
Persist(f) ==
  /\ fiber[f].pc = "persist"
  /\ stored' \in {fiber[f].carried, stored}
  /\ Set(f, Idle)
  /\ UNCHANGED <<memory, hydrated, pending, history>>
-----------------------------------------------------------------------------
(* Reads *)

\* execute.before of a read of a skill file: pending.remember, for every agent.
BeforeRead(r, skill) ==
  /\ fiber[r].pc = "idle"
  /\ pending[r] = NoSkill
  /\ pending' = [pending EXCEPT ![r] = skill]
  /\ Set(r, At("reading", NoSkill, {}, {}))
  /\ UNCHANGED <<ledger, history>>

\* Mutant: the entry is taken only when the read completed.
FailedReadKept(r) ==
  /\ fiber[r].pc = "reading"
  /\ r \notin OptedOut
  /\ Set(r, Idle)
  /\ UNCHANGED <<ledger, pending, history>>

\* Mutant: the status of the call is not looked at.
FailedReadMarked(r) ==
  /\ fiber[r].pc = "reading"
  /\ r \notin OptedOut
  /\ pending' = [pending EXCEPT ![r] = NoSkill]
  /\ Set(r, At("hydrate", pending[r], {}, {}))
  /\ UNCHANGED <<ledger, history>>

\* execute.after of a read that failed or was interrupted: the entry is taken.
FailedRead(r) ==
  /\ fiber[r].pc = "reading"
  /\ r \notin OptedOut
  /\ pending' = [pending EXCEPT ![r] = NoSkill]
  /\ Set(r, Idle)
  /\ UNCHANGED <<ledger, history>>

\* Mutant: the skill is looked up after its entry was taken.
MarkTakenEntry(r) ==
  /\ fiber[r].pc = "reading"
  /\ r \notin OptedOut
  /\ pending' = [pending EXCEPT ![r] = NoSkill]
  /\ StartMark(r, pending'[r])
  /\ UNCHANGED <<ledger, context, live, raced, leftover>>

\* execute.after of a read that completed: the entry is taken and marked.
CompletedRead(r) ==
  /\ fiber[r].pc = "reading"
  /\ r \notin OptedOut
  /\ pending' = [pending EXCEPT ![r] = NoSkill]
  /\ StartMark(r, pending[r])
  /\ UNCHANGED <<ledger, context, live, raced, leftover>>

\* execute.after for an agent that opted out returns before the entry is taken.
AfterOptedOut(r) ==
  /\ fiber[r].pc = "reading"
  /\ r \in OptedOut
  /\ Set(r, Idle)
  /\ UNCHANGED <<ledger, pending, history>>
-----------------------------------------------------------------------------
(* Writes *)

\* execute.before of a write: pendingCountFor reads the pending names first.
StartGate(w) ==
  /\ fiber[w].pc = "idle"
  /\ Set(w, At("hydrate", NoSkill, {}, Names))
  /\ UNCHANGED <<ledger, pending, history>>

\* Mutant: a skill both loaded and being read again counts twice.
CountTwice(w) == Cardinality(Seeded(w)) + Cardinality(fiber[w].names)

\* countDistinct over the ledger and the pending names.
CountDistinct(w) == Cardinality(Seeded(w) \cup fiber[w].names)

Decide(w) ==
  /\ w \in Writers
  /\ Ready(w)
  /\ memory' = Seeded(w)
  /\ hydrated' = TRUE
  /\ Set(w, Idle)
  /\ UNCHANGED <<stored, pending, history>>

LetThrough(w) == Decide(w) /\ CountDistinct(w) >= Min

Block(w) == Decide(w) /\ CountDistinct(w) < Min
-----------------------------------------------------------------------------
(* The consumer *)

\* session.skill.activated
Activated(skill) ==
  /\ fiber[Consumer].pc = "idle"
  /\ StartMark(Consumer, skill)
  /\ UNCHANGED <<ledger, pending, context, live, raced, leftover>>

\* A fiber that holds what the ledger or storage held earlier.
Carries(f) == fiber[f].pc \in {"seed", "persist"}

\* session.compacted: reset empties the ledger and forgets that it was
\* hydrated, in one go ...
Compacted ==
  /\ fiber[Consumer].pc = "idle"
  /\ memory' = {}
  /\ hydrated' = FALSE
  /\ Set(Consumer, At("remove", NoSkill, {}, {}))
  /\ context' = {}
  /\ live' = {}
  /\ raced' = \E f \in Fibers : Carries(f)
  /\ leftover' = {}
  /\ UNCHANGED <<stored, pending, read>>

\* Mutant: nothing is removed from storage.
RemoveNothing ==
  /\ fiber[Consumer].pc = "remove"
  /\ Set(Consumer, Idle)
  /\ UNCHANGED <<ledger, pending, history>>

\* ... and then removes the stored set, unless that fails.
Remove ==
  /\ fiber[Consumer].pc = "remove"
  /\ \/ stored' = {} /\ UNCHANGED leftover
     \/ leftover' = leftover \cup stored /\ UNCHANGED stored
  /\ Set(Consumer, Idle)
  /\ UNCHANGED <<memory, hydrated, pending, read, context, live, raced>>

\* The plugin restarts with the host: memory, reads and fibers are gone.
Restart ==
  /\ memory' = {}
  /\ hydrated' = FALSE
  /\ pending' = [r \in Readers |-> NoSkill]
  /\ fiber' = [f \in Fibers |-> Idle]
  /\ live' = {}
  /\ raced' = (raced \/ fiber[Consumer].pc = "remove")
  /\ UNCHANGED <<stored, read, context, leftover>>
-----------------------------------------------------------------------------
Reader(r) ==
  \/ \E skill \in Skills : BeforeRead(r, skill)
  \/ FailedRead(r) \/ CompletedRead(r) \/ AfterOptedOut(r)

Writer(w) == StartGate(w) \/ LetThrough(w) \/ Block(w)

Next ==
  \/ \E r \in Readers : Reader(r)
  \/ \E w \in Writers : Writer(w)
  \/ \E skill \in Skills : Activated(skill)
  \/ \E f \in Fibers : Hydrate(f) \/ Mark(f) \/ Persist(f)
  \/ Compacted
  \/ Remove
  \/ Restart

Spec == Init /\ [][Next]_vars
-----------------------------------------------------------------------------
(* Properties *)

TypeOK ==
  /\ memory \subseteq Skills
  /\ hydrated \in BOOLEAN
  /\ stored \subseteq Skills
  /\ pending \in [Readers -> Skills \cup {NoSkill}]
  /\ fiber \in [Fibers -> [pc : Steps, skill : Skills \cup {NoSkill},
                           carried : SUBSET Skills, names : SUBSET Skills]]
  /\ read \subseteq Skills
  /\ context \subseteq Skills
  /\ live \subseteq Skills
  /\ raced \in BOOLEAN
  /\ leftover \subseteq Skills

\* No skill is credited that was not read to the end or activated, in memory
\* or in storage, in this life or in an earlier one. (index.ts:1367)
CreditsAreRead == memory \cup stored \subseteq read

\* A skill that was marked stays in the ledger until a compaction or a restart,
\* however the hydrations and marks of several fibers interleave. (Ledger.ts:52)
NothingForgotten == live \subseteq memory

\* A read is pending only while its call runs, whatever its outcome; the calls
\* of agents that opted out are excepted. (index.ts:1346-1348, Ledger.ts:233)
PendingIsRunning ==
  \A r \in Readers \ OptedOut : pending[r] # NoSkill => fiber[r].pc = "reading"

\* The same without the exception: "this runs even for opted-out agents so no
\* state leaks". (index.ts:1348)
NothingLeaks == \A r \in Readers : pending[r] # NoSkill => fiber[r].pc = "reading"

\* A compaction that overlaps no other use of the ledger forgets every skill:
\* what the ledger holds later was marked later, or was in storage when the
\* removal failed, which is ignored. (index.ts:1532, Ledger.ts:208)
CompactionForgets == ~raced => memory \subseteq context \cup leftover

\* The same without the exception for overlaps.
CompactionResets == memory \subseteq context \cup leftover

\* A write that is let through has, when it was checked, Min distinct skills in
\* the present context or under way, those counted in that a compaction failed
\* to remove from storage. (index.ts:1074-1086, Gate.ts:71)
WritesAreEarned ==
  [][\A w \in Writers :
       LetThrough(w) /\ ~raced =>
         Cardinality(context \cup leftover \cup fiber[w].names) >= Min]_vars
=============================================================================
