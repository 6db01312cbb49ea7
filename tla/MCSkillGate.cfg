CONSTANTS
  Skills = {k1, k2}
  Readers = {r1, r3}
  OptedOut = {r3}
  Writers = {w1}
  Consumer = Consumer
  NoSkill = NoSkill
  Min = 2
SPECIFICATION Spec
SYMMETRY MCSymmetry
INVARIANTS TypeOK CreditsAreRead NothingForgotten PendingIsRunning CompactionForgets
PROPERTY WritesAreEarned
