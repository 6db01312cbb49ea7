CONSTANTS
  Trials = {1, 2}
  Scores <- MCScores
  NoScore = NoScore
  NoTrial = NoTrial
  Concurrency = 2
  Stuck <- MCStuck
SPECIFICATION Spec
CHECK_DEADLOCK FALSE
INVARIANT OriginsAreReleased
