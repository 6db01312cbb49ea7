CONSTANTS
  Trials = {1, 2, 3}
  Scores <- MCScores
  NoScore = NoScore
  NoTrial = NoTrial
  Concurrency = 2
  Stuck <- MCStuck
SPECIFICATION FairSpec
CHECK_DEADLOCK FALSE
INVARIANTS TypeOK ActingIsReadOnly CandidatesAreReleased DirectoriesAreRemoved HistoryTells
PROPERTIES LifeSpec RunEnds
