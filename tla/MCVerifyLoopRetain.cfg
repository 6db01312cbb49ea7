CONSTANTS
  Sessions = {s1}
  Files = {a, b}
  Calls = {c1}
  Watcher = Watcher
  NoSession = NoSession
  NoId = NoId
  KeptRuns = 1
  MaxEdits = 2
  MaxEvents = 2
  MaxDuplicates = 1
  MaxCrashes = 1
SPECIFICATION Spec
SYMMETRY MCSymmetry
PROPERTY FailedRunsRetain
