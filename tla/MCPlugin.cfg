CONSTANTS
  Callers = {"a", "b", "a2"}
  HolderOf <- MCHolderOf
  Ttl = 1
  MaxClock = 2
  MaxId = 2
  NoClaim = NoClaim
  Proposed = {p}
  Requests = {r}
  Contents = {c}
  None = None
  MaxAppends = 3
  Evolvers = {e1, e2}
  Scores = {0, 1, 2}
  Evaluators = {v1}
  MaxCommits = 2
  MaxAttempts = 1
  NoLineage = NoLineage
  Writers = {w1, w2}
  MaxVersion = 2
  MaxBlocks = 2
  Foreign = Foreign
  NoWriter = NoWriter
  Kind <- MCKind
  Required <- MCRequired
  MaxEdits = 1
  Applies <- MCApplies
  CheckOf <- MCCheckOf
  Scanned = {"ts", "bend"}
  MinSkills = 1
  Reviews = {r1, r2}
  Others = {}
  MaxTexts = 2
  MaxSessions = 1
  Calls = {"c1", "c2"}
  SessionOf <- MCSessionOf
  CallsOf <- MCCallsOf
  Toggles = {"t1", "t2"}
  FailClosed = TRUE
  AllowEdits = FALSE
  Unset = Unset
  Units <- MCUnits
  SourceTexts <- MCSourceTexts
  Replacements <- MCReplacements
  MaxEdit = 2
  NoText = NoText
  Users = {"u1", "u2"}
  TaskIds = {"t"}
  Problems = {"p", "q"}
  ProfileLists <- MCProfileLists
  Configured = {"m1"}
  JudgeProfile = Absent
  RevisionOf <- MCRevisionOf
  Trials = {1, 2}
  ListCap = 2
  Place <- MCPlace
  MaxOps = 4
  MaxJobs = 1
  Absent = Absent
  Attempts = {"a1", "a2"}
  Asks <- MCAsks
  TrialKeys = {"k1", "k2", "k3"}
  LabelOf <- MCLabelOf
  Runners = {"r1", "r2"}
  Long = {"long"}
  Fixtures = {"plain"}
  Criteria <- MCCriteria
  Hours = 1
  MaxCrashes = 1
  Nowhere = Nowhere
SPECIFICATION Spec
INVARIANT PluginTypeOK
INVARIANT LeaseHolds
INVARIANT StatusIsAccountedFor
INVARIANT LineageImproves
INVARIANT LoadedAssetsAreShipped
INVARIANT PassedMeansChecked
INVARIANT ReviewsAreGenuine
INVARIANT OffIsSilent
INVARIANT SnapshotsAreOwn
INVARIANT OffsetsNameTheirText
INVARIANT UpdatesAreKept
INVARIANT JobsRunTheirRevision
INVARIANT TrialsKeepApart
PROPERTY BlocksAreKept
CHECK_DEADLOCK FALSE
