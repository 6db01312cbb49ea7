CONSTANTS
  f1 = f1
  f2 = f2
  f3 = f3
  p1 = p1
  p2 = p2
  Instances = {p1, p2}
  Fibers = {f1, f3}
  InstanceOf <- MCStrangers
  Requests = {r1, r2}
  NoRequest = NoRequest
  Garbage = Garbage
  None = None
  Free = Free
  Abandoned = Abandoned
  MaxEntries = 2
  MaxDamage = 1
  MaxFaults = 1
SPECIFICATION Spec
SYMMETRY MCSymmetry
INVARIANTS TypeOK ChainIntact AcknowledgedKept WrittenOnce AnsweredByOwnEntry
PROPERTY HistoryKept
