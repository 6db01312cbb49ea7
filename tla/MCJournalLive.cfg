CONSTANTS
  f1 = f1
  f2 = f2
  f3 = f3
  p1 = p1
  p2 = p2
  Instances = {p1, p2}
  Fibers = {f1, f2, f3}
  InstanceOf <- MCSiblings
  Requests = {r1}
  NoRequest = NoRequest
  Garbage = Garbage
  None = None
  Free = Free
  Abandoned = Abandoned
  MaxEntries = 1
  MaxDamage = 0
  MaxFaults = 1
SPECIFICATION FairSpec
INVARIANTS WritersOwnTheLock SiblingsQueue
PROPERTY CallsReturn
