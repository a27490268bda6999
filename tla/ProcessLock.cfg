SPECIFICATION FairSpec
CONSTANTS
  p1 = p1
  p2 = p2
  p3 = p3
  Procs = {p1, p2, p3}
  MaySignal <- OwnProcesses
  NoOwner = NoOwner
  MaxDeaths = 2
INVARIANTS TypeOK ExclusiveUnlessMisjudged
PROPERTY StaleLockCleared
