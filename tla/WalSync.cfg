SPECIFICATION Spec
CONSTANTS
  p1 = p1
  p2 = p2
  Procs = {p1, p2}
  Nobody = Nobody
  MaxEvents = 3
  MaxFrames = 3
  MaxTears = 1
  MaxFails = 1
  MaxUnsaved = 1
INVARIANTS AckedDurableWhenSound PrefixDurable LockHolderSeesAll NothingTwice
