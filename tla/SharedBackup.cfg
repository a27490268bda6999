SPECIFICATION Spec
CONSTANTS
  p1 = p1
  p2 = p2
  Procs = {p1, p2}
  Nobody = Nobody
  MaxLsn = 2
  MaxSeg = 2
  MaxFaults = 1
SYMMETRY Symmetry
INVARIANT BackupComplete
