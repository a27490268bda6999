SPECIFICATION FairSpec
CONSTANTS
  r1 = r1
  r2 = r2
  Readers = {r1, r2}
  MaxLsn = 1
  MaxSeg = 2
  MaxVersion = 2
INVARIANTS TypeOK SnapshotComplete HeldSegmentsOnDisk CurrentComplete
PROPERTY PinTerminates
