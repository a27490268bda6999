SPECIFICATION Spec
CONSTANTS
  r1 = r1
  j1 = j1
  t1 = t1
  t2 = t2
  Readers = {r1}
  Jobs = {j1}
  Traces = {t1, t2}
  TraceOf <- MCTraceOf
  FlushThreshold = 2
  MaxLsn = 4
  MaxSeg = 3
  MaxVersion = 3
INVARIANTS RestartComplete DeletedStaysDeletedUnlessReflushed LandedPatchKept
PROPERTY ImplementsTraceStore
