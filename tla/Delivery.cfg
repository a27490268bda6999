SPECIFICATION Spec
CONSTANTS
  Absent = Absent
  MaxBody = 2
  MaxBatch = 2
  MaxBuffered = 3
  MaxFaults = 2
  Tenant = 5
  Kinds = {"PyBatch", "TsHttp", "TsBatch", "RsHttp", "RsBatch", "Otlp"}
  MaxSpans = 2
  MaxOps = 1
  MaxAttrs = 1
INVARIANTS NothingLostSilently SpansWhole
PROPERTY SpoolDrains
CHECK_DEADLOCK FALSE
