SPECIFICATION Spec
CONSTANTS
  Absent = Absent
  p1 = p1
  p2 = p2
  Procs = {p1, p2}
  Rows <- MCRows
  OldRows <- MCOldRows
  OldFiles <- MCOldFiles
  AnnotationBodies <- MCAnnotationBodies
  DatasetBodies <- MCDatasetBodies
  PolicyBodies <- MCPolicyBodies
  Changes <- MCChanges
  RetentionBodies <- MCRetentionBodies
  RunCalls <- MCRunCalls
  NoNumber = NoNumber
  Queries <- MCQueries
  SampleLimit = 1
  MaxRecords <- MCMaxRecords
  MaxUpdates = 1
  MaxRequests = 2
  MaxJobs = 1
  MaxFaults = 1
SYMMETRY Symmetry
INVARIANTS AckedKept AnswersComplete ProtectedKept AuditTrail
