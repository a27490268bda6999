SPECIFICATION Spec
CONSTANTS
  t1 = t1
  t2 = t2
  Threads = {t1, t2}
  Cjk = {"w", "x", "y", "z"}
  Alnum = {"a", "A"}
  Lower <- MCLower
  BaseDict <- MCBase
  DomainDict <- MCDomain
  UserDict <- MCUser
  Doc <- MCDoc
  Text <- MCText
  Stored <- MCStored
  Keys <- MCKeys
  Filtered <- MCFiltered
  Modes = {"word"}
  BlockSize = 1
  Batch = 2
  MaxVersion = 2
INVARIANTS IndexExact SharingSafe AnswersExact
SYMMETRY MCSymmetry
