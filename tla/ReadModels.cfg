SPECIFICATION Spec
CONSTANTS
  a = a
  b = b
  s1 = s1
  s2 = s2
  r1 = r1
  None = None
  Script <- MCScript
  Spans = {a, b}
  Sessions = {s1, s2}
  Readers = {r1}
  FlushThreshold = 2
  MaxRows = 4
  MaxVersion = 4
INVARIANTS IndexesFaithful SessionsFaithful
