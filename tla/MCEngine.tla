-------------------------------- MODULE MCEngine --------------------------------
(* One reader, one retention job, two traces: the first has two events.     *)
EXTENDS Engine

CONSTANTS r1, j1, t1, t2

MCTraceOf == [l \in Lsns |-> IF l = 2 THEN t2 ELSE t1]
=============================================================================
