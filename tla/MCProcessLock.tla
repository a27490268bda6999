----------------------------- MODULE MCProcessLock -----------------------------
(* Three processes: one to die with the lock, two to clear it; one of them is *)
(* another user's, so that its kill(pid, 0) fails for the live ones too.      *)
EXTENDS ProcessLock

CONSTANTS p1, p2, p3

OneUser == {p1, p2}
OwnProcesses == (OneUser \X OneUser) \cup {<<p3, p3>>}
=============================================================================
