---------------------------- MODULE ProcessLockProof ----------------------------
(***************************************************************************)
(* Exclusion of the process lock for any number of processes and deaths.   *)
(*                                                                         *)
(* An actor that has created the directory, that is removing its own, or   *)
(* that is clearing a dead owner's, has the directory to itself: there is  *)
(* one such actor at a time, the directory exists, and owner.json is in    *)
(* the state that actor left it in.  Two steps can break this: a second    *)
(* actor begins to clear a lock that is being cleared, which is what       *)
(* `raced` records, or an actor begins to clear the lock of a live owner   *)
(* that it may not signal, which is what `usurped` records.                *)
(***************************************************************************)
EXTENDS ProcessLock, TLAPS

Busy(p) == p \in alive /\ pc[p] \in {"write", "hold", "unlink", "rmdir", "dropunlink", "droprmdir"}

\* owner.json as the step of actor p left it.
OwnerFits(p) ==
  /\ pc[p] \in {"write", "rmdir", "droprmdir"} => owner = NoOwner
  /\ pc[p] \in {"hold", "dropunlink"} => owner = p
  /\ pc[p] = "unlink" => owner \in Procs \ alive

OneBusy == \A p, q \in Procs : Busy(p) /\ Busy(q) => p = q
BusyHasDirectory == \A p \in Procs : Busy(p) => exists /\ OwnerFits(p)

IInv == TypeOK /\ (raced \/ usurped \/ (OneBusy /\ BusyHasDirectory))

\* The lock's state is well typed at the start.
LEMMA InitInv == Init => IInv
  BY NoOwnerIsNoProc DEF Init, IInv, TypeOK, Steps, OneBusy, BusyHasDirectory, Busy

\* Every step keeps the state well typed; an owner file is inside a directory.
LEMMA TypeNext == TypeOK /\ [Next]_vars => TypeOK'
<1> SUFFICES ASSUME TypeOK, [Next]_vars PROVE TypeOK'
  OBVIOUS
<1> USE NoOwnerIsNoProc DEF TypeOK, Steps, GoTo
<1>1. ASSUME NEW p \in alive, Continue(p) PROVE TypeOK'
  <2>1. CASE CreateDir(p)
    BY <2>1 DEF CreateDir
  <2>2. CASE WriteOwner(p)
    BY <2>2 DEF WriteOwner
  <2>3. CASE Inspect(p)
    BY <2>3 DEF Inspect
  <2>4. CASE Unlink(p)
    BY <2>4 DEF Unlink
  <2>5. CASE RemoveDir(p)
    BY <2>5 DEF RemoveDir
  <2>6. CASE Release(p) \/ Retry(p)
    BY <2>6 DEF Release, Retry
  <2>7. QED
    BY <1>1, <2>1, <2>2, <2>3, <2>4, <2>5, <2>6 DEF Continue
<1>2. ASSUME NEW p \in alive, Begin(p) \/ GiveUp(p) \/ Die(p) PROVE TypeOK'
  BY <1>2 DEF Begin, GiveUp, Die
<1>3. CASE UNCHANGED vars
  BY <1>3 DEF vars
<1>4. QED
  BY <1>1, <1>2, <1>3 DEF Next

\* An actor with the directory to itself keeps it to itself through its own steps;
\* the others can only find it there, and a death only frees it.
LEMMA StepInv ==
  ASSUME IInv, TypeOK', ~raced', ~usurped', NEW p \in alive, Begin(p) \/ Continue(p) \/ GiveUp(p) \/ Die(p)
  PROVE  OneBusy' /\ BusyHasDirectory'
<1> USE NoOwnerIsNoProc DEF IInv, TypeOK, Steps, GoTo
<1>0. ~raced /\ ~usurped
  BY DEF Begin, Continue, GiveUp, Die, CreateDir, WriteOwner, Inspect, Unlink,
         RemoveDir, Release, Retry
<1>1. OneBusy /\ BusyHasDirectory
  BY <1>0
<1> USE <1>1 DEF OneBusy, BusyHasDirectory, Busy, OwnerFits
<1>2. CASE Begin(p) \/ GiveUp(p) \/ Retry(p)
  BY <1>2 DEF Begin, GiveUp, Retry
<1>3. CASE Die(p)
  BY <1>3 DEF Die
<1>4. CASE CreateDir(p)
  BY <1>4 DEF CreateDir
<1>5. CASE WriteOwner(p)
  BY <1>5 DEF WriteOwner
<1>6. CASE Inspect(p)
  \* Whoever else is busy while the owner is dead is clearing too.
  <2>1. CASE LooksDead(p)
    <3>1. owner \in Procs \ alive
      BY <1>6, <2>1 DEF Inspect, LooksDead
    <3>2. \A q \in Procs \ {p} : ~Busy(q)
      BY <1>6, <2>1, <3>1 DEF Inspect, LooksDead, Clearing
    <3>3. QED
      BY <1>6, <2>1, <3>1, <3>2 DEF Inspect, LooksDead
  <2>2. CASE ~LooksDead(p)
    BY <1>6, <2>2 DEF Inspect
  <2>3. QED
    BY <2>1, <2>2
<1>7. CASE Unlink(p)
  BY <1>7 DEF Unlink
<1>8. CASE RemoveDir(p)
  BY <1>8 DEF RemoveDir
<1>9. CASE Release(p)
  BY <1>9 DEF Release
<1>10. QED
  BY <1>2, <1>3, <1>4, <1>5, <1>6, <1>7, <1>8, <1>9 DEF Continue

\* Every step keeps the invariant.
LEMMA NextInv == IInv /\ [Next]_vars => IInv'
<1> SUFFICES ASSUME IInv, [Next]_vars PROVE IInv'
  OBVIOUS
<1>1. TypeOK'
  BY TypeNext DEF IInv
<1>2. CASE Next /\ ~raced' /\ ~usurped'
  BY <1>1, <1>2, StepInv DEF Next, IInv
<1>3. CASE Next /\ (raced' \/ usurped')
  BY <1>1, <1>3 DEF IInv
<1>4. CASE UNCHANGED vars
  BY <1>1, <1>4 DEF vars, IInv, OneBusy, BusyHasDirectory, Busy, OwnerFits
<1>5. QED
  BY <1>2, <1>3, <1>4

\* The lock's state is well typed in every reachable state (the files and program
\* counters of process_lock.rs).
THEOREM LockTypeCorrect == Spec => []TypeOK
<1>1. Init => TypeOK
  BY InitInv DEF IInv
<1>2. QED
  BY <1>1, TypeNext, PTL DEF Spec

\* Until two actors clear one lock together, or one clears the lock of a live owner
\* it may not signal, at most one live process is between acquire and the drop of its
\* guard: deaths, timeouts and a single clean-up never break the exclusion that
\* create_dir gives.
THEOREM Exclusion == Spec => []ExclusiveUnlessMisjudged
<1>1. IInv => ExclusiveUnlessMisjudged
  BY DEF IInv, TypeOK, ExclusiveUnlessMisjudged, MutualExclusion, Holders, OneBusy, Busy
<1>2. QED
  BY <1>1, InitInv, NextInv, PTL DEF Spec

\* A step of processes that may all signal one another usurps nobody.
LEMMA NobodyUsurped ==
  ASSUME MaySignal = Procs \X Procs
  PROVE  TypeOK /\ ~usurped /\ [Next]_vars => ~usurped'
<1> SUFFICES ASSUME TypeOK, ~usurped, [Next]_vars PROVE ~usurped'
  OBVIOUS
<1>1. ASSUME NEW p \in alive, Inspect(p) PROVE ~usurped'
  BY <1>1 DEF Inspect, LooksDead, IsAlive, TypeOK
<1>2. ASSUME NEW p \in alive, Continue(p) PROVE ~usurped'
  BY <1>1, <1>2 DEF Continue, CreateDir, WriteOwner, Unlink, RemoveDir, Release, Retry
<1>3. QED
  BY <1>2 DEF Next, Begin, GiveUp, Die, vars

\* Where the processes that share a data directory may all signal one another, being
\* of one user, only two actors that clear one stale lock together can break the
\* exclusion.
THEOREM OneUserExclusion ==
  ASSUME MaySignal = Procs \X Procs
  PROVE  Spec => []ExclusiveUnlessRaced
<1>1. Init => ~usurped
  BY DEF Init
<1>2. TypeOK /\ ~usurped /\ [Next]_vars => ~usurped'
  BY NobodyUsurped
<1>3. IInv => TypeOK
  BY DEF IInv
<1>4. IInv /\ ~usurped => ExclusiveUnlessRaced
  BY DEF IInv, TypeOK, ExclusiveUnlessRaced, MutualExclusion, Holders, OneBusy, Busy
<1>5. QED
  BY <1>1, <1>2, <1>3, <1>4, InitInv, NextInv, PTL DEF Spec

=============================================================================
