------------------------------ MODULE ProcessLock ------------------------------
(***************************************************************************)
(* The cross-process lock of process_lock.rs: holding                      *)
(* `.yitrace.<name>.lock.d/` is holding the lock.  create_dir is the only  *)
(* atomic step; the owner file is written after it, a lock whose owner     *)
(* looks dead is removed by whoever notices, and removal is unlink then    *)
(* rmdir.  An owner looks dead to a process whose kill(pid, 0) fails: the  *)
(* owner has died, or that process may not signal it (EPERM).              *)
(*                                                                         *)
(* An actor is a thread of some process that wants the lock; a process     *)
(* that dies takes its actor with it and is never replaced by one with the *)
(* same pid.  Each file-system call is one step.                           *)
(***************************************************************************)
EXTENDS Naturals, FiniteSets

CONSTANTS Procs,      \* the processes sharing the data directory
          MaySignal,  \* <<p, q>>: kill(q, 0) by p succeeds while q lives (same user, or root)
          NoOwner,    \* owner.json is missing or has no pid yet
          MaxDeaths   \* bound: processes that die

ASSUME NoOwnerIsNoProc == NoOwner \notin Procs
ASSUME SignalsAmongProcs == MaySignal \subseteq Procs \X Procs
ASSUME MaxDeathsIsNat == MaxDeaths \in Nat

VARIABLES exists,  \* the lock directory exists
          owner,   \* the pid in its owner.json
          alive,   \* processes that have not died
          pc,      \* where each actor is in acquire, or what it does with the guard
          raced,   \* history: some actor began to clear a lock another was clearing
          usurped  \* history: some actor began to clear the lock of a live owner

vars == <<exists, owner, alive, pc, raced, usurped>>

Steps == {"idle", "create", "write", "hold", "inspect", "unlink", "rmdir",
          "wait", "dropunlink", "droprmdir"}

Init ==
  /\ exists = FALSE /\ owner = NoOwner
  /\ alive = Procs
  /\ pc = [p \in Procs |-> "idle"]
  /\ raced = FALSE /\ usurped = FALSE

GoTo(p, step) == pc' = [pc EXCEPT ![p] = step]

Clearing(p) == p \in alive /\ pc[p] \in {"unlink", "rmdir"}

\* process_is_alive, asked by p: kill(q, 0) = 0.
IsAlive(p, q) == q \in alive /\ <<p, q>> \in MaySignal

\* owner.json names a process that p's kill(pid, 0) does not reach.
LooksDead(p) == exists /\ owner \in Procs /\ ~IsAlive(p, owner)

Begin(p) ==
  /\ pc[p] = "idle" /\ GoTo(p, "create")
  /\ UNCHANGED <<exists, owner, alive, raced, usurped>>

MutCreateIgnoresExisting(p) ==
  /\ pc[p] = "create"
  /\ exists' = TRUE /\ owner' = NoOwner /\ GoTo(p, "write")
  /\ UNCHANGED <<alive, raced, usurped>>

CreateDir(p) ==
  /\ pc[p] = "create"
  /\ IF exists
     THEN GoTo(p, "inspect") /\ UNCHANGED <<exists, owner>>
     ELSE exists' = TRUE /\ owner' = NoOwner /\ GoTo(p, "write")
  /\ UNCHANGED <<alive, raced, usurped>>

\* write_owner opens owner.json inside the directory; when the directory is gone
\* the acquisition fails and removes whatever is at the path by then.
WriteOwner(p) ==
  /\ pc[p] = "write"
  /\ IF exists
     THEN owner' = p /\ GoTo(p, "hold")
     ELSE GoTo(p, "dropunlink") /\ UNCHANGED owner
  /\ UNCHANGED <<exists, alive, raced, usurped>>

MutNeverStale(p) ==
  /\ pc[p] = "inspect"
  /\ GoTo(p, "wait")
  /\ UNCHANGED <<exists, owner, alive, raced, usurped>>

\* clear_stale_lock: read owner.json and ask whether that pid is alive.
Inspect(p) ==
  /\ pc[p] = "inspect"
  /\ IF LooksDead(p)
     THEN /\ GoTo(p, "unlink")
          /\ raced' = (raced \/ \E q \in Procs \ {p} : Clearing(q))
          /\ usurped' = (usurped \/ owner \in alive)
     ELSE GoTo(p, "wait") /\ UNCHANGED <<raced, usurped>>
  /\ UNCHANGED <<exists, owner, alive>>

\* remove_dir_all acts on the path, whoever's directory is there by now.
Unlink(p) ==
  /\ pc[p] \in {"unlink", "dropunlink"}
  /\ IF exists
     THEN owner' = NoOwner /\ GoTo(p, IF pc[p] = "unlink" THEN "rmdir" ELSE "droprmdir")
     ELSE GoTo(p, IF pc[p] = "unlink" THEN "wait" ELSE "idle") /\ UNCHANGED owner
  /\ UNCHANGED <<exists, alive, raced, usurped>>

MutRmdirIgnoresContents(p) ==
  /\ pc[p] \in {"rmdir", "droprmdir"}
  /\ exists' = FALSE
  /\ GoTo(p, IF pc[p] = "droprmdir" THEN "idle" ELSE "create")
  /\ UNCHANGED <<owner, alive, raced, usurped>>

\* rmdir fails when the path is gone or has an owner.json again.
RemoveDir(p) ==
  /\ pc[p] \in {"rmdir", "droprmdir"}
  /\ LET removed == exists /\ owner = NoOwner
     IN  /\ exists' = (exists /\ ~removed)
         /\ GoTo(p, IF pc[p] = "droprmdir" THEN "idle"
                    ELSE IF removed THEN "create" ELSE "wait")
  /\ UNCHANGED <<owner, alive, raced, usurped>>

\* Sleep 20 ms and try again ...
Retry(p) ==
  /\ pc[p] = "wait" /\ GoTo(p, "create")
  /\ UNCHANGED <<exists, owner, alive, raced, usurped>>

\* ... or stop: the timeout of acquire, or the busy answer of try_acquire.
GiveUp(p) ==
  /\ pc[p] = "wait" /\ GoTo(p, "idle")
  /\ UNCHANGED <<exists, owner, alive, raced, usurped>>

Release(p) ==
  /\ pc[p] = "hold" /\ GoTo(p, "dropunlink")
  /\ UNCHANGED <<exists, owner, alive, raced, usurped>>

Die(p) ==
  /\ Cardinality(Procs \ alive) < MaxDeaths
  /\ alive' = alive \ {p}
  /\ UNCHANGED <<exists, owner, pc, raced, usurped>>

Continue(p) ==
  /\ p \in alive
  /\ \/ CreateDir(p) \/ WriteOwner(p) \/ Inspect(p) \/ Unlink(p) \/ RemoveDir(p)
     \/ Release(p) \/ Retry(p)

Next == \E p \in alive : Begin(p) \/ Continue(p) \/ GiveUp(p) \/ Die(p)

Spec == Init /\ [][Next]_vars

\* A live actor that started an acquisition keeps running and a guard is dropped.
FairSpec == Spec /\ \A p \in Procs : WF_vars(Continue(p))

-----------------------------------------------------------------------------
(* Properties.                                                             *)

\* Type correctness of the lock's state; an owner file is inside a directory.
TypeOK ==
  /\ exists \in BOOLEAN /\ raced \in BOOLEAN /\ usurped \in BOOLEAN
  /\ owner \in Procs \cup {NoOwner} /\ (owner \in Procs => exists)
  /\ alive \subseteq Procs
  /\ pc \in [Procs -> Steps]

Holders == {p \in alive : pc[p] = "hold"}

\* "Whoever creates the directory holds the lock": two live processes are never
\* both between acquire and the drop of the guard.
MutualExclusion == \A p, q \in Holders : p = q

\* Mutual exclusion can only be lost in two ways: two processes clear the same
\* lock at the same time (raced), or a process takes a live owner for dead that it
\* may not signal (usurped).  Neither a death on its own, nor one survivor's
\* clean-up, nor a waiter that gives up breaks it.
ExclusiveUnlessMisjudged == raced \/ usurped \/ MutualExclusion

\* The same where nobody can be usurped, all processes being of one user.
ExclusiveUnlessRaced == raced \/ MutualExclusion

\* owner.json names a process that has died.
OwnerDead == exists /\ owner \in Procs \ alive

\* A directory without an owner, left by a process that died between create_dir and
\* the write of its pid or between unlink and rmdir, and that no live process is
\* about to own or to remove.  clear_stale_lock never touches it.
Abandoned ==
  LET between == {q \in Procs : pc[q] \in {"write", "rmdir", "droprmdir"}}
  IN  exists /\ owner = NoOwner /\ between # {} /\ between \cap alive = {}

\* A lock whose recorded owner is dead does not block a process that is trying to
\* acquire it: its directory is removed, or a live process owns it again, unless
\* another death, of a process that was removing or taking it, left it without one.
StaleLockCleared ==
  \A p \in Procs : (OwnerDead /\ p \in alive /\ pc[p] = "create")
                   ~> (~exists \/ owner \in alive \/ Abandoned \/ p \notin alive)

\* The same without the exception, which does not hold: an abandoned directory
\* blocks everybody for good.
DeadLockCleared ==
  \A p \in Procs : (OwnerDead /\ p \in alive /\ pc[p] = "create")
                   ~> (~exists \/ owner \in alive \/ p \notin alive)

=============================================================================
