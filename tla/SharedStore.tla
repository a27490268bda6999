------------------------------- MODULE SharedStore -------------------------------
(***************************************************************************)
(* Several processes on one data directory (engine/write_open.rs,          *)
(* engine/write_recover_commit.rs, process_lock.rs, gc_log.rs): each has   *)
(* its own copy of the manifest, its MemTable and its list of dead         *)
(* segments, brings them up to date under the write lock, and tells the    *)
(* others of its snapshots by a pin file.  One of them may take a backup.  *)
(*                                                                         *)
(* An operation under the process lock is one step, but for reclamation,   *)
(* which looks for pin files once and then unlinks segment after segment:  *)
(* a pin file needs no lock.  Module Engine has the operations inside a    *)
(* process step by step, module Retention the deletions.  An event is its  *)
(* LSN.  A pin file of a dead process is cleared by whoever looks for pin  *)
(* files next, so that a crash removes it here; that of a live one stays,  *)
(* which assumes that the processes may signal one another (one user).     *)
(***************************************************************************)
EXTENDS Naturals, FiniteSets, FiniteSetsExt, TLC

CONSTANTS Procs, Nobody,
          MaxLsn,      \* bound: events
          MaxSeg,      \* bound: segment ids
          MaxFaults    \* bound: crashes

ASSUME NobodyIsNoProc == Nobody \notin Procs
ASSUME BoundsAreNat == MaxLsn \in Nat /\ MaxSeg \in Nat /\ MaxFaults \in Nat

Lsns == 1..MaxLsn
SegIds == 1..MaxSeg

VARIABLES man,      \* manifest.dat: [version, segs, wm, next]
          tail,     \* wal.log: the last committed LSN
          rows, files, \* the segment files: their rows, and which exist
          gc,       \* gc.log: segments with a MARK and no DONE
          lock,     \* who holds the write lock across steps
          view,     \* view[p]: [man, tail, mem, dead, base] of process p
          pc,       \* pc[p]: "down", "idle" or "pinning"
          victims,  \* what the reclamation in progress has yet to unlink
          snap,     \* snap[p]: the snapshot of p, if it has one
          backup,   \* the copy being made, and whether it was complete
          faults

disk == <<man, tail, rows, files, gc>>
vars == <<disk, lock, view, pc, victims, snap, backup, faults>>

NoView == [man |-> [version |-> 0, segs |-> {}, wm |-> 0, next |-> 1], tail |-> 0, mem |-> {}, dead |-> {}, base |-> 0]
NoBackup == [pc |-> "none"]

Init ==
  /\ man = NoView.man /\ tail = 0 /\ rows = [s \in SegIds |-> {}] /\ files = {} /\ gc = {}
  /\ lock = Nobody /\ view = [p \in Procs |-> NoView] /\ pc = [p \in Procs |-> "down"]
  /\ victims = {} /\ snap = [p \in Procs |-> {}] /\ backup = NoBackup /\ faults = 0

Up(p) == pc[p] # "down"
Free(p) == Up(p) /\ lock = Nobody

-----------------------------------------------------------------------------
(* Coming up to date.                                                      *)

Between(from, to) == {l \in Lsns : from < l /\ l <= to}

\* rebuild_volatile_from_current_locked: the MemTable is dropped and what the
\* log has after the new watermark is replayed, whatever a snapshot still needs.
Rebuilt(v) == [v EXCEPT !.man = man, !.tail = tail, !.mem = Between(man.wm, tail), !.base = man.version]

MutTailOnly(v) == [v EXCEPT !.tail = tail, !.mem = @ \cup Between(v.tail, tail)]

\* apply_wal_tail_records_locked.
WithTail(v) == [v EXCEPT !.tail = tail, !.mem = @ \cup (Between(v.tail, tail) \cap Between(v.man.wm, tail))]

\* refresh_from_disk_locked.
RefreshedView(v) ==
  IF <<man.version, man.wm>> # <<v.man.version, v.man.wm>> THEN Rebuilt(v) ELSE WithTail(v)

Here(p) == RefreshedView(view[p])

\* fold_query: a segment whose file is missing reads as an empty one.
SegmentRows(m) == UNION {rows[s] : s \in m.segs \cap files}
Shown(m, live, mem) == SegmentRows(m) \cup (mem \cap Between(m.wm, live))

-----------------------------------------------------------------------------
(* Writers.                                                                *)

\* min_retained_watermark, safe_version: this process's own snapshots count.
Retained(p, wm) == Min({wm} \cup {sn.man.wm : sn \in snap[p]})
SafeVersion(p, v) == Min({v.man.version} \cup {sn.man.version : sn \in snap[p]})

WriteSegment(s, content) == rows' = [rows EXCEPT ![s] = content] /\ files' = files \cup {s}

\* commit_and_persist.
Committed(v, segs, wm) ==
  [v EXCEPT !.man = [version |-> @.version + 1, segs |-> segs, wm |-> wm, next |-> @.next + 1]]

Ingest(p) ==
  /\ Free(p) /\ tail < MaxLsn /\ tail' = tail + 1
  /\ view' = [view EXCEPT ![p] = [Here(p) EXCEPT !.tail = tail + 1, !.mem = @ \cup {tail + 1}]]
  /\ UNCHANGED <<man, rows, files, gc, lock, pc, victims, snap, backup, faults>>

\* flush_memtable_locked.
Flush(p) ==
  LET v == Here(p)  s == v.man.next  wm == Max(v.mem)
      w == Committed(v, v.man.segs \cup {s}, wm) IN
  /\ Free(p) /\ v.mem # {} /\ s <= MaxSeg
  /\ WriteSegment(s, v.mem) /\ man' = w.man
  /\ view' = [view EXCEPT ![p] = [w EXCEPT !.mem = {l \in @ : l > Retained(p, wm)}]]
  /\ UNCHANGED <<tail, gc, lock, pc, victims, snap, backup, faults>>

\* compaction_begin and compaction_finish on every live segment.
Compact(p) ==
  LET v == Here(p)  s == v.man.next  w == Committed(v, {s}, v.man.wm) IN
  /\ Free(p) /\ v.man.segs # {} /\ s <= MaxSeg
  /\ WriteSegment(s, SegmentRows(v.man)) /\ man' = w.man
  /\ view' = [view EXCEPT ![p] = [w EXCEPT !.dead = @ \cup {[seg |-> x, v |-> w.man.version] : x \in v.man.segs}]]
  /\ UNCHANGED <<tail, gc, lock, pc, victims, snap, backup, faults>>

\* clear_stale_readers, has_active_readers.
ActiveReaders == {p \in Procs : snap[p] # {}}

MutOwnReadersOnly(p, v, d) ==
  d.v <= SafeVersion(p, v) /\ snap[p] = {} /\ d.seg \notin v.man.segs

CanReclaim(p, v, d) ==
  d.v <= SafeVersion(p, v) /\ ActiveReaders = {} /\ d.seg \notin v.man.segs

\* reclaim up to its look at the readers ...
Reclaim(p) ==
  LET v == Here(p)  can == {d \in v.dead : CanReclaim(p, v, d)} IN
  /\ Free(p) /\ can # {}
  /\ victims' = can /\ lock' = p /\ view' = [view EXCEPT ![p] = v]
  /\ UNCHANGED <<disk, pc, snap, backup, faults>>

\* ... and MARK, unlink, DONE of one segment after the other.
Unlink(p, d) ==
  /\ lock = p /\ d \in victims
  /\ files' = files \ {d.seg} /\ victims' = victims \ {d}
  /\ lock' = IF victims' = {} THEN Nobody ELSE p
  /\ view' = [view EXCEPT ![p].dead = @ \ {d}]
  /\ UNCHANGED <<man, tail, rows, gc, pc, snap, backup, faults>>

-----------------------------------------------------------------------------
(* Readers.                                                                *)

\* pin_snapshot: refresh_from_disk_for_read goes without when a lock is busy.
BeginPin(p, fresh) ==
  /\ pc[p] = "idle" /\ snap[p] = {} /\ (fresh => lock = Nobody)
  /\ view' = [view EXCEPT ![p] = IF fresh THEN Here(p) ELSE @]
  /\ pc' = [pc EXCEPT ![p] = "pinning"]
  /\ UNCHANGED <<disk, lock, victims, snap, backup, faults>>

\* The pin file, then the snapshot, of whatever manifest is current in this
\* process.  The rest are ghosts: what it shows, of segments and in all, whether
\* manifest.dat was the same, and when the MemTable was last rebuilt.
FinishPin(p) ==
  LET v == view[p] IN
  /\ pc[p] = "pinning" /\ pc' = [pc EXCEPT ![p] = "idle"]
  /\ snap' = [snap EXCEPT ![p] =
       {[man |-> v.man, live |-> v.tail, current |-> v.man = man, base |-> v.base,
         saw |-> Shown(v.man, v.tail, v.mem), segs |-> SegmentRows(v.man)]}]
  /\ UNCHANGED <<disk, lock, view, victims, backup, faults>>

Drop(p) ==
  /\ snap[p] # {} /\ snap' = [snap EXCEPT ![p] = {}]
  /\ UNCHANGED <<disk, lock, view, pc, victims, backup, faults>>

\* A read by another thread of a process that holds a snapshot refreshes all the same.
Refresh(p) ==
  /\ Free(p) /\ view[p] # Here(p) /\ view' = [view EXCEPT ![p] = Here(p)]
  /\ UNCHANGED <<disk, lock, pc, victims, snap, backup, faults>>

-----------------------------------------------------------------------------
(* Backup.                                                                 *)

MutPinnedFiles(p) == files \cap view[p].man.segs

\* copy_dir_recursive of segments/: every file that is there.
CopiedFiles(p) == files

\* backup_snapshot pins in this process, with no pin file and no refresh ...
CopySegments(p) ==
  /\ Up(p) /\ lock # p /\ backup.pc = "none"
  /\ backup' = [pc |-> "log", by |-> p, files |-> CopiedFiles(p), acked |-> tail, tail |-> 0, version |-> man.version]
  /\ UNCHANGED <<disk, lock, view, pc, victims, snap, faults>>

\* ... and copies the log, then the manifest.
CopyLog ==
  /\ backup.pc = "log" /\ backup' = [backup EXCEPT !.pc = "manifest", !.tail = tail]
  /\ UNCHANGED <<disk, lock, view, pc, victims, snap, faults>>

\* What open_durable and recover on the copy then show.
Restored(b) == (UNION {rows[s] : s \in man.segs \cap b.files}) \cup Between(man.wm, b.tail)

CopyManifest ==
  /\ backup.pc = "manifest"
  /\ backup' = [pc |-> "done", quiet |-> man.version = backup.version,
                complete |-> 1..backup.acked \subseteq Restored(backup)]
  /\ UNCHANGED <<disk, lock, view, pc, victims, snap, faults>>

-----------------------------------------------------------------------------
(* Crashes and starts.                                                     *)

Gone(p) ==
  /\ faults < MaxFaults /\ faults' = faults + 1
  /\ pc' = [pc EXCEPT ![p] = "down"] /\ view' = [view EXCEPT ![p] = NoView]
  /\ snap' = [snap EXCEPT ![p] = {}]
  /\ lock' = IF lock = p THEN Nobody ELSE lock
  /\ victims' = IF lock = p THEN {} ELSE victims
  /\ backup' = IF backup.pc \notin {"none", "done"} /\ backup.by = p THEN NoBackup ELSE backup
  /\ UNCHANGED <<man, tail>>

Crash(p) == Up(p) /\ Gone(p) /\ UNCHANGED <<rows, files, gc>>

\* Between the file of a segment and the manifest that names it.
CrashInFlush(p) ==
  LET v == Here(p) IN
  /\ Free(p) /\ v.mem # {} /\ v.man.next <= MaxSeg
  /\ WriteSegment(v.man.next, v.mem) /\ Gone(p) /\ UNCHANGED gc

\* Between MARK and DONE, the file being there or not.
CrashInReclaim(p, d) ==
  /\ lock = p /\ d \in victims /\ gc' = gc \cup {d.seg}
  /\ files' \in {files, files \ {d.seg}}
  /\ Gone(p) /\ UNCHANGED rows

\* open_durable finishes what gc.log has marked and empties it; then recover.
Start(p) ==
  /\ ~Up(p) /\ lock = Nobody
  /\ files' = files \ gc /\ gc' = {}
  /\ pc' = [pc EXCEPT ![p] = "idle"] /\ view' = [view EXCEPT ![p] = Rebuilt(NoView)]
  /\ UNCHANGED <<man, tail, rows, lock, victims, snap, backup, faults>>

Next ==
  \/ \E p \in Procs :
       \/ Start(p) \/ Crash(p) \/ CrashInFlush(p) \/ \E d \in victims : CrashInReclaim(p, d)
       \/ Ingest(p) \/ Flush(p) \/ Compact(p) \/ Reclaim(p) \/ \E d \in victims : Unlink(p, d)
       \/ (\E fresh \in BOOLEAN : BeginPin(p, fresh)) \/ FinishPin(p) \/ Drop(p) \/ Refresh(p)
       \/ CopySegments(p)
  \/ CopyLog \/ CopyManifest

Spec == Init /\ [][Next]_vars

-----------------------------------------------------------------------------
(* Properties.                                                             *)

\* A snapshot taken of the manifest that was on disk shows the same rows of
\* segments for as long as it is held, whatever other processes compact and
\* reclaim, and the same rows of the MemTable until its own process refreshes
\* for another one's commit, which drops rows the snapshot still needs.
SnapshotStable ==
  \A p \in Procs : \A sn \in snap[p] :
    sn.current =>
      /\ SegmentRows(sn.man) = sn.segs
      /\ view[p].base = sn.base => Shown(sn.man, sn.live, view[p].mem) = sn.saw

\* reader pins protect the snapshots of any process from reclamation anywhere.
PinProtects ==
  \A p \in Procs : \A sn \in snap[p] : SegmentRows(sn.man) = sn.segs

\* Whatever the processes did and wherever one of them died, a process that
\* comes up to date shows every acknowledged event.
RefreshExact ==
  \A p \in Procs :
    Up(p) => Shown(Here(p).man, Here(p).tail, Here(p).mem) = 1..tail

\* A backup during which no manifest was committed restores every event that
\* was acknowledged when it began, also those of other processes.
QuietBackupRestores ==
  backup.pc = "done" /\ backup.quiet => backup.complete

\* A backup restores every event that was acknowledged when it began, with
\* reads and writes going on meanwhile.
BackupComplete == backup.pc = "done" => backup.complete
=================================================================================
