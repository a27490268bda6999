-------------------------------- MODULE WalSync --------------------------------
(***************************************************************************)
(* The write-ahead log file (yt-wal) shared by the processes that have one *)
(* data directory open, with the parts of the write coordinator that feed  *)
(* it: ingest, flush with its manifest and its checkpoint, the refresh at  *)
(* the start of every locked operation, open and recover.                  *)
(*                                                                         *)
(* The `write` process lock is taken to work (module ProcessLock is about  *)
(* it), so a locked operation is one step except where a crash in its      *)
(* middle leaves something on disk.  A frame is two cells of the file, so  *)
(* that a torn write and an offset that points into the middle of a frame  *)
(* exist: a parser that meets anything but the two cells of one frame      *)
(* stops.  An event is a number; its LSN is assigned by the log.           *)
(***************************************************************************)
EXTENDS Naturals, Sequences, FiniteSetsExt

CONSTANTS Procs,      \* processes with the directory open
          Nobody,     \* no process is inside a flush
          MaxEvents,  \* bound: events ever ingested
          MaxFrames,  \* bound: ingest calls
          MaxTears,   \* bound: crashes in the middle of a frame write
          MaxFails,   \* bound: write errors that append_committed ignores
          MaxUnsaved  \* bound: manifest saves that fail, which is ignored too

ASSUME NobodyIsNoProc == Nobody \notin Procs
ASSUME BoundsAreNat ==
  /\ MaxEvents \in Nat /\ MaxFrames \in Nat /\ MaxTears \in Nat
  /\ MaxFails \in Nat /\ MaxUnsaved \in Nat

VARIABLES file,    \* wal.log: a sequence of cells
          ckpt,    \* wal.state
          disk,    \* manifest.dat: version, watermark, events in its segments
          proc,    \* what each process has in memory
          holder,  \* the process between the commit and the checkpoint of a flush
          made,    \* events ingested so far
          frames,  \* ingest calls so far
          acked,   \* history: [lsn, event] of every event whose ingest returned
          tears,   \* history: torn frames
          fails,   \* history: ignored errors of the log
          unsaved  \* history: ignored errors of the manifest

counters == <<made, frames, acked, tears, fails, unsaved>>
vars == <<file, ckpt, disk, proc, holder, counters>>

Events == 1..MaxEvents
NoState == [len |-> 0, lsn |-> 0, next |-> 1]
EmptyDisk == [version |-> 0, wm |-> 0, events |-> {}]
Down == [up |-> "down", next |-> 1, scanned |-> 0, cklen |-> 0, cklsn |-> 0,
         cur |-> EmptyDisk, mem |-> {}, tail |-> 0]

Init ==
  /\ file = <<>> /\ ckpt = NoState /\ disk = EmptyDisk
  /\ proc = [p \in Procs |-> Down] /\ holder = Nobody
  /\ made = 0 /\ frames = 0 /\ acked = {} /\ tears = 0 /\ fails = 0
  /\ unsaved = 0

-----------------------------------------------------------------------------
(* Frames and the parser.                                                  *)

AtLeastOne(n) == IF n = 0 THEN 1 ELSE n

\* One batch: its first LSN, its first event and how many events it has.
Batch(first, event, n) == [first |-> first, event |-> event, n |-> n]
Cell(half, batch) == [half |-> half, batch |-> batch]
Frame(batch) == <<Cell("head", batch), Cell("tail", batch)>>

RowsOf(batch) ==
  {[lsn |-> batch.first + i, event |-> batch.event + i] : i \in 0..(batch.n - 1)}

NextAfter(batch) == batch.first + AtLeastOne(batch.n)

\* A whole frame starts at cell i + 1.
FrameAt(i) ==
  /\ i + 2 <= Len(file)
  /\ file[i + 1].half = "head"
  /\ file[i + 2] = Cell("tail", file[i + 1].batch)

\* parse_frames_with_consumed on the bytes after `from`: how many frames, and
\* the frames, up to the first that is torn.
Consumed(from) ==
  Max({k \in 0..Len(file) : \A j \in 0..(k - 1) : FrameAt(from + 2 * j)})

ParsedFrom(from) == {file[from + 2 * j + 1].batch : j \in 0..(Consumed(from) - 1)}

ParsedRows(from) == UNION {RowsOf(b) : b \in ParsedFrom(from)}

\* The LSN after the last parsed frame, `otherwise` if there is none.
NextFrom(from, otherwise) ==
  IF Consumed(from) = 0 THEN otherwise
  ELSE NextAfter(file[from + 2 * Consumed(from) - 1].batch)

-----------------------------------------------------------------------------
(* The handle of one process: s is its record in proc.                     *)

TailOf(s) == s.next - 1
Greater(a, b) == IF a < b THEN b ELSE a

MutReplayAlwaysFromCheckpoint(s, from) ==
  IF from >= TailOf(s) THEN {}
  ELSE {r \in ParsedRows(s.cklen) : r.lsn > from}

\* replay_after.
Replay(s, from) ==
  IF from >= TailOf(s) THEN {}
  ELSE {r \in ParsedRows(IF from >= s.cklsn THEN s.cklen ELSE 0) : r.lsn > from}

MutRefreshForgetsNext(s) ==
  [s EXCEPT !.scanned = s.scanned + 2 * Consumed(s.scanned)]

\* refresh_from_disk_after: the new handle ...
RefreshedWal(s) ==
  IF Len(file) = s.scanned THEN s
  ELSE IF Len(file) < s.scanned
       THEN [s EXCEPT !.scanned = 2 * Consumed(0), !.next = NextFrom(0, 1)]
       ELSE [s EXCEPT !.scanned = s.scanned + 2 * Consumed(s.scanned),
                      !.next = NextFrom(s.scanned, s.next)]

\* ... and the rows after `from` that it brought.
BroughtRows(s, from) ==
  {r \in ParsedRows(IF Len(file) < s.scanned THEN 0 ELSE s.scanned) :
     r.lsn > from /\ Len(file) # s.scanned}

\* rebuild_volatile_from_current_locked: a new MemTable replayed from the log.
Rebuilt(s) ==
  [s EXCEPT !.mem = Replay(s, s.cur.wm), !.tail = Greater(s.tail, TailOf(s))]

\* replace_from_disk where persist::load finds a manifest; while none was ever saved
\* (version 0; a save is whole once it succeeded) the one in memory stays.
Found(cur) == IF disk.version = 0 THEN cur ELSE disk

MutRefreshedDropsTail(s) ==
  LET w == RefreshedWal(s)
  IN  IF disk.version # s.cur.version \/ disk.wm # s.cur.wm
      THEN Rebuilt([w EXCEPT !.cur = Found(s.cur)])
      ELSE [w EXCEPT !.tail = Greater(s.tail, TailOf(w))]

\* refresh_from_disk_locked.
Refreshed(s) ==
  LET w == RefreshedWal(s)
  IN  IF disk.version # s.cur.version \/ disk.wm # s.cur.wm
      THEN Rebuilt([w EXCEPT !.cur = Found(s.cur)])
      ELSE IF TailOf(w) # s.tail
           THEN [w EXCEPT !.mem = w.mem \cup {r \in BroughtRows(s, s.tail) : r.lsn > w.cur.wm},
                          !.tail = Greater(s.tail, TailOf(w))]
           ELSE w

MutOpenForgetsNext ==
  LET st == IF ckpt.len <= Len(file) THEN ckpt ELSE NoState
  IN  [Down EXCEPT !.up = "opened",
                   !.next = NextFrom(st.len, 1),
                   !.scanned = st.len + 2 * Consumed(st.len),
                   !.cklen = st.len, !.cklsn = st.lsn, !.cur = disk]

\* Wal::open and the load of manifest.dat.
Opened ==
  LET st == IF ckpt.len <= Len(file) THEN ckpt ELSE NoState
  IN  [Down EXCEPT !.up = "opened",
                   !.next = NextFrom(st.len, Greater(1, st.next)),
                   !.scanned = st.len + 2 * Consumed(st.len),
                   !.cklen = st.len, !.cklsn = st.lsn, !.cur = disk]

Recovered(s) ==
  [Rebuilt([RefreshedWal(s) EXCEPT !.cur = Found(s.cur)]) EXCEPT !.up = "up"]

-----------------------------------------------------------------------------
(* The operations.                                                         *)

LockFree == holder = Nobody

Open(p) ==
  /\ LockFree /\ proc[p].up = "down"
  /\ proc' = [proc EXCEPT ![p] = Opened]
  /\ UNCHANGED <<file, ckpt, disk, holder, counters>>

Recover(p) ==
  /\ LockFree /\ proc[p].up = "opened"
  /\ proc' = [proc EXCEPT ![p] = Recovered(proc[p])]
  /\ UNCHANGED <<file, ckpt, disk, holder, counters>>

\* A read in p refreshes first when it gets the lock.
ReadRefresh(p) ==
  /\ LockFree /\ proc[p].up = "up"
  /\ proc' = [proc EXCEPT ![p] = Refreshed(proc[p])]
  /\ UNCHANGED <<file, ckpt, disk, holder, counters>>

CanIngest(p, n) ==
  /\ LockFree /\ proc[p].up = "up"
  /\ frames < MaxFrames /\ made + n <= MaxEvents
  /\ frames' = frames + 1 /\ made' = made + n

NewBatch(s, n) == Batch(s.next, made + 1, n)

\* The process after append_committed(n records): the handle moves on by one
\* frame, and by at least one LSN, whatever the file system answered.
Appended(s, n) ==
  [s EXCEPT !.mem = s.mem \cup RowsOf(NewBatch(s, n)),
            !.scanned = s.scanned + 2,
            !.next = NextAfter(NewBatch(s, n)),
            !.tail = Greater(s.tail, NextAfter(NewBatch(s, n)) - 1)]

Ingest(p, n) ==
  LET s == Refreshed(proc[p])
  IN  /\ CanIngest(p, n)
      /\ file' = file \o Frame(NewBatch(s, n))
      /\ proc' = [proc EXCEPT ![p] = Appended(s, n)]
      /\ acked' = acked \cup RowsOf(NewBatch(s, n))
      /\ UNCHANGED <<ckpt, disk, holder, tears, fails, unsaved>>

\* The process dies inside append_committed: the whole frame reached the file
\* but nobody was told ...
CrashBeforeAck(p, n) ==
  /\ CanIngest(p, n)
  /\ file' = file \o Frame(NewBatch(Refreshed(proc[p]), n))
  /\ proc' = [proc EXCEPT ![p] = Down]
  /\ UNCHANGED <<ckpt, disk, holder, acked, tears, fails, unsaved>>

\* ... or half of it did.
CrashTearsFrame(p, n) ==
  /\ tears < MaxTears /\ tears' = tears + 1
  /\ CanIngest(p, n)
  /\ file' = Append(file, Cell("head", NewBatch(Refreshed(proc[p]), n)))
  /\ proc' = [proc EXCEPT ![p] = Down]
  /\ UNCHANGED <<ckpt, disk, holder, acked, fails, unsaved>>

\* write_all or sync_data fails, the result is dropped, the caller is acked.
IngestWriteFails(p, n) ==
  LET s == Refreshed(proc[p])
  IN  /\ fails < MaxFails /\ fails' = fails + 1
      /\ CanIngest(p, n)
      /\ file' \in {file, Append(file, Cell("head", NewBatch(s, n)))}
      /\ proc' = [proc EXCEPT ![p] = Appended(s, n)]
      /\ acked' = acked \cup RowsOf(NewBatch(s, n))
      /\ UNCHANGED <<ckpt, disk, holder, tears, unsaved>>

MutWatermarkOffByOne(p) ==
  LET s == Refreshed(proc[p])
      newest == Max({r.lsn : r \in s.mem})
      next == [version |-> s.cur.version + 1, wm |-> newest - 1,
               events |-> s.cur.events \cup {r.event : r \in s.mem}]
  IN  /\ LockFree /\ proc[p].up = "up"
      /\ s.mem # {}
      /\ disk' = next
      /\ proc' = [proc EXCEPT ![p] = [s EXCEPT !.cur = next]]
      /\ holder' = p
      /\ UNCHANGED <<file, ckpt, counters>>

\* flush_memtable_locked up to and including the manifest, whose save may fail
\* without anybody noticing.
FlushCommit(p) ==
  LET s == Refreshed(proc[p])
      newest == Max({r.lsn : r \in s.mem})
      next == [version |-> s.cur.version + 1, wm |-> newest,
               events |-> s.cur.events \cup {r.event : r \in s.mem}]
  IN  /\ LockFree /\ proc[p].up = "up"
      /\ s.mem # {}
      /\ \/ disk' = next /\ UNCHANGED unsaved
         \/ unsaved < MaxUnsaved /\ unsaved' = unsaved + 1 /\ UNCHANGED disk
      /\ proc' = [proc EXCEPT ![p] = [s EXCEPT !.cur = next]]
      /\ holder' = p
      /\ UNCHANGED <<file, ckpt, made, frames, acked, tears, fails>>

\* checkpoint(watermark), refused unless the watermark is the committed tail;
\* then the eviction, with no reader holding rows back.
FlushCheckpoint(p) ==
  LET s == proc[p]
      accepted == s.cur.wm = TailOf(s)
      evicted == [s EXCEPT !.mem = {r \in s.mem : r.lsn > s.cur.wm}]
  IN  /\ holder = p /\ holder' = Nobody
      /\ IF accepted
         THEN /\ ckpt' = [len |-> s.scanned, lsn |-> s.cur.wm, next |-> s.next]
              /\ proc' = [proc EXCEPT ![p] = [evicted EXCEPT !.cklen = s.scanned,
                                                             !.cklsn = s.cur.wm]]
         ELSE proc' = [proc EXCEPT ![p] = evicted] /\ UNCHANGED ckpt
      /\ UNCHANGED <<file, disk, counters>>

\* The process dies between operations, or between a flush's commit and its
\* checkpoint; its lock is cleared.
Crash(p) ==
  /\ proc[p].up # "down" /\ (LockFree \/ holder = p)
  /\ proc' = [proc EXCEPT ![p] = Down]
  /\ holder' = Nobody
  /\ UNCHANGED <<file, ckpt, disk, counters>>

Next ==
  \E p \in Procs :
    \/ Open(p) \/ Recover(p) \/ ReadRefresh(p) \/ Crash(p)
    \/ FlushCommit(p) \/ FlushCheckpoint(p)
    \/ \E n \in 0..2 : \/ Ingest(p, n) \/ CrashBeforeAck(p, n)
                       \/ CrashTearsFrame(p, n) \/ IngestWriteFails(p, n)

Spec == Init /\ [][Next]_vars

-----------------------------------------------------------------------------
(* Properties.                                                             *)

Rows == [lsn : Nat \ {0}, event : Events]
Batches == [first : Nat, event : Nat, n : 0..2]
DiskStates == [version : Nat, wm : Nat, events : SUBSET Events]

\* Type correctness of the log, the files beside it and every process.
TypeOK ==
  /\ \A i \in DOMAIN file : file[i].half \in {"head", "tail"} /\ file[i].batch \in Batches
  /\ ckpt.len \in Nat /\ ckpt.lsn \in Nat /\ ckpt.next \in Nat
  /\ disk.version \in Nat /\ disk.wm \in Nat /\ disk.events \subseteq Events
  /\ \A p \in Procs :
       /\ proc[p].up \in {"down", "opened", "up"} /\ proc[p].mem \subseteq Rows
       /\ \A n \in {proc[p].next, proc[p].scanned, proc[p].cklen, proc[p].cklsn,
                    proc[p].tail} : n \in Nat
  /\ holder \in Procs \cup {Nobody}
  /\ made \in 0..MaxEvents /\ frames \in 0..MaxFrames
  /\ tears \in 0..MaxTears /\ fails \in 0..MaxFails /\ unsaved \in 0..MaxUnsaved
  /\ acked \subseteq Rows

EventsIn(rows) == {r.event : r \in rows}
Sound == tears = 0 /\ fails = 0

\* What a process in state s serves to a new snapshot: the segments of its
\* manifest and the MemTable range above the watermark, up to its tail.
Served(s) == s.cur.events \cup EventsIn({r \in s.mem : s.cur.wm < r.lsn /\ r.lsn <= s.tail})

\* What survives if everything stops now.
AfterRestart == Served(Recovered(Opened))

\* "Acked data is not lost, half batches are not replayed": every acked event is
\* there after a restart of the whole system, at every moment, including between
\* a flush's commit and its checkpoint.
AckedDurable == EventsIn(acked) \subseteq AfterRestart

\* ... which the code guarantees as long as no frame was torn and no log write
\* failed, whatever the processes do, wherever they crash, and even if a manifest
\* is not saved.
AckedDurableWhenSound == Sound => AckedDurable

\* Even after a torn frame, nothing before the tear is lost: the checkpoint never
\* makes recovery skip an intact frame that is not in a segment.
PrefixDurable == fails = 0 => EventsIn(ParsedRows(0)) \subseteq AfterRestart

\* A process that gets the lock and refreshes serves every event any process has
\* acked, although it learned of them only through the files.
LockHolderSeesAll ==
  Sound /\ LockFree =>
    \A p \in Procs : proc[p].up = "up" => EventsIn(acked) \subseteq Served(Refreshed(proc[p]))

\* Two events never get the same LSN, however many processes append and restart.
LsnUnique == Sound => \A r, s \in acked : r.lsn = s.lsn => r = s

\* An event is served from one place only: the MemTable range of a process that
\* refreshed never repeats what is in the segments of its manifest.
ServedOnce ==
  Sound /\ LockFree =>
    \A p \in Procs : proc[p].up = "up" =>
      LET s == Refreshed(proc[p])
      IN  \A r \in s.mem : s.cur.wm < r.lsn => r.event \notin s.cur.events

\* Neither two events under one LSN nor one event from two places.
NothingTwice == LsnUnique /\ ServedOnce

=============================================================================
