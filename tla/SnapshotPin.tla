------------------------------ MODULE SnapshotPin ------------------------------
(***************************************************************************)
(* The snapshot protocol of yt-manifest (`Current`, `ReaderSlot`,          *)
(* `Snapshot`) and the parts of the write coordinator that depend on it:   *)
(* flush and its gated MemTable eviction, compaction, and the physical     *)
(* reclamation of dead segments, all inside one process.                   *)
(*                                                                         *)
(* Every atomic load, store or critical section of pin_snapshot is a step  *)
(* of its own.  Writers hold `write_lock` from their first to their last   *)
(* step, so there is a single writer thread; readers never take that lock. *)
(* The contents of a segment are the LSNs of its rows: which event a row   *)
(* carries is irrelevant to whether a snapshot can still reach it.         *)
(*                                                                         *)
(* A reader's slot in the registry is a function of the reader's progress: *)
(* it is active from Announce until Drop or Retry, its pinned_version is   *)
(* tentative until StoreVersion and its retained_watermark is 0 until      *)
(* StoreWatermark.                                                         *)
(***************************************************************************)
EXTENDS Naturals, FiniteSets

CONSTANTS Readers,     \* threads that pin snapshots
          MaxLsn,      \* bound: events ever appended
          MaxSeg,      \* bound: segment ids ever allocated
          MaxVersion   \* bound: manifest versions ever committed

ASSUME BoundsAreNat ==
  MaxLsn \in Nat /\ MaxSeg \in Nat /\ MaxVersion \in Nat

VARIABLES current,     \* Current.inner: the live manifest
          epoch,       \* Current.global_epoch
          tail,        \* Current.committed_tail
          mem,         \* LSNs of the rows in the MemTable
          rows,        \* rows[s]: LSNs written to segment s, immutable once written
          files,       \* ids of the segment files that exist
          nextSeg,     \* next_segment_id
          dead,        \* dead_set
          wpc,         \* where the thread holding write_lock is
          draft,       \* the manifest it is about to commit
          gone,        \* the inputs of the compaction it is committing
          scan,        \* its walk over the reader registry
          pc,          \* where each reader is in pin_snapshot
          held,        \* the manifest each reader dereferenced
          localEpoch,  \* the epoch it read first
          minVersion,  \* the slot's observed_min_version
          live         \* Snapshot.live_lsn

readerVars == <<pc, held, localEpoch, minVersion, live>>
storeVars == <<rows, files, nextSeg>>
vars == <<current, epoch, tail, mem, rows, files, nextSeg, dead, wpc, draft,
          gone, scan, pc, held, localEpoch, minVersion, live>>

Lsns == 1..MaxLsn
SegIds == 1..MaxSeg
Manifests == [version : Nat, segs : SUBSET SegIds, wm : Nat]
EmptyManifest == [version |-> 0, segs |-> {}, wm |-> 0]

ReaderSteps == {"idle", "retry", "epoch", "registering", "announced", "deref",
                "versioned", "stored", "sameptr", "validated", "pinned"}
WriterSteps == {"idle", "appended", "flush", "compact", "chunk", "bumpflush",
                "bumpcompact", "bumpchunk", "gate", "gating", "evict", "bury",
                "safing", "reclaim"}

NoScan == [todo |-> {}, min |-> 0]

Init ==
  /\ current = EmptyManifest /\ epoch = 0 /\ tail = 0 /\ mem = {}
  /\ rows = [s \in SegIds |-> {}] /\ files = {} /\ nextSeg = 1 /\ dead = {}
  /\ wpc = "idle" /\ draft = EmptyManifest /\ gone = {}
  /\ scan = NoScan
  /\ pc = [r \in Readers |-> "idle"]
  /\ held = [r \in Readers |-> EmptyManifest]
  /\ localEpoch = [r \in Readers |-> 0]
  /\ minVersion = [r \in Readers |-> 0]
  /\ live = [r \in Readers |-> 0]

-----------------------------------------------------------------------------
(* The registry as the writer sees it.                                     *)

Tentative(r) == pc[r] \in {"announced", "deref"}
Settled(r) == pc[r] \in {"versioned", "stored", "sameptr", "validated", "pinned"}
Active(r) == Tentative(r) \/ Settled(r)

\* The readers mutex is held for the whole walk of safe_version and of
\* min_retained_watermark: no slot is pushed meanwhile.
RegistryLocked == wpc \in {"gating", "safing"}

\* What one slot contributes to safe_version.
VersionFloor(r) == IF Settled(r) THEN held[r].version ELSE minVersion[r]

\* What one slot contributes to min_retained_watermark: a tentative slot
\* stops every eviction, and a slot whose watermark is not stored yet reads 0.
WatermarkFloor(r) ==
  IF Settled(r) /\ pc[r] # "versioned" THEN held[r].wm ELSE 0

Lower(a, b) == IF b < a THEN b ELSE a

-----------------------------------------------------------------------------
(* Readers: pin_snapshot, one step per shared access, and Snapshot::drop.  *)

GoTo(r, step) == pc' = [pc EXCEPT ![r] = step]

\* Leaving pin_snapshot's loop body or dropping the Snapshot: the slot becomes
\* inactive, its reader's locals go away.
Leave(r, step) ==
  /\ GoTo(r, step)
  /\ held' = [held EXCEPT ![r] = EmptyManifest]
  /\ localEpoch' = [localEpoch EXCEPT ![r] = 0]
  /\ minVersion' = [minVersion EXCEPT ![r] = 0]
  /\ live' = [live EXCEPT ![r] = 0]

SharedUnchanged ==
  UNCHANGED <<current, epoch, tail, mem, rows, files, nextSeg, dead, wpc,
              draft, gone, scan>>

ReadEpoch(r) ==
  /\ pc[r] \in {"idle", "retry"}
  /\ GoTo(r, "epoch")
  /\ localEpoch' = [localEpoch EXCEPT ![r] = epoch]
  /\ SharedUnchanged /\ UNCHANGED <<held, minVersion, live>>

ReadMinVersion(r) ==
  /\ pc[r] = "epoch"
  /\ GoTo(r, "registering")
  /\ minVersion' = [minVersion EXCEPT ![r] = current.version]
  /\ SharedUnchanged /\ UNCHANGED <<held, localEpoch, live>>

Announce(r) ==
  /\ pc[r] = "registering"
  /\ ~RegistryLocked
  /\ GoTo(r, "announced")
  /\ SharedUnchanged /\ UNCHANGED <<held, localEpoch, minVersion, live>>

Deref(r) ==
  /\ pc[r] = "announced"
  /\ GoTo(r, "deref")
  /\ held' = [held EXCEPT ![r] = current]
  /\ SharedUnchanged /\ UNCHANGED <<localEpoch, minVersion, live>>

StoreVersion(r) ==
  /\ pc[r] = "deref"
  /\ GoTo(r, "versioned")
  /\ SharedUnchanged /\ UNCHANGED <<held, localEpoch, minVersion, live>>

StoreWatermark(r) ==
  /\ pc[r] = "versioned"
  /\ GoTo(r, "stored")
  /\ SharedUnchanged /\ UNCHANGED <<held, localEpoch, minVersion, live>>

\* Manifest versions are never reused within a process, so two manifests are
\* equal exactly when they are the same Arc.
CheckPointer(r) ==
  /\ pc[r] = "stored"
  /\ IF current = held[r]
     THEN GoTo(r, "sameptr") /\ UNCHANGED <<held, localEpoch, minVersion, live>>
     ELSE Leave(r, "retry")
  /\ SharedUnchanged

\* A validation that compares with a stale epoch never succeeds after a commit.
MutStaleEpoch(r) ==
  /\ pc[r] = "sameptr"
  /\ IF epoch = 0
     THEN GoTo(r, "validated") /\ UNCHANGED <<held, localEpoch, minVersion, live>>
     ELSE Leave(r, "retry")
  /\ SharedUnchanged

CheckEpoch(r) ==
  /\ pc[r] = "sameptr"
  /\ IF epoch = localEpoch[r]
     THEN GoTo(r, "validated") /\ UNCHANGED <<held, localEpoch, minVersion, live>>
     ELSE Leave(r, "retry")
  /\ SharedUnchanged

LoadLive(r) ==
  /\ pc[r] = "validated"
  /\ GoTo(r, "pinned")
  /\ live' = [live EXCEPT ![r] = tail]
  /\ SharedUnchanged /\ UNCHANGED <<held, localEpoch, minVersion>>

Drop(r) ==
  /\ pc[r] = "pinned"
  /\ Leave(r, "idle")
  /\ SharedUnchanged

PinStep(r) ==
  \/ ReadMinVersion(r) \/ Announce(r) \/ Deref(r) \/ StoreVersion(r)
  \/ StoreWatermark(r) \/ CheckPointer(r) \/ CheckEpoch(r) \/ LoadLive(r)
  \/ (pc[r] = "retry" /\ ReadEpoch(r))

-----------------------------------------------------------------------------
(* The writer.                                                             *)

\* ingest: the row enters the MemTable before the WAL acknowledges it ...
AppendRow ==
  /\ wpc = "idle" /\ tail < MaxLsn
  /\ mem' = mem \cup {tail + 1}
  /\ wpc' = "appended"
  /\ UNCHANGED <<current, epoch, tail, storeVars, dead, draft, gone, scan, readerVars>>

MutAdvanceTwice ==
  /\ wpc = "appended"
  /\ tail' = tail + 2
  /\ wpc' = "idle"
  /\ UNCHANGED <<current, epoch, mem, storeVars, dead, draft, gone, scan, readerVars>>

\* ... and advance_committed_tail publishes it.
AdvanceTail ==
  /\ wpc = "appended"
  /\ tail' = tail + 1
  /\ wpc' = "idle"
  /\ UNCHANGED <<current, epoch, mem, storeVars, dead, draft, gone, scan, readerVars>>

NewSegment(content) ==
  /\ nextSeg <= MaxSeg
  /\ rows' = [rows EXCEPT ![nextSeg] = content]
  /\ files' = files \cup {nextSeg}
  /\ nextSeg' = nextSeg + 1

NextManifest(segs, wm) ==
  /\ current.version < MaxVersion
  /\ draft' = [version |-> current.version + 1, segs |-> segs, wm |-> wm]

\* flush_memtable_locked up to the commit: every row still in memory goes into
\* the new segment, and the watermark becomes the newest of them.
BeginFlush ==
  /\ wpc = "idle"
  /\ NewSegment(mem)
  /\ \E newest \in mem :
       /\ \A l \in mem : l <= newest
       /\ NextManifest(current.segs \cup {nextSeg}, newest)
  /\ wpc' = "flush"
  /\ UNCHANGED <<current, epoch, tail, mem, dead, gone, scan, readerVars>>

MutCompactLosesRows(inputs) ==
  /\ wpc = "idle"
  /\ NewSegment({})
  /\ NextManifest((current.segs \ inputs) \cup {nextSeg}, current.wm)
  /\ gone' = inputs
  /\ wpc' = "compact"
  /\ UNCHANGED <<current, epoch, tail, mem, dead, scan, readerVars>>

\* compaction_finish up to the commit.  A plan may name segments that an
\* earlier compaction already replaced: they contribute no row, but they are
\* still put on the dead list.
BeginCompact(inputs) ==
  /\ wpc = "idle"
  /\ NewSegment(UNION {rows[s] : s \in inputs \cap current.segs})
  /\ NextManifest((current.segs \ inputs) \cup {nextSeg}, current.wm)
  /\ gone' = inputs
  /\ wpc' = "compact"
  /\ UNCHANGED <<current, epoch, tail, mem, dead, scan, readerVars>>

\* commit_delete and commit_upgrade: a new version with the same segments.
BeginChunk ==
  /\ wpc = "idle"
  /\ NextManifest(current.segs, current.wm)
  /\ wpc' = "chunk"
  /\ UNCHANGED <<current, epoch, tail, mem, storeVars, dead, gone, scan, readerVars>>

BumpOf == [flush |-> "bumpflush", compact |-> "bumpcompact", chunk |-> "bumpchunk"]
AfterBump == [bumpflush |-> "gate", bumpcompact |-> "bury", bumpchunk |-> "idle"]

\* Current::commit: the pointer first ...
SwapCurrent ==
  /\ wpc \in DOMAIN BumpOf
  /\ current' = draft
  /\ wpc' = BumpOf[wpc]
  /\ UNCHANGED <<epoch, tail, mem, storeVars, dead, draft, gone, scan, readerVars>>

\* ... then the epoch.
BumpEpoch ==
  /\ wpc \in DOMAIN AfterBump
  /\ epoch' = epoch + 1
  /\ wpc' = AfterBump[wpc]
  /\ draft' = EmptyManifest
  /\ UNCHANGED <<current, tail, mem, storeVars, dead, gone, scan, readerVars>>

\* min_retained_watermark: lock the registry, start from the current watermark.
StartGate ==
  /\ wpc = "gate"
  /\ scan' = [todo |-> {r \in Readers : Active(r)}, min |-> current.wm]
  /\ wpc' = "gating"
  /\ UNCHANGED <<current, epoch, tail, mem, storeVars, dead, draft, gone, readerVars>>

\* One slot of the walk, of either kind.  A slot dropped since the walk began
\* is inactive and contributes nothing.
VisitSlot(r, floor) ==
  /\ r \in scan.todo
  /\ scan' = [todo |-> scan.todo \ {r},
              min |-> IF Active(r) THEN Lower(scan.min, floor) ELSE scan.min]
  /\ UNCHANGED <<current, epoch, tail, mem, storeVars, dead, wpc, draft, gone, readerVars>>

VisitWatermark(r) == wpc = "gating" /\ VisitSlot(r, WatermarkFloor(r))

EndGate ==
  /\ wpc = "gating" /\ scan.todo = {}
  /\ wpc' = "evict"
  /\ UNCHANGED <<current, epoch, tail, mem, storeVars, dead, draft, gone, scan, readerVars>>

MutEvictToWatermark ==
  /\ wpc = "evict"
  /\ mem' = {l \in mem : l > current.wm}
  /\ wpc' = "idle" /\ scan' = NoScan
  /\ UNCHANGED <<current, epoch, tail, storeVars, dead, draft, gone, readerVars>>

\* evict_up_to(gate).
Evict ==
  /\ wpc = "evict"
  /\ mem' = {l \in mem : l > scan.min}
  /\ wpc' = "idle" /\ scan' = NoScan
  /\ UNCHANGED <<current, epoch, tail, storeVars, dead, draft, gone, readerVars>>

\* compaction_finish after the commit: the inputs are dead as of the version
\* that dropped them.
Bury ==
  /\ wpc = "bury"
  /\ dead' = dead \cup {[seg |-> s, v |-> current.version] : s \in gone}
  /\ gone' = {}
  /\ wpc' = "idle"
  /\ UNCHANGED <<current, epoch, tail, mem, storeVars, draft, scan, readerVars>>

\* reclaim: safe_version first ...
StartReclaim ==
  /\ wpc = "idle" /\ dead # {}
  /\ scan' = [todo |-> {r \in Readers : Active(r)}, min |-> current.version]
  /\ wpc' = "safing"
  /\ UNCHANGED <<current, epoch, tail, mem, storeVars, dead, draft, gone, readerVars>>

VisitVersion(r) == wpc = "safing" /\ VisitSlot(r, VersionFloor(r))

EndSafe ==
  /\ wpc = "safing" /\ scan.todo = {}
  /\ wpc' = "reclaim"
  /\ UNCHANGED <<current, epoch, tail, mem, storeVars, dead, draft, gone, scan, readerVars>>

MutReclaimAnyVersion(d) == d.seg \notin current.segs

\* can_reclaim on the version computed above.
CanReclaim(d) == d.v <= scan.min /\ d.seg \notin current.segs

\* ... then every dead resource that passes is unlinked and forgotten.
Unlink(d) ==
  /\ wpc = "reclaim" /\ d \in dead /\ CanReclaim(d)
  /\ files' = files \ {d.seg}
  /\ dead' = dead \ {d}
  /\ UNCHANGED <<current, epoch, tail, mem, rows, nextSeg, wpc, draft, gone, scan, readerVars>>

EndReclaim ==
  /\ wpc = "reclaim"
  /\ \A d \in dead : ~CanReclaim(d)
  /\ wpc' = "idle" /\ scan' = NoScan
  /\ UNCHANGED <<current, epoch, tail, mem, storeVars, dead, draft, gone, readerVars>>

\* The steps of an operation that already holds write_lock.
WriterContinues ==
  \/ AdvanceTail \/ SwapCurrent \/ BumpEpoch
  \/ StartGate \/ (\E r \in Readers : VisitWatermark(r)) \/ EndGate \/ Evict
  \/ Bury
  \/ (\E r \in Readers : VisitVersion(r)) \/ EndSafe
  \/ (\E d \in dead : Unlink(d)) \/ EndReclaim

WriterBegins ==
  \/ AppendRow \/ BeginFlush \/ BeginChunk \/ StartReclaim
  \/ \E inputs \in SUBSET (1..(nextSeg - 1)) : BeginCompact(inputs)

Next ==
  \/ WriterBegins \/ WriterContinues
  \/ \E r \in Readers : ReadEpoch(r) \/ PinStep(r) \/ Drop(r)

Spec == Init /\ [][Next]_vars

\* A thread inside pin_snapshot keeps running, and a writer that took the lock
\* finishes; nobody has to start an operation or to drop a snapshot.
Fairness ==
  /\ \A r \in Readers : WF_vars(PinStep(r))
  /\ WF_vars(WriterContinues)

FairSpec == Spec /\ Fairness

-----------------------------------------------------------------------------
(* Properties.                                                             *)

\* Type correctness of the protocol's state.
TypeOK ==
  /\ current \in Manifests /\ draft \in Manifests
  /\ epoch \in Nat
  /\ tail \in 0..MaxLsn /\ (wpc = "appended" => tail < MaxLsn)
  /\ mem \subseteq Lsns
  /\ rows \in [SegIds -> SUBSET Lsns] /\ files \subseteq SegIds
  /\ nextSeg \in 1..(MaxSeg + 1)
  /\ dead \subseteq [seg : SegIds, v : Nat]
  /\ wpc \in WriterSteps /\ gone \subseteq SegIds
  /\ scan \in [todo : SUBSET Readers, min : Nat]
  /\ pc \in [Readers -> ReaderSteps]
  /\ held \in [Readers -> Manifests]
  /\ localEpoch \in [Readers -> Nat] /\ minVersion \in [Readers -> Nat]
  /\ live \in [Readers -> Nat]

Holding(r) == pc[r] = "deref" \/ Settled(r)

\* What a reader of manifest m bounded by `upTo` can actually fetch: the
\* segment files that still exist and the MemTable range (wm, upTo].
Readable(m, upTo) ==
  (UNION {rows[s] : s \in m.segs \cap files}) \cup {l \in mem : m.wm < l /\ l <= upTo}

\* A pinned snapshot never loses an event: every LSN up to its live_lsn stays
\* readable until it is dropped, whatever is flushed, evicted, compacted or
\* reclaimed meanwhile (the flush-evict hole of the MemTable header comment).
SnapshotComplete ==
  \A r \in Readers : pc[r] = "pinned" => 1..live[r] \subseteq Readable(held[r], live[r])

\* Reclamation never unlinks a segment file that the manifest of a reader
\* names, from the moment the reader dereferenced `current`.
HeldSegmentsOnDisk ==
  \A r \in Readers : Holding(r) => held[r].segs \subseteq files

\* Between any two steps of a flush or a compaction the committed state still
\* covers every acknowledged event: no window in which a row is neither in a
\* live segment nor in memory.
CurrentComplete == 1..tail \subseteq Readable(current, tail)

\* Once writers leave the store alone, a reader whose validation failed gets its
\* snapshot: nothing but a concurrent commit or a walk of the registry can hold
\* pin_snapshot up, and a stale slot of its own never does.
PinTerminates ==
  <>[](wpc = "idle") => \A r \in Readers : pc[r] = "retry" ~> pc[r] = "pinned"

=============================================================================
