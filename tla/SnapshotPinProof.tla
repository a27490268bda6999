--------------------------- MODULE SnapshotPinProof ---------------------------
(***************************************************************************)
(* The safety of the snapshot protocol for any number of readers, events,  *)
(* segments and versions.                                                  *)
(*                                                                         *)
(* None of the properties of SnapshotPin is inductive.  What makes them    *)
(* true is a chain of facts about both sides of the registry: the floor a  *)
(* walk has computed so far is below what every reader it has passed       *)
(* holds (ScanInv), a dead segment is only named by manifests older than   *)
(* its v_dead (DeadInv), and the MemTable keeps everything above the       *)
(* watermark of the oldest manifest in use (CurrentInv, ReaderInv).        *)
(***************************************************************************)
EXTENDS SnapshotPin, TLAPS

\* The segments of manifest m exist and hold every row up to its watermark.
Covered(m) ==
  /\ m.segs \subseteq files
  /\ \A s \in m.segs : s < nextSeg
  /\ \A l \in 1..m.wm : \E s \in m.segs : l \in rows[s]

\* Every acknowledged row above manifest m's watermark is in memory.
MemKeeps(m) == \A l \in Lsns : m.wm < l /\ l <= tail => l \in mem

CurrentInv ==
  /\ Covered(current) /\ MemKeeps(current) /\ current.wm <= tail
  /\ wpc = "appended" => tail + 1 \in mem /\ \A l \in mem : l <= tail + 1
  /\ wpc # "appended" => \A l \in mem : l <= tail
  /\ mem # {} => tail \in mem \/ wpc = "appended"

DraftInv ==
  wpc \in {"flush", "compact", "chunk"} =>
    /\ Covered(draft) /\ MemKeeps(draft) /\ draft.wm <= tail
    /\ draft.version = current.version + 1
    /\ \A d \in dead : d.seg \notin draft.segs
    /\ wpc = "compact" => \A s \in gone : s < nextSeg /\ s \notin draft.segs

ReaderInv ==
  \A r \in Readers :
    /\ pc[r] \in {"registering", "announced"} => minVersion[r] <= current.version
    /\ Holding(r) =>
         /\ Covered(held[r]) /\ MemKeeps(held[r])
         /\ minVersion[r] <= held[r].version
         /\ held[r].version <= current.version
         /\ held[r].version = current.version => held[r] = current
    /\ pc[r] = "pinned" => live[r] <= tail

ScanInv ==
  /\ wpc \in {"gating", "evict"} =>
       /\ scan.min <= current.wm
       /\ \A r \in Readers : Holding(r) /\ r \notin scan.todo => scan.min <= held[r].wm
  /\ wpc \in {"safing", "reclaim"} =>
       /\ scan.min <= current.version
       /\ \A r \in Readers : Holding(r) /\ r \notin scan.todo => scan.min <= held[r].version
  /\ wpc \in {"evict", "reclaim"} => scan.todo = {}

DeadInv ==
  /\ \A d \in dead :
       /\ d.seg \notin current.segs /\ d.seg < nextSeg
       /\ \A r \in Readers : Holding(r) /\ d.seg \in held[r].segs => held[r].version < d.v
  /\ wpc \in {"bumpcompact", "bury"} =>
       \A s \in gone : s < nextSeg /\ s \notin current.segs

IInv == TypeOK /\ CurrentInv /\ DraftInv /\ ReaderInv /\ ScanInv /\ DeadInv

-----------------------------------------------------------------------------
(* Type correctness.                                                       *)

\* The empty store is well typed.
LEMMA TypeInit == Init => TypeOK
  BY BoundsAreNat DEF Init, TypeOK, Manifests, EmptyManifest, SegIds, Lsns,
     NoScan, ReaderSteps, WriterSteps

\* Every step of a reader or of the writer keeps the state well typed.
LEMMA TypeNext == TypeOK /\ [Next]_vars => TypeOK'
<1> SUFFICES ASSUME TypeOK, [Next]_vars PROVE TypeOK'
  OBVIOUS
<1> USE BoundsAreNat DEF TypeOK, Manifests, EmptyManifest, SegIds, Lsns, NoScan,
    ReaderSteps, WriterSteps, readerVars, storeVars
<1>1. ASSUME NEW r \in Readers, ReadEpoch(r) \/ PinStep(r) \/ Drop(r)
      PROVE  TypeOK'
  <2>1. CASE ReadEpoch(r)
    BY <2>1 DEF ReadEpoch, GoTo, SharedUnchanged
  <2>2. CASE ReadMinVersion(r)
    BY <2>2 DEF ReadMinVersion, GoTo, SharedUnchanged
  <2>3. CASE Announce(r)
    BY <2>3 DEF Announce, GoTo, SharedUnchanged
  <2>4. CASE Deref(r)
    BY <2>4 DEF Deref, GoTo, SharedUnchanged
  <2>5. CASE StoreVersion(r)
    BY <2>5 DEF StoreVersion, GoTo, SharedUnchanged
  <2>6. CASE StoreWatermark(r)
    BY <2>6 DEF StoreWatermark, GoTo, SharedUnchanged
  <2>7. CASE CheckPointer(r)
    <3>1. CASE current = held[r]
      BY <2>7, <3>1 DEF CheckPointer, GoTo, SharedUnchanged
    <3>2. CASE current # held[r]
      <4>1. Leave(r, "retry") /\ SharedUnchanged
        BY <2>7, <3>2 DEF CheckPointer
      <4>2. QED
        BY <4>1 DEF Leave, GoTo, SharedUnchanged
    <3>3. QED
      BY <3>1, <3>2
  <2>8. CASE CheckEpoch(r)
    <3>1. CASE epoch = localEpoch[r]
      BY <2>8, <3>1 DEF CheckEpoch, GoTo, SharedUnchanged
    <3>2. CASE epoch # localEpoch[r]
      <4>1. Leave(r, "retry") /\ SharedUnchanged
        BY <2>8, <3>2 DEF CheckEpoch
      <4>2. QED
        BY <4>1 DEF Leave, GoTo, SharedUnchanged
    <3>3. QED
      BY <3>1, <3>2
  <2>9. CASE LoadLive(r)
    BY <2>9 DEF LoadLive, GoTo, SharedUnchanged
  <2>10. CASE Drop(r)
    BY <2>10 DEF Drop, Leave, GoTo, SharedUnchanged
  <2>11. QED
    BY <1>1, <2>1, <2>2, <2>3, <2>4, <2>5, <2>6, <2>7, <2>8, <2>9, <2>10 DEF PinStep
<1>2. CASE AppendRow
  BY <1>2 DEF AppendRow
<1>3. CASE AdvanceTail
  BY <1>3 DEF AdvanceTail
<1>4. CASE BeginFlush
  <2>1. rows' \in [SegIds -> SUBSET Lsns] /\ files' \subseteq SegIds
        /\ nextSeg' \in 1..(MaxSeg + 1)
    BY <1>4 DEF BeginFlush, NewSegment
  <2>2. draft' \in Manifests
    BY <1>4 DEF BeginFlush, NewSegment, NextManifest
  <2>3. QED
    BY <1>4, <2>1, <2>2 DEF BeginFlush
<1>5. CASE BeginChunk
  BY <1>5 DEF BeginChunk, NextManifest
<1>6. ASSUME NEW inputs \in SUBSET (1..(nextSeg - 1)), BeginCompact(inputs)
      PROVE  TypeOK'
  BY <1>6 DEF BeginCompact, NewSegment, NextManifest
<1>7. CASE SwapCurrent
  BY <1>7 DEF SwapCurrent, BumpOf
<1>8. CASE BumpEpoch
  BY <1>8 DEF BumpEpoch, AfterBump
<1>9. CASE StartGate
  BY <1>9 DEF StartGate
<1>10. CASE Evict
  BY <1>10 DEF Evict
<1>11. CASE Bury
  BY <1>11 DEF Bury
<1>12. CASE StartReclaim
  BY <1>12 DEF StartReclaim
<1>13. CASE EndGate \/ EndSafe \/ EndReclaim
  <2>1. CASE EndGate
    BY <2>1 DEF EndGate
  <2>2. CASE EndSafe
    BY <2>2 DEF EndSafe
  <2>3. CASE EndReclaim
    BY <2>3 DEF EndReclaim
  <2>4. QED
    BY <1>13, <2>1, <2>2, <2>3
<1>14. ASSUME NEW r \in Readers, VisitWatermark(r) \/ VisitVersion(r)
       PROVE  TypeOK'
  <2>1. WatermarkFloor(r) \in Nat /\ VersionFloor(r) \in Nat
    BY DEF WatermarkFloor, VersionFloor
  <2>2. ASSUME NEW floor \in Nat, VisitSlot(r, floor)
        PROVE  TypeOK'
    <3>1. Lower(scan.min, floor) \in Nat
      BY <2>2 DEF Lower
    <3>2. scan' \in [todo : SUBSET Readers, min : Nat]
      BY <2>2, <3>1 DEF VisitSlot
    <3>3. QED
      BY <2>2, <3>2 DEF VisitSlot
  <2>3. QED
    BY <1>14, <2>1, <2>2 DEF VisitWatermark, VisitVersion
<1>15. ASSUME NEW d \in dead, Unlink(d)
       PROVE  TypeOK'
  BY <1>15 DEF Unlink
<1>16. CASE UNCHANGED vars
  BY <1>16 DEF vars
<1>17. QED
  BY <1>1, <1>2, <1>3, <1>4, <1>5, <1>6, <1>7, <1>8, <1>9, <1>10, <1>11, <1>12,
     <1>13, <1>14, <1>15, <1>16 DEF Next, WriterBegins, WriterContinues

\* Every state of the protocol is well typed, for all values of the bounds and
\* any set of readers.
THEOREM TypeCorrect == Spec => []TypeOK
<1>1. QED
  BY TypeInit, TypeNext, PTL DEF Spec

-----------------------------------------------------------------------------
(* The inductive invariant.                                                *)

\* What a step of reader r can do to r's own state, in the three ways that
\* matter to the invariant: r ends up without a manifest, r keeps the manifest
\* it had, or r takes the current one.
LetsGo(r) ==
  \/ pc'[r] \in {"idle", "retry", "epoch"}
  \/ pc'[r] = "registering" /\ minVersion'[r] = current.version
  \/ pc[r] = "registering" /\ pc'[r] = "announced" /\ minVersion'[r] = minVersion[r]

Keeps(r) ==
  /\ pc[r] \in {"deref", "versioned", "stored", "sameptr", "validated", "pinned"}
  /\ pc'[r] \in {"versioned", "stored", "sameptr", "validated", "pinned"}
  /\ held'[r] = held[r] /\ minVersion'[r] = minVersion[r]
  /\ pc'[r] = "pinned" => live'[r] = tail

Takes(r) ==
  /\ pc[r] = "announced" /\ pc'[r] = "deref"
  /\ held'[r] = current /\ minVersion'[r] = minVersion[r]

OthersUnchanged(r) ==
  \A q \in Readers \ {r} :
    pc'[q] = pc[q] /\ held'[q] = held[q] /\ minVersion'[q] = minVersion[q]
      /\ live'[q] = live[q]

\* Classification of the reader steps.
LEMMA ReaderStepKinds ==
  ASSUME TypeOK, NEW r \in Readers, ReadEpoch(r) \/ PinStep(r) \/ Drop(r)
  PROVE  SharedUnchanged /\ OthersUnchanged(r) /\ (LetsGo(r) \/ Keeps(r) \/ Takes(r))
<1> USE DEF TypeOK, OthersUnchanged, LetsGo, Keeps, Takes, GoTo
<1>1. ASSUME NEW step \in {"idle", "retry"}, Leave(r, step)
      PROVE  OthersUnchanged(r) /\ LetsGo(r)
  BY <1>1 DEF Leave
<1>2. CASE ReadEpoch(r)
  BY <1>2 DEF ReadEpoch
<1>3. CASE ReadMinVersion(r)
  BY <1>3 DEF ReadMinVersion
<1>4. CASE Announce(r)
  BY <1>4 DEF Announce
<1>5. CASE Deref(r)
  BY <1>5 DEF Deref
<1>6. CASE StoreVersion(r)
  BY <1>6 DEF StoreVersion
<1>7. CASE StoreWatermark(r)
  BY <1>7 DEF StoreWatermark
<1>8. CASE CheckPointer(r)
  <2>1. CASE current = held[r]
    BY <1>8, <2>1 DEF CheckPointer
  <2>2. CASE current # held[r]
    BY <1>1, <1>8, <2>2 DEF CheckPointer
  <2>3. QED
    BY <2>1, <2>2
<1>9. CASE CheckEpoch(r)
  <2>1. CASE epoch = localEpoch[r]
    BY <1>9, <2>1 DEF CheckEpoch
  <2>2. CASE epoch # localEpoch[r]
    BY <1>1, <1>9, <2>2 DEF CheckEpoch
  <2>3. QED
    BY <2>1, <2>2
<1>10. CASE LoadLive(r)
  BY <1>10 DEF LoadLive
<1>11. CASE Drop(r)
  BY <1>1, <1>11 DEF Drop
<1>12. QED
  BY <1>2, <1>3, <1>4, <1>5, <1>6, <1>7, <1>8, <1>9, <1>10, <1>11 DEF PinStep

\* A reader step keeps the invariant: it changes no shared state, and the
\* manifest a reader takes is the current one, about which CurrentInv, ScanInv
\* and DeadInv say what ReaderInv needs.
LEMMA ReaderStepInv ==
  ASSUME IInv, TypeOK', NEW r \in Readers, ReadEpoch(r) \/ PinStep(r) \/ Drop(r)
  PROVE  IInv'
<1>1. SharedUnchanged /\ OthersUnchanged(r) /\ (LetsGo(r) \/ Keeps(r) \/ Takes(r))
  BY ReaderStepKinds DEF IInv
<1>2. CurrentInv' /\ DraftInv'
  BY <1>1 DEF IInv, CurrentInv, DraftInv, Covered, MemKeeps, SharedUnchanged
<1>3. ReaderInv'
  <2>1. ASSUME NEW q \in Readers
        PROVE  /\ pc'[q] \in {"registering", "announced"} => minVersion'[q] <= current'.version
               /\ Holding(q)' =>
                    /\ Covered(held[q])' /\ MemKeeps(held[q])'
                    /\ minVersion'[q] <= held'[q].version
                    /\ held'[q].version <= current'.version
                    /\ held'[q].version = current'.version => held'[q] = current'
               /\ pc'[q] = "pinned" => live'[q] <= tail'
    <3> USE <1>1 DEF IInv, ReaderInv, Holding, Settled, Covered, MemKeeps, SharedUnchanged
    <3>1. CASE q # r
      BY <3>1 DEF OthersUnchanged
    <3>2. CASE q = r /\ LetsGo(r)
      BY <3>2 DEF LetsGo, TypeOK, Manifests
    <3>3. CASE q = r /\ Keeps(r)
      BY <3>3 DEF Keeps, TypeOK
    <3>4. CASE q = r /\ Takes(r)
      BY <3>4 DEF Takes, CurrentInv, TypeOK, Manifests
    <3>5. QED
      BY <3>1, <3>2, <3>3, <3>4
  <2>2. QED
    BY <2>1 DEF ReaderInv
<1>4. ScanInv'
  <2>1. ASSUME NEW q \in Readers, Holding(q)', q \notin scan.todo
        PROVE  /\ wpc \in {"gating", "evict"} => scan.min <= held'[q].wm
               /\ wpc \in {"safing", "reclaim"} => scan.min <= held'[q].version
    <3> USE <1>1, <2>1 DEF IInv, ScanInv, Holding, Settled
    <3>1. CASE q # r
      BY <3>1 DEF OthersUnchanged
    <3>2. CASE q = r /\ LetsGo(r)
      BY <3>2 DEF LetsGo
    <3>3. CASE q = r /\ Keeps(r)
      BY <3>3 DEF Keeps
    <3>4. CASE q = r /\ Takes(r)
      BY <3>4 DEF Takes
    <3>5. QED
      BY <3>1, <3>2, <3>3, <3>4
  <2>2. QED
    BY <1>1, <2>1 DEF IInv, ScanInv, SharedUnchanged
<1>5. DeadInv'
  <2>1. ASSUME NEW q \in Readers, Holding(q)', NEW d \in dead, d.seg \in held'[q].segs
        PROVE  held'[q].version < d.v
    <3> USE <1>1, <2>1 DEF IInv, DeadInv, Holding, Settled
    <3>1. CASE q # r
      BY <3>1 DEF OthersUnchanged
    <3>2. CASE q = r /\ LetsGo(r)
      BY <3>2 DEF LetsGo
    <3>3. CASE q = r /\ Keeps(r)
      BY <3>3 DEF Keeps
    <3>4. CASE q = r /\ Takes(r)
      BY <3>4 DEF Takes
    <3>5. QED
      BY <3>1, <3>2, <3>3, <3>4
  <2>2. QED
    BY <1>1, <2>1 DEF IInv, DeadInv, SharedUnchanged
<1>6. QED
  BY <1>2, <1>3, <1>4, <1>5 DEF IInv

\* The start of a flush: the new segment takes every row in memory, the old
\* segments have the rest, so the draft covers all rows up to its watermark.
LEMMA FlushDraftCovered ==
  ASSUME TypeOK, TypeOK', CurrentInv, BeginFlush
  PROVE  /\ Covered(draft)' /\ draft'.wm = tail /\ draft'.version = current.version + 1
         /\ draft'.segs = current.segs \cup {nextSeg}
<1>1. PICK newest \in mem : /\ \A l \in mem : l <= newest
                            /\ NextManifest(current.segs \cup {nextSeg}, newest)
  BY DEF BeginFlush
<1>2. newest = tail
  BY <1>1 DEF BeginFlush, CurrentInv, TypeOK, Lsns
<1>3. /\ draft'.wm = tail /\ draft'.version = current.version + 1
      /\ draft'.segs = current.segs \cup {nextSeg}
  BY <1>1, <1>2 DEF NextManifest
<1>4. /\ nextSeg \in SegIds /\ rows' = [rows EXCEPT ![nextSeg] = mem]
      /\ files' = files \cup {nextSeg} /\ nextSeg' = nextSeg + 1
  BY DEF BeginFlush, NewSegment, TypeOK, SegIds
<1>5. draft'.segs \subseteq files'
  BY <1>3, <1>4 DEF CurrentInv, Covered
<1>6. \A s \in draft'.segs : s < nextSeg'
  BY <1>3, <1>4 DEF CurrentInv, Covered, TypeOK, SegIds, Manifests
<1>7. ASSUME NEW l \in 1..tail
      PROVE  \E s \in draft'.segs : l \in rows'[s]
  <2>1. CASE l <= current.wm
    <3>1. PICK s \in current.segs : l \in rows[s]
      BY <2>1 DEF CurrentInv, Covered, TypeOK, Manifests
    <3>2. s # nextSeg /\ s \in SegIds
      BY DEF CurrentInv, Covered, TypeOK, Manifests, SegIds
    <3>3. l \in rows'[s]
      BY <1>4, <3>1, <3>2 DEF TypeOK
    <3>4. QED
      BY <1>3, <3>3
  <2>2. CASE l > current.wm
    <3>0. l \in Lsns /\ current.wm < l /\ l <= tail
      BY <2>2, BoundsAreNat DEF TypeOK, Lsns, Manifests
    <3>1. l \in mem
      BY <3>0 DEF CurrentInv, MemKeeps
    <3>2. l \in rows'[nextSeg]
      BY <1>4, <3>1 DEF TypeOK
    <3>3. QED
      BY <1>3, <3>2
  <2>3. QED
    BY <2>1, <2>2 DEF TypeOK, Manifests
<1>8. QED
  BY <1>3, <1>5, <1>6, <1>7 DEF Covered

\* The start of a compaction: what the inputs held is in the output.
LEMMA CompactDraftCovered ==
  ASSUME TypeOK, TypeOK', CurrentInv, NEW inputs \in SUBSET (1..(nextSeg - 1)),
         BeginCompact(inputs)
  PROVE  /\ Covered(draft)' /\ draft'.wm = current.wm
         /\ draft'.version = current.version + 1
         /\ draft'.segs = (current.segs \ inputs) \cup {nextSeg}
<1> DEFINE content == UNION {rows[s] : s \in inputs \cap current.segs}
<1>1. /\ draft'.wm = current.wm /\ draft'.version = current.version + 1
      /\ draft'.segs = (current.segs \ inputs) \cup {nextSeg}
  BY DEF BeginCompact, NextManifest
<1>2. /\ nextSeg \in SegIds /\ rows' = [rows EXCEPT ![nextSeg] = content]
      /\ files' = files \cup {nextSeg} /\ nextSeg' = nextSeg + 1
  BY DEF BeginCompact, NewSegment, TypeOK, SegIds
<1>3. draft'.segs \subseteq files' /\ \A s \in draft'.segs : s < nextSeg'
  BY <1>1, <1>2 DEF CurrentInv, Covered, TypeOK, SegIds, Manifests
<1>4. ASSUME NEW l \in 1..current.wm
      PROVE  \E s \in draft'.segs : l \in rows'[s]
  <2>1. PICK s \in current.segs : l \in rows[s]
    BY DEF CurrentInv, Covered
  <2>2. s # nextSeg /\ s \in SegIds
    BY DEF CurrentInv, Covered, TypeOK, Manifests, SegIds
  <2>3. CASE s \in inputs
    <3>1. l \in content
      BY <2>1, <2>3
    <3>2. l \in rows'[nextSeg]
      BY <1>2, <3>1 DEF TypeOK
    <3>3. QED
      BY <1>1, <3>2
  <2>4. CASE s \notin inputs
    <3>1. l \in rows'[s]
      BY <1>2, <2>1, <2>2 DEF TypeOK
    <3>2. QED
      BY <1>1, <2>4, <3>1
  <2>5. QED
    BY <2>3, <2>4
<1>5. QED
  BY <1>1, <1>3, <1>4 DEF Covered

\* The steps that leave the manifest, the rows, the MemTable and every reader
\* alone: they can only disturb the registry walk and the dead list.
LEMMA QuietStep ==
  ASSUME IInv, UNCHANGED <<current, tail, mem, rows, files, nextSeg, readerVars>>,
         wpc # "appended", wpc' \notin {"appended", "flush", "compact", "chunk"}
  PROVE  CurrentInv' /\ DraftInv' /\ ReaderInv'
<1>1. CurrentInv' /\ DraftInv'
  BY DEF IInv, CurrentInv, DraftInv, Covered, MemKeeps
<1>2. \A r \in Readers : Holding(r)' = Holding(r)
  BY DEF Holding, Settled, readerVars
<1>3. ASSUME NEW r \in Readers, Holding(r)
      PROVE  Covered(held[r])' /\ MemKeeps(held[r])'
  BY <1>3 DEF IInv, ReaderInv, Covered, MemKeeps, readerVars
<1>4. QED
  BY <1>1, <1>2, <1>3 DEF IInv, ReaderInv, readerVars

\* The steps of the writer that are quiet: the end of a commit, the walks of the
\* registry, and what is filed on the dead list.
QuietWriterStep ==
  \/ BumpEpoch \/ StartGate \/ StartReclaim \/ EndGate \/ EndSafe \/ EndReclaim \/ Bury
  \/ \E r \in Readers : VisitWatermark(r) \/ VisitVersion(r)

\* They leave alone what the current manifest, the draft and the readers rely on.
LEMMA QuietWriterStepInv ==
  ASSUME IInv, QuietWriterStep
  PROVE  CurrentInv' /\ DraftInv' /\ ReaderInv'
<1>1. /\ UNCHANGED <<current, tail, mem, rows, files, nextSeg, readerVars>>
      /\ wpc # "appended" /\ wpc' \notin {"appended", "flush", "compact", "chunk"}
  BY DEF QuietWriterStep, BumpEpoch, AfterBump, StartGate, StartReclaim, EndGate, EndSafe,
         EndReclaim, Bury, VisitWatermark, VisitVersion, VisitSlot, storeVars
<1>2. QED
  BY <1>1, QuietStep

\* The dead list is safe as long as nothing joins it and the manifests stay.
LEMMA DeadFrame ==
  ASSUME DeadInv, UNCHANGED <<current, nextSeg, readerVars>>, dead' \subseteq dead,
         wpc' \notin {"bumpcompact", "bury"}
  PROVE  DeadInv'
<1>1. \A r \in Readers : Holding(r)' = Holding(r)
  BY DEF Holding, Settled, readerVars
<1>2. QED
  BY <1>1 DEF DeadInv, readerVars

\* The floors: what a slot contributes to a walk never exceeds what its reader
\* holds.
LEMMA FloorsBelowHeld ==
  ASSUME TypeOK, ReaderInv, NEW r \in Readers
  PROVE  /\ WatermarkFloor(r) \in Nat /\ VersionFloor(r) \in Nat
         /\ Holding(r) => /\ WatermarkFloor(r) <= held[r].wm
                          /\ VersionFloor(r) <= held[r].version
<1>1. held[r].wm \in Nat /\ held[r].version \in Nat /\ minVersion[r] \in Nat
  BY DEF TypeOK, Manifests
<1>2. Holding(r) => minVersion[r] <= held[r].version
  BY DEF ReaderInv
<1>3. WatermarkFloor(r) \in Nat /\ WatermarkFloor(r) <= held[r].wm
  <2>1. CASE Settled(r) /\ pc[r] # "versioned"
    BY <1>1, <2>1 DEF WatermarkFloor
  <2>2. CASE ~(Settled(r) /\ pc[r] # "versioned")
    BY <1>1, <2>2 DEF WatermarkFloor
  <2>3. QED
    BY <2>1, <2>2
<1>4. VersionFloor(r) \in Nat /\ (Holding(r) => VersionFloor(r) <= held[r].version)
  <2>1. CASE Settled(r)
    BY <1>1, <2>1 DEF VersionFloor
  <2>2. CASE ~Settled(r)
    BY <1>1, <1>2, <2>2 DEF VersionFloor
  <2>3. QED
    BY <2>1, <2>2
<1>5. QED
  BY <1>3, <1>4

\* One step of a walk lowers the minimum to the visited slot's floor.
LEMMA VisitLowers ==
  ASSUME TypeOK, NEW r \in Readers, NEW floor \in Nat, VisitSlot(r, floor)
  PROVE  /\ scan'.min \in Nat /\ scan'.min <= scan.min
         /\ Holding(r) => scan'.min <= floor
         /\ scan'.todo = scan.todo \ {r}
<1>1. Holding(r) => Active(r)
  BY DEF Holding, Active, Tentative
<1>2. scan.min \in Nat
  BY DEF TypeOK
<1>3. CASE Active(r)
  <2>1. scan' = [todo |-> scan.todo \ {r}, min |-> Lower(scan.min, floor)]
    BY <1>3 DEF VisitSlot
  <2>2. QED
    BY <1>2, <2>1 DEF Lower
<1>4. CASE ~Active(r)
  <2>1. scan' = [todo |-> scan.todo \ {r}, min |-> scan.min]
    BY <1>4 DEF VisitSlot
  <2>2. QED
    BY <1>1, <1>2, <1>4, <2>1
<1>5. QED
  BY <1>3, <1>4

\* A walk keeps its minimum below what every reader it has passed holds.
LEMMA VisitKeepsScan ==
  ASSUME TypeOK, ReaderInv, ScanInv, NEW r \in Readers,
         VisitWatermark(r) \/ VisitVersion(r)
  PROVE  ScanInv'
<1>1. \A q \in Readers : Holding(q)' = Holding(q)
  BY DEF VisitWatermark, VisitVersion, VisitSlot, Holding, Settled, readerVars
<1>2. /\ current.wm \in Nat /\ current.version \in Nat /\ scan.min \in Nat
      /\ \A q \in Readers : held[q].wm \in Nat /\ held[q].version \in Nat
  BY DEF TypeOK, Manifests
<1>3. CASE VisitWatermark(r)
  <2>1. /\ wpc = "gating" /\ UNCHANGED <<current, wpc, readerVars>>
        /\ VisitSlot(r, WatermarkFloor(r))
    BY <1>3 DEF VisitWatermark, VisitSlot
  <2>2. /\ scan'.min \in Nat /\ scan'.min <= scan.min
        /\ Holding(r) => scan'.min <= WatermarkFloor(r)
        /\ scan'.todo = scan.todo \ {r}
    BY <2>1, FloorsBelowHeld, VisitLowers
  <2>3. Holding(r) => scan'.min <= held[r].wm
    BY <1>2, <2>2, FloorsBelowHeld
  <2>4. scan'.min <= current.wm
    BY <1>2, <2>1, <2>2 DEF ScanInv
  <2>5. ASSUME NEW q \in Readers, Holding(q), q \notin scan'.todo
        PROVE  scan'.min <= held[q].wm
    BY <1>2, <2>1, <2>2, <2>3, <2>5 DEF ScanInv
  <2>6. QED
    BY <1>1, <2>1, <2>4, <2>5 DEF ScanInv, readerVars
<1>4. CASE VisitVersion(r)
  <2>1. /\ wpc = "safing" /\ UNCHANGED <<current, wpc, readerVars>>
        /\ VisitSlot(r, VersionFloor(r))
    BY <1>4 DEF VisitVersion, VisitSlot
  <2>2. /\ scan'.min \in Nat /\ scan'.min <= scan.min
        /\ Holding(r) => scan'.min <= VersionFloor(r)
        /\ scan'.todo = scan.todo \ {r}
    BY <2>1, FloorsBelowHeld, VisitLowers
  <2>3. Holding(r) => scan'.min <= held[r].version
    BY <1>2, <2>2, FloorsBelowHeld
  <2>4. scan'.min <= current.version
    BY <1>2, <2>1, <2>2 DEF ScanInv
  <2>5. ASSUME NEW q \in Readers, Holding(q), q \notin scan'.todo
        PROVE  scan'.min <= held[q].version
    BY <1>2, <2>1, <2>2, <2>3, <2>5 DEF ScanInv
  <2>6. QED
    BY <1>1, <2>1, <2>4, <2>5 DEF ScanInv, readerVars
<1>5. QED
  BY <1>3, <1>4

\* The writer's steps, by what they can disturb.
LEMMA WriterStepInv ==
  ASSUME IInv, TypeOK', WriterBegins \/ WriterContinues
  PROVE  IInv'
<1>0. TypeOK /\ TypeOK' /\ CurrentInv /\ ReaderInv /\ ScanInv
  BY DEF IInv
<1>0a. QuietWriterStep => CurrentInv' /\ DraftInv' /\ ReaderInv'
  BY QuietWriterStepInv
<1> USE DEF IInv, TypeOK, Manifests, Lsns, SegIds, readerVars, storeVars
<1>1. CASE AppendRow
  <2> USE <1>1 DEF AppendRow
  <2>1. CurrentInv' /\ DraftInv'
    BY DEF CurrentInv, DraftInv, Covered, MemKeeps
  <2>2. ReaderInv' /\ ScanInv' /\ DeadInv'
    BY DEF ReaderInv, ScanInv, DeadInv, Holding, Settled, Covered, MemKeeps
  <2>3. QED
    BY <2>1, <2>2
<1>2. CASE AdvanceTail
  <2> USE <1>2 DEF AdvanceTail
  <2>1. CurrentInv' /\ DraftInv'
    <3>1. tail + 1 \in mem /\ (\A l \in mem : l <= tail + 1)
      BY DEF CurrentInv
    <3>2. MemKeeps(current)'
      BY <3>1 DEF CurrentInv, MemKeeps
    <3>3. Covered(current)' /\ current'.wm <= tail'
      BY DEF CurrentInv, Covered
    <3>4. QED
      BY <3>1, <3>2, <3>3 DEF CurrentInv, DraftInv
  <2>2. ReaderInv'
    BY DEF ReaderInv, CurrentInv, Holding, Settled, Covered, MemKeeps
  <2>3. ScanInv' /\ DeadInv'
    BY DEF ScanInv, DeadInv, Holding, Settled
  <2>4. QED
    BY <2>1, <2>2, <2>3
<1>3. CASE BeginFlush
  <2>0. /\ Covered(draft)' /\ draft'.wm = tail /\ draft'.version = current.version + 1
        /\ draft'.segs = current.segs \cup {nextSeg}
    BY <1>0, <1>3, FlushDraftCovered
  <2> USE <1>3 DEF BeginFlush, NewSegment
  <2>1. CurrentInv'
    BY DEF CurrentInv, Covered, MemKeeps
  <2>2. DraftInv'
    <3>1. MemKeeps(draft)'
      BY <2>0 DEF MemKeeps
    <3>2. \A d \in dead : d.seg \notin draft'.segs
      BY <2>0 DEF DeadInv
    <3>3. QED
      BY <2>0, <3>1, <3>2 DEF DraftInv
  <2>3. ReaderInv'
    BY DEF ReaderInv, Holding, Settled, Covered, MemKeeps
  <2>4. ScanInv' /\ DeadInv'
    BY DEF ScanInv, DeadInv, Holding, Settled
  <2>5. QED
    BY <2>1, <2>2, <2>3, <2>4
<1>4. ASSUME NEW inputs \in SUBSET (1..(nextSeg - 1)), BeginCompact(inputs)
      PROVE  IInv'
  <2>0. /\ Covered(draft)' /\ draft'.wm = current.wm
        /\ draft'.version = current.version + 1
        /\ draft'.segs = (current.segs \ inputs) \cup {nextSeg}
    BY <1>0, <1>4, CompactDraftCovered
  <2> USE <1>4 DEF BeginCompact, NewSegment
  <2>1. CurrentInv'
    BY DEF CurrentInv, Covered, MemKeeps
  <2>2. DraftInv'
    <3>1. MemKeeps(draft)'
      BY <2>0 DEF MemKeeps, CurrentInv
    <3>2. \A d \in dead : d.seg \notin draft'.segs
      BY <2>0 DEF DeadInv
    <3>3. \A s \in gone' : s < nextSeg' /\ s \notin draft'.segs
      BY <2>0
    <3>4. QED
      BY <2>0, <3>1, <3>2, <3>3 DEF DraftInv, CurrentInv
  <2>3. ReaderInv'
    <3>1. \A r \in Readers : Holding(r)' = Holding(r)
      BY DEF Holding, Settled
    <3>2. ASSUME NEW r \in Readers, Holding(r)
          PROVE  Covered(held[r])' /\ MemKeeps(held[r])'
      BY <3>2 DEF ReaderInv, Covered, MemKeeps
    <3>3. QED
      BY <3>1, <3>2 DEF ReaderInv
  <2>4. ScanInv' /\ DeadInv'
    BY DEF ScanInv, DeadInv, Holding, Settled
  <2>5. QED
    BY <2>1, <2>2, <2>3, <2>4
<1>5. CASE BeginChunk
  <2> USE <1>5 DEF BeginChunk, NextManifest
  <2>1. CurrentInv' /\ DraftInv'
    BY DEF CurrentInv, DraftInv, DeadInv, Covered, MemKeeps
  <2>2. ReaderInv' /\ ScanInv' /\ DeadInv'
    BY DEF ReaderInv, ScanInv, DeadInv, Holding, Settled, Covered, MemKeeps
  <2>3. QED
    BY <2>1, <2>2
<1>6. CASE SwapCurrent
  <2> USE <1>6 DEF SwapCurrent, BumpOf
  <2>1. CurrentInv' /\ DraftInv'
    BY DEF CurrentInv, DraftInv, Covered, MemKeeps
  <2>2. ReaderInv'
    BY DEF ReaderInv, DraftInv, Holding, Settled, Covered, MemKeeps
  <2>3. ScanInv' /\ DeadInv'
    BY DEF ScanInv, DeadInv, DraftInv, Holding, Settled
  <2>4. QED
    BY <2>1, <2>2, <2>3
<1>7. CASE BumpEpoch
  <2>1. CurrentInv' /\ DraftInv' /\ ReaderInv'
    BY <1>0a, <1>7 DEF QuietWriterStep
  <2> USE <1>7 DEF BumpEpoch, AfterBump
  <2>2. ScanInv' /\ DeadInv'
    BY DEF ScanInv, DeadInv, Holding, Settled
  <2>3. QED
    BY <2>1, <2>2
<1>8. CASE StartGate \/ StartReclaim
  <2>1. CurrentInv' /\ DraftInv' /\ ReaderInv'
    BY <1>0a, <1>8 DEF QuietWriterStep
  <2> USE <1>8 DEF StartGate, StartReclaim
  <2>2. ScanInv'
    BY DEF ScanInv, Active, Tentative, Holding, Settled
  <2>3. DeadInv'
    BY DeadFrame
  <2>4. QED
    BY <2>1, <2>2, <2>3
<1>9. ASSUME NEW r \in Readers, VisitWatermark(r) \/ VisitVersion(r)
      PROVE  IInv'
  <2>1. CurrentInv' /\ DraftInv' /\ ReaderInv'
    BY <1>0a, <1>9 DEF QuietWriterStep
  <2>2. DeadInv'
    BY <1>9, DeadFrame DEF VisitWatermark, VisitVersion, VisitSlot
  <2>3. ScanInv'
    BY <1>0, <1>9, VisitKeepsScan
  <2>4. QED
    BY <1>9, <2>1, <2>2, <2>3
<1>10. CASE EndGate \/ EndSafe \/ EndReclaim
  <2>1. CurrentInv' /\ DraftInv' /\ ReaderInv'
    BY <1>0a, <1>10 DEF QuietWriterStep
  <2> USE <1>10 DEF EndGate, EndSafe, EndReclaim
  <2>2. ScanInv'
    BY DEF ScanInv, NoScan, Holding, Settled
  <2>3. DeadInv'
    BY DeadFrame
  <2>4. QED
    BY <2>1, <2>2, <2>3
<1>11. CASE Evict
  <2> USE <1>11 DEF Evict
  <2>1. CurrentInv' /\ DraftInv'
    BY DEF CurrentInv, DraftInv, ScanInv, Covered, MemKeeps
  <2>2. ReaderInv'
    <3>1. \A r \in Readers : Holding(r)' = Holding(r)
      BY DEF Holding, Settled
    <3>2. ASSUME NEW r \in Readers, Holding(r)
          PROVE  Covered(held[r])' /\ MemKeeps(held[r])'
      <4>1. scan.min <= held[r].wm /\ scan.min \in Nat /\ held[r].wm \in Nat
        BY <3>2 DEF ScanInv
      <4>2. MemKeeps(held[r])'
        BY <3>2, <4>1 DEF ReaderInv, MemKeeps
      <4>3. QED
        BY <3>2, <4>2 DEF ReaderInv, Covered
    <3>3. QED
      BY <3>1, <3>2 DEF ReaderInv
  <2>3. ScanInv' /\ DeadInv'
    BY DEF ScanInv, DeadInv, Holding, Settled
  <2>4. QED
    BY <2>1, <2>2, <2>3
<1>12. CASE Bury
  <2>1. CurrentInv' /\ DraftInv' /\ ReaderInv'
    BY <1>0a, <1>12 DEF QuietWriterStep
  <2> USE <1>12 DEF Bury
  <2>2. ScanInv'
    BY DEF ScanInv, Holding, Settled
  <2>3. DeadInv'
    BY DEF DeadInv, ReaderInv, Holding, Settled
  <2>4. QED
    BY <2>1, <2>2, <2>3
<1>13. ASSUME NEW d \in dead, Unlink(d)
       PROVE  IInv'
  <2> USE <1>13 DEF Unlink, CanReclaim
  <2>1. CurrentInv' /\ DraftInv'
    BY DEF CurrentInv, DraftInv, Covered, MemKeeps
  <2>2. ReaderInv'
    <3>1. \A r \in Readers : Holding(r)' = Holding(r)
      BY DEF Holding, Settled
    <3>2. ASSUME NEW r \in Readers, Holding(r)
          PROVE  d.seg \notin held[r].segs
      <4>1. scan.min <= held[r].version
        BY <3>2 DEF ScanInv
      <4>2. d.seg \in held[r].segs => held[r].version < d.v
        BY <3>2 DEF DeadInv
      <4>3. scan.min \in Nat /\ held[r].version \in Nat /\ d.v \in Nat
        OBVIOUS
      <4>4. QED
        BY <4>1, <4>2, <4>3
    <3>3. QED
      BY <3>1, <3>2 DEF ReaderInv, Covered, MemKeeps
  <2>3. ScanInv' /\ DeadInv'
    BY DEF ScanInv, DeadInv, Holding, Settled
  <2>4. QED
    BY <2>1, <2>2, <2>3
<1>14. QED
  BY <1>1, <1>2, <1>3, <1>4, <1>5, <1>6, <1>7, <1>8, <1>9, <1>10, <1>11, <1>12, <1>13
  DEF WriterBegins, WriterContinues

\* The empty store satisfies the invariant.
LEMMA InitInv == Init => IInv
<1> SUFFICES ASSUME Init PROVE IInv
  OBVIOUS
<1>1. TypeOK
  BY TypeInit
<1>2. CurrentInv /\ DraftInv /\ ReaderInv /\ ScanInv /\ DeadInv
  BY DEF Init, EmptyManifest, CurrentInv, DraftInv, ReaderInv, ScanInv, DeadInv,
     Covered, MemKeeps, Lsns, Holding, Settled
<1>3. QED
  BY <1>1, <1>2 DEF IInv

\* Every step keeps it.
LEMMA NextInv == IInv /\ [Next]_vars => IInv'
<1> SUFFICES ASSUME IInv, [Next]_vars PROVE IInv'
  OBVIOUS
<1>1. TypeOK'
  BY TypeNext DEF IInv
<1>2. CASE WriterBegins \/ WriterContinues
  BY <1>1, <1>2, WriterStepInv
<1>3. CASE \E r \in Readers : ReadEpoch(r) \/ PinStep(r) \/ Drop(r)
  BY <1>1, <1>3, ReaderStepInv
<1>4. CASE UNCHANGED vars
  BY <1>1, <1>4 DEF vars, readerVars, IInv, TypeOK, CurrentInv, DraftInv, ReaderInv,
     ScanInv, DeadInv, Covered, MemKeeps, Holding, Settled
<1>5. QED
  BY <1>2, <1>3, <1>4 DEF Next

\* The inductive invariant holds in every state of every behaviour.
THEOREM Invariance == Spec => []IInv
<1>1. QED
  BY InitInv, NextInv, PTL DEF Spec

-----------------------------------------------------------------------------
(* What the invariant gives.                                               *)

\* A manifest whose segments are on disk and whose tail is in memory covers
\* every row up to any acknowledged LSN.
LEMMA CoveredReadable ==
  ASSUME TypeOK, NEW m \in Manifests, Covered(m), MemKeeps(m), NEW upTo \in Nat, upTo <= tail
  PROVE  1..upTo \subseteq Readable(m, upTo)
<1> SUFFICES ASSUME NEW l \in 1..upTo PROVE l \in Readable(m, upTo)
  OBVIOUS
<1>1. l \in Lsns /\ l <= tail /\ l <= upTo /\ l \in Nat /\ m.wm \in Nat
  BY BoundsAreNat DEF TypeOK, Lsns, Manifests
<1>2. CASE l <= m.wm
  <2>1. PICK s \in m.segs : l \in rows[s]
    BY <1>1, <1>2 DEF Covered
  <2>2. s \in m.segs \cap files
    BY <2>1 DEF Covered
  <2>3. QED
    BY <2>1, <2>2 DEF Readable
<1>3. CASE m.wm < l
  BY <1>1, <1>3 DEF MemKeeps, Readable
<1>4. QED
  BY <1>1, <1>2, <1>3

\* A pinned snapshot can read every event up to its live LSN until it is
\* dropped, whatever the writer flushes, evicts, compacts or reclaims.
THEOREM PinnedSnapshotsComplete == Spec => []SnapshotComplete
<1>1. IInv => SnapshotComplete
  <2> SUFFICES ASSUME IInv, NEW r \in Readers, pc[r] = "pinned"
               PROVE  1..live[r] \subseteq Readable(held[r], live[r])
    BY DEF SnapshotComplete
  <2>1. /\ TypeOK /\ held[r] \in Manifests /\ live[r] \in Nat /\ live[r] <= tail
        /\ Covered(held[r]) /\ MemKeeps(held[r])
    BY DEF IInv, TypeOK, ReaderInv, Holding, Settled
  <2>2. QED
    BY <2>1, CoveredReadable
<1>2. QED
  BY <1>1, Invariance, PTL

\* Reclamation never unlinks a segment file named by a manifest that a reader
\* has dereferenced, even before that reader's slot carries its version.
THEOREM ReclaimIsSafe == Spec => []HeldSegmentsOnDisk
<1>1. IInv => HeldSegmentsOnDisk
  BY DEF IInv, ReaderInv, HeldSegmentsOnDisk, Covered
<1>2. QED
  BY <1>1, Invariance, PTL

\* At every step of a flush or a compaction the committed manifest and the
\* MemTable together hold every acknowledged event.
THEOREM NothingAckedIsLost == Spec => []CurrentComplete
<1>1. IInv => CurrentComplete
  <2> SUFFICES ASSUME IInv PROVE CurrentComplete
    OBVIOUS
  <2>1. /\ TypeOK /\ current \in Manifests /\ tail \in Nat /\ tail <= tail
        /\ Covered(current) /\ MemKeeps(current)
    BY DEF IInv, TypeOK, CurrentInv
  <2>2. QED
    BY <2>1, CoveredReadable DEF CurrentComplete
<1>2. QED
  BY <1>1, Invariance, PTL

=============================================================================
