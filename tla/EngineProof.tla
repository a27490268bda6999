------------------------------- MODULE EngineProof -------------------------------
(***************************************************************************)
(* The write coordinator, for any set of readers, jobs and traces and any  *)
(* bounds: what a restart brings back, what stays deleted, what a patch    *)
(* survives, and that the engine implements TraceStore.                    *)
(*                                                                         *)
(* The argument has three parts.  Ids: a segment id that a manifest, the   *)
(* dead list or gc.log names is below man.next, and is not handed out      *)
(* again, so its file is as it was written.  Memory: the MemTable is a     *)
(* tail end of the log, at least from the watermark of every snapshot on,  *)
(* so that a flush commits the tail as the watermark.  Segments: those of  *)
(* the manifest hold every event up to the watermark that no job deleted,  *)
(* and an event that was flushed once is in one of them only, so that a    *)
(* deletion vector that has it hides it for good.                          *)
(***************************************************************************)
EXTENDS Engine, FiniteSetTheorems, WellFoundedInduction, TLAPS

-----------------------------------------------------------------------------
(* Minimum and maximum.                                                    *)

\* The minimum of a non-empty set of naturals is its least element: the sets
\* 0..k, k in the set, are finite and so have one that includes no other.
LEMMA MinIsLeast ==
  ASSUME NEW S, S \subseteq Nat, S # {}
  PROVE  Min(S) \in S /\ \A k \in S : Min(S) <= k
<1> DEFINE T == {0..k : k \in S}
<1>1. IsWellFoundedOn(StrictSubsetOrdering(Nat), FiniteSubsetsOf(Nat))
  BY FS_StrictSubsetOrderingWellFounded
<1>2. T \subseteq FiniteSubsetsOf(Nat) /\ T # {}
  <2>1. \A k \in Nat : 0..k \subseteq Nat /\ IsFiniteSet(0..k)
    BY FS_Interval
  <2>2. QED
    BY <2>1 DEF FiniteSubsetsOf
<1>3. PICK t \in T : \A u \in T : <<u, t>> \notin StrictSubsetOrdering(Nat)
  <2> HIDE DEF T
  <2>1. QED
    BY <1>1, <1>2, WFMin
<1>4. PICK x \in S : t = 0..x
  OBVIOUS
<1>5. ASSUME NEW y \in S PROVE x <= y
  <2>1. ~(0..y \subseteq 0..x /\ 0..y # 0..x)
    <3>1. <<0..y, 0..x>> \notin StrictSubsetOrdering(Nat)
      BY <1>3, <1>4
    <3>2. 0..y \in SUBSET Nat /\ 0..x \in SUBSET Nat
      OBVIOUS
    <3>3. QED
      BY <3>1, <3>2, Zenon DEF StrictSubsetOrdering
  <2>2. CASE y < x
    <3>1. 0..y \subseteq 0..x /\ x \in 0..x /\ x \notin 0..y
      BY <2>2
    <3>2. QED
      BY <2>1, <3>1
  <2>3. QED
    BY <2>2
<1>6. QED
  BY <1>5 DEF Min

\* An element that is above all others is the maximum.
LEMMA MaxIsGreatest ==
  ASSUME NEW S, S \subseteq Nat, NEW x \in S, \A k \in S : k <= x
  PROVE  Max(S) = x
<1>1. \A k \in S : x >= k
  OBVIOUS
<1>2. ASSUME NEW y \in S, \A k \in S : y >= k PROVE y = x
  BY <1>2
<1>3. QED
  BY <1>1, <1>2 DEF Max

-----------------------------------------------------------------------------
(* The inductive invariant.                                                *)

\* The manifest is a record and every client has at most one snapshot.
Shape ==
  /\ man = [version |-> man.version, segs |-> man.segs, wm |-> man.wm, next |-> man.next]
  /\ snap = [c \in Clients |-> snap[c]]
  /\ \A c \in Clients : snap[c] = {} \/ \E sn \in snap[c] : snap[c] = {sn}

\* Ids in use are not handed out again; a segment being added has a fresh one.
IdsFit ==
  /\ \A s \in Live(man) \cup gc \cup {d.seg : d \in dead} : s < man.next
  /\ \A s \in inputs : s < NewSegment
  /\ wpc \in {"sealed", "merged"} => man.next < nextSeg /\ NewSegment \in files

\* The files of the manifest are there, and nobody is about to unlink them.
FilesKept ==
  /\ Live(man) \subseteq files
  /\ \A d \in dead : d.seg \notin Live(man)
  /\ gc \cap Live(man) = {}
  /\ gc # {} => wpc \in {"marked", "unlinked", "down"}

\* The file of the segment being added has what the commit relies on.
Drafted ==
  /\ wpc = "sealed" => mem # {} /\ rows[NewSegment] = mem
  /\ wpc = "merged" => rows[NewSegment] = MergedRows(inputs)

\* The MemTable is a tail end of the log and has what the watermark leaves to it.
MemoryIsTail ==
  /\ man.wm <= tail
  /\ \A l \in mem : \A k \in Lsns : l <= k /\ k <= tail => k \in mem
  /\ wpc # "down" => Replayed \subseteq mem

\* Up to the watermark the segments have every event that no job deleted.
SegmentsHold ==
  /\ \A s \in Live(man) : \A l \in rows[s] : l <= man.wm
  /\ \A l \in Lsns : l <= man.wm /\ l \notin deleted =>
       \E s \in Live(man) : l \in rows[s] /\ l \notin man.segs[s].del

\* An event flushed once is in one segment, with its deletion if it was deleted.
DeletionsStand ==
  /\ \A l \in deleted : l <= man.wm
  /\ \A l \in deleted \ reflushed : \A s \in Live(man) : l \in rows[s] => l \in man.segs[s].del
  /\ \A l \in Lsns \ reflushed : \A s, t \in Live(man) : l \in rows[s] /\ l \in rows[t] => s = t

\* What snapshot sn refers to stays: its rows in memory and its files.
SnapKept(sn) ==
  /\ wpc # "down"
  /\ sn.man.wm \in 0..man.wm /\ sn.live \in 0..tail
  /\ \A k \in Lsns : sn.man.wm < k /\ k <= sn.live => k \in mem
  /\ Live(sn.man) \subseteq files
  /\ \A s \in Live(sn.man) : s \in SegIds /\ s < man.next /\ s \notin gc
  /\ \A d \in victims : d.seg \notin Live(sn.man)

SnapsKept == \A c \in Clients : \A sn \in snap[c] : SnapKept(sn)

IInv ==
  /\ TypeOK /\ Shape /\ IdsFit /\ FilesKept /\ Drafted /\ MemoryIsTail
  /\ SegmentsHold /\ DeletionsStand /\ SnapsKept /\ LandedPatchKept

\* The empty store satisfies the invariant.
LEMMA InitInv == Init => IInv
<1> SUFFICES ASSUME Init PROVE IInv
  OBVIOUS
<1> USE BoundsAreNat DEF Init, EmptyManifest, Live
<1>1. TypeOK
  BY FS_EmptySet DEF TypeOK, SegIds, Lsns
<1>2. Shape /\ IdsFit /\ FilesKept /\ Drafted
  BY DEF Shape, IdsFit, FilesKept, Drafted, NewSegment
<1>3. MemoryIsTail /\ SegmentsHold /\ DeletionsStand /\ SnapsKept /\ LandedPatchKept
  BY DEF MemoryIsTail, SegmentsHold, DeletionsStand, SnapsKept, LandedPatchKept, Replayed, Lsns
<1>4. QED
  BY <1>1, <1>2, <1>3 DEF IInv

-----------------------------------------------------------------------------
(* What the steps compute.                                                 *)

\* Everything in the MemTable goes up to the tail of the log.
LEMMA FlushReachesTail == IInv /\ mem # {} => Max(mem) = tail /\ tail \in mem
<1> SUFFICES ASSUME IInv, mem # {} PROVE Max(mem) = tail /\ tail \in mem
  OBVIOUS
<1>1. tail \in Nat /\ tail <= MaxLsn /\ mem \subseteq 1..tail
  BY BoundsAreNat DEF IInv, TypeOK
<1>2. PICK l \in mem : TRUE
  OBVIOUS
<1>3. tail \in Lsns /\ l <= tail
  BY <1>1, BoundsAreNat DEF Lsns
<1>4. tail \in mem
  BY <1>1, <1>3 DEF IInv, MemoryIsTail
<1>5. mem \subseteq Nat /\ \A k \in mem : k <= tail
  BY <1>1
<1>6. QED
  BY <1>4, <1>5, MaxIsGreatest

\* The retained watermark is at most the manifest's and at most every snapshot's.
LEMMA RetainedIsLow ==
  ASSUME IInv, NEW m, m.wm \in Nat
  PROVE  /\ RetainedWatermark(m) \in Nat /\ RetainedWatermark(m) <= m.wm
         /\ \A c \in Clients : \A sn \in snap[c] : RetainedWatermark(m) <= sn.man.wm
<1> DEFINE W == {m.wm} \cup {sn.man.wm : sn \in HeldSnapshots}
<1>1. \A c \in Clients : \A sn \in snap[c] : sn.man.wm \in W
  BY DEF HeldSnapshots
<1>2. W \subseteq Nat /\ W # {}
  BY BoundsAreNat DEF IInv, TypeOK, SnapsKept, SnapKept, HeldSnapshots
<1>3. Min(W) \in W /\ \A k \in W : Min(W) <= k
  <2> HIDE DEF W
  <2>1. QED
    BY <1>2, MinIsLeast
<1>4. RetainedWatermark(m) = Min(W)
  BY DEF RetainedWatermark
<1>5. QED
  BY <1>1, <1>2, <1>3, <1>4

\* What a commit leaves in the manifest, field by field.
LEMMA CommitEffect ==
  ASSUME NEW segs, NEW wm, Commit(segs, wm)
  PROVE  /\ man' = [version |-> man'.version, segs |-> man'.segs, wm |-> man'.wm, next |-> man'.next]
         /\ man.version < MaxVersion /\ man'.version = man.version + 1
         /\ man'.segs = segs /\ man'.wm = wm /\ man'.next = nextSeg
  BY DEF Commit

\* A flush adds the sealed segment, moves the watermark to the tail, and leaves in
\* memory what is above some retained watermark.
LEMMA FlushEffect ==
  ASSUME IInv, CommitFlush
  PROVE  /\ NewSegment \in SegIds /\ NewSegment \in files /\ man.next <= NewSegment
         /\ rows[NewSegment] = mem /\ NewSegment \notin Live(man)
         /\ man'.wm = tail /\ man'.next = nextSeg
         /\ man.version < MaxVersion /\ man'.version = man.version + 1
         /\ Live(man') = Live(man) \cup {NewSegment}
         /\ man'.segs[NewSegment] = Entry({}, {})
         /\ \A s \in Live(man) : man'.segs[s] = man.segs[s]
         /\ \E low \in Nat :
              /\ low <= tail /\ mem' = {l \in mem : l > low}
              /\ \A c \in Clients : \A sn \in snap[c] : low <= sn.man.wm
<1> USE BoundsAreNat DEF IInv
<1>1. NewSegment \in SegIds /\ NewSegment \in files /\ man.next <= NewSegment
  BY DEF CommitFlush, IdsFit, NewSegment, TypeOK, SegIds
<1>2. NewSegment \notin Live(man)
  BY <1>1 DEF IdsFit, TypeOK, SegIds
<1>3. mem # {} /\ rows[NewSegment] = mem /\ Max(mem) = tail
  BY FlushReachesTail DEF CommitFlush, Drafted
<1>4. Commit(With(Live(man), NewSegment, Entry({}, {})), tail)
  BY <1>3 DEF CommitFlush
<1>5. /\ man'.segs = With(Live(man), NewSegment, Entry({}, {})) /\ man'.wm = tail
      /\ man'.next = nextSeg /\ man.version < MaxVersion /\ man'.version = man.version + 1
  BY <1>4, CommitEffect
<1>6. /\ Live(man') = Live(man) \cup {NewSegment} /\ man'.segs[NewSegment] = Entry({}, {})
      /\ \A s \in Live(man) : man'.segs[s] = man.segs[s]
  BY <1>2, <1>5 DEF With, Live
<1>7. \E low \in Nat : /\ low <= tail /\ mem' = {l \in mem : l > low}
                       /\ \A c \in Clients : \A sn \in snap[c] : low <= sn.man.wm
  <2> DEFINE m == [man EXCEPT !.wm = tail]
  <2>1. m.wm = tail /\ tail \in Nat
    BY DEF Shape, TypeOK
  <2>2. mem' = {l \in mem : l > RetainedWatermark(m)}
    BY <1>3 DEF CommitFlush, Evict
  <2> HIDE DEF m
  <2>3. QED
    BY <2>1, <2>2, RetainedIsLow
<1>8. QED
  BY <1>1, <1>2, <1>3, <1>5, <1>6, <1>7

\* A compaction replaces its inputs by the merged segment.
LEMMA CompactionEffect ==
  ASSUME IInv, CommitCompaction
  PROVE  /\ NewSegment \in SegIds /\ NewSegment \in files /\ man.next <= NewSegment
         /\ rows[NewSegment] = MergedRows(inputs)
         /\ NewSegment \notin Live(man) /\ NewSegment \notin inputs
         /\ man'.wm = man.wm /\ man'.next = nextSeg
         /\ man.version < MaxVersion /\ man'.version = man.version + 1
         /\ Live(man') = (Live(man) \ inputs) \cup {NewSegment}
         /\ man'.segs[NewSegment] = Entry({}, MergedPatches(inputs))
         /\ \A s \in Live(man) \ inputs : man'.segs[s] = man.segs[s]
<1> USE BoundsAreNat DEF IInv
<1>1. NewSegment \in SegIds /\ NewSegment \in files /\ man.next <= NewSegment
  BY DEF CommitCompaction, IdsFit, NewSegment, TypeOK, SegIds
<1>2. NewSegment \notin Live(man) /\ NewSegment \notin inputs
  BY <1>1 DEF IdsFit, TypeOK, SegIds
<1>3. rows[NewSegment] = MergedRows(inputs)
  BY DEF CommitCompaction, Drafted
<1>4. Commit(With(Live(man) \ inputs, NewSegment, Entry({}, MergedPatches(inputs))), man.wm)
  BY DEF CommitCompaction
<1>5. /\ man'.segs = With(Live(man) \ inputs, NewSegment, Entry({}, MergedPatches(inputs)))
      /\ man'.wm = man.wm
      /\ man'.next = nextSeg /\ man.version < MaxVersion /\ man'.version = man.version + 1
  BY <1>4, CommitEffect
<1>6. /\ Live(man') = (Live(man) \ inputs) \cup {NewSegment}
      /\ man'.segs[NewSegment] = Entry({}, MergedPatches(inputs))
      /\ \A s \in Live(man) \ inputs : man'.segs[s] = man.segs[s]
  BY <1>2, <1>5 DEF With, Live
<1>7. QED
  BY <1>1, <1>2, <1>3, <1>5, <1>6

\* The rows a job deletes in a segment of the current manifest.
Doomed(sn, j, s) == Planned(sn, job[j], s) \ man.segs[s].del

\* A retention delete adds rows of each segment to its deletion vector, and these are
\* the ones it reports deleted.
LEMMA RetentionEffect ==
  ASSUME IInv, NEW j \in Clients, ApplyRetention(j)
  PROVE  /\ j \in Jobs
         /\ man'.wm = man.wm /\ man'.next = nextSeg
         /\ man.version < MaxVersion /\ man'.version = man.version + 1
         /\ Live(man') = Live(man)
         /\ \E sn \in snap[j] :
              /\ deleted' = deleted \cup UNION {Doomed(sn, j, s) : s \in Live(man)}
              /\ \A s \in Live(man) :
                   /\ man'.segs[s].del = man.segs[s].del \cup Doomed(sn, j, s)
                   /\ man'.segs[s].up = man.segs[s].up
                   /\ man'.segs[s] = Entry(man'.segs[s].del, man'.segs[s].up)
<1> USE BoundsAreNat DEF IInv
<1>1. PICK sn \in snap[j] : 
        /\ Commit(AfterDelete(sn, job[j]), man.wm)
        /\ deleted' = deleted \cup
             UNION {AfterDelete(sn, job[j])[s].del \ man.segs[s].del : s \in Live(man)}
  BY DEF ApplyRetention
<1>2. /\ man'.segs = AfterDelete(sn, job[j]) /\ man'.wm = man.wm
      /\ man'.next = nextSeg /\ man.version < MaxVersion /\ man'.version = man.version + 1
  BY <1>1, CommitEffect
<1>3. ASSUME NEW s \in Live(man)
      PROVE  AfterDelete(sn, job[j])[s]
               = Entry(man.segs[s].del \cup Planned(sn, job[j], s), man.segs[s].up)
  BY DEF AfterDelete, TypeOK, Entries, Entry
<1>4. Live(man') = Live(man)
  BY <1>2 DEF AfterDelete, Live
<1>5. ASSUME NEW s \in Live(man)
      PROVE  AfterDelete(sn, job[j])[s].del \ man.segs[s].del = Doomed(sn, j, s)
  <2>1. AfterDelete(sn, job[j])[s].del = man.segs[s].del \cup Planned(sn, job[j], s)
    <3>1. AfterDelete(sn, job[j])[s]
            = Entry(man.segs[s].del \cup Planned(sn, job[j], s), man.segs[s].up)
      BY <1>3
    <3>2. QED
      BY <3>1 DEF Entry
  <2>2. QED
    BY <2>1 DEF Doomed
<1>6. deleted' = deleted \cup UNION {Doomed(sn, j, s) : s \in Live(man)}
  BY <1>1, <1>5
<1>7. ASSUME NEW s \in Live(man)
      PROVE  /\ man'.segs[s].del = man.segs[s].del \cup Doomed(sn, j, s)
             /\ man'.segs[s].up = man.segs[s].up
             /\ man'.segs[s] = Entry(man'.segs[s].del, man'.segs[s].up)
  <2>1. man'.segs[s] = Entry(man.segs[s].del \cup Planned(sn, job[j], s), man.segs[s].up)
    BY <1>2, <1>3
  <2>2. QED
    BY <2>1 DEF Entry, Doomed
<1>8. QED
  BY <1>2, <1>4, <1>6, <1>7 DEF ApplyRetention

\* The commit of a score adds patches and nothing else.
LEMMA ScoreEffect ==
  ASSUME IInv, NEW x \in todo, CommitScore(x)
  PROVE  /\ man'.wm = man.wm /\ man'.next = nextSeg
         /\ man.version < MaxVersion /\ man'.version = man.version + 1
         /\ Live(man') = Live(man)
         /\ \A s \in Live(man) :
              /\ man'.segs[s].del = man.segs[s].del
              /\ man'.segs[s].up = IF s = x.seg THEN man.segs[s].up \cup {x.trace}
                                                ELSE man.segs[s].up
              /\ man'.segs[s] = Entry(man'.segs[s].del, man'.segs[s].up)
<1> USE BoundsAreNat DEF IInv
<1>1. /\ man'.segs = AfterUpgrade(x) /\ man'.wm = man.wm
      /\ man'.next = nextSeg /\ man.version < MaxVersion /\ man'.version = man.version + 1
  BY CommitEffect DEF CommitScore
<1>2. Live(man') = Live(man)
  BY <1>1 DEF AfterUpgrade, Live
<1>3. ASSUME NEW s \in Live(man)
      PROVE  AfterUpgrade(x)[s]
               = Entry(man.segs[s].del,
                       IF s = x.seg THEN man.segs[s].up \cup {x.trace} ELSE man.segs[s].up)
  BY DEF AfterUpgrade, TypeOK, Entries, Entry
<1>4. ASSUME NEW s \in Live(man)
      PROVE  /\ man'.segs[s].del = man.segs[s].del
             /\ man'.segs[s].up = IF s = x.seg THEN man.segs[s].up \cup {x.trace}
                                               ELSE man.segs[s].up
             /\ man'.segs[s] = Entry(man'.segs[s].del, man'.segs[s].up)
  <2>1. man'.segs[s] = Entry(man.segs[s].del,
                             IF s = x.seg THEN man.segs[s].up \cup {x.trace} ELSE man.segs[s].up)
    BY <1>1, <1>3
  <2>2. QED
    BY <2>1 DEF Entry
<1>5. QED
  BY <1>1, <1>2, <1>4

-----------------------------------------------------------------------------
(* Types.                                                                  *)

\* The part of TypeOK that a commit changes.
ManifestOK ==
  /\ man.version \in 0..MaxVersion /\ man.wm \in 0..MaxLsn /\ man.next \in 1..(MaxSeg + 1)
  /\ Live(man) \subseteq SegIds /\ \A s \in Live(man) : man.segs[s] \in Entries

\* A deletion vector and a set of patches make an entry.
LEMMA EntryType ==
  ASSUME NEW del, del \subseteq Lsns, NEW up, up \subseteq Traces
  PROVE  Entry(del, up) \in Entries
  BY DEF Entry, Entries

\* Every commit leaves a manifest of the right type.
LEMMA ManifestTypeNext == IInv /\ [Next]_vars => ManifestOK'
<1> SUFFICES ASSUME IInv, [Next]_vars PROVE ManifestOK'
  OBVIOUS
<1>0. /\ man.version \in 0..MaxVersion /\ man.wm \in 0..MaxLsn /\ man.next \in 1..(MaxSeg + 1)
      /\ Live(man) \subseteq SegIds
      /\ \A s \in Live(man) : man.segs[s] \in Entries
      /\ \A s \in Live(man) : man.segs[s].del \subseteq Lsns /\ man.segs[s].up \subseteq Traces
      /\ tail \in 0..MaxLsn /\ nextSeg \in 1..(MaxSeg + 1)
      /\ \A s \in SegIds : rows[s] \subseteq Lsns
  BY BoundsAreNat DEF IInv, TypeOK, Entries
<1> USE BoundsAreNat, <1>0 DEF ManifestOK
<1>1. CASE CommitFlush
  <2>1. Entry({}, {}) \in Entries
    BY DEF Entry, Entries
  <2>2. QED
    BY <1>1, <2>1, FlushEffect
<1>2. CASE CommitCompaction
  <2>1. Entry({}, MergedPatches(inputs)) \in Entries
    BY DEF Entry, Entries, MergedPatches
  <2>2. QED
    BY <1>2, <2>1, CompactionEffect
<1>3. ASSUME NEW j \in Clients, ApplyRetention(j) PROVE ManifestOK'
  <2>1. PICK sn \in snap[j] :
          \A s \in Live(man) :
                   /\ man'.segs[s].del = man.segs[s].del \cup Doomed(sn, j, s)
                   /\ man'.segs[s].up = man.segs[s].up
                   /\ man'.segs[s] = Entry(man'.segs[s].del, man'.segs[s].up)
    BY <1>3, RetentionEffect
  <2>2. ASSUME NEW s \in Live(man) PROVE man'.segs[s] \in Entries
    <3>1. Doomed(sn, j, s) \subseteq Lsns
      BY DEF Doomed, Planned
    <3>2. man'.segs[s].del \subseteq Lsns /\ man'.segs[s].up \subseteq Traces
      BY <2>1, <3>1
    <3>3. Entry(man'.segs[s].del, man'.segs[s].up) \in Entries
      BY <3>2, EntryType
    <3>4. QED
      BY <2>1, <3>3
  <2>3. QED
    BY <1>3, <2>2, RetentionEffect
<1>4. ASSUME NEW x \in todo, CommitScore(x) PROVE ManifestOK'
  <2>1. x.trace \in Traces
    BY DEF IInv, TypeOK
  <2>2. ASSUME NEW s \in Live(man) PROVE man'.segs[s] \in Entries
    <3>1. /\ man'.segs[s].del = man.segs[s].del
          /\ man'.segs[s].up = IF s = x.seg THEN man.segs[s].up \cup {x.trace}
                                            ELSE man.segs[s].up
          /\ man'.segs[s] = Entry(man'.segs[s].del, man'.segs[s].up)
      BY <1>4, ScoreEffect
    <3>2. man'.segs[s].del \subseteq Lsns /\ man'.segs[s].up \subseteq Traces
      BY <2>1, <3>1
    <3>3. Entry(man'.segs[s].del, man'.segs[s].up) \in Entries
      BY <3>2, EntryType
    <3>4. QED
      BY <3>1, <3>3
  <2>3. QED
    BY <1>4, <2>2, ScoreEffect
<1>5. CASE UNCHANGED man
  BY <1>5
<1>6. QED
  BY <1>1, <1>2, <1>3, <1>4, <1>5
  DEF Next, vars, Ingest, Seal, Merge, Reclaim, Mark, UnlinkMarked, Done, Pin, Drop, EndPlan,
      PlanRetention, PlanScores, Crash, UnlinkPending, Restart

\* Every step keeps the manifest a record and gives no client a second snapshot.
LEMMA ShapeNext == IInv /\ [Next]_vars => Shape'
<1> SUFFICES ASSUME IInv, [Next]_vars PROVE Shape'
  OBVIOUS
<1> USE DEF IInv, Shape
<1>1. man' = [version |-> man'.version, segs |-> man'.segs, wm |-> man'.wm, next |-> man'.next]
  <2>1. CASE UNCHANGED man
    BY <2>1
  <2>2. CASE \E segs, wm : Commit(segs, wm)
    BY <2>2, CommitEffect
  <2>3. QED
    BY <2>1, <2>2
    DEF Next, vars, Ingest, Seal, CommitFlush, Merge, CommitCompaction, Reclaim, Mark,
        UnlinkMarked, Done, Pin, Drop, ApplyRetention, EndPlan, PlanRetention, PlanScores,
        CommitScore, Crash, UnlinkPending, Restart
<1>2. /\ snap' = [c \in Clients |-> snap'[c]]
      /\ \A c \in Clients : snap'[c] = {} \/ \E sn \in snap'[c] : snap'[c] = {sn}
  <2>1. CASE UNCHANGED snap
    BY <2>1
  <2>2. CASE \E c \in Clients : snap' = [snap EXCEPT ![c] = {Pinned}]
    BY <2>2
  <2>3. CASE \E c \in Clients : snap' = [snap EXCEPT ![c] = {}]
    BY <2>3
  <2>4. CASE snap' = [c \in Clients |-> {}]
    BY <2>4
  <2>5. QED
    BY <2>1, <2>2, <2>3, <2>4
    DEF Next, vars, clientVars, Ingest, Seal, CommitFlush, Merge, CommitCompaction, Reclaim, Mark,
        UnlinkMarked, Done, Pin, Drop, ApplyRetention, EndPlan, PlanRetention, PlanScores,
        CommitScore, Crash, UnlinkPending, Restart
<1>3. QED
  BY <1>1, <1>2

\* The other parts of TypeOK: the log, the MemTable, the files and the jobs at work ...
WritingOK ==
  /\ tail \in 0..MaxLsn /\ mem \subseteq 1..tail
  /\ rows \in [SegIds -> SUBSET Lsns] /\ files \subseteq SegIds
  /\ nextSeg \in man.next..(MaxSeg + 1)
  /\ gc \subseteq SegIds /\ dead \subseteq [seg : SegIds, v : 1..MaxVersion]
  /\ wpc \in {"idle", "sealing", "sealed", "merged", "reclaiming", "marked", "unlinked", "down"}
  /\ inputs \subseteq SegIds /\ victims \subseteq dead

\* ... and the clients and the histories.
HistoryOK ==
  /\ job \in [Jobs -> SUBSET Traces]
  /\ todo \subseteq [trace : Traces, seg : SegIds]
  /\ deleted \subseteq Lsns /\ leftover \subseteq Lsns /\ reflushed \subseteq Lsns
  /\ landed \subseteq Traces

\* Every step keeps the types of what the holder of write_lock works on.
LEMMA WritingTypeNext == IInv /\ [Next]_vars => WritingOK'
<1> SUFFICES ASSUME IInv, [Next]_vars PROVE WritingOK'
  OBVIOUS
<1>0. /\ WritingOK
      /\ man.version \in 0..MaxVersion /\ man.wm \in 0..MaxLsn /\ man.next \in 1..(MaxSeg + 1)
  BY DEF IInv, TypeOK, WritingOK
<1> USE BoundsAreNat, <1>0 DEF WritingOK, SegIds, Lsns, fileVars
<1>1. CASE Ingest
  BY <1>1 DEF Ingest
<1>2. CASE Seal
  BY <1>2 DEF Seal, WriteSegment
<1>3. CASE CommitFlush
  BY <1>3, FlushEffect DEF CommitFlush
<1>4. ASSUME NEW chosen \in SUBSET (1..(nextSeg - 1)), Merge(chosen) PROVE WritingOK'
  <2>1. MergedRows(chosen) \subseteq Lsns
    BY DEF MergedRows, IInv, TypeOK
  <2>2. QED
    BY <1>4, <2>1 DEF Merge, WriteSegment
<1>5. CASE CommitCompaction
  <2>1. dead' \subseteq [seg : SegIds, v : 1..MaxVersion]
    BY <1>5, CompactionEffect DEF CommitCompaction
  <2>2. QED
    BY <1>5, <2>1, CompactionEffect DEF CommitCompaction
<1>6. ASSUME NEW j \in Clients, ApplyRetention(j) PROVE WritingOK'
  <2>1. man'.next = nextSeg
    BY <1>6, RetentionEffect
  <2>2. UNCHANGED <<tail, mem, rows, files, nextSeg, gc, dead, wpc, inputs, victims>>
    BY <1>6 DEF ApplyRetention
  <2>3. QED
    BY <2>1, <2>2
<1>7. ASSUME NEW x \in todo, CommitScore(x) PROVE WritingOK'
  <2>1. man'.next = nextSeg
    BY <1>7, ScoreEffect
  <2>2. UNCHANGED <<tail, mem, rows, files, nextSeg, gc, dead, wpc, inputs, victims>>
    BY <1>7 DEF CommitScore
  <2>3. QED
    BY <2>1, <2>2
<1>8. CASE Reclaim \/ UnlinkMarked \/ Done
  BY <1>8 DEF Reclaim, UnlinkMarked, Done
<1>9. ASSUME NEW d \in victims, Mark(d) PROVE WritingOK'
  BY <1>9 DEF Mark
<1>10. CASE Crash \/ (\E s \in gc : UnlinkPending(s)) \/ Restart
  <2>1. CASE Crash
    BY <2>1 DEF Crash
  <2>2. CASE \E s \in gc : UnlinkPending(s)
    BY <2>2 DEF UnlinkPending
  <2>3. CASE Restart
    BY <2>3 DEF Restart, Replayed
  <2>4. QED
    BY <1>10, <2>1, <2>2, <2>3
<1>11. CASE UNCHANGED <<man, tail, mem, rows, files, nextSeg, gc, dead, wpc, inputs, victims>>
  BY <1>11
<1>12. QED
  BY <1>1, <1>2, <1>3, <1>4, <1>5, <1>6, <1>7, <1>8, <1>9, <1>10, <1>11
  DEF Next, vars, Pin, Drop, EndPlan, PlanRetention, PlanScores

\* Every step keeps the types of the clients' variables and of the histories.
LEMMA HistoryTypeNext == IInv /\ [Next]_vars => HistoryOK'
<1> SUFFICES ASSUME IInv, [Next]_vars PROVE HistoryOK'
  OBVIOUS
<1>0. /\ HistoryOK /\ mem \subseteq Lsns
      /\ Live(man) \subseteq SegIds /\ \A s \in SegIds : rows[s] \subseteq Lsns
  BY BoundsAreNat DEF IInv, TypeOK, HistoryOK, Lsns
<1> USE <1>0 DEF HistoryOK, clientVars, history
<1>1. CASE CommitFlush
  BY <1>1 DEF CommitFlush
<1>2. ASSUME NEW j \in Clients, ApplyRetention(j) PROVE HistoryOK'
  <2>1. PICK sn \in snap[j] : deleted' = deleted \cup UNION {Doomed(sn, j, s) : s \in Live(man)}
    BY <1>2, RetentionEffect
  <2>2. deleted' \subseteq Lsns
    BY <2>1 DEF Doomed, Planned
  <2>3. \A m, upTo : Visible(m, upTo, mem) \subseteq Lsns
    BY DEF IInv, TypeOK, Visible
  <2>4. leftover' \subseteq Lsns
    BY <1>2, <2>3 DEF ApplyRetention
  <2>5. QED
    BY <1>2, <2>2, <2>4 DEF ApplyRetention
<1>3. ASSUME NEW c \in Clients, NEW traces \in SUBSET Traces, PlanRetention(c, traces)
      PROVE  HistoryOK'
  BY <1>3 DEF PlanRetention
<1>4. CASE \E c \in Clients : Pin(c) \/ Drop(c) \/ EndPlan(c)
  BY <1>4 DEF Pin, Drop, EndPlan
<1>5. CASE PlanScores
  <2>1. PICK chosen \in (SUBSET {TraceOf[l] : l \in VisibleNow}) \ {{}} :
          LET homes(t) == {s \in Live(man) : \E l \in rows[s] : TraceOf[l] = t}
          IN  todo' = {[trace |-> t, seg |-> Min(homes(t))] : t \in {u \in chosen : homes(u) # {}}}
    BY <1>5 DEF PlanScores
  <2> DEFINE Homes(t) == {s \in Live(man) : \E l \in rows[s] : TraceOf[l] = t}
  <2>2. VisibleNow \subseteq Lsns
    BY DEF Visible, VisibleNow
  <2>3. chosen \subseteq Traces
    BY <2>2, EveryEventHasATrace
  <2>4. ASSUME NEW t \in chosen, Homes(t) # {} PROVE Min(Homes(t)) \in SegIds
    <3>1. Homes(t) \subseteq Nat
      BY BoundsAreNat DEF SegIds
    <3>2. Min(Homes(t)) \in Homes(t)
      BY <2>4, <3>1, MinIsLeast
    <3>3. QED
      BY <3>2
  <2>5. todo' = {[trace |-> t, seg |-> Min(Homes(t))] : t \in {u \in chosen : Homes(u) # {}}}
    BY <2>1
  <2> HIDE DEF Homes
  <2>6. todo' \subseteq [trace : Traces, seg : SegIds]
    BY <2>3, <2>4, <2>5
  <2>7. QED
    BY <1>5, <2>6 DEF PlanScores
<1>6. ASSUME NEW x \in todo, CommitScore(x) PROVE HistoryOK'
  BY <1>6 DEF CommitScore
<1>7. CASE Crash
  BY <1>7 DEF Crash
<1>8. CASE UNCHANGED <<clientVars, todo, history>>
  BY <1>8
<1>9. QED
  BY <1>1, <1>2, <1>3, <1>4, <1>5, <1>6, <1>7, <1>8
  DEF Next, vars, Ingest, Seal, Merge, CommitCompaction, Reclaim, Mark, UnlinkMarked, Done,
      UnlinkPending, Restart

\* Every step keeps the types.
LEMMA TypeNext == IInv /\ [Next]_vars => TypeOK' /\ Shape'
<1> SUFFICES ASSUME IInv, [Next]_vars PROVE TypeOK' /\ Shape'
  OBVIOUS
<1>1. ManifestOK' /\ WritingOK' /\ HistoryOK' /\ Shape'
  BY ManifestTypeNext, WritingTypeNext, HistoryTypeNext, ShapeNext
<1>2. ASSUME NEW c \in Clients PROVE Cardinality(snap'[c]) <= 1
  <2>1. CASE snap'[c] = {}
    BY <2>1, FS_EmptySet
  <2>2. CASE \E sn \in snap'[c] : snap'[c] = {sn}
    <3>1. PICK sn : snap'[c] = {sn}
      BY <2>2
    <3>2. Cardinality({sn}) = 1
      BY FS_Singleton
    <3>3. QED
      BY <3>1, <3>2
  <2>3. QED
    BY <1>1, <2>1, <2>2 DEF Shape
<1>3. QED
  BY <1>1, <1>2 DEF TypeOK, ManifestOK, WritingOK, HistoryOK

-----------------------------------------------------------------------------
(* The parts of the invariant, one lemma each.                             *)

\* The bounds that the other proofs count with.
LEMMA Bounds ==
  ASSUME IInv
  PROVE  /\ man.next \in Nat /\ nextSeg \in Nat /\ 1 <= man.next /\ man.next <= nextSeg
         /\ nextSeg <= MaxSeg + 1 /\ MaxSeg \in Nat
         /\ man.wm \in Nat /\ tail \in Nat /\ man.wm <= tail /\ tail <= MaxLsn /\ MaxLsn \in Nat
         /\ mem \subseteq 1..tail /\ mem \subseteq Lsns
         /\ \A s \in Live(man) \cup gc \cup inputs \cup {d.seg : d \in dead} : s \in Nat /\ s \in SegIds
         /\ \A s \in SegIds : rows[s] \subseteq Lsns
         /\ \A l \in Lsns : l \in Nat
<1> USE BoundsAreNat DEF IInv, TypeOK, SegIds, Lsns
<1>1. /\ man.next \in Nat /\ nextSeg \in Nat /\ 1 <= man.next /\ man.next <= nextSeg
      /\ nextSeg <= MaxSeg + 1
  OBVIOUS
<1>2. man.wm \in Nat /\ tail \in Nat /\ man.wm <= tail /\ tail <= MaxLsn
  BY DEF MemoryIsTail
<1>3. mem \subseteq 1..tail /\ mem \subseteq Lsns
  BY <1>2
<1>4. \A s \in Live(man) \cup gc \cup inputs \cup {d.seg : d \in dead} : s \in Nat /\ s \in SegIds
  <2> HIDE DEF SegIds
  <2>1. \A d \in dead : d.seg \in SegIds
    OBVIOUS
  <2>2. Live(man) \cup gc \cup inputs \subseteq SegIds
    OBVIOUS
  <2>3. \A s \in SegIds : s \in Nat
    BY DEF SegIds
  <2>4. QED
    BY <2>1, <2>2, <2>3
<1>5. QED
  BY <1>1, <1>2, <1>3, <1>4

\* Commits are the only steps that move man.next, to what was handed out; a crash
\* only forgets ids that no manifest has.
LEMMA IdsNext == IInv /\ [Next]_vars => IdsFit'
<1> SUFFICES ASSUME IInv, [Next]_vars PROVE IdsFit'
  OBVIOUS
<1>0. IdsFit
  BY DEF IInv
<1> USE <1>0, Bounds DEF IdsFit, NewSegment, fileVars
<1>1. CASE Ingest
  BY <1>1 DEF Ingest
<1>2. CASE Seal
  BY <1>2 DEF Seal, WriteSegment
<1>3. CASE CommitFlush
  BY <1>3, FlushEffect DEF CommitFlush
<1>4. ASSUME NEW chosen \in SUBSET (1..(nextSeg - 1)), Merge(chosen) PROVE IdsFit'
  BY <1>4 DEF Merge, WriteSegment
<1>5. CASE CommitCompaction
  <2>1. \A d \in dead' : d.seg < nextSeg
    BY <1>5 DEF CommitCompaction
  <2>2. QED
    BY <1>5, <2>1, CompactionEffect DEF CommitCompaction
<1>6. ASSUME NEW j \in Clients, ApplyRetention(j) PROVE IdsFit'
  <2>1. UNCHANGED <<files, nextSeg, gc, dead, wpc, inputs>> /\ wpc = "idle"
    BY <1>6 DEF ApplyRetention
  <2>2. QED
    BY <1>6, <2>1, RetentionEffect
<1>7. ASSUME NEW x \in todo, CommitScore(x) PROVE IdsFit'
  <2>1. UNCHANGED <<files, nextSeg, gc, dead, wpc, inputs>> /\ wpc = "idle"
    BY <1>7 DEF CommitScore
  <2>2. QED
    BY <1>7, <2>1, ScoreEffect
<1>8. CASE Reclaim \/ UnlinkMarked \/ Done
  BY <1>8 DEF Reclaim, UnlinkMarked, Done
<1>9. ASSUME NEW d \in victims, Mark(d) PROVE IdsFit'
  <2>1. d \in dead
    BY DEF IInv, TypeOK
  <2>2. QED
    BY <1>9, <2>1 DEF Mark
<1>10. CASE Crash
  BY <1>10 DEF Crash
<1>11. CASE (\E s \in gc : UnlinkPending(s)) \/ Restart
  BY <1>11 DEF UnlinkPending, Restart
<1>12. CASE UNCHANGED <<man, files, nextSeg, gc, dead, wpc, inputs>>
  BY <1>12
<1>13. QED
  BY <1>1, <1>2, <1>3, <1>4, <1>5, <1>6, <1>7, <1>8, <1>9, <1>10, <1>11, <1>12
  DEF Next, vars, Pin, Drop, EndPlan, PlanRetention, PlanScores

\* Only files that gc.log names are unlinked, and it names dead segments only.
LEMMA FilesNext == IInv /\ [Next]_vars => FilesKept'
<1> SUFFICES ASSUME IInv, [Next]_vars PROVE FilesKept'
  OBVIOUS
<1>0. FilesKept /\ IdsFit
  BY DEF IInv
<1> USE <1>0, Bounds DEF FilesKept, IdsFit, fileVars
<1>1. CASE Ingest
  BY <1>1 DEF Ingest
<1>2. CASE Seal
  BY <1>2 DEF Seal, WriteSegment
<1>3. CASE CommitFlush
  BY <1>3, FlushEffect DEF CommitFlush
<1>4. ASSUME NEW chosen \in SUBSET (1..(nextSeg - 1)), Merge(chosen) PROVE FilesKept'
  BY <1>4 DEF Merge, WriteSegment
<1>5. CASE CommitCompaction
  <2>1. \A d \in dead' : d.seg \notin Live(man')
    BY <1>5, CompactionEffect DEF CommitCompaction
  <2>2. QED
    BY <1>5, <2>1, CompactionEffect DEF CommitCompaction
<1>6. ASSUME NEW j \in Clients, ApplyRetention(j) PROVE FilesKept'
  <2>1. UNCHANGED <<files, nextSeg, gc, dead, wpc, inputs>>
    BY <1>6 DEF ApplyRetention
  <2>2. QED
    BY <1>6, <2>1, RetentionEffect
<1>7. ASSUME NEW x \in todo, CommitScore(x) PROVE FilesKept'
  <2>1. UNCHANGED <<files, nextSeg, gc, dead, wpc, inputs>>
    BY <1>7 DEF CommitScore
  <2>2. QED
    BY <1>7, <2>1, ScoreEffect
<1>8. CASE Reclaim \/ UnlinkMarked \/ Done
  BY <1>8 DEF Reclaim, UnlinkMarked, Done
<1>9. ASSUME NEW d \in victims, Mark(d) PROVE FilesKept'
  <2>1. d \in dead
    BY DEF IInv, TypeOK
  <2>2. QED
    BY <1>9, <2>1 DEF Mark
<1>10. CASE Crash \/ (\E s \in gc : UnlinkPending(s)) \/ Restart
  BY <1>10 DEF Crash, UnlinkPending, Restart
<1>11. CASE UNCHANGED <<man, files, gc, dead, wpc>>
  BY <1>11
<1>12. QED
  BY <1>1, <1>2, <1>3, <1>4, <1>5, <1>6, <1>7, <1>8, <1>9, <1>10, <1>11
  DEF Next, vars, Pin, Drop, EndPlan, PlanRetention, PlanScores

\* Between the write of a segment and its commit nothing changes that it was made of.
LEMMA DraftedNext == IInv /\ [Next]_vars => Drafted'
<1> SUFFICES ASSUME IInv, [Next]_vars PROVE Drafted'
  OBVIOUS
<1>0. Drafted
  BY DEF IInv
<1> USE <1>0, Bounds DEF Drafted
<1>1. CASE Seal
  <2>1. rows'[nextSeg] = mem /\ NewSegment' = nextSeg
    BY <1>1 DEF Seal, WriteSegment, NewSegment, IInv, TypeOK, SegIds
  <2>2. QED
    BY <1>1, <2>1 DEF Seal
<1>2. ASSUME NEW chosen \in SUBSET (1..(nextSeg - 1)), Merge(chosen) PROVE Drafted'
  <2>1. rows'[nextSeg] = MergedRows(chosen) /\ NewSegment' = nextSeg
    <3>1. nextSeg \in SegIds /\ rows \in [SegIds -> SUBSET Lsns]
      BY <1>2 DEF Merge, WriteSegment, IInv, TypeOK, SegIds
    <3>2. rows' = [rows EXCEPT ![nextSeg] = MergedRows(chosen)] /\ nextSeg' = nextSeg + 1
      BY <1>2 DEF Merge, WriteSegment
    <3>3. QED
      BY <3>1, <3>2 DEF NewSegment
  <2>2. \A s \in chosen : rows'[s] = rows[s]
    BY <1>2 DEF Merge, WriteSegment, IInv, TypeOK, SegIds
  <2>3. MergedRows(inputs)' = MergedRows(chosen)
    BY <1>2, <2>2 DEF Merge, MergedRows
  <2>4. QED
    BY <1>2, <2>1, <2>3 DEF Merge
<1>3. CASE wpc' \notin {"sealed", "merged"}
  BY <1>3
<1>4. CASE UNCHANGED <<man, mem, rows, nextSeg, inputs, wpc>>
  BY <1>4 DEF NewSegment, MergedRows
<1>5. QED
  BY <1>1, <1>2, <1>3, <1>4
  DEF Next, vars, fileVars, Ingest, CommitFlush, CommitCompaction, Reclaim, Mark, UnlinkMarked,
      Done, Pin, Drop, ApplyRetention, EndPlan, PlanRetention, PlanScores, CommitScore, Crash,
      UnlinkPending, Restart

\* Rows come in at the upper end of the MemTable and are evicted at the lower one.
LEMMA MemoryNext == IInv /\ [Next]_vars => MemoryIsTail'
<1> SUFFICES ASSUME IInv, [Next]_vars PROVE MemoryIsTail'
  OBVIOUS
<1>0. MemoryIsTail
  BY DEF IInv
<1> USE <1>0, Bounds DEF MemoryIsTail, Replayed
<1>1. CASE Ingest
  <2>1. UNCHANGED man /\ wpc # "down" /\ tail' = tail + 1 /\ mem' = mem \cup {tail + 1}
    BY <1>1 DEF Ingest
  <2>2. \A l \in mem' : \A k \in Lsns : l <= k /\ k <= tail' => k \in mem'
    BY <2>1
  <2>3. \A k \in 1..tail' : k > man'.wm => k \in mem'
    BY <2>1
  <2>4. QED
    BY <2>1, <2>2, <2>3
<1>2. CASE CommitFlush
  <2>1. PICK low \in Nat : mem' = {l \in mem : l > low}
    BY <1>2, FlushEffect
  <2>2. tail' = tail /\ man'.wm = tail
    BY <1>2, FlushEffect DEF CommitFlush
  <2>3. QED
    BY <2>1, <2>2
<1>3. CASE Crash
  BY <1>3 DEF Crash
<1>4. CASE Restart
  BY <1>4 DEF Restart, Lsns
<1>5. CASE man'.wm = man.wm /\ UNCHANGED <<tail, mem>> /\ (wpc = "down" => wpc' = "down")
  BY <1>5
<1>6. QED
  BY <1>1, <1>2, <1>3, <1>4, <1>5, CompactionEffect, RetentionEffect, ScoreEffect
  DEF Next, vars, Seal, Merge, CommitCompaction, Reclaim, Mark, UnlinkMarked,
      Done, Pin, Drop, ApplyRetention, EndPlan, PlanRetention, PlanScores, CommitScore,
      UnlinkPending

\* The write of a segment changes no row of a segment in use.
LEMMA RowsKept ==
  ASSUME IInv, Next, NEW s \in SegIds, s < man.next
  PROVE  rows'[s] = rows[s]
<1>1. CASE Seal \/ \E chosen \in SUBSET (1..(nextSeg - 1)) : Merge(chosen)
  BY <1>1, Bounds DEF Seal, Merge, WriteSegment, IInv, TypeOK
<1>2. CASE UNCHANGED rows
  BY <1>2
<1>3. QED
  BY <1>1, <1>2
  DEF Next, fileVars, Ingest, CommitFlush, CommitCompaction, Reclaim, Mark, UnlinkMarked,
      Done, Pin, Drop, ApplyRetention, EndPlan, PlanRetention, PlanScores, CommitScore, Crash,
      UnlinkPending, Restart

\* A flush adds every row that the watermark passes, a compaction keeps what it
\* merges, and a retention delete reports every row it hides.
LEMMA SegmentsNext == IInv /\ [Next]_vars => SegmentsHold'
<1> SUFFICES ASSUME IInv, [Next]_vars PROVE SegmentsHold'
  OBVIOUS
<1>0. SegmentsHold /\ IdsFit /\ MemoryIsTail
  BY DEF IInv
<1> USE <1>0, Bounds DEF SegmentsHold
<1>1. CASE CommitFlush
  <2>0. UNCHANGED <<rows, deleted>>
    BY <1>1 DEF CommitFlush, fileVars
  <2>1. ASSUME NEW s \in Live(man'), NEW l \in rows[s] PROVE l <= man'.wm
    <3>1. CASE s \in Live(man)
      BY <1>1, <3>1, FlushEffect
    <3>2. CASE s = NewSegment
      BY <1>1, <3>2, FlushEffect
    <3>3. QED
      BY <1>1, <3>1, <3>2, FlushEffect
  <2>2. ASSUME NEW l \in Lsns, l <= man'.wm, l \notin deleted
        PROVE  \E s \in Live(man') : l \in rows[s] /\ l \notin man'.segs[s].del
    <3>1. CASE l <= man.wm
      BY <1>1, <2>2, <3>1, FlushEffect
    <3>2. CASE l > man.wm
      <4>1. l \in mem
        BY <1>1, <2>2, <3>2, FlushEffect DEF MemoryIsTail, Replayed, CommitFlush, Lsns
      <4>2. l \in rows[NewSegment] /\ l \notin man'.segs[NewSegment].del
        BY <1>1, <4>1, FlushEffect DEF Entry
      <4>3. QED
        BY <1>1, <4>2, FlushEffect
    <3>3. QED
      BY <3>1, <3>2
  <2>3. QED
    BY <2>0, <2>1, <2>2
<1>2. CASE CommitCompaction
  <2>0. UNCHANGED <<rows, deleted>> /\ man'.wm = man.wm
    BY <1>2, CompactionEffect DEF CommitCompaction, fileVars, history
  <2>1. ASSUME NEW s \in Live(man'), NEW l \in rows[s] PROVE l <= man.wm
    <3>1. CASE s \in Live(man)
      BY <3>1
    <3>2. CASE s = NewSegment
      BY <1>2, <3>2, CompactionEffect DEF MergedRows
    <3>3. QED
      BY <1>2, <3>1, <3>2, CompactionEffect
  <2>2. ASSUME NEW l \in Lsns, l <= man.wm, l \notin deleted
        PROVE  \E s \in Live(man') : l \in rows[s] /\ l \notin man'.segs[s].del
    <3>1. PICK s \in Live(man) : l \in rows[s] /\ l \notin man.segs[s].del
      BY <2>2
    <3>2. CASE s \in inputs
      <4>1. l \in MergedRows(inputs)
        BY <3>1, <3>2 DEF MergedRows
      <4>2. l \in rows[NewSegment] /\ l \notin man'.segs[NewSegment].del
        BY <1>2, <4>1, CompactionEffect DEF Entry
      <4>3. QED
        BY <1>2, <4>2, CompactionEffect
    <3>3. CASE s \notin inputs
      BY <1>2, <3>1, <3>3, CompactionEffect
    <3>4. QED
      BY <3>2, <3>3
  <2>3. QED
    BY <2>0, <2>1, <2>2
<1>3. ASSUME NEW j \in Clients, ApplyRetention(j) PROVE SegmentsHold'
  <2>0. UNCHANGED rows /\ man'.wm = man.wm /\ Live(man') = Live(man)
    BY <1>3, RetentionEffect DEF ApplyRetention, fileVars
  <2>1. PICK sn \in snap[j] : 
          /\ deleted' = deleted \cup UNION {Doomed(sn, j, s) : s \in Live(man)}
          /\ \A s \in Live(man) : man'.segs[s].del = man.segs[s].del \cup Doomed(sn, j, s)
    BY <1>3, RetentionEffect
  <2>2. ASSUME NEW l \in Lsns, l <= man.wm, l \notin deleted'
        PROVE  \E s \in Live(man) : l \in rows[s] /\ l \notin man'.segs[s].del
    <3>1. PICK s \in Live(man) : l \in rows[s] /\ l \notin man.segs[s].del
      BY <2>1, <2>2
    <3>2. l \notin Doomed(sn, j, s)
      BY <2>1, <2>2
    <3>3. l \notin man'.segs[s].del
      BY <2>1, <3>1, <3>2
    <3>4. QED
      BY <3>1, <3>3
  <2>3. QED
    BY <2>0, <2>2
<1>4. ASSUME NEW x \in todo, CommitScore(x) PROVE SegmentsHold'
  <2>1. UNCHANGED <<rows, deleted>>
    BY <1>4 DEF CommitScore, fileVars
  <2>2. QED
    BY <1>4, <2>1, ScoreEffect
<1>5. CASE Next /\ UNCHANGED <<man, deleted>>
  <2>1. \A s \in Live(man) : rows'[s] = rows[s]
    BY <1>5, RowsKept DEF IdsFit
  <2>2. QED
    BY <1>5, <2>1
<1>6. CASE UNCHANGED vars
  BY <1>6 DEF vars, history
<1>7. QED
  BY <1>1, <1>2, <1>3, <1>4, <1>5, <1>6
  DEF Next, history, Ingest, Seal, Merge, Reclaim, Mark, UnlinkMarked, Done, Pin, Drop,
      EndPlan, PlanRetention, PlanScores, Crash, UnlinkPending, Restart

\* A flush puts a deleted event into a second segment only if it is flushed again,
\* a compaction leaves it out, and a delete reaches the one segment that has it.
LEMMA DeletionsNext == IInv /\ [Next]_vars => DeletionsStand'
<1> SUFFICES ASSUME IInv, [Next]_vars PROVE DeletionsStand'
  OBVIOUS
<1>0. DeletionsStand /\ SegmentsHold /\ IdsFit
  BY DEF IInv
<1> USE <1>0, Bounds DEF DeletionsStand
<1>1. CASE CommitFlush
  <2>0. UNCHANGED <<rows, deleted>> /\ reflushed' = reflushed \cup {l \in mem : l <= man.wm}
    BY <1>1 DEF CommitFlush, fileVars
  <2>1. ASSUME NEW l \in mem, l \notin reflushed' 
        PROVE  l > man.wm /\ \A s \in Live(man) : l \notin rows[s]
    BY <2>0, <2>1 DEF SegmentsHold
  <2>2. \A l \in deleted : l \in Nat /\ l <= man'.wm
    BY <1>1, FlushEffect DEF IInv, TypeOK
  <2>3. ASSUME NEW l \in deleted \ reflushed', NEW s \in Live(man'), l \in rows[s]
        PROVE  l \in man'.segs[s].del
    <3>1. s # NewSegment
      BY <1>1, <2>1, <2>3, FlushEffect DEF IInv, TypeOK
    <3>2. QED
      BY <1>1, <2>0, <2>3, <3>1, FlushEffect
  <2>4. ASSUME NEW l \in Lsns \ reflushed', NEW s \in Live(man'), NEW t \in Live(man'),
               l \in rows[s], l \in rows[t]
        PROVE  s = t
    BY <1>1, <2>0, <2>1, <2>4, FlushEffect
  <2>5. QED
    BY <2>0, <2>2, <2>3, <2>4
<1>2. CASE CommitCompaction
  <2>0. UNCHANGED <<rows, deleted, reflushed>> /\ man'.wm = man.wm
    BY <1>2, CompactionEffect DEF CommitCompaction, fileVars, history
  <2>1. ASSUME NEW l \in rows[NewSegment]
        PROVE  \E s \in Live(man) \cap inputs : l \in rows[s] /\ l \notin man.segs[s].del
    BY <1>2, <2>1, CompactionEffect DEF MergedRows
  <2>2. ASSUME NEW l \in deleted \ reflushed, NEW s \in Live(man'), l \in rows[s]
        PROVE  l \in man'.segs[s].del
    <3>1. s # NewSegment
      BY <2>1, <2>2
    <3>2. QED
      BY <1>2, <2>2, <3>1, CompactionEffect
  <2>3. ASSUME NEW l \in Lsns \ reflushed, NEW s \in Live(man'), NEW t \in Live(man'),
               l \in rows[s], l \in rows[t]
        PROVE  s = t
    <3>1. CASE s = NewSegment
      BY <1>2, <2>1, <2>3, <3>1, CompactionEffect
    <3>2. CASE t = NewSegment
      BY <1>2, <2>1, <2>3, <3>2, CompactionEffect
    <3>3. CASE s # NewSegment /\ t # NewSegment
      BY <1>2, <2>3, <3>3, CompactionEffect
    <3>4. QED
      BY <3>1, <3>2, <3>3
  <2>4. QED
    BY <2>0, <2>2, <2>3
<1>3. ASSUME NEW j \in Clients, ApplyRetention(j) PROVE DeletionsStand'
  <2>0. UNCHANGED <<rows, reflushed>> /\ man'.wm = man.wm /\ Live(man') = Live(man)
    BY <1>3, RetentionEffect DEF ApplyRetention, fileVars
  <2>1. PICK sn \in snap[j] : 
          /\ deleted' = deleted \cup UNION {Doomed(sn, j, s) : s \in Live(man)}
          /\ \A s \in Live(man) : man'.segs[s].del = man.segs[s].del \cup Doomed(sn, j, s)
    BY <1>3, RetentionEffect
  <2>2. \A s \in Live(man) : Doomed(sn, j, s) \subseteq rows[s]
    BY DEF Doomed, Planned
  <2>3. ASSUME NEW l \in deleted' PROVE l <= man.wm
    BY <2>1, <2>2, <2>3 DEF SegmentsHold
  <2>4. ASSUME NEW l \in deleted' \ reflushed, NEW s \in Live(man), l \in rows[s]
        PROVE  l \in man'.segs[s].del
    <3>1. CASE l \in deleted
      BY <2>1, <2>4, <3>1
    <3>2. CASE l \notin deleted
      <4>1. PICK t \in Live(man) : l \in Doomed(sn, j, t)
        BY <2>1, <2>4, <3>2
      <4>2. l \in rows[t] /\ l \in Lsns
        BY <2>2, <4>1
      <4>3. s = t
        BY <2>4, <4>2
      <4>4. QED
        BY <2>1, <4>1, <4>3
    <3>3. QED
      BY <3>1, <3>2
  <2>5. QED
    BY <2>0, <2>3, <2>4
<1>4. ASSUME NEW x \in todo, CommitScore(x) PROVE DeletionsStand'
  <2>1. UNCHANGED <<rows, deleted, reflushed>>
    BY <1>4 DEF CommitScore, fileVars
  <2>2. QED
    BY <1>4, <2>1, ScoreEffect
<1>5. CASE Next /\ UNCHANGED <<man, deleted, reflushed>>
  <2>1. \A s \in Live(man) : rows'[s] = rows[s]
    BY <1>5, RowsKept DEF IdsFit
  <2>2. QED
    BY <1>5, <2>1
<1>6. CASE UNCHANGED vars
  BY <1>6 DEF vars, history
<1>7. QED
  BY <1>1, <1>2, <1>3, <1>4, <1>5, <1>6
  DEF Next, history, Ingest, Seal, Merge, Reclaim, Mark, UnlinkMarked, Done, Pin, Drop,
      EndPlan, PlanRetention, PlanScores, Crash, UnlinkPending, Restart

\* A patch moves with its segment.
LEMMA PatchesNext == IInv /\ [Next]_vars => LandedPatchKept'
<1> SUFFICES ASSUME IInv, [Next]_vars PROVE LandedPatchKept'
  OBVIOUS
<1>0. LandedPatchKept
  BY DEF IInv
<1> USE <1>0 DEF LandedPatchKept, Patched
<1>1. CASE CommitFlush
  <2>1. UNCHANGED landed
    BY <1>1 DEF CommitFlush
  <2>2. QED
    BY <1>1, <2>1, FlushEffect
<1>2. CASE CommitCompaction
  <2>1. UNCHANGED landed
    BY <1>2 DEF CommitCompaction, history
  <2>2. ASSUME NEW t \in landed PROVE \E s \in Live(man') : t \in man'.segs[s].up
    <3>1. PICK s \in Live(man) : t \in man.segs[s].up
      OBVIOUS
    <3>2. CASE s \in inputs
      <4>1. t \in MergedPatches(inputs)
        BY <3>1, <3>2 DEF MergedPatches
      <4>2. t \in man'.segs[NewSegment].up
        BY <1>2, <4>1, CompactionEffect DEF Entry
      <4>3. QED
        BY <1>2, <4>2, CompactionEffect
    <3>3. CASE s \notin inputs
      BY <1>2, <3>1, <3>3, CompactionEffect
    <3>4. QED
      BY <3>2, <3>3
  <2>3. QED
    BY <2>1, <2>2
<1>3. ASSUME NEW j \in Clients, ApplyRetention(j) PROVE LandedPatchKept'
  <2>1. UNCHANGED landed /\ Live(man') = Live(man)
    BY <1>3, RetentionEffect DEF ApplyRetention
  <2>2. \A s \in Live(man) : man'.segs[s].up = man.segs[s].up
    BY <1>3, RetentionEffect
  <2>3. QED
    BY <2>1, <2>2
<1>4. ASSUME NEW x \in todo, CommitScore(x) PROVE LandedPatchKept'
  <2>1. /\ Live(man') = Live(man)
        /\ \A s \in Live(man) :
             man'.segs[s].up = IF s = x.seg THEN man.segs[s].up \cup {x.trace} ELSE man.segs[s].up
    BY <1>4, ScoreEffect
  <2>2. landed' = IF x.seg \in Live(man) THEN landed \cup {x.trace} ELSE landed
    BY <1>4 DEF CommitScore
  <2>3. QED
    BY <2>1, <2>2
<1>5. CASE UNCHANGED <<man, landed>>
  BY <1>5
<1>6. QED
  BY <1>1, <1>2, <1>3, <1>4, <1>5
  DEF Next, vars, history, Ingest, Seal, Merge, Reclaim, Mark, UnlinkMarked, Done, Pin, Drop,
      EndPlan, PlanRetention, PlanScores, Crash, UnlinkPending, Restart

\* A snapshot pinned now has everything it refers to.
LEMMA PinnedKept == IInv /\ Running => SnapKept(Pinned)
<1> SUFFICES ASSUME IInv, Running PROVE SnapKept(Pinned)
  OBVIOUS
<1>1. Pinned.man.wm = man.wm /\ Pinned.live = tail /\ Live(Pinned.man) = Live(man)
  BY DEF Pinned, Live
<1>2. \A k \in Lsns : man.wm < k /\ k <= tail => k \in mem
  BY Bounds DEF IInv, MemoryIsTail, Replayed, Running, Lsns
<1>3. \A d \in victims : d.seg \notin Live(man)
  BY DEF IInv, TypeOK, FilesKept
<1>4. QED
  BY <1>1, <1>2, <1>3, Bounds DEF SnapKept, IInv, FilesKept, IdsFit, Running

\* No step takes from a snapshot what it refers to: evictions stop at its watermark,
\* and victims are chosen while there is no snapshot, so that one that is pinned
\* later has a manifest without them.
LEMMA SnapsNext == IInv /\ [Next]_vars => SnapsKept'
<1> SUFFICES ASSUME IInv, [Next]_vars PROVE SnapsKept'
  OBVIOUS
<1> USE Bounds
<1>0. SnapsKept
  BY DEF IInv
<1>1. CASE Ingest
  <2>1. ASSUME NEW sn, SnapKept(sn) PROVE SnapKept(sn)'
    BY <1>1, <2>1 DEF Ingest, SnapKept, fileVars
  <2>2. QED
    BY <1>0, <1>1, <2>1 DEF Ingest, SnapsKept, clientVars
<1>2. CASE Seal \/ \E chosen \in SUBSET (1..(nextSeg - 1)) : Merge(chosen)
  <2>1. /\ UNCHANGED <<man, tail, mem, gc, victims, snap>> /\ wpc' # "down"
        /\ files \subseteq files'
    BY <1>2 DEF Seal, Merge, WriteSegment, clientVars
  <2>2. ASSUME NEW sn, SnapKept(sn) PROVE SnapKept(sn)'
    BY <2>1, <2>2 DEF SnapKept
  <2>3. QED
    BY <1>0, <2>1, <2>2 DEF SnapsKept
<1>3. CASE CommitFlush
  <2>1. PICK low \in Nat :
          /\ mem' = {l \in mem : l > low}
          /\ \A c \in Clients : \A sn \in snap[c] : low <= sn.man.wm
    BY <1>3, FlushEffect
  <2>2. man'.wm = tail /\ man'.next = nextSeg
    BY <1>3, FlushEffect
  <2>3. UNCHANGED <<tail, files, gc, victims, snap>> /\ wpc' # "down"
    BY <1>3 DEF CommitFlush, fileVars, clientVars
  <2>4. ASSUME NEW c \in Clients, NEW sn \in snap[c] PROVE SnapKept(sn)'
    <3>1. SnapKept(sn) /\ low <= sn.man.wm
      BY <1>0, <2>1 DEF SnapsKept
    <3>2. \A k \in Lsns : sn.man.wm < k /\ k <= sn.live => k \in mem'
      BY <2>1, <3>1 DEF SnapKept
    <3>3. sn.man.wm \in 0..man'.wm /\ sn.live \in 0..tail'
      BY <2>2, <2>3, <3>1 DEF SnapKept
    <3>4. \A s \in Live(sn.man) : s \in SegIds /\ s < man'.next /\ s \notin gc'
      BY <2>2, <2>3, <3>1 DEF SnapKept, SegIds
    <3>5. QED
      BY <2>3, <3>1, <3>2, <3>3, <3>4 DEF SnapKept
  <2>5. QED
    BY <2>3, <2>4 DEF SnapsKept
<1>4. CASE /\ man'.next = nextSeg /\ man'.wm = man.wm
           /\ UNCHANGED <<tail, mem, files, gc, victims>> /\ wpc' # "down"
           /\ \A c \in Clients : snap'[c] \subseteq snap[c]
  <2>1. ASSUME NEW c \in Clients, NEW sn \in snap'[c] PROVE SnapKept(sn)'
    <3>1. SnapKept(sn)
      BY <1>0, <1>4 DEF SnapsKept
    <3>2. \A s \in Live(sn.man) : s \in SegIds /\ s < man'.next /\ s \notin gc'
      BY <1>4, <3>1 DEF SnapKept, SegIds
    <3>3. QED
      BY <1>4, <3>1, <3>2 DEF SnapKept
  <2>2. QED
    BY <2>1 DEF SnapsKept
<1>5. CASE Reclaim
  <2>1. \A c \in Clients : snap'[c] = {}
    BY <1>5 DEF Reclaim, CanReclaim, HeldSnapshots, clientVars
  <2>2. QED
    BY <2>1 DEF SnapsKept
<1>6. ASSUME NEW d \in victims, Mark(d) PROVE SnapsKept'
  <2>1. ASSUME NEW sn, SnapKept(sn) PROVE SnapKept(sn)'
    BY <1>6, <2>1 DEF Mark, SnapKept, fileVars
  <2>2. QED
    BY <1>0, <1>6, <2>1 DEF Mark, SnapsKept, clientVars
<1>7. CASE UnlinkMarked \/ Done
  <2>1. ASSUME NEW sn, SnapKept(sn) PROVE SnapKept(sn)'
    BY <1>7, <2>1 DEF UnlinkMarked, Done, SnapKept, fileVars
  <2>2. UNCHANGED snap
    BY <1>7 DEF UnlinkMarked, Done, clientVars
  <2>3. QED
    BY <1>0, <2>1, <2>2 DEF SnapsKept
<1>8. CASE Crash
  BY <1>8 DEF Crash, SnapsKept
<1>9. CASE wpc = "down" /\ UNCHANGED snap
  BY <1>0, <1>9 DEF SnapsKept, SnapKept
<1>10. CASE /\ UNCHANGED <<man, tail, mem, files, gc, victims, wpc>>
            /\ \A c \in Clients : \A sn \in snap'[c] : sn \in snap[c] \/ (Running /\ sn = Pinned)
  <2>1. ASSUME NEW c \in Clients, NEW sn \in snap'[c] PROVE SnapKept(sn)'
    <3>1. SnapKept(sn)
      BY <1>0, <1>10, PinnedKept DEF SnapsKept
    <3>2. QED
      BY <1>10, <3>1 DEF SnapKept
  <2>2. QED
    BY <2>1 DEF SnapsKept
<1>11. ASSUME NEW c \in Clients,
              Pin(c) \/ Drop(c) \/ EndPlan(c) \/ \E traces \in SUBSET Traces : PlanRetention(c, traces)
       PROVE  SnapsKept'
  <2>1. snap' = [snap EXCEPT ![c] = {}] \/ (Running /\ snap' = [snap EXCEPT ![c] = {Pinned}])
    BY <1>11 DEF Pin, Drop, EndPlan, PlanRetention
  <2>2. \A b \in Clients : \A sn \in snap'[b] : sn \in snap[b] \/ (Running /\ sn = Pinned)
    BY <2>1 DEF IInv, Shape
  <2>3. UNCHANGED <<man, tail, mem, files, gc, victims, wpc>>
    BY <1>11 DEF Pin, Drop, EndPlan, PlanRetention, fileVars
  <2>4. QED
    BY <1>10, <2>2, <2>3
<1>12. CASE CommitCompaction
  BY <1>4, <1>12, CompactionEffect DEF CommitCompaction, fileVars, clientVars
<1>13. ASSUME NEW j \in Clients, ApplyRetention(j) PROVE SnapsKept'
  <2>1. \A c \in Clients : snap'[c] \subseteq snap[c]
    BY <1>13 DEF ApplyRetention, IInv, Shape
  <2>2. UNCHANGED <<tail, mem, files, gc, victims>> /\ wpc' # "down"
    BY <1>13 DEF ApplyRetention, fileVars
  <2>3. QED
    BY <1>4, <1>13, <2>1, <2>2, RetentionEffect
<1>14. ASSUME NEW x \in todo, CommitScore(x) PROVE SnapsKept'
  <2>1. UNCHANGED <<tail, mem, files, gc, victims, snap>> /\ wpc' # "down"
    BY <1>14 DEF CommitScore, fileVars, clientVars
  <2>2. QED
    BY <1>4, <1>14, <2>1, ScoreEffect
<1>15. CASE UNCHANGED <<man, tail, mem, files, gc, victims, wpc, snap>>
  BY <1>10, <1>15
<1>16. QED
  BY <1>1, <1>2, <1>3, <1>5, <1>6, <1>7, <1>8, <1>9, <1>11, <1>12, <1>13, <1>14, <1>15
  DEF Next, vars, fileVars, clientVars, PlanScores, UnlinkPending, Restart

\* Every step keeps the invariant.
LEMMA NextInv == IInv /\ [Next]_vars => IInv'
  BY TypeNext, IdsNext, FilesNext, DraftedNext, MemoryNext, SegmentsNext, DeletionsNext,
     SnapsNext, PatchesNext
  DEF IInv

-----------------------------------------------------------------------------
(* The theorems.                                                           *)

\* The invariant holds in every reachable state of the write coordinator.
THEOREM Invariance == Spec => []IInv
  BY InitInv, NextInv, PTL DEF Spec

\* The engine's variables keep their types.
THEOREM EngineTypeCorrect == Spec => []TypeOK
<1>1. IInv => TypeOK
  BY DEF IInv
<1>2. QED
  BY <1>1, Invariance, PTL

\* Whenever the process dies, open_durable and recover find every event that no job
\* deleted: between any two writes of a flush, a compaction, a reclamation or a
\* restart the manifest, the segment files, gc.log and the log agree.
THEOREM NothingLostInACrash == Spec => []RestartComplete
<1>1. IInv => RestartComplete
  <2> SUFFICES ASSUME IInv, NEW l \in (1..tail) \ deleted
               PROVE  l \in Visible([man EXCEPT !.segs = [s \in Live(man) \ gc |-> man.segs[s]]],
                                    tail, Replayed)
    BY DEF RestartComplete
  <2> DEFINE m == [man EXCEPT !.segs = [s \in Live(man) \ gc |-> man.segs[s]]]
  <2> USE Bounds
  <2>1. /\ m.wm = man.wm /\ Live(m) = Live(man)
        /\ \A s \in Live(man) : m.segs[s] = man.segs[s]
    BY DEF IInv, Shape, FilesKept, Live
  <2>2. l \in Lsns
    BY DEF Lsns
  <2> HIDE DEF m
  <2>3. ASSUME l <= man.wm PROVE l \in Visible(m, tail, Replayed)
    <3>1. PICK s \in Live(man) : l \in rows[s] /\ l \notin man.segs[s].del
      BY <2>2, <2>3 DEF IInv, SegmentsHold
    <3>2. s \in Live(m) \cap files /\ l \in rows[s] \ m.segs[s].del
      BY <2>1, <3>1 DEF IInv, FilesKept
    <3>3. QED
      BY <3>2 DEF Visible
  <2>4. ASSUME l > man.wm PROVE l \in Visible(m, tail, Replayed)
    <3>1. l \in Replayed /\ m.wm < l /\ l <= tail
      BY <2>1, <2>2, <2>4 DEF Replayed
    <3>2. QED
      BY <3>1 DEF Visible
  <2>5. l \in Visible(m, tail, Replayed)
    BY <2>2, <2>3, <2>4
  <2>6. QED
    BY <2>5 DEF m
<1>2. QED
  BY <1>1, Invariance, PTL

\* An event that a retention job reported deleted is never seen again, compactions
\* planned before and restarts included, unless it had been flushed twice.
THEOREM DeletionsLast == Spec => []DeletedStaysDeletedUnlessReflushed
<1>1. IInv => DeletedStaysDeletedUnlessReflushed
  <2> SUFFICES ASSUME IInv, NEW l \in deleted, l \in VisibleNow PROVE l \in reflushed
    BY DEF DeletedStaysDeletedUnlessReflushed
  <2>1. l <= man.wm /\ l \in Nat
    BY Bounds DEF IInv, DeletionsStand, TypeOK
  <2>2. PICK s \in Live(man) : l \in rows[s] /\ l \notin man.segs[s].del
    BY <2>1, Bounds DEF VisibleNow, Visible
  <2>3. QED
    BY <2>2 DEF IInv, DeletionsStand
<1>2. QED
  BY <1>1, Invariance, PTL

\* A score that reached a segment is in some segment ever after.
THEOREM PatchesLast == Spec => []LandedPatchKept
<1>1. IInv => LandedPatchKept
  BY DEF IInv
<1>2. QED
  BY <1>1, Invariance, PTL

-----------------------------------------------------------------------------
(* The engine implements TraceStore.                                       *)

View == [c \in Clients |-> {Seen(sn) : sn \in snap[c]}]

\* What a snapshot shows, told without the files and the MemTable.
Shown(sn) ==
  (UNION {rows[s] \ sn.man.segs[s].del : s \in Live(sn.man)})
     \cup {l \in Lsns : sn.man.wm < l /\ l <= sn.live}

\* A snapshot shows all rows of its segments and all events of its range of the log.
LEMMA SeenIsShown == IInv => \A c \in Clients : \A sn \in snap[c] : Seen(sn) = Shown(sn)
<1> SUFFICES ASSUME IInv, NEW c \in Clients, NEW sn \in snap[c] PROVE Seen(sn) = Shown(sn)
  OBVIOUS
<1>1. SnapKept(sn)
  BY DEF IInv, SnapsKept
<1>2. Live(sn.man) \cap files = Live(sn.man)
  BY <1>1 DEF SnapKept
<1>3. {l \in mem : sn.man.wm < l /\ l <= sn.live} = {l \in Lsns : sn.man.wm < l /\ l <= sn.live}
  BY <1>1, Bounds DEF SnapKept
<1>4. QED
  BY <1>2, <1>3 DEF Seen, Visible, Shown

\* The same after a step.
LEMMA SeenIsShownNext == IInv' => (\A c \in Clients : \A sn \in snap[c] : Seen(sn) = Shown(sn))'
  BY SeenIsShown, PTL

\* The manifest shows every event but deleted ones, and only accepted events.
LEMMA PinnedShowsAll ==
  IInv /\ Running =>
    (1..tail) \ deleted \subseteq Shown(Pinned) /\ Shown(Pinned) \subseteq 1..tail
<1> SUFFICES ASSUME IInv, Running
             PROVE  (1..tail) \ deleted \subseteq Shown(Pinned) /\ Shown(Pinned) \subseteq 1..tail
  OBVIOUS
<1> USE Bounds
<1>0. Shown(Pinned) = (UNION {rows[s] \ man.segs[s].del : s \in Live(man)})
                         \cup {l \in Lsns : man.wm < l /\ l <= tail}
  BY DEF Pinned, Shown, Live
<1>1. ASSUME NEW l \in (1..tail) \ deleted PROVE l \in Shown(Pinned)
  <2>1. l \in Lsns /\ l \in Nat
    BY DEF Lsns
  <2>2. CASE l <= man.wm
    BY <1>0, <2>1, <2>2 DEF IInv, SegmentsHold
  <2>3. CASE l > man.wm
    BY <1>0, <2>1, <2>3
  <2>4. QED
    BY <2>1, <2>2, <2>3
<1>2. ASSUME NEW l \in Shown(Pinned) PROVE l \in 1..tail
  <2>1. ASSUME NEW s \in Live(man), l \in rows[s] PROVE l \in 1..tail
    <3>1. l \in Lsns /\ l <= man.wm
      BY <2>1 DEF IInv, SegmentsHold
    <3>2. QED
      BY <3>1 DEF Lsns
  <2>2. CASE l \in {k \in Lsns : man.wm < k /\ k <= tail}
    BY <2>2 DEF Lsns
  <2>3. QED
    BY <1>0, <1>2, <2>1, <2>2
<1>3. QED
  BY <1>1, <1>2

\* A snapshot that stays open goes on showing the same events.
LEMMA ViewStable ==
  ASSUME IInv, IInv', Next, NEW c \in Clients, NEW sn \in snap[c], sn \in snap'[c]
  PROVE  Seen(sn)' = Seen(sn)
<1>1. Seen(sn) = Shown(sn)
  BY SeenIsShown
<1>3. Seen(sn)' = Shown(sn)'
  BY SeenIsShownNext
<1>4. SnapKept(sn)
  BY DEF IInv, SnapsKept
<1>5. \A s \in Live(sn.man) : rows'[s] = rows[s]
  BY <1>4, RowsKept DEF SnapKept
<1>6. Shown(sn)' = Shown(sn)
  BY <1>5 DEF Shown
<1>7. QED
  BY <1>1, <1>3, <1>6

\* The clients whose snapshots a step leaves alone keep their views.
LEMMA ViewKept ==
  ASSUME IInv, IInv', Next, NEW c \in Clients, snap'[c] = snap[c]
  PROVE  View'[c] = View[c]
<1>1. \A sn \in snap[c] : Seen(sn)' = Seen(sn)
  BY ViewStable
<1>2. View'[c] = {Seen(sn)' : sn \in snap[c]} /\ View[c] = {Seen(sn) : sn \in snap[c]}
  BY DEF View
<1>3. QED
  BY <1>1, <1>2

\* A step that only closes the snapshot of client c only closes its view.
LEMMA CloseStep ==
  ASSUME IInv, IInv', Next, NEW c \in Clients, snap' = [snap EXCEPT ![c] = {}]
  PROVE  View' = [View EXCEPT ![c] = {}]
<1>1. \A b \in Clients \ {c} : View'[b] = View[b]
  BY ViewKept DEF IInv, Shape
<1>2. View'[c] = {}
  BY DEF View, IInv, Shape
<1>3. View = [b \in Clients |-> View[b]] /\ View' = [b \in Clients |-> View'[b]]
  BY DEF View
<1>4. QED
  BY <1>1, <1>2, <1>3

\* A pin opens a view that has everything accepted and not deleted.
LEMMA LookStep ==
  ASSUME IInv, IInv', Next, NEW c \in Clients, Running, snap[c] = {},
         snap' = [snap EXCEPT ![c] = {Pinned}], UNCHANGED <<tail, deleted>>
  PROVE  Store!Look(c)
<1>1. \A b \in Clients \ {c} : View'[b] = View[b]
  BY ViewKept DEF IInv, Shape
<1>2. PICK p : p = Pinned /\ snap'[c] = {p}
  BY DEF IInv, Shape
<1>3. Seen(p)' = Shown(p)
  <2>1. Seen(p)' = Shown(p)'
    BY <1>2, SeenIsShownNext
  <2>2. SnapKept(p)
    BY <1>2, PinnedKept
  <2>3. \A s \in Live(p.man) : rows'[s] = rows[s]
    BY <2>2, RowsKept DEF SnapKept
  <2>4. Shown(p)' = Shown(p)
    BY <2>3 DEF Shown
  <2>5. QED
    BY <2>1, <2>4
<1>4. View'[c] = {Shown(p)}
  BY <1>2, <1>3 DEF View
<1>5. View[c] = {}
  BY DEF View
<1>6. View = [b \in Clients |-> View[b]] /\ View' = [b \in Clients |-> View'[b]]
  BY DEF View
<1>7. View' = [View EXCEPT ![c] = {Shown(p)}]
  BY <1>1, <1>4, <1>6
<1>8. QED
  BY <1>2, <1>5, <1>7, PinnedShowsAll DEF Store!Look, View

\* A retention delete deletes some of what its job saw.
LEMMA DeleteStep ==
  ASSUME IInv, IInv', Next, NEW j \in Clients, ApplyRetention(j)
  PROVE  Store!Delete(j)
<1>1. PICK sn \in snap[j] : deleted' = deleted \cup UNION {Doomed(sn, j, s) : s \in Live(man)}
  BY RetentionEffect
<1> DEFINE gone == UNION {Doomed(sn, j, s) : s \in Live(man)}
<1>2. gone \subseteq Shown(sn)
  BY DEF Doomed, Planned, Shown
<1>3. gone \subseteq 1..tail
  <2>1. ASSUME NEW s \in Live(man), NEW l \in rows[s] PROVE l \in 1..tail
    BY Bounds DEF IInv, SegmentsHold, Lsns
  <2>2. QED
    BY <2>1 DEF Doomed, Planned
<1>4. Shown(sn) \in View[j]
  BY SeenIsShown DEF View
<1>5. View' = [View EXCEPT ![j] = {}] /\ UNCHANGED tail
  BY CloseStep DEF ApplyRetention
<1> HIDE DEF gone
<1>6. QED
  BY <1>1, <1>2, <1>3, <1>4, <1>5 DEF Store!Delete, View, gone

\* Every step of the engine is a step of TraceStore, or changes nothing in it.
LEMMA StoreStep == IInv /\ IInv' /\ [Next]_vars => [Store!Next]_(Store!storeVars)
<1> SUFFICES ASSUME IInv, IInv', [Next]_vars PROVE Store!Next \/ UNCHANGED <<tail, deleted, View>>
  BY DEF Store!storeVars, View
<1>1. CASE Ingest
  <2>1. tail < MaxLsn /\ tail' = tail + 1 /\ UNCHANGED <<deleted, snap>>
    BY <1>1 DEF Ingest, clientVars, history
  <2>2. Next
    BY <1>1 DEF Next
  <2>3. \A c \in Clients : View'[c] = View[c]
    BY <2>1, <2>2, ViewKept
  <2>4. View' = View
    BY <2>3 DEF View
  <2>5. Store!Accept
    BY <2>1, <2>4 DEF Store!Accept, View
  <2>6. QED
    BY <2>5 DEF Store!Next
<1>2. ASSUME NEW c \in Clients, Pin(c) \/ \E traces \in SUBSET Traces : PlanRetention(c, traces)
      PROVE  Store!Next
  <2>1. Next
    BY <1>2 DEF Next
  <2>2. Store!Look(c)
    BY <1>2, <2>1, LookStep DEF Pin, PlanRetention, history
  <2>3. QED
    BY <2>2 DEF Store!Next
<1>3. ASSUME NEW c \in Clients, Drop(c) \/ EndPlan(c) PROVE Store!Next
  <2>1. Next
    BY <1>3 DEF Next
  <2>2. snap' = [snap EXCEPT ![c] = {}] /\ UNCHANGED <<tail, deleted>>
    BY <1>3 DEF Drop, EndPlan, history
  <2>3. View' = [View EXCEPT ![c] = {}]
    BY <2>1, <2>2, CloseStep
  <2>4. Store!Close(c)
    BY <2>2, <2>3 DEF Store!Close, View
  <2>5. QED
    BY <2>4 DEF Store!Next
<1>4. ASSUME NEW j \in Clients, ApplyRetention(j) PROVE Store!Next
  <2>1. Next
    BY <1>4 DEF Next
  <2>2. QED
    BY <1>4, <2>1, DeleteStep DEF Store!Next
<1>5. CASE Crash
  <2>1. snap' = [c \in Clients |-> {}] /\ UNCHANGED <<tail, deleted>>
    BY <1>5 DEF Crash, history
  <2>2. View' = [c \in Clients |-> {}]
    BY <2>1 DEF View
  <2>3. QED
    BY <2>1, <2>2 DEF Store!Crash, Store!Next, View
<1>6. CASE Next /\ UNCHANGED <<tail, deleted, snap>>
  <2>1. \A c \in Clients : View'[c] = View[c]
    BY <1>6, ViewKept
  <2>2. View' = View
    BY <2>1 DEF View
  <2>3. QED
    BY <1>6, <2>2
<1>7. CASE UNCHANGED vars
  BY <1>7 DEF vars, history, View, Seen, Visible
<1>8. QED
  BY <1>1, <1>2, <1>3, <1>4, <1>5, <1>6, <1>7
  DEF Next, clientVars, history, Seal, CommitFlush, Merge, CommitCompaction, Reclaim, Mark,
      UnlinkMarked, Done, PlanScores, CommitScore, UnlinkPending, Restart

\* The engine implements TraceStore: through flushes, compactions, reclamations, other
\* clients' deletes and crashes an open snapshot shows the same events, a new one shows
\* all that nobody deleted, and jobs delete only what they saw.
THEOREM Refinement == Spec => ImplementsTraceStore
<1>1. Init => Store!Init
  BY DEF Init, Store!Init
<1>2. QED
  BY <1>1, Invariance, StoreStep, PTL DEF Spec, ImplementsTraceStore, Store!Spec

=============================================================================
