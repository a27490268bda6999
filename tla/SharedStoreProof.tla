---------------------------- MODULE SharedStoreProof ----------------------------
(***************************************************************************)
(* Processes that share a data directory, for any set of them and any      *)
(* bounds: whoever comes up to date shows every acknowledged event, a      *)
(* snapshot of the current manifest keeps its rows, and a backup that saw  *)
(* no commit restores.                                                     *)
(*                                                                         *)
(* Every process that is up has a view of some past state of the disk: an  *)
(* older version of the manifest, or the current one, a shorter tail, and  *)
(* in its MemTable at least what lies between the two.  The disk holds in  *)
(* the segments of the manifest what lies below its watermark.  A snapshot *)
(* is safe since what gc.log or the reclamation in progress may unlink was *)
(* in no manifest when the snapshot was taken, and nothing is added to     *)
(* that while there is a snapshot.                                         *)
(***************************************************************************)
EXTENDS SharedStore, FiniteSetTheorems, TLAPS

-----------------------------------------------------------------------------
(* The inductive invariant.                                                *)

Manifests == [version : Nat, segs : SUBSET SegIds, wm : Nat, next : Nat \ {0}]
DeadSegments == [seg : SegIds, v : Nat]
Views == [man : Manifests, tail : Nat, mem : SUBSET Nat, dead : SUBSET DeadSegments, base : Nat]
Snapshots == [man : Manifests, live : Nat, current : BOOLEAN, base : Nat,
              saw : SUBSET Nat, segs : SUBSET Nat]

Doomed == gc \cup {d.seg : d \in victims}

Shape ==
  /\ man \in Manifests /\ tail \in 0..MaxLsn
  /\ rows \in [SegIds -> SUBSET Nat] /\ files \subseteq SegIds /\ gc \subseteq SegIds
  /\ lock \in Procs \cup {Nobody} /\ view \in [Procs -> Views]
  /\ pc \in [Procs -> {"down", "idle", "pinning"}]
  /\ victims \subseteq DeadSegments
  /\ snap \in [Procs -> SUBSET Snapshots]

\* The segments of the manifest are there, and hold what the watermark says.
DiskHolds ==
  /\ man.segs \subseteq files /\ SegmentRows(man) = 1..man.wm /\ man.wm <= tail
  /\ \A s \in man.segs \cup Doomed : s < man.next
  /\ man.segs \cap Doomed = {}
  /\ lock = Nobody => victims = {}

\* A view of the present or of the past.
GoodView(v) ==
  /\ v.man.version <= man.version /\ (v.man.version = man.version => v.man = man)
  /\ v.base <= v.man.version
  /\ v.man.wm <= v.tail /\ v.tail <= tail
  /\ v.mem \subseteq 1..v.tail /\ Between(v.man.wm, v.tail) \subseteq v.mem
  /\ v.mem # {} => v.tail \in v.mem
  /\ \A d \in v.dead : d.seg < man.next

ViewsGood == \A p \in Procs : Up(p) => GoodView(view[p])

\* A snapshot whose segments nothing may take away.
GoodSnap(p, sn) ==
  /\ sn.base <= view[p].base /\ sn.live <= view[p].tail
  /\ sn.current =>
       /\ sn.man.segs \subseteq files \ Doomed
       /\ \A s \in sn.man.segs : s < man.next
       /\ SegmentRows(sn.man) = sn.segs
       /\ view[p].base = sn.base => Shown(sn.man, sn.live, view[p].mem) = sn.saw

SnapsGood ==
  \A p \in Procs : /\ snap[p] = {} \/ \E sn \in snap[p] : snap[p] = {sn}
                   /\ snap[p] # {} => Up(p)
                   /\ \A sn \in snap[p] : GoodSnap(p, sn)

\* What a backup in progress has copied, if no manifest was committed since.
BackupGood ==
  /\ backup.pc \in {"log", "manifest"} =>
       /\ backup.version \in Nat /\ backup.version <= man.version
       /\ backup.acked \in Nat /\ backup.acked <= tail
       /\ backup.version = man.version => man.segs \subseteq backup.files
       /\ backup = [pc |-> backup.pc, by |-> backup.by, files |-> backup.files,
                    acked |-> backup.acked, tail |-> backup.tail, version |-> backup.version]
  /\ backup.pc = "manifest" => backup.tail \in Nat /\ backup.acked <= backup.tail
                               /\ backup.tail <= tail
  /\ QuietBackupRestores

IInv == Shape /\ DiskHolds /\ ViewsGood /\ SnapsGood /\ BackupGood

\* An empty directory and no process.
LEMMA InitInv == Init => IInv
<1> SUFFICES ASSUME Init PROVE IInv
  OBVIOUS
<1> USE NobodyIsNoProc, BoundsAreNat DEF Init
<1>1. Shape
  BY DEF Shape, NoView, Manifests, Views, DeadSegments, SegIds
<1>2. DiskHolds
  BY DEF DiskHolds, NoView, SegmentRows, Doomed
<1>3. ViewsGood
  BY DEF ViewsGood, Up
<1>4. SnapsGood
  BY DEF SnapsGood
<1>5. BackupGood
  BY DEF BackupGood, NoBackup, QuietBackupRestores
<1>6. QED
  BY <1>1, <1>2, <1>3, <1>4, <1>5 DEF IInv

-----------------------------------------------------------------------------
(* Coming up to date.                                                      *)

\* From a MemTable that holds what lies between, the newest event is the tail.
LEMMA MaxIsTail ==
  ASSUME NEW mem \in SUBSET Nat, NEW last \in Nat, mem \subseteq 1..last, last \in mem
  PROVE  Max(mem) = last
<1>1. \A y \in mem : last >= y
  OBVIOUS
<1>2. \A x \in mem : (\A y \in mem : x >= y) => x = last
  OBVIOUS
<1>3. QED
  BY <1>1, <1>2 DEF Max

\* The smaller of two watermarks.
LEMMA MinOfTwo ==
  ASSUME NEW a \in Nat, NEW b \in Nat
  PROVE  Min({a} \cup {b}) \in Nat /\ Min({a} \cup {b}) <= a /\ Min({a} \cup {b}) <= b
<1>1. \E x \in {a} \cup {b} : \A y \in {a} \cup {b} : x <= y
  <2>1. CASE a <= b
    BY <2>1
  <2>2. CASE ~(a <= b)
    BY <2>2
  <2>3. QED
    BY <2>1, <2>2
<1>2. /\ Min({a} \cup {b}) \in {a} \cup {b}
      /\ \A y \in {a} \cup {b} : Min({a} \cup {b}) <= y
  BY <1>1 DEF Min
<1>3. QED
  BY <1>2

\* A process that refreshes has the manifest and the tail of the disk, in its MemTable
\* all that is in no segment, and of what it had before nothing less unless its
\* MemTable is a new one.
LEMMA HereIsCurrent ==
  ASSUME IInv, NEW p \in Procs, Up(p)
  PROVE  /\ Here(p) \in Views /\ Here(p).man = man /\ Here(p).tail = tail
         /\ Here(p).dead = view[p].dead
         /\ Here(p).mem \subseteq 1..tail /\ Between(man.wm, tail) \subseteq Here(p).mem
         /\ Here(p).mem # {} => tail \in Here(p).mem
         /\ Here(p).base <= man.version /\ view[p].base <= Here(p).base
         /\ view[p].tail <= tail
         /\ Here(p).base = view[p].base =>
              \A l \in 1..view[p].tail : l \in Here(p).mem <=> l \in view[p].mem
<1> DEFINE v == view[p]
<1>1. v \in Views /\ man \in Manifests /\ tail \in Nat /\ tail <= MaxLsn /\ MaxLsn \in Nat
  BY BoundsAreNat DEF IInv, Shape
<1>2. GoodView(v)
  BY DEF IInv, ViewsGood
<1>3. man.wm \in Nat /\ man.version \in Nat /\ man.wm <= tail
  BY <1>1 DEF IInv, DiskHolds, Manifests
<1>4. v.man \in Manifests /\ v.tail \in Nat /\ v.mem \subseteq Nat /\ v.base \in Nat
  BY <1>1 DEF Views
<1>5. \A a, b \in Nat : b <= tail => Between(a, b) \subseteq 1..b /\ (a < b => b \in Between(a, b))
  BY <1>1 DEF Between, Lsns
<1>6. CASE <<man.version, man.wm>> # <<v.man.version, v.man.wm>>
  <2>1. Here(p) = Rebuilt(v)
    BY <1>6 DEF Here, RefreshedView
  <2>2. v.man.version < man.version
    BY <1>2, <1>3, <1>4, <1>6 DEF GoodView, Manifests
  <2>3. /\ Here(p) = [v EXCEPT !.man = man, !.tail = tail, !.mem = Between(man.wm, tail),
                              !.base = man.version]
        /\ Between(man.wm, tail) \subseteq Nat
    BY <1>1, <1>3, <1>5, <2>1 DEF Rebuilt
  <2>4. /\ Here(p) \in Views /\ Here(p).man = man /\ Here(p).tail = tail
        /\ Here(p).dead = v.dead /\ Here(p).mem = Between(man.wm, tail)
        /\ Here(p).base = man.version
    BY <1>1, <1>3, <2>3 DEF Views
  <2>5. v.base < man.version
    BY <1>2, <1>3, <1>4, <2>2 DEF GoodView, Manifests
  <2>6. Here(p).mem # {} => tail \in Here(p).mem
    <3>1. Between(man.wm, tail) # {} => man.wm < tail
      BY <1>1, <1>3 DEF Between, Lsns
    <3>2. QED
      BY <1>1, <1>3, <1>5, <2>4, <3>1
  <2>7. QED
    BY <1>1, <1>2, <1>3, <1>4, <1>5, <2>4, <2>5, <2>6 DEF GoodView
<1>7. CASE <<man.version, man.wm>> = <<v.man.version, v.man.wm>>
  <2>1. v.man = man
    BY <1>2, <1>7 DEF GoodView
  <2>2. Here(p) = [v EXCEPT !.tail = tail,
                            !.mem = v.mem \cup (Between(v.tail, tail) \cap Between(man.wm, tail))]
    BY <1>7, <2>1 DEF Here, RefreshedView, WithTail
  <2>3. /\ Here(p) \in Views /\ Here(p).man = man /\ Here(p).tail = tail
        /\ Here(p).dead = v.dead /\ Here(p).base = v.base
        /\ Here(p).mem = v.mem \cup (Between(v.tail, tail) \cap Between(man.wm, tail))
    <3>1. Between(v.tail, tail) \subseteq Nat
      BY <1>1, <1>4, <1>5
    <3>2. QED
      BY <1>1, <1>4, <2>1, <2>2, <3>1 DEF Views
  <2>4. /\ v.base <= man.version /\ v.tail <= tail /\ v.mem \subseteq 1..v.tail
        /\ Between(man.wm, v.tail) \subseteq v.mem /\ (v.mem # {} => v.tail \in v.mem)
        /\ man.wm <= v.tail
    BY <1>2, <2>1 DEF GoodView
  <2>5. Here(p).mem \subseteq 1..tail
    BY <1>1, <1>3, <1>4, <1>5, <2>3, <2>4
  <2>6. Between(man.wm, tail) \subseteq Here(p).mem
    <3> SUFFICES ASSUME NEW l \in Between(man.wm, tail) PROVE l \in Here(p).mem
      OBVIOUS
    <3>1. l \in Lsns /\ l \in Nat /\ man.wm < l /\ l <= tail
      BY <1>1 DEF Between, Lsns
    <3>2. l <= v.tail => l \in Between(man.wm, v.tail)
      BY <3>1 DEF Between
    <3>3. ~(l <= v.tail) => l \in Between(v.tail, tail)
      BY <1>4, <3>1 DEF Between
    <3>4. QED
      BY <2>3, <2>4, <3>2, <3>3
  <2>7. Here(p).mem # {} => tail \in Here(p).mem
    <3>1. v.tail < tail => tail \in Here(p).mem
      <4>1. man.wm < tail \/ man.wm = tail
        BY <1>1, <1>3
      <4>2. man.wm < tail => tail \in Between(man.wm, tail)
        BY <1>1, <1>3, <1>5
      <4>3. QED
        BY <1>1, <1>3, <1>4, <2>4, <2>6, <4>1, <4>2
    <3>2. v.tail = tail => Here(p).mem = v.mem
      BY <1>1, <1>4, <2>3 DEF Between, Lsns
    <3>3. QED
      BY <1>1, <1>4, <2>4, <3>1, <3>2
  <2>8. \A l \in 1..v.tail : l \in Here(p).mem <=> l \in v.mem
    BY <1>4, <2>3 DEF Between
  <2>9. QED
    BY <1>4, <2>3, <2>4, <2>5, <2>6, <2>7, <2>8
<1>8. QED
  BY <1>6, <1>7

\* So it shows every acknowledged event.
LEMMA UpToDateShowsAll == IInv => RefreshExact
<1> SUFFICES ASSUME IInv, NEW p \in Procs, Up(p)
             PROVE  Shown(Here(p).man, Here(p).tail, Here(p).mem) = 1..tail
  BY DEF RefreshExact
<1>1. tail \in Nat /\ tail <= MaxLsn /\ MaxLsn \in Nat /\ man.wm \in Nat /\ man.wm <= tail
      /\ SegmentRows(man) = 1..man.wm
  BY BoundsAreNat DEF IInv, Shape, DiskHolds, Manifests
<1>2. Shown(Here(p).man, Here(p).tail, Here(p).mem)
        = (1..man.wm) \cup (Here(p).mem \cap Between(man.wm, tail))
  BY <1>1, HereIsCurrent DEF Shown
<1>3. Here(p).mem \cap Between(man.wm, tail) = Between(man.wm, tail)
  BY HereIsCurrent
<1>4. (1..man.wm) \cup Between(man.wm, tail) = 1..tail
  BY <1>1 DEF Between, Lsns
<1>5. QED
  BY <1>2, <1>3, <1>4

-----------------------------------------------------------------------------
(* What a step leaves alone.                                               *)

\* No segment that was there, and not doomed, is gone, changed or doomed.
Kept ==
  /\ man.next <= man'.next
  /\ \A s \in SegIds : s < man.next /\ s \in files \ Doomed =>
       s \in (files \ Doomed)' /\ rows'[s] = rows[s]

\* Then a manifest whose segments were there shows the same rows.
LEMMA RowsKept ==
  ASSUME Kept, NEW m \in Manifests, m.segs \subseteq files \ Doomed,
         \A s \in m.segs : s < man.next
  PROVE  m.segs \subseteq (files \ Doomed)' /\ SegmentRows(m)' = SegmentRows(m)
<1>1. m.segs \subseteq SegIds
  BY DEF Manifests
<1>2. \A s \in m.segs : s \in (files \ Doomed)' /\ rows'[s] = rows[s]
  BY <1>1 DEF Kept
<1>3. \A s \in m.segs : s \in files'
  BY <1>2
<1>4. m.segs \cap files = m.segs /\ m.segs \cap files' = m.segs
  BY <1>3
<1>5. SegmentRows(m)' = UNION {rows'[s] : s \in m.segs}
  BY <1>4 DEF SegmentRows
<1>6. SegmentRows(m) = UNION {rows[s] : s \in m.segs}
  BY <1>4 DEF SegmentRows
<1>7. QED
  BY <1>2, <1>5, <1>6

\* The snapshot of a process survives if its own MemTable keeps the rows it reads.
LEMMA SnapStays ==
  ASSUME IInv, Shape', Kept, NEW p \in Procs, NEW sn \in snap[p],
         view[p].base <= view'[p].base, view[p].tail <= view'[p].tail,
         view'[p].base = view[p].base =>
           \A l \in Between(sn.man.wm, sn.live) : l \in view'[p].mem <=> l \in view[p].mem
  PROVE  GoodSnap(p, sn)'
<1>1. GoodSnap(p, sn) /\ sn \in Snapshots
  BY DEF IInv, SnapsGood, Shape
<1>2. /\ sn.man \in Manifests /\ sn.live \in Nat /\ sn.base \in Nat
      /\ view[p].base \in Nat /\ view[p].tail \in Nat
      /\ view'[p].base \in Nat /\ view'[p].tail \in Nat
      /\ man.next \in Nat /\ man'.next \in Nat
  BY <1>1 DEF Snapshots, IInv, Shape, Views, Manifests
<1>3. sn.base <= view'[p].base /\ sn.live <= view'[p].tail
  BY <1>1, <1>2 DEF GoodSnap
<1>4. ASSUME sn.current
      PROVE  /\ sn.man.segs \subseteq (files \ Doomed)'
             /\ \A s \in sn.man.segs : s < man'.next
             /\ SegmentRows(sn.man)' = sn.segs
             /\ view'[p].base = sn.base => Shown(sn.man, sn.live, view[p].mem)' = sn.saw
  <2>1. /\ sn.man.segs \subseteq files \ Doomed /\ SegmentRows(sn.man) = sn.segs
        /\ \A s \in sn.man.segs : s < man.next
        /\ view[p].base = sn.base => Shown(sn.man, sn.live, view[p].mem) = sn.saw
    BY <1>1, <1>4 DEF GoodSnap
  <2>2. sn.man.segs \subseteq (files \ Doomed)' /\ SegmentRows(sn.man)' = SegmentRows(sn.man)
    BY <1>2, <2>1, RowsKept
  <2>3. \A s \in sn.man.segs : s < man'.next
    <3>1. \A s \in sn.man.segs : s \in Nat
      BY <1>2 DEF Manifests, SegIds
    <3>2. QED
      BY <1>2, <2>1, <3>1 DEF Kept
  <2>4. ASSUME view'[p].base = sn.base
        PROVE  Shown(sn.man, sn.live, view[p].mem)' = sn.saw
    <3>1. view[p].base = sn.base /\ view'[p].base = view[p].base
      BY <1>1, <1>2, <2>4 DEF GoodSnap
    <3>2. view'[p].mem \cap Between(sn.man.wm, sn.live)
            = view[p].mem \cap Between(sn.man.wm, sn.live)
      BY <3>1
    <3>3. Shown(sn.man, sn.live, view[p].mem)'
            = SegmentRows(sn.man)' \cup (view'[p].mem \cap Between(sn.man.wm, sn.live))
      BY DEF Shown, Between
    <3>4. Shown(sn.man, sn.live, view[p].mem)
            = SegmentRows(sn.man) \cup (view[p].mem \cap Between(sn.man.wm, sn.live))
      BY DEF Shown
    <3>5. QED
      BY <2>1, <2>2, <3>1, <3>2, <3>3, <3>4
  <2>5. QED
    BY <2>1, <2>2, <2>3, <2>4
<1>5. QED
  BY <1>3, <1>4 DEF GoodSnap

\* Snapshots of all processes, some of them dropped.
LEMMA SnapsStay ==
  ASSUME IInv, Shape', Kept,
         \A p \in Procs : snap'[p] \in {snap[p], {}},
         \A p \in Procs : snap'[p] # {} => pc'[p] # "down",
         \A p \in Procs : \A sn \in snap'[p] :
           /\ view[p].base <= view'[p].base /\ view[p].tail <= view'[p].tail
           /\ view'[p].base = view[p].base =>
                \A l \in Between(sn.man.wm, sn.live) : l \in view'[p].mem <=> l \in view[p].mem
  PROVE  SnapsGood'
<1> SUFFICES ASSUME NEW p \in Procs
             PROVE  /\ snap'[p] = {} \/ \E sn \in snap'[p] : snap'[p] = {sn}
                    /\ snap'[p] # {} => pc'[p] # "down"
                    /\ \A sn \in snap'[p] : GoodSnap(p, sn)'
  BY DEF SnapsGood, Up
<1>1. snap'[p] = {} \/ \E sn \in snap'[p] : snap'[p] = {sn}
  BY DEF IInv, SnapsGood
<1>2. ASSUME NEW sn \in snap'[p] PROVE GoodSnap(p, sn)'
  <2>1. sn \in snap[p]
    OBVIOUS
  <2>2. QED
    BY <2>1, SnapStays
<1>3. QED
  BY <1>1, <1>2

\* The manifest on disk is the same, or the next version.
Moves ==
  man' = man \/ (man'.version = man.version + 1 /\ man.next <= man'.next)

\* A good view stays one.
LEMMA ViewStays ==
  ASSUME IInv, Shape', Moves, tail <= tail', NEW v \in Views, GoodView(v)
  PROVE  GoodView(v)'
<1>1. /\ man \in Manifests /\ man' \in Manifests /\ v.man \in Manifests
      /\ tail \in Nat /\ tail' \in Nat /\ v.tail \in Nat
      /\ \A d \in v.dead : d.seg \in Nat
  BY BoundsAreNat DEF IInv, Shape, Views, DeadSegments, SegIds
<1>2. /\ man.version \in Nat /\ man'.version \in Nat /\ v.man.version \in Nat
      /\ man.next \in Nat /\ man'.next \in Nat
  BY <1>1 DEF Manifests
<1>3. /\ man.version <= man'.version /\ man.next <= man'.next
      /\ man'.version = man.version => man' = man
  BY <1>2 DEF Moves
<1>4. GoodView(v)
  OBVIOUS
<1>5. v.man.version <= man'.version /\ (v.man.version = man'.version => v.man = man')
  BY <1>2, <1>3, <1>4 DEF GoodView
<1>6. v.tail <= tail' /\ \A d \in v.dead : d.seg < man'.next
  BY <1>1, <1>2, <1>3, <1>4 DEF GoodView
<1>7. Between(v.man.wm, v.tail)' = Between(v.man.wm, v.tail)
  BY DEF Between
<1>8. QED
  BY <1>4, <1>5, <1>6, <1>7 DEF GoodView

\* In a step of process p all views stay good if that of p does.
LEMMA ViewsStay ==
  ASSUME IInv, Shape', Moves, tail <= tail', NEW p \in Procs,
         \A q \in Procs \ {p} : view'[q] = view[q] /\ pc'[q] = pc[q],
         pc'[p] # "down" => GoodView(view[p])'
  PROVE  ViewsGood'
<1> SUFFICES ASSUME NEW q \in Procs, pc'[q] # "down" PROVE GoodView(view[q])'
  BY DEF ViewsGood, Up
<1>1. CASE q = p
  BY <1>1
<1>2. CASE q # p
  <2>1. PICK v : v = view[q]
    OBVIOUS
  <2>2. v \in Views /\ GoodView(v) /\ view'[q] = v
    BY <1>2, <2>1 DEF IInv, Shape, ViewsGood, Up
  <2>3. GoodView(v)'
    BY <2>2, ViewStays
  <2>4. QED
    BY <2>2, <2>3 DEF GoodView
<1>3. QED
  BY <1>1, <1>2

\* The disk keeps what it holds while no manifest is committed.
LEMMA DiskStays ==
  ASSUME IInv, Shape', man' = man, Kept, tail <= tail', Doomed' \subseteq Doomed,
         lock' = Nobody => victims' = {}
  PROVE  DiskHolds'
<1>1. man \in Manifests /\ man.segs \subseteq files \ Doomed /\ \A s \in man.segs : s < man.next
  BY DEF IInv, Shape, DiskHolds
<1>2. PICK m \in Manifests : m = man
  BY <1>1
<1>3. m.segs \subseteq (files \ Doomed)' /\ SegmentRows(m)' = SegmentRows(m)
  BY <1>1, <1>2, RowsKept
<1>4. man'.segs \subseteq (files \ Doomed)' /\ SegmentRows(man)' = SegmentRows(man)
  BY <1>2, <1>3 DEF SegmentRows
<1>5. man'.wm <= tail'
  BY BoundsAreNat DEF IInv, Shape, DiskHolds, Manifests
<1>6. QED
  BY <1>4, <1>5 DEF IInv, DiskHolds

\* A backup that goes on keeps what it knows.
LEMMA BackupStays ==
  ASSUME IInv, Shape', Moves, tail <= tail', backup' \in {backup, NoBackup}
  PROVE  BackupGood'
<1>1. CASE backup' = NoBackup
  BY <1>1 DEF BackupGood, NoBackup, QuietBackupRestores
<1>2. CASE backup' = backup
  <2>1. BackupGood
    BY DEF IInv
  <2>2. man.version \in Nat /\ man'.version \in Nat /\ tail \in Nat /\ tail' \in Nat
    BY BoundsAreNat DEF IInv, Shape, Manifests
  <2>3. backup.pc \in {"log", "manifest"} =>
          /\ backup.version \in Nat /\ backup.version <= man'.version
          /\ backup.acked \in Nat /\ backup.acked <= tail'
          /\ backup.version = man'.version => man'.segs \subseteq backup.files
    BY <2>1, <2>2 DEF BackupGood, Moves
  <2>4. backup.pc = "manifest" => backup.tail <= tail'
    BY <2>1, <2>2 DEF BackupGood
  <2>5. QED
    BY <1>2, <2>1, <2>3, <2>4 DEF BackupGood, QuietBackupRestores
<1>3. QED
  BY <1>1, <1>2

\* A step of process p that commits nothing and takes nothing away.
LEMMA QuietStep ==
  ASSUME IInv, Shape', man' = man, Kept, tail <= tail', Doomed' \subseteq Doomed,
         lock' = Nobody => victims' = {}, backup' \in {backup, NoBackup}, NEW p \in Procs,
         \A q \in Procs \ {p} : view'[q] = view[q] /\ pc'[q] = pc[q] /\ snap'[q] = snap[q],
         pc'[p] # "down" => GoodView(view[p])',
         snap'[p] \in {snap[p], {}}, snap'[p] # {} => pc'[p] # "down",
         \A sn \in snap'[p] :
           /\ view[p].base <= view'[p].base /\ view[p].tail <= view'[p].tail
           /\ view'[p].base = view[p].base =>
                \A l \in Between(sn.man.wm, sn.live) : l \in view'[p].mem <=> l \in view[p].mem
  PROVE  IInv'
<1>1. DiskHolds'
  BY DiskStays
<1>2. Moves
  BY DEF Moves
<1>3. ViewsGood' /\ BackupGood'
  BY <1>2, ViewsStay, BackupStays
<1>4. SnapsGood'
  <2>1. \A q \in Procs : snap'[q] \in {snap[q], {}}
    OBVIOUS
  <2>2. \A q \in Procs : snap'[q] # {} => pc'[q] # "down"
    BY DEF IInv, SnapsGood, Up
  <2>3. \A q \in Procs : \A sn \in snap'[q] :
          /\ view[q].base <= view'[q].base /\ view[q].tail <= view'[q].tail
          /\ view'[q].base = view[q].base =>
               \A l \in Between(sn.man.wm, sn.live) : l \in view'[q].mem <=> l \in view[q].mem
    <3> SUFFICES ASSUME NEW q \in Procs, q # p, NEW sn \in snap'[q]
                 PROVE  /\ view[q].base <= view'[q].base /\ view[q].tail <= view'[q].tail
                        /\ view'[q].base = view[q].base =>
                             \A l \in Between(sn.man.wm, sn.live) :
                               l \in view'[q].mem <=> l \in view[q].mem
      OBVIOUS
    <3>1. view'[q] = view[q] /\ view[q].base \in Nat /\ view[q].tail \in Nat
      BY DEF IInv, Shape, Views
    <3>2. QED
      BY <3>1
  <2>4. QED
    BY <2>1, <2>2, <2>3, SnapsStay
<1>5. QED
  BY <1>1, <1>3, <1>4 DEF IInv

-----------------------------------------------------------------------------
(* Readers.                                                                *)

\* A process that brings its view up to date has a good one.
LEMMA HereIsGood ==
  ASSUME IInv, NEW p \in Procs, Up(p), man' = man, tail' = tail, view'[p] = Here(p)
  PROVE  GoodView(view[p])'
<1>1. /\ Here(p).man = man /\ Here(p).tail = tail /\ Here(p).dead = view[p].dead
      /\ Here(p).mem \subseteq 1..tail /\ Between(man.wm, tail) \subseteq Here(p).mem
      /\ Here(p).mem # {} => tail \in Here(p).mem
      /\ Here(p).base <= man.version
  BY HereIsCurrent
<1>2. man.version <= man.version /\ man.wm <= tail /\ tail <= tail
  BY BoundsAreNat DEF IInv, Shape, Manifests, DiskHolds
<1>3. \A d \in view[p].dead : d.seg < man.next
  BY DEF IInv, ViewsGood, GoodView
<1>4. Between(man.wm, tail)' = Between(man.wm, tail)
  BY DEF Between
<1>5. QED
  BY <1>1, <1>2, <1>3, <1>4 DEF GoodView

\* What its snapshot reads stays in its MemTable, or that is a new one.
LEMMA HereKeeps ==
  ASSUME IInv, NEW p \in Procs, Up(p), NEW sn \in snap[p]
  PROVE  /\ view[p].base <= Here(p).base /\ view[p].tail <= Here(p).tail
         /\ Here(p).base = view[p].base =>
              \A l \in Between(sn.man.wm, sn.live) : l \in Here(p).mem <=> l \in view[p].mem
<1>1. sn.live <= view[p].tail /\ sn.live \in Nat /\ view[p].tail \in Nat
  BY DEF IInv, Shape, SnapsGood, GoodSnap, Snapshots, Views
<1>2. Between(sn.man.wm, sn.live) \subseteq 1..view[p].tail
  BY <1>1, BoundsAreNat DEF Between, Lsns
<1>3. QED
  BY <1>2, HereIsCurrent

\* A step that only lets p refresh.
LEMMA RefreshInv ==
  ASSUME IInv, NEW p \in Procs, Up(p), view' \in {view, [view EXCEPT ![p] = Here(p)]},
         NEW step \in {"idle", "pinning"}, pc' \in {pc, [pc EXCEPT ![p] = step]},
         UNCHANGED <<disk, lock, victims, snap, backup, faults>>
  PROVE  IInv'
<1>1. /\ UNCHANGED <<man, tail, rows, files, gc, lock, victims, snap, backup>>
      /\ view'[p] \in {view[p], Here(p)} /\ Doomed' = Doomed
      /\ \A q \in Procs \ {p} : view'[q] = view[q] /\ pc'[q] = pc[q] /\ snap'[q] = snap[q]
  BY DEF disk, Doomed, IInv, Shape
<1>2. Shape'
  <2>1. view' \in [Procs -> Views] /\ pc' \in [Procs -> {"down", "idle", "pinning"}]
    BY HereIsCurrent DEF IInv, Shape
  <2>2. QED
    BY <1>1, <2>1 DEF IInv, Shape
<1>3. Kept
  BY <1>1 DEF Kept, IInv, Shape, Manifests
<1>4. GoodView(view[p])'
  <2>1. CASE view'[p] = Here(p)
    BY <1>1, <2>1, HereIsGood
  <2>2. CASE view'[p] = view[p]
    BY <1>1, <2>2 DEF IInv, ViewsGood, GoodView, Between
  <2>3. QED
    BY <1>1, <2>1, <2>2
<1>5. \A sn \in snap'[p] :
        /\ view[p].base <= view'[p].base /\ view[p].tail <= view'[p].tail
        /\ view'[p].base = view[p].base =>
             \A l \in Between(sn.man.wm, sn.live) : l \in view'[p].mem <=> l \in view[p].mem
  <2>1. view[p].base \in Nat /\ view[p].tail \in Nat
    BY DEF IInv, Shape, Views
  <2>2. QED
    BY <1>1, <2>1, HereKeeps
<1>6. pc'[p] # "down"
  BY DEF Up, IInv, Shape
<1>7. tail <= tail' /\ (lock' = Nobody => victims' = {})
  BY <1>1, BoundsAreNat DEF IInv, Shape, DiskHolds
<1>8. QED
  BY <1>1, <1>2, <1>3, <1>4, <1>5, <1>6, <1>7, QuietStep

\* A read refreshes, or a snapshot begins.
LEMMA ReadInv ==
  ASSUME IInv, NEW p \in Procs, Refresh(p) \/ \E fresh \in BOOLEAN : BeginPin(p, fresh)
  PROVE  IInv'
<1>1. CASE Refresh(p)
  BY <1>1, RefreshInv DEF Refresh, Free, Up
<1>2. ASSUME NEW fresh \in BOOLEAN, BeginPin(p, fresh) PROVE IInv'
  <2>1. Up(p) /\ pc' = [pc EXCEPT ![p] = "pinning"]
        /\ UNCHANGED <<disk, lock, victims, snap, backup, faults>>
    BY <1>2 DEF BeginPin, Up
  <2>2. view' \in {view, [view EXCEPT ![p] = Here(p)]}
    BY <1>2 DEF BeginPin, IInv, Shape
  <2>3. QED
    BY <2>1, <2>2, RefreshInv
<1>3. QED
  BY <1>1, <1>2

\* The snapshot of the manifest that is on disk has segments nothing may take away.
LEMMA FinishPinInv ==
  ASSUME IInv, NEW p \in Procs, FinishPin(p)
  PROVE  IInv'
<1> DEFINE v == view[p]
           sn == [man |-> v.man, live |-> v.tail, current |-> v.man = man, base |-> v.base,
                  saw |-> Shown(v.man, v.tail, v.mem), segs |-> SegmentRows(v.man)]
<1>1. /\ pc[p] = "pinning" /\ pc' = [pc EXCEPT ![p] = "idle"]
      /\ snap' = [snap EXCEPT ![p] = {sn}]
      /\ UNCHANGED <<man, tail, rows, files, gc, lock, view, victims, backup>>
  BY DEF FinishPin, disk
<1>2. v \in Views /\ v.man \in Manifests /\ v.tail \in Nat /\ v.base \in Nat /\ v.mem \subseteq Nat
  BY DEF IInv, Shape, Views
<1>3. SegmentRows(v.man) \subseteq Nat /\ Shown(v.man, v.tail, v.mem) \subseteq Nat
  BY <1>2 DEF SegmentRows, Shown, IInv, Shape
<1>4. sn \in Snapshots
  BY <1>2, <1>3 DEF Snapshots
<1>5. Shape'
  <2>1. snap' \in [Procs -> SUBSET Snapshots]
    BY <1>1, <1>4 DEF IInv, Shape
  <2>2. pc' \in [Procs -> {"down", "idle", "pinning"}]
    BY <1>1 DEF IInv, Shape
  <2>3. QED
    BY <1>1, <2>1, <2>2 DEF IInv, Shape
<1>6. DiskHolds' /\ BackupGood'
  BY <1>1 DEF IInv, DiskHolds, BackupGood, Doomed, SegmentRows, QuietBackupRestores
<1>7. ViewsGood'
  BY <1>1 DEF IInv, ViewsGood, GoodView, Up, Between, Shape
<1>8. SnapsGood'
  <2>1. ASSUME NEW q \in Procs, q # p
        PROVE  /\ snap'[q] = {} \/ \E x \in snap'[q] : snap'[q] = {x}
               /\ snap'[q] # {} => pc'[q] # "down"
               /\ \A x \in snap'[q] : GoodSnap(q, x)'
    <3>1. snap'[q] = snap[q] /\ pc'[q] = pc[q]
      BY <1>1, <2>1 DEF IInv, Shape
    <3>2. \A x \in snap[q] : GoodSnap(q, x)' <=> GoodSnap(q, x)
      BY <1>1 DEF GoodSnap, Shown, SegmentRows, Doomed, Between
    <3>3. QED
      BY <3>1, <3>2 DEF IInv, SnapsGood, Up
  <2>2. snap'[p] = {sn} /\ pc'[p] = "idle"
    BY <1>1 DEF IInv, Shape
  <2>3. PICK x : x = sn
    OBVIOUS
  <2>4. /\ x.man = v.man /\ x.live = v.tail /\ x.base = v.base /\ (x.current => v.man = man)
        /\ x.saw = Shown(v.man, v.tail, v.mem) /\ x.segs = SegmentRows(v.man)
    BY <2>3
  <2>5. /\ x.base <= view'[p].base /\ x.live <= view'[p].tail
        /\ x.current => /\ x.man.segs \subseteq files' \ Doomed'
                        /\ \A s \in x.man.segs : s < man'.next
                        /\ SegmentRows(x.man)' = x.segs
                        /\ Shown(x.man, x.live, view[p].mem)' = x.saw
    <3>1. x.base <= v.base /\ x.live <= v.tail
      BY <1>2, <2>4
    <3>2. x.current => x.man.segs \subseteq files \ Doomed /\ \A s \in x.man.segs : s < man.next
      BY <2>4 DEF IInv, DiskHolds
    <3>3. SegmentRows(x.man)' = SegmentRows(x.man) /\ Doomed' = Doomed
      BY <1>1 DEF SegmentRows, Doomed
    <3>4. Shown(x.man, x.live, view[p].mem)' = Shown(x.man, x.live, view[p].mem)
      BY <1>1, <3>3 DEF Shown, Between
    <3>5. QED
      BY <1>1, <2>4, <3>1, <3>2, <3>3, <3>4
  <2>6. GoodSnap(p, x)'
    BY <2>5 DEF GoodSnap
  <2>7. snap'[p] = {x}
    BY <2>2, <2>3
  <2>8. QED
    BY <2>1, <2>2, <2>6, <2>7 DEF SnapsGood, Up
<1>9. QED
  BY <1>5, <1>6, <1>7, <1>8 DEF IInv

\* A snapshot is dropped.
LEMMA DropInv ==
  ASSUME IInv, NEW p \in Procs, Drop(p)
  PROVE  IInv'
<1>1. /\ snap' = [snap EXCEPT ![p] = {}]
      /\ UNCHANGED <<man, tail, rows, files, gc, lock, view, pc, victims, backup>>
      /\ Doomed' = Doomed
  BY DEF Drop, disk, Doomed
<1>2. Shape' /\ snap'[p] = {} /\ \A q \in Procs \ {p} : snap'[q] = snap[q]
  BY <1>1 DEF IInv, Shape
<1>3. Kept
  BY <1>1 DEF Kept, IInv, Shape, Manifests
<1>4. pc'[p] # "down" => GoodView(view[p])'
  BY <1>1 DEF IInv, ViewsGood, GoodView, Up, Between
<1>5. tail <= tail' /\ (lock' = Nobody => victims' = {})
  BY <1>1, BoundsAreNat DEF IInv, Shape, DiskHolds
<1>6. QED
  BY <1>1, <1>2, <1>3, <1>4, <1>5, QuietStep

-----------------------------------------------------------------------------
(* Crashes and starts.                                                     *)

\* A process goes away, leaving behind what does not harm a segment.
LEMMA GoneInv ==
  ASSUME IInv, NEW p \in Procs, Gone(p),
         rows' \in [SegIds -> SUBSET Nat], files' \subseteq SegIds, gc' \subseteq SegIds, Kept,
         Doomed' \subseteq Doomed
  PROVE  IInv'
<1> USE NobodyIsNoProc
<1>1. /\ pc' = [pc EXCEPT ![p] = "down"] /\ view' = [view EXCEPT ![p] = NoView]
      /\ snap' = [snap EXCEPT ![p] = {}]
      /\ lock' = (IF lock = p THEN Nobody ELSE lock)
      /\ victims' = (IF lock = p THEN {} ELSE victims)
      /\ backup' \in {backup, NoBackup} /\ UNCHANGED <<man, tail>>
  BY DEF Gone
<1>2. NoView \in Views
  BY DEF NoView, Views, Manifests
<1>3. Shape'
  <2>1. victims' \subseteq DeadSegments /\ lock' \in Procs \cup {Nobody}
    BY <1>1 DEF IInv, Shape
  <2>2. /\ view' \in [Procs -> Views] /\ pc' \in [Procs -> {"down", "idle", "pinning"}]
        /\ snap' \in [Procs -> SUBSET Snapshots]
    BY <1>1, <1>2 DEF IInv, Shape
  <2>3. QED
    BY <1>1, <2>1, <2>2 DEF IInv, Shape
<1>4. /\ pc'[p] = "down" /\ snap'[p] = {}
      /\ \A q \in Procs \ {p} : view'[q] = view[q] /\ pc'[q] = pc[q] /\ snap'[q] = snap[q]
  BY <1>1 DEF IInv, Shape
<1>5. lock' = Nobody => victims' = {}
  BY <1>1 DEF IInv, DiskHolds
<1>6. tail <= tail'
  BY <1>1, BoundsAreNat DEF IInv, Shape
<1>7. QED
  BY <1>1, <1>3, <1>4, <1>5, <1>6, QuietStep

\* At rest, while it writes a segment, or while it reclaims.
LEMMA CrashInv ==
  ASSUME IInv, NEW p \in Procs,
         Crash(p) \/ CrashInFlush(p) \/ \E d \in victims : CrashInReclaim(p, d)
  PROVE  IInv'
<1>1. CASE Crash(p)
  <2>1. UNCHANGED <<rows, files, gc, man>> /\ Gone(p)
    BY <1>1 DEF Crash, Gone
  <2>2. Doomed' \subseteq Doomed
    BY <2>1 DEF Gone, Doomed
  <2>3. Kept
    BY <2>1, <2>2 DEF Kept, IInv, Shape, Manifests
  <2>4. QED
    BY <2>1, <2>2, <2>3, GoneInv DEF IInv, Shape
<1>2. CASE CrashInFlush(p)
  <2> DEFINE s == man.next
  <2>1. Up(p) /\ Here(p).man = man /\ Here(p).mem \subseteq 1..tail
    BY <1>2, HereIsCurrent DEF CrashInFlush, Free
  <2>2. /\ s \in SegIds /\ rows' = [rows EXCEPT ![s] = Here(p).mem] /\ files' = files \cup {s}
        /\ gc' = gc /\ Gone(p) /\ UNCHANGED man
    BY <1>2, <2>1, BoundsAreNat
    DEF CrashInFlush, WriteSegment, Gone, SegIds, IInv, Shape, Manifests
  <2>3. Doomed' \subseteq Doomed
    BY <2>2 DEF Gone, Doomed
  <2>4. s \in Nat /\ \A x \in SegIds : x < s => x # s
    BY DEF SegIds, IInv, Shape, Manifests
  <2>5. Kept
    BY <2>2, <2>3, <2>4 DEF Kept, IInv, Shape
  <2>6. rows' \in [SegIds -> SUBSET Nat] /\ files' \subseteq SegIds /\ gc' \subseteq SegIds
    BY <2>1, <2>2 DEF IInv, Shape
  <2>7. QED
    BY <2>2, <2>3, <2>5, <2>6, GoneInv
<1>3. ASSUME NEW d \in victims, CrashInReclaim(p, d) PROVE IInv'
  <2>1. /\ lock = p /\ gc' = gc \cup {d.seg} /\ files' \in {files, files \ {d.seg}}
        /\ rows' = rows /\ man' = man /\ victims' = {} /\ Gone(p)
    BY <1>3 DEF CrashInReclaim, Gone
  <2>2. d.seg \in Doomed /\ d.seg \in SegIds
    BY DEF Doomed, IInv, Shape, DeadSegments
  <2>3. Doomed' \subseteq Doomed
    BY <2>1, <2>2 DEF Doomed
  <2>4. Kept
    BY <2>1, <2>2, <2>3 DEF Kept, IInv, Shape, Manifests
  <2>5. QED
    BY <2>1, <2>2, <2>3, <2>4, GoneInv DEF IInv, Shape
<1>4. QED
  BY <1>1, <1>2, <1>3

\* open_durable unlinks what gc.log has marked, and recover rebuilds the MemTable.
LEMMA StartInv ==
  ASSUME IInv, NEW p \in Procs, Start(p)
  PROVE  IInv'
<1> DEFINE v == Rebuilt(NoView)
<1>1. /\ ~Up(p) /\ lock = Nobody /\ files' = files \ gc /\ gc' = {}
      /\ pc' = [pc EXCEPT ![p] = "idle"] /\ view' = [view EXCEPT ![p] = v]
      /\ UNCHANGED <<man, tail, rows, lock, victims, snap, backup>>
  BY DEF Start
<1>2. /\ man \in Manifests /\ tail \in Nat /\ tail <= MaxLsn /\ MaxLsn \in Nat
      /\ man.wm \in Nat /\ man.version \in Nat /\ man.wm <= tail
  BY BoundsAreNat DEF IInv, Shape, DiskHolds, Manifests
<1>3. /\ v.man = man /\ v.tail = tail /\ v.mem = Between(man.wm, tail) /\ v.base = man.version
      /\ v.dead = {} /\ v \in Views
  <2>1. Between(man.wm, tail) \subseteq Nat
    BY <1>2 DEF Between, Lsns
  <2>2. NoView \in Views /\ NoView.dead = {}
    BY DEF NoView, Views, Manifests
  <2>3. v = [NoView EXCEPT !.man = man, !.tail = tail, !.mem = Between(man.wm, tail),
                          !.base = man.version]
    BY DEF Rebuilt
  <2>4. QED
    BY <1>2, <2>1, <2>2, <2>3 DEF Views
<1>4. Shape'
  BY <1>1, <1>3 DEF IInv, Shape
<1>5. Doomed' \subseteq Doomed /\ gc \subseteq Doomed
  BY <1>1 DEF Doomed
<1>6. Kept
  BY <1>1, <1>5 DEF Kept, IInv, Shape, Manifests
<1>7. /\ pc'[p] = "idle" /\ snap'[p] = snap[p] /\ snap[p] = {} /\ view'[p] = v
      /\ \A q \in Procs \ {p} : view'[q] = view[q] /\ pc'[q] = pc[q] /\ snap'[q] = snap[q]
  BY <1>1 DEF IInv, Shape, SnapsGood
<1>8. GoodView(view[p])'
  <2>1. Between(man.wm, tail) \subseteq 1..tail
    BY <1>2 DEF Between, Lsns
  <2>2. Between(man.wm, tail) # {} => tail \in Between(man.wm, tail)
    BY <1>2 DEF Between, Lsns
  <2>3. Between(man.wm, tail)' = Between(man.wm, tail)
    BY <1>1 DEF Between
  <2>4. man.version <= man.version /\ tail <= tail
    BY <1>2
  <2>5. QED
    BY <1>1, <1>2, <1>3, <1>7, <2>1, <2>2, <2>3, <2>4 DEF GoodView
<1>9. tail <= tail' /\ (lock' = Nobody => victims' = {})
  BY <1>1, <1>2 DEF IInv, DiskHolds
<1>10. QED
  BY <1>1, <1>4, <1>5, <1>6, <1>7, <1>8, <1>9, QuietStep

-----------------------------------------------------------------------------
(* Writers.                                                                *)

\* An event is appended to the log and to the MemTable of the process.
LEMMA IngestInv ==
  ASSUME IInv, NEW p \in Procs, Ingest(p)
  PROVE  IInv'
<1> DEFINE v == Here(p)
<1>1. /\ Up(p) /\ tail < MaxLsn /\ tail' = tail + 1
      /\ view' = [view EXCEPT ![p] = [v EXCEPT !.tail = tail + 1, !.mem = @ \cup {tail + 1}]]
      /\ UNCHANGED <<man, rows, files, gc, lock, pc, victims, snap, backup>>
      /\ Doomed' = Doomed
  BY DEF Ingest, Free, Doomed
<1>2. tail \in Nat /\ MaxLsn \in Nat /\ man \in Manifests /\ man.wm \in Nat /\ man.wm <= tail
  BY BoundsAreNat DEF IInv, Shape, Manifests, DiskHolds
<1>3. /\ v \in Views /\ v.man = man /\ v.tail = tail /\ v.dead = view[p].dead
      /\ v.mem \subseteq 1..tail /\ Between(man.wm, tail) \subseteq v.mem /\ v.base <= man.version
  BY <1>1, HereIsCurrent
<1>4. /\ view'[p] \in Views /\ view'[p].man = man /\ view'[p].tail = tail + 1
      /\ view'[p].dead = view[p].dead /\ view'[p].base = v.base
      /\ view'[p].mem = v.mem \cup {tail + 1}
  <2>1. view'[p] = [v EXCEPT !.tail = tail + 1, !.mem = v.mem \cup {tail + 1}]
    BY <1>1 DEF IInv, Shape
  <2>2. v.mem \cup {tail + 1} \subseteq Nat /\ tail + 1 \in Nat
    BY <1>2, <1>3
  <2>3. PICK x : x = v
    OBVIOUS
  <2>4. QED
    BY <1>2, <1>3, <2>1, <2>2, <2>3 DEF Views
<1>5. Shape'
  <2>1. view' \in [Procs -> Views]
    BY <1>1, <1>4 DEF IInv, Shape
  <2>2. tail' \in 0..MaxLsn
    BY <1>1, <1>2
  <2>3. QED
    BY <1>1, <2>1, <2>2 DEF IInv, Shape
<1>6. Kept
  BY <1>1 DEF Kept, IInv, Shape, Manifests
<1>7. GoodView(view[p])'
  <2>1. man.version <= man.version
    BY <1>2 DEF Manifests
  <2>2. v.mem \cup {tail + 1} \subseteq 1..(tail + 1)
    BY <1>2, <1>3
  <2>3. Between(man.wm, tail + 1) \subseteq v.mem \cup {tail + 1}
    <3>1. Between(man.wm, tail + 1) \subseteq Between(man.wm, tail) \cup {tail + 1}
      BY <1>2 DEF Between, Lsns
    <3>2. QED
      BY <1>3, <3>1
  <2>4. \A d \in view[p].dead : d.seg < man.next
    BY <1>1 DEF IInv, ViewsGood, GoodView
  <2>5. man.wm <= tail + 1 /\ tail + 1 <= tail + 1
    BY <1>2
  <2>6. QED
    <3>1. v.base <= man.version /\ tail + 1 \in v.mem \cup {tail + 1}
      BY <1>3
    <3>2. view'[p].man = man' /\ view'[p].tail = tail'
      BY <1>1, <1>4
    <3>3. QED
      BY <1>1, <1>4, <2>1, <2>2, <2>3, <2>4, <2>5, <3>1, <3>2 DEF GoodView
<1>8. \A sn \in snap'[p] :
        /\ view[p].base <= view'[p].base /\ view[p].tail <= view'[p].tail
        /\ view'[p].base = view[p].base =>
             \A l \in Between(sn.man.wm, sn.live) : l \in view'[p].mem <=> l \in view[p].mem
  <2> SUFFICES ASSUME NEW sn \in snap[p]
               PROVE  /\ view[p].base <= view'[p].base /\ view[p].tail <= view'[p].tail
                      /\ view'[p].base = view[p].base =>
                           \A l \in Between(sn.man.wm, sn.live) :
                             l \in view'[p].mem <=> l \in view[p].mem
    BY <1>1
  <2>1. /\ view[p].base <= v.base /\ view[p].tail <= v.tail
        /\ v.base = view[p].base =>
             \A l \in Between(sn.man.wm, sn.live) : l \in v.mem <=> l \in view[p].mem
    BY <1>1, HereKeeps
  <2>2. sn.live <= view[p].tail /\ sn.live \in Nat /\ view[p].tail \in Nat
    BY DEF IInv, Shape, SnapsGood, GoodSnap, Snapshots, Views
  <2>3. tail + 1 \notin Between(sn.man.wm, sn.live)
    BY <1>2, <1>3, <2>1, <2>2 DEF Between
  <2>4. QED
    BY <1>2, <1>3, <1>4, <2>1, <2>2, <2>3
<1>9. tail <= tail' /\ (lock' = Nobody => victims' = {}) /\ pc'[p] # "down"
  BY <1>1, <1>2 DEF IInv, DiskHolds, Up
<1>10. \A q \in Procs \ {p} : view'[q] = view[q] /\ pc'[q] = pc[q] /\ snap'[q] = snap[q]
  BY <1>1 DEF IInv, Shape
<1>11. QED
  BY <1>1, <1>5, <1>6, <1>7, <1>8, <1>9, <1>10, QuietStep

\* What a process's own snapshot needs bounds what it evicts.
LEMMA RetainedIsLow ==
  ASSUME IInv, NEW p \in Procs, NEW wm \in Nat
  PROVE  Retained(p, wm) \in Nat /\ \A sn \in snap[p] : Retained(p, wm) <= sn.man.wm
<1>1. CASE snap[p] = {}
  <2>1. {wm} \cup {sn.man.wm : sn \in snap[p]} = {wm} \cup {wm}
    BY <1>1
  <2>2. QED
    BY <1>1, <2>1, MinOfTwo DEF Retained
<1>2. ASSUME NEW sn \in snap[p], snap[p] = {sn}
      PROVE  Retained(p, wm) \in Nat /\ \A x \in snap[p] : Retained(p, wm) <= x.man.wm
  <2>1. {wm} \cup {x.man.wm : x \in snap[p]} = {wm} \cup {sn.man.wm}
    BY <1>2
  <2>2. sn.man.wm \in Nat
    BY DEF IInv, Shape, Snapshots, Manifests
  <2>3. QED
    BY <1>2, <2>1, <2>2, MinOfTwo DEF Retained
<1>3. QED
  BY <1>1, <1>2 DEF IInv, SnapsGood

\* A process commits the next version of the manifest, with a new segment.
LEMMA CommitStep ==
  ASSUME IInv, NEW p \in Procs, Up(p), lock = Nobody,
         NEW content \in SUBSET Nat, NEW w \in Views, view' = [view EXCEPT ![p] = w],
         NEW segs, segs \subseteq man.segs \cup {man.next}, man.next <= MaxSeg,
         NEW wm \in Nat, wm <= tail,
         WriteSegment(man.next, content), man' = w.man,
         w.man = [version |-> man.version + 1, segs |-> segs, wm |-> wm, next |-> man.next + 1],
         UNION {IF s = man.next THEN content ELSE rows[s] : s \in segs} = 1..wm,
         w.base <= man.version, w.tail = tail, w.mem \subseteq 1..tail,
         Between(wm, tail) \subseteq w.mem, w.mem # {} => tail \in w.mem,
         \A d \in w.dead : d.seg < man.next + 1,
         view[p].base <= w.base, view[p].tail <= tail,
         \A sn \in snap[p] : w.base = view[p].base =>
           \A l \in Between(sn.man.wm, sn.live) : l \in w.mem <=> l \in view[p].mem,
         UNCHANGED <<tail, gc, lock, pc, victims, snap, backup, faults>>
  PROVE  IInv'
<1>1. man \in Manifests /\ man.next \in Nat /\ man.next \in SegIds /\ man.version \in Nat
      /\ tail \in Nat
  BY BoundsAreNat DEF IInv, Shape, Manifests, SegIds
<1>2. Doomed' = Doomed /\ rows' = [rows EXCEPT ![man.next] = content]
      /\ files' = files \cup {man.next}
  BY DEF Doomed, WriteSegment
<1>3. view'[p] = w /\ \A q \in Procs \ {p} : view'[q] = view[q]
  BY DEF IInv, Shape
<1>4. /\ man'.version = man.version + 1 /\ man'.segs = segs /\ man'.wm = wm
      /\ man'.next = man.next + 1 /\ man' \in Manifests
  BY DEF Views
<1>5. Shape'
  <2>1. view' \in [Procs -> Views] /\ rows' \in [SegIds -> SUBSET Nat] /\ files' \subseteq SegIds
    BY <1>1, <1>2 DEF IInv, Shape
  <2>2. QED
    BY <1>4, <2>1 DEF IInv, Shape
<1>6. Kept
  <2>1. \A s \in SegIds : s < man.next => s # man.next
    BY <1>1 DEF SegIds
  <2>2. QED
    BY <1>1, <1>2, <1>4, <2>1 DEF Kept, IInv, Shape
<1>7. Moves /\ tail <= tail'
  BY <1>1, <1>4 DEF Moves
<1>8. DiskHolds'
  <2>1. segs \subseteq files' /\ segs \subseteq SegIds
    BY <1>1, <1>2 DEF IInv, DiskHolds, Manifests
  <2>2. \A s \in segs : rows'[s] = IF s = man.next THEN content ELSE rows[s]
    BY <1>2, <2>1 DEF IInv, Shape
  <2>3. SegmentRows(man)' = UNION {rows'[s] : s \in segs}
    <3>1. segs \cap files' = segs
      BY <2>1
    <3>2. QED
      BY <1>4, <3>1 DEF SegmentRows
  <2>4. SegmentRows(man)' = 1..wm
    <3>1. {rows'[s] : s \in segs} = {IF s = man.next THEN content ELSE rows[s] : s \in segs}
      BY <2>2
    <3>2. QED
      BY <2>3, <3>1
  <2>5. /\ \A s \in segs \cup Doomed : s < man.next + 1
        /\ segs \cap Doomed = {}
    <3>1. \A s \in man.segs \cup Doomed : s < man.next /\ s \in Nat
      BY DEF IInv, DiskHolds, Shape, Manifests, SegIds, Doomed, DeadSegments
    <3>2. man.segs \cap Doomed = {}
      BY DEF IInv, DiskHolds
    <3>3. QED
      BY <1>1, <3>1, <3>2
  <2>6. QED
    BY <1>2, <1>4, <2>1, <2>4, <2>5 DEF IInv, DiskHolds
<1>9. GoodView(view[p])'
  <2>1. Between(wm, tail)' = Between(wm, tail)
    BY DEF Between
  <2>2. tail <= tail /\ w.man.version <= w.man.version /\ w.base <= w.man.version
    <3>1. w.base \in Nat /\ w.man.version = man.version + 1
      BY DEF Views
    <3>2. QED
      BY <1>1, <3>1
  <2>3. QED
    BY <1>3, <1>4, <2>1, <2>2 DEF GoodView
<1>10. ViewsGood' /\ BackupGood'
  BY <1>3, <1>5, <1>7, <1>9, ViewsStay, BackupStays
<1>11. SnapsGood'
  <2>1. \A q \in Procs : \A sn \in snap[q] :
          /\ view[q].base <= view'[q].base /\ view[q].tail <= view'[q].tail
          /\ view'[q].base = view[q].base =>
               \A l \in Between(sn.man.wm, sn.live) : l \in view'[q].mem <=> l \in view[q].mem
    <3>1. \A q \in Procs : view[q].base <= view[q].base /\ view[q].tail <= view[q].tail
      BY DEF IInv, Shape, Views
    <3>2. QED
      BY <1>3, <3>1
  <2>2. \A q \in Procs : snap'[q] = snap[q] /\ (snap[q] # {} => pc'[q] # "down")
    BY DEF IInv, SnapsGood, Up
  <2>3. QED
    BY <1>5, <1>6, <2>1, <2>2, SnapsStay
<1>12. QED
  BY <1>5, <1>8, <1>10, <1>11 DEF IInv

\* A flush moves the MemTable into a segment, and keeps what a snapshot needs of it.
LEMMA FlushInv ==
  ASSUME IInv, NEW p \in Procs, Flush(p)
  PROVE  IInv'
<1> DEFINE low == Retained(p, tail)
<1>1. Up(p) /\ lock = Nobody /\ Here(p).mem # {}
  BY DEF Flush, Free
<1>2. PICK v \in Views : v = Here(p)
  BY <1>1, HereIsCurrent
<1>3. /\ v.man = man /\ v.tail = tail /\ v.dead = view[p].dead
      /\ v.mem \subseteq 1..tail /\ Between(man.wm, tail) \subseteq v.mem
      /\ v.mem # {} => tail \in v.mem
      /\ v.base <= man.version /\ view[p].base <= v.base /\ view[p].tail <= tail
  BY <1>1, <1>2, HereIsCurrent
<1>4. /\ tail \in Nat /\ tail <= MaxLsn /\ man.wm \in Nat /\ man.wm <= tail
      /\ man.next \in Nat \ {0} /\ man.version \in Nat /\ man.segs \subseteq SegIds
  BY BoundsAreNat DEF IInv, Shape, Manifests, DiskHolds
<1>5. Max(v.mem) = tail
  BY <1>1, <1>2, <1>3, <1>4, MaxIsTail DEF Views
<1>6. PICK w : w = [Committed(v, man.segs \cup {man.next}, tail) EXCEPT !.mem = {l \in @ : l > low}]
  OBVIOUS
<1>7. /\ man.next <= MaxSeg /\ WriteSegment(man.next, v.mem)
      /\ man' = w.man /\ view' = [view EXCEPT ![p] = w]
      /\ UNCHANGED <<tail, gc, lock, pc, victims, snap, backup, faults>>
  <2>1. (Committed(v, man.segs \cup {man.next}, tail)).man = w.man
    BY <1>2, <1>6 DEF Committed, Views
  <2>2. QED
    BY <1>2, <1>3, <1>5, <1>6, <2>1 DEF Flush
<1>8. low \in Nat /\ \A sn \in snap[p] : low <= sn.man.wm
  BY <1>4, RetainedIsLow
<1> HIDE DEF low
<1>9. /\ w.man = [version |-> man.version + 1, segs |-> man.segs \cup {man.next}, wm |-> tail,
                  next |-> man.next + 1]
      /\ w.tail = tail /\ w.mem = {l \in v.mem : l > low} /\ w.dead = v.dead /\ w.base = v.base
      /\ w \in Views
  <2>1. w = [v EXCEPT !.man = [version |-> man.version + 1, segs |-> man.segs \cup {man.next},
                               wm |-> tail, next |-> man.next + 1],
                      !.mem = {l \in v.mem : l > low}]
    BY <1>2, <1>3, <1>6 DEF Committed, Views
  <2>2. [version |-> man.version + 1, segs |-> man.segs \cup {man.next},
         wm |-> tail, next |-> man.next + 1] \in Manifests
    BY <1>4, <1>7, BoundsAreNat DEF Manifests, SegIds
  <2>3. QED
    BY <1>2, <1>3, <2>1, <2>2 DEF Views
<1>10. UNION {IF s = man.next THEN v.mem ELSE rows[s] : s \in man.segs \cup {man.next}} = 1..tail
  <2>1. \A s \in man.segs : s < man.next /\ s \in files /\ s # man.next
    BY <1>4 DEF IInv, DiskHolds
  <2>2. SegmentRows(man) = UNION {rows[s] : s \in man.segs}
    <3>1. man.segs \cap files = man.segs
      BY <2>1
    <3>2. QED
      BY <3>1 DEF SegmentRows
  <2>3. UNION {IF s = man.next THEN v.mem ELSE rows[s] : s \in man.segs \cup {man.next}}
          = (UNION {rows[s] : s \in man.segs}) \cup v.mem
    BY <2>1
  <2>4. (1..man.wm) \cup v.mem = 1..tail
    <3>1. \A l \in 1..tail : l <= man.wm \/ l \in Between(man.wm, tail)
      BY <1>4, BoundsAreNat DEF Between, Lsns
    <3>2. QED
      BY <1>3, <1>4, <3>1
  <2>5. QED
    BY <2>2, <2>3, <2>4 DEF IInv, DiskHolds
<1>11. w.mem # {} => tail \in w.mem
  <2> SUFFICES ASSUME NEW l \in w.mem PROVE tail \in w.mem
    OBVIOUS
  <2>1. l \in v.mem /\ l > low /\ l \in 1..tail
    BY <1>3, <1>9
  <2>2. QED
    BY <1>3, <1>4, <1>8, <1>9, <2>1
<1>12. Between(tail, tail) \subseteq w.mem
  BY <1>4 DEF Between, Lsns
<1>13. \A d \in w.dead : d.seg < man.next + 1
  <2>1. \A d \in view[p].dead : d.seg < man.next /\ d.seg \in Nat
    BY <1>1 DEF IInv, ViewsGood, GoodView, Shape, Views, DeadSegments, SegIds
  <2>2. QED
    BY <1>3, <1>4, <1>9, <2>1
<1>14. \A sn \in snap[p] : w.base = view[p].base =>
         \A l \in Between(sn.man.wm, sn.live) : l \in w.mem <=> l \in view[p].mem
  <2> SUFFICES ASSUME NEW sn \in snap[p], v.base = view[p].base,
                      NEW l \in Between(sn.man.wm, sn.live)
               PROVE  l \in w.mem <=> l \in view[p].mem
    BY <1>9
  <2>1. l \in v.mem <=> l \in view[p].mem
    BY <1>1, <1>2, HereKeeps
  <2>2. l \in Nat /\ sn.man.wm < l /\ sn.man.wm \in Nat
    BY DEF Between, Lsns, IInv, Shape, Snapshots, Manifests
  <2>3. l > low
    BY <1>8, <2>2
  <2>4. QED
    BY <1>9, <2>1, <2>3
<1>15. v.mem \in SUBSET Nat /\ w.mem \subseteq 1..tail /\ tail <= tail
  BY <1>3, <1>4, <1>9
<1>16. QED
  BY <1>1, <1>3, <1>4, <1>7, <1>9, <1>10, <1>11, <1>12, <1>13, <1>14, <1>15, CommitStep

\* A compaction rewrites all segments into one, and remembers the old ones as dead.
LEMMA CompactInv ==
  ASSUME IInv, NEW p \in Procs, Compact(p)
  PROVE  IInv'
<1>1. Up(p) /\ lock = Nobody
  BY DEF Compact, Free
<1>2. PICK v \in Views : v = Here(p)
  BY <1>1, HereIsCurrent
<1>3. /\ v.man = man /\ v.tail = tail /\ v.dead = view[p].dead
      /\ v.mem \subseteq 1..tail /\ Between(man.wm, tail) \subseteq v.mem
      /\ v.mem # {} => tail \in v.mem
      /\ v.base <= man.version /\ view[p].base <= v.base /\ view[p].tail <= tail
  BY <1>1, <1>2, HereIsCurrent
<1>4. /\ tail \in Nat /\ man.wm \in Nat /\ man.wm <= tail
      /\ man.next \in Nat \ {0} /\ man.version \in Nat /\ man.segs \subseteq SegIds
  BY BoundsAreNat DEF IInv, Shape, Manifests, DiskHolds
<1>5. PICK w : w = [Committed(v, {man.next}, man.wm) EXCEPT
                      !.dead = @ \cup {[seg |-> x, v |-> man.version + 1] : x \in man.segs}]
  OBVIOUS
<1>6. /\ man.next <= MaxSeg /\ WriteSegment(man.next, SegmentRows(man))
      /\ man' = w.man /\ view' = [view EXCEPT ![p] = w]
      /\ UNCHANGED <<tail, gc, lock, pc, victims, snap, backup, faults>>
  <2> DEFINE c == Committed(v, {man.next}, man.wm)
  <2>1. c.man = w.man /\ c.man.version = man.version + 1
    BY <1>2, <1>3, <1>5 DEF Committed, Views
  <2>2. /\ man.next <= MaxSeg /\ WriteSegment(man.next, SegmentRows(man)) /\ man' = c.man
        /\ view' = [view EXCEPT ![p] =
             [c EXCEPT !.dead = @ \cup {[seg |-> x, v |-> c.man.version] : x \in man.segs}]]
        /\ UNCHANGED <<tail, gc, lock, pc, victims, snap, backup, faults>>
    <3>1. Here(p) = v /\ v.man.next = man.next /\ v.man.wm = man.wm /\ v.man = man
      BY <1>2, <1>3
    <3>2. QED
      BY <3>1 DEF Compact
  <2>3. [c EXCEPT !.dead = @ \cup {[seg |-> x, v |-> c.man.version] : x \in man.segs}] = w
    BY <1>5, <2>1
  <2>4. QED
    BY <2>1, <2>2, <2>3
<1>7. /\ w.man = [version |-> man.version + 1, segs |-> {man.next}, wm |-> man.wm,
                  next |-> man.next + 1]
      /\ w.tail = tail /\ w.mem = v.mem /\ w.base = v.base
      /\ w.dead = v.dead \cup {[seg |-> x, v |-> man.version + 1] : x \in man.segs}
      /\ w \in Views
  <2>1. w = [v EXCEPT !.man = [version |-> man.version + 1, segs |-> {man.next},
                               wm |-> man.wm, next |-> man.next + 1],
                      !.dead = v.dead \cup {[seg |-> x, v |-> man.version + 1] : x \in man.segs}]
    BY <1>2, <1>3, <1>5 DEF Committed, Views
  <2>2. [version |-> man.version + 1, segs |-> {man.next}, wm |-> man.wm,
         next |-> man.next + 1] \in Manifests
    BY <1>4, <1>6, BoundsAreNat DEF Manifests, SegIds
  <2>3. {[seg |-> x, v |-> man.version + 1] : x \in man.segs} \subseteq DeadSegments
    BY <1>4 DEF DeadSegments
  <2>4. QED
    BY <1>2, <1>3, <2>1, <2>2, <2>3 DEF Views
<1>8. /\ UNION {IF s = man.next THEN SegmentRows(man) ELSE rows[s] : s \in {man.next}} = 1..man.wm
      /\ SegmentRows(man) \in SUBSET Nat
  BY <1>4 DEF IInv, DiskHolds
<1>9. \A d \in w.dead : d.seg < man.next + 1
  <2>1. \A d \in view[p].dead : d.seg < man.next /\ d.seg \in Nat
    BY <1>1 DEF IInv, ViewsGood, GoodView, Shape, Views, DeadSegments, SegIds
  <2>2. \A x \in man.segs : x < man.next /\ x \in Nat
    BY <1>4 DEF IInv, DiskHolds, SegIds
  <2>3. QED
    BY <1>3, <1>4, <1>7, <2>1, <2>2
<1>10. \A sn \in snap[p] : w.base = view[p].base =>
         \A l \in Between(sn.man.wm, sn.live) : l \in w.mem <=> l \in view[p].mem
  BY <1>1, <1>2, <1>7, HereKeeps
<1>11. {man.next} \subseteq man.segs \cup {man.next}
  OBVIOUS
<1>12. /\ w.base <= man.version /\ view[p].base <= w.base /\ view[p].tail <= tail
       /\ w.mem \subseteq 1..tail /\ Between(man.wm, tail) \subseteq w.mem
       /\ w.mem # {} => tail \in w.mem
  BY <1>3, <1>7
<1>13. QED
  BY <1>1, <1>4, <1>6, <1>7, <1>8, <1>9, <1>10, <1>11, <1>12, CommitStep

-----------------------------------------------------------------------------
(* Reclamation.                                                            *)

\* What may go is in no manifest, and there is no snapshot.
LEMMA ReclaimInv ==
  ASSUME IInv, NEW p \in Procs, Reclaim(p)
  PROVE  IInv'
<1> DEFINE can == {d \in Here(p).dead : CanReclaim(p, Here(p), d)}
<1>1. /\ Up(p) /\ lock = Nobody /\ can # {} /\ victims' = can /\ lock' = p
      /\ view' = [view EXCEPT ![p] = Here(p)]
      /\ UNCHANGED <<man, tail, rows, files, gc, pc, snap, backup, faults>>
  BY DEF Reclaim, Free, disk
<1>2. /\ Here(p) \in Views /\ Here(p).man = man /\ Here(p).dead = view[p].dead
  BY <1>1, HereIsCurrent
<1>3. \A q \in Procs : snap[q] = {}
  BY <1>1 DEF CanReclaim, ActiveReaders
<1>4. \A d \in can : d \in DeadSegments /\ d.seg < man.next /\ d.seg \notin man.segs
  BY <1>1, <1>2 DEF CanReclaim, IInv, ViewsGood, GoodView, Views
<1> HIDE DEF can
<1>5. Shape'
  <2>1. view' \in [Procs -> Views]
    BY <1>1, <1>2 DEF IInv, Shape
  <2>2. QED
    BY <1>1, <1>4, <2>1 DEF IInv, Shape
<1>6. DiskHolds'
  <2>1. SegmentRows(man)' = SegmentRows(man)
    BY <1>1 DEF SegmentRows
  <2>2. \A s \in Doomed' : s \in gc \/ \E d \in can : s = d.seg
    BY <1>1 DEF Doomed
  <2>3. \A s \in Doomed' : s < man.next /\ s \notin man.segs
    BY <1>4, <2>2 DEF IInv, DiskHolds, Doomed
  <2>4. p # Nobody
    BY NobodyIsNoProc
  <2>5. QED
    BY <1>1, <2>1, <2>3, <2>4 DEF IInv, DiskHolds
<1>7. view'[p] = Here(p) /\ \A q \in Procs \ {p} : view'[q] = view[q]
  BY <1>1 DEF IInv, Shape
<1>8. GoodView(view[p])'
  BY <1>1, <1>7, HereIsGood
<1>9. Moves /\ tail <= tail'
  BY <1>1, BoundsAreNat DEF Moves, IInv, Shape
<1>10. ViewsGood' /\ BackupGood'
  BY <1>1, <1>5, <1>7, <1>8, <1>9, ViewsStay, BackupStays
<1>11. SnapsGood'
  BY <1>1, <1>3 DEF SnapsGood
<1>12. QED
  BY <1>5, <1>6, <1>10, <1>11 DEF IInv

\* A segment that is doomed goes.
LEMMA UnlinkInv ==
  ASSUME IInv, NEW p \in Procs, NEW d \in victims, Unlink(p, d)
  PROVE  IInv'
<1>1. /\ lock = p /\ files' = files \ {d.seg} /\ victims' = victims \ {d}
      /\ lock' = (IF victims' = {} THEN Nobody ELSE p)
      /\ view' = [view EXCEPT ![p].dead = @ \ {d}]
      /\ UNCHANGED <<man, tail, rows, gc, pc, snap, backup>>
  BY DEF Unlink
<1>2. d.seg \in Doomed /\ Doomed' \subseteq Doomed
  BY <1>1 DEF Doomed
<1>3. /\ view'[p] \in Views /\ view'[p].man = view[p].man /\ view'[p].tail = view[p].tail
      /\ view'[p].mem = view[p].mem /\ view'[p].base = view[p].base
      /\ view'[p].dead \subseteq view[p].dead
      /\ \A q \in Procs \ {p} : view'[q] = view[q]
  <2>1. view'[p] = [view[p] EXCEPT !.dead = view[p].dead \ {d}]
    BY <1>1 DEF IInv, Shape
  <2>2. view[p] \in Views
    BY DEF IInv, Shape
  <2>3. \A q \in Procs \ {p} : view'[q] = view[q]
    BY <1>1 DEF IInv, Shape
  <2>4. QED
    BY <2>1, <2>2, <2>3 DEF Views
<1>4. Shape'
  <2>1. view' \in [Procs -> Views]
    BY <1>1, <1>3 DEF IInv, Shape
  <2>2. QED
    BY <1>1, <2>1 DEF IInv, Shape
<1>5. Kept
  BY <1>1, <1>2 DEF Kept, IInv, Shape, Manifests
<1>6. pc'[p] # "down" => GoodView(view[p])'
  <2>1. ASSUME pc[p] # "down" PROVE GoodView(view[p])'
    <3>1. GoodView(view[p])
      BY <2>1 DEF IInv, ViewsGood, Up
    <3>2. Between(view[p].man.wm, view[p].tail)' = Between(view[p].man.wm, view[p].tail)
      BY <1>3 DEF Between
    <3>3. QED
      BY <1>1, <1>3, <3>1, <3>2 DEF GoodView
  <2>2. QED
    BY <1>1, <2>1
<1>7. \A sn \in snap'[p] :
        /\ view[p].base <= view'[p].base /\ view[p].tail <= view'[p].tail
        /\ view'[p].base = view[p].base =>
             \A l \in Between(sn.man.wm, sn.live) : l \in view'[p].mem <=> l \in view[p].mem
  BY <1>3 DEF IInv, Shape, Views
<1>8. /\ tail <= tail' /\ (lock' = Nobody => victims' = {}) /\ (snap'[p] # {} => pc'[p] # "down")
      /\ \A q \in Procs \ {p} : view'[q] = view[q] /\ pc'[q] = pc[q] /\ snap'[q] = snap[q]
  BY <1>1, <1>3, NobodyIsNoProc, BoundsAreNat DEF IInv, Shape, SnapsGood, Up
<1>9. QED
  BY <1>1, <1>2, <1>4, <1>5, <1>6, <1>7, <1>8, QuietStep

-----------------------------------------------------------------------------
(* Backup.                                                                 *)

\* What does not touch disk, views or snapshots.
LEMMA OnlyBackup ==
  ASSUME IInv, UNCHANGED <<disk, lock, view, pc, victims, snap, faults>>, BackupGood'
  PROVE  IInv'
<1>1. Shape' /\ DiskHolds'
  BY DEF IInv, disk, Shape, DiskHolds, Doomed, SegmentRows
<1>2. ViewsGood'
  BY DEF IInv, disk, ViewsGood, GoodView, Up, Between
<1>3. SnapsGood'
  BY DEF IInv, disk, SnapsGood, GoodSnap, Shown, SegmentRows, Doomed, Between, Up
<1>4. QED
  BY <1>1, <1>2, <1>3 DEF IInv

\* A backup: the segments that are there, then the log, then the manifest.
LEMMA BackupInv ==
  ASSUME IInv, (\E p \in Procs : CopySegments(p)) \/ CopyLog \/ CopyManifest
  PROVE  IInv'
<1>1. /\ tail \in Nat /\ man.version \in Nat /\ man.wm \in Nat /\ man.wm <= tail
      /\ tail <= MaxLsn /\ MaxLsn \in Nat
      /\ man.segs \subseteq files /\ SegmentRows(man) = 1..man.wm
  BY BoundsAreNat DEF IInv, Shape, Manifests, DiskHolds
<1>2. BackupGood
  BY DEF IInv
<1>3. ASSUME NEW p \in Procs, CopySegments(p) PROVE IInv'
  <2>1. /\ backup' = [pc |-> "log", by |-> p, files |-> files, acked |-> tail, tail |-> 0,
                      version |-> man.version]
        /\ UNCHANGED <<disk, lock, view, pc, victims, snap, faults>>
    BY <1>3 DEF CopySegments, CopiedFiles
  <2>2. /\ backup'.pc = "log" /\ backup'.by = p /\ backup'.files = files
        /\ backup'.acked = tail /\ backup'.tail = 0 /\ backup'.version = man.version
    BY <2>1
  <2>3. BackupGood'
    BY <1>1, <2>1, <2>2 DEF BackupGood, QuietBackupRestores, disk
  <2>4. QED
    BY <2>1, <2>3, OnlyBackup
<1>4. CASE CopyLog
  <2>1. /\ backup.pc = "log" /\ backup' = [backup EXCEPT !.pc = "manifest", !.tail = tail]
        /\ UNCHANGED <<disk, lock, view, pc, victims, snap, faults>>
    BY <1>4 DEF CopyLog
  <2>2. /\ backup.version \in Nat /\ backup.version <= man.version
        /\ backup.acked \in Nat /\ backup.acked <= tail
        /\ backup.version = man.version => man.segs \subseteq backup.files
        /\ backup = [pc |-> backup.pc, by |-> backup.by, files |-> backup.files,
                     acked |-> backup.acked, tail |-> backup.tail, version |-> backup.version]
    BY <1>2, <2>1 DEF BackupGood
  <2>3. /\ backup'.pc = "manifest" /\ backup'.by = backup.by /\ backup'.files = backup.files
        /\ backup'.acked = backup.acked /\ backup'.tail = tail
        /\ backup'.version = backup.version
        /\ backup' = [pc |-> "manifest", by |-> backup.by, files |-> backup.files,
                      acked |-> backup.acked, tail |-> tail, version |-> backup.version]
    BY <2>1, <2>2
  <2>4. BackupGood'
    <3>1. man' = man /\ tail' = tail
      BY <2>1 DEF disk
    <3>2. QED
      BY <1>1, <2>2, <2>3, <3>1 DEF BackupGood, QuietBackupRestores
  <2>5. QED
    BY <2>1, <2>4, OnlyBackup
<1>5. CASE CopyManifest
  <2>1. /\ backup.pc = "manifest"
        /\ backup' = [pc |-> "done", quiet |-> man.version = backup.version,
                      complete |-> 1..backup.acked \subseteq Restored(backup)]
        /\ UNCHANGED <<disk, lock, view, pc, victims, snap, faults>>
    BY <1>5 DEF CopyManifest
  <2>2. /\ backup.acked \in Nat /\ backup.tail \in Nat /\ backup.acked <= backup.tail
        /\ backup.tail <= tail
        /\ backup.version = man.version => man.segs \subseteq backup.files
    BY <1>2, <2>1 DEF BackupGood
  <2>3. ASSUME backup.version = man.version PROVE 1..backup.acked \subseteq Restored(backup)
    <3>1. man.segs \cap backup.files = man.segs /\ man.segs \cap files = man.segs
      BY <1>1, <2>2, <2>3
    <3>2. UNION {rows[s] : s \in man.segs \cap backup.files} = 1..man.wm
      BY <1>1, <3>1 DEF SegmentRows
    <3>3. Restored(backup) = (1..man.wm) \cup Between(man.wm, backup.tail)
      BY <3>2 DEF Restored
    <3>4. \A l \in 1..backup.acked : l \in 1..man.wm \/ l \in Between(man.wm, backup.tail)
      BY <1>1, <2>2 DEF Between, Lsns
    <3>5. QED
      BY <3>3, <3>4
  <2>4. backup'.pc = "done" /\ (backup'.quiet => backup'.complete)
    BY <2>1, <2>3
  <2>5. BackupGood'
    BY <2>4 DEF BackupGood, QuietBackupRestores
  <2>6. QED
    BY <2>1, <2>5, OnlyBackup
<1>6. QED
  BY <1>3, <1>4, <1>5

-----------------------------------------------------------------------------
(* The store.                                                              *)

\* The invariant holds of every behaviour.
THEOREM Invariance == Spec => []IInv
<1>1. IInv /\ [Next]_vars => IInv'
  <2> SUFFICES ASSUME IInv, [Next]_vars PROVE IInv'
    OBVIOUS
  <2>1. CASE UNCHANGED vars
    <3>1. UNCHANGED <<disk, lock, view, pc, victims, snap, faults>> /\ backup' = backup
          /\ man' = man /\ tail' = tail
      BY <2>1 DEF vars, disk
    <3>2. BackupGood'
      BY <3>1 DEF IInv, BackupGood, QuietBackupRestores
    <3>3. QED
      BY <3>1, <3>2, OnlyBackup
  <2>2. ASSUME NEW p \in Procs,
               \/ Start(p) \/ Crash(p) \/ CrashInFlush(p) \/ \E d \in victims : CrashInReclaim(p, d)
               \/ Ingest(p) \/ Flush(p) \/ Compact(p) \/ Reclaim(p) \/ \E d \in victims : Unlink(p, d)
               \/ (\E fresh \in BOOLEAN : BeginPin(p, fresh)) \/ FinishPin(p) \/ Drop(p) \/ Refresh(p)
               \/ CopySegments(p)
        PROVE  IInv'
    BY <2>2, StartInv, CrashInv, IngestInv, FlushInv, CompactInv, ReclaimInv, UnlinkInv,
       ReadInv, FinishPinInv, DropInv, BackupInv
  <2>3. CASE CopyLog \/ CopyManifest
    BY <2>3, BackupInv
  <2>4. QED
    BY <2>1, <2>2, <2>3 DEF Next
<1>2. QED
  BY <1>1, InitInv, PTL DEF Spec

\* Whatever the processes did and wherever one of them died, a process that comes up to
\* date shows every acknowledged event (refresh_from_disk_locked).
THEOREM EveryProcessShowsAll == Spec => []RefreshExact
BY Invariance, UpToDateShowsAll, PTL

\* What a snapshot of the manifest on disk shows does not change while it is held,
\* whatever other processes compact and reclaim (reclaim and its look at the pins).
THEOREM SnapshotsKeepTheirRows == Spec => []SnapshotStable
<1>1. IInv => SnapshotStable
  BY DEF IInv, SnapsGood, GoodSnap, SnapshotStable
<1>2. QED
  BY <1>1, Invariance, PTL

\* A backup during which no manifest was committed restores every event acknowledged
\* when it began (backup_snapshot).
THEOREM QuietBackupsRestore == Spec => []QuietBackupRestores
<1>1. IInv => QuietBackupRestores
  BY DEF IInv, BackupGood
<1>2. QED
  BY <1>1, Invariance, PTL

=============================================================================
