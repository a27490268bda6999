------------------------------ MODULE WalSyncProof ------------------------------
(***************************************************************************)
(* The shared log, for any set of processes and any bounds: what survives  *)
(* a restart, and what the holder of the lock sees.                        *)
(*                                                                         *)
(* As long as no write failed the file begins with whole frames whose LSNs *)
(* and events follow each other, the prefix.  Without a tear the prefix is *)
(* the file; the first tear freezes it, because the cell after the torn    *)
(* head is never the tail that belongs to it.  A process whose offset is   *)
(* inside the prefix is at a boundary of frames, knows the LSN that comes  *)
(* next there, and has every row before it in its MemTable or, up to the   *)
(* watermark, in its segments; a process that has seen the tear has the    *)
(* whole prefix.  The same holds of the offset and of the LSN that a       *)
(* checkpoint recorded, so that whatever recovery skips is in segments.    *)
(***************************************************************************)
EXTENDS WalSync, SequenceTheorems, FiniteSetTheorems, WellFoundedInduction, TLAPS

-----------------------------------------------------------------------------
(* The inductive invariant.                                                *)

BatchType == [first : Nat \ {0}, event : Nat \ {0}, n : 0..2]
CellType == [half : {"head", "tail"}, batch : BatchType]
RowType == [lsn : Nat, event : Nat]
DiskType == [version : Nat, wm : Nat, events : SUBSET Nat]
ProcType == [up : {"down", "opened", "up"}, next : Nat \ {0}, scanned : Nat, cklen : Nat,
             cklsn : Nat, cur : DiskType, mem : SUBSET RowType, tail : Nat]

Shape ==
  /\ file \in Seq(CellType) /\ disk \in DiskType /\ proc \in [Procs -> ProcType]
  /\ ckpt \in [len : Nat, lsn : Nat, next : Nat \ {0}]
  /\ holder \in Procs \cup {Nobody} /\ made \in Nat /\ frames \in Nat /\ tears \in Nat
  /\ acked \subseteq RowType

\* The prefix: how many frames, the batch of each, and the LSN after the first i.
Whole == Consumed(0)
BatchAt(j) == file[2 * j + 1].batch
NextAt(i) == IF i = 0 THEN 1 ELSE NextAfter(BatchAt(i - 1))
PrefixRows == UNION {RowsOf(BatchAt(j)) : j \in 0..(Whole - 1)}

\* LSNs and events go on from frame to frame.
Chained ==
  /\ \A j \in 0..(Whole - 1) : BatchAt(j).first = NextAt(j)
                               /\ BatchAt(j).event + BatchAt(j).n <= made + 1
  /\ \A j \in 0..(Whole - 1) : \A i \in 0..(j - 1) :
       /\ NextAfter(BatchAt(i)) <= BatchAt(j).first
       /\ BatchAt(i).event + BatchAt(i).n <= BatchAt(j).event

\* After the first tear nothing joins the prefix, and all LSNs are beyond it.
Torn ==
  /\ tears = 0 => Len(file) = 2 * Whole
  /\ tears > 0 => /\ Len(file) > 2 * Whole
                  /\ Len(file) > 2 * Whole + 1 => file[2 * Whole + 2].half = "head"
  /\ \A i \in (2 * Whole + 1)..Len(file) : file[i].batch.first >= NextAt(Whole)

\* No LSN is far from how many frames were written.
Bounded ==
  /\ \A i \in 1..Len(file) : NextAfter(file[i].batch) <= 1 + 2 * frames
  /\ ckpt.next <= 1 + 2 * frames
  /\ \A p \in Procs : /\ proc[p].next <= 1 + 2 * frames
                      /\ \A r \in proc[p].mem : r.lsn <= 2 * frames

\* An offset with the LSN that follows: a boundary of the prefix, or beyond a tear.
Offset(len, next) ==
  /\ len <= Len(file)
  /\ \/ \E i \in 0..Whole : len = 2 * i /\ next = NextAt(i)
     \/ tears > 0 /\ len >= 2 * Whole /\ next >= NextAt(Whole)

\* A checkpoint: an offset, with all that the prefix has before it up to an LSN.
Checkpoint(len, lsn) ==
  /\ \E next \in Nat : Offset(len, next)
  /\ \A j \in 0..(Whole - 1) : 2 * j < len => \A r \in RowsOf(BatchAt(j)) : r.lsn <= lsn

\* A manifest has what the prefix has up to its watermark.
HasPrefix(d, len) ==
  \A j \in 0..(Whole - 1) : 2 * j < len => \A r \in RowsOf(BatchAt(j)) :
    r.lsn <= d.wm => r.event \in d.events

\* Without a tear it has nothing else, and its watermark is an LSN of the past.
Exact(d) ==
  tears = 0 => /\ d.wm < NextAt(Whole)
               /\ \A e \in d.events : \E r \in PrefixRows : r.event = e /\ r.lsn <= d.wm

FilesGood ==
  /\ Offset(ckpt.len, ckpt.next) /\ Checkpoint(ckpt.len, ckpt.lsn)
  /\ HasPrefix(disk, 2 * Whole) /\ Exact(disk)

HandleGood(s) == Offset(s.scanned, s.next) /\ Checkpoint(s.cklen, s.cklsn)

\* A process knows what the prefix has before its offset.
Serving(s) ==
  /\ \/ \E i \in 0..Whole : /\ s.scanned = 2 * i /\ s.next = NextAt(i)
                            /\ s.cur.wm < s.next /\ s.tail = s.next - 1
     \/ tears > 0 /\ s.scanned >= 2 * Whole /\ s.next >= NextAt(Whole)
  /\ HasPrefix(s.cur, s.scanned) /\ Exact(s.cur)
  /\ \A j \in 0..(Whole - 1) : 2 * j < s.scanned => \A r \in RowsOf(BatchAt(j)) :
       r.lsn > s.cur.wm => r \in s.mem /\ r.lsn <= s.tail
  /\ tears = 0 => s.mem \subseteq PrefixRows

\* Its MemTable is above its watermark, but for LSNs given out again after a tear.
Fresh(s) ==
  \A r \in s.mem : r.lsn > s.cur.wm \/ (tears > 0 /\ r.lsn >= NextAt(Whole))

ProcGood(p) ==
  /\ proc[p].up # "down" => HandleGood(proc[p])
  /\ proc[p].up = "opened" => proc[p].tail = 0
  /\ proc[p].up = "up" => Serving(proc[p])
  /\ proc[p].up = "up" /\ holder # p => Fresh(proc[p])

\* Between the commit and the checkpoint of a flush the file stands still.
HolderGood ==
  holder # Nobody => proc[holder].up = "up" /\ proc[holder].scanned >= 2 * Whole

Good ==
  /\ Shape /\ Chained /\ Torn /\ Bounded /\ FilesGood /\ HolderGood
  /\ \A p \in Procs : ProcGood(p)
  /\ tears = 0 => acked \subseteq PrefixRows

\* While no manifest was saved, a process that has not recovered has none either.
OpenedFits ==
  \A p \in Procs : proc[p].up = "opened" /\ disk.version = 0 => proc[p].cur = disk

IInv == fails \in Nat /\ (fails = 0 => Good /\ OpenedFits)

-----------------------------------------------------------------------------
(* The maximum of a bounded set.                                           *)

\* A non-empty set of naturals up to n has a greatest element, its maximum: the
\* sets k..n, k in the set, are finite and so have one that includes no other.
LEMMA MaxIsGreatest ==
  ASSUME NEW n \in Nat, NEW S, S \subseteq 0..n, S # {}
  PROVE  Max(S) \in S /\ \A k \in S : k <= Max(S)
<1> DEFINE T == {k..n : k \in S}
<1>1. IsWellFoundedOn(StrictSubsetOrdering(Nat), FiniteSubsetsOf(Nat))
  BY FS_StrictSubsetOrderingWellFounded
<1>2. T \subseteq FiniteSubsetsOf(Nat) /\ T # {}
  <2>1. \A k \in Nat : k..n \subseteq Nat /\ IsFiniteSet(k..n)
    BY FS_Interval
  <2>2. QED
    BY <2>1 DEF FiniteSubsetsOf
<1>3. PICK t \in T : \A u \in T : <<u, t>> \notin StrictSubsetOrdering(Nat)
  <2> HIDE DEF T
  <2>1. QED
    BY <1>1, <1>2, WFMin
<1>4. PICK x \in S : t = x..n
  OBVIOUS
<1>5. ASSUME NEW y \in S PROVE x >= y
  <2>1. ~(y..n \subseteq x..n /\ y..n # x..n)
    <3>1. <<y..n, x..n>> \notin StrictSubsetOrdering(Nat)
      BY <1>3, <1>4
    <3>2. y..n \in SUBSET Nat /\ x..n \in SUBSET Nat
      OBVIOUS
    <3>3. QED
      BY <3>1, <3>2, Zenon DEF StrictSubsetOrdering
  <2>2. CASE x < y
    <3>1. y..n \subseteq x..n /\ x \in x..n /\ x \notin y..n
      BY <2>2
    <3>2. QED
      BY <2>1, <3>1
  <2>3. QED
    BY <2>2
<1>6. Max(S) \in S /\ \A k \in S : Max(S) >= k
  BY <1>5, Zenon DEF Max
<1>7. QED
  BY <1>6

\* An element that is above all others is the maximum.
LEMMA GreatestIsMax ==
  ASSUME NEW S, S \subseteq Nat, NEW x \in S, \A k \in S : k <= x
  PROVE  Max(S) = x
<1>1. \A k \in S : x >= k
  OBVIOUS
<1>2. ASSUME NEW y \in S, \A k \in S : y >= k PROVE y = x
  BY <1>2
<1>3. QED
  BY <1>1, <1>2 DEF Max

-----------------------------------------------------------------------------
(* The parser on any file.                                                 *)

FrameIn(f, i) ==
  /\ i + 2 <= Len(f)
  /\ f[i + 1].half = "head"
  /\ f[i + 2] = Cell("tail", f[i + 1].batch)

ConsumedIn(f, from) ==
  Max({k \in 0..Len(f) : \A j \in 0..(k - 1) : FrameIn(f, from + 2 * j)})

\* As many frames are consumed as there are before the first that is torn.
LEMMA ConsumedIs ==
  ASSUME NEW f \in Seq(CellType), NEW from \in Nat, NEW k \in Nat,
         \A j \in 0..(k - 1) : FrameIn(f, from + 2 * j),
         ~FrameIn(f, from + 2 * k)
  PROVE  ConsumedIn(f, from) = k
<1> DEFINE S == {m \in 0..Len(f) : \A j \in 0..(m - 1) : FrameIn(f, from + 2 * j)}
<1>1. Len(f) \in Nat
  BY LenProperties
<1>2. k <= Len(f)
  <2>1. CASE k = 0
    BY <1>1, <2>1
  <2>2. CASE k > 0
    <3>1. k - 1 \in 0..(k - 1)
      BY <2>2
    <3>2. from + 2 * (k - 1) + 2 <= Len(f)
      BY <3>1 DEF FrameIn
    <3>3. QED
      BY <1>1, <2>2, <3>2
  <2>3. QED
    BY <2>1, <2>2
<1>3. k \in S
  BY <1>1, <1>2
<1>4. \A m \in S : m <= k
  <2>1. SUFFICES ASSUME NEW m \in S, m > k PROVE FALSE
    BY <1>1
  <2>2. k \in 0..(m - 1)
    BY <2>1, <1>1
  <2>3. QED
    BY <2>1, <2>2
<1>5. S \subseteq Nat
  BY <1>1
<1>6. Max(S) = k
  <2> HIDE DEF S
  <2>1. QED
    BY <1>3, <1>4, <1>5, GreatestIsMax
<1>7. QED
  BY <1>6 DEF ConsumedIn

\* What is consumed is whole frames, up to one that is not there.
LEMMA ConsumedHas ==
  ASSUME NEW f \in Seq(CellType), NEW from \in Nat
  PROVE  /\ ConsumedIn(f, from) \in Nat
         /\ \A j \in 0..(ConsumedIn(f, from) - 1) : FrameIn(f, from + 2 * j)
         /\ ~FrameIn(f, from + 2 * ConsumedIn(f, from))
         /\ ConsumedIn(f, from) > 0 => from + 2 * ConsumedIn(f, from) <= Len(f)
<1> DEFINE S == {m \in 0..Len(f) : \A j \in 0..(m - 1) : FrameIn(f, from + 2 * j)}
           c == ConsumedIn(f, from)
<1>1. Len(f) \in Nat
  BY LenProperties
<1>2. 0 \in S /\ S \subseteq 0..Len(f)
  BY <1>1
<1>3. Max(S) \in S /\ \A m \in S : m <= Max(S)
  <2> HIDE DEF S
  <2>1. QED
    BY <1>1, <1>2, MaxIsGreatest
<1>4. c = Max(S)
  BY DEF ConsumedIn
<1>5. c \in Nat /\ c <= Len(f) /\ (\A j \in 0..(c - 1) : FrameIn(f, from + 2 * j))
      /\ \A m \in S : m <= c
  <2>1. c \in S
    BY <1>3, <1>4
  <2>2. QED
    <3> HIDE DEF c
    <3>1. c \in 0..Len(f) /\ \A j \in 0..(c - 1) : FrameIn(f, from + 2 * j)
      BY <2>1
    <3>2. QED
      BY <1>1, <1>3, <1>4, <3>1
<1>6. c > 0 => from + 2 * c <= Len(f)
  <2>1. SUFFICES ASSUME c > 0 PROVE from + 2 * c <= Len(f)
    OBVIOUS
  <2>2. FrameIn(f, from + 2 * (c - 1))
    <3> HIDE DEF c
    <3>1. QED
      BY <1>5, <2>1
  <2>3. from + 2 * (c - 1) + 2 <= Len(f)
    BY <2>2 DEF FrameIn
  <2>4. QED
    <3> HIDE DEF c
    <3>1. QED
      BY <1>1, <1>5, <2>3
<1>7. ~FrameIn(f, from + 2 * c)
  <2>1. SUFFICES ASSUME FrameIn(f, from + 2 * c) PROVE FALSE
    OBVIOUS
  <2>2. c + 1 <= Len(f)
    <3>1. from + 2 * c + 2 <= Len(f)
      BY <2>1 DEF FrameIn
    <3> HIDE DEF c
    <3>2. QED
      BY <1>1, <1>5, <3>1
  <2>3. \A j \in 0..((c + 1) - 1) : FrameIn(f, from + 2 * j)
    <3>1. SUFFICES ASSUME NEW j \in 0..((c + 1) - 1) PROVE FrameIn(f, from + 2 * j)
      OBVIOUS
    <3> HIDE DEF c
    <3>2. j \in 0..(c - 1) \/ j = c
      BY <1>5
    <3>3. QED
      BY <1>5, <2>1, <3>2
  <2>4. c + 1 \in S
    <3> HIDE DEF c
    <3>1. QED
      BY <1>1, <1>5, <2>2, <2>3
  <2>5. QED
    <3> HIDE DEF c, S
    <3>1. QED
      BY <1>5, <2>4
<1>8. QED
  BY <1>5, <1>6, <1>7

-----------------------------------------------------------------------------
(* The prefix.                                                             *)

\* A row of a batch is between its first LSN and the next, and as far from its
\* first event as from its first LSN.
LEMMA RowFacts ==
  ASSUME NEW b \in BatchType
  PROVE  /\ NextAfter(b) \in Nat /\ b.first < NextAfter(b) /\ NextAfter(b) <= b.first + 2
         /\ \A r \in RowsOf(b) :
              /\ r \in RowType
              /\ b.first <= r.lsn /\ r.lsn < NextAfter(b)
              /\ b.event <= r.event /\ r.event < b.event + b.n
              /\ r.lsn - b.first = r.event - b.event
              /\ r = [lsn |-> r.lsn, event |-> r.event]
<1>1. b.first \in Nat /\ b.event \in Nat /\ b.n \in 0..2
  BY DEF BatchType
<1>2. NextAfter(b) \in Nat /\ b.first < NextAfter(b) /\ NextAfter(b) <= b.first + 2
  BY <1>1 DEF NextAfter, AtLeastOne
<1>3. ASSUME NEW i \in 0..(b.n - 1), NEW r, r = [lsn |-> b.first + i, event |-> b.event + i]
      PROVE  /\ r \in RowType
             /\ b.first <= r.lsn /\ r.lsn < NextAfter(b)
             /\ b.event <= r.event /\ r.event < b.event + b.n
             /\ r.lsn - b.first = r.event - b.event
             /\ r = [lsn |-> r.lsn, event |-> r.event]
  BY <1>1, <1>3 DEF NextAfter, AtLeastOne, RowType
<1>4. QED
  BY <1>2, <1>3 DEF RowsOf

\* The parser on the log, and on its prefix.
LEMMA WholeFacts ==
  ASSUME file \in Seq(CellType)
  PROVE  /\ Whole \in Nat /\ Len(file) \in Nat /\ 2 * Whole <= Len(file)
         /\ \A j \in 0..(Whole - 1) : FrameAt(2 * j) /\ BatchAt(j) \in BatchType
         /\ ~FrameAt(2 * Whole)
<1>1. /\ Whole \in Nat
      /\ \A j \in 0..(Whole - 1) : FrameIn(file, 0 + 2 * j)
      /\ ~FrameIn(file, 0 + 2 * Whole)
      /\ Whole > 0 => 0 + 2 * Whole <= Len(file)
  <2>1. Whole = ConsumedIn(file, 0)
    BY DEF Whole, Consumed, ConsumedIn, FrameAt, FrameIn
  <2>2. QED
    BY <2>1, ConsumedHas
<1>2. Len(file) \in Nat
  BY LenProperties
<1>3. 2 * Whole <= Len(file)
  BY <1>1, <1>2
<1>4. \A i \in Nat : 0 + 2 * i = 2 * i
  OBVIOUS
<1>5. \A i : FrameAt(i) <=> FrameIn(file, i)
  BY DEF FrameAt, FrameIn
<1>6. ASSUME NEW j \in 0..(Whole - 1) PROVE FrameAt(2 * j) /\ BatchAt(j) \in BatchType
  <2>1. FrameAt(2 * j)
    <3>1. j \in Nat
      BY <1>1
    <3>2. QED
      BY <1>1, <1>4, <1>5, <3>1
  <2>2. 2 * j + 1 \in 1..Len(file)
    BY <1>1, <1>3, <1>2
  <2>3. file[2 * j + 1] \in CellType
    BY <2>2
  <2>4. QED
    BY <2>1, <2>3 DEF BatchAt, CellType
<1>7. ~FrameAt(2 * Whole)
  BY <1>1, <1>4, <1>5
<1>8. QED
  BY <1>1, <1>2, <1>3, <1>6, <1>7

\* From anywhere the parser consumes whole frames that are in the file.
LEMMA ParseFacts ==
  ASSUME file \in Seq(CellType), NEW from \in Nat
  PROVE  /\ Consumed(from) \in Nat
         /\ Consumed(from) > 0 => from + 2 * Consumed(from) <= Len(file)
<1>1. Consumed(from) = ConsumedIn(file, from)
  BY DEF Consumed, ConsumedIn, FrameAt, FrameIn
<1>2. QED
  BY <1>1, ConsumedHas

\* From a boundary of the prefix it consumes the rest of the prefix.
LEMMA ParseBoundary ==
  ASSUME file \in Seq(CellType), NEW i \in 0..Whole
  PROVE  Consumed(2 * i) = Whole - i
<1>1. Whole \in Nat /\ (\A j \in 0..(Whole - 1) : FrameAt(2 * j)) /\ ~FrameAt(2 * Whole)
  BY WholeFacts
<1>2. \A k : FrameAt(k) <=> FrameIn(file, k)
  BY DEF FrameAt, FrameIn
<1>3. Consumed(2 * i) = ConsumedIn(file, 2 * i)
  BY DEF Consumed, ConsumedIn, FrameAt, FrameIn
<1>4. ASSUME NEW j \in 0..((Whole - i) - 1) PROVE FrameIn(file, 2 * i + 2 * j)
  <2>1. i + j \in 0..(Whole - 1) /\ 2 * (i + j) = 2 * i + 2 * j
    BY <1>1
  <2>2. FrameAt(2 * (i + j))
    BY <1>1, <2>1
  <2>3. QED
    BY <1>2, <2>1, <2>2
<1>5. ~FrameIn(file, 2 * i + 2 * (Whole - i))
  <2>1. 2 * i + 2 * (Whole - i) = 2 * Whole
    BY <1>1
  <2>2. QED
    BY <1>1, <1>2, <2>1
<1>6. 2 * i \in Nat /\ Whole - i \in Nat
  BY <1>1
<1>7. QED
  BY <1>3, <1>4, <1>5, <1>6, ConsumedIs

\* The rows that follow a boundary.
LEMMA RowsFromBoundary ==
  ASSUME file \in Seq(CellType), NEW i \in 0..Whole
  PROVE  ParsedRows(2 * i) = UNION {RowsOf(BatchAt(j)) : j \in i..(Whole - 1)}
<1>1. Whole \in Nat
  BY WholeFacts
<1>2. Consumed(2 * i) = Whole - i
  BY ParseBoundary
<1>3. ParsedFrom(2 * i) = {BatchAt(j) : j \in i..(Whole - 1)}
  <2>1. ASSUME NEW b \in ParsedFrom(2 * i) PROVE b \in {BatchAt(j) : j \in i..(Whole - 1)}
    <3>1. PICK j \in 0..((Whole - i) - 1) : b = file[2 * i + 2 * j + 1].batch
      BY <1>2 DEF ParsedFrom
    <3>2. i + j \in i..(Whole - 1) /\ 2 * (i + j) + 1 = 2 * i + 2 * j + 1
      BY <1>1
    <3>3. b = BatchAt(i + j)
      BY <3>1, <3>2 DEF BatchAt
    <3>4. QED
      BY <3>2, <3>3
  <2>2. ASSUME NEW j \in i..(Whole - 1) PROVE BatchAt(j) \in ParsedFrom(2 * i)
    <3>1. j - i \in 0..((Whole - i) - 1) /\ 2 * i + 2 * (j - i) + 1 = 2 * j + 1
      BY <1>1
    <3>2. BatchAt(j) = file[2 * i + 2 * (j - i) + 1].batch
      BY <3>1 DEF BatchAt
    <3>3. QED
      BY <1>2, <3>1, <3>2 DEF ParsedFrom
  <2>3. QED
    BY <2>1, <2>2
<1>4. QED
  BY <1>3 DEF ParsedRows

\* The rows of the prefix are what recovery parses from the start of the log.
LEMMA PrefixIsParsed ==
  ASSUME file \in Seq(CellType)
  PROVE  ParsedRows(0) = PrefixRows
<1>1. Whole \in Nat /\ 2 * 0 = 0 /\ 0 \in 0..Whole
  BY WholeFacts
<1>2. QED
  BY <1>1, RowsFromBoundary DEF PrefixRows

\* LSNs grow along the prefix.
LEMMA NextAtGrows ==
  ASSUME file \in Seq(CellType), Chained
  PROVE  /\ \A i \in 0..Whole : NextAt(i) \in Nat /\ NextAt(i) > 0
         /\ \A i \in 0..Whole : \A j \in 0..(i - 1) :
              BatchAt(j).first = NextAt(j) /\ NextAt(j) < NextAfter(BatchAt(j))
              /\ NextAfter(BatchAt(j)) <= NextAt(i)
<1>1. Whole \in Nat /\ \A j \in 0..(Whole - 1) : BatchAt(j) \in BatchType
  BY WholeFacts
<1>2. \A j \in 0..(Whole - 1) :
        /\ NextAfter(BatchAt(j)) \in Nat /\ BatchAt(j).first \in Nat
        /\ BatchAt(j).first < NextAfter(BatchAt(j))
        /\ BatchAt(j).first = NextAt(j)
  BY <1>1, RowFacts DEF Chained, BatchType
<1>3. ASSUME NEW i \in 0..Whole PROVE NextAt(i) \in Nat /\ NextAt(i) > 0
  <2>1. CASE i = 0
    BY <2>1 DEF NextAt
  <2>2. CASE i > 0
    <3>1. i - 1 \in 0..(Whole - 1)
      BY <1>1, <2>2
    <3>2. QED
      BY <1>2, <2>2, <3>1 DEF NextAt
  <2>3. QED
    BY <2>1, <2>2
<1>4. ASSUME NEW i \in 0..Whole, NEW j \in 0..(i - 1)
      PROVE  NextAfter(BatchAt(j)) <= NextAt(i)
  <2>1. i > 0 /\ i - 1 \in 0..(Whole - 1) /\ j \in 0..(Whole - 1)
    BY <1>1
  <2>2. NextAt(i) = NextAfter(BatchAt(i - 1))
    BY <2>1 DEF NextAt
  <2>3. CASE j = i - 1
    BY <1>2, <2>1, <2>2, <2>3
  <2>4. CASE j # i - 1
    <3>1. j \in 0..((i - 1) - 1)
      BY <1>1, <2>4
    <3>2. NextAfter(BatchAt(j)) <= BatchAt(i - 1).first
      BY <2>1, <3>1 DEF Chained
    <3>3. QED
      BY <1>2, <2>1, <2>2, <3>2
  <2>5. QED
    BY <2>3, <2>4
<1>5. QED
  BY <1>1, <1>2, <1>3, <1>4

\* No boundary has a later LSN than the end of the prefix.
LEMMA NextAtOrder ==
  ASSUME file \in Seq(CellType), Chained
  PROVE  \A i \in 0..Whole : NextAt(i) \in Nat /\ NextAt(i) <= NextAt(Whole)
<1>1. Whole \in Nat /\ Whole \in 0..Whole /\ \A j \in 0..(Whole - 1) : BatchAt(j) \in BatchType
  BY WholeFacts
<1>2. ASSUME NEW i \in 0..Whole, i # Whole PROVE NextAt(i) <= NextAt(Whole)
  <2>1. i \in 0..(Whole - 1)
    BY <1>1, <1>2
  <2>2. NextAfter(BatchAt(i)) \in Nat
    BY <1>1, <2>1, RowFacts
  <2>3. NextAt(i) \in Nat /\ NextAt(Whole) \in Nat
    BY <1>1, NextAtGrows
  <2>4. NextAt(i) < NextAfter(BatchAt(i)) /\ NextAfter(BatchAt(i)) <= NextAt(Whole)
    BY <1>1, <2>1, NextAtGrows
  <2>5. QED
    BY <2>2, <2>3, <2>4
<1>3. QED
  BY <1>1, <1>2, NextAtGrows

\* A row of the prefix is between the LSNs of the boundaries around it.
LEMMA PrefixRowFacts ==
  ASSUME file \in Seq(CellType), Chained
  PROVE  \A j \in 0..(Whole - 1) : \A r \in RowsOf(BatchAt(j)) :
           /\ r \in RowType /\ r \in PrefixRows /\ r.lsn < NextAt(Whole)
           /\ \A i \in 0..Whole : IF j < i THEN r.lsn < NextAt(i) ELSE r.lsn >= NextAt(i)
<1>1. Whole \in Nat /\ Whole \in 0..Whole /\ \A j \in 0..(Whole - 1) : BatchAt(j) \in BatchType
  BY WholeFacts
<1>2. SUFFICES ASSUME NEW j \in 0..(Whole - 1), NEW r \in RowsOf(BatchAt(j))
               PROVE  /\ r \in RowType /\ r \in PrefixRows
                      /\ \A i \in 0..Whole :
                           IF j < i THEN r.lsn < NextAt(i) ELSE r.lsn >= NextAt(i)
  BY <1>1
<1>3. /\ r \in RowType /\ r.lsn \in Nat /\ NextAfter(BatchAt(j)) \in Nat
      /\ BatchAt(j).first \in Nat
      /\ BatchAt(j).first <= r.lsn /\ r.lsn < NextAfter(BatchAt(j))
  BY <1>1, RowFacts DEF RowType, BatchType
<1>4. \A i \in 0..Whole : NextAt(i) \in Nat
  BY NextAtGrows
<1>5. ASSUME NEW i \in 0..Whole, j < i PROVE r.lsn < NextAt(i)
  <2>1. j \in 0..(i - 1)
    BY <1>1, <1>5
  <2>2. NextAfter(BatchAt(j)) <= NextAt(i)
    BY <2>1, NextAtGrows
  <2>3. QED
    BY <1>3, <1>4, <2>2
<1>6. ASSUME NEW i \in 0..Whole, ~(j < i) PROVE r.lsn >= NextAt(i)
  <2>1. BatchAt(j).first = NextAt(j)
    BY DEF Chained
  <2>2. CASE i = j
    BY <1>3, <2>1, <2>2
  <2>3. CASE i # j
    <3>1. i \in 0..(j - 1) /\ j \in 0..Whole
      BY <1>1, <1>6, <2>3
    <3>2. NextAt(i) < NextAfter(BatchAt(i)) /\ NextAfter(BatchAt(i)) <= NextAt(j)
      BY <3>1, NextAtGrows
    <3>3. NextAfter(BatchAt(i)) \in Nat
      BY <1>1, <3>1, RowFacts
    <3>4. QED
      BY <1>3, <1>4, <2>1, <3>1, <3>2, <3>3
  <2>4. QED
    BY <2>2, <2>3
<1>7. r \in PrefixRows
  BY DEF PrefixRows
<1>8. QED
  BY <1>3, <1>5, <1>6, <1>7

\* Whatever is parsed, from anywhere, has an LSN in bounds.
LEMMA ParsedBounded ==
  ASSUME Good, NEW from \in Nat, NEW r \in ParsedRows(from)
  PROVE  r \in RowType /\ r.lsn <= 2 * frames
<1>1. file \in Seq(CellType) /\ Len(file) \in Nat /\ frames \in Nat
  BY LenProperties DEF Good, Shape
<1>2. Consumed(from) \in Nat /\ (Consumed(from) > 0 => from + 2 * Consumed(from) <= Len(file))
  BY <1>1, ParseFacts
<1>3. PICK j \in 0..(Consumed(from) - 1) : r \in RowsOf(file[from + 2 * j + 1].batch)
  BY DEF ParsedRows, ParsedFrom
<1>4. from + 2 * j + 1 \in 1..Len(file)
  BY <1>1, <1>2
<1>5. PICK k \in 1..Len(file) : k = from + 2 * j + 1
  BY <1>4
<1>6. file[k].batch \in BatchType /\ NextAfter(file[k].batch) <= 1 + 2 * frames
  <2>1. file[k] \in CellType
    BY <1>1
  <2>2. QED
    BY <2>1 DEF Good, Bounded, CellType
<1>7. r \in RowsOf(file[k].batch)
  BY <1>3, <1>5
<1>8. r \in RowType /\ r.lsn < NextAfter(file[k].batch) /\ NextAfter(file[k].batch) \in Nat
  BY <1>6, <1>7, RowFacts
<1>9. QED
  BY <1>1, <1>6, <1>8 DEF RowType

\* An offset that moves over what the parser consumes, with the LSN it finds, is
\* an offset again, and is past the prefix; from a boundary it is at its end.
LEMMA Advance ==
  ASSUME Good, NEW len \in Nat, NEW next \in Nat \ {0}, Offset(len, next)
  PROVE  /\ len + 2 * Consumed(len) \in Nat /\ NextFrom(len, next) \in Nat \ {0}
         /\ Offset(len + 2 * Consumed(len), NextFrom(len, next))
         /\ len + 2 * Consumed(len) >= 2 * Whole /\ NextFrom(len, next) >= NextAt(Whole)
         /\ \A i \in 0..Whole : len = 2 * i /\ next = NextAt(i) =>
              len + 2 * Consumed(len) = 2 * Whole /\ NextFrom(len, next) = NextAt(Whole)
         /\ next <= 1 + 2 * frames => NextFrom(len, next) <= 1 + 2 * frames
<1> DEFINE len2 == len + 2 * Consumed(len)
           next2 == NextFrom(len, next)
<1>1. file \in Seq(CellType) /\ Len(file) \in Nat /\ frames \in Nat /\ Chained /\ Torn
  BY LenProperties DEF Good, Shape
<1>2. /\ Whole \in Nat /\ 2 * Whole <= Len(file) /\ Whole \in 0..Whole
      /\ \A j \in 0..(Whole - 1) : BatchAt(j) \in BatchType
  BY <1>1, WholeFacts
<1>3. \A i \in 0..Whole : NextAt(i) \in Nat /\ NextAt(i) > 0
  BY <1>1, NextAtGrows
<1>4. Consumed(len) \in Nat /\ (Consumed(len) > 0 => len + 2 * Consumed(len) <= Len(file))
  BY <1>1, ParseFacts
<1>5. ASSUME NEW i \in 0..Whole, len = 2 * i, next = NextAt(i)
      PROVE  len2 = 2 * Whole /\ next2 = NextAt(Whole)
  <2>1. Consumed(len) = Whole - i
    BY <1>1, <1>5, ParseBoundary
  <2>2. len2 = 2 * Whole
    BY <1>2, <1>5, <2>1
  <2>3. CASE i = Whole
    <3>1. Consumed(len) = 0
      BY <1>2, <2>1, <2>3
    <3>2. QED
      BY <1>5, <2>2, <2>3, <3>1 DEF NextFrom
  <2>4. CASE i # Whole
    <3>1. Consumed(len) # 0 /\ Whole # 0
      BY <1>2, <2>1, <2>4
    <3>2. len + 2 * Consumed(len) - 1 = 2 * (Whole - 1) + 1
      BY <1>2, <1>4, <2>2
    <3>3. QED
      BY <2>2, <3>1, <3>2 DEF NextFrom, NextAt, BatchAt
  <2>5. QED
    BY <2>3, <2>4
<1>6. next2 \in Nat \ {0} /\ (next <= 1 + 2 * frames => next2 <= 1 + 2 * frames)
  <2>1. CASE Consumed(len) = 0
    BY <2>1 DEF NextFrom
  <2>2. CASE Consumed(len) # 0
    <3>1. len + 2 * Consumed(len) - 1 \in 1..Len(file)
      BY <1>1, <1>4, <2>2
    <3>2. PICK k \in 1..Len(file) : k = len + 2 * Consumed(len) - 1
      BY <3>1
    <3>3. next2 = NextAfter(file[k].batch)
      BY <2>2, <3>2 DEF NextFrom
    <3>4. file[k].batch \in BatchType
      <4>1. file[k] \in CellType
        BY <1>1
      <4>2. QED
        BY <4>1 DEF CellType
    <3>5. NextAfter(file[k].batch) \in Nat /\ file[k].batch.first \in Nat
          /\ NextAfter(file[k].batch) > file[k].batch.first
      BY <3>4, RowFacts DEF BatchType
    <3>6. NextAfter(file[k].batch) <= 1 + 2 * frames
      BY DEF Good, Bounded
    <3>7. QED
      BY <3>3, <3>5, <3>6
  <2>3. QED
    BY <2>1, <2>2
<1>7. ASSUME tears > 0, len >= 2 * Whole, next >= NextAt(Whole), len <= Len(file)
      PROVE  len2 >= 2 * Whole /\ next2 >= NextAt(Whole) /\ len2 <= Len(file)
  <2>1. len2 >= 2 * Whole /\ len2 <= Len(file)
    BY <1>1, <1>2, <1>4, <1>7
  <2>2. CASE Consumed(len) = 0
    BY <1>7, <2>1, <2>2 DEF NextFrom
  <2>3. CASE Consumed(len) # 0
    <3>1. len + 2 * Consumed(len) - 1 \in (2 * Whole + 1)..Len(file)
          /\ len + 2 * Consumed(len) - 1 \in 1..Len(file)
      BY <1>1, <1>2, <1>4, <1>7, <2>3
    <3>2. PICK k \in 1..Len(file) : k = len + 2 * Consumed(len) - 1
      BY <3>1
    <3>3. next2 = NextAfter(file[k].batch)
      BY <2>3, <3>2 DEF NextFrom
    <3>4. file[k].batch.first >= NextAt(Whole)
      BY <1>1, <3>1, <3>2 DEF Torn
    <3>5. NextAfter(file[k].batch) \in Nat /\ file[k].batch.first \in Nat
          /\ NextAfter(file[k].batch) > file[k].batch.first
      <4>1. file[k] \in CellType
        BY <1>1
      <4>2. file[k].batch \in BatchType
        BY <4>1 DEF CellType
      <4>3. QED
        BY <4>2, RowFacts DEF BatchType
    <3>6. QED
      BY <1>2, <1>3, <2>1, <3>3, <3>4, <3>5
  <2>4. QED
    BY <2>2, <2>3
<1>8. len2 \in Nat
  BY <1>4
<1>9. Offset(len2, next2) /\ len2 >= 2 * Whole /\ next2 >= NextAt(Whole)
  <2>1. CASE \E i \in 0..Whole : len = 2 * i /\ next = NextAt(i)
    <3>1. len2 = 2 * Whole /\ next2 = NextAt(Whole)
      BY <1>5, <2>1
    <3> HIDE DEF len2, next2
    <3>2. QED
      BY <1>2, <1>3, <3>1 DEF Offset
  <2>2. CASE tears > 0 /\ len >= 2 * Whole /\ next >= NextAt(Whole)
    <3>1. len <= Len(file)
      BY DEF Offset
    <3>2. len2 >= 2 * Whole /\ next2 >= NextAt(Whole) /\ len2 <= Len(file)
      BY <1>7, <2>2, <3>1
    <3> HIDE DEF len2, next2
    <3>3. QED
      BY <2>2, <3>2 DEF Offset
  <2>3. QED
    BY <2>1, <2>2 DEF Offset
<1>10. QED
  BY <1>5, <1>6, <1>8, <1>9

-----------------------------------------------------------------------------
(* A process that reads the files.                                         *)

\* What holds of a process that has just brought its handle up to the file.
AtTheEnd(s) ==
  /\ s \in ProcType /\ HandleGood(s)
  /\ s.scanned >= 2 * Whole /\ s.next >= NextAt(Whole) /\ s.next <= 1 + 2 * frames
  /\ tears = 0 => s.scanned = 2 * Whole /\ s.next = NextAt(Whole)

\* ... and of one that knows all there is to know.
Knows(s) ==
  /\ AtTheEnd(s) /\ Serving(s) /\ Fresh(s)
  /\ \A r \in s.mem : r.lsn <= 2 * frames

\* The handle moves over what is new in the file; a log never gets shorter.
LEMMA WalMoves ==
  ASSUME Good, NEW s \in ProcType, HandleGood(s), s.next <= 1 + 2 * frames
  PROVE  /\ RefreshedWal(s) = [s EXCEPT !.scanned = s.scanned + 2 * Consumed(s.scanned),
                                        !.next = NextFrom(s.scanned, s.next)]
         /\ AtTheEnd(RefreshedWal(s))
         /\ \A i \in 0..Whole : s.scanned = 2 * i /\ s.next = NextAt(i) =>
              RefreshedWal(s).scanned = 2 * Whole /\ RefreshedWal(s).next = NextAt(Whole)
<1> DEFINE w == [s EXCEPT !.scanned = s.scanned + 2 * Consumed(s.scanned),
                          !.next = NextFrom(s.scanned, s.next)]
<1>1. file \in Seq(CellType) /\ Len(file) \in Nat /\ Chained /\ Torn
  BY LenProperties DEF Good, Shape
<1>2. s.scanned \in Nat /\ s.next \in Nat \ {0} /\ Offset(s.scanned, s.next)
  BY DEF ProcType, HandleGood
<1>3. s.scanned <= Len(file) /\ Consumed(s.scanned) \in Nat
      /\ (Consumed(s.scanned) > 0 => s.scanned + 2 * Consumed(s.scanned) <= Len(file))
  BY <1>1, <1>2, ParseFacts DEF Offset
<1>4. /\ w.scanned \in Nat /\ w.next \in Nat \ {0}
      /\ Offset(w.scanned, w.next)
      /\ w.scanned >= 2 * Whole /\ w.next >= NextAt(Whole) /\ w.next <= 1 + 2 * frames
      /\ \A i \in 0..Whole : s.scanned = 2 * i /\ s.next = NextAt(i) =>
           w.scanned = 2 * Whole /\ w.next = NextAt(Whole)
  <2>1. w.scanned = s.scanned + 2 * Consumed(s.scanned) /\ w.next = NextFrom(s.scanned, s.next)
    BY DEF ProcType
  <2> HIDE DEF w
  <2>2. QED
    BY <1>2, <2>1, Advance
<1>5. w \in ProcType /\ w.cklen = s.cklen /\ w.cklsn = s.cklsn
  <2>1. s.scanned + 2 * Consumed(s.scanned) \in Nat /\ NextFrom(s.scanned, s.next) \in Nat \ {0}
    BY <1>2, Advance
  <2>2. QED
    BY <2>1 DEF ProcType
<1>6. tears = 0 => \E i \in 0..Whole : s.scanned = 2 * i /\ s.next = NextAt(i)
  BY <1>2 DEF Offset
<1>7. RefreshedWal(s) = w
  <2>1. CASE Len(file) = s.scanned
    <3>1. Consumed(s.scanned) = 0
      BY <1>1, <1>3, <2>1
    <3>2. s.scanned + 2 * Consumed(s.scanned) = s.scanned /\ NextFrom(s.scanned, s.next) = s.next
      BY <1>2, <3>1 DEF NextFrom
    <3>3. w = s
      BY <3>2 DEF ProcType
    <3> HIDE DEF w
    <3>4. QED
      BY <2>1, <3>3 DEF RefreshedWal
  <2>2. CASE Len(file) # s.scanned
    <3>1. ~(Len(file) < s.scanned)
      BY <1>1, <1>2, <1>3
    <3>2. QED
      BY <2>2, <3>1 DEF RefreshedWal
  <2>3. QED
    BY <2>1, <2>2
<1>8. AtTheEnd(w)
  <2> HIDE DEF w
  <2>1. HandleGood(w)
    BY <1>4, <1>5 DEF HandleGood
  <2>2. tears = 0 => w.scanned = 2 * Whole /\ w.next = NextAt(Whole)
    BY <1>4, <1>6
  <2>3. QED
    BY <1>4, <1>5, <2>1, <2>2 DEF AtTheEnd
<1>9. QED
  <2> HIDE DEF w
  <2>1. AtTheEnd(RefreshedWal(s))
    BY <1>7, <1>8
  <2>2. \A i \in 0..Whole : s.scanned = 2 * i /\ s.next = NextAt(i) =>
              RefreshedWal(s).scanned = 2 * Whole /\ RefreshedWal(s).next = NextAt(Whole)
    BY <1>4, <1>7
  <2>3. RefreshedWal(s) = w
    BY <1>7
  <2>4. QED
    BY <2>1, <2>2, <2>3 DEF w

\* A replay has every row of the prefix above its watermark, only such rows if
\* there is no tear, and no LSN out of bounds.
LEMMA ReplayFacts ==
  ASSUME Good, NEW s \in ProcType, AtTheEnd(s), NEW from \in Nat
  PROVE  /\ \A j \in 0..(Whole - 1) : \A r \in RowsOf(BatchAt(j)) :
              r.lsn > from => r \in Replay(s, from)
         /\ tears = 0 => Replay(s, from) \subseteq PrefixRows
         /\ \A r \in Replay(s, from) : r \in RowType /\ r.lsn > from /\ r.lsn <= 2 * frames
<1>1. file \in Seq(CellType) /\ Len(file) \in Nat /\ Chained
  BY LenProperties DEF Good, Shape
<1>2. Whole \in Nat /\ Whole \in 0..Whole /\ 0 \in 0..Whole /\ 2 * 0 = 0
  BY <1>1, WholeFacts
<1>3. s.next \in Nat /\ s.cklen \in Nat /\ s.cklsn \in Nat /\ NextAt(Whole) \in Nat
      /\ s.next >= NextAt(Whole)
  BY <1>1, <1>2, NextAtGrows DEF AtTheEnd, ProcType
<1>4. PICK next \in Nat : Offset(s.cklen, next)
  BY DEF AtTheEnd, HandleGood, Checkpoint
<1>5. (\E i \in 0..Whole : s.cklen = 2 * i) \/ (tears > 0 /\ s.cklen >= 2 * Whole)
  BY <1>4 DEF Offset
<1>6. ASSUME NEW j \in 0..(Whole - 1), NEW r \in RowsOf(BatchAt(j)), r.lsn > from
      PROVE  r \in Replay(s, from)
  <2>1. r.lsn \in Nat /\ r.lsn < NextAt(Whole)
    BY <1>1, PrefixRowFacts DEF RowType
  <2>2. ~(from >= TailOf(s))
    BY <1>3, <1>6, <2>1 DEF TailOf
  <2>3. CASE from >= s.cklsn
    <3>1. ~(2 * j < s.cklen)
      <4>1. SUFFICES ASSUME 2 * j < s.cklen PROVE FALSE
        OBVIOUS
      <4>2. r.lsn <= s.cklsn
        BY <4>1 DEF AtTheEnd, HandleGood, Checkpoint
      <4>3. QED
        BY <1>3, <1>6, <2>1, <2>3, <4>2
    <3>2. PICK i \in 0..Whole : s.cklen = 2 * i
      BY <1>2, <1>3, <1>5, <3>1
    <3>3. j \in i..(Whole - 1)
      BY <1>2, <3>1, <3>2
    <3>4. r \in ParsedRows(s.cklen)
      BY <1>1, <3>2, <3>3, RowsFromBoundary
    <3>5. QED
      BY <1>6, <2>2, <2>3, <3>4 DEF Replay
  <2>4. CASE ~(from >= s.cklsn)
    <3>1. r \in ParsedRows(0)
      BY <1>1, PrefixIsParsed, PrefixRowFacts
    <3>2. QED
      BY <1>6, <2>2, <2>4, <3>1 DEF Replay
  <2>5. QED
    BY <2>3, <2>4
<1>7. ASSUME tears = 0 PROVE Replay(s, from) \subseteq PrefixRows
  <2>1. PICK i \in 0..Whole : s.cklen = 2 * i
    BY <1>5, <1>7
  <2>2. ParsedRows(s.cklen) \subseteq PrefixRows
    BY <1>1, <1>2, <2>1, RowsFromBoundary DEF PrefixRows
  <2>3. ParsedRows(0) = PrefixRows
    BY <1>1, PrefixIsParsed
  <2>4. QED
    BY <2>2, <2>3 DEF Replay
<1>8. ASSUME NEW r \in Replay(s, from)
      PROVE  r \in RowType /\ r.lsn > from /\ r.lsn <= 2 * frames
  <2>1. r.lsn > from /\ (r \in ParsedRows(s.cklen) \/ r \in ParsedRows(0))
    BY DEF Replay
  <2>2. QED
    BY <1>3, <2>1, ParsedBounded
<1>9. QED
  BY <1>6, <1>7, <1>8

\* A manifest that has the prefix has any part of it.
LEMMA HasPart ==
  ASSUME file \in Seq(CellType), NEW d, HasPrefix(d, 2 * Whole), NEW len \in Nat
  PROVE  HasPrefix(d, len)
<1>1. Whole \in Nat
  BY WholeFacts
<1>2. \A j \in 0..(Whole - 1) : 2 * j < 2 * Whole
  BY <1>1
<1>3. QED
  BY <1>2 DEF HasPrefix

\* A MemTable rebuilt on a manifest that has the prefix has what that one lacks.
LEMMA RebuiltKnows ==
  ASSUME Good, NEW w \in ProcType, AtTheEnd(w), tears = 0 => w.tail < w.next,
         NEW d \in DiskType, w.cur = d, HasPrefix(d, 2 * Whole), Exact(d)
  PROVE  Knows(Rebuilt(w)) /\ Rebuilt(w).up = w.up
<1> DEFINE t == Rebuilt(w)
<1>1. file \in Seq(CellType) /\ Chained /\ tears \in Nat
  BY DEF Good, Shape
<1>2. Whole \in Nat /\ Whole \in 0..Whole /\ \A j \in 0..(Whole - 1) : BatchAt(j) \in BatchType
  BY <1>1, WholeFacts
<1>3. w.next \in Nat \ {0} /\ NextAt(Whole) \in Nat /\ w.next >= NextAt(Whole) /\ w.tail \in Nat
      /\ d.wm \in Nat /\ w.scanned \in Nat
  BY <1>1, <1>2, NextAtGrows DEF AtTheEnd, ProcType, DiskType
<1>4. /\ \A j \in 0..(Whole - 1) : \A r \in RowsOf(BatchAt(j)) :
           r.lsn > d.wm => r \in Replay(w, d.wm)
      /\ tears = 0 => Replay(w, d.wm) \subseteq PrefixRows
      /\ \A r \in Replay(w, d.wm) : r \in RowType /\ r.lsn > d.wm /\ r.lsn <= 2 * frames
  BY <1>3, ReplayFacts
<1>5. /\ t.up = w.up /\ t.next = w.next /\ t.scanned = w.scanned /\ t.cklen = w.cklen
      /\ t.cklsn = w.cklsn /\ t.cur = d /\ t.mem = Replay(w, d.wm)
      /\ t.tail = Greater(w.tail, w.next - 1) /\ t \in ProcType
  <2>1. Greater(w.tail, w.next - 1) \in Nat
    BY <1>3 DEF Greater
  <2>2. Replay(w, d.wm) \in SUBSET RowType
    BY <1>4
  <2>3. QED
    BY <2>1, <2>2 DEF Rebuilt, ProcType, TailOf
<1> HIDE DEF t
<1>6. AtTheEnd(t)
  BY <1>5 DEF AtTheEnd, HandleGood
<1>7. Fresh(t) /\ \A r \in t.mem : r.lsn <= 2 * frames
  BY <1>4, <1>5 DEF Fresh
<1>8. Serving(t)
  <2>1. \/ \E i \in 0..Whole : /\ t.scanned = 2 * i /\ t.next = NextAt(i)
                               /\ t.cur.wm < t.next /\ t.tail = t.next - 1
        \/ tears > 0 /\ t.scanned >= 2 * Whole /\ t.next >= NextAt(Whole)
    <3>1. CASE tears = 0
      <4>1. t.scanned = 2 * Whole /\ t.next = NextAt(Whole)
        BY <1>6, <3>1 DEF AtTheEnd
      <4>2. t.cur.wm < t.next
        BY <1>1, <1>5, <3>1, <4>1 DEF Exact
      <4>3. t.tail = t.next - 1
        BY <1>3, <1>5, <3>1 DEF Greater
      <4>4. QED
        BY <1>2, <4>1, <4>2, <4>3
    <3>2. CASE tears # 0
      BY <1>1, <1>6, <3>2 DEF AtTheEnd
    <3>3. QED
      BY <3>1, <3>2
  <2>2. HasPrefix(t.cur, t.scanned) /\ Exact(t.cur)
    BY <1>1, <1>3, <1>5, HasPart
  <2>3. ASSUME NEW j \in 0..(Whole - 1), NEW r \in RowsOf(BatchAt(j)), r.lsn > t.cur.wm
        PROVE  r \in t.mem /\ r.lsn <= t.tail
    <3>1. r.lsn \in Nat /\ r.lsn < NextAt(Whole)
      BY <1>1, PrefixRowFacts DEF RowType
    <3>2. r.lsn <= t.tail
      BY <1>3, <1>5, <3>1 DEF Greater
    <3>3. QED
      BY <1>4, <1>5, <2>3, <3>2
  <2>4. tears = 0 => t.mem \subseteq PrefixRows
    BY <1>4, <1>5
  <2>5. QED
    BY <2>1, <2>2, <2>3, <2>4 DEF Serving
<1>9. Knows(t) /\ t.up = w.up
  BY <1>5, <1>6, <1>7, <1>8 DEF Knows
<1>10. QED
  BY <1>9 DEF t

\* A process that keeps its manifest has, with the rows that the refresh brings,
\* what that one lacks.
LEMMA BroughtKnows ==
  ASSUME Good, NEW s \in ProcType, HandleGood(s), Serving(s), Fresh(s),
         s.next <= 1 + 2 * frames, \A r \in s.mem : r.lsn <= 2 * frames,
         NEW t \in ProcType, NEW Y, NEW w \in ProcType, w = RefreshedWal(s),
         t.next = w.next, t.scanned = w.scanned, t.cklen = w.cklen, t.cklsn = w.cklsn,
         t.cur = s.cur, t.mem = s.mem \cup Y,
         \/ /\ TailOf(w) # s.tail
            /\ Y = {r \in BroughtRows(s, s.tail) : r.lsn > s.cur.wm}
            /\ t.tail = Greater(s.tail, TailOf(w))
         \/ TailOf(w) = s.tail /\ Y = {} /\ t.tail = s.tail
  PROVE  Knows(t)
<1>1. file \in Seq(CellType) /\ Len(file) \in Nat /\ Chained /\ tears \in Nat
  BY LenProperties DEF Good, Shape
<1>2. Whole \in Nat /\ Whole \in 0..Whole /\ 2 * Whole <= Len(file)
      /\ \A j \in 0..(Whole - 1) : BatchAt(j) \in BatchType
  BY <1>1, WholeFacts
<1>3. /\ s.next \in Nat \ {0} /\ w.next \in Nat \ {0} /\ s.tail \in Nat /\ t.tail \in Nat
      /\ s.scanned \in Nat /\ s.cur.wm \in Nat /\ t.scanned \in Nat
  BY DEF ProcType, DiskType
<1>4. AtTheEnd(w) /\ \A i \in 0..Whole : s.scanned = 2 * i /\ s.next = NextAt(i) =>
                       w.scanned = 2 * Whole /\ w.next = NextAt(Whole)
  BY WalMoves
<1>5. AtTheEnd(t)
  BY <1>4 DEF AtTheEnd, HandleGood
<1>6. \A i \in 0..Whole : NextAt(i) \in Nat /\ NextAt(i) <= NextAt(Whole)
  BY <1>1, NextAtOrder
<1>7. Y \subseteq ParsedRows(s.scanned) /\ \A r \in Y : r.lsn > s.cur.wm
  <2>1. ~(Len(file) < s.scanned)
    BY <1>1, <1>3 DEF HandleGood, Offset
  <2>2. QED
    BY <2>1 DEF BroughtRows
<1>8. Fresh(t) /\ \A r \in t.mem : r.lsn <= 2 * frames
  BY <1>3, <1>7, ParsedBounded DEF Fresh
<1>9. s.tail <= t.tail /\ w.next - 1 <= t.tail
  BY <1>3 DEF Greater, TailOf
<1>10. \/ \E i \in 0..Whole : /\ s.scanned = 2 * i /\ s.next = NextAt(i)
                              /\ s.cur.wm < s.next /\ s.tail = s.next - 1
       \/ tears > 0 /\ s.scanned >= 2 * Whole
  BY DEF Serving
<1>11. ASSUME NEW i \in 0..Whole, s.scanned = 2 * i, s.next = NextAt(i),
              NEW j \in 0..(Whole - 1), ~(2 * j < s.scanned),
              s.cur.wm < s.next, s.tail = s.next - 1, NEW r \in RowsOf(BatchAt(j))
       PROVE  r.lsn > s.cur.wm /\ r \in Y
  <2>1. ~(j < i) /\ i < Whole /\ i \in 0..Whole /\ j \in i..(Whole - 1)
    BY <1>2, <1>11
  <2>2. r.lsn \in Nat /\ r.lsn >= NextAt(i) /\ r.lsn < NextAt(Whole)
    BY <1>1, <2>1, PrefixRowFacts DEF RowType
  <2>3. w.next = NextAt(Whole)
    BY <1>4, <1>11
  <2>4. TailOf(w) # s.tail
    BY <1>3, <1>6, <1>11, <2>2, <2>3 DEF TailOf
  <2>5. r \in ParsedRows(s.scanned)
    BY <1>1, <1>11, <2>1, RowsFromBoundary
  <2>6. Len(file) # s.scanned /\ ~(Len(file) < s.scanned)
    BY <1>1, <1>2, <1>11, <2>1
  <2>7. r.lsn > s.tail /\ r.lsn > s.cur.wm
    BY <1>3, <1>6, <1>11, <2>2
  <2>8. QED
    BY <2>4, <2>5, <2>6, <2>7 DEF BroughtRows
<1>12. ASSUME NEW j \in 0..(Whole - 1), NEW r \in RowsOf(BatchAt(j)), ~(2 * j < s.scanned)
       PROVE  r.lsn > s.cur.wm /\ r \in Y
  <2>1. j \in Nat /\ 2 * j < 2 * Whole
    BY <1>2
  <2>2. ~(s.scanned >= 2 * Whole)
    BY <1>2, <1>3, <1>12, <2>1
  <2>3. QED
    BY <1>10, <1>11, <1>12, <2>2
<1>13. Serving(t)
  <2>1. \/ \E i \in 0..Whole : /\ t.scanned = 2 * i /\ t.next = NextAt(i)
                               /\ t.cur.wm < t.next /\ t.tail = t.next - 1
        \/ tears > 0 /\ t.scanned >= 2 * Whole /\ t.next >= NextAt(Whole)
    <3>1. CASE tears > 0 /\ s.scanned >= 2 * Whole
      BY <1>5, <3>1 DEF AtTheEnd
    <3>2. ASSUME NEW i \in 0..Whole, s.scanned = 2 * i, s.next = NextAt(i),
                 s.cur.wm < s.next, s.tail = s.next - 1
          PROVE  /\ t.scanned = 2 * Whole /\ t.next = NextAt(Whole)
                 /\ t.cur.wm < t.next /\ t.tail = t.next - 1
      <4>1. t.scanned = 2 * Whole /\ t.next = NextAt(Whole)
        BY <1>4, <3>2
      <4>2. NextAt(i) <= NextAt(Whole) /\ NextAt(i) \in Nat /\ NextAt(Whole) \in Nat
        BY <1>2, <1>6
      <4>3. t.cur.wm < t.next
        BY <1>3, <3>2, <4>1, <4>2
      <4>4. t.tail = t.next - 1
        BY <1>3, <3>2, <4>1, <4>2 DEF Greater, TailOf
      <4>5. QED
        BY <4>1, <4>3, <4>4
    <3>3. QED
      BY <1>2, <1>10, <3>1, <3>2
  <2>2. HasPrefix(t.cur, t.scanned) /\ Exact(t.cur)
    <3>1. SUFFICES ASSUME NEW j \in 0..(Whole - 1), NEW r \in RowsOf(BatchAt(j)),
                          r.lsn <= s.cur.wm
                   PROVE  r.event \in s.cur.events
      BY DEF HasPrefix, Serving
    <3>2. r.lsn \in Nat
      BY <1>1, PrefixRowFacts DEF RowType
    <3>3. 2 * j < s.scanned
      BY <1>3, <1>12, <3>1, <3>2
    <3>4. QED
      BY <3>1, <3>3 DEF Serving, HasPrefix
  <2>3. ASSUME NEW j \in 0..(Whole - 1), NEW r \in RowsOf(BatchAt(j)), r.lsn > t.cur.wm
        PROVE  r \in t.mem /\ r.lsn <= t.tail
    <3>1. r.lsn \in Nat /\ r.lsn < NextAt(Whole) /\ NextAt(Whole) \in Nat
          /\ NextAt(Whole) <= w.next
      BY <1>1, <1>2, <1>4, <1>6, PrefixRowFacts DEF RowType, AtTheEnd
    <3>2. r.lsn <= t.tail
      BY <1>3, <1>9, <3>1
    <3>3. r \in t.mem
      BY <1>12, <2>3 DEF Serving
    <3>4. QED
      BY <3>2, <3>3
  <2>4. ASSUME tears = 0 PROVE t.mem \subseteq PrefixRows
    <3>1. PICK i \in 0..Whole : s.scanned = 2 * i
      BY <1>10, <2>4
    <3>2. ParsedRows(s.scanned) \subseteq PrefixRows
      BY <1>1, <1>2, <3>1, RowsFromBoundary DEF PrefixRows
    <3>3. QED
      BY <1>7, <2>4, <3>2 DEF Serving
  <2>5. QED
    BY <2>1, <2>2, <2>3, <2>4 DEF Serving
<1>14. QED
  BY <1>5, <1>8, <1>13 DEF Knows

\* The manifest that a refresh goes on with has the whole prefix: the one on disk, or
\* while none was saved that of the process, whose watermark is below its next LSN.
LEMMA FoundKnows ==
  ASSUME Good, NEW s \in ProcType, Serving(s)
  PROVE  Found(s.cur) \in DiskType /\ HasPrefix(Found(s.cur), 2 * Whole) /\ Exact(Found(s.cur))
<1>1. PICK d \in DiskType : d = s.cur
  BY DEF ProcType
<1>2. /\ file \in Seq(CellType) /\ Chained /\ HasPrefix(d, s.scanned) /\ Exact(d)
      /\ disk \in DiskType /\ HasPrefix(disk, 2 * Whole) /\ Exact(disk)
  BY <1>1 DEF Good, Shape, FilesGood, Serving
<1>3. Whole \in Nat /\ s.scanned \in Nat /\ s.next \in Nat /\ d.wm \in Nat
  BY <1>2, WholeFacts DEF ProcType, DiskType
<1>4. HasPrefix(d, 2 * Whole)
  <2>1. SUFFICES ASSUME NEW j \in 0..(Whole - 1), NEW r \in RowsOf(BatchAt(j)), r.lsn <= d.wm
                 PROVE  r.event \in d.events
    BY DEF HasPrefix
  <2>2. 2 * j < s.scanned
    <3>1. CASE s.scanned >= 2 * Whole
      BY <1>3, <3>1
    <3>2. CASE ~(s.scanned >= 2 * Whole)
      <4>1. PICK i \in 0..Whole : s.scanned = 2 * i /\ s.next = NextAt(i) /\ d.wm < s.next
        BY <1>1, <3>2 DEF Serving
      <4>2. SUFFICES ASSUME j >= i PROVE FALSE
        BY <1>3, <4>1
      <4>3. BatchAt(j).first = NextAt(j) /\ BatchAt(j) \in BatchType
        BY <1>2, WholeFacts DEF Chained
      <4>4. NextAt(i) <= NextAt(j) /\ NextAt(i) \in Nat /\ NextAt(j) \in Nat
        <5>1. j \in 0..Whole /\ NextAt(i) \in Nat /\ NextAt(j) \in Nat
          BY <1>2, <1>3, NextAtOrder
        <5>2. CASE i = j
          BY <5>1, <5>2
        <5>3. CASE i # j
          <6>1. i \in 0..(Whole - 1) /\ i \in 0..(j - 1)
            BY <1>3, <4>1, <4>2, <5>3
          <6>2. NextAt(i) < NextAfter(BatchAt(i)) /\ NextAfter(BatchAt(i)) \in Nat
            BY <1>2, <6>1, NextAtGrows, WholeFacts, RowFacts
          <6>3. NextAfter(BatchAt(i)) <= BatchAt(j).first
            BY <1>2, <6>1 DEF Chained
          <6>4. QED
            BY <4>3, <5>1, <6>2, <6>3
        <5>4. QED
          BY <5>1, <5>2, <5>3
      <4>5. r.lsn >= NextAt(j) /\ r.lsn \in Nat
        BY <4>3, RowFacts DEF RowType
      <4>6. QED
        BY <1>3, <2>1, <4>1, <4>4, <4>5
    <3>3. QED
      BY <3>1, <3>2
  <2>3. QED
    BY <1>2, <2>1, <2>2 DEF HasPrefix
<1>5. QED
  BY <1>1, <1>2, <1>4 DEF Found

\* A refresh under the lock: whether the manifest changed or not, the process
\* then knows all there is to know.
LEMMA RefreshedKnows ==
  ASSUME Good, NEW s \in ProcType, HandleGood(s), Serving(s), Fresh(s),
         s.next <= 1 + 2 * frames, \A r \in s.mem : r.lsn <= 2 * frames
  PROVE  Knows(Refreshed(s)) /\ Refreshed(s).up = s.up
<1>1. PICK w \in ProcType : w = RefreshedWal(s)
  BY WalMoves DEF AtTheEnd
<1>2. /\ AtTheEnd(w)
      /\ \A i \in 0..Whole : s.scanned = 2 * i /\ s.next = NextAt(i) => w.next = NextAt(Whole)
      /\ w.up = s.up /\ w.cur = s.cur /\ w.mem = s.mem /\ w.tail = s.tail
  <2>1. w = [s EXCEPT !.scanned = s.scanned + 2 * Consumed(s.scanned),
                      !.next = NextFrom(s.scanned, s.next)]
    BY <1>1, WalMoves
  <2>2. w.up = s.up /\ w.cur = s.cur /\ w.mem = s.mem /\ w.tail = s.tail
    BY <2>1 DEF ProcType
  <2>3. QED
    BY <1>1, <2>2, WalMoves
<1>3. file \in Seq(CellType) /\ Chained /\ disk \in DiskType
  BY DEF Good, Shape
<1>4. w.next \in Nat /\ w.tail \in Nat /\ s.next \in Nat
  BY DEF ProcType
<1>5. CASE disk.version # s.cur.version \/ disk.wm # s.cur.wm
  <2>0. PICK d \in DiskType : d = Found(s.cur) /\ HasPrefix(d, 2 * Whole) /\ Exact(d)
    BY FoundKnows
  <2>1. PICK v \in ProcType : v = [w EXCEPT !.cur = d]
    BY DEF ProcType
  <2>2. v.up = w.up /\ v.next = w.next /\ v.scanned = w.scanned /\ v.cklen = w.cklen
        /\ v.cklsn = w.cklsn /\ v.cur = d /\ v.tail = w.tail
    BY <2>1 DEF ProcType
  <2>3. AtTheEnd(v)
    BY <1>2, <2>2 DEF AtTheEnd, HandleGood
  <2>4. ASSUME tears = 0 PROVE v.tail < v.next
    <3>1. PICK i \in 0..Whole : s.scanned = 2 * i /\ s.next = NextAt(i) /\ s.tail = s.next - 1
      BY <2>4 DEF Serving
    <3>2. w.next = NextAt(Whole) /\ NextAt(i) <= NextAt(Whole) /\ NextAt(i) \in Nat
      BY <1>2, <1>3, <3>1, NextAtOrder
    <3>3. QED
      BY <1>2, <1>4, <2>2, <3>1, <3>2
  <2>5. Knows(Rebuilt(v)) /\ Rebuilt(v).up = v.up
    BY <2>0, <2>2, <2>3, <2>4, RebuiltKnows
  <2>6. Refreshed(s) = Rebuilt(v)
    BY <1>1, <1>5, <2>0, <2>1 DEF Refreshed
  <2>7. QED
    BY <1>2, <2>2, <2>5, <2>6
<1>6. CASE ~(disk.version # s.cur.version \/ disk.wm # s.cur.wm) /\ TailOf(w) # s.tail
  <2> DEFINE Y == {r \in BroughtRows(s, s.tail) : r.lsn > s.cur.wm}
             t == [w EXCEPT !.mem = w.mem \cup Y, !.tail = Greater(s.tail, TailOf(w))]
  <2>1. Refreshed(s) = t
    BY <1>1, <1>2, <1>6 DEF Refreshed
  <2>2. Y \subseteq RowType
    BY ParsedBounded DEF BroughtRows, HandleGood, Offset, ProcType
  <2>3. Greater(s.tail, TailOf(w)) \in Nat
    BY <1>2, <1>4, <1>6 DEF Greater, TailOf, ProcType
  <2>4. /\ t.up = w.up /\ t.next = w.next /\ t.scanned = w.scanned /\ t.cklen = w.cklen
        /\ t.cklsn = w.cklsn /\ t.cur = w.cur /\ t.mem = w.mem \cup Y
        /\ t.tail = Greater(s.tail, TailOf(w)) /\ t \in ProcType
    BY <2>2, <2>3 DEF ProcType
  <2>5. Knows(t)
    <3>1. Y = {r \in BroughtRows(s, s.tail) : r.lsn > s.cur.wm}
      OBVIOUS
    <3> HIDE DEF t, Y
    <3>2. QED
      BY <1>1, <1>2, <1>6, <2>4, <3>1, BroughtKnows
  <2>6. QED
    BY <1>2, <2>1, <2>4, <2>5
<1>7. CASE ~(disk.version # s.cur.version \/ disk.wm # s.cur.wm) /\ TailOf(w) = s.tail
  <2>1. Refreshed(s) = w
    BY <1>1, <1>2, <1>7 DEF Refreshed
  <2>2. w.mem = s.mem \cup {}
    BY <1>2
  <2>3. Knows(w)
    BY <1>1, <1>2, <1>7, <2>2, BroughtKnows
  <2>4. QED
    BY <1>2, <2>1, <2>3
<1>8. QED
  BY <1>5, <1>6, <1>7

\* A handle that was just opened is good.
LEMMA OpenedGood ==
  ASSUME Good
  PROVE  /\ Opened \in ProcType /\ HandleGood(Opened) /\ Opened.next <= 1 + 2 * frames
         /\ Opened.up = "opened" /\ Opened.tail = 0 /\ Opened.mem = {} /\ Opened.cur = disk
<1>1. /\ ckpt.len \in Nat /\ ckpt.lsn \in Nat /\ ckpt.next \in Nat \ {0} /\ disk \in DiskType
      /\ Offset(ckpt.len, ckpt.next) /\ Checkpoint(ckpt.len, ckpt.lsn)
      /\ ckpt.next <= 1 + 2 * frames /\ ckpt.len <= Len(file)
  BY DEF Good, Shape, FilesGood, Bounded, Offset
<1>2. Greater(1, ckpt.next) = ckpt.next
  BY <1>1 DEF Greater
<1>3. /\ ckpt.len + 2 * Consumed(ckpt.len) \in Nat /\ NextFrom(ckpt.len, ckpt.next) \in Nat \ {0}
      /\ Offset(ckpt.len + 2 * Consumed(ckpt.len), NextFrom(ckpt.len, ckpt.next))
      /\ NextFrom(ckpt.len, ckpt.next) <= 1 + 2 * frames
  BY <1>1, Advance
<1>4. Opened = [Down EXCEPT !.up = "opened",
                            !.next = NextFrom(ckpt.len, ckpt.next),
                            !.scanned = ckpt.len + 2 * Consumed(ckpt.len),
                            !.cklen = ckpt.len, !.cklsn = ckpt.lsn, !.cur = disk]
  BY <1>1, <1>2 DEF Opened
<1>5. /\ Opened \in ProcType /\ Opened.up = "opened" /\ Opened.tail = 0 /\ Opened.mem = {}
      /\ Opened.next = NextFrom(ckpt.len, ckpt.next) /\ Opened.cklen = ckpt.len
      /\ Opened.scanned = ckpt.len + 2 * Consumed(ckpt.len) /\ Opened.cklsn = ckpt.lsn
      /\ Opened.cur = disk
  BY <1>1, <1>3, <1>4 DEF Down, ProcType
<1>6. QED
  BY <1>1, <1>3, <1>5 DEF HandleGood

\* A process that recovered knows all there is to know.
LEMMA RecoveredKnows ==
  ASSUME Good, NEW s \in ProcType, HandleGood(s), s.tail = 0, s.next <= 1 + 2 * frames,
         disk.version = 0 => s.cur = disk
  PROVE  Knows(Recovered(s)) /\ Recovered(s).up = "up"
<1>1. PICK w \in ProcType : w = RefreshedWal(s)
  BY WalMoves DEF AtTheEnd
<1>2. AtTheEnd(w) /\ w.tail = s.tail
  BY <1>1, WalMoves DEF ProcType
<1>3. /\ disk \in DiskType /\ HasPrefix(disk, 2 * Whole) /\ Exact(disk)
      /\ w.next \in Nat \ {0} /\ Found(s.cur) = disk
  BY DEF Good, Shape, FilesGood, ProcType, Found
<1>4. PICK v \in ProcType : v = [w EXCEPT !.cur = disk]
  BY <1>3 DEF ProcType
<1>5. v.next = w.next /\ v.scanned = w.scanned /\ v.cklen = w.cklen
      /\ v.cklsn = w.cklsn /\ v.cur = disk /\ v.tail = 0
  BY <1>2, <1>4 DEF ProcType
<1>6. AtTheEnd(v) /\ v.tail < v.next
  BY <1>2, <1>3, <1>5 DEF AtTheEnd, HandleGood
<1>7. PICK u \in ProcType : u = Rebuilt(v) /\ Knows(u)
  BY <1>3, <1>5, <1>6, RebuiltKnows DEF Knows, AtTheEnd
<1>8. Recovered(s) = [u EXCEPT !.up = "up"]
  BY <1>1, <1>3, <1>4, <1>7 DEF Recovered
<1>9. PICK t \in ProcType : t = [u EXCEPT !.up = "up"]
  BY DEF ProcType
<1>10. t.up = "up" /\ t.next = u.next /\ t.scanned = u.scanned /\ t.cklen = u.cklen
       /\ t.cklsn = u.cklsn /\ t.cur = u.cur /\ t.tail = u.tail /\ t.mem = u.mem
  BY <1>9 DEF ProcType
<1>11. Knows(t)
  BY <1>7, <1>10 DEF Knows, AtTheEnd, HandleGood, Serving, Fresh
<1>12. QED
  BY <1>8, <1>9, <1>10, <1>11

-----------------------------------------------------------------------------
(* Steps that append to the file.                                          *)

\* What a step that appends leaves of the prefix, and where it may add to it.
Kept ==
  /\ Whole \in Nat /\ Whole' \in Nat /\ Whole <= Whole'
  /\ \A j \in 0..(Whole - 1) : BatchAt(j)' = BatchAt(j)
  /\ \A j \in Whole..(Whole' - 1) : \A r \in RowsOf(BatchAt(j)') :
       r.lsn \in Nat /\ r.lsn >= NextAt(Whole)
  /\ NextAt(Whole) \in Nat /\ NextAt(Whole)' \in Nat /\ NextAt(Whole) <= NextAt(Whole)'
  /\ Len(file) \in Nat /\ Len(file)' \in Nat /\ Len(file) <= Len(file)'
  /\ tears \in Nat /\ tears' \in Nat
  /\ tears > 0 => tears' > 0
  /\ tears' > 0 => Whole' = Whole
  /\ tears' = 0 => Len(file) = 2 * Whole /\ Len(file)' = 2 * Whole'

\* The boundaries of the prefix keep their LSNs.
LEMMA KeptNext ==
  ASSUME Kept
  PROVE  /\ \A i \in 0..Whole : NextAt(i)' = NextAt(i)
         /\ Whole' = Whole => NextAt(Whole)' = NextAt(Whole)
<1>1. ASSUME NEW i \in 0..Whole PROVE NextAt(i)' = NextAt(i)
  <2>1. CASE i = 0
    BY <2>1 DEF NextAt
  <2>2. CASE i # 0
    <3>1. i - 1 \in 0..(Whole - 1)
      BY <2>2 DEF Kept
    <3>2. BatchAt(i - 1)' = BatchAt(i - 1)
      BY <3>1 DEF Kept
    <3>3. QED
      BY <3>2 DEF NextAt
  <2>3. QED
    BY <2>1, <2>2
<1>2. ASSUME Whole' = Whole PROVE NextAt(Whole)' = NextAt(Whole)
  <2>1. PICK w \in 0..Whole : w = Whole
    BY DEF Kept
  <2>2. NextAt(w)' = NextAt(w)
    BY <1>1
  <2>3. NextAt(Whole)' = NextAt(w)'
    BY <1>2, <2>1
  <2>4. QED
    BY <2>1, <2>2, <2>3
<1>3. QED
  BY <1>1, <1>2

\* An offset stays an offset.
LEMMA OffsetStays ==
  ASSUME Kept, NEW len \in Nat, NEW next \in Nat, Offset(len, next)
  PROVE  Offset(len, next)'
<1>1. len <= Len(file)'
  BY DEF Kept, Offset
<1>2. CASE \E i \in 0..Whole : len = 2 * i /\ next = NextAt(i)
  <2>1. PICK i \in 0..Whole : len = 2 * i /\ next = NextAt(i)
    BY <1>2
  <2>2. next = NextAt(i)'
    BY <2>1, KeptNext
  <2>3. i \in 0..Whole'
    <3>1. Whole \in Nat /\ Whole' \in Nat /\ Whole <= Whole'
      BY DEF Kept
    <3>2. QED
      BY <3>1
  <2>4. QED
    BY <1>1, <2>1, <2>2, <2>3 DEF Offset
<1>3. CASE tears > 0 /\ len >= 2 * Whole /\ next >= NextAt(Whole)
  <2>1. tears' > 0 /\ len >= 2 * Whole' /\ next >= NextAt(Whole)'
    BY <1>3, KeptNext DEF Kept
  <2>2. QED
    BY <1>1, <2>1 DEF Offset
<1>4. QED
  BY <1>2, <1>3 DEF Offset

\* What joins the prefix is after every offset that was in the file.
LEMMA NewIsAfter ==
  ASSUME Kept, NEW j \in 0..(Whole' - 1), ~(j \in 0..(Whole - 1))
  PROVE  /\ tears = 0 /\ tears' = 0 /\ 2 * j >= Len(file)
         /\ \A r \in RowsOf(BatchAt(j))' : r.lsn \in Nat /\ r.lsn >= NextAt(Whole)
<1>0. /\ Whole \in Nat /\ Whole' \in Nat /\ Len(file) \in Nat /\ tears \in Nat /\ tears' \in Nat
      /\ tears > 0 => tears' > 0
      /\ tears' > 0 => Whole' = Whole
      /\ tears' = 0 => Len(file) = 2 * Whole
  BY DEF Kept
<1>1. j \in Whole..(Whole' - 1) /\ Whole' # Whole
  <2>1. \A m, n \in Nat : \A k \in 0..(n - 1) :
          ~(k \in 0..(m - 1)) => k \in m..(n - 1) /\ n # m
    OBVIOUS
  <2>2. QED
    BY <1>0, <2>1
<1>2. tears = 0 /\ tears' = 0 /\ 2 * j >= Len(file)
  BY <1>0, <1>1
<1>3. QED
  BY <1>1, <1>2 DEF Kept

\* A checkpoint stays one.
LEMMA CheckpointStays ==
  ASSUME Kept, NEW len \in Nat, NEW lsn \in Nat, Checkpoint(len, lsn)
  PROVE  Checkpoint(len, lsn)'
<1>1. PICK next \in Nat : Offset(len, next)
  BY DEF Checkpoint
<1>2. Offset(len, next)'
  BY <1>1, OffsetStays
<1>3. ASSUME NEW j \in 0..(Whole' - 1), 2 * j < len, NEW r \in RowsOf(BatchAt(j))'
      PROVE  r.lsn <= lsn
  <2>1. len <= Len(file)
    BY <1>1 DEF Offset
  <2>2. j \in 0..(Whole - 1)
    <3>1. SUFFICES ASSUME ~(j \in 0..(Whole - 1)) PROVE FALSE
      OBVIOUS
    <3>2. 2 * j >= Len(file) /\ Len(file) \in Nat /\ Whole' \in Nat
      BY <3>1, NewIsAfter DEF Kept
    <3>3. QED
      BY <1>3, <2>1, <3>2
  <2>3. BatchAt(j)' = BatchAt(j)
    BY <2>2 DEF Kept
  <2>4. r \in RowsOf(BatchAt(j))
    BY <1>3, <2>3
  <2>5. QED
    BY <1>3, <2>2, <2>4 DEF Checkpoint
<1>4. QED
  BY <1>2, <1>3 DEF Checkpoint

\* A manifest keeps what it has of the prefix: what joins is above its watermark.
LEMMA PrefixStays ==
  ASSUME Kept, NEW d \in DiskType, Exact(d), NEW len \in Nat, NEW len2 \in Nat,
         HasPrefix(d, len), len2 <= len \/ len >= 2 * Whole
  PROVE  HasPrefix(d, len2)'
<1>1. SUFFICES ASSUME NEW j \in 0..(Whole' - 1), 2 * j < len2,
                      NEW r \in RowsOf(BatchAt(j))', r.lsn <= d.wm
               PROVE  r.event \in d.events
  BY DEF HasPrefix
<1>2. CASE j \in 0..(Whole - 1)
  <2>1. r \in RowsOf(BatchAt(j))
    <3>1. BatchAt(j)' = BatchAt(j)
      BY <1>2 DEF Kept
    <3>2. QED
      BY <1>1, <3>1
  <2>2. 2 * j < len
    BY <1>1, <1>2 DEF Kept
  <2>3. QED
    BY <1>1, <1>2, <2>1, <2>2 DEF HasPrefix
<1>3. CASE ~(j \in 0..(Whole - 1))
  <2>1. tears = 0 /\ r.lsn \in Nat /\ r.lsn >= NextAt(Whole)
    BY <1>1, <1>3, NewIsAfter
  <2>2. NextAt(Whole) \in Nat
    BY DEF Kept
  <2>3. d.wm < NextAt(Whole) /\ d.wm \in Nat
    BY <2>1 DEF Exact, DiskType
  <2>4. QED
    BY <1>1, <2>1, <2>2, <2>3
<1>4. QED
  BY <1>2, <1>3

\* The rows of the prefix stay in it.
LEMMA RowsStay ==
  ASSUME Kept
  PROVE  PrefixRows \subseteq PrefixRows'
<1>1. SUFFICES ASSUME NEW j \in 0..(Whole - 1), NEW r \in RowsOf(BatchAt(j))
               PROVE  r \in PrefixRows'
  BY DEF PrefixRows
<1>2. BatchAt(j)' = BatchAt(j) /\ j \in 0..(Whole' - 1)
  <2>1. Whole \in Nat /\ Whole' \in Nat /\ Whole <= Whole'
    BY DEF Kept
  <2>2. j \in 0..(Whole' - 1)
    <3>1. \A m, n \in Nat : m <= n => \A k \in 0..(m - 1) : k \in 0..(n - 1)
      OBVIOUS
    <3>2. QED
      BY <2>1, <3>1
  <2>3. QED
    BY <2>2 DEF Kept
<1>3. r \in RowsOf(BatchAt(j))'
  BY <1>2
<1>4. QED
  BY <1>2, <1>3 DEF PrefixRows

\* A manifest that is exact stays exact.
LEMMA ExactStays ==
  ASSUME Kept, NEW d \in DiskType, Exact(d)
  PROVE  Exact(d)'
<1>1. SUFFICES ASSUME tears' = 0
               PROVE  /\ d.wm < NextAt(Whole)'
                      /\ \A e \in d.events : \E r \in PrefixRows' : r.event = e /\ r.lsn <= d.wm
  BY DEF Exact
<1>2. tears = 0 /\ NextAt(Whole) \in Nat /\ NextAt(Whole)' \in Nat /\ NextAt(Whole) <= NextAt(Whole)'
  BY <1>1 DEF Kept
<1>3. d.wm < NextAt(Whole) /\ d.wm \in Nat
      /\ \A e \in d.events : \E r \in PrefixRows : r.event = e /\ r.lsn <= d.wm
  BY <1>2 DEF Exact, DiskType
<1>4. d.wm < NextAt(Whole)'
  BY <1>2, <1>3
<1>5. QED
  BY <1>3, <1>4, RowsStay

\* A process that a step leaves alone still knows what it knew.
LEMMA ServingStays ==
  ASSUME Kept, NEW s \in ProcType, HandleGood(s), Serving(s)
  PROVE  Serving(s)'
<1>1. /\ s.scanned \in Nat /\ s.next \in Nat /\ s.cur \in DiskType /\ s.scanned <= Len(file)
  BY DEF ProcType, HandleGood, Offset
<1>2. \/ \E i \in 0..Whole' : /\ s.scanned = 2 * i /\ s.next = NextAt(i)'
                              /\ s.cur.wm < s.next /\ s.tail = s.next - 1
      \/ tears' > 0 /\ s.scanned >= 2 * Whole' /\ s.next >= NextAt(Whole)'
  <2>1. ASSUME NEW i \in 0..Whole, s.next = NextAt(i)
        PROVE  i \in 0..Whole' /\ s.next = NextAt(i)'
    <3>1. Whole \in Nat /\ Whole' \in Nat /\ Whole <= Whole'
      BY DEF Kept
    <3>2. i \in 0..Whole'
      BY <3>1
    <3>3. QED
      BY <2>1, <3>2, KeptNext
  <2>2. CASE \E i \in 0..Whole : /\ s.scanned = 2 * i /\ s.next = NextAt(i)
                                 /\ s.cur.wm < s.next /\ s.tail = s.next - 1
    <3>1. PICK i \in 0..Whole : /\ s.scanned = 2 * i /\ s.next = NextAt(i)
                                /\ s.cur.wm < s.next /\ s.tail = s.next - 1
      BY <2>2
    <3>2. i \in 0..Whole' /\ s.next = NextAt(i)'
      BY <2>1, <3>1
    <3>3. QED
      BY <3>1, <3>2
  <2>3. CASE tears > 0 /\ s.scanned >= 2 * Whole /\ s.next >= NextAt(Whole)
    <3>1. tears' > 0 /\ Whole' = Whole
      BY <2>3 DEF Kept
    <3>2. QED
      BY <2>3, <3>1, KeptNext
  <2>4. QED
    BY <2>2, <2>3 DEF Serving
<1>3. HasPrefix(s.cur, s.scanned)' /\ Exact(s.cur)'
  <2>1. HasPrefix(s.cur, s.scanned) /\ Exact(s.cur)
    BY DEF Serving
  <2>2. QED
    BY <1>1, <2>1, PrefixStays, ExactStays
<1>4. ASSUME NEW j \in 0..(Whole' - 1), 2 * j < s.scanned, NEW r \in RowsOf(BatchAt(j))',
             r.lsn > s.cur.wm
      PROVE  r \in s.mem /\ r.lsn <= s.tail
  <2>1. j \in 0..(Whole - 1)
    <3>1. SUFFICES ASSUME ~(j \in 0..(Whole - 1)) PROVE FALSE
      OBVIOUS
    <3>2. 2 * j >= Len(file)
      BY <3>1, NewIsAfter
    <3>3. Len(file) \in Nat /\ Whole' \in Nat
      BY DEF Kept
    <3>4. QED
      BY <1>1, <1>4, <3>2, <3>3
  <2>2. BatchAt(j)' = BatchAt(j)
    BY <2>1 DEF Kept
  <2>3. r \in RowsOf(BatchAt(j))
    BY <1>4, <2>2
  <2>4. QED
    BY <1>4, <2>1, <2>3 DEF Serving
<1>5. tears' = 0 => s.mem \subseteq PrefixRows'
  <2>1. tears' = 0 => tears = 0
    BY DEF Kept
  <2>2. QED
    BY <2>1, RowsStay DEF Serving
<1>6. QED
  BY <1>2, <1>3, <1>4, <1>5 DEF Serving

\* ... with its MemTable above the watermark, and its handle.
LEMMA HandleStays ==
  ASSUME Kept, NEW s \in ProcType, HandleGood(s)
  PROVE  HandleGood(s)' /\ (Fresh(s) => Fresh(s)')
<1>1. HandleGood(s)'
  <2>1. s.scanned \in Nat /\ s.next \in Nat /\ s.cklen \in Nat /\ s.cklsn \in Nat
    BY DEF ProcType
  <2>2. QED
    BY <2>1, OffsetStays, CheckpointStays DEF HandleGood
<1>2. ASSUME Fresh(s) PROVE Fresh(s)'
  <2>1. ASSUME NEW r \in s.mem, ~(r.lsn > s.cur.wm)
        PROVE  tears' > 0 /\ r.lsn >= NextAt(Whole)'
    <3>1. tears > 0 /\ r.lsn >= NextAt(Whole)
      BY <1>2, <2>1 DEF Fresh
    <3>2. tears' > 0 /\ Whole' = Whole
      BY <3>1 DEF Kept
    <3>3. QED
      BY <3>1, <3>2, KeptNext
  <2>2. QED
    BY <2>1 DEF Fresh
<1>3. QED
  BY <1>1, <1>2

\* A longer file has the frames that the shorter one has.
LEMMA FramesStay ==
  ASSUME NEW f \in Seq(CellType), NEW g \in Seq(CellType), Len(f) <= Len(g),
         \A i \in 1..Len(f) : g[i] = f[i],
         NEW k \in Nat, \A j \in 0..(k - 1) : FrameIn(f, 2 * j)
  PROVE  /\ \A j \in 0..(k - 1) : FrameIn(g, 2 * j)
         /\ ~FrameIn(g, 2 * k) => ConsumedIn(g, 0) = k
<1>1. Len(f) \in Nat /\ Len(g) \in Nat
  BY LenProperties
<1>2. ASSUME NEW j \in 0..(k - 1) PROVE FrameIn(g, 2 * j)
  <2>1. FrameIn(f, 2 * j) /\ j \in Nat
    OBVIOUS
  <2>2. 2 * j + 1 \in 1..Len(f) /\ 2 * j + 2 \in 1..Len(f)
    BY <1>1, <2>1 DEF FrameIn
  <2>3. QED
    BY <1>1, <2>1, <2>2 DEF FrameIn
<1>3. \A j \in Nat : 0 + 2 * j = 2 * j
  OBVIOUS
<1>4. ASSUME ~FrameIn(g, 2 * k) PROVE ConsumedIn(g, 0) = k
  <2>1. \A j \in 0..(k - 1) : FrameIn(g, 0 + 2 * j)
    BY <1>2, <1>3
  <2>2. ~FrameIn(g, 0 + 2 * k)
    BY <1>3, <1>4
  <2>3. QED
    BY <2>1, <2>2, ConsumedIs
<1>5. QED
  BY <1>2, <1>4

\* An append of a whole frame, or of the half that a crash leaves.
Appends(b) ==
  /\ b \in BatchType /\ b.first >= NextAt(Whole) /\ (tears = 0 => b.first = NextAt(Whole))
  /\ b.event = made + 1 /\ made' = made + b.n
  /\ frames' = frames + 1 /\ NextAfter(b) <= 1 + 2 * frames'
  /\ \/ file' = file \o Frame(b) /\ tears' = tears
     \/ file' = Append(file, Cell("head", b)) /\ tears' = tears + 1

\* The file after it: the old cells, then the new.
LEMMA NewCells ==
  ASSUME Good, NEW b, Appends(b)
  PROVE  /\ file' \in Seq(CellType) /\ Len(file) \in Nat /\ Len(file') \in Nat
         /\ \A i \in 1..Len(file) : file'[i] = file[i]
         /\ file'[Len(file) + 1] = Cell("head", b)
         /\ \/ tears' = tears + 1 /\ Len(file') = Len(file) + 1
            \/ tears' = tears /\ Len(file') = Len(file) + 2
               /\ file'[Len(file) + 2] = Cell("tail", b)
<1>1. file \in Seq(CellType) /\ Len(file) \in Nat
  BY LenProperties DEF Good, Shape
<1>2. Cell("head", b) \in CellType /\ Cell("tail", b) \in CellType
  BY DEF Cell, CellType, Appends
<1>3. CASE file' = file \o Frame(b) /\ tears' = tears
  <2>1. /\ Frame(b) \in Seq(CellType) /\ Len(Frame(b)) = 2
        /\ Frame(b)[1] = Cell("head", b) /\ Frame(b)[2] = Cell("tail", b)
    BY <1>2 DEF Frame
  <2>2. /\ file' \in Seq(CellType) /\ Len(file') = Len(file) + 2
        /\ \A i \in 1..Len(file') : file'[i] = IF i <= Len(file) THEN file[i]
                                               ELSE Frame(b)[i - Len(file)]
    <3>1. PICK c \in Seq(CellType) : c = Frame(b)
      BY <2>1
    <3>2. /\ file \o c \in Seq(CellType) /\ Len(file \o c) = Len(file) + Len(c)
          /\ \A i \in 1..(Len(file) + Len(c)) :
               (file \o c)[i] = IF i <= Len(file) THEN file[i] ELSE c[i - Len(file)]
      BY <1>1, ConcatProperties
    <3>3. QED
      BY <1>3, <2>1, <3>1, <3>2
  <2>3. file'[Len(file) + 1] = Frame(b)[1] /\ file'[Len(file) + 2] = Frame(b)[2]
    <3>1. \A n \in Nat : /\ n + 1 \in 1..(n + 2) /\ n + 2 \in 1..(n + 2) /\ ~(n + 1 <= n)
                         /\ ~(n + 2 <= n) /\ (n + 1) - n = 1 /\ (n + 2) - n = 2
      OBVIOUS
    <3>2. QED
      BY <1>1, <2>2, <3>1
  <2>4. \A i \in 1..Len(file) : file'[i] = file[i]
    BY <1>1, <2>2
  <2>5. QED
    BY <1>1, <1>3, <2>1, <2>2, <2>3, <2>4
<1>4. CASE file' = Append(file, Cell("head", b)) /\ tears' = tears + 1
  <2>1. /\ file' \in Seq(CellType) /\ Len(file') = Len(file) + 1
        /\ \A i \in 1..Len(file) : file'[i] = file[i]
        /\ file'[Len(file) + 1] = Cell("head", b)
    BY <1>1, <1>2, <1>4, AppendProperties
  <2>2. QED
    BY <1>1, <1>4, <2>1
<1>5. QED
  BY <1>3, <1>4 DEF Appends

\* A whole frame on an untorn file joins the prefix; with a tear nothing does.
LEMMA PrefixGrows ==
  ASSUME Good, NEW b, Appends(b)
  PROVE  /\ Whole \in Nat /\ Whole' \in Nat
         /\ tears \in Nat /\ tears' \in Nat /\ (tears > 0 => tears' > 0)
         /\ \A j \in 0..(Whole - 1) : BatchAt(j)' = BatchAt(j)
         /\ tears' = 0 => /\ tears = 0 /\ Whole' = Whole + 1
                          /\ Len(file) = 2 * Whole /\ Len(file)' = 2 * Whole'
                          /\ \A j : j = Whole => BatchAt(j)' = b
         /\ tears' > 0 => /\ Whole' = Whole
                          /\ Len(file') > 2 * Whole
                          /\ Len(file') > 2 * Whole + 1 => file'[2 * Whole + 2].half = "head"
<1>1. /\ file \in Seq(CellType) /\ tears \in Nat /\ Torn
  BY DEF Good, Shape
<1>2. /\ Whole \in Nat /\ 2 * Whole <= Len(file) /\ Whole \in 0..Whole
      /\ \A j \in 0..(Whole - 1) : FrameAt(2 * j)
  BY <1>1, WholeFacts
<1>3. /\ file' \in Seq(CellType) /\ Len(file) \in Nat /\ Len(file') \in Nat
      /\ \A i \in 1..Len(file) : file'[i] = file[i]
      /\ file'[Len(file) + 1] = Cell("head", b)
      /\ \/ tears' = tears + 1 /\ Len(file') = Len(file) + 1
         \/ tears' = tears /\ Len(file') = Len(file) + 2
            /\ file'[Len(file) + 2] = Cell("tail", b)
  BY NewCells
<1>4. tears' \in Nat /\ Len(file) <= Len(file') /\ (tears > 0 => tears' > 0)
  BY <1>1, <1>3
<1>5. Whole' = ConsumedIn(file', 0)
  BY DEF Whole, Consumed, ConsumedIn, FrameAt, FrameIn
<1>6. /\ \A j \in 0..(Whole - 1) : FrameIn(file', 2 * j)
      /\ ~FrameIn(file', 2 * Whole) => Whole' = Whole
  <2>1. \A j \in 0..(Whole - 1) : FrameIn(file, 2 * j)
    BY <1>2 DEF FrameAt, FrameIn
  <2>2. QED
    BY <1>1, <1>2, <1>3, <1>4, <1>5, <2>1, FramesStay
<1>7. ASSUME NEW j \in 0..(Whole - 1) PROVE BatchAt(j)' = BatchAt(j)
  <2>1. 2 * j + 1 \in 1..Len(file)
    BY <1>2, <1>3
  <2>2. file'[2 * j + 1] = file[2 * j + 1]
    BY <1>3, <2>1
  <2>3. QED
    BY <2>2 DEF BatchAt
<1>8. ASSUME tears' = 0
      PROVE  /\ tears = 0 /\ Whole' = Whole + 1
             /\ Len(file) = 2 * Whole /\ Len(file)' = 2 * Whole'
             /\ \A j : j = Whole => BatchAt(j)' = b
  <2>1. tears = 0 /\ Len(file) = 2 * Whole /\ Len(file') = 2 * Whole + 2
    BY <1>1, <1>3, <1>8 DEF Torn
  <2>2. file'[2 * Whole + 1] = Cell("head", b) /\ file'[2 * Whole + 2] = Cell("tail", b)
    BY <1>1, <1>3, <1>8, <2>1
  <2>3. FrameIn(file', 2 * Whole)
    BY <1>2, <2>1, <2>2 DEF FrameIn, Cell
  <2>4. \A j \in 0..((Whole + 1) - 1) : FrameIn(file', 0 + 2 * j)
    <3>1. \A j \in 0..((Whole + 1) - 1) : 0 + 2 * j = 2 * j
                                          /\ (j \in 0..(Whole - 1) \/ j = Whole)
      BY <1>2
    <3>2. QED
      BY <1>6, <2>3, <3>1
  <2>5. ~FrameIn(file', 0 + 2 * (Whole + 1))
    BY <1>2, <2>1 DEF FrameIn
  <2>6. Whole' = Whole + 1
    <3>1. PICK k \in Nat : k = Whole + 1
      BY <1>2
    <3>2. PICK g \in Seq(CellType) : g = file'
      BY <1>3
    <3>3. (\A j \in 0..(k - 1) : FrameIn(g, 0 + 2 * j)) /\ ~FrameIn(g, 0 + 2 * k)
      BY <2>4, <2>5, <3>1, <3>2
    <3>4. ConsumedIn(g, 0) = k
      BY <3>3, ConsumedIs
    <3>5. QED
      BY <1>5, <3>1, <3>2, <3>4
  <2>7. \A j : j = Whole => BatchAt(j)' = b
    BY <2>2 DEF BatchAt, Cell
  <2>8. QED
    BY <1>2, <2>1, <2>6, <2>7
<1>9. ASSUME tears' > 0
      PROVE  /\ Whole' = Whole /\ Len(file') > 2 * Whole
             /\ Len(file') > 2 * Whole + 1 => file'[2 * Whole + 2].half = "head"
  <2>1. CASE tears = 0
    <3>1. Len(file) = 2 * Whole /\ Len(file') = 2 * Whole + 1
      BY <1>1, <1>3, <1>9, <2>1 DEF Torn
    <3>2. ~FrameIn(file', 2 * Whole)
      BY <1>2, <3>1 DEF FrameIn
    <3>3. QED
      BY <1>2, <1>6, <3>1, <3>2
  <2>2. CASE tears > 0
    <3>1. Len(file) > 2 * Whole
          /\ (Len(file) > 2 * Whole + 1 => file[2 * Whole + 2].half = "head")
      BY <1>1, <2>2 DEF Torn
    <3>2. CASE Len(file) > 2 * Whole + 1
      <4>1. 2 * Whole + 2 \in 1..Len(file)
        BY <1>2, <1>3, <3>2
      <4>2. file'[2 * Whole + 2].half = "head"
        BY <1>3, <3>1, <3>2, <4>1
      <4>3. ~FrameIn(file', 2 * Whole)
        BY <4>2 DEF FrameIn, Cell
      <4>4. QED
        BY <1>2, <1>3, <1>4, <1>6, <3>1, <4>2, <4>3
    <3>3. CASE ~(Len(file) > 2 * Whole + 1)
      <4>1. Len(file) + 1 = 2 * Whole + 2
        BY <1>2, <1>3, <3>1, <3>3
      <4>2. file'[2 * Whole + 2].half = "head"
        BY <1>3, <4>1 DEF Cell
      <4>3. ~FrameIn(file', 2 * Whole)
        BY <4>2 DEF FrameIn, Cell
      <4>4. QED
        BY <1>2, <1>3, <1>4, <1>6, <3>1, <4>2, <4>3
    <3>4. QED
      BY <3>2, <3>3
  <2>3. QED
    BY <1>1, <2>1, <2>2
<1>10. QED
  BY <1>1, <1>2, <1>4, <1>7, <1>8, <1>9

\* An append keeps the chain, the tear and the bounds of the file.
LEMMA FileGrows ==
  ASSUME Good, NEW b, Appends(b)
  PROVE  /\ Kept /\ file' \in Seq(CellType) /\ Chained' /\ Torn'
         /\ \A i \in 1..Len(file') : NextAfter(file'[i].batch) <= 1 + 2 * frames'
<1>1. /\ file \in Seq(CellType) /\ Chained /\ Torn /\ Bounded /\ made \in Nat /\ frames \in Nat
  BY DEF Good, Shape
<1>2. /\ b \in BatchType /\ b.first \in Nat /\ b.event = made + 1 /\ b.n \in Nat /\ made' = made + b.n
      /\ b.first >= NextAt(Whole) /\ (tears = 0 => b.first = NextAt(Whole))
      /\ frames' = frames + 1 /\ NextAfter(b) <= 1 + 2 * frames'
  BY DEF Appends, BatchType
<1>3. /\ Whole \in Nat /\ Whole' \in Nat
      /\ tears \in Nat /\ tears' \in Nat /\ (tears > 0 => tears' > 0)
      /\ \A j \in 0..(Whole - 1) : BatchAt(j)' = BatchAt(j)
      /\ tears' = 0 => /\ tears = 0 /\ Whole' = Whole + 1
                       /\ Len(file) = 2 * Whole /\ Len(file)' = 2 * Whole'
                       /\ \A j : j = Whole => BatchAt(j)' = b
      /\ tears' > 0 => /\ Whole' = Whole
                       /\ Len(file') > 2 * Whole
                       /\ Len(file') > 2 * Whole + 1 => file'[2 * Whole + 2].half = "head"
  BY PrefixGrows
<1>4. /\ file' \in Seq(CellType) /\ Len(file) \in Nat /\ Len(file') \in Nat
      /\ \A i \in 1..Len(file) : file'[i] = file[i]
      /\ file'[Len(file) + 1] = Cell("head", b)
      /\ \/ tears' = tears + 1 /\ Len(file') = Len(file) + 1
         \/ tears' = tears /\ Len(file') = Len(file) + 2
            /\ file'[Len(file) + 2] = Cell("tail", b)
  BY NewCells
<1>5. NextAt(Whole) \in Nat /\ 2 * Whole <= Len(file) /\ Whole \in 0..Whole
  BY <1>1, <1>3, WholeFacts, NextAtGrows
<1>6. /\ NextAfter(b) \in Nat /\ b.first < NextAfter(b)
      /\ \A r \in RowsOf(b) : r.lsn \in Nat /\ b.first <= r.lsn
  BY <1>2, RowFacts DEF RowType
<1>7. NextAt(Whole)' \in Nat /\ NextAt(Whole) <= NextAt(Whole)'
      /\ (Whole' = Whole => NextAt(Whole)' = NextAt(Whole))
  <2>1. CASE tears' = 0
    <3>1. NextAt(Whole)' = NextAfter(b)
      <4>1. PICK w \in Nat : w = Whole
        BY <1>3
      <4>2. Whole' = w + 1 /\ Whole' # 0 /\ Whole' - 1 = w /\ BatchAt(w)' = b
        BY <1>3, <2>1, <4>1
      <4>3. NextAt(w + 1)' = NextAfter(BatchAt(w)')
        <5>1. w + 1 # 0 /\ (w + 1) - 1 = w
          BY <4>1
        <5>2. QED
          BY <5>1 DEF NextAt
      <4>4. NextAt(Whole)' = NextAt(w + 1)'
        BY <4>2
      <4>5. QED
        BY <4>2, <4>3, <4>4
    <3>2. QED
      BY <1>2, <1>3, <1>5, <1>6, <2>1, <3>1
  <2>2. CASE tears' > 0
    <3>1. PICK w \in Nat : w = Whole
      BY <1>3
    <3>2. NextAt(w)' = NextAt(w)
      <4>1. CASE w = 0
        BY <4>1 DEF NextAt
      <4>2. CASE w # 0
        <5>1. BatchAt(w - 1)' = BatchAt(w - 1)
          BY <1>3, <3>1, <4>2
        <5>2. QED
          BY <5>1, <4>2 DEF NextAt
      <4>3. QED
        BY <4>1, <4>2
    <3>3. NextAt(Whole)' = NextAt(w)'
      BY <1>3, <2>2, <3>1
    <3>4. QED
      BY <1>5, <3>1, <3>2, <3>3
  <2>3. QED
    BY <1>3, <2>1, <2>2
<1>8. Kept
  <2>1. ASSUME NEW j \in Whole..(Whole' - 1), NEW r \in RowsOf(BatchAt(j)')
        PROVE  r.lsn \in Nat /\ r.lsn >= NextAt(Whole)
    <3>1. j = Whole /\ tears' = 0
      <4>1. \A m, n \in Nat : \A k \in m..(n - 1) : n # m /\ (n = m + 1 => k = m)
        OBVIOUS
      <4>2. Whole' # Whole /\ (Whole' = Whole + 1 => j = Whole)
        BY <1>3, <4>1
      <4>3. tears' = 0
        BY <1>3, <4>2
      <4>4. QED
        BY <1>3, <4>2, <4>3
    <3>2. BatchAt(j)' = b
      BY <1>3, <3>1
    <3>3. r \in RowsOf(b)
      BY <3>2
    <3>4. QED
      BY <1>2, <1>5, <1>6, <3>3
  <2>2. Whole <= Whole' /\ Len(file)' \in Nat /\ Len(file) <= Len(file)'
    <3>1. Whole' = Whole \/ Whole' = Whole + 1
      <4>1. tears' = 0 \/ tears' > 0
        BY <1>3
      <4>2. tears' = 0 => Whole' = Whole + 1
        BY <1>3
      <4>3. tears' > 0 => Whole' = Whole
        BY <1>3
      <4>4. QED
        BY <4>1, <4>2, <4>3
    <3>2. Whole <= Whole'
      BY <1>3, <3>1
    <3>3. Len(file') = Len(file)'
      OBVIOUS
    <3>4. QED
      BY <1>4, <3>2, <3>3
  <2>3. QED
    BY <1>3, <1>4, <1>5, <1>7, <2>1, <2>2 DEF Kept
<1>9. \A i \in 1..Len(file') : /\ NextAfter(file'[i].batch) <= 1 + 2 * frames'
                               /\ i > Len(file) => file'[i].batch = b
  <2>1. SUFFICES ASSUME NEW i \in 1..Len(file')
                 PROVE  /\ NextAfter(file'[i].batch) <= 1 + 2 * frames'
                        /\ i > Len(file) => file'[i].batch = b
    OBVIOUS
  <2>2. CASE i \in 1..Len(file)
    <3>1. file'[i] = file[i] /\ NextAfter(file[i].batch) <= 1 + 2 * frames
      BY <1>1, <1>4, <2>2 DEF Bounded
    <3>2. NextAfter(file[i].batch) \in Nat
      <4>1. file[i] \in CellType
        BY <1>1, <2>2
      <4>2. QED
        BY <4>1, RowFacts DEF CellType
    <3>3. ~(i > Len(file))
      BY <1>4, <2>2
    <3>4. QED
      BY <1>1, <1>2, <3>1, <3>2, <3>3
  <2>3. CASE ~(i \in 1..Len(file))
    <3>1. i = Len(file) + 1 \/ (i = Len(file) + 2 /\ file'[Len(file) + 2] = Cell("tail", b))
      BY <1>3, <1>4, <2>3
    <3>2. file'[i].batch = b
      BY <1>4, <3>1 DEF Cell
    <3>3. QED
      BY <1>2, <3>2
  <2>4. QED
    BY <2>2, <2>3
<1>10. Torn'
  <2>1. ASSUME NEW i \in (2 * Whole' + 1)..Len(file')
        PROVE  file'[i].batch.first >= NextAt(Whole)'
    <3>1. tears' > 0 /\ Whole' = Whole
      <4>1. SUFFICES ASSUME tears' = 0 PROVE FALSE
        BY <1>3
      <4>2. Len(file)' = 2 * Whole'
        BY <1>3, <4>1
      <4>3. QED
        BY <1>3, <4>2
    <3>2. i \in (2 * Whole + 1)..Len(file') /\ i \in Nat
      BY <1>3, <3>1
    <3>3. CASE i > Len(file)
      <4>1. i \in 1..Len(file')
        BY <1>3, <3>2
      <4>2. QED
        BY <1>2, <1>7, <1>9, <3>1, <3>3, <4>1
    <3>4. CASE ~(i > Len(file))
      <4>1. i \in (2 * Whole + 1)..Len(file) /\ i \in 1..Len(file)
        BY <1>3, <1>4, <3>2, <3>4
      <4>2. file'[i] = file[i] /\ file[i].batch.first >= NextAt(Whole)
        BY <1>1, <1>4, <4>1 DEF Torn
      <4>3. QED
        BY <1>7, <3>1, <4>2
    <3>5. QED
      BY <3>3, <3>4
  <2>2. tears' = 0 => Len(file)' = 2 * Whole'
    BY <1>3
  <2>3. tears' > 0 => /\ Len(file)' > 2 * Whole'
                      /\ Len(file)' > 2 * Whole' + 1 => file'[2 * Whole' + 2].half = "head"
    BY <1>3
  <2>4. QED
    BY <2>1, <2>2, <2>3 DEF Torn
<1>11. Chained'
  <2>1. \A m \in Nat : m + 1 \in Nat /\ \A k \in 0..((m + 1) - 1) : k \in 0..(m - 1) \/ k = m
    OBVIOUS
  <2>2. ASSUME NEW j \in 0..(Whole' - 1)
        PROVE  j \in 0..(Whole - 1) \/ (j = Whole /\ tears' = 0 /\ BatchAt(j)' = b)
    <3>1. CASE tears' = 0
      <4>1. Whole' = Whole + 1 /\ Whole \in Nat
        BY <1>3, <3>1
      <4>2. j \in 0..(Whole - 1) \/ j = Whole
        BY <2>1, <4>1
      <4>3. j = Whole => BatchAt(j)' = b
        BY <1>3, <3>1
      <4>4. QED
        BY <3>1, <4>2, <4>3
    <3>2. CASE tears' # 0
      <4>1. tears' > 0
        BY <1>3, <3>2
      <4>2. Whole' = Whole
        BY <1>3, <4>1
      <4>3. QED
        BY <4>2
    <3>3. QED
      BY <3>1, <3>2
  <2>3. ASSUME NEW j \in 0..(Whole - 1)
        PROVE  /\ BatchAt(j)' = BatchAt(j) /\ BatchAt(j) \in BatchType /\ j \in 0..Whole
               /\ BatchAt(j).event \in Nat /\ BatchAt(j).n \in Nat
               /\ BatchAt(j).first = NextAt(j) /\ BatchAt(j).event + BatchAt(j).n <= made + 1
    <3>1. BatchAt(j) \in BatchType /\ j \in 0..Whole
      BY <1>1, <1>3, WholeFacts
    <3>2. BatchAt(j).event \in Nat /\ BatchAt(j).n \in Nat
      BY <3>1 DEF BatchType
    <3>3. QED
      BY <1>1, <1>3, <3>1, <3>2 DEF Chained
  <2>4. ASSUME NEW j \in 0..(Whole' - 1)
        PROVE  BatchAt(j)'.first = NextAt(j)' /\ BatchAt(j)'.event + BatchAt(j)'.n <= made' + 1
    <3>1. CASE j \in 0..(Whole - 1)
      <4>1. NextAt(j)' = NextAt(j)
        BY <1>8, <2>3, <3>1, KeptNext
      <4>2. /\ BatchAt(j)' = BatchAt(j) /\ BatchAt(j).first = NextAt(j)
            /\ BatchAt(j).event \in Nat /\ BatchAt(j).n \in Nat
            /\ BatchAt(j).event + BatchAt(j).n <= made + 1
        BY <2>3, <3>1
      <4>3. \A x, y, m, k \in Nat : x + y <= m + 1 => x + y <= (m + k) + 1
        OBVIOUS
      <4>4. BatchAt(j).event + BatchAt(j).n <= made' + 1
        BY <1>1, <1>2, <4>2, <4>3
      <4>5. QED
        BY <4>1, <4>2, <4>4
    <3>2. CASE j = Whole /\ tears' = 0 /\ BatchAt(j)' = b
      <4>1. NextAt(j)' = NextAt(j)
        BY <1>5, <1>8, <3>2, KeptNext
      <4>2. b.first = NextAt(j) /\ b.event + b.n <= made' + 1
        BY <1>1, <1>2, <1>3, <3>2
      <4>3. QED
        BY <3>2, <4>1, <4>2
    <3>3. QED
      BY <2>2, <3>1, <3>2
  <2>5. ASSUME NEW j \in 0..(Whole' - 1), NEW i \in 0..(j - 1)
        PROVE  /\ NextAfter(BatchAt(i)') <= BatchAt(j)'.first
               /\ BatchAt(i)'.event + BatchAt(i)'.n <= BatchAt(j)'.event
    <3>1. CASE j \in 0..(Whole - 1)
      <4>1. i \in 0..(Whole - 1)
        BY <1>3, <3>1
      <4>2. /\ NextAfter(BatchAt(i)) <= BatchAt(j).first
            /\ BatchAt(i).event + BatchAt(i).n <= BatchAt(j).event
        BY <1>1, <3>1 DEF Chained
      <4>3. QED
        BY <2>3, <3>1, <4>1, <4>2
    <3>2. CASE j = Whole /\ tears' = 0 /\ BatchAt(j)' = b
      <4>1. i \in 0..(Whole - 1) /\ b.first = NextAt(Whole)
        BY <1>2, <1>3, <3>2
      <4>2. NextAfter(BatchAt(i)) <= NextAt(Whole)
        BY <1>1, <1>5, <4>1, NextAtGrows
      <4>3. BatchAt(i).event + BatchAt(i).n <= made + 1
        BY <2>3, <4>1
      <4>4. QED
        BY <1>2, <2>3, <3>2, <4>1, <4>2, <4>3
    <3>3. QED
      BY <2>2, <3>1, <3>2
  <2>6. QED
    BY <2>4, <2>5 DEF Chained
<1>12. QED
  BY <1>4, <1>8, <1>9, <1>10, <1>11

-----------------------------------------------------------------------------
(* One step, of one process.                                               *)

\* A step that leaves the file alone keeps the prefix.
LEMMA SameFile ==
  ASSUME Good, file' = file, tears' = tears, made' = made, frames' = frames
  PROVE  /\ Kept /\ file' \in Seq(CellType) /\ Chained' /\ Torn'
         /\ made' \in Nat /\ frames' \in Nat /\ frames <= frames'
         /\ \A i \in 1..Len(file') : NextAfter(file'[i].batch) <= 1 + 2 * frames'
         /\ Whole' = Whole /\ PrefixRows' = PrefixRows
<1>1. /\ file \in Seq(CellType) /\ tears \in Nat /\ Torn /\ Chained /\ Bounded
      /\ made \in Nat /\ frames \in Nat
  BY DEF Good, Shape
<1>2. Whole' = Whole
  <2>1. Whole = ConsumedIn(file, 0) /\ Whole' = ConsumedIn(file', 0)
    BY DEF Whole, Consumed, ConsumedIn, FrameAt, FrameIn
  <2>2. QED
    BY <2>1
<1>3. \A j : BatchAt(j)' = BatchAt(j)
  BY DEF BatchAt
<1>4. \A i : NextAt(i)' = NextAt(i)
  BY <1>3 DEF NextAt
<1>5. NextAt(Whole)' = NextAt(Whole)
  <2>1. \A i : i = Whole => NextAt(i)' = NextAt(Whole)
    BY <1>4
  <2>2. \A i : i = Whole => NextAt(Whole)' = NextAt(i)'
    BY <1>2
  <2>3. QED
    BY <2>1, <2>2
<1>6. /\ Whole \in Nat /\ Len(file) \in Nat /\ Whole \in 0..Whole /\ NextAt(Whole) \in Nat
      /\ 2 * Whole <= Len(file)
  BY <1>1, WholeFacts, NextAtGrows
<1>7. Chained'
  BY <1>1, <1>2, <1>3, <1>4 DEF Chained
<1>8. Torn'
  BY <1>1, <1>2, <1>5 DEF Torn
<1>9. Kept
  <2>1. \A m \in Nat : m..(m - 1) = {}
    OBVIOUS
  <2>2. Whole..(Whole' - 1) = {}
    BY <1>2, <1>6, <2>1
  <2>3. Len(file)' = Len(file) /\ (tears = 0 => Len(file) = 2 * Whole)
    BY <1>1 DEF Torn
  <2>4. QED
    BY <1>1, <1>2, <1>3, <1>5, <1>6, <2>2, <2>3 DEF Kept
<1>10. PrefixRows' = PrefixRows
  BY <1>2, <1>3 DEF PrefixRows
<1>11. QED
  BY <1>1, <1>2, <1>7, <1>8, <1>9, <1>10 DEF Bounded

\* The files that the step leaves alone stay good.
LEMMA FilesStay ==
  ASSUME Good, Kept, ckpt' = ckpt, disk' = disk
  PROVE  FilesGood'
<1>1. PICK c : c = ckpt
  OBVIOUS
<1>2. PICK d : d = disk
  OBVIOUS
<1>3. /\ c.len \in Nat /\ c.lsn \in Nat /\ c.next \in Nat /\ d \in DiskType
      /\ Offset(c.len, c.next) /\ Checkpoint(c.len, c.lsn)
      /\ HasPrefix(d, 2 * Whole) /\ Exact(d)
  BY <1>1, <1>2 DEF Good, Shape, FilesGood
<1>4. Offset(c.len, c.next)' /\ Checkpoint(c.len, c.lsn)' /\ Exact(d)'
  BY <1>3, OffsetStays, CheckpointStays, ExactStays
<1>5. HasPrefix(d, 2 * Whole)'
  <2>1. PICK m \in Nat : m = 2 * Whole
    BY DEF Kept
  <2>2. PICK k \in Nat : k = 2 * Whole'
    <3>1. PICK n \in Nat : n = Whole'
      BY DEF Kept
    <3>2. 2 * n \in Nat
      OBVIOUS
    <3>3. 2 * n = 2 * Whole'
      BY <3>1, Zenon
    <3>4. QED
      BY <3>2, <3>3
  <2>3. HasPrefix(d, m) /\ m >= 2 * Whole
    BY <1>3, <2>1
  <2>4. HasPrefix(d, k)'
    BY <1>3, <2>3, PrefixStays
  <2>5. QED
    BY <2>2, <2>4
<1>6. Offset(ckpt.len, ckpt.next)' /\ Checkpoint(ckpt.len, ckpt.lsn)' /\ Exact(disk)'
      /\ HasPrefix(disk, 2 * Whole)'
  <2>1. ckpt' = c /\ disk' = d
    BY <1>1, <1>2
  <2>2. QED
    BY <1>4, <1>5, <2>1
<1>7. QED
  BY <1>6 DEF FilesGood

\* A process that the step leaves alone stays good.
LEMMA ProcStays ==
  ASSUME Good, Kept, frames \in Nat, frames' \in Nat, frames <= frames',
         NEW q \in Procs, proc'[q] = proc[q], holder # q
  PROVE  /\ ProcGood(q)'
         /\ proc'[q].next <= 1 + 2 * frames' /\ \A r \in proc'[q].mem : r.lsn <= 2 * frames'
<1>1. PICK s \in ProcType : s = proc[q]
  BY DEF Good, Shape
<1>2. /\ s.up # "down" => HandleGood(s)
      /\ s.up = "opened" => s.tail = 0
      /\ s.up = "up" => Serving(s) /\ Fresh(s)
      /\ s.next <= 1 + 2 * frames /\ \A r \in s.mem : r.lsn <= 2 * frames
  BY <1>1 DEF Good, ProcGood, Bounded
<1>3. /\ s.up # "down" => HandleGood(s)'
      /\ s.up = "up" => Serving(s)' /\ Fresh(s)'
  <2>1. s.up = "up" => s.up # "down"
    OBVIOUS
  <2>2. QED
    BY <1>2, <2>1, HandleStays, ServingStays
<1>4. proc'[q] = s /\ proc[q]' = s
  BY <1>1
<1>5. ProcGood(q)'
  BY <1>2, <1>3, <1>4 DEF ProcGood
<1>6. s.next \in Nat /\ \A r \in s.mem : r.lsn \in Nat
  BY DEF ProcType, RowType
<1>7. QED
  BY <1>2, <1>4, <1>5, <1>6

\* So a step is good if the process that takes it, its files and its history are.
LEMMA StepGood ==
  ASSUME Good, Kept, file' \in Seq(CellType), Chained', Torn',
         made' \in Nat, frames' \in Nat, frames <= frames',
         \A i \in 1..Len(file') : NextAfter(file'[i].batch) <= 1 + 2 * frames',
         NEW p \in Procs, NEW t \in ProcType, proc' = [proc EXCEPT ![p] = t],
         holder = Nobody \/ holder = p, holder' = Nobody \/ holder' = p,
         t.up # "down" => HandleGood(t)', t.up = "opened" => t.tail = 0,
         t.up = "up" => Serving(t)', t.up = "up" /\ holder' # p => Fresh(t)',
         holder' = p => t.up = "up" /\ t.scanned >= 2 * Whole',
         t.next <= 1 + 2 * frames', \A r \in t.mem : r.lsn <= 2 * frames',
         ckpt' \in [len : Nat, lsn : Nat, next : Nat \ {0}], ckpt'.next <= 1 + 2 * frames',
         disk' \in DiskType, FilesGood',
         acked' \subseteq RowType, tears' = 0 => acked' \subseteq PrefixRows'
  PROVE  Good'
<1>1. proc \in [Procs -> ProcType] /\ frames \in Nat
  BY DEF Good, Shape
<1>2. /\ proc' \in [Procs -> ProcType] /\ proc'[p] = t
      /\ \A q \in Procs : q # p => proc'[q] = proc[q]
  BY <1>1
<1>3. Shape'
  BY <1>2 DEF Shape, Kept
<1>4. proc[p]' = t
  BY <1>2
<1>5. ProcGood(p)'
  BY <1>4 DEF ProcGood
<1>6. ASSUME NEW q \in Procs
      PROVE  /\ ProcGood(q)' /\ proc'[q].next <= 1 + 2 * frames'
             /\ \A r \in proc'[q].mem : r.lsn <= 2 * frames'
  <2>1. CASE q = p
    BY <1>2, <1>5, <2>1
  <2>2. CASE q # p
    <3>1. holder # q /\ proc'[q] = proc[q]
      BY <1>2, <2>2, NobodyIsNoProc
    <3>2. QED
      BY <1>1, <3>1, ProcStays
  <2>3. QED
    BY <2>1, <2>2
<1>7. Bounded'
  BY <1>6 DEF Bounded
<1>8. HolderGood'
  BY <1>2 DEF HolderGood
<1>9. QED
  BY <1>3, <1>6, <1>7, <1>8 DEF Good

\* A process that holds the lock and refreshes knows all there is to know.
LEMMA UpKnows ==
  ASSUME Good, LockFree, NEW p \in Procs, proc[p].up = "up"
  PROVE  Knows(Refreshed(proc[p])) /\ Refreshed(proc[p]).up = "up"
<1>1. proc[p] \in ProcType /\ ProcGood(p) /\ holder # p
      /\ proc[p].next <= 1 + 2 * frames /\ \A r \in proc[p].mem : r.lsn <= 2 * frames
  BY NobodyIsNoProc DEF Good, Shape, LockFree, Bounded
<1>2. PICK s \in ProcType : s = proc[p]
  BY <1>1
<1>3. HandleGood(s) /\ Serving(s) /\ Fresh(s)
  BY <1>1, <1>2 DEF ProcGood
<1>4. Knows(Refreshed(s)) /\ Refreshed(s).up = s.up
  BY <1>1, <1>2, <1>3, RefreshedKnows
<1>5. QED
  BY <1>2, <1>4

\* A step that changes one process and neither a file nor the history.
LEMMA ProcStep ==
  ASSUME Good, NEW p \in Procs, NEW t \in ProcType, proc' = [proc EXCEPT ![p] = t],
         UNCHANGED <<file, ckpt, disk, made, frames, acked, tears>>,
         holder = Nobody \/ holder = p, holder' = Nobody,
         t.up # "down" => HandleGood(t), t.up = "opened" => t.tail = 0,
         t.up = "up" => Serving(t) /\ Fresh(t),
         t.next <= 1 + 2 * frames, \A r \in t.mem : r.lsn <= 2 * frames
  PROVE  Good'
<1>1. /\ Kept /\ file' \in Seq(CellType) /\ Chained' /\ Torn'
      /\ made' \in Nat /\ frames' \in Nat /\ frames <= frames'
      /\ \A i \in 1..Len(file') : NextAfter(file'[i].batch) <= 1 + 2 * frames'
      /\ Whole' = Whole /\ PrefixRows' = PrefixRows
  BY SameFile
<1>2. /\ ckpt' \in [len : Nat, lsn : Nat, next : Nat \ {0}] /\ ckpt'.next <= 1 + 2 * frames'
      /\ disk' \in DiskType /\ acked' \subseteq RowType
      /\ tears' = 0 => acked' \subseteq PrefixRows'
  BY <1>1 DEF Good, Shape, Bounded
<1>3. FilesGood'
  BY <1>1, FilesStay
<1>4. /\ t.up # "down" => HandleGood(t)'
      /\ t.up = "up" => Serving(t)' /\ Fresh(t)'
  <2>1. t.up = "up" => t.up # "down"
    OBVIOUS
  <2>2. QED
    BY <1>1, <2>1, HandleStays, ServingStays
<1>5. holder' # p
  BY NobodyIsNoProc
<1>6. t.next <= 1 + 2 * frames' /\ \A r \in t.mem : r.lsn <= 2 * frames'
  OBVIOUS
<1>7. QED
  BY <1>1, <1>2, <1>3, <1>4, <1>5, <1>6, StepGood

\* A process that is down is of the right type and knows nothing.
LEMMA DownIsDown ==
  Down \in ProcType /\ Down.up = "down" /\ Down.next = 1 /\ Down.mem = {}
BY DEF Down, ProcType, EmptyDisk, DiskType, RowType

\* Wal::open.
LEMMA OpenGood ==
  ASSUME Good, NEW p \in Procs, Open(p)
  PROVE  Good'
<1>1. PICK t \in ProcType : t = Opened
  BY OpenedGood
<1>2. /\ HandleGood(t) /\ t.next <= 1 + 2 * frames
      /\ t.up = "opened" /\ t.tail = 0 /\ t.mem = {}
  BY <1>1, OpenedGood
<1>3. proc' = [proc EXCEPT ![p] = t] /\ holder = Nobody /\ holder' = Nobody
      /\ UNCHANGED <<file, ckpt, disk, made, frames, acked, tears>>
  BY <1>1 DEF Open, LockFree, counters
<1>4. QED
  BY <1>2, <1>3, ProcStep

\* recover.
LEMMA RecoverGood ==
  ASSUME Good, OpenedFits, NEW p \in Procs, Recover(p)
  PROVE  Good'
<1>1. PICK s \in ProcType : s = proc[p]
  BY DEF Good, Shape
<1>2. /\ s.up = "opened" /\ HandleGood(s) /\ s.tail = 0 /\ s.next <= 1 + 2 * frames
      /\ disk.version = 0 => s.cur = disk
  BY <1>1 DEF Good, ProcGood, Recover, Bounded, OpenedFits
<1>3. Knows(Recovered(s)) /\ Recovered(s).up = "up"
  BY <1>2, RecoveredKnows
<1>4. PICK t \in ProcType : t = Recovered(s)
  BY <1>3 DEF Knows, AtTheEnd
<1>5. Knows(t) /\ t.up = "up"
  BY <1>3, <1>4
<1>6. proc' = [proc EXCEPT ![p] = t] /\ holder = Nobody /\ holder' = Nobody
      /\ UNCHANGED <<file, ckpt, disk, made, frames, acked, tears>>
  BY <1>1, <1>4 DEF Recover, LockFree, counters
<1>7. QED
  BY <1>5, <1>6, ProcStep DEF Knows, AtTheEnd

\* A read that refreshes.
LEMMA ReadRefreshGood ==
  ASSUME Good, NEW p \in Procs, ReadRefresh(p)
  PROVE  Good'
<1>1. Knows(Refreshed(proc[p])) /\ Refreshed(proc[p]).up = "up"
  BY UpKnows DEF ReadRefresh
<1>2. PICK t \in ProcType : t = Refreshed(proc[p])
  BY <1>1 DEF Knows, AtTheEnd
<1>3. Knows(t) /\ t.up = "up"
  BY <1>1, <1>2
<1>4. proc' = [proc EXCEPT ![p] = t] /\ holder = Nobody /\ holder' = Nobody
      /\ UNCHANGED <<file, ckpt, disk, made, frames, acked, tears>>
  BY <1>2 DEF ReadRefresh, LockFree, counters
<1>5. QED
  BY <1>3, <1>4, ProcStep DEF Knows, AtTheEnd

\* A crash.
LEMMA CrashGood ==
  ASSUME Good, NEW p \in Procs, Crash(p)
  PROVE  Good'
<1>1. proc' = [proc EXCEPT ![p] = Down] /\ (holder = Nobody \/ holder = p) /\ holder' = Nobody
      /\ UNCHANGED <<file, ckpt, disk, made, frames, acked, tears>>
  BY DEF Crash, LockFree, counters
<1>2. frames \in Nat
  BY DEF Good, Shape
<1>3. PICK t \in ProcType : t = Down
  BY DownIsDown
<1>4. t.up = "down" /\ t.next <= 1 + 2 * frames /\ t.mem = {}
  BY <1>2, <1>3, DownIsDown
<1>5. QED
  BY <1>1, <1>3, <1>4, ProcStep

\* The batch of an ingest continues the prefix, or is beyond the tear.
LEMMA NewBatchAppends ==
  ASSUME Good, NEW s \in ProcType, Knows(s), NEW n \in 0..2,
         made' = made + n, frames' = frames + 1,
         \/ file' = file \o Frame(NewBatch(s, n)) /\ tears' = tears
         \/ file' = Append(file, Cell("head", NewBatch(s, n))) /\ tears' = tears + 1
  PROVE  /\ Appends(NewBatch(s, n)) /\ NewBatch(s, n).first = s.next /\ NewBatch(s, n).n = n
         /\ made' \in Nat /\ frames' \in Nat /\ frames <= frames'
<1> DEFINE b == NewBatch(s, n)
<1>1. b.first = s.next /\ b.event = made + 1 /\ b.n = n /\ b = [first |-> s.next, event |-> made + 1, n |-> n]
  BY DEF NewBatch, Batch
<1>2. made \in Nat /\ frames \in Nat /\ s.next \in Nat \ {0} /\ n \in Nat
  BY DEF Good, Shape, ProcType
<1>3. b \in BatchType
  BY <1>1, <1>2 DEF BatchType
<1>4. s.next >= NextAt(Whole) /\ s.next <= 1 + 2 * frames /\ (tears = 0 => s.next = NextAt(Whole))
  BY DEF Knows, AtTheEnd
<1> HIDE DEF b
<1>5. NextAfter(b) <= 1 + 2 * frames'
  <2>1. NextAfter(b) \in Nat /\ NextAfter(b) <= b.first + 2
    BY <1>3, RowFacts
  <2>2. QED
    BY <1>1, <1>2, <1>4, <2>1
<1>6. /\ \/ file' = file \o Frame(b) /\ tears' = tears
         \/ file' = Append(file, Cell("head", b)) /\ tears' = tears + 1
  BY DEF b
<1>7. Appends(b)
  BY <1>1, <1>3, <1>4, <1>5, <1>6 DEF Appends
<1>8. made' \in Nat /\ frames' \in Nat /\ frames <= frames'
  BY <1>2
<1>9. QED
  BY <1>1, <1>7, <1>8 DEF b

\* The process that ingested knows the file with its frame.
LEMMA AppendedServes ==
  ASSUME Good, NEW s \in ProcType, Knows(s), NEW n \in 0..2, NEW t, t = Appended(s, n),
         NEW b, b = NewBatch(s, n), Appends(b), b.first = s.next,
         file' = file \o Frame(b), tears' = tears
  PROVE  /\ t \in ProcType /\ t.up = s.up
         /\ HandleGood(t)' /\ Serving(t)' /\ Fresh(t)'
         /\ t.next <= 1 + 2 * frames' /\ \A r \in t.mem : r.lsn <= 2 * frames'
         /\ tears' = 0 => RowsOf(b) \subseteq PrefixRows'
<1>1. /\ s.next \in Nat \ {0} /\ s.scanned \in Nat /\ s.tail \in Nat /\ s.cur \in DiskType
      /\ s.cur.wm \in Nat /\ s.mem \subseteq RowType /\ s.cklen \in Nat /\ s.cklsn \in Nat
  BY DEF ProcType, DiskType
<1>2. /\ HandleGood(s) /\ Serving(s) /\ Fresh(s)
      /\ s.scanned >= 2 * Whole /\ s.next >= NextAt(Whole) /\ s.next <= 1 + 2 * frames
      /\ (tears = 0 => s.scanned = 2 * Whole /\ s.next = NextAt(Whole))
      /\ \A r \in s.mem : r.lsn <= 2 * frames
  BY DEF Knows, AtTheEnd
<1>3. /\ b \in BatchType /\ frames' = frames + 1 /\ NextAfter(b) <= 1 + 2 * frames'
      /\ frames \in Nat /\ frames' \in Nat
  BY DEF Appends, Good, Shape
<1>4. /\ NextAfter(b) \in Nat /\ s.next < NextAfter(b)
      /\ \A r \in RowsOf(b) : /\ r \in RowType /\ r.lsn \in Nat
                              /\ s.next <= r.lsn /\ r.lsn < NextAfter(b)
  BY <1>3, RowFacts DEF RowType
<1>5. /\ t.up = s.up /\ t.next = NextAfter(b) /\ t.scanned = s.scanned + 2 /\ t.cklen = s.cklen
      /\ t.cklsn = s.cklsn /\ t.cur = s.cur /\ t.mem = s.mem \cup RowsOf(b)
      /\ t.tail = Greater(s.tail, NextAfter(b) - 1) /\ t \in ProcType
  <2>1. Greater(s.tail, NextAfter(b) - 1) \in Nat /\ NextAfter(b) \in Nat \ {0}
    BY <1>1, <1>4 DEF Greater
  <2>2. s.scanned + 2 \in Nat /\ s.mem \cup RowsOf(b) \in SUBSET RowType
    BY <1>1, <1>4
  <2>3. t = [s EXCEPT !.mem = s.mem \cup RowsOf(b), !.scanned = s.scanned + 2,
                      !.next = NextAfter(b), !.tail = Greater(s.tail, NextAfter(b) - 1)]
    BY DEF Appended
  <2>4. QED
    BY <2>1, <2>2, <2>3 DEF ProcType
<1>6. Kept /\ Whole \in Nat /\ Whole' \in Nat /\ tears \in Nat /\ NextAt(Whole) \in Nat
  BY FileGrows DEF Kept
<1>7. Len(file') = Len(file) + 2 /\ Len(file) \in Nat
  <2>1. tears \in Nat /\ tears' # tears + 1
    BY <1>6
  <2>2. QED
    BY <2>1, NewCells
<1>8. ASSUME tears = 0
      PROVE  Serving(t)' /\ Offset(t.scanned, t.next)' /\ RowsOf(b) \subseteq PrefixRows'
  <2>1. /\ Whole' = Whole + 1 /\ Len(file) = 2 * Whole /\ Len(file)' = 2 * Whole'
        /\ \A j : j = Whole => BatchAt(j)' = b
        /\ \A j \in 0..(Whole - 1) : BatchAt(j)' = BatchAt(j)
    BY <1>8, PrefixGrows
  <2>2. PICK w \in Nat : w = Whole /\ Whole' = w + 1 /\ BatchAt(w)' = b
    BY <1>6, <2>1
  <2>3. NextAt(w + 1)' = NextAfter(b)
    <3>1. w + 1 # 0 /\ (w + 1) - 1 = w
      OBVIOUS
    <3>2. QED
      BY <2>2, <3>1 DEF NextAt
  <2>4. t.scanned = 2 * (w + 1) /\ t.next = NextAt(w + 1)' /\ w + 1 \in 0..Whole'
    <3>1. s.scanned = 2 * w
      BY <1>2, <1>8, <2>2
    <3>2. t.scanned = 2 * (w + 1)
      BY <1>5, <3>1
    <3>3. w + 1 \in 0..(w + 1)
      OBVIOUS
    <3>4. QED
      BY <1>5, <2>2, <2>3, <3>2, <3>3
  <2>5. s.cur.wm < NextAt(Whole) /\ s.tail = s.next - 1
    <3>1. PICK i \in 0..Whole : s.scanned = 2 * i /\ s.cur.wm < s.next /\ s.tail = s.next - 1
      BY <1>8 DEF Knows, Serving
    <3>2. QED
      BY <1>2, <1>8, <3>1
  <2>6. t.cur.wm < t.next /\ t.tail = t.next - 1
    BY <1>1, <1>2, <1>4, <1>5, <1>6, <1>8, <2>5 DEF Greater
  <2>7. RowsOf(b) \subseteq PrefixRows'
    <3>1. w \in 0..(Whole' - 1)
      <4>1. w \in 0..((w + 1) - 1)
        OBVIOUS
      <4>2. QED
        BY <2>2, <4>1
    <3>2. RowsOf(b) = RowsOf(BatchAt(w)')
      BY <2>2
    <3>3. QED
      BY <3>1, <3>2 DEF PrefixRows
  <2>8. HasPrefix(t.cur, t.scanned)' /\ Exact(t.cur)'
    <3>1. HasPrefix(s.cur, s.scanned) /\ Exact(s.cur) /\ t.scanned \in Nat
      BY <1>2, <1>5 DEF Serving, ProcType
    <3>2. HasPrefix(s.cur, t.scanned)' /\ Exact(s.cur)'
      BY <1>1, <1>2, <1>6, <3>1, PrefixStays, ExactStays
    <3>3. QED
      BY <1>5, <3>2
  <2>9. ASSUME NEW j \in 0..(Whole' - 1), NEW r \in RowsOf(BatchAt(j))', r.lsn > t.cur.wm
        PROVE  r \in t.mem /\ r.lsn <= t.tail
    <3>1. j \in 0..(w - 1) \/ j = w
      <4>1. \A k \in 0..((w + 1) - 1) : k \in 0..(w - 1) \/ k = w
        OBVIOUS
      <4>2. QED
        BY <2>2, <4>1
    <3>2. CASE j = w
      <4>1. r \in RowsOf(b)
        BY <2>2, <2>9, <3>2
      <4>2. QED
        BY <1>4, <1>5, <2>6, <4>1
    <3>3. CASE j \in 0..(w - 1)
      <4>1. BatchAt(j)' = BatchAt(j) /\ j \in 0..(Whole - 1)
        BY <2>1, <2>2, <3>3
      <4>2. r \in RowsOf(BatchAt(j))
        BY <2>9, <4>1
      <4>3. 2 * j < s.scanned
        BY <1>2, <1>8, <2>2, <3>3
      <4>4. r \in s.mem /\ r.lsn <= s.tail
        BY <1>2, <1>5, <2>9, <4>1, <4>2, <4>3 DEF Serving
      <4>5. r.lsn \in Nat
        BY <1>1, <4>4 DEF RowType
      <4>6. QED
        BY <1>1, <1>4, <1>5, <2>5, <2>6, <4>4, <4>5
    <3>4. QED
      BY <3>1, <3>2, <3>3
  <2>10. t.mem \subseteq PrefixRows'
    BY <1>2, <1>5, <1>6, <1>8, <2>7, RowsStay DEF Serving
  <2>11. Serving(t)'
    <3>1. \E i \in 0..Whole' : /\ t.scanned = 2 * i /\ t.next = NextAt(i)'
                               /\ t.cur.wm < t.next /\ t.tail = t.next - 1
      BY <2>4, <2>6
    <3>2. QED
      BY <2>8, <2>9, <2>10, <3>1 DEF Serving
  <2>12. Offset(t.scanned, t.next)'
    <3>1. t.scanned <= Len(file)'
      BY <2>1, <2>2, <2>4
    <3>2. QED
      BY <2>4, <3>1 DEF Offset
  <2>13. QED
    BY <2>7, <2>11, <2>12
<1>9. ASSUME tears > 0
      PROVE  tears' > 0 /\ Serving(t)' /\ Offset(t.scanned, t.next)'
  <2>1. tears' > 0 /\ Whole' = Whole /\ NextAt(Whole)' = NextAt(Whole)
    BY <1>6, <1>9, KeptNext DEF Kept
  <2>2. s.scanned <= Len(file)
    BY <1>2 DEF HandleGood, Offset
  <2>3. /\ t.scanned >= 2 * Whole' /\ t.next >= NextAt(Whole)' /\ t.scanned <= Len(file')
        /\ t.scanned \in Nat /\ t.tail \in Nat
    <3>1. t.scanned \in Nat /\ t.tail \in Nat /\ t.next \in Nat
      BY <1>5 DEF ProcType
    <3>2. t.scanned >= 2 * Whole /\ t.next >= NextAt(Whole) /\ t.scanned <= Len(file')
      <4>1. \A x, y, m, k \in Nat : x <= m /\ x >= y => x + 2 >= y /\ x + 2 <= m + 2
        OBVIOUS
      <4>2. t.scanned >= 2 * Whole /\ t.scanned <= Len(file')
        BY <1>1, <1>2, <1>5, <1>6, <1>7, <2>2, <4>1
      <4>3. t.next >= NextAt(Whole)
        BY <1>1, <1>2, <1>4, <1>5, <1>6
      <4>4. QED
        BY <4>2, <4>3
    <3>3. t.scanned >= 2 * Whole'
      BY <2>1, <3>2
    <3>4. t.next >= NextAt(Whole)'
      BY <2>1, <3>2
    <3>5. QED
      BY <3>1, <3>2, <3>3, <3>4
  <2>4. HasPrefix(t.cur, t.scanned)' /\ Exact(t.cur)'
    <3>1. HasPrefix(s.cur, s.scanned) /\ Exact(s.cur) /\ t.scanned \in Nat
      BY <1>2, <1>5 DEF Serving, ProcType
    <3>2. HasPrefix(s.cur, t.scanned)' /\ Exact(s.cur)'
      BY <1>1, <1>2, <1>6, <3>1, PrefixStays, ExactStays
    <3>3. QED
      BY <1>5, <3>2
  <2>5. ASSUME NEW j \in 0..(Whole' - 1), NEW r \in RowsOf(BatchAt(j))', r.lsn > t.cur.wm
        PROVE  r \in t.mem /\ r.lsn <= t.tail
    <3>1. j \in 0..(Whole - 1)
      BY <2>1
    <3>2. BatchAt(j)' = BatchAt(j) /\ 2 * j < s.scanned
      BY <1>1, <1>2, <1>6, <3>1 DEF Kept
    <3>3. r \in RowsOf(BatchAt(j))
      BY <2>5, <3>2
    <3>4. r \in s.mem /\ r.lsn <= s.tail
      BY <1>2, <1>5, <2>5, <3>1, <3>2, <3>3 DEF Serving
    <3>5. r.lsn \in Nat
      BY <1>1, <3>4 DEF RowType
    <3>6. QED
      BY <1>1, <1>4, <1>5, <3>4, <3>5 DEF Greater
  <2>6. Serving(t)'
    <3>1. tears' # 0
      BY <2>1
    <3>2. QED
      BY <2>1, <2>3, <2>4, <2>5, <3>1 DEF Serving
  <2>7. Offset(t.scanned, t.next)'
    BY <2>1, <2>3 DEF Offset
  <2>8. QED
    BY <2>1, <2>6, <2>7
<1>10. Checkpoint(t.cklen, t.cklsn)'
  <2>1. Checkpoint(s.cklen, s.cklsn)'
    BY <1>1, <1>2, <1>6, CheckpointStays DEF HandleGood
  <2>2. QED
    BY <1>5, <2>1
<1>11. Fresh(t)'
  <2>1. Fresh(s)'
    BY <1>2, <1>6, HandleStays
  <2>2. ASSUME NEW r \in RowsOf(b)
        PROVE  r.lsn > s.cur.wm \/ (tears' > 0 /\ r.lsn >= NextAt(Whole)')
    <3>1. CASE tears = 0
      <4>1. s.cur.wm < NextAt(Whole)
        BY <1>2, <3>1 DEF Serving, Exact
      <4>2. QED
        BY <1>1, <1>2, <1>4, <1>6, <3>1, <4>1
    <3>2. CASE tears > 0
      <4>1. NextAt(Whole)' = NextAt(Whole)
        BY <1>6, <3>2, KeptNext DEF Kept
      <4>2. r.lsn >= NextAt(Whole)
        BY <1>1, <1>2, <1>4, <1>6
      <4>3. QED
        BY <3>2, <4>1, <4>2
    <3>3. QED
      BY <1>6, <3>1, <3>2
  <2>3. QED
    BY <1>5, <2>1, <2>2 DEF Fresh
<1>12. t.next <= 1 + 2 * frames' /\ \A r \in t.mem : r.lsn <= 2 * frames'
  <2>1. ASSUME NEW r \in t.mem PROVE r.lsn <= 2 * frames'
    <3>1. CASE r \in s.mem
      <4>1. r.lsn \in Nat /\ r.lsn <= 2 * frames
        BY <1>1, <1>2, <3>1 DEF RowType
      <4>2. QED
        BY <1>3, <4>1
    <3>2. CASE r \in RowsOf(b)
      <4>1. r.lsn \in Nat /\ r.lsn < NextAfter(b) /\ NextAfter(b) \in Nat
        BY <1>4, <3>2
      <4>2. QED
        BY <1>3, <4>1
    <3>3. QED
      BY <1>5, <2>1, <3>1, <3>2
  <2>2. QED
    BY <1>3, <1>5, <2>1
<1>13. Serving(t)' /\ Offset(t.scanned, t.next)' /\ (tears' = 0 => RowsOf(b) \subseteq PrefixRows')
  <2>1. tears = 0 \/ tears > 0
    BY <1>6
  <2>2. tears' > 0 => tears' # 0
    OBVIOUS
  <2>3. QED
    BY <1>8, <1>9, <2>1, <2>2
<1>14. QED
  BY <1>5, <1>10, <1>11, <1>12, <1>13 DEF HandleGood

\* What every append leaves good, whichever process makes it.
LEMMA AppendStep ==
  ASSUME Good, NEW b, Appends(b), made' \in Nat, frames' \in Nat, frames <= frames',
         NEW p \in Procs, NEW t \in ProcType, proc' = [proc EXCEPT ![p] = t],
         holder = Nobody, UNCHANGED <<ckpt, disk, holder>>,
         t.up \in {"down", "up"},
         t.up = "up" => HandleGood(t)' /\ Serving(t)' /\ Fresh(t)',
         t.next <= 1 + 2 * frames', \A r \in t.mem : r.lsn <= 2 * frames',
         acked' \subseteq RowType, tears' = 0 => acked' \subseteq PrefixRows'
  PROVE  Good'
<1>1. /\ Kept /\ file' \in Seq(CellType) /\ Chained' /\ Torn'
      /\ \A i \in 1..Len(file') : NextAfter(file'[i].batch) <= 1 + 2 * frames'
  BY FileGrows
<1>2. FilesGood'
  BY <1>1, FilesStay
<1>3. /\ ckpt' \in [len : Nat, lsn : Nat, next : Nat \ {0}] /\ disk' \in DiskType
      /\ ckpt'.next <= 1 + 2 * frames'
  <2>1. ckpt \in [len : Nat, lsn : Nat, next : Nat \ {0}] /\ disk \in DiskType
        /\ ckpt.next <= 1 + 2 * frames /\ frames \in Nat
    BY DEF Good, Shape, Bounded
  <2>2. QED
    BY <2>1
<1>4. holder' = Nobody /\ holder' # p
  BY NobodyIsNoProc
<1>5. t.up # "down" => HandleGood(t)'
  OBVIOUS
<1>6. t.up = "opened" => t.tail = 0
  OBVIOUS
<1>7. QED
  BY <1>1, <1>2, <1>3, <1>4, <1>5, <1>6, StepGood

\* What is in the history is in the prefix that grew.
LEMMA HistoryStays ==
  ASSUME Good, Kept
  PROVE  acked \subseteq RowType /\ (tears' = 0 => acked \subseteq PrefixRows')
<1>1. acked \subseteq RowType /\ (tears = 0 => acked \subseteq PrefixRows)
  BY DEF Good, Shape
<1>2. tears' = 0 => tears = 0
  BY DEF Kept
<1>3. QED
  BY <1>1, <1>2, RowsStay

\* append_committed.
LEMMA IngestGood ==
  ASSUME Good, NEW p \in Procs, NEW n \in 0..2, Ingest(p, n)
  PROVE  Good'
<1>1. Knows(Refreshed(proc[p])) /\ Refreshed(proc[p]).up = "up" /\ holder = Nobody
  BY UpKnows DEF Ingest, CanIngest, LockFree
<1>2. PICK s \in ProcType : s = Refreshed(proc[p])
  BY <1>1 DEF Knows, AtTheEnd
<1>3. Knows(s) /\ s.up = "up"
  BY <1>1, <1>2
<1>4. PICK b : b = NewBatch(s, n)
  OBVIOUS
<1>5. /\ file' = file \o Frame(b) /\ tears' = tears /\ made' = made + n /\ frames' = frames + 1
      /\ acked' = acked \cup RowsOf(b) /\ proc' = [proc EXCEPT ![p] = Appended(s, n)]
      /\ UNCHANGED <<ckpt, disk, holder>>
  BY <1>2, <1>4 DEF Ingest, CanIngest
<1>6. Appends(b) /\ b.first = s.next /\ made' \in Nat /\ frames' \in Nat /\ frames <= frames'
  BY <1>3, <1>4, <1>5, NewBatchAppends
<1>7. /\ Appended(s, n) \in ProcType /\ Appended(s, n).up = "up"
      /\ tears' = 0 => RowsOf(b) \subseteq PrefixRows'
  BY <1>3, <1>4, <1>5, <1>6, AppendedServes
<1>8. PICK t \in ProcType : t = Appended(s, n)
  BY <1>7
<1>9. /\ t.up = "up" /\ HandleGood(t)' /\ Serving(t)' /\ Fresh(t)'
      /\ t.next <= 1 + 2 * frames' /\ \A r \in t.mem : r.lsn <= 2 * frames'
  BY <1>3, <1>4, <1>5, <1>6, <1>8, AppendedServes
<1>10. acked' \subseteq RowType /\ (tears' = 0 => acked' \subseteq PrefixRows')
  <2>1. acked \subseteq RowType /\ (tears' = 0 => acked \subseteq PrefixRows')
    BY <1>6, FileGrows, HistoryStays
  <2>2. RowsOf(b) \subseteq RowType
    BY <1>6, RowFacts DEF Appends
  <2>3. QED
    BY <1>5, <1>7, <2>1, <2>2
<1>11. t.up \in {"down", "up"} /\ proc' = [proc EXCEPT ![p] = t]
  BY <1>5, <1>8, <1>9
<1>12. QED
  BY <1>1, <1>5, <1>6, <1>9, <1>10, <1>11, AppendStep

\* A crash inside append_committed, after the whole frame or after half of it.
LEMMA CrashInAppendGood ==
  ASSUME Good, NEW p \in Procs, NEW n \in 0..2, CrashBeforeAck(p, n) \/ CrashTearsFrame(p, n)
  PROVE  Good'
<1>1. Knows(Refreshed(proc[p])) /\ holder = Nobody
  BY UpKnows DEF CrashBeforeAck, CrashTearsFrame, CanIngest, LockFree
<1>2. PICK s \in ProcType : s = Refreshed(proc[p])
  BY <1>1 DEF Knows, AtTheEnd
<1>3. PICK b : b = NewBatch(s, n)
  OBVIOUS
<1>4. /\ \/ file' = file \o Frame(b) /\ tears' = tears
         \/ file' = Append(file, Cell("head", b)) /\ tears' = tears + 1
      /\ made' = made + n /\ frames' = frames + 1
      /\ acked' = acked /\ proc' = [proc EXCEPT ![p] = Down]
      /\ UNCHANGED <<ckpt, disk, holder>>
  BY <1>2, <1>3 DEF CrashBeforeAck, CrashTearsFrame, CanIngest
<1>5. Knows(s)
  BY <1>1, <1>2
<1>6. Appends(b) /\ made' \in Nat /\ frames' \in Nat /\ frames <= frames'
  BY <1>3, <1>4, <1>5, NewBatchAppends
<1>7. acked' \subseteq RowType /\ (tears' = 0 => acked' \subseteq PrefixRows')
  BY <1>4, <1>6, FileGrows, HistoryStays
<1>8. PICK t \in ProcType : t = Down
  BY DownIsDown
<1>9. t.up = "down" /\ t.next <= 1 + 2 * frames' /\ t.mem = {} /\ proc' = [proc EXCEPT ![p] = t]
  BY <1>4, <1>6, <1>8, DownIsDown
<1>10. QED
  BY <1>1, <1>4, <1>6, <1>7, <1>9, AppendStep

\* The manifest that a flush commits has all that the prefix has up to its
\* watermark, and the process that commits it still knows all there is to know.
LEMMA FlushedManifest ==
  ASSUME Good, NEW s \in ProcType, Knows(s), s.mem # {},
         NEW d, d = [version |-> s.cur.version + 1, wm |-> Max({r.lsn : r \in s.mem}),
                     events |-> s.cur.events \cup {r.event : r \in s.mem}],
         NEW t, t = [s EXCEPT !.cur = d]
  PROVE  /\ d \in DiskType /\ HasPrefix(d, 2 * Whole) /\ Exact(d)
         /\ t \in ProcType /\ t.up = s.up /\ t.scanned = s.scanned /\ t.next = s.next
         /\ t.mem = s.mem /\ HandleGood(t) /\ Serving(t)
<1> DEFINE newest == Max({r.lsn : r \in s.mem})
<1>1. /\ s.cur \in DiskType /\ s.cur.wm \in Nat /\ s.cur.version \in Nat /\ s.cur.events \subseteq Nat
      /\ s.mem \subseteq RowType /\ s.scanned \in Nat /\ s.next \in Nat /\ frames \in Nat
      /\ file \in Seq(CellType) /\ Chained /\ tears \in Nat
  BY DEF ProcType, DiskType, Good, Shape
<1>2. /\ HandleGood(s) /\ Serving(s) /\ Fresh(s)
      /\ s.scanned >= 2 * Whole /\ s.next >= NextAt(Whole)
      /\ (tears = 0 => s.scanned = 2 * Whole /\ s.next = NextAt(Whole))
      /\ \A r \in s.mem : r.lsn <= 2 * frames
  BY DEF Knows, AtTheEnd
<1>3. Whole \in Nat /\ NextAt(Whole) \in Nat /\ Whole \in 0..Whole
  BY <1>1, WholeFacts, NextAtGrows
<1>4. /\ newest \in Nat
      /\ \E r \in s.mem : r.lsn = newest
      /\ \A r \in s.mem : r.lsn \in Nat /\ r.lsn <= newest
  <2> DEFINE S == {r.lsn : r \in s.mem}
  <2>1. \A r \in s.mem : r.lsn \in Nat /\ r.event \in Nat
    BY <1>1 DEF RowType
  <2>2. S \subseteq 0..(2 * frames) /\ S # {} /\ 2 * frames \in Nat
    <3>1. PICK n \in Nat : n = 2 * frames
      BY <1>1
    <3>2. \A r \in s.mem : r.lsn \in 0..n
      BY <1>2, <2>1, <3>1
    <3>3. S \subseteq 0..n
      BY <3>2
    <3>4. S # {}
      OBVIOUS
    <3> HIDE DEF S
    <3>5. QED
      BY <3>1, <3>3, <3>4
  <2>3. Max(S) \in S /\ \A k \in S : k <= Max(S)
    <3> HIDE DEF S
    <3>1. QED
      BY <2>2, MaxIsGreatest
  <2>4. newest \in S /\ \A k \in S : k <= newest
    BY <2>3
  <2> HIDE DEF newest
  <2>5. QED
    BY <2>1, <2>4
<1>5. PICK m \in s.mem : m.lsn = newest
  BY <1>4
<1> HIDE DEF newest
<1>6. /\ d.wm = newest /\ d.events = s.cur.events \cup {r.event : r \in s.mem} /\ d \in DiskType
  <2>1. {r.event : r \in s.mem} \subseteq Nat
    BY <1>1 DEF RowType
  <2>2. QED
    BY <1>1, <1>4, <2>1 DEF DiskType, newest
<1>7. ASSUME NEW j \in 0..(Whole - 1), NEW r \in RowsOf(BatchAt(j))
      PROVE  /\ r.lsn \in Nat /\ r.lsn < NextAt(Whole) /\ 2 * j < s.scanned
             /\ r.lsn > s.cur.wm => r \in s.mem
             /\ r.lsn <= s.cur.wm => r.event \in s.cur.events
  <2>1. r.lsn \in Nat /\ r.lsn < NextAt(Whole)
    BY <1>1, PrefixRowFacts DEF RowType
  <2>2. 2 * j < s.scanned
    BY <1>1, <1>2, <1>3
  <2>3. QED
    BY <1>2, <2>1, <2>2 DEF Serving, HasPrefix
<1>8. HasPrefix(d, 2 * Whole)
  <2>1. SUFFICES ASSUME NEW j \in 0..(Whole - 1), NEW r \in RowsOf(BatchAt(j)), r.lsn <= d.wm
                 PROVE  r.event \in d.events
    BY DEF HasPrefix
  <2>2. r.lsn \in Nat /\ (r.lsn > s.cur.wm => r \in s.mem)
        /\ (r.lsn <= s.cur.wm => r.event \in s.cur.events)
    BY <1>7
  <2>3. QED
    BY <1>1, <1>6, <2>2
<1>9. Exact(d)
  <2>1. SUFFICES ASSUME tears = 0
                 PROVE  /\ d.wm < NextAt(Whole)
                        /\ \A e \in d.events : \E r \in PrefixRows : r.event = e /\ r.lsn <= d.wm
    BY DEF Exact
  <2>2. s.mem \subseteq PrefixRows /\ \A r \in s.mem : r.lsn > s.cur.wm
    BY <1>2, <2>1 DEF Serving, Fresh
  <2>3. \A r \in PrefixRows : r.lsn \in Nat /\ r.lsn < NextAt(Whole)
    BY <1>7 DEF PrefixRows
  <2>4. d.wm < NextAt(Whole) /\ d.wm > s.cur.wm
    BY <1>5, <1>6, <2>2, <2>3
  <2>5. ASSUME NEW e \in s.cur.events PROVE \E r \in PrefixRows : r.event = e /\ r.lsn <= d.wm
    <3>1. PICK r \in PrefixRows : r.event = e /\ r.lsn <= s.cur.wm
      BY <1>2, <2>1 DEF Serving, Exact
    <3>2. r.lsn <= d.wm
      BY <1>1, <1>4, <1>6, <2>3, <2>4, <3>1
    <3>3. QED
      BY <3>1, <3>2
  <2>6. ASSUME NEW q \in s.mem PROVE \E r \in PrefixRows : r.event = q.event /\ r.lsn <= d.wm
    BY <1>4, <1>6, <2>2
  <2>7. QED
    BY <1>6, <2>4, <2>5, <2>6
<1>10. /\ t \in ProcType /\ t.up = s.up /\ t.scanned = s.scanned /\ t.next = s.next /\ t.cur = d
       /\ t.mem = s.mem /\ t.tail = s.tail /\ t.cklen = s.cklen /\ t.cklsn = s.cklsn
  BY <1>6 DEF ProcType
<1>11. HandleGood(t)
  BY <1>2, <1>10 DEF HandleGood
<1>12. Serving(t)
  <2>1. \/ \E i \in 0..Whole : /\ t.scanned = 2 * i /\ t.next = NextAt(i)
                               /\ t.cur.wm < t.next /\ t.tail = t.next - 1
        \/ tears > 0 /\ t.scanned >= 2 * Whole /\ t.next >= NextAt(Whole)
    <3>1. CASE tears = 0
      <4>1. t.scanned = 2 * Whole /\ t.next = NextAt(Whole) /\ t.cur.wm < t.next
        BY <1>2, <1>9, <1>10, <3>1 DEF Exact
      <4>2. PICK i \in 0..Whole : s.scanned = 2 * i /\ s.tail = s.next - 1
        BY <1>2, <3>1 DEF Serving
      <4>3. t.tail = t.next - 1
        BY <1>10, <4>2
      <4>4. QED
        BY <1>3, <4>1, <4>3
    <3>2. CASE tears > 0
      BY <1>2, <1>10, <3>2
    <3>3. tears = 0 \/ tears > 0
      BY <1>1
    <3>4. QED
      BY <3>1, <3>2, <3>3
  <2>2. HasPrefix(t.cur, t.scanned)
    BY <1>1, <1>8, <1>10, HasPart
  <2>3. ASSUME NEW j \in 0..(Whole - 1), NEW r \in RowsOf(BatchAt(j)), r.lsn > t.cur.wm
        PROVE  r \in t.mem /\ r.lsn <= t.tail
    <3>1. /\ r.lsn \in Nat /\ r.lsn < NextAt(Whole) /\ 2 * j < s.scanned
          /\ r.lsn > s.cur.wm => r \in s.mem
      BY <1>7
    <3>2. r.lsn > s.cur.wm
      <4>1. SUFFICES ASSUME ~(r.lsn > s.cur.wm) PROVE FALSE
        OBVIOUS
      <4>2. m.lsn > s.cur.wm \/ m.lsn >= NextAt(Whole)
        BY <1>2 DEF Fresh
      <4>3. QED
        BY <1>1, <1>3, <1>4, <1>5, <1>6, <1>10, <2>3, <3>1, <4>1, <4>2
    <3>3. QED
      BY <1>2, <1>10, <3>1, <3>2 DEF Serving
  <2>4. tears = 0 => t.mem \subseteq PrefixRows
    BY <1>2, <1>10 DEF Serving
  <2>5. QED
    BY <1>9, <1>10, <2>1, <2>2, <2>3, <2>4 DEF Serving
<1>13. d \in DiskType
  BY <1>6
<1>14. QED
  BY <1>8, <1>9, <1>10, <1>11, <1>12, <1>13, Zenon

\* A flush up to its manifest, saved or not.
LEMMA FlushCommitGood ==
  ASSUME Good, NEW p \in Procs, FlushCommit(p)
  PROVE  Good'
<1>1. Knows(Refreshed(proc[p])) /\ Refreshed(proc[p]).up = "up" /\ holder = Nobody
  BY UpKnows DEF FlushCommit, LockFree
<1>2. PICK s \in ProcType : s = Refreshed(proc[p])
  BY <1>1 DEF Knows, AtTheEnd
<1>3. Knows(s) /\ s.up = "up"
  BY <1>1, <1>2
<1>4. PICK d : d = [version |-> s.cur.version + 1, wm |-> Max({r.lsn : r \in s.mem}),
                    events |-> s.cur.events \cup {r.event : r \in s.mem}]
  OBVIOUS
<1>5. PICK t : t = [s EXCEPT !.cur = d]
  OBVIOUS
<1>6. /\ s.mem # {} /\ disk' \in {d, disk} /\ proc' = [proc EXCEPT ![p] = t] /\ holder' = p
      /\ UNCHANGED <<file, ckpt, made, frames, acked, tears>>
  BY <1>2, <1>4, <1>5 DEF FlushCommit
<1>7. /\ d \in DiskType /\ HasPrefix(d, 2 * Whole) /\ Exact(d)
      /\ t \in ProcType /\ t.up = s.up /\ t.scanned = s.scanned /\ t.next = s.next
      /\ t.mem = s.mem /\ HandleGood(t) /\ Serving(t)
  BY <1>3, <1>4, <1>5, <1>6, FlushedManifest
<1>8. /\ Kept /\ file' \in Seq(CellType) /\ Chained' /\ Torn'
      /\ made' \in Nat /\ frames' \in Nat /\ frames <= frames'
      /\ \A i \in 1..Len(file') : NextAfter(file'[i].batch) <= 1 + 2 * frames'
      /\ Whole' = Whole /\ PrefixRows' = PrefixRows
  BY <1>6, SameFile
<1>9. /\ ckpt' \in [len : Nat, lsn : Nat, next : Nat \ {0}] /\ ckpt'.next <= 1 + 2 * frames'
      /\ acked' \subseteq RowType /\ (tears' = 0 => acked' \subseteq PrefixRows')
      /\ disk \in DiskType /\ Exact(disk) /\ HasPrefix(disk, 2 * Whole)
      /\ ckpt.len \in Nat /\ ckpt.lsn \in Nat /\ ckpt.next \in Nat
      /\ Offset(ckpt.len, ckpt.next) /\ Checkpoint(ckpt.len, ckpt.lsn)
  BY <1>6, <1>8 DEF Good, Shape, Bounded, FilesGood
<1>10. PICK e \in DiskType : e = disk' /\ Exact(e) /\ HasPrefix(e, 2 * Whole)
  BY <1>6, <1>7, <1>9
<1>11. FilesGood'
  <2>1. PICK c : c = ckpt
    OBVIOUS
  <2>2. Offset(c.len, c.next)' /\ Checkpoint(c.len, c.lsn)' /\ Exact(e)'
    BY <1>8, <1>9, <1>10, <2>1, OffsetStays, CheckpointStays, ExactStays
  <2>3. PICK k \in Nat : k = 2 * Whole
    BY <1>8 DEF Kept
  <2>4. HasPrefix(e, k)'
    BY <1>8, <1>10, <2>3, PrefixStays
  <2>5. HasPrefix(e, 2 * Whole)'
    BY <1>8, <2>3, <2>4
  <2>6. ckpt' = c /\ disk' = e
    BY <1>6, <1>10, <2>1
  <2>7. Offset(ckpt.len, ckpt.next)' /\ Checkpoint(ckpt.len, ckpt.lsn)' /\ Exact(disk)'
        /\ HasPrefix(disk, 2 * Whole)'
    BY <2>2, <2>5, <2>6
  <2>8. QED
    BY <2>7 DEF FilesGood
<1>12. HandleGood(t)' /\ Serving(t)'
  BY <1>7, <1>8, HandleStays, ServingStays
<1>13. /\ t.up = "up" /\ t.scanned >= 2 * Whole' /\ t.next <= 1 + 2 * frames'
       /\ \A r \in t.mem : r.lsn <= 2 * frames'
  BY <1>3, <1>6, <1>7, <1>8 DEF Knows, AtTheEnd
<1>14. disk' \in DiskType
  BY <1>10
<1>15. t.up # "opened"
  BY <1>13
<1>16. QED
  BY <1>1, <1>6, <1>7, <1>8, <1>9, <1>11, <1>12, <1>13, <1>14, <1>15, StepGood

\* The checkpoint of a flush: accepted only where all that the prefix has is at or
\* below the watermark.
LEMMA FlushCheckpointGood ==
  ASSUME Good, NEW p \in Procs, FlushCheckpoint(p)
  PROVE  Good'
<1>1. PICK s \in ProcType : s = proc[p]
  BY DEF Good, Shape
<1>2. /\ holder = p /\ holder' = Nobody /\ p # Nobody /\ s.up = "up" /\ s.scanned >= 2 * Whole
      /\ HandleGood(s) /\ Serving(s)
      /\ s.next <= 1 + 2 * frames /\ \A r \in s.mem : r.lsn <= 2 * frames
  BY <1>1, NobodyIsNoProc DEF FlushCheckpoint, Good, HolderGood, ProcGood, Bounded
<1>3. /\ s.next \in Nat \ {0} /\ s.scanned \in Nat /\ s.tail \in Nat /\ s.cur \in DiskType
      /\ s.cur.wm \in Nat /\ s.mem \subseteq RowType
      /\ file \in Seq(CellType) /\ Chained /\ tears \in Nat
  BY DEF ProcType, DiskType, Good, Shape
<1>4. /\ UNCHANGED <<file, disk, made, frames, acked, tears>>
  BY DEF FlushCheckpoint, counters
<1>5. /\ Kept /\ file' \in Seq(CellType) /\ Chained' /\ Torn'
      /\ made' \in Nat /\ frames' \in Nat /\ frames <= frames'
      /\ \A i \in 1..Len(file') : NextAfter(file'[i].batch) <= 1 + 2 * frames'
      /\ Whole' = Whole /\ PrefixRows' = PrefixRows
  BY <1>4, SameFile
<1>6. Whole \in Nat /\ Whole \in 0..Whole /\ NextAt(Whole) \in Nat
  BY <1>3, WholeFacts, NextAtGrows
<1>7. s.next >= NextAt(Whole)
  <2>1. CASE \E i \in 0..Whole : s.scanned = 2 * i /\ s.next = NextAt(i)
    <3>1. PICK i \in 0..Whole : s.scanned = 2 * i /\ s.next = NextAt(i)
      BY <2>1
    <3>2. i = Whole
      BY <1>2, <1>6, <3>1
    <3>3. QED
      BY <1>6, <3>1, <3>2
  <2>2. QED
    BY <1>2, <2>1 DEF Serving
<1>8. ASSUME s.cur.wm = TailOf(s)
      PROVE  Checkpoint(s.scanned, s.cur.wm)
  <2>1. Offset(s.scanned, s.next) /\ s.next \in Nat
    BY <1>2, <1>3 DEF HandleGood
  <2>2. ASSUME NEW j \in 0..(Whole - 1), NEW r \in RowsOf(BatchAt(j)) PROVE r.lsn <= s.cur.wm
    <3>1. r.lsn \in Nat /\ r.lsn < NextAt(Whole)
      BY <1>3, PrefixRowFacts DEF RowType
    <3>2. QED
      BY <1>3, <1>6, <1>7, <1>8, <3>1 DEF TailOf
  <2>3. QED
    BY <2>1, <2>2 DEF Checkpoint
<1>9. \E t \in ProcType : \E c \in [len : Nat, lsn : Nat, next : Nat \ {0}] :
        /\ proc' = [proc EXCEPT ![p] = t] /\ ckpt' = c
        /\ t.up = "up" /\ t.scanned = s.scanned /\ t.next = s.next /\ t.cur = s.cur
        /\ t.tail = s.tail /\ t.mem = {r \in s.mem : r.lsn > s.cur.wm}
        /\ Checkpoint(t.cklen, t.cklsn)
        /\ Offset(c.len, c.next) /\ Checkpoint(c.len, c.lsn) /\ c.next <= 1 + 2 * frames
  <2> DEFINE evicted == [s EXCEPT !.mem = {r \in s.mem : r.lsn > s.cur.wm}]
  <2>1. /\ evicted \in ProcType /\ evicted.up = "up" /\ evicted.scanned = s.scanned
        /\ evicted.next = s.next /\ evicted.cur = s.cur /\ evicted.tail = s.tail
        /\ evicted.mem = {r \in s.mem : r.lsn > s.cur.wm}
        /\ evicted.cklen = s.cklen /\ evicted.cklsn = s.cklsn
    BY <1>2, <1>3 DEF ProcType
  <2>2. CASE s.cur.wm = TailOf(s)
    <3> DEFINE t == [evicted EXCEPT !.cklen = s.scanned, !.cklsn = s.cur.wm]
               c == [len |-> s.scanned, lsn |-> s.cur.wm, next |-> s.next]
    <3>1. proc' = [proc EXCEPT ![p] = t] /\ ckpt' = c
      BY <1>1, <2>2 DEF FlushCheckpoint
    <3>2. /\ t \in ProcType /\ t.up = "up" /\ t.scanned = s.scanned
          /\ t.next = s.next /\ t.cur = s.cur /\ t.tail = s.tail
          /\ t.mem = {r \in s.mem : r.lsn > s.cur.wm}
          /\ t.cklen = s.scanned /\ t.cklsn = s.cur.wm
      <4> HIDE DEF evicted
      <4>1. QED
        BY <1>3, <2>1 DEF ProcType
    <3>3. Checkpoint(s.scanned, s.cur.wm) /\ Offset(s.scanned, s.next)
      BY <1>2, <1>8, <2>2 DEF HandleGood
    <3>4. /\ c \in [len : Nat, lsn : Nat, next : Nat \ {0}]
          /\ c.len = s.scanned /\ c.lsn = s.cur.wm /\ c.next = s.next
      BY <1>3
    <3> HIDE DEF t, c
    <3>5. QED
      BY <1>2, <3>1, <3>2, <3>3, <3>4
  <2>3. CASE s.cur.wm # TailOf(s)
    <3>1. proc' = [proc EXCEPT ![p] = evicted] /\ ckpt' = ckpt
      BY <1>1, <2>3 DEF FlushCheckpoint
    <3>2. /\ ckpt \in [len : Nat, lsn : Nat, next : Nat \ {0}]
          /\ Offset(ckpt.len, ckpt.next) /\ Checkpoint(ckpt.len, ckpt.lsn)
          /\ ckpt.next <= 1 + 2 * frames
      BY DEF Good, Shape, FilesGood, Bounded
    <3>3. Checkpoint(evicted.cklen, evicted.cklsn)
      BY <1>2, <2>1 DEF HandleGood
    <3> HIDE DEF evicted
    <3>4. QED
      BY <2>1, <3>1, <3>2, <3>3
  <2>4. QED
    BY <2>2, <2>3
<1>10. PICK t \in ProcType, c \in [len : Nat, lsn : Nat, next : Nat \ {0}] :
        /\ proc' = [proc EXCEPT ![p] = t] /\ ckpt' = c
        /\ t.up = "up" /\ t.scanned = s.scanned /\ t.next = s.next /\ t.cur = s.cur
        /\ t.tail = s.tail /\ t.mem = {r \in s.mem : r.lsn > s.cur.wm}
        /\ Checkpoint(t.cklen, t.cklsn)
        /\ Offset(c.len, c.next) /\ Checkpoint(c.len, c.lsn) /\ c.next <= 1 + 2 * frames
  BY <1>9
<1>11. HandleGood(t) /\ Fresh(t)
  BY <1>2, <1>10 DEF HandleGood, Fresh
<1>12. Serving(t)
  <2>1. \A j \in 0..(Whole - 1) : 2 * j < t.scanned => \A r \in RowsOf(BatchAt(j)) :
          r.lsn > t.cur.wm => r \in t.mem /\ r.lsn <= t.tail
    BY <1>2, <1>10 DEF Serving
  <2>2. tears = 0 => t.mem \subseteq PrefixRows
    BY <1>2, <1>10 DEF Serving
  <2>3. \/ \E i \in 0..Whole : /\ t.scanned = 2 * i /\ t.next = NextAt(i)
                               /\ t.cur.wm < t.next /\ t.tail = t.next - 1
        \/ tears > 0 /\ t.scanned >= 2 * Whole /\ t.next >= NextAt(Whole)
    BY <1>2, <1>10 DEF Serving
  <2>4. HasPrefix(t.cur, t.scanned) /\ Exact(t.cur)
    BY <1>2, <1>10 DEF Serving
  <2>5. QED
    BY <2>1, <2>2, <2>3, <2>4 DEF Serving
<1>13. HandleGood(t)' /\ Serving(t)' /\ Fresh(t)'
  BY <1>5, <1>11, <1>12, HandleStays, ServingStays
<1>14. FilesGood'
  <2>1. PICK d \in DiskType : d = disk /\ HasPrefix(d, 2 * Whole) /\ Exact(d)
    BY DEF Good, Shape, FilesGood
  <2>2. Offset(c.len, c.next)' /\ Checkpoint(c.len, c.lsn)' /\ Exact(d)'
    BY <1>5, <1>10, <2>1, OffsetStays, CheckpointStays, ExactStays
  <2>3. PICK k \in Nat : k = 2 * Whole
    BY <1>6
  <2>4. HasPrefix(d, k)'
    BY <1>5, <2>1, <2>3, PrefixStays
  <2>5. HasPrefix(d, 2 * Whole)'
    BY <1>5, <2>3, <2>4
  <2>6. ckpt' = c /\ disk' = d
    BY <1>4, <1>10, <2>1
  <2>7. Offset(ckpt.len, ckpt.next)' /\ Checkpoint(ckpt.len, ckpt.lsn)' /\ Exact(disk)'
        /\ HasPrefix(disk, 2 * Whole)'
    BY <2>2, <2>5, <2>6
  <2>8. QED
    BY <2>7 DEF FilesGood
<1>15. /\ disk' \in DiskType /\ acked' \subseteq RowType
       /\ tears' = 0 => acked' \subseteq PrefixRows'
  BY <1>4, <1>5 DEF Good, Shape
<1>16. /\ ckpt' \in [len : Nat, lsn : Nat, next : Nat \ {0}] /\ ckpt'.next <= 1 + 2 * frames'
       /\ t.next <= 1 + 2 * frames' /\ \A r \in t.mem : r.lsn <= 2 * frames'
  BY <1>2, <1>4, <1>10
<1>17. holder' # p /\ t.up # "opened"
  BY <1>2, <1>10
<1>18. QED
  BY <1>2, <1>5, <1>10, <1>13, <1>14, <1>15, <1>16, <1>17, StepGood

-----------------------------------------------------------------------------
(* The invariant.                                                          *)

\* As long as no write of the log failed, every step keeps what is good.
LEMMA NextGood ==
  ASSUME Good, OpenedFits, fails \in Nat, Next, fails' = fails
  PROVE  Good'
<1>1. PICK p \in Procs :
        \/ Open(p) \/ Recover(p) \/ ReadRefresh(p) \/ Crash(p)
        \/ FlushCommit(p) \/ FlushCheckpoint(p)
        \/ \E n \in 0..2 : \/ Ingest(p, n) \/ CrashBeforeAck(p, n)
                           \/ CrashTearsFrame(p, n) \/ IngestWriteFails(p, n)
  BY DEF Next
<1>2. CASE Open(p)
  BY <1>2, OpenGood
<1>3. CASE Recover(p)
  BY <1>3, RecoverGood
<1>4. CASE ReadRefresh(p)
  BY <1>4, ReadRefreshGood
<1>5. CASE Crash(p)
  BY <1>5, CrashGood
<1>6. CASE FlushCommit(p)
  BY <1>6, FlushCommitGood
<1>7. CASE FlushCheckpoint(p)
  BY <1>7, FlushCheckpointGood
<1>8. ASSUME NEW n \in 0..2, Ingest(p, n) PROVE Good'
  BY <1>8, IngestGood
<1>9. ASSUME NEW n \in 0..2, CrashBeforeAck(p, n) \/ CrashTearsFrame(p, n) PROVE Good'
  BY <1>9, CrashInAppendGood
<1>10. ASSUME NEW n \in 0..2, IngestWriteFails(p, n) PROVE FALSE
  BY <1>10 DEF IngestWriteFails
<1>11. QED
  BY <1>1, <1>2, <1>3, <1>4, <1>5, <1>6, <1>7, <1>8, <1>9, <1>10

\* A process that opens takes the manifest of the disk, and the first one that is
\* saved there has a version above 0.
LEMMA OpenedNext ==
  ASSUME Good, OpenedFits, Next
  PROVE  OpenedFits'
<1>1. PICK p \in Procs :
        \/ Open(p) \/ Recover(p) \/ ReadRefresh(p) \/ Crash(p)
        \/ FlushCommit(p) \/ FlushCheckpoint(p)
        \/ \E n \in 0..2 : \/ Ingest(p, n) \/ CrashBeforeAck(p, n)
                           \/ CrashTearsFrame(p, n) \/ IngestWriteFails(p, n)
  BY DEF Next
<1>2. proc \in [Procs -> ProcType] /\ disk \in DiskType
  BY DEF Good, Shape
<1>3. ASSUME disk' = disk, NEW t, proc' = [proc EXCEPT ![p] = t],
             t.up = "opened" => t.cur = disk
      PROVE  OpenedFits'
  BY <1>2, <1>3 DEF OpenedFits
<1>4. CASE Open(p)
  BY <1>3, <1>4, OpenedGood DEF Open
<1>5. CASE Recover(p)
  <2>1. Recovered(proc[p]).up = "up"
    <3>1. PICK s \in ProcType : s = proc[p]
      BY <1>2
    <3>2. /\ HandleGood(s) /\ s.tail = 0 /\ s.next <= 1 + 2 * frames
          /\ disk.version = 0 => s.cur = disk
      BY <1>5, <3>1 DEF Good, ProcGood, Recover, Bounded, OpenedFits
    <3>3. QED
      BY <3>1, <3>2, RecoveredKnows
  <2>2. QED
    BY <1>3, <1>5, <2>1 DEF Recover
<1>6. ASSUME LockFree, proc[p].up = "up"
      PROVE  Refreshed(proc[p]) \in ProcType /\ Refreshed(proc[p]).up = "up"
  BY <1>6, UpKnows DEF Knows, AtTheEnd
<1>7. CASE ReadRefresh(p)
  BY <1>3, <1>6, <1>7 DEF ReadRefresh
<1>8. CASE Crash(p)
  BY <1>3, <1>8, DownIsDown DEF Crash
<1>9. CASE FlushCommit(p)
  <2>1. PICK s \in ProcType : s = Refreshed(proc[p]) /\ s.up = "up"
    BY <1>6, <1>9 DEF FlushCommit
  <2>2. PICK wm, events : LET next == [version |-> s.cur.version + 1, wm |-> wm, events |-> events]
                          IN  /\ disk' = next \/ disk' = disk
                              /\ proc' = [proc EXCEPT ![p] = [s EXCEPT !.cur = next]]
    BY <1>9, <2>1 DEF FlushCommit
  <2>3. CASE disk' = disk
    <3>1. PICK t : t.up = "up" /\ proc' = [proc EXCEPT ![p] = t]
      BY <2>1, <2>2 DEF ProcType
    <3>2. QED
      BY <1>3, <2>3, <3>1
  <2>4. CASE disk' # disk
    <3>1. disk'.version = s.cur.version + 1 /\ s.cur.version \in Nat
      BY <2>2, <2>4 DEF ProcType, DiskType
    <3>2. disk'.version # 0
      BY <3>1
    <3>3. QED
      BY <3>2 DEF OpenedFits
  <2>5. QED
    BY <2>3, <2>4
<1>10. CASE FlushCheckpoint(p)
  <2>1. proc[p] \in ProcType /\ proc[p].up = "up" /\ disk' = disk
    BY <1>2, <1>10, NobodyIsNoProc DEF FlushCheckpoint, Good, HolderGood
  <2>2. PICK t : t.up = "up" /\ proc' = [proc EXCEPT ![p] = t]
    BY <1>10, <2>1 DEF FlushCheckpoint, ProcType
  <2>3. QED
    BY <1>3, <2>1, <2>2
<1>11. ASSUME NEW n \in 0..2, Ingest(p, n) \/ IngestWriteFails(p, n) PROVE OpenedFits'
  <2>1. PICK s \in ProcType : s = Refreshed(proc[p]) /\ s.up = "up" /\ disk' = disk
    BY <1>6, <1>11 DEF Ingest, IngestWriteFails, CanIngest
  <2>2. Appended(s, n).up = "up"
    BY <2>1 DEF Appended, ProcType
  <2>3. QED
    BY <1>3, <1>11, <2>1, <2>2 DEF Ingest, IngestWriteFails
<1>12. ASSUME NEW n \in 0..2, CrashBeforeAck(p, n) \/ CrashTearsFrame(p, n) PROVE OpenedFits'
  BY <1>3, <1>12, DownIsDown DEF CrashBeforeAck, CrashTearsFrame
<1>13. QED
  BY <1>1, <1>4, <1>5, <1>7, <1>8, <1>9, <1>10, <1>11, <1>12

\* The empty log is good.
LEMMA InitGood ==
  ASSUME Init
  PROVE  IInv
<1>1. /\ file = <<>> /\ ckpt = NoState /\ disk = EmptyDisk
      /\ proc = [p \in Procs |-> Down] /\ holder = Nobody
      /\ made = 0 /\ frames = 0 /\ acked = {} /\ tears = 0 /\ fails = 0
  BY DEF Init
<1>2. Shape
  BY <1>1, DownIsDown DEF Shape, NoState, EmptyDisk, DiskType
<1>3. Len(file) = 0 /\ file \in Seq(CellType)
  BY <1>1, <1>2 DEF Shape
<1>4. Whole = 0 /\ 0..Whole = {0} /\ 0..(Whole - 1) = {}
  <2>1. Whole \in Nat /\ 2 * Whole <= 0
    BY <1>3, WholeFacts
  <2>2. QED
    BY <2>1
<1>5. Chained /\ Torn
  <2>1. (2 * Whole + 1)..Len(file) = {}
    BY <1>3, <1>4
  <2>2. QED
    BY <1>1, <1>3, <1>4, <2>1 DEF Chained, Torn
<1>6. Bounded
  <2>1. 1..Len(file) = {}
    BY <1>3
  <2>2. QED
    BY <1>1, <2>1, DownIsDown DEF Bounded, NoState
<1>7. Offset(0, 1) /\ Checkpoint(0, 0)
  <2>1. Offset(0, 1)
    BY <1>3, <1>4 DEF Offset, NextAt
  <2>2. QED
    BY <1>4, <2>1 DEF Checkpoint
<1>8. FilesGood
  <2>1. HasPrefix(disk, 2 * Whole)
    BY <1>4 DEF HasPrefix
  <2>2. Exact(disk)
    BY <1>1, <1>4 DEF Exact, EmptyDisk, NextAt
  <2>3. QED
    BY <1>1, <1>7, <2>1, <2>2 DEF FilesGood, NoState
<1>9. \A p \in Procs : ProcGood(p)
  BY <1>1, DownIsDown DEF ProcGood
<1>10. OpenedFits
  BY <1>1, DownIsDown DEF OpenedFits
<1>11. QED
  BY <1>1, <1>2, <1>5, <1>6, <1>8, <1>9, <1>10 DEF IInv, Good, HolderGood

\* Every step of the specification keeps the invariant.
LEMMA NextKeeps ==
  ASSUME IInv, [Next]_vars
  PROVE  IInv'
<1>1. fails \in Nat /\ (fails = 0 => Good /\ OpenedFits)
  BY DEF IInv
<1>2. CASE Next
  <2>1. fails' = fails \/ fails' = fails + 1
    BY <1>2 DEF Next, Open, Recover, ReadRefresh, Crash, FlushCommit, FlushCheckpoint, Ingest,
         CrashBeforeAck, CrashTearsFrame, IngestWriteFails, counters
  <2>2. CASE fails' = fails
    BY <1>1, <1>2, <2>2, NextGood, OpenedNext DEF IInv
  <2>3. CASE fails' = fails + 1
    <3>1. fails' \in Nat /\ fails' # 0
      BY <1>1, <2>3
    <3>2. QED
      BY <3>1 DEF IInv
  <2>4. QED
    BY <2>1, <2>2, <2>3
<1>3. CASE UNCHANGED vars
  <2>1. /\ UNCHANGED <<file, ckpt, disk, proc, holder>>
        /\ UNCHANGED <<made, frames, acked, tears, fails>>
    BY <1>3 DEF vars, counters
  <2>2. SUFFICES ASSUME Good PROVE Good'
    BY <1>1, <2>1 DEF IInv, OpenedFits
  <2>3. /\ Kept /\ Chained' /\ Torn' /\ PrefixRows' = PrefixRows /\ Whole' = Whole
    BY <2>1, <2>2, SameFile
  <2>4. Shape' /\ Bounded' /\ HolderGood'
    BY <2>1, <2>2, <2>3 DEF Good, Shape, Bounded, HolderGood
  <2>5. FilesGood'
    BY <2>1, <2>2, <2>3, FilesStay
  <2>6. ASSUME NEW p \in Procs PROVE ProcGood(p)'
    <3>1. PICK s \in ProcType : s = proc[p]
      BY <2>2 DEF Good, Shape
    <3>2. /\ s.up # "down" => HandleGood(s)
          /\ s.up = "opened" => s.tail = 0
          /\ s.up = "up" => Serving(s)
          /\ s.up = "up" /\ holder # p => Fresh(s)
      BY <2>2, <3>1 DEF Good, ProcGood
    <3>3. /\ s.up # "down" => HandleGood(s)'
          /\ s.up = "up" => Serving(s)'
          /\ s.up = "up" /\ holder # p => Fresh(s)'
      <4>1. s.up = "up" => s.up # "down"
        OBVIOUS
      <4>2. QED
        BY <2>3, <3>2, <4>1, HandleStays, ServingStays
    <3>4. proc[p]' = s /\ holder' = holder
      BY <2>1, <3>1
    <3>5. QED
      BY <3>2, <3>3, <3>4 DEF ProcGood
  <2>7. tears' = 0 => acked' \subseteq PrefixRows'
    BY <2>1, <2>2, <2>3 DEF Good
  <2>8. QED
    BY <2>3, <2>4, <2>5, <2>6, <2>7 DEF Good
<1>4. QED
  BY <1>2, <1>3

\* The inductive invariant holds in every state the program can reach.
THEOREM Invariance == Spec => []IInv
<1>1. Init => IInv
  BY InitGood
<1>2. IInv /\ [Next]_vars => IInv'
  BY NextKeeps
<1>3. QED
  BY <1>1, <1>2, PTL DEF Spec

-----------------------------------------------------------------------------
(* What follows from it.                                                   *)

\* A process that knows all there is to know serves every row of the prefix, from
\* its segments or from its MemTable.
LEMMA KnownIsServed ==
  ASSUME Good, NEW s \in ProcType, Knows(s)
  PROVE  EventsIn(PrefixRows) \subseteq Served(s)
<1>1. /\ file \in Seq(CellType) /\ Chained /\ Serving(s) /\ s.scanned >= 2 * Whole
      /\ s.scanned \in Nat /\ s.cur.wm \in Nat
  BY DEF Good, Shape, Knows, AtTheEnd, ProcType, DiskType
<1>2. Whole \in Nat
  BY <1>1, WholeFacts
<1>3. SUFFICES ASSUME NEW j \in 0..(Whole - 1), NEW r \in RowsOf(BatchAt(j))
               PROVE  r.event \in Served(s)
  BY DEF EventsIn, PrefixRows
<1>4. 2 * j < s.scanned /\ r.lsn \in Nat
  BY <1>1, <1>2, PrefixRowFacts DEF RowType
<1>5. CASE r.lsn <= s.cur.wm
  <2>1. r.event \in s.cur.events
    BY <1>1, <1>4, <1>5 DEF Serving, HasPrefix
  <2>2. QED
    BY <2>1 DEF Served
<1>6. CASE s.cur.wm < r.lsn
  <2>1. r \in s.mem /\ r.lsn <= s.tail
    BY <1>1, <1>4, <1>6 DEF Serving
  <2>2. QED
    BY <1>6, <2>1 DEF Served, EventsIn
<1>7. QED
  BY <1>1, <1>4, <1>5, <1>6

\* A restart knows all there is to know.
LEMMA RestartServes ==
  ASSUME Good
  PROVE  EventsIn(PrefixRows) \subseteq AfterRestart
<1>1. PICK s \in ProcType : s = Opened
  BY OpenedGood
<1>2. HandleGood(s) /\ s.tail = 0 /\ s.next <= 1 + 2 * frames /\ s.cur = disk
  BY <1>1, OpenedGood
<1>3. Knows(Recovered(s))
  BY <1>2, RecoveredKnows
<1>4. PICK t \in ProcType : t = Recovered(s)
  BY <1>3 DEF Knows, AtTheEnd
<1>5. EventsIn(PrefixRows) \subseteq Served(t)
  BY <1>3, <1>4, KnownIsServed
<1>6. AfterRestart = Served(t)
  BY <1>1, <1>4 DEF AfterRestart
<1>7. QED
  BY <1>5, <1>6

\* Two rows of the prefix with one LSN, or with one event, are one row.
LEMMA PrefixRowsDiffer ==
  ASSUME Good, NEW r \in PrefixRows, NEW q \in PrefixRows,
         r.lsn = q.lsn \/ r.event = q.event
  PROVE  r = q
<1>1. file \in Seq(CellType) /\ Chained
  BY DEF Good, Shape
<1>2. Whole \in Nat /\ \A j \in 0..(Whole - 1) : BatchAt(j) \in BatchType
  BY <1>1, WholeFacts
<1>3. PICK i \in 0..(Whole - 1) : r \in RowsOf(BatchAt(i))
  BY DEF PrefixRows
<1>4. PICK j \in 0..(Whole - 1) : q \in RowsOf(BatchAt(j))
  BY DEF PrefixRows
<1>5. \A k \in 0..(Whole - 1) : \A x \in RowsOf(BatchAt(k)) :
        /\ x.lsn \in Nat /\ x.event \in Nat
        /\ BatchAt(k).first \in Nat /\ BatchAt(k).event \in Nat /\ BatchAt(k).n \in Nat
        /\ NextAfter(BatchAt(k)) \in Nat
        /\ BatchAt(k).first <= x.lsn /\ x.lsn < NextAfter(BatchAt(k))
        /\ BatchAt(k).event <= x.event /\ x.event < BatchAt(k).event + BatchAt(k).n
        /\ x.lsn - BatchAt(k).first = x.event - BatchAt(k).event
        /\ x = [lsn |-> x.lsn, event |-> x.event]
  <2>1. SUFFICES ASSUME NEW k \in 0..(Whole - 1), NEW x \in RowsOf(BatchAt(k))
        PROVE
        /\ x.lsn \in Nat /\ x.event \in Nat
        /\ BatchAt(k).first \in Nat /\ BatchAt(k).event \in Nat /\ BatchAt(k).n \in Nat
        /\ NextAfter(BatchAt(k)) \in Nat
        /\ BatchAt(k).first <= x.lsn /\ x.lsn < NextAfter(BatchAt(k))
        /\ BatchAt(k).event <= x.event /\ x.event < BatchAt(k).event + BatchAt(k).n
        /\ x.lsn - BatchAt(k).first = x.event - BatchAt(k).event
        /\ x = [lsn |-> x.lsn, event |-> x.event]
    OBVIOUS
  <2>2. PICK b \in BatchType : b = BatchAt(k)
    BY <1>2
  <2>3. x \in RowsOf(b)
    BY <2>2
  <2>4. /\ x \in RowType /\ NextAfter(b) \in Nat
        /\ b.first <= x.lsn /\ x.lsn < NextAfter(b)
        /\ b.event <= x.event /\ x.event < b.event + b.n
        /\ x.lsn - b.first = x.event - b.event
        /\ x = [lsn |-> x.lsn, event |-> x.event]
    BY <2>3, RowFacts
  <2>5. b.first \in Nat /\ b.event \in Nat /\ b.n \in Nat
    BY DEF BatchType
  <2>6. x.lsn \in Nat /\ x.event \in Nat
    BY <2>4 DEF RowType
  <2>7. QED
    BY <2>2, <2>4, <2>5, <2>6
<1>6. ASSUME NEW k \in 0..(Whole - 1), NEW m \in 0..(Whole - 1), k < m,
             NEW x \in RowsOf(BatchAt(k)), NEW y \in RowsOf(BatchAt(m))
      PROVE  x.lsn # y.lsn /\ x.event # y.event
  <2>1. k \in 0..(m - 1)
    BY <1>6
  <2>2. /\ NextAfter(BatchAt(k)) <= BatchAt(m).first
        /\ BatchAt(k).event + BatchAt(k).n <= BatchAt(m).event
    BY <1>1, <2>1 DEF Chained
  <2>3. QED
    BY <1>5, <2>2
<1>7. i = j
  <2>1. i \in Nat /\ j \in Nat
    OBVIOUS
  <2>2. ~(i < j) /\ ~(j < i)
    BY <1>3, <1>4, <1>6
  <2>3. QED
    BY <2>1, <2>2
<1>8. r.lsn = q.lsn /\ r.event = q.event
  BY <1>3, <1>4, <1>5, <1>7
<1>9. QED
  BY <1>3, <1>4, <1>5, <1>8

\* "Acked data is not lost": unless a frame was torn or a write of the log failed
\* unnoticed, a restart at any moment brings back every event whose ingest returned.
THEOREM AckedSurvivesARestart == Spec => []AckedDurableWhenSound
<1>1. IInv => AckedDurableWhenSound
  <2>1. SUFFICES ASSUME IInv, Sound PROVE AckedDurable
    BY DEF AckedDurableWhenSound
  <2>2. Good /\ acked \subseteq PrefixRows
    BY <2>1 DEF IInv, Sound, Good
  <2>3. EventsIn(acked) \subseteq EventsIn(PrefixRows)
    BY <2>2 DEF EventsIn
  <2>4. QED
    BY <2>2, <2>3, RestartServes DEF AckedDurable
<1>2. QED
  BY <1>1, Invariance, PTL

\* The intact prefix of the log survives a restart even after torn frames: recovery
\* skips nothing of it that is not in a segment.
THEOREM PrefixSurvivesARestart == Spec => []PrefixDurable
<1>1. IInv => PrefixDurable
  <2>1. SUFFICES ASSUME IInv, fails = 0 PROVE EventsIn(ParsedRows(0)) \subseteq AfterRestart
    BY DEF PrefixDurable
  <2>2. Good /\ file \in Seq(CellType)
    BY <2>1 DEF IInv, Good, Shape
  <2>3. QED
    BY <2>2, RestartServes, PrefixIsParsed
<1>2. QED
  BY <1>1, Invariance, PTL

\* A process that gets the lock and refreshes serves every event that any process
\* has acked.
THEOREM RefreshSeesEveryAck == Spec => []LockHolderSeesAll
<1>1. IInv => LockHolderSeesAll
  <2>1. SUFFICES ASSUME IInv, Sound, LockFree, NEW p \in Procs, proc[p].up = "up"
                 PROVE  EventsIn(acked) \subseteq Served(Refreshed(proc[p]))
    BY DEF LockHolderSeesAll
  <2>2. Good /\ acked \subseteq PrefixRows
    BY <2>1 DEF IInv, Sound, Good
  <2>3. Knows(Refreshed(proc[p]))
    BY <2>1, <2>2, UpKnows
  <2>4. PICK t \in ProcType : t = Refreshed(proc[p])
    BY <2>3 DEF Knows, AtTheEnd
  <2>5. EventsIn(PrefixRows) \subseteq Served(t)
    BY <2>2, <2>3, <2>4, KnownIsServed
  <2>6. EventsIn(acked) \subseteq EventsIn(PrefixRows)
    BY <2>2 DEF EventsIn
  <2>7. QED
    BY <2>4, <2>5, <2>6
<1>2. QED
  BY <1>1, Invariance, PTL

\* However many processes append and restart, two acked events never share an LSN,
\* and a process that refreshed never serves an event twice.
THEOREM NothingIsThereTwice == Spec => []NothingTwice
<1>1. IInv => LsnUnique
  <2>1. SUFFICES ASSUME IInv, Sound, NEW r \in acked, NEW s \in acked, r.lsn = s.lsn
                 PROVE  r = s
    BY DEF LsnUnique
  <2>2. Good /\ acked \subseteq PrefixRows
    BY <2>1 DEF IInv, Sound, Good
  <2>3. QED
    BY <2>1, <2>2, PrefixRowsDiffer
<1>2. IInv => ServedOnce
  <2>1. SUFFICES ASSUME IInv, Sound, LockFree, NEW p \in Procs, proc[p].up = "up",
                        NEW t, t = Refreshed(proc[p]),
                        NEW r \in t.mem, t.cur.wm < r.lsn, r.event \in t.cur.events
                 PROVE  FALSE
    BY DEF ServedOnce
  <2>2. Good /\ tears = 0
    BY <2>1 DEF IInv, Sound
  <2>3. Knows(t)
    BY <2>1, <2>2, UpKnows
  <2>4. t \in ProcType /\ t.mem \subseteq PrefixRows
    BY <2>2, <2>3 DEF Knows, AtTheEnd, Serving
  <2>5. PICK q \in PrefixRows : q.event = r.event /\ q.lsn <= t.cur.wm
    BY <2>1, <2>2, <2>3 DEF Knows, Serving, Exact
  <2>6. r = q
    BY <2>2, <2>4, <2>5, PrefixRowsDiffer
  <2>7. r.lsn \in Nat /\ t.cur.wm \in Nat
    BY <2>4 DEF ProcType, DiskType, RowType
  <2>8. QED
    BY <2>1, <2>5, <2>6, <2>7
<1>3. IInv => NothingTwice
  BY <1>1, <1>2 DEF NothingTwice
<1>4. QED
  BY <1>3, Invariance, PTL

=============================================================================
