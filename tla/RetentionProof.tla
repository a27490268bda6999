----------------------------- MODULE RetentionProof -----------------------------
(***************************************************************************)
(* The ledger and retention, for any set of processes, any requests and    *)
(* any bounds.                                                             *)
(*                                                                         *)
(* Every save starts from the file as it is under the lock, so the file    *)
(* only goes on: records are added, or replaced by one of the same id with *)
(* a greater rev.  What a client was told of is in the file, and in the    *)
(* memory of the process that told it; a promise that was taken back never *)
(* comes again, as its id and rev are gone.  A retention request that runs *)
(* while a protecting record stands therefore reads it: from its own       *)
(* memory, or from a view that was current.                                *)
(***************************************************************************)
EXTENDS Retention, SequenceTheorems, FiniteSetTheorems, WellFoundedInduction, TLAPS

-----------------------------------------------------------------------------
(* The inductive invariant.                                                *)

AllRows == Rows \cup OldRows

\* Whatever can be read of a file is a ledger.
FileGood(f) ==
  \A g \in f : g.ver \in 1..FormatVer =>
    \A k \in KindsOf(g.ver) : Records(k, g.list[k]) /\ g.next[k] \in Nat

\* The ledger a process that starts now would read.
OnFile(f) == RefreshLedger(EmptyMem, f)
Filed(k) == ToSet(OnFile(disk.file).list[k])
Held(p, k) == ToSet(mem[p].list[k])

LedgerGood(l) ==
  /\ DOMAIN l.list = Kinds /\ DOMAIN l.next = Kinds
  /\ \A k \in Kinds : /\ Records(k, l.list[k]) /\ l.next[k] \in Nat
                      /\ \A i \in DOMAIN l.list[k] : l.list[k][i].id < l.next[k]
  /\ l.index = IndexOf(l.list)

SegsGood(segs) == \A s \in DOMAIN segs : segs[s].rows \subseteq AllRows

MemFields == {"segs", "tail", "list", "next", "index"}
MemGood(m) == MemFields \subseteq DOMAIN m /\ LedgerGood(m) /\ SegsGood(m.segs)

DiskGood ==
  /\ {"segs", "tail", "next", "file"} \subseteq DOMAIN disk
  /\ SegsGood(disk.segs) /\ disk.tail \subseteq AllRows
  /\ FileGood(disk.file)

\* A client was told only of what is on file, and what its process still holds.
PromisesGood ==
  \A x \in promised : /\ x.kind \in Kinds /\ x.rec \in Filed(x.kind)
                      /\ x.by \in up => x.rec \in Held(x.by, x.kind)

\* A record that protected a trace when the request began, as it was then.
ShieldGood(x, req) ==
  /\ \/ x.kind = "annotations" /\ Protecting({x.rec}, {}, req.protect) # {}
     \/ x.kind = "datasets" /\ Protecting({}, {x.rec}, req.protect) # {}
  /\ Matches(x.kind, x.rec, OfTenant(req.tenant))
  /\ x.rec.rev \in Nat
  /\ \E r \in Filed(x.kind) : r.id = x.rec.id /\ x.rec.rev <= r.rev

\* The promises this process must not miss.
Owed(p, j) == {x \in j.shields \cap promised : j.fresh \/ x.by = p}

JobFields == {"pc", "req", "policy", "queue", "fresh", "segs", "tail", "traces", "anns", "deed", "deleted", "shields"}
JobGood(p) ==
  LET j == job[p] IN
  j.pc # "idle" =>
    /\ p \in up /\ JobFields \subseteq DOMAIN j /\ SegsGood(j.segs)
    /\ j.pc \in {"annotations", "datasets", "delete"} => \A x \in j.shields : ShieldGood(x, j.req)
    /\ j.pc = "datasets" => \A x \in Owed(p, j) : x.kind = "annotations" => x.rec \in j.anns
    /\ j.pc = "delete" => \A x \in Owed(p, j) : x.rec.trace \notin j.traces
    /\ j.pc \in {"compact", "audit"} => IsFiniteSet(j.deleted) /\ j.deleted \subseteq Nat

\* What was deleted, deed by deed, and the audits that tell of it.
TrailGood == erased \in Seq(SUBSET Nat) /\ AuditTrail

IInv ==
  /\ DOMAIN mem = Procs /\ DOMAIN job = Procs /\ up \subseteq Procs /\ faults \in Nat
  /\ \A p \in Procs : MemGood(mem[p]) /\ JobGood(p)
  /\ DiskGood /\ PromisesGood /\ TrailGood /\ ProtectedKept

-----------------------------------------------------------------------------
(* Lists of records.                                                       *)

\* A list over any set is a list over its own elements.
LEMMA ListIs ==
  ASSUME NEW S, NEW s \in Seq(S)
  PROVE  s \in Seq(ToSet(s))
<1>1. \A i \in 1..Len(s) : s[i] \in ToSet(s)
  BY DEF ToSet
<1>2. s \in [1..Len(s) -> ToSet(s)] /\ Len(s) \in Nat
  BY <1>1
<1>3. QED
  BY <1>2, SeqDef

\* A record added at the end with an id of its own.
LEMMA RecordsAppend ==
  ASSUME NEW k, NEW s, Records(k, s), NEW e, {"id", "rev"} \subseteq DOMAIN e,
         e.id \in Nat, e.rev \in Nat, \A i \in DOMAIN s : s[i].id # e.id,
         k = "policies" => {"tenant", "name", "enabled", "attrs"} \subseteq DOMAIN e
  PROVE  /\ Records(k, Append(s, e)) /\ ToSet(Append(s, e)) = ToSet(s) \cup {e}
         /\ DOMAIN Append(s, e) = DOMAIN s \cup {Len(s) + 1} /\ Append(s, e)[Len(s) + 1] = e
         /\ \A i \in DOMAIN s : Append(s, e)[i] = s[i]
<1>1. PICK S : s \in Seq(S)
  BY DEF Records
<1>2. s \in Seq(S \cup {e})
  BY <1>1
<1> DEFINE t == Append(s, e)
<1>3. t \in Seq(S \cup {e})
  BY <1>2
<1>4. /\ DOMAIN t = DOMAIN s \cup {Len(s) + 1} /\ t[Len(s) + 1] = e
      /\ \A i \in DOMAIN s : t[i] = s[i]
      /\ Len(s) + 1 \notin DOMAIN s
  BY <1>2
<1>5. t \in Seq(ToSet(t))
  BY <1>3, ListIs
<1> HIDE DEF t
<1>6. ToSet(t) = ToSet(s) \cup {e}
  BY <1>4 DEF ToSet
<1>7. \A i \in DOMAIN t : /\ {"id", "rev"} \subseteq DOMAIN t[i] /\ t[i].id \in Nat /\ t[i].rev \in Nat
                          /\ k = "policies" => {"tenant", "name", "enabled", "attrs"} \subseteq DOMAIN t[i]
  BY <1>4 DEF Records
<1>8. \A i, j \in DOMAIN t : t[i].id = t[j].id => i = j
  BY <1>4 DEF Records
<1>9. Records(k, t)
  BY <1>5, <1>7, <1>8 DEF Records
<1>10. QED
  BY <1>4, <1>6, <1>9 DEF t

\* A record replaced by one of the same id.
LEMMA RecordsReplace ==
  ASSUME NEW k, NEW s, Records(k, s), NEW i \in DOMAIN s, NEW e, {"id", "rev"} \subseteq DOMAIN e,
         e.id = s[i].id, e.rev \in Nat,
         k = "policies" => {"tenant", "name", "enabled", "attrs"} \subseteq DOMAIN e
  PROVE  /\ Records(k, [s EXCEPT ![i] = e]) /\ DOMAIN [s EXCEPT ![i] = e] = DOMAIN s
         /\ [s EXCEPT ![i] = e][i] = e
         /\ \A j \in DOMAIN s \ {i} : [s EXCEPT ![i] = e][j] = s[j]
<1>1. PICK S : s \in Seq(S)
  BY DEF Records
<1>2. s \in Seq(S \cup {e})
  BY <1>1
<1> DEFINE t == [s EXCEPT ![i] = e]
<1>3. t \in Seq(S \cup {e})
  BY <1>2
<1>4. DOMAIN t = DOMAIN s /\ t[i] = e /\ \A j \in DOMAIN s \ {i} : t[j] = s[j]
  OBVIOUS
<1>5. t \in Seq(ToSet(t))
  BY <1>3, ListIs
<1> HIDE DEF t
<1>6. \A j \in DOMAIN t : /\ {"id", "rev"} \subseteq DOMAIN t[j] /\ t[j].id \in Nat /\ t[j].rev \in Nat
                          /\ k = "policies" => {"tenant", "name", "enabled", "attrs"} \subseteq DOMAIN t[j]
  BY <1>4 DEF Records
<1>7. \A j \in DOMAIN t : t[j].id = s[j].id
  BY <1>4
<1>8. \A j, h \in DOMAIN t : t[j].id = t[h].id => j = h
  BY <1>4, <1>7 DEF Records
<1>9. Records(k, t)
  BY <1>5, <1>6, <1>8 DEF Records
<1>10. QED
  BY <1>4, <1>9 DEF t

\* The empty list has the ids and the fields it needs.
LEMMA RecordsEmpty ==
  ASSUME NEW k
  PROVE  Records(k, <<>>)
<1>1. <<>> \in Seq(ToSet(<<>>)) /\ DOMAIN <<>> = {}
  BY ListIs
<1>2. QED
  BY <1>1 DEF Records

-----------------------------------------------------------------------------
(* The counter of the next id.                                             *)

\* A finite, non-empty set of naturals has a greatest element: the sets of its
\* members from k on are finite, and one of them includes no other.
LEMMA GreatestExists ==
  ASSUME NEW S, S \subseteq Nat, IsFiniteSet(S), S # {}
  PROVE  \E x \in S : \A y \in S : y <= x
<1> DEFINE From(k) == {j \in S : k <= j}
           T == {From(k) : k \in S}
<1>1. IsWellFoundedOn(StrictSubsetOrdering(Nat), FiniteSubsetsOf(Nat))
  BY FS_StrictSubsetOrderingWellFounded
<1>2. T \subseteq FiniteSubsetsOf(Nat) /\ T # {}
  <2>1. \A k \in S : From(k) \subseteq S /\ From(k) \subseteq Nat
    OBVIOUS
  <2>2. \A k \in S : IsFiniteSet(From(k))
    BY <2>1, FS_Subset
  <2>3. QED
    BY <2>1, <2>2 DEF FiniteSubsetsOf
<1>3. PICK t \in T : \A u \in T : <<u, t>> \notin StrictSubsetOrdering(Nat)
  <2> HIDE DEF T
  <2>1. QED
    BY <1>1, <1>2, WFMin
<1>4. PICK x \in S : t = From(x)
  OBVIOUS
<1>5. ASSUME NEW y \in S PROVE y <= x
  <2>1. ~(From(y) \subseteq From(x) /\ From(y) # From(x))
    <3>1. <<From(y), From(x)>> \notin StrictSubsetOrdering(Nat)
      BY <1>3, <1>4
    <3>2. From(y) \in SUBSET Nat /\ From(x) \in SUBSET Nat
      OBVIOUS
    <3> HIDE DEF From
    <3>3. QED
      BY <3>1, <3>2, Zenon DEF StrictSubsetOrdering
  <2>3. x \in Nat /\ y \in Nat
    OBVIOUS
  <2>2. x < y => From(y) \subseteq From(x) /\ x \in From(x) /\ x \notin From(y)
    <3>1. \A a, b, c \in Nat : a < b /\ b <= c => a <= c
      OBVIOUS
    <3>2. \A a, b \in Nat : a <= a /\ (a < b => ~(b <= a))
      OBVIOUS
    <3>3. QED
      BY <2>3, <3>1, <3>2
  <2> HIDE DEF From
  <2>4. QED
    BY <2>1, <2>2, <2>3
<1>6. QED
  BY <1>5

\* AboveIds is above all ids of a list.
LEMMA AboveIdsIs ==
  ASSUME NEW k, NEW s, Records(k, s)
  PROVE  AboveIds(s) \in Nat /\ \A i \in DOMAIN s : s[i].id < AboveIds(s)
<1> DEFINE ids == {1} \cup {s[i].id + 1 : i \in DOMAIN s}
<1>1. ids \subseteq Nat /\ ids # {} /\ \A i \in DOMAIN s : s[i].id \in Nat /\ s[i].id + 1 \in ids
  BY DEF Records
<1>2. IsFiniteSet(ids)
  <2>1. DOMAIN s = 1..Len(s) /\ Len(s) \in Nat
    BY DEF Records
  <2>2. IsFiniteSet(DOMAIN s)
    BY <2>1, FS_Interval
  <2>3. IsFiniteSet({s[i].id + 1 : i \in DOMAIN s})
    <3> DEFINE above == {s[i].id + 1 : i \in DOMAIN s}
               f == [i \in DOMAIN s |-> s[i].id + 1]
    <3>1. f \in Surjection(DOMAIN s, above)
      BY DEF Surjection
    <3> HIDE DEF f, above
    <3>2. IsFiniteSet(above)
      BY <2>2, <3>1, FS_Surjection
    <3>3. QED
      BY <3>2 DEF above
  <2>4. QED
    BY <2>3, FS_Singleton, FS_Union
<1>3. AboveIds(s) \in ids /\ \A id \in ids : id <= AboveIds(s)
  <2>1. \E x \in ids : \A y \in ids : y <= x
    <3> HIDE DEF ids
    <3>1. QED
      BY <1>1, <1>2, GreatestExists
  <2>2. AboveIds(s) = CHOOSE top \in ids : \A id \in ids : id <= top
    BY DEF AboveIds
  <2> HIDE DEF ids
  <2>3. QED
    BY <2>1, <2>2
<1> HIDE DEF ids
<1>4. AboveIds(s) \in Nat
  BY <1>1, <1>3
<1>5. ASSUME NEW i \in DOMAIN s PROVE s[i].id < AboveIds(s)
  BY <1>1, <1>3, <1>4
<1>6. QED
  BY <1>4, <1>5

-----------------------------------------------------------------------------
(* The file, read and written.                                             *)

\* What is read of a good file is a ledger whose counters are above its ids.
LEMMA DecodeIs ==
  ASSUME NEW f, FileGood(f), NEW g \in f, NEW l \in Decode(g)
  PROVE  /\ DOMAIN l.list = Kinds /\ DOMAIN l.next = Kinds
         /\ \A k \in Kinds : /\ Records(k, l.list[k]) /\ l.next[k] \in Nat
                             /\ \A i \in DOMAIN l.list[k] : l.list[k][i].id < l.next[k]
<1>1. g.ver \in 1..FormatVer
  BY DEF Decode
<1> DEFINE list == [k \in Kinds |-> IF k \in KindsOf(g.ver) THEN g.list[k] ELSE <<>>]
           said == [k \in Kinds |-> IF k \in KindsOf(g.ver) THEN g.next[k] ELSE 1]
           next == [k \in Kinds |-> IF said[k] >= AboveIds(list[k]) THEN said[k] ELSE AboveIds(list[k])]
<1>2. l = [list |-> list, next |-> next]
  BY <1>1 DEF Decode
<1>3. \A k \in Kinds : Records(k, list[k]) /\ said[k] \in Nat
  BY <1>1, RecordsEmpty DEF FileGood
<1>4. \A k \in Kinds : AboveIds(list[k]) \in Nat /\ \A i \in DOMAIN list[k] : list[k][i].id < AboveIds(list[k])
  BY <1>3, AboveIdsIs
<1>5. ASSUME NEW k \in Kinds
      PROVE  next[k] \in Nat /\ \A i \in DOMAIN list[k] : list[k][i].id < next[k]
  <2>1. next[k] \in {said[k], AboveIds(list[k])} /\ next[k] >= AboveIds(list[k])
    <3>1. said[k] \in Nat /\ AboveIds(list[k]) \in Nat
      BY <1>3, <1>4
    <3> HIDE DEF list, said
    <3>2. QED
      BY <3>1
  <2>2. \A i \in DOMAIN list[k] : list[k][i].id \in Nat
    BY <1>3 DEF Records
  <2> HIDE DEF list, said, next
  <2>3. QED
    BY <1>3, <1>4, <2>1, <2>2
<1>6. DOMAIN list = Kinds /\ DOMAIN next = Kinds
  OBVIOUS
<1> HIDE DEF list, said, next
<1>7. QED
  BY <1>2, <1>3, <1>5, <1>6

\* An empty ledger is good.
LEMMA EmptyIsGood == LedgerGood(EmptyMem) /\ \A k \in Kinds : EmptyMem.list[k] = <<>>
<1>1. /\ EmptyMem.list = [k \in Kinds |-> <<>>] /\ EmptyMem.next = [k \in Kinds |-> 1] /\ EmptyMem.index = {}
  BY DEF EmptyMem, EmptyLedger
<1>2. IndexOf(EmptyMem.list) = {}
  BY <1>1 DEF IndexOf
<1>3. QED
  BY <1>1, <1>2, RecordsEmpty DEF LedgerGood

\* What a process has after it refreshed: the file's ledger, or its own if the
\* file cannot be read; never less than the file's.
LEMMA RefreshIs ==
  ASSUME NEW f, FileGood(f), NEW m, {"list", "next", "index"} \subseteq DOMAIN m, LedgerGood(m),
         NEW r, r = RefreshLedger(m, f)
  PROVE  /\ LedgerGood(r) /\ DOMAIN r = DOMAIN m /\ r.segs = m.segs /\ r.tail = m.tail
         /\ LedgerGood(OnFile(f))
         /\ \/ \A k \in Kinds : r.list[k] = OnFile(f).list[k]
            \/ (\A k \in Kinds : OnFile(f).list[k] = <<>>) /\ r = m
<1> DEFINE found == UNION {Decode(g) : g \in f}
<1>1. CASE found = {}
  <2>1. r = m /\ OnFile(f) = EmptyMem
    BY <1>1 DEF RefreshLedger, OnFile
  <2>2. QED
    BY <2>1, EmptyIsGood
<1>2. CASE found # {}
  <2>1. PICK l \in found : l = CHOOSE x \in found : TRUE
    BY <1>2
  <2>2. PICK g \in f : l \in Decode(g)
    BY <2>1
  <2>3. /\ DOMAIN l.list = Kinds /\ DOMAIN l.next = Kinds
        /\ \A k \in Kinds : /\ Records(k, l.list[k]) /\ l.next[k] \in Nat
                            /\ \A i \in DOMAIN l.list[k] : l.list[k][i].id < l.next[k]
    BY <2>2, DecodeIs
  <2>4. r = Opened(m, l) /\ OnFile(f) = Opened(EmptyMem, l)
    BY <1>2, <2>1 DEF RefreshLedger, OnFile
  <2>5. ASSUME NEW n, {"list", "next", "index"} \subseteq DOMAIN n, NEW o, o = Opened(n, l)
        PROVE  /\ o.list = l.list /\ o.next = l.next /\ o.index = IndexOf(l.list) /\ DOMAIN o = DOMAIN n
               /\ o.segs = n.segs /\ o.tail = n.tail
    BY <2>5 DEF Opened
  <2>6. {"list", "next", "index"} \subseteq DOMAIN EmptyMem
    BY DEF EmptyMem
  <2>7. LedgerGood(r) /\ DOMAIN r = DOMAIN m /\ r.segs = m.segs /\ r.tail = m.tail
    BY <2>3, <2>4, <2>5 DEF LedgerGood
  <2>8. LedgerGood(OnFile(f)) /\ \A k \in Kinds : r.list[k] = OnFile(f).list[k]
    BY <2>3, <2>4, <2>5, <2>6 DEF LedgerGood
  <2>9. QED
    BY <2>7, <2>8
<1>3. QED
  BY <1>1, <1>2

\* What is saved is what is read.
LEMMA EncodedIs ==
  ASSUME NEW m, LedgerGood(m)
  PROVE  FileGood({Encode(m)}) /\ \A k \in Kinds : OnFile({Encode(m)}).list[k] = m.list[k]
<1> DEFINE g == Encode(m)
<1>1. g.ver = 2 /\ FormatVer = 2 /\ g.list = m.list /\ g.next = m.next /\ KindsOf(2) = Kinds
  BY DEF Encode, FormatVer, KindsOf
<1>2. FileGood({g})
  BY <1>1 DEF FileGood, LedgerGood
<1>3. PICK next : Decode(g) = {[list |-> [k \in Kinds |-> m.list[k]], next |-> next]}
  <2> DEFINE list == [k \in Kinds |-> IF k \in KindsOf(g.ver) THEN g.list[k] ELSE <<>>]
             said == [k \in Kinds |-> IF k \in KindsOf(g.ver) THEN g.next[k] ELSE 1]
             next == [k \in Kinds |-> IF said[k] >= AboveIds(list[k]) THEN said[k] ELSE AboveIds(list[k])]
  <2>1. g.ver \in 1..FormatVer
    BY <1>1
  <2> HIDE DEF g
  <2>2. Decode(g) = {[list |-> list, next |-> next]}
    BY <2>1 DEF Decode
  <2>3. list = [k \in Kinds |-> m.list[k]]
    BY <1>1
  <2>4. QED
    BY <2>2, <2>3
<1> HIDE DEF g
<1>4. UNION {Decode(h) : h \in {g}} = Decode(g)
  OBVIOUS
<1>5. OnFile({g}) = Opened(EmptyMem, [list |-> [k \in Kinds |-> m.list[k]], next |-> next])
  BY <1>3, <1>4 DEF OnFile, RefreshLedger
<1>6. OnFile({g}).list = [k \in Kinds |-> m.list[k]]
  BY <1>5 DEF Opened, EmptyMem
<1>7. QED
  BY <1>2, <1>6 DEF g

-----------------------------------------------------------------------------
(* Changes of the ledger.                                                  *)

\* A change of one list: r is new in it, or replaces an older rev of itself.
Onward(m2, m, k, r) ==
  /\ MemGood(m2) /\ k \in Kinds /\ r \in ToSet(m2.list[k]) /\ r.rev \in Nat
  /\ \A h \in Kinds \ {k} : m2.list[h] = m.list[h]
  /\ \A y \in ToSet(m.list[k]) : y.id = r.id => y.rev < r.rev
  /\ \A y \in ToSet(m.list[k]) : y \in ToSet(m2.list[k]) \/ y.id = r.id
  /\ k = "audits" => ToSet(m.list[k]) \subseteq ToSet(m2.list[k])

\* The postings are those of every record of every list.
LEMMA InIndex ==
  ASSUME NEW list, NEW e
  PROVE  e \in IndexOf(list) <=> \E k \in Kinds : \E i \in DOMAIN list[k] : e \in Postings(k, list[k][i])
BY DEF IndexOf

\* A record added with the next id: add_annotation and the like.
LEMMA AddedOnward ==
  ASSUME NEW m, MemGood(m), NEW k \in Kinds, NEW r,
         k = "policies" => {"tenant", "name", "enabled", "attrs"} \subseteq DOMAIN r
  PROVE  Onward(Added(m, k, r), m, k, Numbered(m, k, r))
<1> DEFINE new == Numbered(m, k, r)
           m2 == Added(m, k, r)
<1>1. /\ new.id = m.next[k] /\ new.rev = 0 /\ {"id", "rev"} \subseteq DOMAIN new
      /\ DOMAIN r \subseteq DOMAIN new
  BY DEF Numbered, With
<1> HIDE DEF new
<1>2. MemFields \subseteq DOMAIN m /\ LedgerGood(m) /\ SegsGood(m.segs)
  BY DEF MemGood
<1>3. /\ m2.list = [m.list EXCEPT ![k] = Append(m.list[k], new)]
      /\ m2.next = [m.next EXCEPT ![k] = m.next[k] + 1]
      /\ m2.index = m.index \cup Postings(k, new)
      /\ m2.segs = m.segs /\ DOMAIN m2 = DOMAIN m
  BY <1>2 DEF Added, new, MemFields
<1> HIDE DEF m2
<1>4. \A i \in DOMAIN m.list[k] : m.list[k][i].id < new.id /\ m.list[k][i].id \in Nat
  BY <1>1, <1>2 DEF LedgerGood, Records
<1>5. new.id \in Nat /\ m.next[k] \in Nat
  BY <1>1, <1>2 DEF LedgerGood
<1>6. Records(k, m.list[k]) /\ \A i \in DOMAIN m.list[k] : m.list[k][i].id # new.id
  BY <1>2, <1>4, <1>5 DEF LedgerGood
<1>7. /\ Records(k, Append(m.list[k], new)) /\ ToSet(Append(m.list[k], new)) = ToSet(m.list[k]) \cup {new}
      /\ DOMAIN Append(m.list[k], new) = DOMAIN m.list[k] \cup {Len(m.list[k]) + 1}
      /\ Append(m.list[k], new)[Len(m.list[k]) + 1] = new
      /\ \A i \in DOMAIN m.list[k] : Append(m.list[k], new)[i] = m.list[k][i]
  BY <1>1, <1>5, <1>6, RecordsAppend
<1>8. /\ m2.list[k] = Append(m.list[k], new) /\ \A h \in Kinds \ {k} : m2.list[h] = m.list[h]
      /\ m2.next[k] = m.next[k] + 1 /\ \A h \in Kinds \ {k} : m2.next[h] = m.next[h]
      /\ DOMAIN m2.list = Kinds /\ DOMAIN m2.next = Kinds
  BY <1>2, <1>3 DEF LedgerGood
<1>9. \A h \in Kinds : /\ Records(h, m2.list[h]) /\ m2.next[h] \in Nat
                       /\ \A i \in DOMAIN m2.list[h] : m2.list[h][i].id < m2.next[h]
  <2>1. ASSUME NEW h \in Kinds \ {k}
        PROVE  /\ Records(h, m2.list[h]) /\ m2.next[h] \in Nat
               /\ \A i \in DOMAIN m2.list[h] : m2.list[h][i].id < m2.next[h]
    BY <1>2, <1>8 DEF LedgerGood
  <2>2. Records(k, m2.list[k]) /\ m2.next[k] \in Nat
    BY <1>5, <1>7, <1>8
  <2>3. \A i \in DOMAIN m2.list[k] : m2.list[k][i].id < m2.next[k]
    <3>1. \A a, b \in Nat : a < b => a < b + 1
      OBVIOUS
    <3>2. \A i \in DOMAIN m.list[k] : m2.list[k][i].id < m2.next[k]
      BY <1>1, <1>4, <1>5, <1>7, <1>8, <3>1
    <3>3. m2.list[k][Len(m.list[k]) + 1].id < m2.next[k]
      BY <1>1, <1>5, <1>7, <1>8
    <3>4. QED
      BY <1>7, <1>8, <3>2, <3>3
  <2>4. QED
    BY <2>1, <2>2, <2>3
<1>10. m2.index = IndexOf(m2.list)
  <2>1. \A e : e \in IndexOf(m2.list) <=> e \in IndexOf(m.list) \/ e \in Postings(k, new)
    <3>1. ASSUME NEW e, e \in IndexOf(m2.list) PROVE e \in IndexOf(m.list) \/ e \in Postings(k, new)
      <4>1. PICK h \in Kinds : \E i \in DOMAIN m2.list[h] : e \in Postings(h, m2.list[h][i])
        BY <3>1, InIndex
      <4>2. CASE h = k
        BY <1>7, <1>8, <4>1, <4>2, InIndex
      <4>3. CASE h # k
        BY <1>8, <4>1, <4>3, InIndex
      <4>4. QED
        BY <4>2, <4>3
    <3>2. ASSUME NEW e, e \in IndexOf(m.list) PROVE e \in IndexOf(m2.list)
      <4>1. PICK h \in Kinds : \E i \in DOMAIN m.list[h] : e \in Postings(h, m.list[h][i])
        BY <3>2, InIndex
      <4>2. \A i \in DOMAIN m.list[h] : i \in DOMAIN m2.list[h] /\ m2.list[h][i] = m.list[h][i]
        BY <1>7, <1>8
      <4>3. QED
        BY <4>1, <4>2, InIndex
    <3>3. ASSUME NEW e, e \in Postings(k, new) PROVE e \in IndexOf(m2.list)
      BY <1>7, <1>8, <3>3, InIndex
    <3>4. QED
      BY <3>1, <3>2, <3>3
  <2>2. QED
    BY <1>2, <1>3, <2>1 DEF LedgerGood
<1>11. MemGood(m2)
  BY <1>2, <1>3, <1>8, <1>9, <1>10 DEF MemGood, LedgerGood
<1>12. \A y \in ToSet(m.list[k]) : y.id # new.id
  BY <1>6 DEF ToSet
<1>13. ToSet(m2.list[k]) = ToSet(m.list[k]) \cup {new}
  BY <1>7, <1>8
<1>14. QED
  BY <1>1, <1>8, <1>11, <1>12, <1>13 DEF Onward, new, m2

\* A record replaced by its next rev, with the postings that go with it.
LEMMA ReplacedOnward ==
  ASSUME NEW m, MemGood(m), NEW k \in Kinds \ {"audits"}, NEW i \in DOMAIN m.list[k], NEW e,
         {"id", "rev"} \subseteq DOMAIN e, e.id = m.list[k][i].id, e.rev = m.list[k][i].rev + 1,
         k = "policies" => {"tenant", "name", "enabled", "attrs"} \subseteq DOMAIN e,
         NEW m2, MemFields \subseteq DOMAIN m2, m2.segs = m.segs, m2.next = m.next,
         m2.list = [m.list EXCEPT ![k] = [m.list[k] EXCEPT ![i] = e]],
         m2.index = IndexOf(m2.list)
  PROVE  Onward(m2, m, k, e)
<1>1. MemFields \subseteq DOMAIN m /\ LedgerGood(m) /\ SegsGood(m.segs)
  BY DEF MemGood
<1>2. Records(k, m.list[k]) /\ m.list[k][i].rev \in Nat /\ e.rev \in Nat
  BY <1>1 DEF LedgerGood, Records
<1>3. /\ m2.list[k] = [m.list[k] EXCEPT ![i] = e] /\ DOMAIN m2.list = Kinds
      /\ \A h \in Kinds \ {k} : m2.list[h] = m.list[h]
  BY <1>1 DEF LedgerGood
<1>4. /\ Records(k, m2.list[k]) /\ DOMAIN m2.list[k] = DOMAIN m.list[k] /\ m2.list[k][i] = e
      /\ \A j \in DOMAIN m.list[k] \ {i} : m2.list[k][j] = m.list[k][j]
  BY <1>2, <1>3, RecordsReplace
<1>5. ASSUME NEW h \in Kinds
      PROVE  /\ Records(h, m2.list[h]) /\ m2.next[h] \in Nat
             /\ \A j \in DOMAIN m2.list[h] : m2.list[h][j].id < m2.next[h]
  <2>1. CASE h # k
    BY <1>1, <1>3, <2>1 DEF LedgerGood
  <2>2. CASE h = k
    <3>1. \A j \in DOMAIN m.list[k] : m2.list[k][j].id = m.list[k][j].id
      BY <1>4
    <3>2. QED
      BY <1>1, <1>4, <2>2, <3>1 DEF LedgerGood
  <2>3. QED
    BY <2>1, <2>2
<1>6. MemGood(m2)
  BY <1>1, <1>3, <1>5 DEF MemGood, LedgerGood
<1>7. \A y \in ToSet(m.list[k]) : y.id = e.id => y = m.list[k][i]
  BY <1>2 DEF Records, ToSet
<1>8. \A y \in ToSet(m.list[k]) : y \in ToSet(m2.list[k]) \/ y = m.list[k][i]
  BY <1>4 DEF ToSet
<1>9. m.list[k][i].rev < e.rev
  BY <1>2
<1>10. e \in ToSet(m2.list[k])
  BY <1>4 DEF ToSet
<1>11. QED
  BY <1>2, <1>3, <1>6, <1>7, <1>8, <1>9, <1>10 DEF Onward

\* update_annotation and delete_annotation.
LEMMA UpdatedOnward ==
  ASSUME NEW m, MemGood(m), NEW i \in DOMAIN m.list["annotations"], NEW change
  PROVE  Onward(Updated(m, i, change), m, "annotations", Updated(m, i, change).list["annotations"][i])
<1> DEFINE old == m.list["annotations"][i]
           new == Patched(old, change)
           m2 == Updated(m, i, change)
<1>1. MemFields \subseteq DOMAIN m /\ LedgerGood(m) /\ DOMAIN m.list = Kinds
  BY DEF MemGood, LedgerGood
<1>2. {"id", "rev"} \subseteq DOMAIN old
  BY <1>1 DEF LedgerGood, Records, Kinds
<1>3. {"id", "rev"} \subseteq DOMAIN new /\ new.id = old.id /\ new.rev = old.rev + 1
  <2> HIDE DEF old
  <2>1. QED
    BY <1>2 DEF Patched
<1>4. m2.list = [m.list EXCEPT !["annotations"] = [m.list["annotations"] EXCEPT ![i] = new]]
  BY <1>1 DEF Updated, MemFields
<1>5. m2.next = m.next /\ m2.segs = m.segs /\ DOMAIN m2 = DOMAIN m /\ m2.index = IndexOf(m2.list)
  BY <1>1 DEF Updated, MemFields
<1>6. m2.list["annotations"][i] = new
  BY <1>1, <1>4 DEF Kinds
<1> HIDE DEF new, m2
<1>7. Onward(m2, m, "annotations", new)
  BY <1>1, <1>3, <1>4, <1>5, ReplacedOnward DEF Kinds
<1>8. QED
  BY <1>6, <1>7 DEF m2

\* mark_retention_policy_ran: the postings do not name what it changes.
LEMMA RanOnward ==
  ASSUME NEW m, MemGood(m), NEW i \in DOMAIN m.list["policies"], NEW now,
         NEW new, new = [m.list["policies"][i] EXCEPT !.last = now, !.next = now + m.list["policies"][i].interval,
                                                      !.rev = @ + 1]
  PROVE  Onward([m EXCEPT !.list["policies"][i] = new], m, "policies", new)
<1> DEFINE old == m.list["policies"][i]
           m2 == [m EXCEPT !.list["policies"][i] = new]
<1>1. MemFields \subseteq DOMAIN m /\ LedgerGood(m) /\ DOMAIN m.list = Kinds
  BY DEF MemGood, LedgerGood
<1>2. {"id", "rev", "tenant", "name", "enabled", "attrs"} \subseteq DOMAIN old
  BY <1>1 DEF LedgerGood, Records, Kinds
<1>3. /\ DOMAIN new = DOMAIN old /\ new.id = old.id /\ new.rev = old.rev + 1 /\ new.attrs = old.attrs
      /\ new["tenant"] = old["tenant"] /\ new["name"] = old["name"] /\ new["enabled"] = old["enabled"]
  <2> HIDE DEF old
  <2>1. new = [old EXCEPT !.last = now, !.next = now + old.interval, !.rev = @ + 1]
    BY DEF old
  <2>2. QED
    BY <1>2, <2>1
<1>4. m2.list = [m.list EXCEPT !["policies"] = [m.list["policies"] EXCEPT ![i] = new]]
  BY <1>1 DEF MemFields
<1>5. m2.next = m.next /\ m2.segs = m.segs /\ DOMAIN m2 = DOMAIN m /\ m2.index = m.index
  OBVIOUS
<1>6. Postings("policies", new) = Postings("policies", old)
  <2>1. PostedFields("policies") = {"tenant", "name", "enabled"}
    BY DEF PostedFields
  <2> HIDE DEF old
  <2>2. \A f \in PostedFields("policies") : new[f] = old[f]
    BY <1>3, <2>1
  <2>3. {<<"policies", f, new[f], new.id>> : f \in PostedFields("policies")}
          = {<<"policies", f, old[f], old.id>> : f \in PostedFields("policies")}
    BY <1>3, <2>2
  <2>4. QED
    BY <1>3, <2>3 DEF Postings
<1>7. /\ m2.list["policies"] = [m.list["policies"] EXCEPT ![i] = new]
      /\ \A h \in Kinds \ {"policies"} : m2.list[h] = m.list[h]
  BY <1>1, <1>4 DEF Kinds
<1> HIDE DEF m2, old
<1>8. \A h \in Kinds : /\ DOMAIN m2.list[h] = DOMAIN m.list[h]
                       /\ \A j \in DOMAIN m.list[h] : Postings(h, m2.list[h][j]) = Postings(h, m.list[h][j])
  <2>1. /\ DOMAIN m2.list["policies"] = DOMAIN m.list["policies"] /\ m2.list["policies"][i] = new
        /\ \A j \in DOMAIN m.list["policies"] \ {i} : m2.list["policies"][j] = m.list["policies"][j]
    BY <1>7
  <2>2. \A j \in DOMAIN m.list["policies"] :
          Postings("policies", m2.list["policies"][j]) = Postings("policies", m.list["policies"][j])
    BY <1>6, <2>1 DEF old
  <2>3. QED
    BY <1>7, <2>1, <2>2
<1>9. IndexOf(m2.list) = IndexOf(m.list)
  <2>1. \A e : e \in IndexOf(m2.list) <=> e \in IndexOf(m.list)
    BY <1>8, InIndex
  <2>2. QED
    BY <2>1
<1>10. m2.index = IndexOf(m2.list)
  BY <1>1, <1>5, <1>9 DEF LedgerGood
<1>11. new.id = m.list["policies"][i].id /\ new.rev = m.list["policies"][i].rev + 1
  BY <1>3 DEF old
<1>12. "policies" \in Kinds \ {"audits"}
  BY DEF Kinds
<1>13. Onward(m2, m, "policies", new)
  <2>1. {"id", "rev"} \subseteq DOMAIN new /\ {"tenant", "name", "enabled", "attrs"} \subseteq DOMAIN new
    BY <1>2, <1>3
  <2>2. MemFields \subseteq DOMAIN m2 /\ m2.segs = m.segs /\ m2.next = m.next
    BY <1>1, <1>5
  <2>3. QED
    BY <1>4, <1>10, <1>11, <1>12, <2>1, <2>2, ReplacedOnward
<1>14. QED
  BY <1>13 DEF m2

-----------------------------------------------------------------------------
(* Queries.                                                                *)

\* The postings lead to every record that the final check accepts; with a label
\* in two spellings they may not, which only matters if attributes are asked for.
LEMMA AnswerIsScan ==
  ASSUME NEW m, LedgerGood(m), NEW k \in Kinds, NEW q,
         DOMAIN q.where \subseteq PostedFields(k) \cup {"id"},
         MixedSpelling(m.list, k) => DOMAIN q.attrs = {}
  PROVE  Answer(m, k, q) = Scan(m, k, q)
<1>1. ASSUME NEW i \in DOMAIN m.list[k], Matches(k, m.list[k][i], q)
      PROVE  m.list[k][i].id \in Candidates(m.index, k, q)
  <2> DEFINE r == m.list[k][i]
  <2>1. \A f, v : <<k, f, v, r.id>> \in Postings(k, r) => r.id \in Posted(m.index, k, f, v)
    <3>1. \A e \in Postings(k, r) : e \in m.index
      BY InIndex DEF LedgerGood
    <3> HIDE DEF r
    <3>2. ASSUME NEW f, NEW v, <<k, f, v, r.id>> \in Postings(k, r)
          PROVE  r.id \in Posted(m.index, k, f, v)
      <4> DEFINE e == <<k, f, v, r.id>>
      <4>1. e \in {x \in m.index : x[1] = k /\ x[2] = f /\ x[3] = v} /\ e[4] = r.id
        BY <3>1, <3>2
      <4>2. QED
        BY <4>1 DEF Posted
    <3>3. QED
      BY <3>2
  <2>2. /\ \A f \in DOMAIN q.where : r[f] = q.where[f]
        /\ k = "annotations" /\ ~q.deleted => r.status # "deleted"
        /\ \A key \in DOMAIN q.attrs : key \in DOMAIN r.attrs /\ r.attrs[key][1] = q.attrs[key][1]
    BY <1>1 DEF Matches, ValueMatches
  <2> HIDE DEF r
  <2>3. r.id \in FirstCandidates(m.index, k, q)
    <3>1. <<k, "all", TRUE, r.id>> \in Postings(k, r)
      BY DEF Postings
    <3>2. k = "annotations" /\ r.status # "deleted" => <<k, "not_deleted", TRUE, r.id>> \in Postings(k, r)
      BY DEF Postings
    <3>3. "id" \in DOMAIN q.where => r.id = q.where["id"]
      BY <2>2
    <3>4. QED
      BY <2>1, <2>2, <3>1, <3>2, <3>3 DEF FirstCandidates
  <2>4. ASSUME NEW f \in DOMAIN q.where \ {"id"} PROVE r.id \in Posted(m.index, k, f, q.where[f])
    <3>1. f \in PostedFields(k) /\ r[f] = q.where[f]
      BY <2>2
    <3>2. <<k, f, r[f], r.id>> \in Postings(k, r)
      BY <3>1 DEF Postings
    <3>3. QED
      BY <2>1, <3>1, <3>2
  <2>5. ASSUME NEW key \in DOMAIN q.attrs PROVE r.id \in AttrCandidates(m.index, k, key, q.attrs[key])
    <3> DEFINE v == q.attrs[key]
    <3>1. key \in DOMAIN r.attrs /\ r.attrs[key][1] = v[1]
      BY <2>2
    <3>2. /\ <<k, "attr_key", key, r.id>> \in Postings(k, r)
          /\ <<k, "attr", <<key, r.attrs[key]>>, r.id>> \in Postings(k, r)
      BY <3>1 DEF Postings
    <3> HIDE DEF v
    <3>3. r.id \in Posted(m.index, k, "attr_key", key) /\ r.id \in Posted(m.index, k, "attr", <<key, r.attrs[key]>>)
      BY <2>1, <3>2
    <3>4. ASSUME Posted(m.index, k, "attr", <<key, v>>) # {} PROVE r.attrs[key] = v
      <4>1. PICK e \in m.index : e[1] = k /\ e[2] = "attr" /\ e[3] = <<key, v>>
        BY <3>4 DEF Posted
      <4>2. PICK h \in Kinds : \E j \in DOMAIN m.list[h] : e \in Postings(h, m.list[h][j])
        BY <4>1, InIndex DEF LedgerGood
      <4>3. PICK j \in DOMAIN m.list[h] : e \in Postings(h, m.list[h][j])
        BY <4>2
      <4> DEFINE s == m.list[h][j]
      <4>4. h = k /\ key \in DOMAIN s.attrs /\ s.attrs[key] = v
        <5>1. "attr" \notin PostedFields(h) /\ "attr" \notin {"all", "not_deleted", "attr_key"}
          BY <4>2 DEF PostedFields, Kinds
        <5> HIDE DEF s
        <5>2. e \in Postings(h, s)
          BY <4>3 DEF s
        <5>3. PICK key2 \in DOMAIN s.attrs : e = <<h, "attr", <<key2, s.attrs[key2]>>, s.id>>
          <6>1. \/ e[2] \in {"all", "not_deleted", "attr_key"}
                \/ \E f \in PostedFields(h) : e[2] = f
                \/ \E key2 \in DOMAIN s.attrs : e = <<h, "attr", <<key2, s.attrs[key2]>>, s.id>>
            <7> DEFINE alive == IF h = "annotations" /\ s.status # "deleted"
                                THEN {<<h, "not_deleted", TRUE, s.id>>} ELSE {}
                       fields == {<<h, f, s[f], s.id>> : f \in PostedFields(h)}
                       keys == {<<h, "attr_key", key2, s.id>> : key2 \in DOMAIN s.attrs}
                       attrs == {<<h, "attr", <<key2, s.attrs[key2]>>, s.id>> : key2 \in DOMAIN s.attrs}
            <7>1. Postings(h, s) = {<<h, "all", TRUE, s.id>>} \cup alive \cup fields \cup keys \cup attrs
              BY DEF Postings
            <7>2. e \in {<<h, "all", TRUE, s.id>>} => e[2] = "all"
              OBVIOUS
            <7>3. e \in alive => e[2] = "not_deleted"
              <8>1. alive \subseteq {<<h, "not_deleted", TRUE, s.id>>}
                BY Zenon
              <8>2. e \in {<<h, "not_deleted", TRUE, s.id>>} => e[2] = "not_deleted"
                OBVIOUS
              <8> HIDE DEF alive
              <8>3. QED
                BY <8>1, <8>2
            <7>4. ASSUME e \in fields PROVE \E f \in PostedFields(h) : e[2] = f
              <8>1. PICK f \in PostedFields(h) : e = <<h, f, s[f], s.id>>
                BY <7>4
              <8>2. QED
                BY <8>1
            <7>5. ASSUME e \in keys PROVE e[2] = "attr_key"
              <8>1. PICK key2 \in DOMAIN s.attrs : e = <<h, "attr_key", key2, s.id>>
                BY <7>5
              <8>2. QED
                BY <8>1
            <7>6. e \in attrs => \E key2 \in DOMAIN s.attrs : e = <<h, "attr", <<key2, s.attrs[key2]>>, s.id>>
              OBVIOUS
            <7> HIDE DEF alive, fields, keys, attrs
            <7>7. QED
              BY <5>2, <7>1, <7>2, <7>3, <7>4, <7>5, <7>6
          <6>2. QED
            BY <4>1, <5>1, <6>1
        <5>4. QED
          BY <4>1, <5>3
      <4>5. ~MixedSpelling(m.list, k)
        OBVIOUS
      <4>6. s.attrs[key][1] = r.attrs[key][1] => s.attrs[key] = r.attrs[key]
        BY <3>1, <4>3, <4>4, <4>5 DEF MixedSpelling, r
      <4>7. QED
        BY <3>1, <4>4, <4>6
    <3>5. QED
      BY <3>3, <3>4 DEF AttrCandidates, v
  <2>6. QED
    BY <2>3, <2>4, <2>5 DEF Candidates, r
<1>2. QED
  BY <1>1 DEF Answer, Scan

\* What a retention request finds of the records of its tenant: all of them.
LEMMA TenantAnswer ==
  ASSUME NEW m, LedgerGood(m), NEW k \in {"annotations", "datasets"}, NEW t,
         NEW x \in ToSet(m.list[k]), Matches(k, x, OfTenant(t))
  PROVE  x \in Answered(m, k, OfTenant(t))
<1>1. /\ DOMAIN OfTenant(t).where \subseteq {"tenant"} /\ DOMAIN OfTenant(t).attrs = {}
      /\ "tenant" \in PostedFields(k) /\ k \in Kinds
  BY DEF OfTenant, PostedFields, Kinds
<1>2. Answer(m, k, OfTenant(t)) = Scan(m, k, OfTenant(t))
  BY <1>1, AnswerIsScan
<1>3. PICK i \in DOMAIN m.list[k] : x = m.list[k][i]
  BY DEF ToSet
<1>4. i \in Scan(m, k, OfTenant(t))
  BY <1>3 DEF Scan
<1>5. QED
  BY <1>2, <1>3, <1>4 DEF Answered

-----------------------------------------------------------------------------
(* What a process sees, and what a step leaves.                            *)

\* Another segment list, or tail, does not touch the ledger in memory.
LEMMA MemSame ==
  ASSUME NEW m, MemGood(m), NEW n, DOMAIN n = DOMAIN m, n.list = m.list, n.next = m.next,
         n.index = m.index, SegsGood(n.segs)
  PROVE  MemGood(n)
BY DEF MemGood, LedgerGood

\* After a refresh a process has the segments, and every record of the file.
LEMMA RefreshedIs ==
  ASSUME IInv, NEW p \in Procs, NEW m, m = Refreshed(p)
  PROVE  /\ MemGood(m) /\ m.segs = disk.segs /\ m.tail = disk.tail
         /\ \A k \in Kinds : Filed(k) \subseteq ToSet(m.list[k])
<1> DEFINE n == [mem[p] EXCEPT !.segs = disk.segs, !.tail = disk.tail]
<1>1. MemGood(mem[p]) /\ FileGood(disk.file) /\ SegsGood(disk.segs)
  BY DEF IInv, DiskGood
<1>2. /\ DOMAIN n = DOMAIN mem[p] /\ n.segs = disk.segs /\ n.tail = disk.tail /\ n.list = mem[p].list
      /\ n.next = mem[p].next /\ n.index = mem[p].index
  BY <1>1 DEF MemGood, MemFields
<1>3. m = RefreshLedger(n, disk.file)
  BY DEF Refreshed
<1> HIDE DEF n
<1>4. MemGood(n)
  BY <1>1, <1>2, MemSame
<1>5. {"list", "next", "index"} \subseteq DOMAIN n /\ LedgerGood(n)
  BY <1>4 DEF MemGood, MemFields
<1>6. /\ LedgerGood(m) /\ DOMAIN m = DOMAIN n /\ m.segs = n.segs /\ m.tail = n.tail
      /\ \/ \A k \in Kinds : m.list[k] = OnFile(disk.file).list[k]
         \/ (\A k \in Kinds : OnFile(disk.file).list[k] = <<>>) /\ m = n
  BY <1>1, <1>3, <1>5, RefreshIs
<1>7. MemGood(m) /\ m.segs = disk.segs /\ m.tail = disk.tail
  BY <1>1, <1>2, <1>4, <1>6 DEF MemGood
<1>8. ToSet(<<>>) = {}
  BY DEF ToSet
<1>9. \A k \in Kinds : Filed(k) \subseteq ToSet(m.list[k])
  BY <1>6, <1>8 DEF Filed
<1>10. QED
  BY <1>7, <1>9

\* What a read is answered from: all the process itself promised, and if the view
\* was current, every record of the file.
LEMMA ViewIs ==
  ASSUME IInv, NEW p \in up, NEW fresh, NEW m, m = View(p, fresh)
  PROVE  /\ MemGood(m)
         /\ \A x \in promised : x.by = p \/ Current(p, fresh) => x.rec \in ToSet(m.list[x.kind])
<1>1. p \in Procs /\ PromisesGood /\ MemGood(mem[p])
  BY DEF IInv
<1> DEFINE r == Refreshed(p)
<1>2. MemGood(r) /\ \A k \in Kinds : Filed(k) \subseteq ToSet(r.list[k])
  BY <1>1, RefreshedIs
<1>3. \A x \in promised : x.rec \in ToSet(r.list[x.kind])
  BY <1>1, <1>2 DEF PromisesGood
<1>4. m = r \/ m = mem[p]
  BY DEF View
<1>5. Current(p, fresh) => m = r
  BY DEF Current
<1> HIDE DEF r
<1>6. m = mem[p] => \A x \in promised : x.by = p => x.rec \in ToSet(m.list[x.kind])
  BY <1>1 DEF PromisesGood, Held
<1>7. QED
  BY <1>1, <1>2, <1>3, <1>4, <1>5, <1>6

\* A step that does not save changes neither what is filed nor what is promised.
LEMMA MemStep ==
  ASSUME IInv, NEW p \in Procs, NEW m, mem' = [mem EXCEPT ![p] = m], MemGood(m),
         promised' = promised, disk'.file = disk.file, up' \subseteq up \cup {p},
         p \in up' => \A x \in promised : x.by = p => x.rec \in ToSet(m.list[x.kind])
  PROVE  /\ DOMAIN mem' = Procs /\ \A q \in Procs : MemGood(mem'[q])
         /\ PromisesGood' /\ \A k : Filed(k)' = Filed(k)
<1>1. DOMAIN mem = Procs /\ PromisesGood /\ up \subseteq Procs /\ \A q \in Procs : MemGood(mem[q])
  BY DEF IInv
<1>2. DOMAIN mem' = Procs /\ mem'[p] = m /\ \A q \in Procs \ {p} : mem'[q] = mem[q]
  BY <1>1
<1>3. \A k : Filed(k)' = Filed(k)
  BY DEF Filed
<1>4. ASSUME NEW x \in promised'
      PROVE  /\ x.kind \in Kinds /\ x.rec \in Filed(x.kind)'
             /\ x.by \in up' => x.rec \in Held(x.by, x.kind)'
  <2>1. x.kind \in Kinds /\ x.rec \in Filed(x.kind)
    BY <1>1 DEF PromisesGood
  <2>2. ASSUME x.by \in up' PROVE x.rec \in ToSet(mem'[x.by].list[x.kind])
    <3>1. CASE x.by = p
      BY <1>2, <2>2, <3>1
    <3>2. CASE x.by # p
      BY <1>1, <1>2, <2>2, <3>2 DEF PromisesGood, Held
    <3>3. QED
      BY <3>1, <3>2
  <2>3. QED
    BY <1>3, <2>1, <2>2 DEF Held
<1>5. QED
  BY <1>1, <1>2, <1>3, <1>4 DEF PromisesGood

\* The file only goes on.
Grows ==
  \A k \in Kinds : \A y \in Filed(k) :
    \E z \in Filed(k)' : z.id = y.id /\ \A n \in Nat : n <= y.rev => n <= z.rev

\* A promise that protected something and was taken back is not made again.
NoComeback == \A req : \A x \in promised' : ShieldGood(x, req) => x \in promised

\* Where nothing is saved.
LEMMA NoSave ==
  ASSUME promised' = promised, \A k : Filed(k)' = Filed(k)
  PROVE  Grows /\ NoComeback /\ Filed("audits") \subseteq Filed("audits")'
<1>1. Grows
  BY DEF Grows
<1>2. QED
  BY <1>1 DEF NoComeback

\* A record in memory counts its updates.
LEMMA RevIsNat ==
  ASSUME NEW m, MemGood(m), NEW k \in Kinds, NEW y \in ToSet(m.list[k])
  PROVE  y.rev \in Nat
<1>1. PICK i \in DOMAIN m.list[k] : y = m.list[k][i]
  BY DEF ToSet
<1>2. QED
  BY <1>1 DEF MemGood, LedgerGood, Records

\* A save, whether it succeeds or fails unnoticed.
LEMMA SaveStep ==
  ASSUME IInv, NEW p \in up, up' = up, NEW m, NEW k, NEW r,
         Onward(m, Refreshed(p), k, r), Saving(p, m, k, r)
  PROVE  /\ DOMAIN mem' = Procs /\ \A q \in Procs : MemGood(mem'[q])
         /\ DiskGood' /\ PromisesGood' /\ faults' \in Nat
         /\ Grows /\ NoComeback /\ Filed("audits") \subseteq Filed("audits")'
         /\ faults' = faults => r \in Filed(k)'
<1> DEFINE old == Refreshed(p)
           new == Promise(p, k, r)
           others == {x \in promised : <<x.kind, x.rec.id>> # <<k, r.id>>}
<1>1. /\ p \in Procs /\ DOMAIN mem = Procs /\ PromisesGood /\ DiskGood /\ faults \in Nat
      /\ \A q \in Procs : MemGood(mem[q])
  BY DEF IInv
<1>2. MemGood(old) /\ \A h \in Kinds : Filed(h) \subseteq ToSet(old.list[h])
  BY <1>1, RefreshedIs
<1>3. /\ MemGood(m) /\ k \in Kinds /\ r \in ToSet(m.list[k]) /\ r.rev \in Nat
      /\ \A h \in Kinds \ {k} : m.list[h] = old.list[h]
      /\ \A y \in ToSet(old.list[k]) : y.id = r.id => y.rev < r.rev
      /\ \A y \in ToSet(old.list[k]) : y \in ToSet(m.list[k]) \/ y.id = r.id
      /\ k = "audits" => ToSet(old.list[k]) \subseteq ToSet(m.list[k])
  BY DEF Onward
<1>4. /\ mem' = [mem EXCEPT ![p] = m]
      /\ \/ disk' = [disk EXCEPT !.file = {Encode(m)}] /\ promised' = others \cup {new} /\ faults' = faults
         \/ faults' = faults + 1 /\ promised' = others /\ disk' = disk
  BY DEF Saving
<1>5. new.by = p /\ new.kind = k /\ new.rec = r
  BY DEF Promise
<1> HIDE DEF new, old
<1>6. mem'[p] = m /\ DOMAIN mem' = Procs /\ \A q \in Procs \ {p} : mem'[q] = mem[q]
  BY <1>1, <1>4
<1>7. \A x \in others : x \in promised /\ ~(x.kind = k /\ x.rec.id = r.id)
  OBVIOUS
<1>8. promised' \subseteq others \cup {new}
  BY <1>4
<1> HIDE DEF others
<1>9. \A x \in others : x.kind \in Kinds /\ x.rec \in Filed(x.kind) /\ x.rec \in ToSet(m.list[x.kind])
  BY <1>1, <1>2, <1>3, <1>7 DEF PromisesGood
<1>10. \A q \in Procs : MemGood(mem'[q])
  BY <1>1, <1>3, <1>6
<1>11. \A x \in promised' : x.by \in up' => x.rec \in Held(x.by, x.kind)'
  <2>1. SUFFICES ASSUME NEW x \in promised', x.by \in up PROVE x.rec \in ToSet(mem'[x.by].list[x.kind])
    BY DEF Held
  <2>2. CASE x.by = p
    BY <1>3, <1>5, <1>6, <1>8, <1>9, <2>2
  <2>3. CASE x.by # p
    <3>1. x \in others /\ x.by \in Procs
      BY <1>5, <1>8, <2>1, <2>3 DEF IInv
    <3>2. QED
      BY <1>1, <1>6, <1>7, <2>1, <2>3, <3>1 DEF PromisesGood, Held
  <2>4. QED
    BY <2>2, <2>3
<1>12. NoComeback
  <2>1. SUFFICES ASSUME NEW req, ShieldGood(new, req) PROVE FALSE
    BY <1>7, <1>8 DEF NoComeback
  <2>2. PICK y \in Filed(k) : y.id = r.id /\ r.rev <= y.rev
    BY <1>5, <2>1 DEF ShieldGood
  <2>3. y \in ToSet(old.list[k]) /\ y.rev < r.rev
    BY <1>2, <1>3, <2>2
  <2>4. y.rev \in Nat
    BY <1>2, <1>3, <2>3, RevIsNat
  <2>5. QED
    BY <1>3, <2>2, <2>3, <2>4
<1>13. CASE disk' = disk /\ promised' = others /\ faults' = faults + 1
  <2>1. \A h : Filed(h)' = Filed(h)
    BY <1>13 DEF Filed
  <2>2. Grows /\ Filed("audits") \subseteq Filed("audits")'
    BY <2>1 DEF Grows
  <2>3. DiskGood' /\ faults' \in Nat /\ faults' # faults
    BY <1>1, <1>13 DEF DiskGood
  <2>4. PromisesGood'
    BY <1>9, <1>11, <1>13, <2>1 DEF PromisesGood
  <2>5. QED
    BY <1>6, <1>10, <1>12, <2>2, <2>3, <2>4
<1>14. CASE disk' = [disk EXCEPT !.file = {Encode(m)}] /\ promised' = others \cup {new} /\ faults' = faults
  <2>1. /\ disk'.file = {Encode(m)} /\ disk'.segs = disk.segs /\ disk'.tail = disk.tail
        /\ DOMAIN disk' = DOMAIN disk
    BY <1>1, <1>14 DEF DiskGood
  <2>2. FileGood({Encode(m)}) /\ \A h \in Kinds : OnFile({Encode(m)}).list[h] = m.list[h]
    BY <1>3, EncodedIs DEF MemGood
  <2>3. DiskGood'
    BY <1>1, <2>1, <2>2 DEF DiskGood
  <2>4. \A h \in Kinds : Filed(h)' = ToSet(m.list[h])
    BY <2>1, <2>2 DEF Filed
  <2>5. Grows
    <3>1. SUFFICES ASSUME NEW h \in Kinds, NEW y \in Filed(h)
                   PROVE  \E z \in Filed(h)' : z.id = y.id /\ \A n \in Nat : n <= y.rev => n <= z.rev
      BY DEF Grows
    <3>2. CASE y \in ToSet(m.list[h])
      BY <2>4, <3>2
    <3>3. CASE y \notin ToSet(m.list[h])
      <4>1. h = k /\ y.id = r.id /\ y.rev < r.rev
        BY <1>2, <1>3, <3>3
      <4>2. y.rev \in Nat
        BY <1>2, RevIsNat
      <4>3. \A n \in Nat : n <= y.rev => n <= r.rev
        BY <1>3, <4>1, <4>2
      <4>4. QED
        BY <1>3, <2>4, <4>1, <4>3
    <3>4. QED
      BY <3>2, <3>3
  <2>6. "audits" \in Kinds
    BY DEF Kinds
  <2>7. Filed("audits") \subseteq Filed("audits")' /\ r \in Filed(k)'
    BY <1>2, <1>3, <2>4, <2>6
  <2>8. PromisesGood'
    BY <1>3, <1>5, <1>9, <1>11, <1>14, <2>4 DEF PromisesGood
  <2>9. QED
    BY <1>1, <1>6, <1>10, <1>12, <1>14, <2>3, <2>5, <2>7, <2>8
<1>15. QED
  BY <1>4, <1>13, <1>14

-----------------------------------------------------------------------------
(* Requests under way.                                                     *)

\* A record that protected something still has a successor in a file that goes on.
LEMMA ShieldStays ==
  ASSUME NEW x, NEW req, ShieldGood(x, req), Grows
  PROVE  ShieldGood(x, req)'
<1>1. x.kind \in Kinds /\ x.rec.rev \in Nat
  BY DEF ShieldGood, Kinds
<1>2. PICK y \in Filed(x.kind) : y.id = x.rec.id /\ x.rec.rev <= y.rev
  BY DEF ShieldGood
<1>3. PICK z \in Filed(x.kind)' : z.id = y.id /\ \A n \in Nat : n <= y.rev => n <= z.rev
  BY <1>1, <1>2 DEF Grows
<1>4. z.id = x.rec.id /\ x.rec.rev <= z.rev
  BY <1>1, <1>2, <1>3
<1>5. QED
  BY <1>3, <1>4 DEF ShieldGood

\* A request that takes no step goes on as it is.
LEMMA JobStays ==
  ASSUME NEW q, JobGood(q), job'[q] = job[q], q \in up => q \in up', Grows, NoComeback
  PROVE  JobGood(q)'
<1>1. SUFFICES ASSUME job[q].pc # "idle" PROVE JobGood(q)'
  BY DEF JobGood
<1> DEFINE j == job[q]
<1>2. /\ q \in up /\ JobFields \subseteq DOMAIN j /\ SegsGood(j.segs)
      /\ j.pc \in {"annotations", "datasets", "delete"} => \A x \in j.shields : ShieldGood(x, j.req)
      /\ j.pc = "datasets" => \A x \in Owed(q, j) : x.kind = "annotations" => x.rec \in j.anns
      /\ j.pc = "delete" => \A x \in Owed(q, j) : x.rec.trace \notin j.traces
      /\ j.pc \in {"compact", "audit"} => IsFiniteSet(j.deleted) /\ j.deleted \subseteq Nat
  BY <1>1 DEF JobGood
<1>3. j.pc \in {"annotations", "datasets", "delete"} =>
        /\ \A x \in j.shields : ShieldGood(x, j.req)'
        /\ Owed(q, j)' \subseteq Owed(q, j)
  <2>1. PICK c : c = j
    OBVIOUS
  <2>2. ASSUME j.pc \in {"annotations", "datasets", "delete"}
        PROVE  \A x \in c.shields : ShieldGood(x, c.req)' /\ (x \in promised' => x \in promised)
    <3>1. \A x \in c.shields : ShieldGood(x, c.req)
      BY <1>2, <2>1, <2>2
    <3>2. \A x \in c.shields : ShieldGood(x, c.req)'
      BY <3>1, ShieldStays
    <3>3. QED
      BY <3>1, <3>2 DEF NoComeback
  <2>3. j' = c
    BY <2>1
  <2>4. QED
    BY <2>1, <2>2, <2>3 DEF Owed
<1>4. j' = j
  OBVIOUS
<1>5. QED
  <2>1. PICK c : c = j
    OBVIOUS
  <2>2. c = job'[q]
    BY <2>1
  <2>3. c.pc \in {"annotations", "datasets", "delete"} => \A x \in c.shields : ShieldGood(x, c.req)'
    <3>1. ASSUME NEW x \in c.shields, c.pc \in {"annotations", "datasets", "delete"} PROVE ShieldGood(x, c.req)'
      <4>1. ShieldGood(x, c.req)
        BY <1>2, <2>1, <3>1
      <4>2. QED
        BY <4>1, ShieldStays
    <3>2. QED
      BY <3>1
  <2>4. /\ c.pc = "datasets" => \A x \in Owed(q, c)' : x.kind = "annotations" => x.rec \in c.anns
        /\ c.pc = "delete" => \A x \in Owed(q, c)' : x.rec.trace \notin c.traces
    BY <1>2, <1>3, <2>1 DEF Owed
  <2>5. /\ q \in up' /\ JobFields \subseteq DOMAIN c /\ SegsGood(c.segs)
        /\ c.pc \in {"compact", "audit"} => IsFiniteSet(c.deleted) /\ c.deleted \subseteq Nat
    BY <1>2, <2>1
  <2>6. QED
    BY <2>2, <2>3, <2>4, <2>5 DEF JobGood

\* The audits on file only grow: the trail stays as long as a deed is only added by
\* the request that will tell of it, and told or given up by the one that did it.
LEMMA AuditStays ==
  ASSUME TrailGood, NEW p, \A q \in Procs \ {p} : job'[q] = job[q],
         Filed("audits") \subseteq Filed("audits")', unrecorded \subseteq unrecorded',
         \/ erased' = erased
         \/ /\ p \in Procs /\ job'[p].pc \in {"compact", "audit"} /\ job'[p].deleted \subseteq Nat
            /\ job'[p].deed = Len(erased) + 1 /\ erased' = Append(erased, job'[p].deleted),
         \/ job[p].pc \notin {"compact", "audit"}
         \/ job'[p].pc \in {"compact", "audit"} /\ Deed(job'[p]) = Deed(job[p])
         \/ Deed(job[p]) \in unrecorded'
         \/ \E a \in Filed("audits")' : Tells(a, Deed(job[p]))
  PROVE  TrailGood'
<1> DEFINE W == {Deed(job[q]) : q \in {x \in Procs : job[x].pc \in {"compact", "audit"}}}
           W2 == {Deed(job'[q]) : q \in {x \in Procs : job'[x].pc \in {"compact", "audit"}}}
           A == Filed("audits")
           A2 == Filed("audits")'
           D == {<<n, erased[n]>> : n \in DOMAIN erased}
           D2 == {<<n, erased'[n]>> : n \in DOMAIN erased'}
<1>1. \A d \in D \ (unrecorded \cup W) : \E a \in A : Tells(a, d)
  BY DEF TrailGood, AuditTrail, Filed, OnFile
<1>2. erased' \in Seq(SUBSET Nat) /\ D2 \subseteq D \cup W2
  <2>1. erased \in Seq(SUBSET Nat)
    BY DEF TrailGood
  <2>2. CASE erased' = erased
    BY <2>1, <2>2
  <2>3. CASE erased' # erased
    <3>1. /\ p \in Procs /\ job'[p].pc \in {"compact", "audit"} /\ job'[p].deleted \in SUBSET Nat
          /\ job'[p].deed = Len(erased) + 1 /\ erased' = Append(erased, job'[p].deleted)
      BY <2>3
    <3>2. PICK gone : gone = job'[p].deleted
      OBVIOUS
    <3>3. /\ erased' \in Seq(SUBSET Nat) /\ DOMAIN erased' = DOMAIN erased \cup {Len(erased) + 1}
          /\ erased'[Len(erased) + 1] = gone /\ \A n \in DOMAIN erased : erased'[n] = erased[n]
      BY <2>1, <3>1, <3>2
    <3>4. <<Len(erased) + 1, gone>> \in W2
      BY <3>1, <3>2 DEF Deed
    <3> HIDE DEF W2
    <3>5. QED
      BY <3>3, <3>4
  <2>4. QED
    BY <2>2, <2>3
<1>3. ASSUME NEW d \in D2 \ (unrecorded' \cup W2) PROVE \E a \in A2 : Tells(a, d)
  <2>1. d \in D
    BY <1>2
  <2>2. ASSUME d \in W PROVE \E a \in A2 : Tells(a, d)
    <3>1. PICK q \in Procs : job[q].pc \in {"compact", "audit"} /\ d = Deed(job[q])
      BY <2>2
    <3>2. CASE q # p
      BY <1>3, <3>1, <3>2
    <3>3. CASE q = p
      <4>1. job'[p].pc \in {"compact", "audit"} => Deed(job'[p]) \in W2
        BY <3>3
      <4> HIDE DEF D, D2, W2
      <4>2. QED
        BY <1>3, <3>1, <3>3, <4>1
    <3>4. QED
      BY <3>2, <3>3
  <2> HIDE DEF W, W2, D, D2
  <2>3. CASE d \in W
    BY <2>2, <2>3
  <2>4. CASE d \notin W
    BY <1>1, <1>3, <2>1, <2>4
  <2>5. QED
    BY <2>3, <2>4
<1>4. AuditTrail'
  BY <1>3 DEF AuditTrail, Filed, OnFile
<1>5. QED
  BY <1>2, <1>4 DEF TrailGood

\* The parts of the invariant, after a step of process p.
LEMMA StepGood ==
  ASSUME IInv, NEW p \in Procs,
         DOMAIN mem' = Procs, \A q \in Procs : MemGood(mem'[q]), PromisesGood', DiskGood', faults' \in Nat,
         Grows, NoComeback, DOMAIN job' = Procs, \A q \in Procs \ {p} : job'[q] = job[q],
         up' \subseteq Procs, \A q \in up \ {p} : q \in up',
         JobGood(p)', TrailGood', wronged' = {}
  PROVE  IInv'
<1>1. \A q \in Procs \ {p} : JobGood(q)'
  BY JobStays DEF IInv
<1>2. QED
  BY <1>1 DEF IInv, ProtectedKept

\* A step of process p that saves nothing.
LEMMA QuietStep ==
  ASSUME IInv, NEW p \in Procs, NEW m, mem' = [mem EXCEPT ![p] = m], MemGood(m),
         promised' = promised, disk'.file = disk.file, DiskGood', faults' \in Nat,
         up' \subseteq up \cup {p}, \A q \in up \ {p} : q \in up',
         p \in up' => \A x \in promised : x.by = p => x.rec \in ToSet(m.list[x.kind]),
         DOMAIN job' = Procs, \A q \in Procs \ {p} : job'[q] = job[q],
         JobGood(p)', TrailGood', wronged' = {}
  PROVE  IInv'
<1>1. /\ DOMAIN mem' = Procs /\ \A q \in Procs : MemGood(mem'[q])
      /\ PromisesGood' /\ \A k : Filed(k)' = Filed(k)
  BY MemStep
<1>2. Grows /\ NoComeback
  BY <1>1, NoSave
<1>3. up' \subseteq Procs
  BY DEF IInv
<1>4. QED
  BY <1>1, <1>2, <1>3, StepGood

\* The same, if no request takes a step.
LEMMA IdleStep ==
  ASSUME IInv, NEW p \in Procs, NEW m, mem' = [mem EXCEPT ![p] = m], MemGood(m),
         promised' = promised, disk'.file = disk.file, DiskGood', faults' \in Nat,
         up' \in {up, up \cup {p}},
         p \in up' => \A x \in promised : x.by = p => x.rec \in ToSet(m.list[x.kind]),
         job' = job, erased' = erased, unrecorded' = unrecorded, wronged' = wronged
  PROVE  IInv'
<1>1. \A k : Filed(k)' = Filed(k)
  BY DEF Filed
<1>2. Grows /\ NoComeback
  BY <1>1, NoSave
<1>3. JobGood(p)'
  BY <1>2, JobStays DEF IInv
<1>4. Filed("audits") \subseteq Filed("audits")'
  BY <1>1
<1>5. \/ job[p].pc \notin {"compact", "audit"}
      \/ job'[p].pc \in {"compact", "audit"} /\ job'[p].deleted = job[p].deleted
  OBVIOUS
<1>6. TrailGood'
  BY <1>4, <1>5, AuditStays DEF IInv
<1>7. DOMAIN job' = Procs
  BY DEF IInv
<1>8. up' \subseteq up \cup {p} /\ \A q \in up \ {p} : q \in up'
  OBVIOUS
<1>9. wronged' = {}
  BY DEF IInv, ProtectedKept
<1>10. QED
  BY <1>3, <1>6, <1>7, <1>8, <1>9, QuietStep

\* A record saved while no request takes a step.
LEMMA LedgerStep ==
  ASSUME IInv, NEW p \in up, up' = up, NEW m, NEW k, NEW r,
         Onward(m, Refreshed(p), k, r), Saving(p, m, k, r),
         job' = job, erased' = erased, unrecorded' = unrecorded, wronged' = wronged
  PROVE  IInv'
<1>1. /\ DOMAIN mem' = Procs /\ \A q \in Procs : MemGood(mem'[q])
      /\ DiskGood' /\ PromisesGood' /\ faults' \in Nat
      /\ Grows /\ NoComeback /\ Filed("audits") \subseteq Filed("audits")'
  BY SaveStep
<1>2. p \in Procs /\ JobGood(p) /\ DOMAIN job = Procs /\ TrailGood /\ wronged = {} /\ up \subseteq Procs
  BY DEF IInv, ProtectedKept
<1>3. JobGood(p)'
  BY <1>1, <1>2, JobStays
<1>4. \/ job[p].pc \notin {"compact", "audit"}
      \/ job'[p].pc \in {"compact", "audit"} /\ job'[p].deleted = job[p].deleted
  OBVIOUS
<1>5. TrailGood'
  BY <1>1, <1>2, <1>4, AuditStays
<1>6. DOMAIN job' = Procs /\ (\A q \in Procs \ {p} : job'[q] = job[q]) /\ up' \subseteq Procs
      /\ (\A q \in up \ {p} : q \in up') /\ wronged' = {}
  BY <1>2
<1>7. QED
  BY <1>1, <1>2, <1>3, <1>5, <1>6, StepGood

\* What a refreshed process holds includes all that was promised.
LEMMA RefreshedHolds ==
  ASSUME IInv, NEW p \in Procs
  PROVE  \A x \in promised : x.rec \in ToSet(Refreshed(p).list[x.kind])
BY RefreshedIs DEF IInv, PromisesGood

-----------------------------------------------------------------------------
(* Ledger requests.                                                        *)

\* A record is added with the next id of the file.
LEMMA CreateGood ==
  ASSUME IInv, NEW p, NEW k \in Kinds, NEW r, Create(p, k, r),
         k = "policies" => {"tenant", "name", "enabled", "attrs"} \subseteq DOMAIN r,
         UNCHANGED <<up, job, jobs, erased, unrecorded, wronged>>
  PROVE  IInv'
<1>1. p \in up /\ p \in Procs
  BY DEF Create, IInv
<1>2. MemGood(Refreshed(p))
  BY <1>1, RefreshedIs
<1>3. Onward(Added(Refreshed(p), k, r), Refreshed(p), k, Numbered(Refreshed(p), k, r))
  BY <1>2, AddedOnward
<1>4. Saving(p, Added(Refreshed(p), k, r), k, Numbered(Refreshed(p), k, r))
  BY DEF Create
<1>5. QED
  BY <1>1, <1>3, <1>4, LedgerStep

\* create_annotation_json keeps the invariant.
LEMMA CreateAnnotationGood ==
  ASSUME IInv, NEW p, NEW b, CreateAnnotation(p, b)
  PROVE  IInv'
BY CreateGood DEF CreateAnnotation, Kinds

\* So does a dataset association.
LEMMA CreateDatasetGood ==
  ASSUME IInv, NEW p, NEW b, CreateDataset(p, b)
  PROVE  IInv'
BY CreateGood DEF CreateDataset, Kinds

\* So does a policy: it has the fields it is filtered by.
LEMMA CreatePolicyGood ==
  ASSUME IInv, NEW p, NEW b \in PolicyBodies, CreatePolicy(p, b)
  PROVE  IInv'
<1> DEFINE r == With(b, [last |-> Absent, attrs |-> <<>>])
<1>1. {"tenant", "name", "enabled"} \subseteq DOMAIN b
  BY LedgerConstants
<1>2. {"tenant", "name", "enabled", "attrs"} \subseteq DOMAIN r
  BY <1>1 DEF With
<1>3. Create(p, "policies", r) /\ UNCHANGED <<up, job, jobs, erased, unrecorded, wronged>>
  BY DEF CreatePolicy
<1> HIDE DEF r
<1>4. QED
  BY <1>2, <1>3, CreateGood DEF Kinds

\* An annotation updated or deleted is one of the file, under a greater rev.
LEMMA ChangeAnnotationGood ==
  ASSUME IInv, NEW p, NEW id, NEW c, ChangeAnnotation(p, id, c)
  PROVE  IInv'
<1>1. p \in up /\ p \in Procs
  BY DEF ChangeAnnotation, IInv
<1> DEFINE m == Refreshed(p)
<1>2. MemGood(m)
  BY <1>1, RefreshedIs
<1>3. PICK i \in Find(m, "annotations", id, c.tenant) :
        Saving(p, Updated(m, i, c), "annotations", Updated(m, i, c).list["annotations"][i])
  BY DEF ChangeAnnotation
<1>4. i \in DOMAIN m.list["annotations"]
  BY <1>3 DEF Find
<1>5. up' = up /\ job' = job /\ erased' = erased /\ unrecorded' = unrecorded /\ wronged' = wronged
  BY DEF ChangeAnnotation
<1>6. Onward(Updated(m, i, c), m, "annotations", Updated(m, i, c).list["annotations"][i])
  BY <1>2, <1>4, UpdatedOnward
<1>7. QED
  BY <1>1, <1>3, <1>5, <1>6, LedgerStep

\* A read refreshes what the process holds and nothing else.
LEMMA ReadLedgerGood ==
  ASSUME IInv, NEW p \in Procs, ReadLedger(p)
  PROVE  IInv'
<1>1. /\ mem' = [mem EXCEPT ![p] = Refreshed(p)] /\ disk' = disk /\ up' = up /\ job' = job /\ faults' = faults
      /\ promised' = promised /\ erased' = erased /\ unrecorded' = unrecorded /\ wronged' = wronged
  BY DEF ReadLedger, ghosts
<1>2. MemGood(Refreshed(p)) /\ \A x \in promised : x.rec \in ToSet(Refreshed(p).list[x.kind])
  BY RefreshedIs, RefreshedHolds
<1>3. DiskGood' /\ faults' \in Nat
  BY <1>1 DEF IInv, DiskGood
<1>4. QED
  BY <1>1, <1>2, <1>3, IdleStep

\* A process that starts holds what is on file.
LEMMA StartGood ==
  ASSUME IInv, NEW p \in Procs, Start(p)
  PROVE  IInv'
<1>1. /\ mem' = [mem EXCEPT ![p] = Refreshed(p)] /\ disk' = disk /\ up' = up \cup {p} /\ job' = job
      /\ faults' = faults
      /\ promised' = promised /\ erased' = erased /\ unrecorded' = unrecorded /\ wronged' = wronged
  BY DEF Start, ghosts
<1>2. MemGood(Refreshed(p)) /\ \A x \in promised : x.rec \in ToSet(Refreshed(p).list[x.kind])
  BY RefreshedIs, RefreshedHolds
<1>3. DiskGood' /\ faults' \in Nat
  BY <1>1 DEF IInv, DiskGood
<1>4. QED
  BY <1>1, <1>2, <1>3, IdleStep

-----------------------------------------------------------------------------
(* The store.                                                              *)

\* A refreshed process with the segments, or the tail, it has just written.
LEMMA RefreshedWith ==
  ASSUME IInv, NEW p \in Procs, NEW m, DOMAIN m = DOMAIN Refreshed(p), SegsGood(m.segs),
         m.list = Refreshed(p).list, m.next = Refreshed(p).next, m.index = Refreshed(p).index
  PROVE  MemGood(m) /\ \A x \in promised : x.rec \in ToSet(m.list[x.kind])
BY RefreshedIs, RefreshedHolds, MemSame

\* A row ingested is in the tail; the ledger is as it was.
LEMMA IngestGood ==
  ASSUME IInv, NEW p \in Procs, NEW r \in Rows, Ingest(p, r)
  PROVE  IInv'
<1> DEFINE old == Refreshed(p)
           m == [old EXCEPT !.tail = @ \cup {r}]
<1>1. /\ disk' = [disk EXCEPT !.tail = @ \cup {r}] /\ mem' = [mem EXCEPT ![p] = m]
      /\ up' = up /\ job' = job /\ faults' = faults
      /\ promised' = promised /\ erased' = erased /\ unrecorded' = unrecorded /\ wronged' = wronged
  BY DEF Ingest, ghosts
<1>2. /\ DOMAIN m = DOMAIN old /\ m.segs = old.segs
      /\ m.list = old.list /\ m.next = old.next /\ m.index = old.index
  <2> HIDE DEF old
  <2>1. QED
    OBVIOUS
<1> HIDE DEF m
<1>3. SegsGood(m.segs)
  BY <1>2, RefreshedIs DEF IInv, DiskGood
<1>4. MemGood(m) /\ \A x \in promised : x.rec \in ToSet(m.list[x.kind])
  BY <1>2, <1>3, RefreshedWith
<1>5. DiskGood /\ faults \in Nat
  BY DEF IInv
<1>6. /\ disk'.segs = disk.segs /\ disk'.file = disk.file /\ DOMAIN disk' = DOMAIN disk
      /\ disk'.tail = disk.tail \cup {r}
  BY <1>1, <1>5 DEF DiskGood
<1>7. DiskGood' /\ faults' \in Nat
  BY <1>1, <1>5, <1>6 DEF DiskGood, AllRows
<1>8. QED
  BY <1>1, <1>4, <1>6, <1>7, IdleStep

\* A new segment of known rows.
LEMMA WithSegmentIs ==
  ASSUME NEW d, {"segs", "tail", "next", "file"} \subseteq DOMAIN d, SegsGood(d.segs), NEW rows, rows \subseteq AllRows
  PROVE  /\ DOMAIN WithSegment(d, rows) = DOMAIN d /\ SegsGood(WithSegment(d, rows).segs)
         /\ WithSegment(d, rows).tail = d.tail /\ WithSegment(d, rows).file = d.file
<1> DEFINE segs == [s \in DOMAIN d.segs \cup {d.next} |->
                      IF s = d.next THEN [rows |-> rows, dead |-> {}] ELSE d.segs[s]]
<1>1. SegsGood(segs)
  BY DEF SegsGood
<1>2. PICK w : w = WithSegment(d, rows)
  OBVIOUS
<1>3. /\ DOMAIN w = DOMAIN d /\ w.segs = segs /\ w.tail = d.tail /\ w.file = d.file
  BY <1>2 DEF WithSegment
<1> HIDE DEF segs
<1>4. QED
  BY <1>1, <1>2, <1>3

\* The tail becomes a segment; the ledger is as it was.
LEMMA FlushGood ==
  ASSUME IInv, NEW p \in Procs, Flush(p)
  PROVE  IInv'
<1> DEFINE old == Refreshed(p)
           m == [old EXCEPT !.tail = {}, !.segs = disk'.segs]
           d == [disk EXCEPT !.tail = {}]
<1>1. /\ disk' = WithSegment(d, disk.tail) /\ mem' = [mem EXCEPT ![p] = m]
      /\ up' = up /\ job' = job /\ faults' = faults
      /\ promised' = promised /\ erased' = erased /\ unrecorded' = unrecorded /\ wronged' = wronged
  BY DEF Flush, ghosts
<1>2. DiskGood /\ faults \in Nat
  BY DEF IInv
<1>3. /\ DOMAIN d = DOMAIN disk /\ d.segs = disk.segs /\ d.file = disk.file /\ d.tail = {}
  BY <1>2 DEF DiskGood
<1> HIDE DEF d
<1>4. DOMAIN disk' = DOMAIN disk /\ SegsGood(disk'.segs) /\ disk'.tail = {} /\ disk'.file = disk.file
  BY <1>1, <1>2, <1>3, WithSegmentIs DEF DiskGood
<1>5. "segs" \in DOMAIN old
  BY RefreshedIs DEF MemGood, MemFields
<1>6. /\ DOMAIN m = DOMAIN old /\ m.segs = disk'.segs
      /\ m.list = old.list /\ m.next = old.next /\ m.index = old.index
  <2> HIDE DEF old
  <2>1. QED
    BY <1>5
<1> HIDE DEF m
<1>7. MemGood(m) /\ \A x \in promised : x.rec \in ToSet(m.list[x.kind])
  BY <1>4, <1>6, RefreshedWith
<1>8. DiskGood' /\ faults' \in Nat
  BY <1>1, <1>2, <1>4 DEF DiskGood
<1>9. QED
  BY <1>1, <1>4, <1>7, <1>8, IdleStep

-----------------------------------------------------------------------------
(* The steps of a retention request.                                       *)

\* What a step leaves of a request.
LEMMA JobIs ==
  ASSUME NEW p, NEW j, job'[p] = j, p \in up', JobFields \subseteq DOMAIN j, SegsGood(j.segs),
         j.pc \in {"annotations", "datasets", "delete"} => \A x \in j.shields : ShieldGood(x, j.req)',
         j.pc = "datasets" => \A x \in Owed(p, j)' : x.kind = "annotations" => x.rec \in j.anns,
         j.pc = "delete" => \A x \in Owed(p, j)' : x.rec.trace \notin j.traces,
         j.pc \in {"compact", "audit"} => IsFiniteSet(j.deleted) /\ j.deleted \subseteq Nat
  PROVE  JobGood(p)'
BY DEF JobGood

\* What a request that is on its way knows.
LEMMA JobHas ==
  ASSUME IInv, NEW p \in Procs, job[p].pc # "idle"
  PROVE  /\ p \in up /\ JobFields \subseteq DOMAIN job[p] /\ SegsGood(job[p].segs)
         /\ job[p].pc \in {"annotations", "datasets", "delete"} =>
              \A x \in job[p].shields : ShieldGood(x, job[p].req)
         /\ job[p].pc = "datasets" => \A x \in Owed(p, job[p]) : x.kind = "annotations" => x.rec \in job[p].anns
         /\ job[p].pc = "delete" => \A x \in Owed(p, job[p]) : x.rec.trace \notin job[p].traces
         /\ job[p].pc \in {"compact", "audit"} => IsFiniteSet(job[p].deleted) /\ job[p].deleted \subseteq Nat
BY DEF IInv, JobGood

\* A step of a request that only reads.
LEMMA ReadStep ==
  ASSUME IInv, NEW p \in up, NEW fresh, mem' = [mem EXCEPT ![p] = View(p, fresh)],
         disk' = disk, up' = up, faults' = faults, promised' = promised, erased' = erased,
         unrecorded' = unrecorded, wronged' = wronged,
         NEW j, job' = [job EXCEPT ![p] = j], job[p].pc \notin {"compact", "audit"},
         JobGood(p)'
  PROVE  IInv'
<1>1. p \in Procs /\ DOMAIN job = Procs /\ TrailGood /\ wronged = {} /\ DiskGood /\ faults \in Nat
  BY DEF IInv, ProtectedKept
<1>2. /\ MemGood(View(p, fresh))
      /\ \A x \in promised : x.by = p => x.rec \in ToSet(View(p, fresh).list[x.kind])
  BY ViewIs
<1>3. DiskGood' /\ Filed("audits")' = Filed("audits") /\ disk'.file = disk.file
  BY <1>1 DEF DiskGood, Filed
<1>4. DOMAIN job' = Procs /\ \A q \in Procs \ {p} : job'[q] = job[q]
  BY <1>1
<1>5. TrailGood'
  BY <1>1, <1>3, <1>4, AuditStays
<1>6. QED
  BY <1>1, <1>2, <1>3, <1>4, <1>5, QuietStep

\* A request begins with the records that protect something now.
LEMMA BeginGood ==
  ASSUME IInv, NEW p \in up, NEW fresh, NEW req, NEW policy, NEW queue,
         Begin(p, View(p, fresh), req, policy, queue, Current(p, fresh)),
         job[p].pc \notin {"compact", "audit"},
         disk' = disk, up' = up, faults' = faults, promised' = promised, erased' = erased,
         unrecorded' = unrecorded, wronged' = wronged
  PROVE  IInv'
<1> DEFINE m == View(p, fresh)
           j == [pc |-> "annotations", req |-> req, policy |-> policy, queue |-> queue, fresh |-> Current(p, fresh),
                 segs |-> m.segs, tail |-> m.tail, traces |-> CandidateTraces(m, req),
                 anns |-> {}, deed |-> 0, deleted |-> {}, shields |-> Shields(req)]
<1>1. mem' = [mem EXCEPT ![p] = m] /\ job' = [job EXCEPT ![p] = j]
  BY DEF Begin
<1>2. p \in Procs /\ DOMAIN job = Procs
  BY DEF IInv
<1>3. MemGood(m)
  BY ViewIs
<1>4. \A k : Filed(k)' = Filed(k)
  BY DEF Filed
<1>5. ASSUME NEW x \in Shields(req) PROVE ShieldGood(x, req)'
  <2>1. x \in promised /\ Matches(x.kind, x.rec, OfTenant(req.tenant))
        /\ \/ x.kind = "annotations" /\ Protecting({x.rec}, {}, req.protect) # {}
           \/ x.kind = "datasets" /\ Protecting({}, {x.rec}, req.protect) # {}
    BY <1>5 DEF Shields
  <2>2. x.kind \in Kinds /\ x.rec \in Filed(x.kind) /\ x.rec \in ToSet(Refreshed(p).list[x.kind])
    BY <1>2, <2>1, RefreshedHolds DEF IInv, PromisesGood
  <2>3. x.rec.rev \in Nat
    BY <1>2, <2>2, RefreshedIs, RevIsNat
  <2>4. x.rec.rev <= x.rec.rev
    BY <2>3
  <2>5. ShieldGood(x, req)
    BY <2>1, <2>2, <2>3, <2>4 DEF ShieldGood
  <2>6. Grows
    BY <1>4, NoSave
  <2>7. QED
    BY <2>5, <2>6, ShieldStays
<1>6. PICK c : c = j
  OBVIOUS
<1>7. JobGood(p)'
  <2>1. job'[p] = c
    BY <1>1, <1>2, <1>6
  <2>2. JobFields \subseteq DOMAIN c /\ c.pc = "annotations" /\ SegsGood(c.segs) /\ c.req = req /\ c.shields = Shields(req)
    BY <1>3, <1>6 DEF JobFields, MemGood
  <2>3. QED
    BY <1>5, <2>1, <2>2, JobIs
<1>8. job' = [job EXCEPT ![p] = c]
  BY <1>1, <1>6
<1>9. QED
  BY <1>1, <1>7, <1>8, ReadStep

\* A request of a client begins.
LEMMA StartRequestGood ==
  ASSUME IInv, NEW p \in Procs, NEW req, NEW fresh, StartRequest(p, req, fresh)
  PROVE  IInv'
<1>1. p \in up /\ job[p].pc = "idle"
  BY DEF StartRequest, Idle
<1>2. QED
  BY <1>1, BeginGood DEF StartRequest, ghosts

\* A request of the first policy that is due begins.
LEMMA RunDueGood ==
  ASSUME IInv, NEW p \in Procs, NEW call, NEW fresh, RunDue(p, call, fresh)
  PROVE  IInv'
<1>1. p \in up /\ job[p].pc = "idle"
  BY DEF RunDue, Idle
<1>2. QED
  BY <1>1, BeginGood DEF RunDue, ghosts

\* So does that of the next policy of the list.
LEMMA NextDueGood ==
  ASSUME IInv, NEW p \in Procs, NEW fresh, NextDue(p, fresh)
  PROVE  IInv'
<1>1. p \in up /\ job[p].pc = "next"
  BY JobHas DEF NextDue
<1>2. QED
  BY <1>1, BeginGood DEF NextDue, ghosts

\* Of the annotations it owes the request has then all.
LEMMA ReadAnnotationsGood ==
  ASSUME IInv, NEW p \in Procs, NEW fresh, ReadAnnotations(p, fresh)
  PROVE  IInv'
<1> DEFINE m == View(p, fresh)
           j == job[p]
           t == [j EXCEPT !.pc = "datasets", !.fresh = @ /\ Current(p, fresh),
                          !.anns = Answered(m, "annotations", OfTenant(j.req.tenant))]
<1>1. j.pc = "annotations" /\ mem' = [mem EXCEPT ![p] = m] /\ job' = [job EXCEPT ![p] = t]
  BY DEF ReadAnnotations
<1>2. disk' = disk /\ up' = up /\ faults' = faults /\ promised' = promised /\ erased' = erased
      /\ unrecorded' = unrecorded /\ wronged' = wronged
  BY DEF ReadAnnotations, ghosts
<1>3. /\ p \in up /\ JobFields \subseteq DOMAIN j /\ SegsGood(j.segs)
      /\ \A x \in j.shields : ShieldGood(x, j.req)
  BY <1>1, JobHas
<1>4. PICK c : c = t
  OBVIOUS
<1>5. /\ c.pc = "datasets" /\ c.fresh = (j.fresh /\ Current(p, fresh))
      /\ c.anns = Answered(m, "annotations", OfTenant(j.req.tenant))
      /\ c.shields = j.shields /\ c.req = j.req /\ c.segs = j.segs /\ DOMAIN c = DOMAIN j
  <2> HIDE DEF m
  <2>1. PICK k : k = j
    OBVIOUS
  <2>2. {"pc", "fresh", "anns"} \subseteq DOMAIN k
    BY <1>3, <2>1 DEF JobFields
  <2>3. c = [k EXCEPT !.pc = "datasets", !.fresh = k.fresh /\ Current(p, fresh),
                      !.anns = Answered(m, "annotations", OfTenant(k.req.tenant))]
    BY <1>4, <2>1
  <2>4. /\ c.pc = "datasets" /\ c.fresh = (k.fresh /\ Current(p, fresh))
        /\ c.anns = Answered(m, "annotations", OfTenant(k.req.tenant))
        /\ c.shields = k.shields /\ c.req = k.req /\ c.segs = k.segs /\ DOMAIN c = DOMAIN k
    BY <2>2, <2>3
  <2>5. QED
    BY <2>1, <2>4
<1>6. MemGood(m) /\ \A x \in promised : x.by = p \/ Current(p, fresh) => x.rec \in ToSet(m.list[x.kind])
  BY <1>3, ViewIs
<1> HIDE DEF m, t
<1>7. \A x \in c.shields : ShieldGood(x, c.req)'
  <2>1. Grows
    BY <1>2, NoSave DEF Filed
  <2>2. \A x \in c.shields : ShieldGood(x, c.req)
    BY <1>3, <1>5
  <2>3. QED
    BY <2>1, <2>2, ShieldStays
<1>8. ASSUME NEW x \in Owed(p, c)', x.kind = "annotations" PROVE x.rec \in c.anns
  <2>1. x \in j.shields /\ x \in promised /\ (Current(p, fresh) \/ x.by = p)
    BY <1>2, <1>5, <1>8 DEF Owed
  <2>2. x.rec \in ToSet(m.list["annotations"]) /\ Matches("annotations", x.rec, OfTenant(j.req.tenant))
    BY <1>3, <1>6, <1>8, <2>1 DEF ShieldGood
  <2>3. QED
    BY <1>5, <1>6, <2>2, TenantAnswer DEF MemGood
<1>9. JobGood(p)'
  <2>1. job'[p] = c
    BY <1>1, <1>4 DEF IInv
  <2>2. QED
    BY <1>2, <1>3, <1>5, <1>7, <1>8, <2>1, JobIs
<1>10. job' = [job EXCEPT ![p] = c]
  BY <1>1, <1>4
<1>11. QED
  BY <1>1, <1>2, <1>3, <1>9, <1>10, ReadStep DEF m

\* What a record it owes protects is then no longer among the traces to delete.
LEMMA ReadDatasetsGood ==
  ASSUME IInv, NEW p \in Procs, NEW fresh, ReadDatasets(p, fresh)
  PROVE  IInv'
<1> DEFINE m == View(p, fresh)
           j == job[p]
           dss == Answered(m, "datasets", OfTenant(j.req.tenant))
           t == [j EXCEPT !.pc = "delete", !.fresh = @ /\ Current(p, fresh), !.anns = {},
                          !.traces = Deletable(m, j)]
<1>1. j.pc = "datasets" /\ mem' = [mem EXCEPT ![p] = m] /\ job' = [job EXCEPT ![p] = t]
  BY DEF ReadDatasets
<1>2. disk' = disk /\ up' = up /\ faults' = faults /\ promised' = promised /\ erased' = erased
      /\ unrecorded' = unrecorded /\ wronged' = wronged
  BY DEF ReadDatasets, ghosts
<1>3. /\ p \in up /\ JobFields \subseteq DOMAIN j /\ SegsGood(j.segs)
      /\ \A x \in j.shields : ShieldGood(x, j.req)
      /\ \A x \in Owed(p, j) : x.kind = "annotations" => x.rec \in j.anns
  BY <1>1, JobHas
<1>4. PICK c : c = t
  OBVIOUS
<1>5. /\ c.pc = "delete" /\ c.fresh = (j.fresh /\ Current(p, fresh)) /\ c.traces = Deletable(m, j)
      /\ c.shields = j.shields /\ c.req = j.req /\ c.segs = j.segs /\ DOMAIN c = DOMAIN j
  <2> HIDE DEF m
  <2>1. PICK k : k = j
    OBVIOUS
  <2>2. {"pc", "fresh", "anns", "traces"} \subseteq DOMAIN k
    BY <1>3, <2>1 DEF JobFields
  <2>3. c = [k EXCEPT !.pc = "delete", !.fresh = k.fresh /\ Current(p, fresh), !.anns = {},
                      !.traces = Deletable(m, k)]
    BY <1>4, <2>1
  <2>4. /\ c.pc = "delete" /\ c.fresh = (k.fresh /\ Current(p, fresh)) /\ c.traces = Deletable(m, k)
        /\ c.shields = k.shields /\ c.req = k.req /\ c.segs = k.segs /\ DOMAIN c = DOMAIN k
    BY <2>2, <2>3
  <2>5. QED
    BY <2>1, <2>4
<1>6. MemGood(m) /\ \A x \in promised : x.by = p \/ Current(p, fresh) => x.rec \in ToSet(m.list[x.kind])
  BY <1>3, ViewIs
<1> HIDE DEF m, t
<1>7. \A x \in c.shields : ShieldGood(x, c.req)'
  <2>1. Grows
    BY <1>2, NoSave DEF Filed
  <2>2. \A x \in c.shields : ShieldGood(x, c.req)
    BY <1>3, <1>5
  <2>3. QED
    BY <2>1, <2>2, ShieldStays
<1>8. ASSUME NEW x \in Owed(p, c)' PROVE x.rec.trace \notin c.traces
  <2>1. x \in j.shields /\ x \in promised /\ (Current(p, fresh) \/ x.by = p) /\ x \in Owed(p, j)
    BY <1>2, <1>5, <1>8 DEF Owed
  <2>2. ShieldGood(x, j.req)
    BY <1>3, <2>1
  <2>3. x.kind = "annotations" => x.rec \in Protecting(j.anns, dss, j.req.protect)
    BY <1>3, <2>1, <2>2 DEF ShieldGood, Protecting
  <2>4. x.kind = "datasets" => x.rec \in Protecting(j.anns, dss, j.req.protect)
    <3>1. x.kind = "datasets" => x.rec \in ToSet(m.list["datasets"])
                                 /\ Matches("datasets", x.rec, OfTenant(j.req.tenant))
      BY <1>6, <2>1, <2>2 DEF ShieldGood
    <3>2. x.kind = "datasets" => x.rec \in dss
      BY <1>6, <3>1, TenantAnswer DEF MemGood
    <3> HIDE DEF dss
    <3>3. QED
      BY <2>2, <3>2 DEF ShieldGood, Protecting
  <2>5. x.rec \in Protecting(j.anns, dss, j.req.protect)
    BY <2>2, <2>3, <2>4 DEF ShieldGood
  <2>6. c.traces = j.traces \ TracesOf(Protecting(j.anns, dss, j.req.protect))
    BY <1>5 DEF Deletable
  <2>7. QED
    BY <2>5, <2>6 DEF TracesOf
<1>9. JobGood(p)'
  <2>1. job'[p] = c
    BY <1>1, <1>4 DEF IInv
  <2>2. QED
    BY <1>2, <1>3, <1>5, <1>7, <1>8, <2>1, JobIs
<1>10. job' = [job EXCEPT ![p] = c]
  BY <1>1, <1>4
<1>11. QED
  BY <1>1, <1>2, <1>3, <1>9, <1>10, ReadStep DEF m

\* What is deleted at once is finitely many traces.
LEMMA TracesFinite ==
  ASSUME NEW rows, rows \subseteq AllRows
  PROVE  IsFiniteSet(TracesOf(rows)) /\ TracesOf(rows) \subseteq Nat
<1> DEFINE f == [r \in rows |-> r.trace]
           traces == TracesOf(rows)
<1>1. IsFiniteSet(rows)
  BY LedgerConstants, FS_Subset DEF AllRows
<1>2. f \in Surjection(rows, traces)
  BY DEF Surjection, TracesOf
<1>3. IsFiniteSet(traces)
  <2> HIDE DEF f, traces
  <2>1. QED
    BY <1>1, <1>2, FS_Surjection
<1>4. traces \subseteq Nat
  BY LedgerConstants DEF AllRows, TracesOf
<1>5. QED
  BY <1>3, <1>4

\* A sample names all, or there are more than it may name.
LEMMA SampleIs ==
  ASSUME NEW D, D \subseteq Nat, IsFiniteSet(D), Sample(D) # D
  PROVE  Cardinality(D) > SampleLimit
<1>1. PICK t \in D : ~(Cardinality({u \in D : u < t}) < SampleLimit)
  BY DEF Sample
<1> DEFINE below == {u \in D : u < t}
<1>2. below \subseteq D /\ below # D
  <2>1. t \in Nat
    OBVIOUS
  <2>2. ~(t < t)
    BY <2>1
  <2>3. QED
    BY <2>2
<1>4. ASSUME NEW S, S \subseteq D, S # D
      PROVE  Cardinality(S) \in Nat /\ Cardinality(D) \in Nat /\ Cardinality(S) < Cardinality(D)
  <2>1. /\ IsFiniteSet(S) /\ Cardinality(S) <= Cardinality(D)
        /\ Cardinality(S) # Cardinality(D)
    BY <1>4, FS_Subset
  <2>2. Cardinality(S) \in Nat /\ Cardinality(D) \in Nat
    BY <2>1, FS_CardinalityType
  <2>3. QED
    BY <2>1, <2>2
<1>5. Cardinality(below) \in Nat /\ Cardinality(D) \in Nat /\ Cardinality(below) < Cardinality(D)
  <2> HIDE DEF below
  <2>1. QED
    BY <1>2, <1>4
<1>6. SampleLimit \in Nat /\ ~(Cardinality(below) < SampleLimit)
  BY <1>1, LedgerConstants
<1>7. Cardinality(D) > SampleLimit
  <2> HIDE DEF below
  <2>1. QED
    BY <1>5, <1>6
<1>8. QED
  BY <1>7

\* Rows are deleted: of no trace that a record this request owed protects.
LEMMA DeleteRowsGood ==
  ASSUME IInv, NEW p \in Procs, DeleteRows(p)
  PROVE  IInv'
<1> DEFINE j == job[p]
           now == DeletedNow(j)
           gone == TracesOf(UNION {now[s] : s \in DOMAIN now})
           kept == {x \in j.shields \cap promised : j.fresh \/ x.by = p}
           segs == [s \in DOMAIN disk.segs |-> [disk.segs[s] EXCEPT !.dead = @ \cup now[s]]]
           old == Refreshed(p)
           m == [old EXCEPT !.segs = disk'.segs]
           t == [j EXCEPT !.pc = IF j.req.compact THEN "compact" ELSE "audit",
                          !.deed = Len(erased) + 1, !.deleted = gone, !.shields = {}]
<1>1. /\ j.pc = "delete" /\ disk' = [disk EXCEPT !.segs = segs] /\ mem' = [mem EXCEPT ![p] = m]
      /\ job' = [job EXCEPT ![p] = t] /\ erased' = Append(erased, gone)
      /\ wronged' = wronged \cup (gone \cap {x.rec.trace : x \in kept})
  <2>1. j.pc = "delete" /\ disk' = [disk EXCEPT !.segs = segs]
    BY DEF DeleteRows
  <2>2. mem' = [mem EXCEPT ![p] = m]
    BY DEF DeleteRows
  <2>3. job' = [job EXCEPT ![p] = t]
    BY DEF DeleteRows
  <2>4. erased' = Append(erased, gone) /\ wronged' = wronged \cup (gone \cap {x.rec.trace : x \in kept})
    BY DEF DeleteRows
  <2>5. QED
    BY <2>1, <2>2, <2>3, <2>4
<1>2. up' = up /\ faults' = faults /\ promised' = promised /\ unrecorded' = unrecorded
  BY DEF DeleteRows
<1>3. /\ p \in up /\ JobFields \subseteq DOMAIN j /\ SegsGood(j.segs)
      /\ \A x \in Owed(p, j) : x.rec.trace \notin j.traces
  BY <1>1, JobHas
<1>4. /\ DiskGood /\ faults \in Nat /\ wronged = {} /\ DOMAIN job = Procs /\ TrailGood
  BY DEF IInv, ProtectedKept
<1>5. ASSUME NEW s \in DOMAIN now, NEW r \in now[s]
      PROVE  r \in AllRows /\ r.trace \in j.traces
  <2>1. s \in DOMAIN j.segs /\ r \in Sought(j, s)
    BY <1>5 DEF DeletedNow
  <2>2. QED
    BY <1>3, <2>1 DEF Sought, Alive, SegsGood
<1>6. /\ UNION {now[s] : s \in DOMAIN now} \subseteq AllRows /\ gone \subseteq j.traces
  BY <1>5 DEF TracesOf
<1>7. IsFiniteSet(gone) /\ gone \subseteq Nat
  BY <1>6, TracesFinite
<1>8. wronged' = {}
  <2>1. \A x \in kept : x.rec.trace \notin gone
    BY <1>3, <1>6 DEF Owed
  <2> HIDE DEF kept, gone
  <2>2. QED
    BY <1>1, <1>4, <2>1
<1> HIDE DEF now, gone
<1>9. SegsGood(segs)
  <2>1. \A s \in DOMAIN disk.segs : disk.segs[s].rows \subseteq AllRows
    BY <1>4 DEF DiskGood, SegsGood
  <2>2. \A s \in DOMAIN disk.segs : segs[s].rows = disk.segs[s].rows
    OBVIOUS
  <2>3. DOMAIN segs = DOMAIN disk.segs
    OBVIOUS
  <2> HIDE DEF segs
  <2>4. QED
    BY <2>1, <2>2, <2>3 DEF SegsGood
<1> HIDE DEF segs
<1>10. /\ disk'.segs = segs /\ disk'.tail = disk.tail /\ disk'.file = disk.file /\ DOMAIN disk' = DOMAIN disk
  BY <1>1, <1>4 DEF DiskGood
<1>11. DiskGood' /\ faults' \in Nat
  BY <1>2, <1>4, <1>9, <1>10 DEF DiskGood
<1>12. /\ DOMAIN m = DOMAIN old /\ m.segs = disk'.segs
       /\ m.list = old.list /\ m.next = old.next /\ m.index = old.index
  <2>1. "segs" \in DOMAIN old
    BY RefreshedIs DEF MemGood, MemFields
  <2> HIDE DEF old
  <2>2. QED
    BY <2>1
<1> HIDE DEF m
<1>13. MemGood(m) /\ \A x \in promised : x.rec \in ToSet(m.list[x.kind])
  BY <1>9, <1>10, <1>12, RefreshedWith
<1>14. PICK c : c = t
  OBVIOUS
<1>15. /\ c.pc \in {"compact", "audit"} /\ c.deleted = gone /\ c.deed = Len(erased) + 1 /\ c.segs = j.segs /\ DOMAIN c = DOMAIN j
  <2>1. PICK k : k = j
    OBVIOUS
  <2>2. {"pc", "deed", "deleted", "shields"} \subseteq DOMAIN k
    BY <1>3, <2>1 DEF JobFields
  <2>3. c = [k EXCEPT !.pc = IF k.req.compact THEN "compact" ELSE "audit",
                      !.deed = Len(erased) + 1, !.deleted = gone, !.shields = {}]
    BY <1>14, <2>1
  <2>4. /\ c.pc \in {"compact", "audit"} /\ c.deleted = gone /\ c.deed = Len(erased) + 1 /\ c.segs = k.segs /\ DOMAIN c = DOMAIN k
    BY <2>2, <2>3
  <2>5. QED
    BY <2>1, <2>4
<1>16. job'[p] = c /\ DOMAIN job' = Procs /\ \A q \in Procs \ {p} : job'[q] = job[q]
  BY <1>1, <1>4, <1>14
<1>17. JobGood(p)'
  BY <1>2, <1>3, <1>7, <1>15, <1>16, JobIs
<1>18. TrailGood'
  <2>1. Filed("audits") \subseteq Filed("audits")'
    BY <1>10 DEF Filed
  <2>2. job[p].pc \notin {"compact", "audit"}
    BY <1>1
  <2>3. /\ p \in Procs /\ job'[p].pc \in {"compact", "audit"} /\ job'[p].deleted \subseteq Nat
        /\ job'[p].deed = Len(erased) + 1 /\ erased' = Append(erased, job'[p].deleted)
    BY <1>1, <1>7, <1>15, <1>16
  <2>4. QED
    BY <1>2, <1>4, <1>16, <2>1, <2>2, <2>3, AuditStays
<1>19. mem' = [mem EXCEPT ![p] = m]
  BY <1>1
<1>20. up' \subseteq up \cup {p} /\ (\A q \in up \ {p} : q \in up')
  BY <1>2
<1>21. QED
  BY <1>2, <1>8, <1>10, <1>11, <1>13, <1>16, <1>17, <1>18, <1>19, <1>20, QuietStep

\* A segment with deleted rows is rewritten, or there is none left.
LEMMA CompactDeletedGood ==
  ASSUME IInv, NEW p \in Procs, CompactDeleted(p)
  PROVE  IInv'
<1> DEFINE j == job[p]
           worn == {s \in DOMAIN disk.segs : disk.segs[s].dead # {}}
<1>1. /\ j.pc = "compact" /\ up' = up /\ faults' = faults
      /\ promised' = promised /\ erased' = erased /\ unrecorded' = unrecorded /\ wronged' = wronged
  BY DEF CompactDeleted, ghosts
<1>2. /\ DOMAIN mem = Procs /\ DOMAIN job = Procs /\ up \subseteq Procs /\ faults \in Nat /\ TrailGood
      /\ DiskGood /\ PromisesGood /\ wronged = {} /\ \A q \in Procs : MemGood(mem[q])
  BY DEF IInv, ProtectedKept
<1>3. /\ p \in up /\ JobFields \subseteq DOMAIN j /\ SegsGood(j.segs)
      /\ IsFiniteSet(j.deleted) /\ j.deleted \subseteq Nat
  BY <1>1, JobHas
<1>4. CASE worn = {}
  <2> DEFINE t == [j EXCEPT !.pc = "audit"]
  <2>1. job' = [job EXCEPT ![p] = t] /\ disk' = disk /\ mem' = mem
    BY <1>4 DEF CompactDeleted
  <2>2. PICK c : c = t
    OBVIOUS
  <2>3. c.pc = "audit" /\ c.deleted = j.deleted /\ Deed(c) = Deed(j) /\ c.segs = j.segs /\ DOMAIN c = DOMAIN j
    BY <1>3, <2>2 DEF JobFields, Deed
  <2> HIDE DEF t
  <2>4. job'[p] = c /\ DOMAIN job' = Procs /\ \A q \in Procs \ {p} : job'[q] = job[q]
    BY <1>2, <2>1, <2>2
  <2>5. JobGood(p)'
    BY <1>1, <1>3, <2>3, <2>4, JobIs
  <2>6. \A k : Filed(k)' = Filed(k)
    BY <2>1 DEF Filed
  <2>7. Grows /\ NoComeback /\ Filed("audits") \subseteq Filed("audits")'
    BY <1>1, <2>6, NoSave
  <2>8. TrailGood'
    BY <1>1, <1>2, <2>3, <2>4, <2>7, AuditStays
  <2>9. DiskGood'
    BY <1>2, <2>1 DEF DiskGood
  <2>10. PromisesGood'
    BY <1>1, <1>2, <2>1, <2>6 DEF PromisesGood, Held
  <2>11. DOMAIN mem' = Procs /\ \A q \in Procs : MemGood(mem'[q])
    BY <1>2, <2>1
  <2>12. faults' \in Nat /\ up' \subseteq Procs /\ (\A q \in up \ {p} : q \in up') /\ wronged' = {}
    BY <1>1, <1>2
  <2>13. QED
    BY <2>4, <2>5, <2>7, <2>8, <2>9, <2>10, <2>11, <2>12, StepGood
<1>5. CASE worn # {}
  <2>1. PICK s \in worn :
          /\ disk' = WithSegment([disk EXCEPT !.segs = [x \in DOMAIN disk.segs \ {s} |-> disk.segs[x]]],
                                 Alive(disk.segs, s))
          /\ mem' = [mem EXCEPT ![p] = [Refreshed(p) EXCEPT !.segs = disk'.segs]]
          /\ job' = job
    BY <1>5 DEF CompactDeleted
  <2> DEFINE others == [x \in DOMAIN disk.segs \ {s} |-> disk.segs[x]]
             d == [disk EXCEPT !.segs = others]
             old == Refreshed(p)
             m == [old EXCEPT !.segs = disk'.segs]
  <2>2. SegsGood(others) /\ Alive(disk.segs, s) \subseteq AllRows
    BY <1>2 DEF DiskGood, SegsGood, Alive
  <2> HIDE DEF others
  <2>3. DOMAIN d = DOMAIN disk /\ d.segs = others /\ d.tail = disk.tail /\ d.file = disk.file
    BY <1>2 DEF DiskGood
  <2>4. disk' = WithSegment(d, Alive(disk.segs, s))
    BY <2>1 DEF others
  <2> HIDE DEF d
  <2>5. DOMAIN disk' = DOMAIN disk /\ SegsGood(disk'.segs) /\ disk'.tail = disk.tail /\ disk'.file = disk.file
    BY <1>2, <2>2, <2>3, <2>4, WithSegmentIs DEF DiskGood
  <2>6. /\ DOMAIN m = DOMAIN old /\ m.segs = disk'.segs
        /\ m.list = old.list /\ m.next = old.next /\ m.index = old.index
    <3>1. "segs" \in DOMAIN old
      BY RefreshedIs DEF MemGood, MemFields
    <3> HIDE DEF old
    <3>2. QED
      BY <3>1
  <2>7. mem' = [mem EXCEPT ![p] = m]
    BY <2>1
  <2> HIDE DEF m
  <2>8. MemGood(m) /\ \A x \in promised : x.rec \in ToSet(m.list[x.kind])
    BY <2>5, <2>6, RefreshedWith
  <2>9. DiskGood' /\ faults' \in Nat
    BY <1>1, <1>2, <2>5 DEF DiskGood
  <2>10. QED
    BY <1>1, <2>1, <2>5, <2>7, <2>8, <2>9, IdleStep
<1>6. QED
  BY <1>4, <1>5

-----------------------------------------------------------------------------
(* What a request writes.                                                  *)

\* An audit tells what its request deleted.
LEMMA AuditNames ==
  ASSUME NEW j, NEW m, IsFiniteSet(j.deleted), j.deleted \subseteq Nat,
         NEW a, a = Numbered(m, "audits", AuditOf(j))
  PROVE  Tells(a, Deed(j))
<1>1. PICK r : r = AuditOf(j)
  OBVIOUS
<1>2. /\ r.deleted = Sample(j.deleted) /\ r.count = Cardinality(j.deleted) /\ r.truncated = Truncated(j)
      /\ r.of = j.deed /\ {"of", "deleted", "count", "truncated"} \subseteq DOMAIN r
  BY <1>1 DEF AuditOf
<1>3. a.of = r.of /\ a.deleted = r.deleted /\ a.count = r.count /\ a.truncated = r.truncated
  BY <1>1, <1>2 DEF Numbered, With
<1>4. Sample(j.deleted) \subseteq j.deleted
  BY DEF Sample
<1>5. Sample(j.deleted) # j.deleted => Truncated(j)
  BY SampleIs DEF Truncated
<1>6. QED
  BY <1>2, <1>3, <1>4, <1>5 DEF Tells, Deed

\* The audit of a request: on file, or its save failed and it is unrecorded.
LEMMA WriteAuditGood ==
  ASSUME IInv, NEW p \in Procs, WriteAudit(p)
  PROVE  IInv'
<1> DEFINE j == job[p]
           m == Refreshed(p)
           r == AuditOf(j)
           a == Numbered(m, "audits", r)
           t == IF j.policy = Absent THEN Idle ELSE [j EXCEPT !.pc = "ran"]
<1>1. /\ j.pc = "audit" /\ Saving(p, Added(m, "audits", r), "audits", a)
      /\ unrecorded' = IF faults' = faults THEN unrecorded ELSE unrecorded \cup {Deed(j)}
      /\ job' = [job EXCEPT ![p] = t] /\ up' = up /\ erased' = erased /\ wronged' = wronged
  BY DEF WriteAudit
<1>2. /\ p \in up /\ JobFields \subseteq DOMAIN j /\ SegsGood(j.segs)
      /\ IsFiniteSet(j.deleted) /\ j.deleted \subseteq Nat
  BY <1>1, JobHas
<1>3. /\ DOMAIN job = Procs /\ up \subseteq Procs /\ TrailGood /\ wronged = {}
  BY DEF IInv, ProtectedKept
<1>4. MemGood(m)
  BY RefreshedIs
<1>5. Onward(Added(m, "audits", r), m, "audits", a)
  <2> HIDE DEF m, r
  <2>1. QED
    BY <1>4, AddedOnward DEF Kinds
<1>6. /\ DOMAIN mem' = Procs /\ \A q \in Procs : MemGood(mem'[q])
      /\ DiskGood' /\ PromisesGood' /\ faults' \in Nat
      /\ Grows /\ NoComeback /\ Filed("audits") \subseteq Filed("audits")'
      /\ faults' = faults => a \in Filed("audits")'
  <2> HIDE DEF a, r
  <2>1. QED
    BY <1>1, <1>2, <1>5, SaveStep
<1>7. Tells(a, Deed(j))
  BY <1>2, AuditNames
<1>8. PICK c : c = t
  OBVIOUS
<1>9. c.pc \in {"idle", "ran"} /\ (c.pc = "ran" => DOMAIN c = DOMAIN j /\ c.segs = j.segs)
  <2>1. PICK k : k = j
    OBVIOUS
  <2>2. "pc" \in DOMAIN k
    BY <1>2, <2>1 DEF JobFields
  <2>3. c = IF k.policy = Absent THEN Idle ELSE [k EXCEPT !.pc = "ran"]
    BY <1>8, <2>1
  <2>4. c.pc \in {"idle", "ran"} /\ (c.pc = "ran" => DOMAIN c = DOMAIN k /\ c.segs = k.segs)
    BY <2>2, <2>3 DEF Idle
  <2>5. QED
    BY <2>1, <2>4
<1> HIDE DEF t, a, r
<1>10. job'[p] = c /\ DOMAIN job' = Procs /\ \A q \in Procs \ {p} : job'[q] = job[q]
  BY <1>1, <1>3, <1>8
<1>11. JobGood(p)'
  <2>1. CASE c.pc = "idle"
    BY <1>10, <2>1 DEF JobGood
  <2>2. CASE c.pc = "ran"
    BY <1>1, <1>2, <1>9, <1>10, <2>2, JobIs
  <2>3. QED
    BY <1>9, <2>1, <2>2
<1>12. TrailGood'
  <2>1. Deed(j) \in unrecorded' \/ \E x \in Filed("audits")' : Tells(x, Deed(j))
    BY <1>1, <1>6, <1>7
  <2>2. unrecorded \subseteq unrecorded'
    BY <1>1
  <2>3. QED
    BY <1>1, <1>3, <1>6, <1>10, <2>1, <2>2, AuditStays
<1>13. up' \subseteq Procs /\ (\A q \in up \ {p} : q \in up') /\ wronged' = {}
  BY <1>1, <1>3
<1>14. QED
  BY <1>6, <1>10, <1>11, <1>12, <1>13, StepGood

\* A policy marked as run, or not found: the request is over, or goes on with the next.
LEMMA RanJob ==
  ASSUME IInv, NEW p \in Procs, NEW t, t = IF Len(job[p].queue) = 1 THEN Idle ELSE [job[p] EXCEPT !.pc = "next"],
         job[p].pc = "ran", job' = [job EXCEPT ![p] = t], up' = up
  PROVE  /\ p \in up /\ DOMAIN job' = Procs /\ \A q \in Procs \ {p} : job'[q] = job[q]
         /\ JobGood(p)'
<1>1. p \in up /\ JobFields \subseteq DOMAIN job[p] /\ SegsGood(job[p].segs) /\ DOMAIN job = Procs
  BY JobHas DEF IInv
<1>2. PICK c : c = t
  OBVIOUS
<1>3. c.pc \in {"idle", "next"} /\ (c.pc = "next" => DOMAIN c = DOMAIN job[p] /\ c.segs = job[p].segs)
  <2>1. PICK k : k = job[p]
    OBVIOUS
  <2>2. "pc" \in DOMAIN k
    BY <1>1, <2>1 DEF JobFields
  <2>3. c = IF Len(k.queue) = 1 THEN Idle ELSE [k EXCEPT !.pc = "next"]
    BY <1>2, <2>1
  <2>4. c.pc \in {"idle", "next"} /\ (c.pc = "next" => DOMAIN c = DOMAIN k /\ c.segs = k.segs)
    BY <2>2, <2>3 DEF Idle
  <2>5. QED
    BY <2>1, <2>4
<1>4. job'[p] = c /\ DOMAIN job' = Procs /\ \A q \in Procs \ {p} : job'[q] = job[q]
  BY <1>1, <1>2
<1>5. CASE c.pc = "idle"
  BY <1>1, <1>4, <1>5 DEF JobGood
<1>6. CASE c.pc = "next"
  BY <1>1, <1>3, <1>4, <1>6, JobIs
<1>7. QED
  BY <1>3, <1>5, <1>6

\* A policy is marked as run.
LEMMA MarkRanGood ==
  ASSUME IInv, NEW p \in Procs, MarkRan(p)
  PROVE  IInv'
<1> DEFINE j == job[p]
           m == Refreshed(p)
           now == j.queue[1]
           new(i) == [m.list["policies"][i] EXCEPT !.last = now, !.next = now + m.list["policies"][i].interval,
                                                   !.rev = @ + 1]
           m2(i) == [m EXCEPT !.list["policies"][i] = new(i)]
<1>1. /\ j.pc = "ran" /\ up' = up /\ erased' = erased /\ unrecorded' = unrecorded /\ wronged' = wronged
      /\ job' = [job EXCEPT ![p] = IF Len(j.queue) = 1 THEN Idle ELSE [j EXCEPT !.pc = "next"]]
  BY DEF MarkRan
<1>2. PICK i \in Find(m, "policies", j.policy, j.req.tenant) : Saving(p, m2(i), "policies", new(i))
  BY DEF MarkRan
<1>3. p \in up /\ JobGood(p)' /\ DOMAIN job' = Procs /\ \A q \in Procs \ {p} : job'[q] = job[q]
  BY <1>1, RanJob
<1>4. i \in DOMAIN m.list["policies"] /\ MemGood(m)
  BY <1>2, RefreshedIs DEF Find
<1>5. Onward(m2(i), m, "policies", new(i))
  <2> HIDE DEF m, now
  <2>1. QED
    BY <1>4, RanOnward
<1>6. /\ DOMAIN mem' = Procs /\ \A q \in Procs : MemGood(mem'[q])
      /\ DiskGood' /\ PromisesGood' /\ faults' \in Nat
      /\ Grows /\ NoComeback /\ Filed("audits") \subseteq Filed("audits")'
  <2> HIDE DEF m2, new
  <2>1. QED
    BY <1>1, <1>2, <1>3, <1>5, SaveStep
<1>7. TrailGood /\ up \subseteq Procs /\ wronged = {}
  BY DEF IInv, ProtectedKept
<1>8. TrailGood'
  BY <1>1, <1>3, <1>6, <1>7, AuditStays
<1>9. up' \subseteq Procs /\ (\A q \in up \ {p} : q \in up') /\ wronged' = {}
  BY <1>1, <1>7
<1>10. QED
  BY <1>3, <1>6, <1>8, <1>9, StepGood

\* A policy that is gone.
LEMMA MarkNoneGood ==
  ASSUME IInv, NEW p \in Procs, MarkNone(p)
  PROVE  IInv'
<1> DEFINE j == job[p]
           m == Refreshed(p)
<1>1. /\ j.pc = "ran" /\ mem' = [mem EXCEPT ![p] = m]
      /\ job' = [job EXCEPT ![p] = IF Len(j.queue) = 1 THEN Idle ELSE [j EXCEPT !.pc = "next"]]
  BY DEF MarkNone
<1>2. /\ disk' = disk /\ up' = up /\ faults' = faults /\ promised' = promised /\ erased' = erased
      /\ unrecorded' = unrecorded /\ wronged' = wronged
  BY DEF MarkNone, ghosts
<1>3. p \in up /\ JobGood(p)' /\ DOMAIN job' = Procs /\ \A q \in Procs \ {p} : job'[q] = job[q]
  BY <1>1, <1>2, RanJob
<1>4. MemGood(m) /\ \A x \in promised : x.rec \in ToSet(m.list[x.kind])
  BY RefreshedIs, RefreshedHolds
<1>5. TrailGood /\ wronged = {} /\ DiskGood /\ faults \in Nat
  BY DEF IInv, ProtectedKept
<1>6. DiskGood' /\ Filed("audits")' = Filed("audits")
  BY <1>2, <1>5 DEF DiskGood, Filed
<1>7. TrailGood'
  BY <1>1, <1>2, <1>3, <1>5, <1>6, AuditStays
<1>8. QED
  BY <1>1, <1>2, <1>3, <1>4, <1>5, <1>6, <1>7, QuietStep

\* A process that is not running holds an empty ledger and no segments.
LEMMA ClosedIsGood == MemGood(Closed)
<1>1. /\ Closed.segs = <<>> /\ Closed.list = EmptyMem.list /\ Closed.next = EmptyMem.next
      /\ Closed.index = EmptyMem.index /\ DOMAIN Closed = MemFields
  BY DEF Closed, MemFields
<1>2. LedgerGood(Closed)
  BY <1>1, EmptyIsGood DEF LedgerGood
<1>3. SegsGood(Closed.segs)
  BY <1>1 DEF SegsGood
<1>4. QED
  BY <1>1, <1>2, <1>3 DEF MemGood

\* A process that dies forgets what it held; a request that deleted and had not
\* yet written its audit is unrecorded.
LEMMA CrashGood ==
  ASSUME IInv, NEW p \in Procs, Crash(p)
  PROVE  IInv'
<1>1. /\ faults' = faults + 1 /\ up' = up \ {p} /\ mem' = [mem EXCEPT ![p] = Closed]
      /\ unrecorded' = unrecorded \cup (IF job[p].pc \in {"compact", "audit"} THEN {Deed(job[p])} ELSE {})
      /\ job' = [job EXCEPT ![p] = Idle]
      /\ disk' = disk /\ promised' = promised /\ erased' = erased /\ wronged' = wronged
  BY DEF Crash
<1>2. /\ DOMAIN job = Procs /\ TrailGood /\ wronged = {} /\ DiskGood /\ faults \in Nat
  BY DEF IInv, ProtectedKept
<1>3. MemGood(Closed)
  BY ClosedIsGood
<1>4. /\ job'[p].pc = "idle" /\ DOMAIN job' = Procs /\ \A q \in Procs \ {p} : job'[q] = job[q]
  BY <1>1, <1>2 DEF Idle
<1>5. JobGood(p)'
  BY <1>4 DEF JobGood
<1>6. DiskGood' /\ Filed("audits")' = Filed("audits") /\ faults' \in Nat
  BY <1>1, <1>2 DEF DiskGood, Filed
<1>7. unrecorded \subseteq unrecorded' /\ (job[p].pc \notin {"compact", "audit"} \/ Deed(job[p]) \in unrecorded')
  BY <1>1
<1>8. TrailGood'
  BY <1>1, <1>2, <1>4, <1>6, <1>7, AuditStays
<1>9. p \notin up' /\ up' \subseteq up \cup {p} /\ \A q \in up \ {p} : q \in up'
  BY <1>1
<1>10. QED
  BY <1>1, <1>2, <1>3, <1>4, <1>5, <1>6, <1>8, <1>9, QuietStep

-----------------------------------------------------------------------------
(* The invariant holds.                                                    *)

\* A store that was never opened, with whatever file it has.
LEMMA InitGood ==
  ASSUME Init
  PROVE  IInv
<1>1. PICK f \in OldFiles : disk = [segs |-> <<[rows |-> OldRows, dead |-> {}]>>, tail |-> {}, next |-> 2, file |-> f]
  BY DEF Init
<1>2. /\ mem = [p \in Procs |-> Closed] /\ up = {} /\ job = [p \in Procs |-> Idle] /\ faults = 0
      /\ promised = {} /\ erased = <<>> /\ wronged = {}
  BY DEF Init
<1>3. FileGood(f)
  BY LedgerConstants DEF FileGood
<1>4. DiskGood
  <2>1. SegsGood(<<[rows |-> OldRows, dead |-> {}]>>)
    BY DEF SegsGood, AllRows
  <2>2. QED
    BY <1>1, <1>3, <2>1 DEF DiskGood
<1>5. \A p \in Procs : MemGood(mem[p]) /\ JobGood(p)
  BY <1>2, ClosedIsGood DEF JobGood, Idle
<1>6. PromisesGood /\ ProtectedKept
  BY <1>2 DEF PromisesGood, ProtectedKept
<1>7. TrailGood
  BY <1>2 DEF TrailGood, AuditTrail
<1>8. QED
  BY <1>2, <1>4, <1>5, <1>6, <1>7 DEF IInv

\* A step that changes nothing the model knows of.
LEMMA StutterGood ==
  ASSUME IInv, UNCHANGED vars
  PROVE  IInv'
<1>1. \A p \in Procs : JobGood(p)'
  BY DEF IInv, vars, ghosts, JobGood, ShieldGood, Filed, Owed
<1>2. QED
  BY <1>1 DEF IInv, vars, ghosts, DiskGood, PromisesGood, Filed, Held, TrailGood, AuditTrail, ProtectedKept

\* Every step keeps the invariant.
LEMMA NextGood ==
  ASSUME IInv, [Next]_vars
  PROVE  IInv'
<1>1. CASE UNCHANGED vars
  BY <1>1, StutterGood
<1>2. CASE Next
  <2>1. PICK p \in Procs :
          \/ Start(p) \/ Crash(p) \/ ReadLedger(p) \/ Flush(p)
          \/ \E r \in Rows : Ingest(p, r)
          \/ (\E b \in AnnotationBodies : CreateAnnotation(p, b)) \/ (\E b \in DatasetBodies : CreateDataset(p, b))
          \/ \E b \in PolicyBodies : CreatePolicy(p, b)
          \/ \E id \in 1..MaxRecords["annotations"], c \in Changes : ChangeAnnotation(p, id, c)
          \/ \E req \in RetentionBodies, fresh \in BOOLEAN : StartRequest(p, req, fresh)
          \/ \E fresh \in BOOLEAN : ReadAnnotations(p, fresh) \/ ReadDatasets(p, fresh) \/ NextDue(p, fresh)
          \/ DeleteRows(p) \/ CompactDeleted(p) \/ WriteAudit(p) \/ MarkRan(p) \/ MarkNone(p)
          \/ \E call \in RunCalls, fresh \in BOOLEAN : RunDue(p, call, fresh)
    BY <1>2 DEF Next
  <2>2. CASE Start(p)
    BY <2>2, StartGood
  <2>3. CASE Crash(p)
    BY <2>3, CrashGood
  <2>4. CASE ReadLedger(p)
    BY <2>4, ReadLedgerGood
  <2>5. CASE Flush(p)
    BY <2>5, FlushGood
  <2>6. CASE \E r \in Rows : Ingest(p, r)
    BY <2>6, IngestGood
  <2>7. CASE \E b \in AnnotationBodies : CreateAnnotation(p, b)
    BY <2>7, CreateAnnotationGood
  <2>8. CASE \E b \in DatasetBodies : CreateDataset(p, b)
    BY <2>8, CreateDatasetGood
  <2>9. CASE \E b \in PolicyBodies : CreatePolicy(p, b)
    BY <2>9, CreatePolicyGood
  <2>10. CASE \E id \in 1..MaxRecords["annotations"], c \in Changes : ChangeAnnotation(p, id, c)
    BY <2>10, ChangeAnnotationGood
  <2>11. CASE \E req \in RetentionBodies, fresh \in BOOLEAN : StartRequest(p, req, fresh)
    BY <2>11, StartRequestGood
  <2>12. CASE \E fresh \in BOOLEAN : ReadAnnotations(p, fresh)
    BY <2>12, ReadAnnotationsGood
  <2>13. CASE \E fresh \in BOOLEAN : ReadDatasets(p, fresh)
    BY <2>13, ReadDatasetsGood
  <2>14. CASE \E fresh \in BOOLEAN : NextDue(p, fresh)
    BY <2>14, NextDueGood
  <2>15. CASE DeleteRows(p)
    BY <2>15, DeleteRowsGood
  <2>16. CASE CompactDeleted(p)
    BY <2>16, CompactDeletedGood
  <2>17. CASE WriteAudit(p)
    BY <2>17, WriteAuditGood
  <2>18. CASE MarkRan(p)
    BY <2>18, MarkRanGood
  <2>19. CASE MarkNone(p)
    BY <2>19, MarkNoneGood
  <2>20. CASE \E call \in RunCalls, fresh \in BOOLEAN : RunDue(p, call, fresh)
    BY <2>20, RunDueGood
  <2>21. QED
    BY <2>1, <2>2, <2>3, <2>4, <2>5, <2>6, <2>7, <2>8, <2>9, <2>10, <2>11, <2>12, <2>13, <2>14,
       <2>15, <2>16, <2>17, <2>18, <2>19, <2>20
<1>3. QED
  BY <1>1, <1>2

-----------------------------------------------------------------------------
(* The theorems.                                                           *)

\* The file only goes on, promises stand in it and in the memory of the process
\* that made them, and a request owes what it read: whatever the processes, the
\* requests, the crashes and the saves that fail.
THEOREM Invariance == Spec => []IInv
<1>1. Init => IInv
  BY InitGood
<1>2. IInv /\ [Next]_vars => IInv'
  BY NextGood
<1>3. QED
  BY <1>1, <1>2, PTL DEF Spec

\* No lost update: a record a client was told of, and whose save succeeded, is
\* in the ledger's file as its last change left it, and ids are not shared.
THEOREM AckedRecordsKept == Spec => []AckedKept
<1>1. IInv => AckedKept
  <2>1. SUFFICES ASSUME IInv PROVE AckedKept
    OBVIOUS
  <2>2. LedgerGood(OnFile(disk.file))
    <3>1. FileGood(disk.file) /\ {"list", "next", "index"} \subseteq DOMAIN EmptyMem /\ LedgerGood(EmptyMem)
      BY <2>1, EmptyIsGood DEF IInv, DiskGood, EmptyMem
    <3>2. QED
      BY <3>1, RefreshIs
  <2>3. \A x \in promised : x.rec \in ToSet(OnFile(disk.file).list[x.kind])
    BY <2>1 DEF IInv, PromisesGood, Filed
  <2>4. ASSUME NEW k \in Kinds
        PROVE  IsInjective([i \in DOMAIN OnFile(disk.file).list[k] |-> OnFile(disk.file).list[k][i].id])
    <3>1. Records(k, OnFile(disk.file).list[k])
      BY <2>2 DEF LedgerGood
    <3>2. QED
      BY <3>1 DEF Records, IsInjective
  <2>5. QED
    BY <2>3, <2>4 DEF AckedKept, OnFile
<1>2. QED
  BY <1>1, Invariance, PTL

\* A query answers with every record its final check accepts, at every moment and
\* in every process, but for a label that is stored in two spellings.
THEOREM AnswersAreComplete == Spec => []AnswersComplete
<1>1. IInv => AnswersComplete
  <2>1. SUFFICES ASSUME IInv, NEW p \in up, NEW q \in Queries, ~ MixedSpelling(mem[p].list, q[1])
                 PROVE  Answer(mem[p], q[1], q[2]) = Scan(mem[p], q[1], q[2])
    BY DEF AnswersComplete
  <2>2. LedgerGood(mem[p])
    BY <2>1 DEF IInv, MemGood
  <2>3. q[1] \in Kinds /\ DOMAIN q[2].where \subseteq PostedFields(q[1]) \cup {"id"}
    BY LedgerConstants
  <2>4. QED
    BY <2>1, <2>2, <2>3, AnswerIsScan
<1>2. QED
  BY <1>1, Invariance, PTL

\* Retention deletes no trace that a record it had to see protects.
THEOREM ProtectedTracesKept == Spec => []ProtectedKept
<1>1. IInv => ProtectedKept
  BY DEF IInv
<1>2. QED
  BY <1>1, Invariance, PTL

\* What each request deleted is told by an audit of its own, with all the traces or
\* the word that there are more, unless the request has yet to write it, died, or
\* could not save it.
THEOREM AuditsTellAll == Spec => []AuditTrail
<1>1. IInv => AuditTrail
  BY DEF IInv, TrailGood
<1>2. QED
  BY <1>1, Invariance, PTL
=============================================================================
