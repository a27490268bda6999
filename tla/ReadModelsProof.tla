---------------------------- MODULE ReadModelsProof ----------------------------
(***************************************************************************)
(* The rollup and the text index, for any script of events, any readers    *)
(* and any bounds.                                                         *)
(*                                                                         *)
(* A rollup that is applied event by event has, of every span, the kinds   *)
(* of the events it was given; as long as those came in the order of seq,  *)
(* it is the folded read of them, and it stays so when events at the end   *)
(* are applied once more.  That is what lets a sidecar be loaded whose     *)
(* stamp does not tell how much of the log's tail is in it.                *)
(***************************************************************************)
EXTENDS ReadModels, FiniteSetTheorems, SequenceTheorems, WellFoundedInduction, TLAPS

-----------------------------------------------------------------------------
(* What it means to apply events.                                          *)

\* Something that can be applied: events on bounded positions.
Applicable(f) ==
  /\ \E n \in Nat : DOMAIN f \subseteq 0..n
  /\ \A i \in DOMAIN f : f[i] \in Events

\* The events of S by themselves, in the order of seq.
InSeqOrder(S) == [e \in S |-> e]

\* The kinds of event that span s has in S.
KindsIn(S, s) == {Script[e].kind : e \in {x \in S : Script[x].span = s}}
HasKinds(rows, S) == \A s \in Spans : rows[s].kinds = KindsIn(S, s)

\* Events are numbers, with a span, a kind, and perhaps a session and tokens.
LEMMA EventFields ==
  /\ Events = 1..Len(Script) /\ Len(Script) \in Nat
  /\ \A e \in Events :
       /\ Script[e].span \in Spans /\ Script[e].kind \in Kinds
       /\ Script[e].sess \in Sessions \cup {None} /\ Script[e].tok \in Nat
<1> DEFINE Fields == [span : Spans, kind : Kinds, sess : Sessions \cup {None}, tok : Nat]
<1>1. Script \in Seq(Fields)
  BY ScriptOfEvents
<1> HIDE DEF Fields
<1>2. Len(Script) \in Nat /\ DOMAIN Script = 1..Len(Script) /\ \A e \in 1..Len(Script) : Script[e] \in Fields
  BY <1>1
<1>3. QED
  BY <1>2 DEF Events, Fields

\* A non-empty set of naturals up to n has a greatest element, its maximum: the
\* sets k..n, k in the set, are finite and so have one that includes no other.
LEMMA MaxIsGreatest ==
  ASSUME NEW n \in Nat, NEW S, S \subseteq 0..n, S # {}
  PROVE  Max(S) \in S /\ \A k \in S : k <= Max(S)
<1> DEFINE T == {k..n : k \in S}
<1>1. IsWellFoundedOn(StrictSubsetOrdering(Nat), FiniteSubsetsOf(Nat))
  BY FS_StrictSubsetOrderingWellFounded
<1>2. T \subseteq FiniteSubsetsOf(Nat) /\ T # {}
  <2>1. \A k \in Nat : k..n \subseteq Nat /\ IsFiniteSet(k..n)
    BY FS_Interval
  <2>2. QED
    BY <2>1 DEF FiniteSubsetsOf
<1>3. PICK t \in T : \A u \in T : <<u, t>> \notin StrictSubsetOrdering(Nat)
  <2> HIDE DEF T
  <2>1. QED
    BY <1>1, <1>2, WFMin
<1>4. PICK x \in S : t = x..n
  OBVIOUS
<1>5. ASSUME NEW y \in S PROVE x >= y
  <2>1. ~(y..n \subseteq x..n /\ y..n # x..n)
    <3>1. <<y..n, x..n>> \notin StrictSubsetOrdering(Nat)
      BY <1>3, <1>4
    <3>2. y..n \in SUBSET Nat /\ x..n \in SUBSET Nat
      OBVIOUS
    <3>3. QED
      BY <3>1, <3>2, Zenon DEF StrictSubsetOrdering
  <2>2. CASE x < y
    <3>1. y..n \subseteq x..n /\ x \in x..n /\ x \notin y..n
      BY <2>2
    <3>2. QED
      BY <2>1, <3>1
  <2>3. QED
    BY <2>2
<1>6. Max(S) \in S /\ \A k \in S : Max(S) >= k
  BY <1>5 DEF Max
<1>7. QED
  BY <1>6

\* It is the only one that is as great as all others.
LEMMA MaxIs ==
  ASSUME NEW n \in Nat, NEW S, S \subseteq 0..n, NEW m \in S, \A k \in S : k <= m
  PROVE  Max(S) = m
<1>1. Max(S) \in S /\ m <= Max(S)
  BY MaxIsGreatest
<1>2. Max(S) <= m
  BY <1>1
<1>3. m \in 0..n /\ Max(S) \in 0..n
  BY <1>1, Zenon
<1>4. QED
  BY <1>1, <1>2, <1>3

\* Of the events that can be applied, the last with a session is one of them.
LEMMA LastOf ==
  ASSUME NEW f, Applicable(f), NEW S, S \subseteq DOMAIN f, S # {}
  PROVE  Max(S) \in S /\ (\A k \in S : k <= Max(S)) /\ S \subseteq Nat
<1>1. PICK n \in Nat : DOMAIN f \subseteq 0..n
  BY DEF Applicable
<1>2. S \subseteq 0..n
  BY <1>1
<1>3. QED
  BY <1>2, MaxIsGreatest

\* Rows stay rows.
LEMMA ApplyAllType ==
  ASSUME NEW rows \in [Spans -> Row], NEW f, Applicable(f)
  PROVE  ApplyAll(rows, f) \in [Spans -> Row]
<1>1. SUFFICES ASSUME NEW s \in Spans PROVE ApplyFields(rows[s], f, s) \in Row
  BY DEF ApplyAll
<1>2. OfSpan(f, s) \subseteq DOMAIN f /\ WithSess(f, s) \subseteq DOMAIN f /\ WithTok(f, s) \subseteq DOMAIN f
  BY DEF OfSpan, WithSess, WithTok
<1>3. \A i \in DOMAIN f : f[i] \in Events
  BY DEF Applicable
<1>4. WithSess(f, s) # {} => Script[f[Max(WithSess(f, s))]].sess \in Sessions \cup {None}
  BY <1>2, <1>3, LastOf, EventFields
<1>5. WithTok(f, s) # {} => Script[f[Max(WithTok(f, s))]].tok \in Nat
  BY <1>2, <1>3, LastOf, EventFields
<1>6. {Script[f[i]].kind : i \in OfSpan(f, s)} \subseteq Kinds
  BY <1>2, <1>3, EventFields
<1>7. rows[s].sess \in Sessions \cup {None} /\ rows[s].tok \in Nat /\ rows[s].kinds \subseteq Kinds
  BY DEF Row
<1>8. QED
  BY <1>4, <1>5, <1>6, <1>7 DEF ApplyFields, Row

\* Applying adds the kinds of the events applied, whatever their order.
LEMMA ApplyAllKinds ==
  ASSUME NEW rows, NEW f, NEW s \in Spans
  PROVE  ApplyAll(rows, f)[s].kinds = rows[s].kinds \cup KindsIn(Range(f), s)
  BY DEF ApplyAll, ApplyFields, KindsIn, Range, OfSpan

\* Applying what is in order is applying its events in the order of seq.
LEMMA AppliedInOrder ==
  ASSUME NEW rows, NEW f, Applicable(f), Increasing(f)
  PROVE  ApplyAll(rows, f) = ApplyAll(rows, InSeqOrder(Range(f)))
<1> DEFINE g == InSeqOrder(Range(f))
<1>1. PICK n \in Nat : DOMAIN f \subseteq 0..n
  BY DEF Applicable
<1>2. Range(f) \subseteq 0..Len(Script) /\ Len(Script) \in Nat
  BY EventFields DEF Applicable, Range
<1>3. DOMAIN g = Range(f) /\ \A e \in Range(f) : g[e] = e
  BY DEF InSeqOrder
<1>4. ASSUME NEW W, W \subseteq DOMAIN f, NEW V, V = {f[i] : i \in W}, W # {}
      PROVE  V # {} /\ g[Max(V)] = f[Max(W)]
  <2>1. Max(W) \in W /\ \A k \in W : k <= Max(W)
    BY <1>4, LastOf
  <2>2. V \subseteq 0..Len(Script) /\ f[Max(W)] \in V
    BY <1>2, <1>4, <2>1 DEF Range
  <2>3. \A e \in V : e <= f[Max(W)]
    <3>1. SUFFICES ASSUME NEW i \in W PROVE f[i] <= f[Max(W)]
      BY <1>4
    <3>2. i \in Nat /\ Max(W) \in Nat /\ i <= Max(W)
      BY <1>1, <1>4, <2>1
    <3>3. f[i] \in Nat /\ f[Max(W)] \in Nat
      BY <1>2, <1>4, <2>1 DEF Range
    <3>4. CASE i = Max(W)
      BY <3>3, <3>4
    <3>5. CASE i < Max(W)
      BY <1>4, <2>1, <3>3, <3>5 DEF Increasing
    <3>6. QED
      BY <3>2, <3>4, <3>5
  <2>4. Max(V) = f[Max(W)]
    BY <1>2, <2>2, <2>3, MaxIs
  <2>5. f[Max(W)] \in Range(f)
    BY <1>4, <2>1 DEF Range
  <2>6. QED
    BY <1>3, <2>2, <2>4, <2>5
<1>5. SUFFICES ASSUME NEW s \in Spans PROVE ApplyFields(rows[s], f, s) = ApplyFields(rows[s], g, s)
  BY DEF ApplyAll
<1>6. /\ WithSess(f, s) \subseteq DOMAIN f /\ WithSess(g, s) = {f[i] : i \in WithSess(f, s)}
      /\ WithTok(f, s) \subseteq DOMAIN f /\ WithTok(g, s) = {f[i] : i \in WithTok(f, s)}
      /\ OfSpan(g, s) = {f[i] : i \in OfSpan(f, s)}
  BY <1>3 DEF WithSess, WithTok, OfSpan, Range
<1>7. {Script[f[i]].kind : i \in OfSpan(f, s)} = {Script[g[i]].kind : i \in OfSpan(g, s)}
  <2>1. \A i \in OfSpan(f, s) : f[i] \in Range(f)
    BY DEF OfSpan, Range
  <2>2. QED
    BY <1>3, <1>6, <2>1
<1>8. WithSess(f, s) # {} => WithSess(g, s) # {} /\ g[Max(WithSess(g, s))] = f[Max(WithSess(f, s))]
  BY <1>4, <1>6
<1>9. WithTok(f, s) # {} => WithTok(g, s) # {} /\ g[Max(WithTok(g, s))] = f[Max(WithTok(f, s))]
  BY <1>4, <1>6
<1>10. (WithSess(f, s) = {} => WithSess(g, s) = {}) /\ (WithTok(f, s) = {} => WithTok(g, s) = {})
  BY <1>6
<1> HIDE DEF g
<1>11. QED
  BY <1>7, <1>8, <1>9, <1>10 DEF ApplyFields

\* Events at the end that were applied before can be applied again with those
\* that follow them: each value is that of the last event that has one.
LEMMA AppliedAgain ==
  ASSUME NEW rows, NEW L, L \subseteq Events, NEW M, M \subseteq Events, \A e \in L, f \in M : e < f,
         NEW B, L \subseteq B, B \subseteq L \cup M, NEW A, A = L \cup M
  PROVE  ApplyAll(ApplyAll(rows, InSeqOrder(B)), InSeqOrder(M)) = ApplyAll(rows, InSeqOrder(A))
<1> DEFINE T == B \ L
           before == InSeqOrder(B)
           again == InSeqOrder(M)
           all == InSeqOrder(A)
<1>1. /\ DOMAIN before = L \cup T /\ \A e \in L \cup T : before[e] = e
      /\ DOMAIN again = M /\ \A e \in M : again[e] = e
      /\ DOMAIN all = L \cup M /\ \A e \in L \cup M : all[e] = e
  BY DEF InSeqOrder
<1>0. B = L \cup T /\ T \subseteq M
  OBVIOUS
<1>2. /\ L \subseteq 0..Len(Script) /\ M \subseteq 0..Len(Script) /\ Len(Script) \in Nat
  BY EventFields
<1>3. ASSUME NEW U, U \subseteq L, NEW V, V \subseteq M, V # {}
      PROVE  Max(U \cup V) = Max(V) /\ Max(V) \in V
  <2>1. V \subseteq 0..Len(Script) /\ U \cup V \subseteq 0..Len(Script)
    BY <1>2, <1>3
  <2>2. Max(V) \in V /\ \A k \in V : k <= Max(V)
    BY <1>2, <1>3, <2>1, MaxIsGreatest
  <2>3. \A k \in U : k <= Max(V)
    <3>1. \A k \in U : k < Max(V)
      BY <1>3, <2>2
    <3>2. Max(V) \in Nat /\ U \subseteq Nat
      BY <2>1, <2>2
    <3>3. QED
      BY <3>1, <3>2
  <2>4. QED
    BY <1>2, <2>1, <2>2, <2>3, MaxIs
<1> HIDE DEF T, before, again, all
<1>4. SUFFICES ASSUME NEW s \in Spans
               PROVE  ApplyFields(ApplyFields(rows[s], before, s), again, s) = ApplyFields(rows[s], all, s)
  BY DEF ApplyAll, before, again, all
<1> DEFINE Of(S) == {e \in S : Script[e].span = s}
           Sess(S) == {e \in Of(S) : Script[e].sess # None}
           Tok(S) == {e \in Of(S) : Script[e].tok # 0}
<1>5. /\ OfSpan(before, s) = Of(L) \cup Of(T) /\ OfSpan(again, s) = Of(M) /\ OfSpan(all, s) = Of(L) \cup Of(M)
      /\ WithSess(before, s) = Sess(L) \cup Sess(T) /\ WithSess(again, s) = Sess(M)
      /\ WithSess(all, s) = Sess(L) \cup Sess(M)
      /\ WithTok(before, s) = Tok(L) \cup Tok(T) /\ WithTok(again, s) = Tok(M)
      /\ WithTok(all, s) = Tok(L) \cup Tok(M)
  BY <1>0, <1>1 DEF OfSpan, WithSess, WithTok
<1>6. /\ Of(L) \subseteq L /\ Of(M) \subseteq M /\ Of(T) \subseteq Of(M)
      /\ Sess(L) \subseteq L /\ Sess(M) \subseteq M /\ Sess(T) \subseteq Sess(M)
      /\ Tok(L) \subseteq L /\ Tok(M) \subseteq M /\ Tok(T) \subseteq Tok(M)
  BY <1>0
<1>7. ApplyFields(ApplyFields(rows[s], before, s), again, s).kinds = ApplyFields(rows[s], all, s).kinds
  <2>1. \A e \in Of(L) \cup Of(T) : before[e] = e
    BY <1>1
  <2>2. (\A e \in Of(M) : again[e] = e) /\ (\A e \in Of(L) \cup Of(M) : all[e] = e)
    BY <1>1
  <2> HIDE DEF Of
  <2>3. QED
    BY <1>5, <1>6, <2>1, <2>2 DEF ApplyFields
<1>8. ApplyFields(ApplyFields(rows[s], before, s), again, s).sess = ApplyFields(rows[s], all, s).sess
  <2>1. CASE Sess(M) = {}
    <3>1. WithSess(before, s) = Sess(L) /\ WithSess(again, s) = {} /\ WithSess(all, s) = Sess(L)
      BY <1>5, <1>6, <2>1
    <3>2. Sess(L) # {} => before[Max(Sess(L))] = all[Max(Sess(L))]
      <4>1. Sess(L) # {} => Max(Sess(L)) \in Sess(L)
        BY <1>2, <1>6, MaxIsGreatest
      <4>2. QED
        BY <1>1, <1>6, <4>1
    <3> HIDE DEF Sess
    <3>3. QED
      BY <3>1, <3>2 DEF ApplyFields
  <2>2. CASE Sess(M) # {}
    <3>1. Max(Sess(L) \cup Sess(M)) = Max(Sess(M)) /\ Max(Sess(M)) \in Sess(M)
      BY <1>3, <1>6, <2>2
    <3>2. again[Max(Sess(M))] = all[Max(Sess(M))]
      BY <1>1, <1>6, <3>1
    <3> HIDE DEF Sess
    <3>3. QED
      BY <1>5, <2>2, <3>1, <3>2 DEF ApplyFields
  <2>3. QED
    BY <2>1, <2>2
<1>9. ApplyFields(ApplyFields(rows[s], before, s), again, s).tok = ApplyFields(rows[s], all, s).tok
  <2>1. CASE Tok(M) = {}
    <3>1. WithTok(before, s) = Tok(L) /\ WithTok(again, s) = {} /\ WithTok(all, s) = Tok(L)
      BY <1>5, <1>6, <2>1
    <3>2. Tok(L) # {} => before[Max(Tok(L))] = all[Max(Tok(L))]
      <4>1. Tok(L) # {} => Max(Tok(L)) \in Tok(L)
        BY <1>2, <1>6, MaxIsGreatest
      <4>2. QED
        BY <1>1, <1>6, <4>1
    <3> HIDE DEF Tok
    <3>3. QED
      BY <3>1, <3>2 DEF ApplyFields
  <2>2. CASE Tok(M) # {}
    <3>1. Max(Tok(L) \cup Tok(M)) = Max(Tok(M)) /\ Max(Tok(M)) \in Tok(M)
      BY <1>3, <1>6, <2>2
    <3>2. again[Max(Tok(M))] = all[Max(Tok(M))]
      BY <1>1, <1>6, <3>1
    <3> HIDE DEF Tok
    <3>3. QED
      BY <1>5, <2>2, <3>1, <3>2 DEF ApplyFields
  <2>3. QED
    BY <2>1, <2>2
<1>10. QED
  <2>1. ASSUME NEW r1, NEW f1, NEW r2, NEW f2,
               ApplyFields(r1, f1, s).sess = ApplyFields(r2, f2, s).sess,
               ApplyFields(r1, f1, s).tok = ApplyFields(r2, f2, s).tok,
               ApplyFields(r1, f1, s).kinds = ApplyFields(r2, f2, s).kinds
        PROVE  ApplyFields(r1, f1, s) = ApplyFields(r2, f2, s)
    BY <2>1 DEF ApplyFields
  <2>2. QED
    BY <1>7, <1>8, <1>9, <2>1

\* A folded read has the kinds of its events.
LEMMA FoldedKinds ==
  ASSUME NEW S
  PROVE  HasKinds(Folded(S), S)
<1>1. Range(InSeqOrder(S)) = S
  BY DEF Range, InSeqOrder
<1>2. ASSUME NEW s \in Spans PROVE NoRows[s].kinds = {}
  BY DEF NoRows, Blank
<1>3. Folded(S) = ApplyAll(NoRows, InSeqOrder(S))
  BY DEF Folded, InSeqOrder
<1>4. ASSUME NEW s \in Spans PROVE Folded(S)[s].kinds = KindsIn(S, s)
  <2>1. ApplyAll(NoRows, InSeqOrder(S))[s].kinds = NoRows[s].kinds \cup KindsIn(Range(InSeqOrder(S)), s)
    BY ApplyAllKinds
  <2>2. QED
    BY <1>1, <1>2, <1>3, <2>1
<1>5. QED
  BY <1>4 DEF HasKinds

\* Rows that are a folded read become that of more when events that follow are
\* applied in order, and with them any number of those that were in it at the end.
LEMMA FoldedOnward ==
  ASSUME NEW f, Applicable(f), Increasing(f), NEW L, L \subseteq Events, \A e \in L, g \in Range(f) : e < g,
         NEW B, L \subseteq B, B \subseteq L \cup Range(f)
  PROVE  ApplyAll(Folded(B), f) = Folded(L \cup Range(f))
<1>1. Range(f) \subseteq Events
  BY DEF Range, Applicable
<1>2. \A S : Folded(S) = ApplyAll(NoRows, InSeqOrder(S))
  BY DEF Folded, InSeqOrder
<1>3. ApplyAll(Folded(B), f) = ApplyAll(Folded(B), InSeqOrder(Range(f)))
  BY AppliedInOrder
<1>4. ApplyAll(ApplyAll(NoRows, InSeqOrder(B)), InSeqOrder(Range(f)))
        = ApplyAll(NoRows, InSeqOrder(L \cup Range(f)))
  BY <1>1, AppliedAgain
<1>5. QED
  BY <1>2, <1>3, <1>4

\* From nothing: segments first, then the tail.
LEMMA FoldedFromRows ==
  ASSUME NEW f, Applicable(f), Increasing(f), NEW g, Applicable(g), Increasing(g),
         \A d \in Range(f), e \in Range(g) : d < e
  PROVE  ApplyAll(ApplyAll(NoRows, f), g) = Folded(Range(f) \cup Range(g))
<1>1. Range(f) \subseteq Events
  BY DEF Range, Applicable
<1>2. ApplyAll(NoRows, f) = Folded(Range(f))
  <2>1. ApplyAll(NoRows, f) = ApplyAll(NoRows, InSeqOrder(Range(f)))
    BY AppliedInOrder
  <2>2. QED
    BY <2>1 DEF Folded, InSeqOrder
<1>3. ApplyAll(Folded(Range(f)), g) = Folded(Range(f) \cup Range(g))
  BY <1>1, FoldedOnward
<1>4. QED
  BY <1>2, <1>3

\* Kinds, of whatever is applied in whatever order, again and again.
LEMMA KindsOnward ==
  ASSUME NEW rows, NEW f, NEW L, NEW B, L \subseteq B, B \subseteq L \cup Range(f), HasKinds(rows, B)
  PROVE  HasKinds(ApplyAll(rows, f), L \cup Range(f))
<1>1. SUFFICES ASSUME NEW s \in Spans PROVE ApplyAll(rows, f)[s].kinds = KindsIn(L \cup Range(f), s)
  BY DEF HasKinds
<1>2. ApplyAll(rows, f)[s].kinds = KindsIn(B, s) \cup KindsIn(Range(f), s)
  <2>1. ApplyAll(rows, f)[s].kinds = rows[s].kinds \cup KindsIn(Range(f), s)
    BY ApplyAllKinds
  <2>2. rows[s].kinds = KindsIn(B, s)
    BY DEF HasKinds
  <2>3. QED
    BY <2>1, <2>2
<1>3. KindsIn(B, s) \cup KindsIn(Range(f), s) = KindsIn(L \cup Range(f), s)
  BY DEF KindsIn
<1>4. QED
  BY <1>2, <1>3

\* NoRows is a table of rows, and of no kinds.
LEMMA NoRowsType == NoRows \in [Spans -> Row] /\ HasKinds(NoRows, {})
<1>1. Blank \in Row /\ Blank.kinds = {}
  BY DEF Blank, Row
<1>2. \A s \in Spans : KindsIn({}, s) = {}
  BY DEF KindsIn
<1>3. QED
  BY <1>1, <1>2 DEF NoRows, HasKinds

-----------------------------------------------------------------------------
(* Rows of the segments.                                                   *)

\* What is kept of a sequence is the elements at the positions given: their ranks
\* are as many numbers as there are positions.
LEMMA KeptRange ==
  ASSUME NEW X, NEW rows \in Seq(X), NEW S, S \subseteq DOMAIN rows
  PROVE  Kept(rows, S) \in Seq(X) /\ Range(Kept(rows, S)) = {rows[k] : k \in S}
<1> DEFINE n == Cardinality(S)
           UpTo(k) == {j \in S : j <= k}
           rank == [k \in S |-> Cardinality(UpTo(k))]
<1>1. S \subseteq Nat /\ IsFiniteSet(S) /\ n \in Nat
  <2>1. DOMAIN rows = 1..Len(rows) /\ Len(rows) \in Nat
    OBVIOUS
  <2>2. IsFiniteSet(1..Len(rows))
    BY <2>1, FS_Interval
  <2>3. IsFiniteSet(S)
    BY <2>1, <2>2, FS_Subset
  <2>4. QED
    BY <2>1, <2>3, FS_CardinalityType
<1>2. ASSUME NEW k \in S
      PROVE  IsFiniteSet(UpTo(k)) /\ Cardinality(UpTo(k)) \in 1..n
  <2>1. UpTo(k) \subseteq S /\ {k} \subseteq UpTo(k)
    BY <1>1
  <2>2. IsFiniteSet(UpTo(k)) /\ Cardinality(UpTo(k)) <= n
    BY <1>1, <2>1, FS_Subset
  <2>3. Cardinality({k}) = 1 /\ Cardinality({k}) <= Cardinality(UpTo(k))
    BY <2>1, <2>2, FS_Subset, FS_Singleton
  <2>4. QED
    BY <1>1, <2>2, <2>3, FS_CardinalityType
<1>3. ASSUME NEW j \in S, NEW k \in S, j < k
      PROVE  Cardinality(UpTo(j)) # Cardinality(UpTo(k))
  <2>1. UpTo(j) \subseteq UpTo(k) /\ k \in UpTo(k) /\ k \notin UpTo(j)
    BY <1>1, <1>3
  <2>2. QED
    BY <1>2, <2>1, FS_Subset
<1>4. rank \in Injection(S, 1..n)
  <2>1. rank \in [S -> 1..n]
    BY <1>2
  <2>2. ASSUME NEW j \in S, NEW k \in S, rank[j] = rank[k] PROVE j = k
    <3>1. ~(j < k) /\ ~(k < j)
      BY <1>3, <2>2
    <3>2. QED
      BY <1>1, <3>1
  <2> HIDE DEF rank, n
  <2>3. QED
    BY <2>1, <2>2 DEF Injection, IsInjective
<1>5. IsFiniteSet(1..n) /\ Cardinality(1..n) = n
  BY <1>1, FS_Interval
<1>6. rank \in Surjection(S, 1..n)
  <2> HIDE DEF rank
  <2>1. QED
    BY <1>1, <1>4, <1>5, FS_Injection
<1>7. \A i \in 1..n : \E k \in S : Cardinality(UpTo(k)) = i
  <2>1. \A i \in 1..n : \E k \in S : rank[k] = i
    <3> HIDE DEF rank, n
    <3>1. QED
      BY <1>6 DEF Surjection
  <2>2. QED
    BY <2>1
<1>8. \A i \in 1..n : Nth(S, i) \in S
  BY <1>7 DEF Nth
<1>9. ASSUME NEW k \in S PROVE Nth(S, rank[k]) = k
  <2>1. Nth(S, rank[k]) \in S /\ Cardinality(UpTo(Nth(S, rank[k]))) = rank[k]
    BY <1>2, <1>7 DEF Nth
  <2>2. PICK m \in S : m = Nth(S, rank[k])
    BY <2>1
  <2>3. Cardinality(UpTo(m)) = Cardinality(UpTo(k))
    BY <2>1, <2>2
  <2>4. ~(m < k) /\ ~(k < m)
    BY <1>3, <2>3
  <2>5. QED
    BY <1>1, <2>2, <2>4
<1>10. Kept(rows, S) = [i \in 1..n |-> rows[Nth(S, i)]]
  BY DEF Kept
<1>11. Kept(rows, S) \in Seq(X)
  <2>1. \A i \in 1..n : rows[Nth(S, i)] \in X
    BY <1>8
  <2>2. QED
    BY <1>1, <1>10, <2>1
<1>12. Range(Kept(rows, S)) = {rows[k] : k \in S}
  <2>1. Range(Kept(rows, S)) = {rows[Nth(S, i)] : i \in 1..n}
    BY <1>10 DEF Range
  <2>2. \A k \in S : rank[k] \in 1..n
    BY <1>2
  <2>3. QED
    <3> HIDE DEF rank, n
    <3>1. QED
      BY <1>8, <1>9, <2>1, <2>2
<1>13. QED
  BY <1>11, <1>12

-----------------------------------------------------------------------------
(* The inductive invariant.                                                *)

StoredRow == [ev : Events, dead : BOOLEAN, seg : Nat]
Stamps == {<<>>} \cup (Nat \X Nat)

StoreType ==
  /\ log \in Seq(Events) /\ pending \in Seq(Events) /\ deleted \subseteq Events
  /\ man \in [version : Nat, wm : Nat, rows : Seq(StoredRow)] /\ man.wm <= Len(log)

\* The read models, with anything as the session index.
Derived(S) ==
  [rollup : [Spans -> Row], ready : BOOLEAN, docs : SUBSET Spans, seen : SUBSET Events,
   stale : BOOLEAN, sessions : S, dirty : BOOLEAN, tainted : BOOLEAN,
   rollupFile : [stamp : Stamps, rows : [Spans -> Row]],
   scanFile : [stamp : Stamps, docs : SUBSET Spans, seen : SUBSET Events]]

Typed(x) == x \in Derived({x.sessions})

\* What is visible when the log ends at n, which is what a sidecar may know.
TailTo(n) == SubSeq(log, man.wm + 1, n)
VisibleTo(n) == Range(LiveSegEvents) \cup Range(TailTo(n))
InOrderTo(n) ==
  /\ Increasing(LiveSegEvents) /\ Increasing(TailTo(n))
  /\ \A e \in Range(LiveSegEvents), f \in Range(TailTo(n)) : e < f

RollupReads(rows, n) ==
  HasKinds(rows, VisibleTo(n)) /\ (InOrderTo(n) => rows = Folded(VisibleTo(n)))

\* Every event of S and every one that counts as seen has its span in docs, unless
\* it was deleted.
Covers(docs, seen, S) == \A e \in (S \cup seen) \ deleted : Script[e].span \in docs

\* A sidecar that carries the stamp of this manifest holds its live rows and some
\* part of the tail; none carries the stamp of a manifest that is still to come.
RollupFileGood(x) ==
  x.rollupFile.stamp = Stamp => \E n \in man.wm..Len(log) : RollupReads(x.rollupFile.rows, n)
ScanFileGood(x) ==
  x.scanFile.stamp = Stamp => Covers(x.scanFile.docs, x.scanFile.seen, Range(LiveSegEvents))
StampsOld(x) ==
  \A v, w \in Nat : v > man.version => x.rollupFile.stamp # <<v, w>> /\ x.scanFile.stamp # <<v, w>>
FilesGood(x) == RollupFileGood(x) /\ ScanFileGood(x) /\ StampsOld(x)

\* What is loaded is of the store as it is, ...
RollupGood(x) == x.ready => RollupReads(x.rollup, Len(log))
TextGood(x) == ~x.stale => Covers(x.docs, x.seen, Visible)

\* ... or ahead of it by p, the event that ingest is about to log.
AheadInOrder(p) == InOrder /\ \A e \in Visible, f \in Range(p) : e < f
RollupAhead(x, p) ==
  x.ready =>
    /\ HasKinds(x.rollup, Visible \cup Range(p))
    /\ AheadInOrder(p) => x.rollup = Folded(Visible \cup Range(p))
TextAhead(x, p) == ~x.stale => Covers(x.docs, x.seen, Visible \cup Range(p))

DeadAreDeleted == \A k \in DOMAIN man.rows : man.rows[k].dead => man.rows[k].ev \in deleted

\* A tail in the log is only there when everything was loaded before it came.
TailIsIndexed(x) == (x.ready /\ ~x.stale) \/ man.wm = Len(log)

WriterState ==
  /\ writer \in {"idle", "indexed", "flushed", "deleted", "compacted"}
  /\ IF writer = "indexed" THEN Len(pending) = 1 /\ derived.ready /\ ~derived.stale
     ELSE pending = <<>>

IInv ==
  /\ StoreType /\ Typed(derived)
  /\ FilesGood(derived)
  /\ DeadAreDeleted /\ TailIsIndexed(derived) /\ WriterState
  /\ writer \in {"idle", "flushed", "indexed"} => RollupAhead(derived, pending)
  /\ TextAhead(derived, pending)

-----------------------------------------------------------------------------
(* The store.                                                              *)

\* Rows are numbered, and each is of an event.
LEMMA RowsShape ==
  ASSUME StoreType
  PROVE  /\ man.rows \in Seq(StoredRow) /\ DOMAIN man.rows = 1..Len(man.rows) /\ Len(man.rows) \in Nat
         /\ \A k \in DOMAIN man.rows : man.rows[k] \in StoredRow /\ man.rows[k].ev \in Events
         /\ man.version \in Nat /\ man.wm \in Nat /\ Len(log) \in Nat /\ man.wm <= Len(log)
         /\ DOMAIN log = 1..Len(log)
<1>1. man.rows \in Seq(StoredRow) /\ man.version \in Nat /\ man.wm \in Nat /\ man.wm <= Len(log)
  BY DEF StoreType
<1>2. DOMAIN man.rows = 1..Len(man.rows) /\ Len(man.rows) \in Nat /\ \A k \in DOMAIN man.rows : man.rows[k] \in StoredRow
  <2> HIDE DEF StoredRow
  <2>1. QED
    BY <1>1
<1>3. \A r \in StoredRow : r.ev \in Events
  BY DEF StoredRow
<1>4. Len(log) \in Nat /\ DOMAIN log = 1..Len(log)
  BY DEF StoreType
<1>5. QED
  BY <1>1, <1>2, <1>3, <1>4

\* So are those that are live.
LEMMA LiveShape ==
  ASSUME StoreType
  PROVE  /\ Applicable(LiveSegEvents) /\ Range(LiveSegEvents) \subseteq Events
         /\ SegEvents \in Seq(Events) /\ Range(LiveSegEvents) \subseteq Range(SegEvents)
<1>1. /\ DOMAIN LiveSegEvents = Live /\ \A k \in Live : LiveSegEvents[k] = man.rows[k].ev
      /\ DOMAIN SegEvents = DOMAIN man.rows /\ \A k \in DOMAIN man.rows : SegEvents[k] = man.rows[k].ev
      /\ Live \subseteq DOMAIN man.rows
  BY DEF LiveSegEvents, SegEvents, Live
<1>2. Applicable(LiveSegEvents)
  <2>1. Live \subseteq 0..Len(man.rows)
    BY <1>1, RowsShape
  <2>2. QED
    BY <1>1, <2>1, RowsShape DEF Applicable
<1>3. SegEvents \in Seq(Events)
  <2>1. SegEvents = [k \in 1..Len(man.rows) |-> man.rows[k].ev]
    BY RowsShape DEF SegEvents
  <2>2. QED
    BY <2>1, RowsShape
<1>4. QED
  BY <1>1, <1>2, <1>3, RowsShape DEF Range

\* The tail up to n.
LEMMA TailShape ==
  ASSUME StoreType, NEW n \in man.wm..Len(log)
  PROVE  /\ TailTo(n) \in Seq(Events) /\ Len(TailTo(n)) = n - man.wm /\ n \in Nat
         /\ \A i \in 1..(n - man.wm) : TailTo(n)[i] = log[man.wm + i]
         /\ DOMAIN TailTo(n) = 1..(n - man.wm)
         /\ Applicable(TailTo(n)) /\ Range(TailTo(n)) \subseteq Events
<1>1. log \in Seq(Events) /\ man.wm \in Nat /\ Len(log) \in Nat /\ n \in Nat /\ man.wm <= n /\ n <= Len(log)
  BY RowsShape DEF StoreType
<1>2. man.wm + 1 \in 1..(Len(log) + 1) /\ n \in (man.wm + 1) - 1..Len(log)
  BY <1>1
<1>3. /\ TailTo(n) \in Seq(Events)
      /\ Len(TailTo(n)) = n - (man.wm + 1) + 1
      /\ \A i \in 1..(n - (man.wm + 1) + 1) : TailTo(n)[i] = log[(man.wm + 1) + i - 1]
  BY <1>1, <1>2, SubSeqProperties DEF TailTo
<1>4. n - (man.wm + 1) + 1 = n - man.wm /\ n - man.wm \in Nat
  BY <1>1
<1>5. \A i \in 1..(n - man.wm) : TailTo(n)[i] = log[man.wm + i]
  BY <1>1, <1>3, <1>4
<1>6. DOMAIN TailTo(n) = 1..(n - man.wm) /\ \A i \in DOMAIN TailTo(n) : TailTo(n)[i] \in Events
  BY <1>3, <1>4
<1>7. Applicable(TailTo(n)) /\ Range(TailTo(n)) \subseteq Events
  <2>1. DOMAIN TailTo(n) \subseteq 0..(n - man.wm)
    BY <1>4, <1>6
  <2>2. QED
    BY <1>4, <1>6, <2>1 DEF Applicable, Range
<1>8. QED
  BY <1>1, <1>3, <1>4, <1>5, <1>6, <1>7

\* The whole tail is the MemTable; a part of it is in order if all of it is.
LEMMA WholeTail ==
  ASSUME StoreType
  PROVE  /\ Len(log) \in man.wm..Len(log) /\ man.wm \in man.wm..Len(log)
         /\ MemRows = TailTo(Len(log)) /\ Visible = VisibleTo(Len(log)) /\ (InOrder <=> InOrderTo(Len(log)))
         /\ Visible \subseteq Events /\ Range(MemRows) \subseteq Events /\ MemRows \in Seq(Events)
         /\ Len(MemRows) = Len(log) - man.wm
<1>1. Len(log) \in man.wm..Len(log) /\ man.wm \in man.wm..Len(log)
  BY RowsShape
<1>2. MemRows = TailTo(Len(log)) /\ Visible = VisibleTo(Len(log)) /\ (InOrder <=> InOrderTo(Len(log)))
  BY DEF MemRows, TailTo, Visible, VisibleTo, InOrder, InOrderTo
<1>3. QED
  BY <1>1, <1>2, TailShape, LiveShape DEF VisibleTo

LEMMA PartOfTail ==
  ASSUME StoreType, NEW n \in man.wm..Len(log)
  PROVE  Range(TailTo(n)) \subseteq Range(MemRows) /\ (InOrder => InOrderTo(n))
<1>1. man.wm \in Nat /\ Len(log) \in Nat /\ n \in Nat /\ man.wm <= n /\ n <= Len(log)
  BY RowsShape
<1>2. /\ DOMAIN TailTo(n) = 1..(n - man.wm) /\ DOMAIN MemRows = 1..(Len(log) - man.wm)
      /\ \A i \in 1..(n - man.wm) : TailTo(n)[i] = log[man.wm + i]
      /\ \A i \in 1..(Len(log) - man.wm) : MemRows[i] = log[man.wm + i]
  BY TailShape, WholeTail
<1>3. \A i \in DOMAIN TailTo(n) : i \in DOMAIN MemRows /\ TailTo(n)[i] = MemRows[i]
  BY <1>1, <1>2
<1>4. QED
  BY <1>3 DEF Range, InOrder, InOrderTo, Increasing

\* An empty tail.
LEMMA NoTail ==
  ASSUME StoreType
  PROVE  /\ TailTo(man.wm) = <<>> /\ Range(TailTo(man.wm)) = {} /\ VisibleTo(man.wm) = Range(LiveSegEvents)
         /\ (MemRows = <<>> <=> man.wm = Len(log))
<1>1. man.wm \in man.wm..Len(log) /\ man.wm \in Nat /\ Len(log) \in Nat
  BY RowsShape
<1>2. TailTo(man.wm) \in Seq(Events) /\ Len(TailTo(man.wm)) = 0
  BY <1>1, TailShape
<1>3. TailTo(man.wm) = <<>>
  BY <1>2, EmptySeq
<1>4. Range(<<>>) = {}
  BY DEF Range
<1>5. MemRows = <<>> <=> man.wm = Len(log)
  <2>1. MemRows \in Seq(Events) /\ Len(MemRows) = Len(log) - man.wm
    BY WholeTail
  <2>2. MemRows = <<>> <=> Len(MemRows) = 0
    BY <2>1, EmptySeq
  <2>3. QED
    BY <1>1, <2>1, <2>2
<1>6. QED
  BY <1>3, <1>4, <1>5 DEF VisibleTo

\* A rebuild reads what is visible.
LEMMA RebuildReads ==
  ASSUME StoreType, NEW n \in man.wm..Len(log),
         NEW rows, rows = ApplyAll(ApplyAll(NoRows, LiveSegEvents), TailTo(n))
  PROVE  rows \in [Spans -> Row] /\ RollupReads(rows, n)
<1>1. Applicable(LiveSegEvents) /\ Applicable(TailTo(n))
  BY LiveShape, TailShape
<1>2. ApplyAll(NoRows, LiveSegEvents) \in [Spans -> Row]
  BY <1>1, NoRowsType, ApplyAllType
<1>3. rows \in [Spans -> Row]
  BY <1>1, <1>2, ApplyAllType
<1>4. HasKinds(rows, VisibleTo(n))
  <2>1. HasKinds(ApplyAll(NoRows, LiveSegEvents), {} \cup Range(LiveSegEvents))
    BY NoRowsType, KindsOnward
  <2>2. {} \cup Range(LiveSegEvents) = Range(LiveSegEvents)
    OBVIOUS
  <2>3. HasKinds(ApplyAll(NoRows, LiveSegEvents), Range(LiveSegEvents))
    BY <2>1, <2>2, Zenon
  <2>4. HasKinds(ApplyAll(ApplyAll(NoRows, LiveSegEvents), TailTo(n)), Range(LiveSegEvents) \cup Range(TailTo(n)))
    BY <2>3, KindsOnward
  <2>5. QED
    BY <2>4 DEF VisibleTo
<1>5. InOrderTo(n) => rows = Folded(VisibleTo(n))
  BY <1>1, FoldedFromRows DEF InOrderTo, VisibleTo
<1>6. QED
  BY <1>3, <1>4, <1>5 DEF RollupReads

\* So does the replay of the tail onto rows that have part of it.
LEMMA ReplayReads ==
  ASSUME StoreType, NEW rows \in [Spans -> Row], NEW n \in man.wm..Len(log), RollupReads(rows, n)
  PROVE  ApplyAll(rows, MemRows) \in [Spans -> Row] /\ RollupReads(ApplyAll(rows, MemRows), Len(log))
<1>1. Applicable(MemRows) /\ Range(LiveSegEvents) \subseteq Events
  BY WholeTail, TailShape, LiveShape
<1>2. ApplyAll(rows, MemRows) \in [Spans -> Row]
  BY <1>1, ApplyAllType
<1>3. HasKinds(ApplyAll(rows, MemRows), Visible)
  BY PartOfTail, KindsOnward DEF RollupReads, VisibleTo, Visible
<1>4. ASSUME InOrder PROVE ApplyAll(rows, MemRows) = Folded(Visible)
  <2>1. rows = Folded(Range(LiveSegEvents) \cup Range(TailTo(n))) /\ Range(TailTo(n)) \subseteq Range(MemRows)
    BY <1>4, PartOfTail DEF RollupReads, VisibleTo
  <2>2. Increasing(MemRows) /\ \A e \in Range(LiveSegEvents), g \in Range(MemRows) : e < g
    BY <1>4 DEF InOrder
  <2>3. ApplyAll(Folded(Range(LiveSegEvents) \cup Range(TailTo(n))), MemRows)
          = Folded(Range(LiveSegEvents) \cup Range(MemRows))
    BY <1>1, <2>1, <2>2, FoldedOnward
  <2>4. QED
    BY <2>1, <2>3 DEF Visible
<1>5. QED
  BY <1>2, <1>3, <1>4, WholeTail DEF RollupReads

-----------------------------------------------------------------------------
(* Saving, loading and rebuilding.                                         *)

\* The stamp of this manifest is not that of one to come.
LEMMA StampFits ==
  ASSUME StoreType
  PROVE  Stamp \in Stamps /\ \A v, w \in Nat : v > man.version => Stamp # <<v, w>>
  BY RowsShape DEF Stamp, Stamps

\* Saving the rollup makes a good sidecar of it, if it is of any part of the tail.
LEMMA PersistRollupIs ==
  ASSUME StoreType, NEW x, Typed(x), FilesGood(x),
         x.ready => \E n \in man.wm..Len(log) : RollupReads(x.rollup, n),
         NEW y, y = PersistRollup(x)
  PROVE  /\ Typed(y) /\ FilesGood(y) /\ y.sessions = x.sessions
         /\ y.rollup = x.rollup /\ y.ready = x.ready
         /\ y.docs = x.docs /\ y.seen = x.seen /\ y.stale = x.stale
<1>1. CASE ~x.ready
  BY <1>1 DEF PersistRollup
<1>2. CASE x.ready
  <2>1. y = [x EXCEPT !.rollupFile = [stamp |-> Stamp, rows |-> x.rollup]]
    BY <1>2 DEF PersistRollup
  <2>2. /\ Typed(y) /\ y.sessions = x.sessions
        /\ y.rollup = x.rollup /\ y.ready = x.ready /\ y.scanFile = x.scanFile
        /\ y.docs = x.docs /\ y.seen = x.seen /\ y.stale = x.stale
        /\ y.rollupFile.stamp = Stamp /\ y.rollupFile.rows = x.rollup
    BY <2>1, StampFits DEF Typed, Derived
  <2>3. FilesGood(y)
    BY <1>2, <2>2, StampFits DEF FilesGood, RollupFileGood, ScanFileGood, StampsOld
  <2>4. QED
    BY <2>2, <2>3
<1>3. QED
  BY <1>1, <1>2

\* The same for the text index.
LEMMA PersistScanIs ==
  ASSUME StoreType, NEW x, Typed(x), FilesGood(x),
         ~x.stale => Covers(x.docs, x.seen, Range(LiveSegEvents)),
         NEW y, y = PersistScan(x)
  PROVE  /\ Typed(y) /\ FilesGood(y) /\ y.sessions = x.sessions
         /\ y.rollup = x.rollup /\ y.ready = x.ready
         /\ y.docs = x.docs /\ y.seen = x.seen /\ y.stale = x.stale
<1>1. CASE x.stale
  BY <1>1 DEF PersistScan
<1>2. CASE ~x.stale
  <2>1. y = [x EXCEPT !.scanFile = [stamp |-> Stamp, docs |-> x.docs, seen |-> x.seen]]
    BY <1>2 DEF PersistScan
  <2>2. /\ Typed(y) /\ y.sessions = x.sessions
        /\ y.rollup = x.rollup /\ y.ready = x.ready /\ y.rollupFile = x.rollupFile
        /\ y.docs = x.docs /\ y.seen = x.seen /\ y.stale = x.stale
        /\ y.scanFile.stamp = Stamp /\ y.scanFile.docs = x.docs /\ y.scanFile.seen = x.seen
    BY <2>1, StampFits DEF Typed, Derived
  <2>3. FilesGood(y)
    BY <1>2, <2>2, StampFits DEF FilesGood, RollupFileGood, ScanFileGood, StampsOld
  <2>4. QED
    BY <2>2, <2>3
<1>3. QED
  BY <1>1, <1>2

\* Loading or rebuilding the rollup gives one of some part of the tail.
RollupEnsured(x, y) ==
  /\ Typed(y) /\ FilesGood(y) /\ y.sessions = x.sessions /\ y.ready
  /\ x.ready => y.rollup = x.rollup
  /\ ~x.ready => \E m \in man.wm..Len(log) : RollupReads(y.rollup, m)
  /\ y.docs = x.docs /\ y.seen = x.seen /\ y.stale = x.stale

LEMMA EnsureRollupIs ==
  ASSUME StoreType, NEW x, Typed(x), FilesGood(x), NEW n \in man.wm..Len(log)
  PROVE  RollupEnsured(x, EnsureRollup(x, TailTo(n)))
<1>0. PICK y : y = EnsureRollup(x, TailTo(n))
  OBVIOUS
<1>1. CASE x.ready
  BY <1>0, <1>1 DEF EnsureRollup, RollupEnsured
<1>2. CASE ~x.ready /\ Loadable(x.rollupFile)
  <2>1. y = [x EXCEPT !.rollup = x.rollupFile.rows, !.ready = TRUE]
    BY <1>0, <1>2 DEF EnsureRollup
  <2>2. /\ Typed(y) /\ y.sessions = x.sessions /\ y.ready /\ y.rollup = x.rollupFile.rows
        /\ y.rollupFile = x.rollupFile /\ y.scanFile = x.scanFile
        /\ y.docs = x.docs /\ y.seen = x.seen /\ y.stale = x.stale
    BY <2>1 DEF Typed, Derived
  <2>3. x.rollupFile.stamp = Stamp
    BY <1>2 DEF Loadable
  <2>4. \E m \in man.wm..Len(log) : RollupReads(y.rollup, m)
    BY <2>2, <2>3 DEF FilesGood, RollupFileGood
  <2>5. FilesGood(y)
    BY <2>2 DEF FilesGood, RollupFileGood, ScanFileGood, StampsOld
  <2>6. QED
    BY <1>0, <1>2, <2>2, <2>4, <2>5 DEF RollupEnsured
<1>3. CASE ~x.ready /\ ~Loadable(x.rollupFile)
  <2> DEFINE z == RebuildRollup(x, TailTo(n))
  <2>1. y = PersistRollup(z)
    BY <1>0, <1>3 DEF EnsureRollup
  <2>2. z = [x EXCEPT !.rollup = ApplyAll(ApplyAll(NoRows, LiveSegEvents), TailTo(n)), !.ready = TRUE]
    BY DEF RebuildRollup
  <2>3. /\ ApplyAll(ApplyAll(NoRows, LiveSegEvents), TailTo(n)) \in [Spans -> Row]
        /\ RollupReads(ApplyAll(ApplyAll(NoRows, LiveSegEvents), TailTo(n)), n)
    BY RebuildReads
  <2> HIDE DEF z
  <2>4. /\ Typed(z) /\ z.sessions = x.sessions /\ z.ready
        /\ z.rollup = ApplyAll(ApplyAll(NoRows, LiveSegEvents), TailTo(n))
        /\ z.rollupFile = x.rollupFile /\ z.scanFile = x.scanFile
        /\ z.docs = x.docs /\ z.seen = x.seen /\ z.stale = x.stale
    BY <2>2, <2>3 DEF Typed, Derived
  <2>5. FilesGood(z)
    BY <2>4 DEF FilesGood, RollupFileGood, ScanFileGood, StampsOld
  <2>6. RollupReads(z.rollup, n)
    BY <2>3, <2>4
  <2>7. QED
    <3>1. /\ Typed(y) /\ FilesGood(y) /\ y.sessions = z.sessions /\ y.rollup = z.rollup /\ y.ready = z.ready
          /\ y.docs = z.docs /\ y.seen = z.seen /\ y.stale = z.stale
      BY <2>1, <2>4, <2>5, <2>6, PersistRollupIs
    <3>2. QED
      BY <1>0, <1>3, <2>4, <2>6, <3>1 DEF RollupEnsured
<1>4. QED
  BY <1>1, <1>2, <1>3

\* What can be indexed.
OfEvents(f) == Range(f) \subseteq Events

SpansOf(S) == {Script[e].span : e \in S}

\* What indexing does to the full-text index, whatever it does to the sessions.
Indexes(x, f, y) ==
  /\ Typed(y)
  /\ y.docs = x.docs \cup SpansOf(Range(f) \ x.seen) /\ y.seen = x.seen \cup Range(f)
  /\ y.stale = x.stale /\ y.rollup = x.rollup /\ y.ready = x.ready
  /\ y.rollupFile = x.rollupFile /\ y.scanFile = x.scanFile

LEMMA IndexScanIs ==
  ASSUME NEW x, Typed(x), NEW f, OfEvents(f)
  PROVE  Indexes(x, f, IndexScan(x, f))
<1>1. IndexScan(x, f) = [x EXCEPT !.docs = x.docs \cup SpansOf(Range(f) \ x.seen),
                    !.seen = x.seen \cup Range(f), !.sessions = IndexSessions(x.sessions, f)]
  BY DEF IndexScan, Typed, Derived, SpansOf
<1>2. SpansOf(Range(f) \ x.seen) \subseteq Spans
  BY EventFields DEF SpansOf, OfEvents
<1>3. QED
  BY <1>1, <1>2 DEF Typed, Derived, OfEvents, Indexes

\* An index that covers S covers what is indexed after it.
LEMMA IndexCovers ==
  ASSUME NEW x, NEW f, NEW S, Covers(x.docs, x.seen, S), NEW y,
         y.docs = x.docs \cup SpansOf(Range(f) \ x.seen), y.seen = x.seen \cup Range(f)
  PROVE  Covers(y.docs, y.seen, S \cup Range(f))
  BY DEF Covers, SpansOf

\* A scan of the segments and of some part of the tail, into an empty index.
Scanned(x, z) ==
  /\ Typed(z) /\ ~z.stale /\ z.rollup = x.rollup /\ z.ready = x.ready
  /\ z.rollupFile = x.rollupFile /\ z.scanFile = x.scanFile
  /\ Covers(z.docs, z.seen, Range(LiveSegEvents))

LEMMA RebuildScanIs ==
  ASSUME StoreType, NEW x, Typed(x), NEW n \in man.wm..Len(log)
  PROVE  Scanned(x, RebuildScan(x, TailTo(n)))
<1>a. PICK e : e = [x EXCEPT !.docs = {}, !.seen = {}, !.sessions = EmptySessions,
                             !.dirty = FALSE, !.stale = FALSE,
                             !.tainted = HasDeletions \/ ~InOrder]
  OBVIOUS
<1>b. PICK f : f = SegEvents \o TailTo(n)
  OBVIOUS
<1>c. PICK z : z = IndexScan(e, f)
  OBVIOUS
<1>1. /\ Typed(e) /\ e.docs = {} /\ e.seen = {} /\ ~e.stale
      /\ e.rollup = x.rollup /\ e.ready = x.ready
      /\ e.rollupFile = x.rollupFile /\ e.scanFile = x.scanFile
  BY <1>a DEF Typed, Derived
<1>2. OfEvents(f) /\ Range(LiveSegEvents) \subseteq Range(f)
  <2>1. SegEvents \in Seq(Events) /\ TailTo(n) \in Seq(Events)
    BY LiveShape, TailShape
  <2>2. /\ SegEvents \o TailTo(n) \in Seq(Events)
        /\ Len(SegEvents \o TailTo(n)) = Len(SegEvents) + Len(TailTo(n))
        /\ \A i \in 1..Len(SegEvents) : (SegEvents \o TailTo(n))[i] = SegEvents[i]
    BY <2>1, ConcatProperties
  <2>3. DOMAIN SegEvents \subseteq DOMAIN (SegEvents \o TailTo(n))
    BY <2>1, <2>2
  <2>4. \A i \in DOMAIN SegEvents : (SegEvents \o TailTo(n))[i] = SegEvents[i]
    BY <2>1, <2>2
  <2>5. Range(SegEvents) \subseteq Range(SegEvents \o TailTo(n))
    BY <2>3, <2>4 DEF Range
  <2>6. Range(SegEvents \o TailTo(n)) \subseteq Events
    BY <2>2 DEF Range
  <2>7. QED
    BY <1>b, <2>5, <2>6, LiveShape DEF OfEvents
<1>3. Indexes(e, f, z)
  BY <1>1, <1>2, <1>c, IndexScanIs
<1>4. Covers(z.docs, z.seen, Range(LiveSegEvents))
  BY <1>1, <1>2, <1>3 DEF Covers, SpansOf, Indexes
<1>5. RebuildScan(x, TailTo(n)) = z
  BY <1>a, <1>b, <1>c DEF RebuildScan
<1>6. QED
  BY <1>1, <1>3, <1>4, <1>5 DEF Indexes, Scanned

\* Loading or scanning gives an index of the live rows at least.
LEMMA EnsureScanIs ==
  ASSUME StoreType, NEW x, Typed(x), FilesGood(x), NEW n \in man.wm..Len(log),
         NEW y, y = EnsureScan(x, TailTo(n)),
         ~x.stale => Covers(x.docs, x.seen, Range(LiveSegEvents))
  PROVE  /\ Typed(y) /\ FilesGood(y) /\ ~y.stale /\ y.rollup = x.rollup /\ y.ready = x.ready
         /\ ~x.stale => y.docs = x.docs /\ y.seen = x.seen
         /\ Covers(y.docs, y.seen, Range(LiveSegEvents))
<1>1. CASE ~x.stale
  BY <1>1 DEF EnsureScan
<1>2. CASE x.stale /\ Loadable(x.scanFile)
  <2>1. y = [x EXCEPT !.docs = x.scanFile.docs, !.seen = x.scanFile.seen, !.stale = FALSE]
    BY <1>2 DEF EnsureScan
  <2>2. /\ Typed(y) /\ y.docs = x.scanFile.docs /\ y.seen = x.scanFile.seen /\ ~y.stale
        /\ y.rollup = x.rollup /\ y.ready = x.ready
        /\ y.rollupFile = x.rollupFile /\ y.scanFile = x.scanFile
    BY <2>1 DEF Typed, Derived
  <2>3. x.scanFile.stamp = Stamp
    BY <1>2 DEF Loadable
  <2>4. Covers(y.docs, y.seen, Range(LiveSegEvents))
    BY <2>2, <2>3 DEF FilesGood, ScanFileGood
  <2>5. FilesGood(y)
    BY <2>2 DEF FilesGood, RollupFileGood, ScanFileGood, StampsOld
  <2>6. QED
    BY <1>2, <2>2, <2>4, <2>5
<1>3. CASE x.stale /\ ~Loadable(x.scanFile)
  <2>1. PICK u : u = RebuildScan(x, TailTo(n))
    OBVIOUS
  <2>2. Scanned(x, u)
    BY <2>1, RebuildScanIs
  <2>3. /\ Typed(u) /\ ~u.stale /\ u.rollup = x.rollup /\ u.ready = x.ready
        /\ u.rollupFile = x.rollupFile /\ u.scanFile = x.scanFile
        /\ Covers(u.docs, u.seen, Range(LiveSegEvents))
    BY <2>2 DEF Scanned
  <2>4. FilesGood(u)
    BY <2>3 DEF FilesGood, RollupFileGood, ScanFileGood, StampsOld
  <2>5. y = PersistScan(u)
    BY <1>3, <2>1 DEF EnsureScan
  <2>7. /\ Typed(y) /\ FilesGood(y) /\ y.rollup = u.rollup /\ y.ready = u.ready
        /\ y.docs = u.docs /\ y.seen = u.seen /\ y.stale = u.stale
    BY <2>3, <2>4, <2>5, PersistScanIs
  <2>8. Covers(y.docs, y.seen, Range(LiveSegEvents))
    BY <2>3, <2>7
  <2>9. QED
    BY <1>3, <2>3, <2>7, <2>8
<1>4. QED
  BY <1>1, <1>2, <1>3

\* Everything loaded: the rollup is of some part of the tail, the text index has
\* the live rows at least, and what was loaded before stays as it was.
Partly(x) ==
  /\ x.ready => \E n \in man.wm..Len(log) : RollupReads(x.rollup, n)
  /\ ~x.stale => Covers(x.docs, x.seen, Range(LiveSegEvents))

Ensured(x, y) ==
  /\ Typed(y) /\ FilesGood(y) /\ y.ready /\ ~y.stale /\ Partly(y)
  /\ x.ready => y.rollup = x.rollup
  /\ ~x.stale => y.docs = x.docs /\ y.seen = x.seen

LEMMA EnsureAllIs ==
  ASSUME StoreType, NEW x, Typed(x), FilesGood(x), Partly(x), NEW n \in man.wm..Len(log)
  PROVE  Ensured(x, EnsureAll(x, TailTo(n)))
<1>1. PICK u : u = EnsureRollup(x, TailTo(n))
  OBVIOUS
<1>2. PICK y : y = EnsureScan(u, TailTo(n))
  OBVIOUS
<1>3. /\ Typed(u) /\ FilesGood(u) /\ u.ready /\ (x.ready => u.rollup = x.rollup)
      /\ ~x.ready => \E m \in man.wm..Len(log) : RollupReads(u.rollup, m)
      /\ u.docs = x.docs /\ u.seen = x.seen /\ u.stale = x.stale
  BY <1>1, EnsureRollupIs DEF RollupEnsured
<1>4. /\ ~u.stale => Covers(u.docs, u.seen, Range(LiveSegEvents))
      /\ \E m \in man.wm..Len(log) : RollupReads(u.rollup, m)
  BY <1>3 DEF Partly
<1>5. /\ Typed(y) /\ FilesGood(y) /\ ~y.stale /\ y.rollup = u.rollup /\ y.ready = u.ready
      /\ ~u.stale => y.docs = u.docs /\ y.seen = u.seen
      /\ Covers(y.docs, y.seen, Range(LiveSegEvents))
  BY <1>2, <1>3, <1>4, EnsureScanIs
<1>6. EnsureAll(x, TailTo(n)) = y
  BY <1>1, <1>2 DEF EnsureAll
<1>7. Ensured(x, y)
  BY <1>3, <1>4, <1>5 DEF Ensured, Partly
<1>8. QED
  BY <1>6, <1>7

\* Saving what is loaded, when it is of the store as it is.
Persisted(x, y) ==
  /\ Typed(y) /\ FilesGood(y) /\ y.rollup = x.rollup /\ y.ready = x.ready
  /\ y.docs = x.docs /\ y.seen = x.seen /\ y.stale = x.stale

LEMMA PersistSidecarsIs ==
  ASSUME StoreType, NEW x, Typed(x), FilesGood(x), RollupGood(x), TextGood(x)
  PROVE  Persisted(x, PersistSidecars(x))
<1>1. PICK u : u = PersistRollup(x)
  OBVIOUS
<1>2. PICK y : y = PersistScan(u)
  OBVIOUS
<1>3. x.ready => \E n \in man.wm..Len(log) : RollupReads(x.rollup, n)
  BY WholeTail DEF RollupGood
<1>4. /\ Typed(u) /\ FilesGood(u) /\ u.rollup = x.rollup /\ u.ready = x.ready
      /\ u.docs = x.docs /\ u.seen = x.seen /\ u.stale = x.stale
  BY <1>1, <1>3, PersistRollupIs
<1>5. ~u.stale => Covers(u.docs, u.seen, Range(LiveSegEvents))
  BY <1>4 DEF TextGood, Visible, Covers
<1>6. /\ Typed(y) /\ FilesGood(y) /\ y.rollup = u.rollup /\ y.ready = u.ready
      /\ y.docs = u.docs /\ y.seen = u.seen /\ y.stale = u.stale
  BY <1>2, <1>4, <1>5, PersistScanIs
<1>7. PersistSidecars(x) = y
  BY <1>1, <1>2 DEF PersistSidecars
<1>8. Persisted(x, y)
  BY <1>4, <1>6 DEF Persisted
<1>9. QED
  BY <1>7, <1>8

\* With nothing ahead, what is ahead is what is loaded.
LEMMA NothingAhead ==
  ASSUME StoreType, NEW x
  PROVE  (RollupAhead(x, <<>>) <=> RollupGood(x)) /\ (TextAhead(x, <<>>) <=> TextGood(x))
<1>1. Range(<<>>) = {}
  BY DEF Range
<1>2. Visible \cup Range(<<>>) = Visible /\ (AheadInOrder(<<>>) <=> InOrder)
  BY <1>1 DEF AheadInOrder
<1>3. RollupGood(x) <=> (x.ready => HasKinds(x.rollup, Visible) /\ (InOrder => x.rollup = Folded(Visible)))
  BY WholeTail DEF RollupGood, RollupReads
<1>4. QED
  BY <1>2, <1>3 DEF RollupAhead, TextAhead, TextGood

-----------------------------------------------------------------------------
(* Steps that leave the store alone.                                       *)

\* What is visible stays so, whatever part of the tail one looks at.
LEMMA SameStore ==
  ASSUME UNCHANGED <<log, man, deleted>>
  PROVE  /\ Live' = Live /\ LiveSegEvents' = LiveSegEvents /\ MemRows' = MemRows /\ Visible' = Visible
         /\ Stamp' = Stamp /\ InOrder' = InOrder /\ DeadAreDeleted' = DeadAreDeleted
         /\ \A n : TailTo(n)' = TailTo(n) /\ VisibleTo(n)' = VisibleTo(n) /\ InOrderTo(n)' = InOrderTo(n)
<1>1. log' = log /\ man' = man /\ deleted' = deleted
  OBVIOUS
<1>2. Live' = Live
  BY <1>1 DEF Live
<1>3. LiveSegEvents' = LiveSegEvents /\ MemRows' = MemRows /\ Stamp' = Stamp
  BY <1>1, <1>2 DEF LiveSegEvents, MemRows, Stamp
<1>4. Visible' = Visible
  BY <1>3 DEF Visible
<1>5. InOrder' = InOrder
  BY <1>3 DEF InOrder
<1>6. DeadAreDeleted' = DeadAreDeleted
  BY <1>1 DEF DeadAreDeleted
<1>7. ASSUME NEW n PROVE TailTo(n)' = TailTo(n)
  BY <1>1 DEF TailTo
<1>8. ASSUME NEW n PROVE VisibleTo(n)' = VisibleTo(n)
  BY <1>3, <1>7 DEF VisibleTo
<1>9. ASSUME NEW n PROVE InOrderTo(n)' = InOrderTo(n)
  BY <1>3, <1>7 DEF InOrderTo
<1>10. QED
  BY <1>2, <1>3, <1>4, <1>5, <1>6, <1>7, <1>8, <1>9

\* What was shown of the read models as they become holds of the next state.
LEMMA QuietStep ==
  ASSUME IInv, UNCHANGED <<log, man, deleted>>, pending' \in Seq(Events), WriterState',
         Typed(derived'), FilesGood(derived'), TailIsIndexed(derived'),
         writer' \in {"idle", "flushed", "indexed"} => RollupAhead(derived', pending'),
         TextAhead(derived', pending')
  PROVE  IInv'
<1>1. log' = log /\ man' = man /\ deleted' = deleted
  OBVIOUS
<1>2. StoreType'
  BY <1>1 DEF IInv, StoreType
<1>3. DeadAreDeleted'
  BY SameStore DEF IInv
<1>4. Typed(derived)'
  BY DEF Typed
<1>5. RollupFileGood(derived)'
  <2>1. RollupFileGood(derived')
    BY DEF FilesGood
  <2>2. QED
    BY <1>1, <2>1, SameStore DEF RollupFileGood, RollupReads
<1>6. ScanFileGood(derived)'
  <2>1. ScanFileGood(derived')
    BY DEF FilesGood
  <2>2. QED
    BY <1>1, <2>1, SameStore DEF ScanFileGood, Covers
<1>7. StampsOld(derived)'
  BY <1>1 DEF FilesGood, StampsOld
<1>8. TailIsIndexed(derived)'
  BY <1>1 DEF TailIsIndexed
<1>9. (writer \in {"idle", "flushed", "indexed"} => RollupAhead(derived, pending))'
  BY SameStore DEF RollupAhead, AheadInOrder
<1>10. TextAhead(derived, pending)'
  BY <1>1, SameStore DEF TextAhead, Covers
<1>11. QED
  BY <1>2, <1>3, <1>4, <1>5, <1>6, <1>7, <1>8, <1>9, <1>10 DEF IInv, FilesGood

\* With no event between the indexes and the log, what is loaded is of the store.
LEMMA AtRest ==
  ASSUME IInv, writer # "indexed"
  PROVE  /\ StoreType /\ Typed(derived) /\ FilesGood(derived) /\ TailIsIndexed(derived)
         /\ pending = <<>> /\ TextGood(derived)
         /\ writer \in {"idle", "flushed"} => RollupGood(derived)
<1>1. StoreType /\ Typed(derived) /\ FilesGood(derived) /\ TailIsIndexed(derived) /\ pending = <<>>
  BY DEF IInv, WriterState
<1>2. TextAhead(derived, <<>>) /\ (writer \in {"idle", "flushed"} => RollupAhead(derived, <<>>))
  BY <1>1 DEF IInv
<1>3. QED
  BY <1>1, <1>2, NothingAhead

\* What is of the whole store is of a part of it; the other way round when there
\* is no tail.
LEMMA WholeIsPart ==
  ASSUME StoreType, NEW x, RollupGood(x), TextGood(x)
  PROVE  Partly(x)
<1>1. x.ready => \E n \in man.wm..Len(log) : RollupReads(x.rollup, n)
  BY WholeTail DEF RollupGood
<1>2. ~x.stale => Covers(x.docs, x.seen, Range(LiveSegEvents))
  BY DEF TextGood, Visible, Covers
<1>3. QED
  BY <1>1, <1>2 DEF Partly

LEMMA PartIsWhole ==
  ASSUME StoreType, man.wm = Len(log), NEW x, Partly(x)
  PROVE  RollupGood(x) /\ TextGood(x)
<1>1. ASSUME NEW n \in man.wm..Len(log) PROVE n = Len(log)
  <2>1. Len(log) \in Nat /\ n \in Len(log)..Len(log)
    BY RowsShape
  <2>2. QED
    BY <2>1
<1>2. Visible = Range(LiveSegEvents)
  BY NoTail, WholeTail
<1>3. QED
  BY <1>1, <1>2 DEF Partly, RollupGood, TextGood

\* Ingest and recovery index records into all of the read models.
Records(x, f, y) ==
  /\ Typed(y) /\ y.rollup = ApplyAll(x.rollup, f) /\ y.ready = x.ready
  /\ y.docs = x.docs \cup SpansOf(Range(f) \ x.seen) /\ y.seen = x.seen \cup Range(f)
  /\ y.stale = x.stale /\ y.rollupFile = x.rollupFile /\ y.scanFile = x.scanFile

LEMMA IndexRecordsIs ==
  ASSUME NEW x, Typed(x), NEW f, OfEvents(f), Applicable(f)
  PROVE  Records(x, f, IndexRecords(x, f))
<1>1. PICK z : z = IndexScan(x, f)
  OBVIOUS
<1>2. Indexes(x, f, z)
  BY <1>1, IndexScanIs
<1>3. IndexRecords(x, f) = [z EXCEPT !.rollup = ApplyAll(z.rollup, f)]
  BY <1>1 DEF IndexRecords
<1>4. ApplyAll(z.rollup, f) \in [Spans -> Row]
  <2>1. z.rollup \in [Spans -> Row]
    BY <1>2 DEF Indexes, Typed, Derived
  <2>2. QED
    BY <2>1, ApplyAllType
<1>5. QED
  BY <1>2, <1>3, <1>4 DEF Indexes, Records, Typed, Derived

\* One event that is offered.
LEMMA OneEvent ==
  ASSUME NEW e \in Events
  PROVE  /\ <<e>> \in Seq(Events) /\ Len(<<e>>) = 1 /\ Range(<<e>>) = {e}
         /\ OfEvents(<<e>>) /\ Applicable(<<e>>) /\ Increasing(<<e>>)
<1>1. DOMAIN <<e>> = {1} /\ <<e>>[1] = e
  OBVIOUS
<1>2. Range(<<e>>) = {e}
  BY <1>1 DEF Range
<1>3. Applicable(<<e>>)
  <2>1. DOMAIN <<e>> \subseteq 0..1
    BY <1>1
  <2>2. QED
    BY <1>1, <2>1 DEF Applicable
<1>4. Increasing(<<e>>)
  BY <1>1 DEF Increasing
<1>5. QED
  BY <1>2, <1>3, <1>4 DEF OfEvents

\* Ingest before the log: what was not loaded is, and there was no tail then; the
\* event is applied to models that are of the whole store.
LEMMA IngestIndexStep ==
  ASSUME IInv, IngestIndex
  PROVE  IInv'
<1>1. PICK e \in Offered : derived' = IndexRecords(EnsureAll(derived, MemRows), <<e>>) /\ pending' = <<e>>
  BY DEF IngestIndex
<1>2. e \in Events
  BY DEF Offered
<1>3. writer = "idle" /\ writer' = "indexed" /\ UNCHANGED <<log, man, deleted>>
  BY DEF IngestIndex
<1>4. /\ StoreType /\ Typed(derived) /\ FilesGood(derived) /\ TailIsIndexed(derived)
      /\ TextGood(derived) /\ RollupGood(derived)
  BY <1>3, AtRest
<1>5. PICK y : y = EnsureAll(derived, MemRows)
  OBVIOUS
<1>6. Ensured(derived, y)
  <2>1. Partly(derived)
    BY <1>4, WholeIsPart
  <2>2. MemRows = TailTo(Len(log)) /\ Len(log) \in man.wm..Len(log)
    BY <1>4, WholeTail
  <2>3. QED
    BY <1>4, <1>5, <2>1, <2>2, EnsureAllIs
<1>7. /\ Typed(y) /\ FilesGood(y) /\ y.ready /\ ~y.stale
      /\ HasKinds(y.rollup, Visible) /\ (InOrder => y.rollup = Folded(Visible))
      /\ Covers(y.docs, y.seen, Visible)
  <2>1. RollupGood(y) /\ TextGood(y)
    <3>1. CASE derived.ready /\ ~derived.stale
      BY <1>4, <1>6, <3>1 DEF Ensured, RollupGood, TextGood
    <3>2. CASE man.wm = Len(log)
      BY <1>4, <1>6, <3>2, PartIsWhole DEF Ensured
    <3>3. QED
      BY <1>4, <3>1, <3>2 DEF TailIsIndexed
  <2>2. QED
    BY <1>4, <1>6, <2>1, WholeTail DEF Ensured, RollupGood, TextGood, RollupReads
<1>8. Records(y, <<e>>, derived')
  <2>1. OfEvents(<<e>>) /\ Applicable(<<e>>)
    BY <1>2, OneEvent
  <2>2. Records(y, <<e>>, IndexRecords(y, <<e>>))
    BY <1>7, <2>1, IndexRecordsIs
  <2>3. QED
    BY <1>1, <1>5, <2>2
<1>9. Typed(derived') /\ FilesGood(derived') /\ TailIsIndexed(derived')
  BY <1>7, <1>8 DEF Records, FilesGood, RollupFileGood, ScanFileGood, StampsOld, TailIsIndexed
<1>10. RollupAhead(derived', <<e>>)
  <2>1. HasKinds(ApplyAll(y.rollup, <<e>>), Visible \cup Range(<<e>>))
    BY <1>7, KindsOnward
  <2>2. ASSUME AheadInOrder(<<e>>) PROVE ApplyAll(y.rollup, <<e>>) = Folded(Visible \cup Range(<<e>>))
    <3>1. InOrder /\ \A d \in Visible, g \in Range(<<e>>) : d < g
      BY <2>2 DEF AheadInOrder
    <3>2. Visible \subseteq Events /\ Applicable(<<e>>) /\ Increasing(<<e>>)
      BY <1>2, <1>4, OneEvent, WholeTail
    <3>3. ApplyAll(Folded(Visible), <<e>>) = Folded(Visible \cup Range(<<e>>))
      BY <3>1, <3>2, FoldedOnward
    <3>4. QED
      BY <1>7, <3>1, <3>3
  <2>3. QED
    BY <1>8, <2>1, <2>2 DEF RollupAhead, Records
<1>11. TextAhead(derived', <<e>>)
  BY <1>7, <1>8, IndexCovers DEF TextAhead, Records
<1>12. pending' \in Seq(Events) /\ WriterState'
  BY <1>1, <1>2, <1>3, <1>7, <1>8, OneEvent DEF WriterState, Records
<1>13. QED
  BY <1>1, <1>3, <1>9, <1>10, <1>11, <1>12, QuietStep

\* The replay of the tail, onto models that were just loaded or built without it.
LEMMA RestartStep ==
  ASSUME IInv, Restart
  PROVE  IInv'
<1>1. writer' = "idle" /\ pending' = <<>> /\ UNCHANGED <<log, man, deleted>>
  BY DEF Restart
<1>2. StoreType /\ Typed(derived) /\ FilesGood(derived)
  BY DEF IInv
<1>3. PICK x : x = Cleared(derived)
  OBVIOUS
<1>4. Typed(x) /\ FilesGood(x) /\ ~x.ready /\ x.stale
  <2>1. /\ Typed(x) /\ ~x.ready /\ x.stale
        /\ x.rollupFile = derived.rollupFile /\ x.scanFile = derived.scanFile
    BY <1>2, <1>3, NoRowsType DEF Cleared, Typed, Derived
  <2>2. QED
    BY <1>2, <2>1 DEF FilesGood, RollupFileGood, ScanFileGood, StampsOld
<1>5. pending' \in Seq(Events) /\ WriterState'
  BY <1>1 DEF WriterState
<1>6. SUFFICES /\ Typed(derived') /\ FilesGood(derived') /\ TailIsIndexed(derived')
               /\ RollupGood(derived') /\ TextGood(derived')
  <2>1. RollupAhead(derived', <<>>) /\ TextAhead(derived', <<>>)
    BY <1>2, <1>6, NothingAhead
  <2>2. QED
    BY <1>1, <1>5, <1>6, <2>1, QuietStep
<1>7. CASE MemRows = <<>>
  <2>1. derived' = x
    BY <1>3, <1>7 DEF Restart
  <2>2. TailIsIndexed(x)
    BY <1>2, <1>7, NoTail DEF TailIsIndexed
  <2>3. QED
    BY <1>4, <2>1, <2>2 DEF RollupGood, TextGood
<1>8. CASE MemRows # <<>>
  <2>1. PICK y : y = EnsureAll(x, <<>>)
    OBVIOUS
  <2>2. Ensured(x, y)
    <3>1. Partly(x)
      BY <1>4 DEF Partly
    <3>2. <<>> = TailTo(man.wm) /\ man.wm \in man.wm..Len(log)
      BY <1>2, NoTail, WholeTail
    <3>3. Ensured(x, EnsureAll(x, TailTo(man.wm)))
      BY <1>2, <1>4, <3>1, <3>2, EnsureAllIs
    <3>4. QED
      BY <2>1, <3>2, <3>3
  <2>3. /\ Typed(y) /\ FilesGood(y) /\ y.ready /\ ~y.stale
        /\ Covers(y.docs, y.seen, Range(LiveSegEvents))
    BY <2>2 DEF Ensured, Partly
  <2>4. PICK n \in man.wm..Len(log) : RollupReads(y.rollup, n)
    BY <2>2 DEF Ensured, Partly
  <2>5. Records(y, MemRows, derived')
    <3>1. OfEvents(MemRows) /\ Applicable(MemRows)
      BY <1>2, WholeTail, TailShape DEF OfEvents
    <3>2. Records(y, MemRows, IndexRecords(y, MemRows))
      BY <2>3, <3>1, IndexRecordsIs
    <3>3. derived' = IndexRecords(y, MemRows)
      BY <1>3, <1>8, <2>1 DEF Restart
    <3>4. QED
      BY <3>2, <3>3
  <2>6. Typed(derived') /\ FilesGood(derived') /\ TailIsIndexed(derived')
    BY <2>3, <2>5 DEF Records, FilesGood, RollupFileGood, ScanFileGood, StampsOld, TailIsIndexed
  <2>7. RollupGood(derived')
    <3>1. y.rollup \in [Spans -> Row]
      BY <2>3 DEF Typed, Derived
    <3>2. RollupReads(ApplyAll(y.rollup, MemRows), Len(log))
      BY <1>2, <2>4, <3>1, ReplayReads
    <3>3. QED
      BY <2>5, <3>2 DEF RollupGood, Records
  <2>8. TextGood(derived')
    BY <2>3, <2>5, IndexCovers DEF TextGood, Records, Visible
  <2>9. QED
    BY <2>6, <2>7, <2>8
<1>9. QED
  BY <1>7, <1>8

\* A query that loads the rollup, a search that loads the text index: there is no
\* tail yet.
LEMMA FirstRollupQueryStep ==
  ASSUME IInv, FirstRollupQuery
  PROVE  IInv'
<1>1. /\ writer = "idle" /\ ~derived.ready /\ derived' = EnsureRollup(derived, MemRows)
      /\ UNCHANGED <<log, man, writer, pending, deleted>>
  BY DEF FirstRollupQuery
<1>2. /\ StoreType /\ Typed(derived) /\ FilesGood(derived) /\ TailIsIndexed(derived)
      /\ pending = <<>> /\ TextGood(derived)
  BY <1>1, AtRest
<1>3. man.wm = Len(log)
  BY <1>1, <1>2 DEF TailIsIndexed
<1>4. RollupEnsured(derived, derived')
  <2>1. MemRows = TailTo(Len(log)) /\ Len(log) \in man.wm..Len(log)
    BY <1>2, WholeTail
  <2>2. QED
    BY <1>1, <1>2, <2>1, EnsureRollupIs
<1>5. Typed(derived') /\ FilesGood(derived') /\ TailIsIndexed(derived') /\ TextGood(derived')
  BY <1>2, <1>3, <1>4 DEF RollupEnsured, TailIsIndexed, TextGood
<1>6. RollupGood(derived')
  <2>1. Partly(derived')
    BY <1>1, <1>4, <1>5 DEF RollupEnsured, Partly, TextGood, Visible, Covers
  <2>2. QED
    BY <1>2, <1>3, <2>1, PartIsWhole
<1>7. RollupAhead(derived', <<>>) /\ TextAhead(derived', <<>>)
  BY <1>2, <1>5, <1>6, NothingAhead
<1>8. pending' \in Seq(Events) /\ WriterState'
  BY <1>1, <1>2 DEF WriterState
<1>9. QED
  BY <1>1, <1>2, <1>5, <1>7, <1>8, QuietStep

LEMMA FirstSearchStep ==
  ASSUME IInv, FirstSearch
  PROVE  IInv'
<1>1. /\ writer = "idle" /\ derived.stale /\ derived' = EnsureScan(derived, MemRows)
      /\ UNCHANGED <<log, man, writer, pending, deleted>>
  BY DEF FirstSearch
<1>2. /\ StoreType /\ Typed(derived) /\ FilesGood(derived) /\ TailIsIndexed(derived)
      /\ pending = <<>> /\ RollupGood(derived)
  BY <1>1, AtRest
<1>3. man.wm = Len(log)
  BY <1>1, <1>2 DEF TailIsIndexed
<1>4. /\ Typed(derived') /\ FilesGood(derived') /\ ~derived'.stale
      /\ derived'.rollup = derived.rollup /\ derived'.ready = derived.ready
      /\ Covers(derived'.docs, derived'.seen, Range(LiveSegEvents))
  <2>1. MemRows = TailTo(Len(log)) /\ Len(log) \in man.wm..Len(log)
    BY <1>2, WholeTail
  <2>2. PICK y : y = EnsureScan(derived, TailTo(Len(log)))
    OBVIOUS
  <2>3. /\ Typed(y) /\ FilesGood(y) /\ ~y.stale /\ y.rollup = derived.rollup /\ y.ready = derived.ready
        /\ Covers(y.docs, y.seen, Range(LiveSegEvents))
    BY <1>1, <1>2, <2>1, <2>2, EnsureScanIs
  <2>4. derived' = y
    BY <1>1, <2>1, <2>2
  <2>5. QED
    BY <2>3, <2>4
<1>5. TailIsIndexed(derived') /\ RollupGood(derived')
  BY <1>2, <1>3, <1>4 DEF TailIsIndexed, RollupGood
<1>6. TextGood(derived')
  <2>1. Visible = Range(LiveSegEvents)
    BY <1>2, <1>3, NoTail, WholeTail
  <2>2. QED
    BY <1>4, <2>1 DEF TextGood
<1>7. RollupAhead(derived', <<>>) /\ TextAhead(derived', <<>>)
  BY <1>2, <1>5, <1>6, NothingAhead
<1>8. pending' \in Seq(Events) /\ WriterState'
  BY <1>1, <1>2 DEF WriterState
<1>9. QED
  BY <1>1, <1>2, <1>4, <1>5, <1>7, <1>8, QuietStep

\* Saving changes nothing that is loaded.
LEMMA SaveStep ==
  ASSUME IInv, UNCHANGED <<log, man, pending, deleted>>, writer # "indexed", writer' = "idle",
         NEW x, Typed(x), FilesGood(x), TailIsIndexed(x), RollupGood(x), TextGood(x),
         derived' = PersistSidecars(x)
  PROVE  IInv'
<1>1. StoreType /\ pending = <<>>
  BY AtRest
<1>2. Persisted(x, derived')
  BY <1>1, PersistSidecarsIs
<1>3. /\ Typed(derived') /\ FilesGood(derived') /\ TailIsIndexed(derived')
      /\ RollupGood(derived') /\ TextGood(derived')
  BY <1>2 DEF Persisted, TailIsIndexed, RollupGood, TextGood
<1>4. RollupAhead(derived', <<>>) /\ TextAhead(derived', <<>>)
  BY <1>1, <1>3, NothingAhead
<1>5. pending' \in Seq(Events) /\ WriterState'
  BY <1>1 DEF WriterState
<1>6. QED
  BY <1>1, <1>3, <1>4, <1>5, QuietStep

LEMMA FlushPersistStep ==
  ASSUME IInv, FlushPersist
  PROVE  IInv'
<1>1. /\ writer = "flushed" /\ writer' = "idle" /\ derived' = PersistSidecars(derived)
      /\ UNCHANGED <<log, man, pending, deleted>>
  BY DEF FlushPersist
<1>2. Typed(derived) /\ FilesGood(derived) /\ TailIsIndexed(derived) /\ RollupGood(derived) /\ TextGood(derived)
  BY <1>1, AtRest
<1>3. QED
  BY <1>1, <1>2, SaveStep

\* The rollup rebuilt is of the whole store.
LEMMA RebuildRollupIs ==
  ASSUME StoreType, NEW x, Typed(x), FilesGood(x), NEW y, y = RebuildRollup(x, MemRows)
  PROVE  /\ Typed(y) /\ FilesGood(y) /\ y.ready /\ RollupGood(y)
         /\ y.docs = x.docs /\ y.seen = x.seen /\ y.stale = x.stale
<1> DEFINE rows == ApplyAll(ApplyAll(NoRows, LiveSegEvents), MemRows)
<1>1. rows \in [Spans -> Row] /\ RollupReads(rows, Len(log))
  BY WholeTail, RebuildReads
<1>2. y = [x EXCEPT !.rollup = rows, !.ready = TRUE]
  BY DEF RebuildRollup
<1> HIDE DEF rows
<1>3. /\ Typed(y) /\ y.ready /\ y.rollup = rows
      /\ y.rollupFile = x.rollupFile /\ y.scanFile = x.scanFile
      /\ y.docs = x.docs /\ y.seen = x.seen /\ y.stale = x.stale
  BY <1>1, <1>2 DEF Typed, Derived
<1>4. QED
  BY <1>1, <1>3 DEF FilesGood, RollupFileGood, ScanFileGood, StampsOld, RollupGood

\* So is the text index: the ids it keeps of events it has no document for are of
\* rows that are dead, and those were deleted.
LEMMA RebuildTextIs ==
  ASSUME StoreType, DeadAreDeleted, NEW x, Typed(x), NEW y, y = RebuildText(x)
  PROVE  /\ Typed(y) /\ ~y.stale /\ TextGood(y)
         /\ y.rollup = x.rollup /\ y.ready = x.ready
         /\ y.rollupFile = x.rollupFile /\ y.scanFile = x.scanFile
<1>1. y = [x EXCEPT !.docs = SpansOf(Visible), !.seen = Range(SegEvents) \cup Range(MemRows), !.stale = FALSE]
  BY DEF RebuildText, SpansOf
<1>2. SpansOf(Visible) \subseteq Spans /\ Range(SegEvents) \cup Range(MemRows) \subseteq Events
  <2>1. Visible \subseteq Events /\ Range(MemRows) \subseteq Events /\ Range(SegEvents) \subseteq Events
    BY WholeTail, LiveShape DEF Range
  <2>2. QED
    BY <2>1, EventFields DEF SpansOf
<1>3. /\ Typed(y) /\ ~y.stale /\ y.docs = SpansOf(Visible) /\ y.seen = Range(SegEvents) \cup Range(MemRows)
      /\ y.rollup = x.rollup /\ y.ready = x.ready
      /\ y.rollupFile = x.rollupFile /\ y.scanFile = x.scanFile
  BY <1>1, <1>2 DEF Typed, Derived
<1>4. ASSUME NEW e \in Range(SegEvents) \ deleted PROVE e \in Visible
  <2>1. PICK k \in DOMAIN man.rows : man.rows[k].ev = e
    BY <1>4 DEF Range, SegEvents
  <2>2. k \in Live
    BY <1>4, <2>1 DEF DeadAreDeleted, Live
  <2>3. k \in DOMAIN LiveSegEvents /\ LiveSegEvents[k] = e
    BY <2>1, <2>2 DEF LiveSegEvents
  <2>4. e \in Range(LiveSegEvents)
    BY <2>3 DEF Range
  <2>5. QED
    BY <2>4 DEF Visible
<1>5. Range(MemRows) \subseteq Visible
  BY DEF Visible
<1>6. TextGood(y)
  BY <1>3, <1>4, <1>5 DEF TextGood, Covers, SpansOf
<1>7. QED
  BY <1>3, <1>6

LEMMA DeleteRebuildStep ==
  ASSUME IInv, DeleteRebuild
  PROVE  IInv'
<1>1. PICK a : a = [derived EXCEPT !.dirty = TRUE]
  OBVIOUS
<1>2. PICK b : b = RebuildRollup(a, MemRows)
  OBVIOUS
<1>3. PICK c : c = RebuildText(b)
  OBVIOUS
<1>4. /\ writer = "deleted" /\ writer' = "idle" /\ derived' = PersistSidecars(c)
      /\ UNCHANGED <<log, man, pending, deleted>>
  BY <1>1, <1>2, <1>3 DEF DeleteRebuild
<1>5. StoreType /\ Typed(derived) /\ FilesGood(derived) /\ DeadAreDeleted
  BY DEF IInv
<1>6. Typed(a) /\ FilesGood(a)
  <2>1. Typed(a) /\ a.rollupFile = derived.rollupFile /\ a.scanFile = derived.scanFile
    BY <1>1, <1>5 DEF Typed, Derived
  <2>2. QED
    BY <1>5, <2>1 DEF FilesGood, RollupFileGood, ScanFileGood, StampsOld
<1>7. Typed(b) /\ FilesGood(b) /\ b.ready /\ RollupGood(b)
  BY <1>2, <1>5, <1>6, RebuildRollupIs
<1>8. /\ Typed(c) /\ ~c.stale /\ TextGood(c) /\ c.rollup = b.rollup /\ c.ready = b.ready
      /\ c.rollupFile = b.rollupFile /\ c.scanFile = b.scanFile
  BY <1>3, <1>5, <1>7, RebuildTextIs
<1>9. FilesGood(c) /\ RollupGood(c) /\ TailIsIndexed(c)
  BY <1>7, <1>8 DEF FilesGood, RollupFileGood, ScanFileGood, StampsOld, RollupGood, TailIsIndexed
<1>10. QED
  BY <1>4, <1>8, <1>9, SaveStep

LEMMA CompactRebuildStep ==
  ASSUME IInv, CompactRebuild
  PROVE  IInv'
<1>1. PICK b : b = RebuildRollup(derived, MemRows)
  OBVIOUS
<1>2. /\ writer = "compacted" /\ writer' = "idle" /\ derived' = PersistSidecars(b)
      /\ UNCHANGED <<log, man, pending, deleted>>
  BY <1>1 DEF CompactRebuild
<1>3. StoreType /\ Typed(derived) /\ FilesGood(derived) /\ TailIsIndexed(derived) /\ TextGood(derived)
  BY <1>2, AtRest
<1>4. /\ Typed(b) /\ FilesGood(b) /\ b.ready /\ RollupGood(b)
      /\ b.docs = derived.docs /\ b.seen = derived.seen /\ b.stale = derived.stale
  BY <1>1, <1>3, RebuildRollupIs
<1>5. TextGood(b) /\ TailIsIndexed(b)
  BY <1>3, <1>4 DEF TextGood, TailIsIndexed
<1>6. QED
  BY <1>2, <1>4, <1>5, SaveStep

\* The session list touches the session index and nothing else.
LEMMA ListStep ==
  ASSUME IInv, NEW r \in Readers, ListPin(r) \/ ListLook(r) \/ ListRebuild(r)
  PROVE  IInv'
<1>1. UNCHANGED <<log, man, writer, pending, deleted>>
  BY DEF ListPin, ListLook, ListRebuild
<1>2. StoreType /\ Typed(derived) /\ FilesGood(derived) /\ TailIsIndexed(derived)
  BY DEF IInv
<1>3. /\ Typed(derived') /\ derived'.rollup = derived.rollup /\ derived'.ready = derived.ready
      /\ derived'.docs = derived.docs /\ derived'.seen = derived.seen /\ derived'.stale = derived.stale
      /\ derived'.rollupFile = derived.rollupFile /\ derived'.scanFile = derived.scanFile
  <2>1. CASE derived' = derived
    BY <1>2, <2>1
  <2>2. CASE ListRebuild(r) /\ derived.dirty
    <3>1. PICK t, ss : derived' = [derived EXCEPT !.sessions = ss, !.dirty = FALSE, !.tainted = t]
                       /\ t \in BOOLEAN
      BY <2>2 DEF ListRebuild, RebuildSessions
    <3>2. QED
      BY <1>2, <3>1 DEF Typed, Derived
  <2>3. QED
    BY <2>1, <2>2 DEF ListPin, ListLook, ListRebuild
<1>4. FilesGood(derived') /\ TailIsIndexed(derived')
  BY <1>2, <1>3 DEF FilesGood, RollupFileGood, ScanFileGood, StampsOld, TailIsIndexed
<1>5. /\ writer' \in {"idle", "flushed", "indexed"} => RollupAhead(derived', pending')
      /\ TextAhead(derived', pending')
  BY <1>1, <1>3 DEF IInv, RollupAhead, TextAhead
<1>6. pending' \in Seq(Events) /\ WriterState'
  BY <1>1, <1>2, <1>3 DEF StoreType, WriterState, IInv
<1>7. QED
  BY <1>1, <1>3, <1>4, <1>5, <1>6, QuietStep

-----------------------------------------------------------------------------
(* Steps that write the log or the manifest.                               *)

LEMMA PartOfSeq ==
  ASSUME NEW s \in Seq(Events), NEW w \in Nat, NEW n \in w..Len(s)
  PROVE  /\ SubSeq(s, w + 1, n) \in Seq(Events) /\ Len(SubSeq(s, w + 1, n)) = n - w
         /\ DOMAIN SubSeq(s, w + 1, n) = 1..(n - w)
         /\ \A i \in 1..(n - w) : SubSeq(s, w + 1, n)[i] = s[w + i]
         /\ Applicable(SubSeq(s, w + 1, n)) /\ Range(SubSeq(s, w + 1, n)) \subseteq Events
<1> DEFINE t == SubSeq(s, w + 1, n)
<1>1. Len(s) \in Nat /\ n \in Nat /\ w <= n /\ n <= Len(s) /\ n - w \in Nat
  OBVIOUS
<1>2. \A i \in (w + 1)..n : s[i] \in Events
  BY <1>1
<1>3. /\ t \in Seq(Events) /\ Len(t) = IF w + 1 <= n THEN n - (w + 1) + 1 ELSE 0
      /\ \A i \in 1..(n - (w + 1) + 1) : t[i] = s[(w + 1) + i - 1]
  BY <1>1, <1>2, SubSeqProperties
<1> HIDE DEF t
<1>4. Len(t) = n - w /\ \A i \in 1..(n - w) : t[i] = s[w + i]
  BY <1>1, <1>3
<1>5. DOMAIN t = 1..(n - w) /\ \A i \in DOMAIN t : t[i] \in Events
  BY <1>3, <1>4
<1>6. Applicable(t) /\ Range(t) \subseteq Events
  <2>1. DOMAIN t \subseteq 0..(n - w)
    BY <1>1, <1>5
  <2>2. QED
    BY <1>1, <1>5, <2>1 DEF Applicable, Range
<1>7. QED
  BY <1>3, <1>4, <1>5, <1>6 DEF t

\* The log with one more event: its parts up to n stay, the whole tail has one more,
\* and is in order only if the tail was and the event follows it.
Longer(s, r, e, w, t, u) ==
  /\ r \in Seq(Events) /\ Len(r) = Len(s) + 1
  /\ \A n \in w..Len(s) : SubSeq(r, w + 1, n) = SubSeq(s, w + 1, n)
  /\ Range(u) = Range(t) \cup {e}
  /\ Increasing(u) => Increasing(t) /\ \A a \in Range(t) : a < e

LEMMA LongerLog ==
  ASSUME NEW s \in Seq(Events), NEW e \in Events, NEW w \in Nat, w <= Len(s)
  PROVE  Longer(s, s \o <<e>>, e, w, SubSeq(s, w + 1, Len(s)), SubSeq(s \o <<e>>, w + 1, Len(s \o <<e>>)))
<1> DEFINE z == s \o <<e>>
<1>a. PICK t : t = SubSeq(s, w + 1, Len(s))
  OBVIOUS
<1>b. PICK u : u = SubSeq(z, w + 1, Len(z))
  OBVIOUS
<1>1. /\ z \in Seq(Events) /\ Len(z) = Len(s) + 1 /\ Len(s) \in Nat
      /\ (\A i \in 1..Len(s) : z[i] = s[i]) /\ z[Len(s) + 1] = e
  BY AppendProperties
<1> HIDE DEF z
<1>c. PICK k \in Nat : k = Len(s) - w
  BY <1>1
<1>2. ASSUME NEW n \in w..Len(s) PROVE SubSeq(z, w + 1, n) = SubSeq(s, w + 1, n)
  <2>1. n \in w..Len(z) /\ n \in Nat
    BY <1>1
  <2>2. ASSUME NEW i \in 1..(n - w) PROVE z[w + i] = s[w + i]
    <3>1. w + i \in 1..Len(s)
      BY <1>1, <2>1
    <3>2. QED
      BY <1>1, <3>1
  <2>3. /\ SubSeq(z, w + 1, n) \in Seq(Events) /\ Len(SubSeq(z, w + 1, n)) = n - w
        /\ \A i \in 1..(n - w) : SubSeq(z, w + 1, n)[i] = z[w + i]
    BY <1>1, <2>1, PartOfSeq
  <2>4. /\ SubSeq(s, w + 1, n) \in Seq(Events) /\ Len(SubSeq(s, w + 1, n)) = n - w
        /\ \A i \in 1..(n - w) : SubSeq(s, w + 1, n)[i] = s[w + i]
    BY PartOfSeq
  <2>5. QED
    BY <2>2, <2>3, <2>4, SeqEqual
<1>3. /\ DOMAIN t = 1..k /\ \A i \in 1..k : t[i] = s[w + i]
  <2>1. Len(s) \in w..Len(s)
    BY <1>1
  <2>2. PICK n \in w..Len(s) : n = Len(s)
    BY <2>1
  <2>3. QED
    BY <1>1, <1>a, <1>c, <2>2, PartOfSeq
<1>4. /\ DOMAIN u = 1..(k + 1) /\ \A i \in 1..(k + 1) : u[i] = z[w + i]
  <2>1. Len(z) \in w..Len(z) /\ Len(z) - w = k + 1
    BY <1>1, <1>c
  <2>2. u = SubSeq(z, w + 1, Len(z))
    BY <1>b
  <2>3. PICK n \in w..Len(z) : n = Len(z)
    BY <2>1
  <2>4. DOMAIN u = 1..(n - w) /\ \A i \in 1..(n - w) : u[i] = z[w + i]
    BY <1>1, <2>2, <2>3, PartOfSeq
  <2>5. QED
    BY <2>1, <2>3, <2>4
<1>5. (\A i \in 1..k : u[i] = t[i]) /\ u[k + 1] = e
  <2>1. ASSUME NEW i \in 1..k PROVE u[i] = t[i]
    <3>1. w + i \in 1..Len(s) /\ i \in 1..(k + 1)
      BY <1>1, <1>c
    <3>2. QED
      BY <1>1, <1>3, <1>4, <3>1
  <2>2. w + (k + 1) = Len(s) + 1 /\ k + 1 \in 1..(k + 1)
    BY <1>1, <1>c
  <2>3. QED
    BY <1>1, <1>4, <2>1, <2>2
<1>6. Range(u) = Range(t) \cup {e}
  <2>1. ASSUME NEW i \in DOMAIN u PROVE u[i] \in Range(t) \cup {e}
    <3>1. i \in 1..k \/ i = k + 1
      BY <1>3, <1>4
    <3>2. QED
      BY <1>3, <1>5, <3>1 DEF Range
  <2>2. ASSUME NEW i \in DOMAIN t PROVE t[i] \in Range(u)
    <3>1. i \in DOMAIN u
      BY <1>3, <1>4
    <3>2. QED
      BY <1>3, <1>5, <3>1 DEF Range
  <2>3. e \in Range(u)
    <3>1. k + 1 \in DOMAIN u
      BY <1>3, <1>4
    <3>2. QED
      BY <1>5, <3>1 DEF Range
  <2>4. \A a \in Range(t) : a \in Range(u)
    BY <2>2 DEF Range
  <2>5. \A a \in Range(u) : a \in Range(t) \cup {e}
    BY <2>1 DEF Range
  <2>6. QED
    BY <2>3, <2>4, <2>5
<1>7. ASSUME Increasing(u) PROVE Increasing(t) /\ \A a \in Range(t) : a < e
  <2>1. \A i \in 1..k : i \in DOMAIN u /\ i < k + 1 /\ k + 1 \in DOMAIN u
    BY <1>3, <1>4
  <2>2. \A i, j \in 1..k : i < j => u[i] < u[j]
    BY <1>7, <2>1 DEF Increasing
  <2>3. \A i \in 1..k : u[i] < u[k + 1]
    BY <1>7, <2>1 DEF Increasing
  <2>4. Increasing(t)
    BY <1>3, <1>5, <2>2 DEF Increasing
  <2>5. \A i \in DOMAIN t : t[i] < e
    BY <1>3, <1>5, <2>3
  <2>6. QED
    BY <2>4, <2>5 DEF Range
<1>8. Longer(s, z, e, w, t, u)
  BY <1>1, <1>2, <1>6, <1>7 DEF Longer
<1>9. QED
  BY <1>a, <1>b, <1>8 DEF z

\* A manifest of a new version makes every sidecar one of another manifest.
LEMMA NewVersion ==
  ASSUME StoreType, FilesGood(derived), derived' = derived,
         man'.version = man.version + 1, man'.wm \in Nat
  PROVE  FilesGood(derived)'
<1>1. man.version \in Nat
  BY RowsShape
<1>2. \A v, w \in Nat : v > man.version =>
        derived'.rollupFile.stamp # <<v, w>> /\ derived'.scanFile.stamp # <<v, w>>
  BY DEF FilesGood, StampsOld
<1>3. StampsOld(derived)'
  BY <1>1, <1>2 DEF StampsOld
<1>4. derived'.rollupFile.stamp # <<man'.version, man'.wm>> /\ derived'.scanFile.stamp # <<man'.version, man'.wm>>
  BY <1>1, <1>2
<1>5. RollupFileGood(derived)' /\ ScanFileGood(derived)'
  BY <1>4 DEF RollupFileGood, ScanFileGood, Stamp
<1>6. QED
  BY <1>3, <1>5 DEF FilesGood

\* A flush: what was the tail of the log is now live in the segments, after the
\* rows that were there.
LEMMA FlushedStore ==
  ASSUME StoreType, NEW rec \in Seq(Events), man.wm <= Len(rec), log' = rec, man' = Flushed(rec),
         NEW t, t = SubSeq(rec, man.wm + 1, Len(rec))
  PROVE  /\ man' \in [version : Nat, wm : Nat, rows : Seq(StoredRow)]
         /\ man'.version = man.version + 1 /\ man'.wm = Len(rec)
         /\ MemRows' = <<>> /\ Visible' = Range(LiveSegEvents) \cup Range(t)
         /\ InOrder' => Increasing(LiveSegEvents) /\ Increasing(t)
                          /\ \A a \in Range(LiveSegEvents), b \in Range(t) : a < b
         /\ DeadAreDeleted /\ deleted' = deleted => DeadAreDeleted'
<1>1. /\ man.rows \in Seq(StoredRow) /\ DOMAIN man.rows = 1..Len(man.rows) /\ Len(man.rows) \in Nat
      /\ man.version \in Nat /\ man.wm \in Nat /\ Len(rec) \in Nat
  BY RowsShape
<1>2. PICK N \in Nat : N = Len(man.rows)
  BY <1>1
<1>3. PICK k \in Nat : k = Len(rec) - man.wm
  BY <1>1
<1>4. PICK new : new = [i \in 1..k |-> [ev |-> rec[man.wm + i], dead |-> FALSE, seg |-> man.version + 1]]
  OBVIOUS
<1>5. PICK R : R = man.rows \o new
  OBVIOUS
<1>6. man' = [version |-> man.version + 1, wm |-> Len(rec), rows |-> R]
  BY <1>3, <1>4, <1>5 DEF Flushed, NextManifest
<1>7. DOMAIN t = 1..k /\ (\A i \in 1..k : t[i] = rec[man.wm + i] /\ t[i] \in Events)
  <2>1. Len(rec) \in man.wm..Len(rec)
    BY <1>1
  <2>2. PICK n \in man.wm..Len(rec) : n = Len(rec)
    BY <2>1
  <2>3. /\ DOMAIN t = 1..(n - man.wm) /\ \A i \in 1..(n - man.wm) : t[i] = rec[man.wm + i]
        /\ Range(t) \subseteq Events
    BY <1>1, <2>2, PartOfSeq
  <2>4. QED
    BY <1>3, <2>2, <2>3 DEF Range
<1>8. new \in Seq(StoredRow) /\ Len(new) = k /\ \A i \in 1..k : new[i].ev = t[i] /\ ~new[i].dead
  <2>1. PICK v \in Nat : v = man.version + 1
    BY <1>1
  <2>2. ASSUME NEW i \in 1..k PROVE new[i] \in StoredRow /\ new[i].ev = t[i] /\ ~new[i].dead
    <3>1. new[i] = [ev |-> t[i], dead |-> FALSE, seg |-> v] /\ t[i] \in Events
      BY <1>4, <1>7, <2>1
    <3>2. PICK e \in Events : e = t[i]
      BY <3>1
    <3>3. [ev |-> e, dead |-> FALSE, seg |-> v] \in StoredRow
      BY DEF StoredRow
    <3>4. PICK r \in StoredRow : r = [ev |-> e, dead |-> FALSE, seg |-> v]
      BY <3>3
    <3>5. r.ev = e /\ ~r.dead
      BY <3>4
    <3>6. new[i] = r
      BY <3>1, <3>2, <3>4
    <3>7. QED
      BY <3>2, <3>5, <3>6
  <2>3. DOMAIN new = 1..k /\ new \in [1..k -> StoredRow]
    BY <1>4, <2>2
  <2> HIDE DEF StoredRow
  <2>4. new \in Seq(StoredRow) /\ Len(new) = k
    BY <2>3
  <2>5. QED
    BY <2>2, <2>4
<1>9. R \in Seq(StoredRow) /\ Len(R) = N + k /\ DOMAIN R = 1..(N + k)
  <2>0. man.rows \in Seq(StoredRow) /\ new \in Seq(StoredRow)
    BY <1>1, <1>8
  <2>1. R \in Seq(StoredRow) /\ Len(R) = Len(man.rows) + Len(new)
    <3>1. man.rows \o new \in Seq(StoredRow) /\ Len(man.rows \o new) = Len(man.rows) + Len(new)
      BY <2>0, ConcatProperties
    <3>2. QED
      BY <1>5, <3>1
  <2>2. Len(R) = N + k
    BY <1>2, <1>8, <2>1
  <2>3. DOMAIN R = 1..Len(R)
    BY <2>1, LenProperties
  <2>4. QED
    BY <2>1, <2>2, <2>3
<1>10. /\ \A i \in 1..N : i \in 1..(N + k) /\ R[i] = man.rows[i]
       /\ \A i \in 1..k : N + i \in 1..(N + k) /\ R[N + i].ev = t[i] /\ ~R[N + i].dead
  <2>1. \A i \in 1..(N + k) : R[i] = IF i <= N THEN man.rows[i] ELSE new[i - N]
    BY <1>1, <1>2, <1>5, <1>8, ConcatProperties
  <2>2. \A i \in 1..N : i \in 1..(N + k) /\ R[i] = man.rows[i]
    BY <2>1
  <2>3. ASSUME NEW i \in 1..k PROVE N + i \in 1..(N + k) /\ R[N + i] = new[i]
    <3>1. N + i \in 1..(N + k) /\ ~(N + i <= N) /\ (N + i) - N = i
      OBVIOUS
    <3>2. QED
      BY <2>1, <3>1
  <2>4. QED
    BY <1>8, <2>2, <2>3
<1>11. \A j \in 1..(N + k) : j \in 1..N \/ \E i \in 1..k : j = N + i
  <2>1. ASSUME NEW j \in 1..(N + k), j \notin 1..N PROVE j - N \in 1..k /\ j = N + (j - N)
    BY <2>1
  <2>2. QED
    BY <2>1
<1>12. man'.rows = R /\ DOMAIN man.rows = 1..N /\ DOMAIN R = 1..(N + k)
  BY <1>1, <1>2, <1>6, <1>9
<1>13. /\ \A j \in Live : j \in Live' /\ LiveSegEvents'[j] = LiveSegEvents[j] /\ j \in 1..N
       /\ \A i \in 1..k : N + i \in Live' /\ LiveSegEvents'[N + i] = t[i]
       /\ \A j \in Live' : j \in Live \/ \E i \in 1..k : j = N + i
       /\ DOMAIN LiveSegEvents' = Live' /\ DOMAIN LiveSegEvents = Live
  <2>1. Live' = {j \in 1..(N + k) : ~R[j].dead} /\ Live = {j \in 1..N : ~man.rows[j].dead}
    BY <1>12 DEF Live
  <2>2. LiveSegEvents' = [j \in Live' |-> R[j].ev] /\ LiveSegEvents = [j \in Live |-> man.rows[j].ev]
    BY <1>12 DEF LiveSegEvents
  <2>3. QED
    BY <1>10, <1>11, <2>1, <2>2
<1>14. Range(LiveSegEvents') = Range(LiveSegEvents) \cup Range(t)
  <2>1. \A a \in Range(LiveSegEvents) : a \in Range(LiveSegEvents')
    BY <1>13 DEF Range
  <2>2. ASSUME NEW a \in Range(t) PROVE a \in Range(LiveSegEvents')
    <3>1. PICK i \in 1..k : a = t[i]
      BY <1>7 DEF Range
    <3>2. N + i \in DOMAIN LiveSegEvents' /\ LiveSegEvents'[N + i] = a
      BY <1>13, <3>1
    <3>3. QED
      BY <3>2 DEF Range
  <2>3. ASSUME NEW j \in Live' PROVE LiveSegEvents'[j] \in Range(LiveSegEvents) \cup Range(t)
    <3>1. CASE j \in Live
      BY <1>13, <3>1 DEF Range
    <3>2. CASE \E i \in 1..k : j = N + i
      BY <1>7, <1>13, <3>2 DEF Range
    <3>3. QED
      BY <1>13, <3>1, <3>2
  <2>4. \A a \in Range(LiveSegEvents') : a \in Range(LiveSegEvents) \cup Range(t)
    BY <1>13, <2>3 DEF Range
  <2>5. QED
    BY <2>1, <2>2, <2>4
<1>15. MemRows' = <<>>
  <2>1. MemRows' = SubSeq(rec, Len(rec) + 1, Len(rec))
    BY <1>6 DEF MemRows
  <2>2. QED
    BY <1>1, <2>1, SubSeqEmpty
<1>16. Visible' = Range(LiveSegEvents) \cup Range(t)
  <2>1. Range(<<>>) = {}
    BY DEF Range
  <2>2. QED
    BY <1>14, <1>15, <2>1 DEF Visible
<1>17. ASSUME InOrder'
       PROVE  Increasing(LiveSegEvents) /\ Increasing(t) /\ \A a \in Range(LiveSegEvents), b \in Range(t) : a < b
  <2>1. \A i, j \in Live' : i < j => LiveSegEvents'[i] < LiveSegEvents'[j]
    BY <1>13, <1>17 DEF InOrder, Increasing
  <2>2. Increasing(LiveSegEvents)
    BY <1>13, <2>1 DEF Increasing
  <2>3. Increasing(t)
    <3>1. SUFFICES ASSUME NEW i \in 1..k, NEW j \in 1..k, i < j PROVE t[i] < t[j]
      BY <1>7 DEF Increasing
    <3>2. N + i < N + j
      BY <3>1
    <3>3. QED
      BY <1>13, <2>1, <3>2
  <2>4. ASSUME NEW i \in Live, NEW j \in 1..k PROVE LiveSegEvents[i] < t[j]
    <3>1. i \in 1..N /\ i < N + j
      BY <1>13
    <3>2. QED
      BY <1>13, <2>1, <3>1
  <2>5. ASSUME NEW a \in Range(LiveSegEvents), NEW b \in Range(t) PROVE a < b
    <3>1. PICK i \in Live : a = LiveSegEvents[i]
      BY <1>13 DEF Range
    <3>2. PICK j \in 1..k : b = t[j]
      BY <1>7 DEF Range
    <3>3. QED
      BY <2>4, <3>1, <3>2
  <2>6. QED
    BY <2>2, <2>3, <2>5
<1>18. ASSUME DeadAreDeleted, deleted' = deleted PROVE DeadAreDeleted'
  <2>1. \A j \in 1..(N + k) : R[j].dead => R[j].ev \in deleted
    BY <1>10, <1>11, <1>12, <1>18 DEF DeadAreDeleted
  <2>2. QED
    BY <1>12, <1>18, <2>1 DEF DeadAreDeleted
<1>19. QED
  BY <1>1, <1>6, <1>9, <1>15, <1>16, <1>17, <1>18

\* The event that was ahead is now in the log, or in the segment it was flushed to.
LEMMA IngestCommitStep ==
  ASSUME IInv, IngestCommit
  PROVE  IInv'
<1>1. /\ writer = "indexed" /\ writer' = "idle" /\ pending' = <<>> /\ log' = log \o pending
      /\ derived' = derived /\ deleted' = deleted
      /\ man' = Flushed(log') \/ man' = man
  BY DEF IngestCommit
<1>2. /\ StoreType /\ Typed(derived) /\ FilesGood(derived) /\ DeadAreDeleted
      /\ RollupAhead(derived, pending) /\ TextAhead(derived, pending)
      /\ Len(pending) = 1 /\ derived.ready /\ ~derived.stale
  BY <1>1 DEF IInv, WriterState
<1>3. PICK e \in Events : pending = <<e>>
  <2>1. pending \in Seq(Events) /\ Len(pending) = 1
    BY <1>2 DEF StoreType
  <2>2. pending[1] \in Events /\ pending = <<pending[1]>>
    BY <2>1
  <2>3. QED
    BY <2>2
<1>4. Range(pending) = {e}
  BY <1>3, OneEvent
<1>5. log \in Seq(Events) /\ man.wm \in Nat /\ man.wm <= Len(log) /\ Len(log) \in Nat
  BY <1>2, RowsShape DEF StoreType
<1>6. PICK u : u = SubSeq(log', man.wm + 1, Len(log'))
  OBVIOUS
<1>7. /\ log' \in Seq(Events) /\ Len(log') = Len(log) + 1
      /\ \A n \in man.wm..Len(log) : SubSeq(log', man.wm + 1, n) = SubSeq(log, man.wm + 1, n)
      /\ Range(u) = Range(MemRows) \cup {e}
      /\ Increasing(u) => Increasing(MemRows) /\ \A a \in Range(MemRows) : a < e
  <2>1. log' = log \o <<e>>
    BY <1>1, <1>3
  <2>2. Longer(log, log', e, man.wm, MemRows, u)
    BY <1>5, <1>6, <2>1, LongerLog DEF MemRows
  <2>3. QED
    BY <2>2 DEF Longer
<1>8. SUFFICES /\ man' \in [version : Nat, wm : Nat, rows : Seq(StoredRow)] /\ man'.wm <= Len(log')
               /\ FilesGood(derived)' /\ DeadAreDeleted'
               /\ Visible' = Range(LiveSegEvents) \cup Range(u)
               /\ InOrder' => Increasing(LiveSegEvents) /\ Increasing(u)
                                /\ \A a \in Range(LiveSegEvents), b \in Range(u) : a < b
  <2>1. StoreType'
    BY <1>1, <1>2, <1>7, <1>8 DEF StoreType
  <2>2. Typed(derived)' /\ TailIsIndexed(derived)' /\ WriterState'
    BY <1>1, <1>2 DEF Typed, TailIsIndexed, WriterState
  <2>3. Visible' = Visible \cup Range(pending)
    BY <1>4, <1>7, <1>8 DEF Visible
  <2>4. InOrder' => AheadInOrder(pending)
    BY <1>4, <1>7, <1>8 DEF AheadInOrder, InOrder, Visible
  <2>5. Range(pending') = {}
    BY <1>1 DEF Range
  <2>6. Visible' \cup Range(pending') = Visible \cup Range(pending) /\ (AheadInOrder(pending)' => AheadInOrder(pending))
    BY <2>3, <2>4, <2>5 DEF AheadInOrder
  <2>7. RollupAhead(derived, pending)'
    BY <1>1, <1>2, <2>6 DEF RollupAhead
  <2>8. TextAhead(derived, pending)'
    BY <1>1, <1>2, <2>6 DEF TextAhead, Covers
  <2>9. QED
    BY <1>8, <2>1, <2>2, <2>7, <2>8 DEF IInv
<1>9. CASE man' = Flushed(log')
  <2>1. man.wm <= Len(log')
    BY <1>5, <1>7
  <2>2. /\ man' \in [version : Nat, wm : Nat, rows : Seq(StoredRow)]
        /\ man'.version = man.version + 1 /\ man'.wm = Len(log')
        /\ MemRows' = <<>> /\ Visible' = Range(LiveSegEvents) \cup Range(u)
        /\ InOrder' => Increasing(LiveSegEvents) /\ Increasing(u)
                         /\ \A a \in Range(LiveSegEvents), b \in Range(u) : a < b
        /\ DeadAreDeleted'
    BY <1>1, <1>2, <1>6, <1>7, <1>9, <2>1, FlushedStore
  <2>3. FilesGood(derived)'
    BY <1>1, <1>2, <1>5, <1>7, <2>2, NewVersion
  <2>4. QED
    BY <1>5, <1>7, <2>2, <2>3
<1>10. CASE man' = man
  <2>1. /\ man' \in [version : Nat, wm : Nat, rows : Seq(StoredRow)] /\ man'.wm <= Len(log')
        /\ DeadAreDeleted'
    BY <1>1, <1>2, <1>5, <1>7, <1>10 DEF StoreType, DeadAreDeleted
  <2>2. Live' = Live /\ LiveSegEvents' = LiveSegEvents /\ Stamp' = Stamp /\ MemRows' = u
    BY <1>6, <1>10 DEF Live, LiveSegEvents, Stamp, MemRows
  <2>3. \A n \in man.wm..Len(log) : TailTo(n)' = TailTo(n)
    BY <1>7, <1>10 DEF TailTo
  <2>4. RollupFileGood(derived)'
    <3>1. SUFFICES ASSUME derived.rollupFile.stamp = Stamp
                   PROVE  \E n \in man.wm..Len(log') : RollupReads(derived.rollupFile.rows, n)'
      BY <1>1, <1>10, <2>2 DEF RollupFileGood
    <3>2. PICK n \in man.wm..Len(log) : RollupReads(derived.rollupFile.rows, n)
      BY <1>2, <3>1 DEF FilesGood, RollupFileGood
    <3>3. n \in man.wm..Len(log')
      BY <1>5, <1>7
    <3>4. VisibleTo(n)' = VisibleTo(n) /\ (InOrderTo(n)' <=> InOrderTo(n))
      BY <2>2, <2>3 DEF VisibleTo, InOrderTo
    <3>5. RollupReads(derived.rollupFile.rows, n)'
      BY <1>1, <3>2, <3>4 DEF RollupReads
    <3>6. QED
      BY <3>3, <3>5
  <2>5. ScanFileGood(derived)'
    BY <1>1, <1>2, <2>2 DEF FilesGood, ScanFileGood, Covers
  <2>6. StampsOld(derived)'
    BY <1>1, <1>2, <1>10 DEF FilesGood, StampsOld
  <2>7. QED
    BY <2>1, <2>2, <2>4, <2>5, <2>6 DEF FilesGood, Visible, InOrder
<1>11. QED
  BY <1>1, <1>9, <1>10

LEMMA FlushStep ==
  ASSUME IInv, Flush
  PROVE  IInv'
<1>1. /\ writer = "idle" /\ writer' = "flushed" /\ UNCHANGED <<log, derived, pending, deleted>>
      /\ man' = Flushed(log) \/ man' = man
  BY DEF Flush
<1>2. /\ StoreType /\ Typed(derived) /\ FilesGood(derived) /\ TailIsIndexed(derived) /\ DeadAreDeleted
      /\ pending = <<>> /\ RollupAhead(derived, pending) /\ TextAhead(derived, pending)
  BY <1>1, AtRest DEF IInv
<1>3. pending' \in Seq(Events) /\ WriterState'
  BY <1>1, <1>2 DEF WriterState
<1>4. CASE man' = man
  BY <1>1, <1>2, <1>3, <1>4, QuietStep
<1>5. CASE man' = Flushed(log)
  <2>1. log \in Seq(Events) /\ man.wm <= Len(log) /\ Len(log) \in Nat /\ log' = log
    BY <1>1, <1>2, RowsShape DEF StoreType
  <2>2. PICK t : t = MemRows
    OBVIOUS
  <2>3. /\ man' \in [version : Nat, wm : Nat, rows : Seq(StoredRow)]
        /\ man'.version = man.version + 1 /\ man'.wm = Len(log)
        /\ Visible' = Range(LiveSegEvents) \cup Range(t)
        /\ InOrder' => Increasing(LiveSegEvents) /\ Increasing(t)
                         /\ \A a \in Range(LiveSegEvents), b \in Range(t) : a < b
        /\ DeadAreDeleted'
    BY <1>1, <1>2, <1>5, <2>1, <2>2, FlushedStore DEF MemRows
  <2>4. Visible' = Visible /\ (InOrder' => InOrder)
    BY <2>2, <2>3 DEF Visible, InOrder
  <2>5. StoreType' /\ Typed(derived)' /\ TailIsIndexed(derived)'
    BY <1>1, <1>2, <1>3, <2>1, <2>3 DEF StoreType, Typed, TailIsIndexed
  <2>6. FilesGood(derived)'
    BY <1>1, <1>2, <2>1, <2>3, NewVersion
  <2>7. RollupAhead(derived, pending)'
    <3>1. AheadInOrder(pending)' => AheadInOrder(pending)
      BY <1>1, <2>4 DEF AheadInOrder
    <3>2. QED
      BY <1>1, <1>2, <2>4, <3>1 DEF RollupAhead
  <2>8. TextAhead(derived, pending)'
    BY <1>1, <1>2, <2>4 DEF TextAhead, Covers
  <2>9. QED
    BY <1>3, <2>3, <2>5, <2>6, <2>7, <2>8 DEF IInv
<1>6. QED
  BY <1>1, <1>4, <1>5

\* A manifest with fewer live rows, before the read models are rebuilt: no sidecar is
\* of it, and the text index covers what is left.
LEMMA FewerRows ==
  ASSUME IInv, writer = "idle", UNCHANGED <<log, derived, pending>>, writer' \in {"deleted", "compacted"},
         man' \in [version : Nat, wm : Nat, rows : Seq(StoredRow)],
         man'.version = man.version + 1, man'.wm = man.wm,
         deleted \subseteq deleted', deleted' \subseteq Events, DeadAreDeleted',
         Range(LiveSegEvents') \subseteq Range(LiveSegEvents)
  PROVE  IInv'
<1>1. /\ StoreType /\ Typed(derived) /\ FilesGood(derived) /\ TailIsIndexed(derived)
      /\ pending = <<>> /\ TextGood(derived)
  BY AtRest
<1>2. StoreType' /\ Typed(derived)' /\ TailIsIndexed(derived)' /\ WriterState'
  BY <1>1 DEF StoreType, Typed, TailIsIndexed, WriterState
<1>3. FilesGood(derived)'
  <2>1. man'.wm \in Nat
    BY <1>1, RowsShape
  <2>2. QED
    BY <1>1, <2>1, NewVersion
<1>4. TextAhead(derived, pending)'
  <2>1. MemRows' = MemRows
    BY DEF MemRows
  <2>2. Visible' \subseteq Visible
    BY <2>1 DEF Visible
  <2>3. Range(pending') = {}
    BY <1>1 DEF Range
  <2>4. QED
    BY <1>1, <2>2, <2>3 DEF TextAhead, TextGood, Covers
<1>5. QED
  BY <1>2, <1>3, <1>4 DEF IInv

LEMMA CommitDeletionStep ==
  ASSUME IInv, NEW gone, gone \subseteq Live, CommitDeletion(gone)
  PROVE  IInv'
<1>1. PICK R : R = [k \in DOMAIN man.rows |-> [man.rows[k] EXCEPT !.dead = @ \/ k \in gone]]
  OBVIOUS
<1>2. /\ writer = "idle" /\ writer' = "deleted" /\ UNCHANGED <<log, derived, pending>>
      /\ man' = [version |-> man.version + 1, wm |-> man.wm, rows |-> R]
      /\ deleted' = deleted \cup {man.rows[k].ev : k \in gone}
  BY <1>1 DEF CommitDeletion, NextManifest
<1>3. StoreType /\ DeadAreDeleted /\ deleted \subseteq Events
  BY DEF IInv, StoreType
<1>4. /\ DOMAIN man.rows = 1..Len(man.rows) /\ Len(man.rows) \in Nat
      /\ man.version \in Nat /\ man.wm \in Nat
      /\ \A k \in DOMAIN man.rows : man.rows[k] \in StoredRow /\ man.rows[k].ev \in Events
  BY <1>3, RowsShape
<1>5. ASSUME NEW k \in DOMAIN man.rows
      PROVE  R[k] \in StoredRow /\ R[k].ev = man.rows[k].ev /\ (R[k].dead <=> man.rows[k].dead \/ k \in gone)
  BY <1>1, <1>4 DEF StoredRow
<1>6. R \in Seq(StoredRow) /\ DOMAIN R = DOMAIN man.rows
  <2>1. DOMAIN R = 1..Len(man.rows) /\ R \in [1..Len(man.rows) -> StoredRow]
    BY <1>1, <1>4, <1>5
  <2> HIDE DEF StoredRow
  <2>2. QED
    BY <1>4, <2>1
<1>7. man'.rows = R /\ man'.version = man.version + 1 /\ man'.wm = man.wm
      /\ man' \in [version : Nat, wm : Nat, rows : Seq(StoredRow)]
  BY <1>2, <1>4, <1>6
<1>8. deleted \subseteq deleted' /\ deleted' \subseteq Events
  BY <1>2, <1>3, <1>4 DEF Live
<1>9. DeadAreDeleted'
  BY <1>2, <1>3, <1>5, <1>6, <1>7 DEF DeadAreDeleted
<1>10. Range(LiveSegEvents') \subseteq Range(LiveSegEvents)
  <2>1. ASSUME NEW k \in Live' PROVE k \in Live /\ LiveSegEvents'[k] = LiveSegEvents[k]
    <3>1. k \in DOMAIN man.rows /\ ~R[k].dead
      BY <1>6, <1>7 DEF Live
    <3>2. k \in Live
      BY <1>5, <3>1 DEF Live
    <3>3. QED
      BY <1>5, <1>7, <3>1, <3>2 DEF LiveSegEvents
  <2>2. DOMAIN LiveSegEvents' = Live' /\ DOMAIN LiveSegEvents = Live
    BY DEF LiveSegEvents
  <2>3. QED
    BY <2>1, <2>2 DEF Range
<1>11. QED
  BY <1>2, <1>7, <1>8, <1>9, <1>10, FewerRows

LEMMA DeleteStep ==
  ASSUME IInv, DeleteRow \/ DeleteSpan
  PROVE  IInv'
<1>1. PICK gone : gone \subseteq Live /\ CommitDeletion(gone)
  <2>1. CASE DeleteRow
    <3>1. PICK k \in Live : CommitDeletion({k})
      BY <2>1 DEF DeleteRow
    <3>2. QED
      BY <3>1
  <2>2. CASE DeleteSpan
    <3>1. PICK s \in Spans : CommitDeletion(OfSpan(LiveSegEvents, s))
      BY <2>2 DEF DeleteSpan
    <3>2. OfSpan(LiveSegEvents, s) \subseteq Live
      BY DEF OfSpan, LiveSegEvents
    <3>3. QED
      BY <3>1, <3>2
  <2>3. QED
    BY <2>1, <2>2
<1>2. QED
  BY <1>1, CommitDeletionStep

\* A compaction keeps live rows, and those dead ones that are not among its inputs.
LEMMA CompactStep ==
  ASSUME IInv, Compact
  PROVE  IInv'
<1>1. StoreType /\ DeadAreDeleted /\ deleted \subseteq Events
  BY DEF IInv, StoreType
<1>2. /\ man.rows \in Seq(StoredRow) /\ DOMAIN man.rows = 1..Len(man.rows) /\ Len(man.rows) \in Nat
      /\ man.version \in Nat /\ man.wm \in Nat
      /\ \A k \in DOMAIN man.rows : man.rows[k] \in StoredRow /\ man.rows[k].ev \in Events
  BY <1>1, RowsShape
<1>3. PICK inputs : man' = NextManifest(man.wm,
              Kept(man.rows, {k \in DOMAIN man.rows : man.rows[k].seg \notin inputs})
                \o [n \in DOMAIN Kept(man.rows, Live \ {k \in DOMAIN man.rows : man.rows[k].seg \notin inputs}) |->
                      [Kept(man.rows, Live \ {k \in DOMAIN man.rows : man.rows[k].seg \notin inputs})[n]
                         EXCEPT !.seg = man.version + 1]])
  BY DEF Compact
<1>4. PICK others : others = {k \in DOMAIN man.rows : man.rows[k].seg \notin inputs}
  OBVIOUS
<1>5. PICK merged : merged = Kept(man.rows, Live \ others)
  OBVIOUS
<1>6. PICK kept : kept = Kept(man.rows, others)
  OBVIOUS
<1>7. PICK M : M = [n \in DOMAIN merged |-> [merged[n] EXCEPT !.seg = man.version + 1]]
  OBVIOUS
<1>8. man' = [version |-> man.version + 1, wm |-> man.wm, rows |-> kept \o M]
  BY <1>3, <1>4, <1>5, <1>6, <1>7 DEF NextManifest
<1>9. /\ kept \in Seq(StoredRow) /\ Range(kept) = {man.rows[k] : k \in others}
      /\ merged \in Seq(StoredRow) /\ Range(merged) = {man.rows[k] : k \in Live \ others}
      /\ others \subseteq DOMAIN man.rows
  <2>1. others \subseteq DOMAIN man.rows /\ Live \ others \subseteq DOMAIN man.rows
    BY <1>4 DEF Live
  <2>2. QED
    BY <1>2, <1>5, <1>6, <2>1, KeptRange
\* every row of r is one that was there, as dead as it was
<1> DEFINE FromRows(r) == \A n \in DOMAIN r :
             \E k \in DOMAIN man.rows : r[n].ev = man.rows[k].ev /\ (r[n].dead <=> man.rows[k].dead)
<1>10. kept \in Seq(StoredRow) /\ FromRows(kept)
  BY <1>9 DEF Range
<1>11. M \in Seq(StoredRow) /\ FromRows(M)
  <2>1. PICK v \in Nat : v = man.version + 1
    BY <1>2
  <2>2. ASSUME NEW n \in DOMAIN merged
        PROVE  M[n] \in StoredRow /\ M[n].ev = merged[n].ev /\ M[n].dead = merged[n].dead
    <3>1. M[n] = [merged[n] EXCEPT !.seg = v]
      BY <1>7, <2>1
    <3>2. merged[n] \in StoredRow
      BY <1>9
    <3>3. QED
      BY <3>1, <3>2 DEF StoredRow
  <2>3. ASSUME NEW n \in DOMAIN merged PROVE \E k \in DOMAIN man.rows : merged[n] = man.rows[k]
    BY <1>9 DEF Range, Live
  <2>4. DOMAIN merged = 1..Len(merged) /\ Len(merged) \in Nat
    BY <1>9
  <2>5. DOMAIN M = 1..Len(merged) /\ M \in [1..Len(merged) -> StoredRow]
    BY <1>7, <2>2, <2>4
  <2>6. M \in Seq(StoredRow)
    <3> HIDE DEF StoredRow
    <3>1. QED
      BY <2>4, <2>5
  <2>7. QED
    BY <2>2, <2>3, <2>4, <2>5, <2>6
<1>12. kept \o M \in Seq(StoredRow) /\ FromRows(kept \o M)
  <2> HIDE DEF StoredRow
  <2>1. PICK a \in Nat, b \in Nat : a = Len(kept) /\ b = Len(M)
    BY <1>10, <1>11
  <2>2. /\ kept \o M \in Seq(StoredRow) /\ DOMAIN (kept \o M) = 1..(a + b)
        /\ \A i \in 1..(a + b) : (kept \o M)[i] = IF i <= a THEN kept[i] ELSE M[i - a]
        /\ DOMAIN kept = 1..a /\ DOMAIN M = 1..b
    BY <1>10, <1>11, <2>1, ConcatProperties
  <2>3. ASSUME NEW i \in 1..(a + b)
        PROVE  (i \in DOMAIN kept /\ (kept \o M)[i] = kept[i]) \/ (i - a \in DOMAIN M /\ (kept \o M)[i] = M[i - a])
    BY <2>2
  <2>4. QED
    BY <1>10, <1>11, <2>2, <2>3
<1>13. PICK R : R = kept \o M
  OBVIOUS
<1>14. R \in Seq(StoredRow) /\ FromRows(R) /\ man' = [version |-> man.version + 1, wm |-> man.wm, rows |-> R]
  BY <1>8, <1>12, <1>13
<1>15. /\ man'.rows = R /\ man'.version = man.version + 1 /\ man'.wm = man.wm
       /\ man' \in [version : Nat, wm : Nat, rows : Seq(StoredRow)]
  BY <1>2, <1>14
<1>16. writer = "idle" /\ writer' = "compacted" /\ UNCHANGED <<log, derived, pending, deleted>>
  BY DEF Compact
<1>17. DeadAreDeleted'
  BY <1>1, <1>14, <1>15, <1>16 DEF DeadAreDeleted
<1>18. Range(LiveSegEvents') \subseteq Range(LiveSegEvents)
  <2>1. ASSUME NEW n \in Live' PROVE LiveSegEvents'[n] \in Range(LiveSegEvents)
    <3>1. n \in DOMAIN R /\ ~R[n].dead /\ LiveSegEvents'[n] = R[n].ev
      BY <1>15 DEF Live, LiveSegEvents
    <3>2. PICK k \in DOMAIN man.rows : R[n].ev = man.rows[k].ev /\ ~man.rows[k].dead
      BY <1>14, <3>1
    <3>3. k \in DOMAIN LiveSegEvents /\ LiveSegEvents[k] = man.rows[k].ev
      BY <3>2 DEF Live, LiveSegEvents
    <3>4. QED
      BY <3>1, <3>2, <3>3 DEF Range
  <2>2. DOMAIN LiveSegEvents' = Live'
    BY DEF LiveSegEvents
  <2>3. QED
    BY <2>1, <2>2 DEF Range
<1>19. QED
  BY <1>1, <1>15, <1>16, <1>17, <1>18, FewerRows

-----------------------------------------------------------------------------
(* The theorems.                                                           *)

\* Nothing is loaded, saved or stored at first.
LEMMA InitHolds ==
  ASSUME Init
  PROVE  IInv
<1>1. log = <<>> /\ pending = <<>> /\ deleted = {} /\ writer = "idle"
      /\ man = [version |-> 0, wm |-> 0, rows |-> <<>>]
  BY DEF Init
<1>2. /\ derived.rollup = NoRows /\ ~derived.ready /\ derived.stale
      /\ derived.rollupFile.stamp = <<>> /\ derived.scanFile.stamp = <<>>
      /\ Typed(derived)
  <2>1. derived = [rollup |-> NoRows, ready |-> FALSE, docs |-> {}, seen |-> {}, stale |-> TRUE,
                   sessions |-> EmptySessions, dirty |-> TRUE, tainted |-> FALSE,
                   rollupFile |-> [stamp |-> <<>>, rows |-> NoRows],
                   scanFile |-> [stamp |-> <<>>, docs |-> {}, seen |-> {}]]
    BY DEF Init
  <2>2. <<>> \in Stamps
    BY DEF Stamps
  <2>3. QED
    BY <2>1, <2>2, NoRowsType DEF Typed, Derived
<1>3. StoreType
  BY <1>1 DEF StoreType
<1>4. \A v, w : <<>> # <<v, w>>
  OBVIOUS
<1>5. FilesGood(derived)
  BY <1>2, <1>4 DEF FilesGood, RollupFileGood, ScanFileGood, StampsOld, Stamp
<1>6. DeadAreDeleted /\ TailIsIndexed(derived) /\ WriterState
  BY <1>1 DEF DeadAreDeleted, TailIsIndexed, WriterState
<1>7. RollupAhead(derived, pending) /\ TextAhead(derived, pending)
  BY <1>2 DEF RollupAhead, TextAhead
<1>8. QED
  BY <1>2, <1>3, <1>5, <1>6, <1>7 DEF IInv

\* What ensures, indexes, saves and rebuilds keeps the invariant at every step.
THEOREM Invariance == Spec => []IInv
<1>1. Init => IInv
  BY InitHolds
<1>2. IInv /\ [Next]_vars => IInv'
  <2>1. SUFFICES ASSUME IInv, [Next]_vars PROVE IInv'
    OBVIOUS
  <2>2. CASE IngestIndex
    BY <2>1, <2>2, IngestIndexStep
  <2>3. CASE IngestCommit
    BY <2>1, <2>3, IngestCommitStep
  <2>4. CASE Flush
    BY <2>1, <2>4, FlushStep
  <2>5. CASE FlushPersist
    BY <2>1, <2>5, FlushPersistStep
  <2>6. CASE DeleteRow \/ DeleteSpan
    BY <2>1, <2>6, DeleteStep
  <2>7. CASE DeleteRebuild
    BY <2>1, <2>7, DeleteRebuildStep
  <2>8. CASE Compact
    BY <2>1, <2>8, CompactStep
  <2>9. CASE CompactRebuild
    BY <2>1, <2>9, CompactRebuildStep
  <2>10. CASE Restart
    BY <2>1, <2>10, RestartStep
  <2>11. CASE FirstRollupQuery
    BY <2>1, <2>11, FirstRollupQueryStep
  <2>12. CASE FirstSearch
    BY <2>1, <2>12, FirstSearchStep
  <2>13. CASE \E r \in Readers : ListPin(r) \/ ListLook(r) \/ ListRebuild(r)
    BY <2>1, <2>13, ListStep
  <2>14. CASE UNCHANGED vars
    <3>1. /\ log' = log /\ man' = man /\ derived' = derived /\ writer' = writer
          /\ pending' = pending /\ deleted' = deleted
      BY <2>14 DEF vars
    <3>2. pending' \in Seq(Events) /\ WriterState'
      BY <2>1, <3>1 DEF IInv, StoreType, WriterState
    <3>3. /\ Typed(derived') /\ FilesGood(derived') /\ TailIsIndexed(derived')
          /\ writer' \in {"idle", "flushed", "indexed"} => RollupAhead(derived', pending')
          /\ TextAhead(derived', pending')
      BY <2>1, <3>1 DEF IInv
    <3>4. QED
      BY <2>1, <3>1, <3>2, <3>3, QuietStep
  <2>15. QED
    BY <2>1, <2>2, <2>3, <2>4, <2>5, <2>6, <2>7, <2>8, <2>9, <2>10, <2>11, <2>12, <2>13, <2>14 DEF Next
<1>3. QED
  BY <1>1, <1>2, PTL DEF Spec

\* Between writes, a rollup that is ready has the spans of a folded read and their
\* kinds, and its very rows when the events came in order; a search whose index is
\* loaded has a document of every span with an event that was not deleted.
THEOREM IndexesAreFaithful == Spec => []IndexesFaithful
<1>1. ASSUME IInv PROVE IndexesFaithful
  <2>1. CASE writer # "idle"
    BY <2>1 DEF IndexesFaithful, RollupCovers, RollupExactInOrder, SearchCovers
  <2>2. CASE writer = "idle"
    <3>1. StoreType /\ RollupGood(derived) /\ TextGood(derived)
      BY <1>1, <2>2, AtRest
    <3>2. derived.ready => HasKinds(derived.rollup, Visible) /\ (InOrder => derived.rollup = Folded(Visible))
      BY <3>1, WholeTail DEF RollupGood, RollupReads
    <3>3. HasKinds(Folded(Visible), Visible)
      BY FoldedKinds
    <3>4. RollupCovers
      BY <3>2, <3>3 DEF RollupCovers, HasKinds
    <3>5. RollupExactInOrder
      BY <3>2 DEF RollupExactInOrder
    <3>6. SearchCovers
      BY <3>1 DEF SearchCovers, TextGood, Covers
    <3>7. QED
      BY <3>4, <3>5, <3>6 DEF IndexesFaithful
  <2>3. QED
    BY <2>1, <2>2
<1>2. QED
  BY <1>1, Invariance, PTL
=============================================================================
