------------------------------- MODULE ReadModels -------------------------------
(***************************************************************************)
(* What yt-engine derives from the stored events so that a list or a       *)
(* search needs no scan: the trace rollup, the full-text index with its    *)
(* table of event ids, and the session index of the console.  Ingest       *)
(* updates them event by event; deletes and compactions rebuild them;      *)
(* sidecar files, stamped with the manifest version and the watermark,     *)
(* save them; a restart drops them, and the first use loads or rebuilds.   *)
(*                                                                         *)
(* One process, and snapshots are what module SnapshotPin shows them to    *)
(* be: the events visible when they are pinned.  An event is an index into *)
(* Script; its index is its seq, and it has text.  The id of a segment is  *)
(* the version that added it, which orders segments as the code's ids do.  *)
(* Left out: the attribute index, kept and saved like the rollup; segment  *)
(* Bloom filters; patches, whose commit rebuilds what a delete's does; and *)
(* rows that stay in the MemTable for an older snapshot (module Engine).   *)
(***************************************************************************)
EXTENDS Naturals, Sequences, FiniteSets, SequencesExt

CONSTANTS Script,          \* the events: [span, kind, sess, tok], tok = 0 when absent
          Spans, Sessions, None,
          Readers,         \* threads that list sessions
          FlushThreshold,  \* rows in the MemTable that make ingest flush
          MaxRows,         \* bound: records ever ingested
          MaxVersion       \* bound: manifest versions

Kinds == {"start", "end", "attr"}
Events == DOMAIN Script

ASSUME ScriptOfEvents ==
  /\ Script \in Seq([span : Spans, kind : Kinds, sess : Sessions \cup {None}, tok : Nat])
  /\ None \notin Sessions
ASSUME ReadModelBounds ==
  MaxRows \in Nat /\ MaxVersion \in Nat \ {0} /\ FlushThreshold \in Nat \ {0}

VARIABLES log,      \* the WAL: every record acknowledged, in LSN order
          man,      \* the manifest: version, watermark, rows of its segments
          derived,  \* the read models in memory and their sidecar files
          writer,   \* what the holder of write_lock is doing
          pending,  \* what ingest has indexed and not yet logged
          list,     \* list[r]: reader r in console_sessions, with its snapshot
          deleted   \* history: events some delete has hit
vars == <<log, man, derived, writer, pending, list, deleted>>
-----------------------------------------------------------------------------
(* A row per span: its session, its tokens and the kinds of event it has    *)
(* seen.  The rollup, the session index and a folded read share the shape.  *)
Blank == [sess |-> None, tok |-> 0, kinds |-> {}]
NoRows == [s \in Spans |-> Blank]

(* What the events do to the row of span s, in the order of their positions: *)
(* for session and tokens the last non-null wins.  The events are a sequence, *)
(* or the part of one that is a function on some of its positions.            *)
OfSpan(events, s) == {i \in DOMAIN events : Script[events[i]].span = s}
WithSess(events, s) == {i \in OfSpan(events, s) : Script[events[i]].sess # None}
WithTok(events, s) == {i \in OfSpan(events, s) : Script[events[i]].tok # 0}

ApplyFields(row, events, s) ==
  [sess  |-> IF WithSess(events, s) = {} THEN row.sess
             ELSE Script[events[Max(WithSess(events, s))]].sess,
   tok   |-> IF WithTok(events, s) = {} THEN row.tok
             ELSE Script[events[Max(WithTok(events, s))]].tok,
   kinds |-> row.kinds \cup {Script[events[i]].kind : i \in OfSpan(events, s)}]

ApplyAll(rows, events) == [s \in Spans |-> ApplyFields(rows[s], events, s)]

(* What a folded read returns: each event once, in the order of seq. *)
Folded(events) == ApplyAll(NoRows, [e \in events |-> e])

MemRows == SubSeq(log, man.wm + 1, Len(log))
Live == {k \in DOMAIN man.rows : ~man.rows[k].dead}
SegEvents == [k \in DOMAIN man.rows |-> man.rows[k].ev]
LiveSegEvents == [k \in Live |-> man.rows[k].ev]
Visible == Range(LiveSegEvents) \cup Range(MemRows)
HasDeletions == Live # DOMAIN man.rows

Increasing(events) == \A i, j \in DOMAIN events : i < j => events[i] < events[j]
InOrder ==
  /\ Increasing(LiveSegEvents) /\ Increasing(MemRows)
  /\ \A e \in Range(LiveSegEvents), f \in Range(MemRows) : e < f
-----------------------------------------------------------------------------
(* SessionIndex *)
Minus(a, b) == IF a > b THEN a - b ELSE 0
Running(row) == IF "start" \in row.kinds /\ "end" \notin row.kinds THEN 1 ELSE 0
NoSessions == [s \in Sessions |-> [listed |-> FALSE, tok |-> 0, running |-> 0]]
EmptySessions == [span |-> NoRows, sess |-> NoSessions]

AddTo(sess, row) ==
  IF row.sess = None THEN sess
  ELSE [sess EXCEPT ![row.sess] =
          [listed |-> TRUE, tok |-> @.tok + row.tok, running |-> @.running + Running(row)]]

SubFrom(sess, row) ==
  IF row.sess = None THEN sess
  ELSE [sess EXCEPT ![row.sess].tok = Minus(@, row.tok),
                    ![row.sess].running = Minus(@, Running(row))]

MutMoveKeepsOld(x, s, new) == [x EXCEPT !.span[s] = new, !.sess = AddTo(@, new)]

(* The difference between the span's old row and its new one. *)
ApplySpan(x, s, new) ==
  LET old == x.span[s] IN
  [x EXCEPT !.span[s] = new,
            !.sess = IF old.sess # new.sess THEN AddTo(SubFrom(@, old), new)
                     ELSE IF new.sess = None THEN @
                     ELSE [@ EXCEPT ![new.sess] =
                             [listed  |-> TRUE,
                              tok     |-> Minus(@.tok + new.tok, old.tok),
                              running |-> Minus(@.running + Running(new), Running(old))]]]

(* From folded spans, after a delete. *)
RebuildSessions(x, rows) ==
  [x EXCEPT !.sessions = [span |-> rows,
                          sess |-> FoldLeft(LAMBDA sess, s : AddTo(sess, rows[s]), NoSessions, SetToSeq(Spans))],
            !.dirty = FALSE]
-----------------------------------------------------------------------------
(* An event enters the full-text index once per event id; then the session  *)
(* index takes the new row of its span.                                     *)
IndexSession(x, e) ==
  LET s == Script[e].span IN ApplySpan(x, s, ApplyFields(x.span[s], <<e>>, s))

IndexSessions(x, events) == FoldLeft(IndexSession, x, events)

IndexScan(x, events) ==
  [x EXCEPT !.docs = @ \cup {Script[e].span : e \in Range(events) \ x.seen},
            !.seen = @ \cup Range(events),
            !.sessions = IndexSessions(@, events)]

IndexRecords(x, events) ==
  [IndexScan(x, events) EXCEPT !.rollup = ApplyAll(@, events)]

(* Sidecars carry the manifest they were saved under, and are used for no   *)
(* other; a manifest with deletions uses none.                              *)
Stamp == <<man.version, man.wm>>

MutLoadableByWatermark(file) == ~HasDeletions /\ file.stamp # <<>> /\ file.stamp[2] = man.wm

Loadable(file) == ~HasDeletions /\ file.stamp = Stamp

PersistRollup(x) ==
  IF x.ready THEN [x EXCEPT !.rollupFile = [stamp |-> Stamp, rows |-> x.rollup]] ELSE x

MutPersistUnloaded(x) ==
  [x EXCEPT !.scanFile = [stamp |-> Stamp, docs |-> x.docs, seen |-> x.seen]]

PersistScan(x) ==
  IF x.stale THEN x
  ELSE [x EXCEPT !.scanFile = [stamp |-> Stamp, docs |-> x.docs, seen |-> x.seen]]

PersistSidecars(x) == PersistScan(PersistRollup(x))

MutRebuildKeepsDeleted(x, mem) ==
  [x EXCEPT !.rollup = ApplyAll(ApplyAll(NoRows, SegEvents), mem), !.ready = TRUE]

(* From the live rows of the segments and the rows of the MemTable. *)
RebuildRollup(x, mem) ==
  [x EXCEPT !.rollup = ApplyAll(ApplyAll(NoRows, LiveSegEvents), mem), !.ready = TRUE]

EnsureRollup(x, mem) ==
  IF x.ready THEN x
  ELSE IF Loadable(x.rollupFile)
  THEN [x EXCEPT !.rollup = x.rollupFile.rows, !.ready = TRUE]
  ELSE PersistRollup(RebuildRollup(x, mem))

(* The scan indexes every row of every segment, deleted ones too, into an   *)
(* empty full-text index and an empty, clean session index.                 *)
RebuildScan(x, mem) ==
  IndexScan([x EXCEPT !.docs = {}, !.seen = {}, !.sessions = EmptySessions,
                      !.dirty = FALSE, !.stale = FALSE,
                      !.tainted = HasDeletions \/ ~InOrder],
            SegEvents \o mem)

EnsureScan(x, mem) ==
  IF ~x.stale THEN x
  ELSE IF Loadable(x.scanFile)
  THEN [x EXCEPT !.docs = x.scanFile.docs, !.seen = x.scanFile.seen, !.stale = FALSE]
  ELSE PersistScan(RebuildScan(x, mem))

EnsureAll(x, mem) == EnsureScan(EnsureRollup(x, mem), mem)

(* From folded spans; the ids of deleted events stay known. *)
RebuildText(x) ==
  [x EXCEPT !.docs = {Script[e].span : e \in Visible},
            !.seen = Range(SegEvents) \cup Range(MemRows),
            !.stale = FALSE]

(* After a restart or a refresh nothing is loaded, and the session list is  *)
(* to be rebuilt from a folded read.                                        *)
Cleared(x) ==
  [x EXCEPT !.rollup = NoRows, !.ready = FALSE, !.docs = {}, !.seen = {}, !.stale = TRUE,
            !.sessions = EmptySessions, !.dirty = TRUE, !.tainted = FALSE]
-----------------------------------------------------------------------------
Outside == [pc |-> "idle", vis |-> {}]

Init ==
  /\ log = <<>>
  /\ man = [version |-> 0, wm |-> 0, rows |-> <<>>]
  /\ derived = [rollup |-> NoRows, ready |-> FALSE, docs |-> {}, seen |-> {}, stale |-> TRUE,
                sessions |-> EmptySessions, dirty |-> TRUE, tainted |-> FALSE,
                rollupFile |-> [stamp |-> <<>>, rows |-> NoRows],
                scanFile |-> [stamp |-> <<>>, docs |-> {}, seen |-> {}]]
  /\ writer = "idle"
  /\ pending = <<>>
  /\ list = [r \in Readers |-> Outside]
  /\ deleted = {}

Commits == man.version < MaxVersion

NextManifest(wm, rows) == [version |-> man.version + 1, wm |-> wm, rows |-> rows]

(* The rows of a new segment, whose id is the version that adds it, come    *)
(* after those of all others.                                               *)
Flushed(records) ==
  NextManifest(Len(records),
               man.rows \o [i \in 1..(Len(records) - man.wm) |->
                  [ev |-> records[man.wm + i], dead |-> FALSE, seg |-> man.version + 1]])

(* New events come in order; any earlier one may come again (an SDK retry). *)
Offered == {e \in Events : \A f \in 1..(e - 1) : f \in Range(log)}

(* ingest, up to the log: load what is not loaded, then index.  Readers see *)
(* the indexes before the event is in the log.                              *)
IngestIndex ==
  /\ writer = "idle"
  /\ Len(log) < MaxRows
  /\ Len(MemRows) + 1 >= FlushThreshold => Commits
  /\ \E e \in Offered :
       /\ derived' = IndexRecords(EnsureAll(derived, MemRows), <<e>>)
       /\ pending' = <<e>>
  /\ writer' = "indexed"
  /\ UNCHANGED <<log, man, list, deleted>>

(* ... and from the log on: at the threshold the MemTable becomes a segment, *)
(* and no sidecar is saved.                                                  *)
IngestCommit ==
  /\ writer = "indexed"
  /\ log' = log \o pending
  /\ man' = IF Len(MemRows) + 1 >= FlushThreshold THEN Flushed(log') ELSE man
  /\ writer' = "idle"
  /\ pending' = <<>>
  /\ UNCHANGED <<derived, list, deleted>>

(* An empty MemTable makes no segment; the sidecars are saved all the same. *)
Flush ==
  /\ writer = "idle"
  /\ \/ MemRows = <<>> /\ UNCHANGED man
     \/ MemRows # <<>> /\ Commits /\ man' = Flushed(log)
  /\ writer' = "flushed"
  /\ UNCHANGED <<log, derived, pending, list, deleted>>

FlushPersist ==
  /\ writer = "flushed"
  /\ derived' = PersistSidecars(derived)
  /\ writer' = "idle"
  /\ UNCHANGED <<log, man, pending, list, deleted>>

(* The rows in gone get their bit in the deletion vectors. *)
CommitDeletion(gone) ==
  /\ writer = "idle" /\ Commits
  /\ man' = NextManifest(man.wm, [k \in DOMAIN man.rows |->
                                   [man.rows[k] EXCEPT !.dead = @ \/ k \in gone]])
  /\ deleted' = deleted \cup {man.rows[k].ev : k \in gone}
  /\ writer' = "deleted"
  /\ UNCHANGED <<log, derived, pending, list>>

DeleteRow == \E k \in Live : CommitDeletion({k})

(* Retention deletes the rows of a trace, here of one span, unless it has   *)
(* some in the MemTable.                                                    *)
DeleteSpan ==
  \E s \in Spans :
    /\ OfSpan(LiveSegEvents, s) # {} /\ OfSpan(MemRows, s) = {}
    /\ CommitDeletion(OfSpan(LiveSegEvents, s))

MutDeleteNotMarked ==
  /\ writer = "deleted"
  /\ derived' = PersistSidecars(RebuildText(RebuildRollup(derived, MemRows)))
  /\ writer' = "idle"
  /\ UNCHANGED <<log, man, pending, list, deleted>>

DeleteRebuild ==
  /\ writer = "deleted"
  /\ derived' = PersistSidecars(RebuildText(RebuildRollup([derived EXCEPT !.dirty = TRUE], MemRows)))
  /\ writer' = "idle"
  /\ UNCHANGED <<log, man, pending, list, deleted>>

(* The rows at the positions in S, in their order. *)
Nth(S, n) == CHOOSE k \in S : Cardinality({j \in S : j <= k}) = n
Kept(rows, S) == [n \in 1..Cardinality(S) |-> rows[Nth(S, n)]]

(* compaction_finish: the live rows of the inputs, in one new segment. *)
Compact ==
  /\ writer = "idle" /\ Commits
  /\ \E inputs \in SUBSET {row.seg : row \in Range(man.rows)} \ {{}} :
       LET others == {k \in DOMAIN man.rows : man.rows[k].seg \notin inputs}
           merged == Kept(man.rows, Live \ others) IN
       man' = NextManifest(man.wm, Kept(man.rows, others)
                \o [n \in DOMAIN merged |-> [merged[n] EXCEPT !.seg = man.version + 1]])
  /\ writer' = "compacted"
  /\ UNCHANGED <<log, derived, pending, list, deleted>>

CompactRebuild ==
  /\ writer = "compacted"
  /\ derived' = PersistSidecars(RebuildRollup(derived, MemRows))
  /\ writer' = "idle"
  /\ UNCHANGED <<log, man, pending, list, deleted>>

(* The process dies at any point and recovers.  Only a log with a tail loads *)
(* the read models, before the tail is replayed onto them.                   *)
Restart ==
  /\ derived' = LET x == Cleared(derived) IN
                IF MemRows = <<>> THEN x
                ELSE IndexRecords(EnsureAll(x, <<>>), MemRows)
  /\ writer' = "idle"
  /\ pending' = <<>>
  /\ list' = [r \in Readers |-> Outside]
  /\ UNCHANGED <<log, man, deleted>>

(* A query finds the rollup not ready, takes the locks and loads it. *)
FirstRollupQuery ==
  /\ writer = "idle" /\ ~derived.ready
  /\ derived' = EnsureRollup(derived, MemRows)
  /\ UNCHANGED <<log, man, writer, pending, list, deleted>>

FirstSearch ==
  /\ writer = "idle" /\ derived.stale
  /\ derived' = EnsureScan(derived, MemRows)
  /\ UNCHANGED <<log, man, writer, pending, list, deleted>>

(* console_sessions: the caller pins a snapshot; the flag is read; when it   *)
(* is set the snapshot is folded without the index's lock, and then the      *)
(* index is rebuilt from that fold unless another reader has done so.        *)
ListPin(r) ==
  /\ list[r].pc = "idle"
  /\ list' = [list EXCEPT ![r] = [pc |-> "pinned", vis |-> Visible]]
  /\ UNCHANGED <<log, man, derived, writer, pending, deleted>>

ListLook(r) ==
  /\ list[r].pc = "pinned"
  /\ list' = [list EXCEPT ![r] = IF derived.dirty THEN [@ EXCEPT !.pc = "folded"] ELSE Outside]
  /\ UNCHANGED <<log, man, derived, writer, pending, deleted>>

ListRebuild(r) ==
  /\ list[r].pc = "folded"
  /\ list' = [list EXCEPT ![r] = Outside]
  /\ derived' = IF derived.dirty
                THEN [RebuildSessions(derived, Folded(list[r].vis)) EXCEPT
                        !.tainted = list[r].vis # Visible \/ writer = "indexed"]
                ELSE derived
  /\ UNCHANGED <<log, man, writer, pending, deleted>>

Next ==
  \/ IngestIndex \/ IngestCommit
  \/ Flush \/ FlushPersist
  \/ DeleteRow \/ DeleteSpan \/ DeleteRebuild
  \/ Compact \/ CompactRebuild
  \/ Restart
  \/ FirstRollupQuery \/ FirstSearch
  \/ \E r \in Readers : ListPin(r) \/ ListLook(r) \/ ListRebuild(r)

Spec == Init /\ [][Next]_vars
-----------------------------------------------------------------------------
Row == [sess : Sessions \cup {None}, tok : Nat, kinds : SUBSET Kinds]
SegRow == [ev : Events, dead : BOOLEAN, seg : 1..MaxVersion]

(* Types, and the watermark is inside the log. *)
TypeOK ==
  /\ log \in Seq(Events) /\ Len(log) <= MaxRows
  /\ man.version \in 0..MaxVersion /\ man.wm \in 0..Len(log)
  /\ man.rows \in Seq(SegRow)
  /\ derived.rollup \in [Spans -> Row] /\ derived.sessions.span \in [Spans -> Row]
  /\ derived.sessions.sess \in [Sessions -> [listed : BOOLEAN, tok : Nat, running : Nat]]
  /\ derived.docs \subseteq Spans /\ derived.seen \subseteq Events
  /\ {derived.ready, derived.stale, derived.dirty, derived.tainted} \subseteq BOOLEAN
  /\ derived.rollupFile.rows \in [Spans -> Row]
  /\ derived.scanFile.docs \subseteq Spans /\ derived.scanFile.seen \subseteq Events
  /\ writer \in {"idle", "indexed", "flushed", "deleted", "compacted"}
  /\ pending \in Seq(Events) /\ Len(pending) = IF writer = "indexed" THEN 1 ELSE 0
  /\ \A r \in Readers : list[r].pc \in {"idle", "pinned", "folded"} /\ list[r].vis \subseteq Events
  /\ deleted \subseteq Events

(* Between writes, a rollup that is ready has the spans a folded read would  *)
(* return and no other, each with the kinds of event it has: after every     *)
(* delete, compaction, crash in the middle of one, and whichever sidecar was *)
(* found (ensure_trace_rollup_current, commit_delete, compaction_finish).    *)
RollupCovers ==
  writer = "idle" /\ derived.ready =>
    \A s \in Spans : derived.rollup[s].kinds = Folded(Visible)[s].kinds

(* ... and its values are those of the folded read, as long as the segments  *)
(* and the log hold each event once and in the order of seq.                 *)
RollupExactInOrder ==
  writer = "idle" /\ derived.ready /\ InOrder => derived.rollup = Folded(Visible)

(* Between writes a search that finds its index loaded can find every span   *)
(* that has an event no delete has hit: no document is lost to a sidecar of  *)
(* another manifest, to an index saved before it was loaded, or to a tail    *)
(* replayed before the history (ensure_segment_scan_indexes_current).        *)
SearchCovers ==
  writer = "idle" /\ ~derived.stale =>
    {Script[e].span : e \in Visible \ deleted} \subseteq derived.docs

(* The totals kept by differences are the sums over the spans, through spans *)
(* that move to another session, end, or have their tokens overwritten, and  *)
(* no saturating subtraction ever hides an excess (SessionIndex).            *)
SessionTotals ==
  \A s \in Sessions :
    LET rows == derived.sessions.span
        total == derived.sessions.sess[s]
        of == {p \in Spans : rows[p].sess = s} IN
    /\ of # {} => total.listed
    /\ total.tok = FoldLeft(LAMBDA n, p : n + rows[p].tok, 0, SetToSeq(of))
    /\ total.running = Cardinality({p \in of : Running(rows[p]) = 1})

(* Unless it is marked dirty, the session index has the rows of a folded     *)
(* read.  Two things excepted (the history field tainted): it was rebuilt    *)
(* from a snapshot that was out of date, or by a scan of segments that had   *)
(* deleted or repeated rows.                                                 *)
SessionsExactUnlessTainted ==
  writer = "idle" /\ ~derived.dirty /\ ~derived.tainted /\ InOrder =>
    derived.sessions.span = Folded(Visible)

(* What rollups and searches answer is what the rows say, through deletions,  *)
(* restarts and the sidecar files of other manifests.                         *)
IndexesFaithful == RollupCovers /\ RollupExactInOrder /\ SearchCovers

(* The sessions add up; not marked dirty, they are those of the rows but for  *)
(* the two exceptions above (SessionIndex, index_record_inner).               *)
SessionsFaithful == SessionTotals /\ SessionsExactUnlessTainted

=============================================================================
