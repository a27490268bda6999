--------------------------------- MODULE Sidecars ---------------------------------
(***************************************************************************)
(* The filter sidecar and the trace rollup at work: records applied one by *)
(* one as they are ingested, rebuilds after deletes, patches and           *)
(* compactions, files saved one after the other and stamped with the       *)
(* manifest version and the watermark, crashes in between, a log replayed  *)
(* onto what was loaded, and queries in every state.                       *)
(*                                                                         *)
(* The first acked records of Script are in the log; the first wm of them  *)
(* are in segments, the next up to top in the MemTable (all of them, but   *)
(* while the log is replayed).  The stamp of a saved file does not tell    *)
(* whether MemTable rows are in it: a rebuild after a compaction puts them *)
(* there, and a restart that finds the stamp right replays them once more. *)
(* applied, in the rollup and in its file, is a ghost: the records that    *)
(* made it what it is.                                                     *)
(***************************************************************************)
EXTENDS RollupIndex

CONSTANTS Script,       \* the records clients may send: [key, ts, kind, vals]
          FlushThreshold,
          Filters,      \* what searches filter by: [trace, want, from, to]
          Searches,     \* bound: those of them whose traces in the cache are followed
          RollupQueries, \* <<query, attrs>> of trace and aggregate queries
          SessionQueries, \* those of session lists
          MaxVersion    \* bound: manifest versions

VARIABLES acked, dead, marks, wm, top, version, \* the store: what both sidecars derive from
          filter, rollup,                     \* FilterAttrsIndex, TraceAggregateRollupIndex
          ready,                              \* ReadModelLoadState
          files,                              \* filter_attrs.dat, trace_rollup.dat
          saving,                             \* sidecars the write in progress has yet to save
          applied

store == <<acked, dead, marks, wm, top, version>>
vars == <<store, filter, rollup, ready, files, saving, applied>>

Stamp == <<version, wm>>
Replaying == top < acked

\* Live rows of segments and MemTable, in the order of arrival.
Alive(gone) == SelectSeq([i \in 1..top |-> i], LAMBDA i : i \notin gone)
Recs(at) == [i \in DOMAIN at |-> Script[at[i]]]

Init ==
  /\ acked = 0 /\ dead = {} /\ marks = {} /\ wm = 0 /\ top = 0 /\ version = 0
  /\ filter = EmptyFilter /\ rollup = EmptyRollup
  /\ ready = {} /\ saving = <<>> /\ applied = <<>>
  /\ files = [filter |-> {}, rollup |-> {}]

-----------------------------------------------------------------------------
(* Saving and loading.                                                     *)

\* persist_read_model_sidecars saves one file after the other.
SaveRollup ==
  /\ saving # <<>> /\ Head(saving) = "rollup"
  /\ files' = IF "rollup" \in ready
              THEN [files EXCEPT !.rollup = {[x \in {"applied"} |-> applied] @@ SavedRollup(rollup, Stamp)}] ELSE files
  /\ saving' = Tail(saving)
  /\ UNCHANGED <<store, filter, rollup, ready, applied>>

SaveFilter ==
  /\ saving # <<>> /\ Head(saving) = "filter"
  /\ \E order \in SetToSeqs(DOMAIN filter.rows) :
       files' = IF "filter" \in ready
                THEN [files EXCEPT !.filter = {SavedFilter(filter, Stamp, order)}] ELSE files
  /\ saving' = Tail(saving)
  /\ UNCHANGED <<store, filter, rollup, ready, applied>>

\* derived_dirty: segments with deletions or patches are never served from a file.
Loadable(found) == IF marks = {} THEN found ELSE {}

\* ensure_trace_rollup_current_locked.
EnsureRollup ==
  /\ saving = <<>> /\ "rollup" \notin ready
  /\ LET found == Loadable(OpenedRollup(files.rollup, Stamp)) IN
     /\ rollup' = IF found = {} THEN RollupFrom(Recs(Alive(dead))) ELSE [EmptyRollup EXCEPT !.disk = found]
     /\ saving' = IF found = {} THEN <<"rollup">> ELSE <<>>
     /\ applied' = IF found = {} THEN Alive(dead) ELSE (CHOOSE d \in found : TRUE).applied
  /\ ready' = ready \cup {"rollup"}
  /\ UNCHANGED <<store, filter, files>>

\* ensure_filter_attrs_current_locked.
EnsureFilter ==
  /\ saving = <<>> /\ "filter" \notin ready
  /\ LET found == Loadable(OpenedFilter(files.filter, Stamp)) IN
     /\ filter' = IF found = {} THEN FilterFrom(Recs(Alive(dead))) ELSE [EmptyFilter EXCEPT !.disk = found]
     /\ saving' = IF found = {} THEN <<"filter">> ELSE <<>>
  /\ ready' = ready \cup {"filter"}
  /\ UNCHANGED <<store, rollup, files, applied>>

-----------------------------------------------------------------------------
(* Writing.                                                                *)

Both == {"rollup", "filter"}
CanWrite == saving = <<>> /\ ~Replaying
CanCommit == version < MaxVersion

\* index_record on both sidecars, record after record.
Index(at) ==
  /\ rollup' = FoldLeft(RollupApply, rollup, Recs(at)) /\ applied' = applied \o at
  /\ \E order \in HashOrders(filter) :
       filter' = FoldLeft(LAMBDA ix, r : FilterApply(ix, r, order), filter, Recs(at))

\* ingest: a full MemTable is flushed, which saves no sidecar.
Ingest ==
  /\ CanWrite /\ ready = Both
  /\ acked < Len(Script) /\ acked' = acked + 1 /\ top' = acked'
  /\ Index(<<acked'>>)
  /\ IF top' - wm >= FlushThreshold
     THEN CanCommit /\ version' = version + 1 /\ wm' = top'
     ELSE UNCHANGED <<version, wm>>
  /\ UNCHANGED <<dead, marks, ready, files, saving>>

\* flush_memtable.
Flush ==
  /\ CanWrite
  /\ IF wm < top THEN CanCommit /\ version' = version + 1 /\ wm' = top ELSE UNCHANGED <<version, wm>>
  /\ saving' = <<"rollup", "filter">>
  /\ UNCHANGED <<acked, dead, marks, top, filter, rollup, ready, files, applied>>

\* What commit_delete, commit_upgrade and compaction_finish end with.
Rebuild(at) ==
  /\ rollup' = RollupFrom(Recs(at)) /\ filter' = FilterFrom(Recs(at)) /\ applied' = at
  /\ ready' = Both /\ saving' = <<"rollup", "filter">>

\* commit_delete of the row of one record.
Delete ==
  /\ CanWrite /\ CanCommit /\ version' = version + 1
  /\ \E i \in 1..wm \ dead :
       /\ dead' = dead \cup {i}
       /\ Rebuild(Alive(dead \cup {i}))
  /\ marks' = marks \cup {"deleted"}
  /\ UNCHANGED <<acked, wm, top, files>>

\* commit_upgrade: scores are in neither sidecar, but files are not trusted any more.
Patch ==
  /\ CanWrite /\ CanCommit /\ version' = version + 1 /\ wm > 0
  /\ marks' = marks \cup {"patched"}
  /\ Rebuild(Alive(dead))
  /\ UNCHANGED <<acked, dead, wm, top, files>>

\* compaction_finish: the rows of the dead are gone, patches stay.
Compact ==
  /\ CanWrite /\ CanCommit /\ version' = version + 1 /\ wm > 0
  /\ marks' = marks \ {"deleted"}
  /\ Rebuild(Alive(dead))
  /\ UNCHANGED <<acked, dead, wm, top, files>>

-----------------------------------------------------------------------------
(* Crashes.                                                                *)

\* The process dies and the store is opened: a log with a tail loads both sidecars
\* before the tail is replayed, without one they wait for the first query.
Restart ==
  /\ filter' = EmptyFilter /\ rollup' = EmptyRollup /\ ready' = {}
  /\ top' = wm /\ saving' = <<>> /\ applied' = <<>>
  /\ UNCHANGED <<acked, dead, marks, wm, version, files>>

\* replay_wal_tail_into_memtable_locked.
Replay ==
  /\ Replaying /\ saving = <<>> /\ ready = Both
  /\ Index([i \in 1..(acked - wm) |-> wm + i])
  /\ top' = acked
  /\ UNCHANGED <<acked, dead, marks, wm, version, ready, files, saving>>

-----------------------------------------------------------------------------
(* Queries: what they leave in the caches.                                 *)

Search(f) ==
  /\ "filter" \in ready /\ ~Replaying
  /\ filter' = AfterQuery(filter, f)
  /\ UNCHANGED <<store, rollup, ready, files, saving, applied>>

ListSessions(s) ==
  /\ "rollup" \in ready /\ ~Replaying
  /\ rollup' = AfterRollupQuery(QuerySessions(rollup, s[1], s[2]), s[1], s[2])
  /\ UNCHANGED <<store, filter, ready, files, saving, applied>>

\* Every step but Compact leaves the segments what they are, or adds one.
Step ==
  \/ SaveRollup \/ SaveFilter \/ EnsureRollup \/ EnsureFilter
  \/ Ingest \/ Flush \/ Delete \/ Patch \/ Restart \/ Replay
  \/ \E f \in Searches : Search(f)
  \/ \E s \in SessionQueries : ListSessions(s)

-----------------------------------------------------------------------------
(* What the sidecars are compared with: a row per span with a live record. *)

Spans == {Script[i].key : i \in 1..top \ dead}
Of(k) == SelectSeq(Recs(Alive(dead)), LAMBDA r : r.key = k)
TrueFilterRow(k) == FoldLeft(FilterRow, NewFilterRow(Head(Of(k))), Of(k))
TimesApplied(k) == Cardinality({i \in DOMAIN applied : Script[applied[i]].key = k})
TrueRollupRow(k) == [FoldLeft(RollupRow, NewRollupRow(Head(Of(k))), Of(k)) EXCEPT !.count = TimesApplied(k)]

\* A search with any filter gets the spans whose live records match it, no more
\* and no fewer: whether postings were disabled, moved when a value changed,
\* merged from runs or read from disk, and whichever file a restart found.  The
\* shortcuts are right too: all spans match when filter_matches_all says so, and
\* a hint is never less than the result (candidate_span_keys and its callers).
FilterExact ==
  "filter" \in ready /\ ~Replaying =>
    LET row == [k \in Spans |-> TrueFilterRow(k)] IN
    \A f \in Filters :
      LET right == {k \in Spans : Matches(f, k, row[k])} IN
      /\ Candidates(filter, f) = right
      /\ {k \in Spans : SpanMatches(filter, k, f)} = right
      /\ FilterMatchesAll(filter, f) => right = Spans
      /\ \A n \in CountHints(filter, f) : Cardinality(right) <= n
      /\ Requested(f) # {} =>
           LET n == MaterializationHint(filter, f) IN n = Absent \/ Cardinality(right) <= n

\* The postings in memory are those of the rows, except the disabled ones, of
\* which nothing is left; the count of their entries is theirs and no budget is
\* exceeded.  On disk none is missing (add_posting, remove_posting, save_cache).
PostingsExact ==
  LET true == {<<p, k>> \in UNION {Range(PostingsOf(k, FilterRows(filter)[k])) \X {k} : k \in DOMAIN FilterRows(filter)} :
                 p \notin filter.disabled} IN
  /\ {<<p, k>> \in UNION {{p} \X FilterPostings(filter)[p] : p \in DOMAIN FilterPostings(filter)} : TRUE} = true
  /\ filter.disk = {} => filter.entries = Cardinality(true) /\ filter.entries <= EntryBudget
  /\ \A p \in DOMAIN filter.postings : filter.postings[p] # {} /\ Cardinality(filter.postings[p]) <= SetBudget

\* A rollup query sees each span once, as its live records make it, from memory
\* or from a page; no page that has an answer is skipped.  Records that were
\* applied twice count twice (query, query_trace_ids, save_cache).
RollupExact ==
  "rollup" \in ready /\ ~Replaying =>
    LET all == {<<k, TrueRollupRow(k)>> : k \in Spans} IN
    /\ \A s \in RollupQueries :
         RollupRows(rollup, s[1], s[2]) = {x \in all : RollupMatches(s[1], s[2], x[1], x[2])}
    /\ \A s \in {x \in RollupQueries : x[1].trace # Absent} :
         TraceRows(rollup, {s[1].trace}, s[1].tenant)
           = {x \in all : x[1][1] = s[1].trace /\ (s[1].tenant # Absent => Has(x[2].vals, "tenant_id", s[1].tenant))}

\* No event is counted twice: "the log's tail is laid over complete sidecars".
RollupCountsOnce == IsInjective(applied)

\* Whatever was written since, a session list from the cache is the one a new
\* aggregation would give (query_sessions; apply_record clears the cache).
SessionCacheFresh ==
  "rollup" \in ready =>
    \A key \in DOMAIN rollup.sessions :
      rollup.sessions[key]
        = SessionsNow(rollup, [trace |-> Absent, tenant |-> key[1], from |-> key[2], to |-> key[3]], key[4])

\* The cached postings and pages are counted right, listed once, and fit their
\* budgets, through evictions and second chances (lookup, load_page).
CachesBounded ==
  LET c == filter.cached IN
  /\ Range(c.lru) = c.keys /\ Len(c.lru) = Cardinality(c.keys) /\ c.used \subseteq c.keys
  /\ c.size <= CacheKeys
  /\ c.size = FoldLeft(LAMBDA n, p : n + Cardinality(FilterPostings(filter)[p]), 0, c.lru)
  /\ Len(rollup.pages) <= CachePages /\ Len(rollup.pages) = Cardinality(Range(rollup.pages))

\* The sidecars answer as the live records would, and their caches stay right.
SidecarsExact == FilterExact /\ PostingsExact /\ RollupExact /\ SessionCacheFresh /\ CachesBounded

=============================================================================
