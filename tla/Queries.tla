---------------------------------- MODULE Queries ----------------------------------
(***************************************************************************)
(* What the readers of yt-engine answer from the store and its sidecars:   *)
(* the folded read in its three forms (engine/write_fold.rs,               *)
(* write_read_query.rs), the lists and views of the console                *)
(* (write_console.rs, http/console_api.rs), the search and aggregation     *)
(* endpoints (http/read_model_api.rs, path_api.rs, trajectory_helpers.rs)  *)
(* and the trees drawn of a trace (write_graph_search.rs).                 *)
(*                                                                         *)
(* Module Sidecars has the writers; here its segments are told apart, for  *)
(* the time bounds a query skips them by, and one reader holds a snapshot  *)
(* while the indexes it asks go on.  A view is an operator on the state: a *)
(* set of folded spans, each [key, start, end, count, vals], and what is   *)
(* made of it.  Texts, JSON and cost figures do not appear.                *)
(***************************************************************************)
EXTENDS Sidecars, FiniteSetsExt

CONSTANTS Horizon,      \* i64::MAX as a time; 0 is i64::MIN
          Tenants,      \* those the console is asked for
          PinAt         \* bound: the manifest versions a snapshot is taken at

VARIABLES segs,     \* the rows of each live segment
          snap      \* the snapshot the reader holds, if any

qvars == <<vars, segs, snap>>

Now == [segs |-> segs, dead |-> dead, wm |-> wm, top |-> top]

QInit == Init /\ segs = {} /\ snap = {}

\* pin_snapshot, and the drop of the snapshot.
Pin == snap = {} /\ ~Replaying /\ version \in PinAt /\ snap' = {Now} /\ UNCHANGED <<vars, segs>>
Unpin == snap # {} /\ snap' = {} /\ UNCHANGED <<vars, segs>>

QNext ==
  \/ /\ Step
     /\ segs' = IF wm' > wm THEN segs \cup {(wm + 1)..wm'} ELSE segs
     /\ snap' = IF top' < top THEN {} ELSE snap  \* a restart
  \/ Compact /\ segs' = {1..wm \ dead} \ {{}} /\ UNCHANGED snap
  \/ Pin \/ Unpin

QSpec == QInit /\ [][QNext]_qvars

-----------------------------------------------------------------------------
(* The folded read.                                                        *)

AllKeys == {Script[i].key : i \in DOMAIN Script}

FoldedSpan(k, at) ==
  [key |-> k, count |-> Cardinality(at),
   start |-> \E i \in at : Script[i].kind = "start", end |-> \E i \in at : Script[i].kind = "end",
   vals |-> FoldLeft(LAMBDA v, i : Script[i].vals @@ v, <<>>, SetToSortSeq(at, <))]

Folded(at) == {FoldedSpan(k, {i \in at : Script[i].key = k}) : k \in {Script[i].key : i \in at}}

InWindow(i, q) == q.from <= Script[i].ts /\ Script[i].ts <= q.to

Times(seg) == {Script[i].ts : i \in seg}

MutOverlaps(seg, q) == Max(Times(seg)) > q.from /\ Min(Times(seg)) < q.to

\* The zone map of a segment: its least and greatest time, of deleted rows too.
Overlaps(seg, q) == Max(Times(seg)) >= q.from /\ Min(Times(seg)) <= q.to

\* Rows of a segment that overlaps the window come whatever their time, rows of
\* the MemTable by their time.
Inputs(sn, q, keys) ==
  {i \in (UNION {seg \in sn.segs : Overlaps(seg, q)} \ sn.dead)
           \cup {x \in (sn.wm + 1)..sn.top : InWindow(x, q)} :
     Script[i].key \in keys /\ (q.trace # Absent => Script[i].key[1] = q.trace)}

\* fold_query.
FoldQuery(sn, q, keys) ==
  {s \in Folded(Inputs(sn, q, keys)) : q.tenant # Absent => Has(s.vals, "tenant_id", q.tenant)}

All(tenant) == [trace |-> Absent, tenant |-> tenant, from |-> 0, to |-> Horizon]
OneTrace(t, tenant) == [All(tenant) EXCEPT !.trace = t]
Wanted(f, tenant) == [trace |-> f.trace, tenant |-> tenant, from |-> IF f.from = Absent THEN 0 ELSE f.from,
                      to |-> IF f.to = Absent THEN Horizon ELSE f.to]
TenantFilter(q) ==
  [trace |-> q.trace, want |-> IF q.tenant = Absent THEN <<>> ELSE [tenant_id |-> q.tenant],
   from |-> Absent, to |-> Absent]

\* read_spans_query: a trace is looked up by the keys the filter has for it now,
\* and scanned for when it has none.
ReadSpans(sn, q) ==
  LET keys == Candidates(filter, TenantFilter(q)) IN
  FoldQuery(sn, q, IF q.trace # Absent /\ keys # {} THEN keys ELSE AllKeys)

MutIndexedRead(sn, q, f) ==
  FoldQuery(sn, q, IF DOMAIN f.want # {} \/ f.from # Absent \/ f.to # Absent
                   THEN Candidates(filter, f) ELSE AllKeys)

\* read_spans_query_indexed: fields that are not indexed do not narrow.
IndexedRead(sn, q, f) ==
  LET narrow == [f EXCEPT !.want = Restrict(@, DOMAIN @ \cap Range(Indexed))] IN
  FoldQuery(sn, q, IF DOMAIN narrow.want # {} \/ f.from # Absent \/ f.to # Absent
                   THEN Candidates(filter, narrow) ELSE AllKeys)

\* log_events_for_trace_keys: a scan of its own, of records rather than spans.
LogEvents(sn, t, keys) ==
  {i \in (UNION sn.segs \ sn.dead) \cup (sn.wm + 1)..sn.top :
     Script[i].key[1] = t /\ Script[i].key \in keys /\ "log" \in DOMAIN Script[i].vals}

-----------------------------------------------------------------------------
(* Rows of the rollup as spans.                                            *)

AsSpan(x) == [key |-> x[1], count |-> x[2].count, start |-> x[2].start, end |-> x[2].end, vals |-> x[2].vals]

\* trace_aggregate_rollup_spans, trace_rollup_spans_for_trace_ids: never dirty.
RollupSpans(q, f) == {AsSpan(x) : x \in RollupRows(rollup, q, f)}
SpansOfTraces(traces, tenant) == {AsSpan(x) : x \in TraceRows(rollup, traces, tenant)}

-----------------------------------------------------------------------------
(* Sums over spans.                                                        *)

SumOf(spans, x) == FoldSet(LAMBDA s, n : n + NumberOf(s.vals, x), 0, spans)
Failed(s) == NumberOf(s.vals, "status") # 0
OfTrace(spans, t) == {s \in spans : s.key[1] = t}
TracesOf(spans) == {s.key[1] : s \in spans}
OfSession(spans, x) == {s \in spans : Has(s.vals, "session_id", x)}
SessionsOf(spans) == {s.vals["session_id"] : s \in {x \in spans : "session_id" \in DOMAIN x.vals}}

\* CacheTokenCoverage: spans that had a model or reported tokens, were it none.
LlmSpans(spans) == {s \in spans : DOMAIN s.vals \cap {"model", "input_tokens"} # {}}

\* TraceSummary, TraceAggregateBucket, TraceMetrics have these in common.
Summary(spans) ==
  [spans |-> Cardinality(spans), tokens |-> SumOf(spans, "input_tokens"), duration |-> SumOf(spans, "duration"),
   errors |-> Cardinality({s \in spans : Failed(s)}), llm |-> Cardinality(LlmSpans(spans))]

\* list_traces.
ListTraces(sn, q) ==
  LET all == FoldQuery(sn, q, AllKeys) IN [t \in TracesOf(all) |-> Summary(OfTrace(all, t))]

\* trace_search_matches, on the fields of f.
SearchMatches(s, f) ==
  /\ \A x \in DOMAIN f.want : Has(s.vals, x, f.want[x])
  /\ f.trace # Absent => s.key[1] = f.trace

\* trace_search_spans without a text.
TraceSearch(f, tenant) == {s \in RollupSpans(Wanted(f, tenant), f.want) : SearchMatches(s, f)}

MutGroupValue(s, field) == NumberOf(s.vals, field)

\* span_group_value_json.
GroupValue(s, field) == IF field = "trace_id" THEN s.key[1] ELSE Field(s.vals, field)

\* trace_aggregate_json: the buckets of one field.
Aggregate(f, tenant, field) ==
  LET found == TraceSearch(f, tenant) IN
  [v \in {GroupValue(s, field) : s \in found} |-> Summary({s \in found : GroupValue(s, field) = v})]

-----------------------------------------------------------------------------
(* The console.                                                            *)

\* ConsoleSpan::lifecycle, and aggregate_span_status of a trace.
Lifecycle(s) ==
  IF s.start THEN IF s.end THEN "completed" ELSE "running" ELSE IF s.end THEN "orphan_end" ELSE "incomplete"

StatusOf(spans) ==
  IF \E s \in spans : Failed(s) THEN "error"
  ELSE IF \E s \in spans : Lifecycle(s) = "running" THEN "run"
  ELSE IF \E s \in spans : Lifecycle(s) # "completed" THEN "incomplete" ELSE "ok"

ById(spans) == SetToSortSeq(spans, LAMBDA a, b : a.key[2] < b.key[2])

\* console_trace_spans_for_tenant: one span starts where the one before it ends.
Waterfall(sn, t, tenant) ==
  FoldLeft(LAMBDA rows, s : Append(rows, [span |-> s, at |-> IF rows = <<>> THEN 0
               ELSE Last(rows).at + NumberOf(Last(rows).span.vals, "duration")]),
           <<>>, ById(ReadSpans(sn, OneTrace(t, tenant))))

\* console_span_for_tenant, span_logs: the target is the only key.
SpanDetail(sn, k, tenant) ==
  {[span |-> s, logs |-> LogEvents(sn, k[1], {k})] : s \in FoldQuery(sn, OneTrace(k[1], tenant), {k})}

\* trace_json: here a span that reported zero tokens has reported none.
TraceView(sn, t, tenant) ==
  LET spans == {x.span : x \in Range(Waterfall(sn, t, tenant))} IN
  [summary |-> [Summary(spans) EXCEPT
                  !.llm = Cardinality({s \in spans : "model" \in DOMAIN s.vals \/ NumberOf(s.vals, "input_tokens") > 0})],
   status |-> StatusOf(spans)]

\* load_session_timeline_query: a turn for each trace of the session.
Timeline(sn, x, q) ==
  LET mine == OfSession(ReadSpans(sn, q), x) IN
  [t \in TracesOf(mine) |-> Summary(OfTrace(mine, t))]

MutTenantSessions(tenant) ==
  SessionRows({<<s.key, [start |-> s.start, end |-> s.end, vals |-> s.vals]>> : s \in RollupSpans(All(Absent), <<>>)})

\* console_sessions_for_tenant.
TenantSessions(tenant) ==
  QuerySessions(rollup, All(tenant), <<>>).sessions[<<tenant, All(tenant).from, All(tenant).to, <<>>>>]

\* turns_json: the status of a turn is that of its whole trace.
TurnStatus(sn, t, turn, tenant) ==
  IF turn.errors > 0 THEN "error" ELSE StatusOf({x.span : x \in Range(Waterfall(sn, t, tenant))})

-----------------------------------------------------------------------------
(* Properties.                                                             *)

\* What queries see does not change while the sidecars are saved.
Served == ready = Both /\ ~Replaying /\ saving = <<>>
Held == snap \cup {Now}

\* Looking spans up by the keys the filter index has gives the spans of a scan,
\* whole, whatever became of the index.  With a snapshot older than the index a
\* span may be missing only if it has since been deleted or changed its tenant,
\* and nothing appears that the snapshot does not show; one span and its log
\* events are always those of the snapshot (read_spans_query, fold_query).
PointReadExact ==
  Served =>
    /\ \A sn \in Held, tenant \in Tenants :
         LET scan == FoldQuery(sn, All(tenant), AllKeys)
             alive == {s.key : s \in FoldQuery(Now, All(tenant), AllKeys)} IN
         \A t \in {k[1] : k \in AllKeys} :
           LET read == ReadSpans(sn, OneTrace(t, tenant)) IN
           /\ read \subseteq scan
           /\ {s \in OfTrace(scan, t) : s.key \in alive} \subseteq read
           /\ \A s \in OfTrace(scan, t) : SpanDetail(sn, s.key, tenant)
                = {[span |-> s, logs |-> {i \in LogEvents(sn, t, AllKeys) : Script[i].key = s.key}]}
    /\ \A f \in Filters : f.from = Absent /\ f.to = Absent =>
         {s \in IndexedRead(Now, Wanted(f, Absent), f) : SearchMatches(s, f)}
           = {s \in FoldQuery(Now, All(Absent), AllKeys) : SearchMatches(s, f)}

\* A window read misses no span with a live event in the window, from segments
\* that are skipped by their bounds, from the MemTable and from the rollup, which
\* have flushes, deletions and compactions between them (fold_query, query).
WindowCovers ==
  Served =>
    \A from \in 1..Horizon : \A to \in from..Horizon :
      LET q == [All(Absent) EXCEPT !.from = from, !.to = to]
          hit == {Script[i].key : i \in {x \in 1..top \ dead : InWindow(x, q)}} IN
      /\ hit \subseteq {s.key : s \in FoldQuery(Now, q, AllKeys)}
      /\ hit \subseteq {s.key : s \in RollupSpans(q, <<>>)}

\* The pages of the console and the endpoints agree on a trace and on a session,
\* though the list of traces scans, the trace itself is looked up, aggregates
\* come from the rollup and the session list from its cache.  Only the count of
\* LLM spans may differ: a reported zero is a report to all but trace_json.
ViewsAgree ==
  Served =>
    \A tenant \in Tenants \ {Absent} :
      LET q == All(tenant)
          listed == ListTraces(Now, q)
          sessions == TenantSessions(tenant) IN
      /\ Aggregate([trace |-> Absent, want |-> <<>>, from |-> Absent, to |-> Absent], tenant, "trace_id") = listed
      /\ \A t \in DOMAIN listed :
           LET view == TraceView(Now, t, tenant) IN
           /\ [view.summary EXCEPT !.llm = 0] = [listed[t] EXCEPT !.llm = 0]
           /\ view.summary.llm <= listed[t].llm
           /\ (view.status = "error") = (listed[t].errors > 0)
      /\ \A x \in DOMAIN sessions :
           LET turns == Timeline(Now, x, q) IN
           /\ DOMAIN turns = sessions[x].traces
           /\ sessions[x].tokens = FoldSet(LAMBDA t, n : n + turns[t].tokens, 0, DOMAIN turns)
           /\ sessions[x].error = (\E t \in DOMAIN turns : turns[t].errors > 0)
           /\ sessions[x].running /\ ~sessions[x].error =>
                \E t \in DOMAIN turns : TurnStatus(Now, t, turns[t], tenant) \in {"run", "error"}
      /\ DOMAIN sessions = SessionsOf(FoldQuery(Now, q, AllKeys))
=============================================================================
