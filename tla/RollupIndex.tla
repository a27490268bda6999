------------------------------- MODULE RollupIndex -------------------------------
(***************************************************************************)
(* The trace rollup of yt-engine as operators (trace_rollup.rs,            *)
(* trace_rollup/disk.rs): one row of small fields per span, some in memory *)
(* and the rest in the pages of a file.  A row in memory hides the one on  *)
(* disk.  Pages hold rows of one tenant and project in the order of their  *)
(* traces; a query skips the pages that cannot have a row of its own.      *)
(* Session rows are aggregated from span rows and cached until the next    *)
(* record.  A result is a set of <<key, row>>.                             *)
(***************************************************************************)
EXTENDS FilterIndex

CONSTANTS PageRows,     \* PAGE_ROWS
          CachePages    \* cache_budget, in pages

ASSUME RollupIndexConstants == PageRows \in Nat \ {0} /\ CachePages \in Nat

Field(vals, x) == IF x \in DOMAIN vals THEN vals[x] ELSE Absent
NumberOf(vals, x) == IF x \in DOMAIN vals THEN vals[x] ELSE 0

NewRollupRow(r) ==
  [start |-> FALSE, end |-> FALSE, min |-> r.ts, max |-> r.ts, count |-> 0, vals |-> <<>>]

RollupRow(row, r) ==
  [start |-> row.start \/ r.kind = "start", end |-> row.end \/ r.kind = "end",
   min |-> IF r.ts < row.min THEN r.ts ELSE row.min,
   max |-> IF r.ts > row.max THEN r.ts ELSE row.max,
   count |-> row.count + 1, vals |-> r.vals @@ row.vals]

-----------------------------------------------------------------------------
(* The file.                                                               *)

\* partition_key: None comes before any value.
Partition(k, row) ==
  LET of(x) == IF x \in DOMAIN row.vals THEN row.vals[x] + 1 ELSE 0 IN
  <<of("tenant_id"), of("project_id"), k[1], k[2]>>

\* A row joins the last page if it is of its tenant and project and there is room.
PageWith(pages, k, row) ==
  LET p == Last(pages) IN
  IF /\ pages # <<>> /\ Cardinality(DOMAIN p.rows) < PageRows
     /\ p.tenant = Field(row.vals, "tenant_id") /\ p.project = Field(row.vals, "project_id")
  THEN [pages EXCEPT ![Len(pages)] =
          [p EXCEPT !.last = k[1], !.rows = k :> row @@ @,
                    !.min = IF row.min < @ THEN row.min ELSE @,
                    !.max = IF row.max > @ THEN row.max ELSE @]]
  ELSE Append(pages, [tenant |-> Field(row.vals, "tenant_id"), project |-> Field(row.vals, "project_id"),
                      first |-> k[1], last |-> k[1], min |-> row.min, max |-> row.max, rows |-> k :> row])

\* write_atomic: the rows sorted by partition, cut into pages.
Pages(rows) ==
  LET before(a, b) ==
        LET x == Partition(a, rows[a]) y == Partition(b, rows[b]) IN
        \E i \in 1..4 : x[i] < y[i] /\ \A j \in 1..(i - 1) : x[j] = y[j]
  IN FoldLeft(LAMBDA pages, k : PageWith(pages, k, rows[k]), <<>>, SetToSortSeq(DOMAIN rows, before))

OpenedRollup(files, stamp) == {d \in files : d.stamp = stamp}

-----------------------------------------------------------------------------
(* The index: rows in memory over the pages of disk.                       *)

EmptyRollup == [rows |-> <<>>, disk |-> {}, sessions |-> <<>>, pages |-> <<>>]

PagesOf(ix) == IF ix.disk = {} THEN <<>> ELSE (CHOOSE d \in ix.disk : TRUE).pages

\* find_row: the first page whose traces span the key's and that has it.
OnPages(pages, k) ==
  LET at == {i \in DOMAIN pages : pages[i].first <= k[1] /\ k[1] <= pages[i].last /\ k \in DOMAIN pages[i].rows}
  IN IF at = {} THEN {} ELSE {pages[CHOOSE i \in at : \A j \in at : i <= j].rows[k]}

MutApplyKeepsSessions(ix, r) ==
  LET found == IF r.key \in DOMAIN ix.rows THEN {ix.rows[r.key]} ELSE OnPages(PagesOf(ix), r.key)
      old == IF found = {} THEN NewRollupRow(r) ELSE CHOOSE row \in found : TRUE
  IN [ix EXCEPT !.rows = r.key :> RollupRow(old, r) @@ @]

\* apply_record: a row that is on disk only is brought into memory first.
RollupApply(ix, r) ==
  LET found == IF r.key \in DOMAIN ix.rows THEN {ix.rows[r.key]} ELSE OnPages(PagesOf(ix), r.key)
      old == IF found = {} THEN NewRollupRow(r) ELSE CHOOSE row \in found : TRUE
  IN [ix EXCEPT !.rows = r.key :> RollupRow(old, r) @@ @, !.sessions = <<>>]

\* from_records; rebuild.
RollupFrom(records) == FoldLeft(RollupApply, EmptyRollup, records)

\* save_cache: what is on disk and not in memory, and what is in memory.
SavedRollup(ix, stamp) ==
  LET old == {k \in UNION {DOMAIN p.rows : p \in Range(PagesOf(ix))} : k \notin DOMAIN ix.rows}
      all == [k \in old |-> CHOOSE row \in OnPages(PagesOf(ix), k) : TRUE] @@ ix.rows
  IN [stamp |-> stamp, pages |-> Pages(all)]

-----------------------------------------------------------------------------
(* Queries: q has the trace, the tenant and the times, f the other filters *)
(* (callers give both the same trace and tenant).                          *)

\* matches_query, matches_filter.
RollupMatches(q, f, k, row) ==
  /\ q.trace # Absent => k[1] = q.trace
  /\ q.tenant # Absent => Has(row.vals, "tenant_id", q.tenant)
  /\ row.max >= q.from /\ row.min <= q.to
  /\ \A x \in DOMAIN f : Has(row.vals, x, f[x])

MutPageOfTrace(pages, q, f) ==
  {i \in DOMAIN pages : q.trace # Absent => pages[i].first <= q.trace /\ q.trace < pages[i].last}

\* matching_pages.
MatchingPages(pages, q, f) ==
  {i \in DOMAIN pages :
     /\ q.from <= q.to /\ pages[i].max >= q.from /\ pages[i].min <= q.to
     /\ q.tenant # Absent => pages[i].tenant = q.tenant
     /\ "project_id" \in DOMAIN f => pages[i].project = f["project_id"]
     /\ q.trace # Absent => pages[i].first <= q.trace /\ q.trace <= pages[i].last}

RowsOfPages(pages, which) == UNION {{<<k, pages[i].rows[k]>> : k \in DOMAIN pages[i].rows} : i \in which}

Hidden(ix, found) == {x \in found : x[1] \notin DOMAIN ix.rows}
InMemory(ix) == {<<k, ix.rows[k]>> : k \in DOMAIN ix.rows}

\* matching_rows; the rows of query.
RollupRows(ix, q, f) ==
  LET pages == PagesOf(ix) IN
  {x \in Hidden(ix, RowsOfPages(pages, MatchingPages(pages, q, f))) \cup InMemory(ix) :
     RollupMatches(q, f, x[1], x[2])}

\* rows_for_trace_ids, query_trace_ids.
TraceRows(ix, traces, tenant) ==
  LET pages == PagesOf(ix)
      which == {i \in DOMAIN pages : /\ tenant # Absent => pages[i].tenant = tenant
                                     /\ \E t \in traces : pages[i].first <= t /\ t <= pages[i].last}
  IN {x \in Hidden(ix, RowsOfPages(pages, which)) \cup InMemory(ix) :
        x[1][1] \in traces /\ (tenant # Absent => Has(x[2].vals, "tenant_id", tenant))}

\* The fields a ConsoleSession adds up over the rows of its session.
SessionRow(rows) ==
  LET sum(x) == FoldLeft(LAMBDA n, row : n + NumberOf(row[2].vals, x), 0, SetToSeq(rows)) IN
  [traces  |-> {row[1][1] : row \in rows}, tokens |-> sum("input_tokens"),
   error   |-> \E row \in rows : NumberOf(row[2].vals, "status") # 0,
   running |-> \E row \in rows : row[2].start /\ ~row[2].end,
   first   |-> CHOOSE t \in {row[1][1] : row \in rows} : \A row \in rows : t <= row[1][1]]

SessionRows(rows) ==
  LET of(s) == {row \in rows : Has(row[2].vals, "session_id", s)} IN
  [s \in {row[2].vals["session_id"] : row \in {x \in rows : "session_id" \in DOMAIN x[2].vals}} |-> SessionRow(of(s))]

\* query_sessions without its cache: attrs choose the sessions, all their rows are added.
SessionsNow(ix, q, f) ==
  LET chosen == {row[2].vals["session_id"] :
                   row \in {x \in RollupRows(ix, q, f) : "session_id" \in DOMAIN x[2].vals}}
      all == SessionRows(RollupRows(ix, q, <<>>))
  IN IF DOMAIN f = {} THEN all ELSE Restrict(all, chosen \cap DOMAIN all)

\* query_sessions: the key of the cache is what its callers can vary.
QuerySessions(ix, q, f) ==
  LET key == <<q.tenant, q.from, q.to, f>> IN
  IF key \in DOMAIN ix.sessions THEN ix
  ELSE [ix EXCEPT !.sessions = key :> SessionsNow(ix, q, f) @@ @]

-----------------------------------------------------------------------------
(* The pages kept in memory, oldest first.                                 *)

\* load_page: touch moves a page to the end, a new one takes the oldest's place.
LoadPage(lru, i) ==
  IF i \in Range(lru) THEN Append(Remove(lru, i), i)
  ELSE IF CachePages = 0 THEN lru
  ELSE Append(IF Len(lru) >= CachePages THEN Tail(lru) ELSE lru, i)

\* The pages a query reads, in their order.
AfterRollupQuery(ix, q, f) ==
  [ix EXCEPT !.pages = FoldLeft(LoadPage, @, SetToSortSeq(MatchingPages(PagesOf(ix), q, f), <))]
=============================================================================
