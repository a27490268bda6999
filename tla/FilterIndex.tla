------------------------------- MODULE FilterIndex -------------------------------
(***************************************************************************)
(* The filter sidecar of yt-engine as operators (filter_sidecar.rs,        *)
(* filter_disk.rs, filter_external_sort.rs): for every span the values a   *)
(* search may filter by, and for every (field, value) a posting, the set   *)
(* of spans that have it.  In memory the postings have budgets: one that   *)
(* would exceed them is disabled and the rows are checked instead.  The    *)
(* saved file has all postings, sorted in runs and merged; a loaded file   *)
(* answers from disk until the first record is applied to it.              *)
(*                                                                         *)
(* Fields of a record are partial functions, and values are numbers.  Time *)
(* stamps, keys and fields keep their meaning; bytes and offsets do not    *)
(* appear: a file is the rows and the sequence of postings written to it.  *)
(***************************************************************************)
EXTENDS Naturals, FiniteSets, Sequences, SequencesExt, Functions, TLC

CONSTANTS Indexed,      \* the fields of is_filter_attr_key and the fixed ones, in their order
          Absent,       \* None
          EntryBudget, SetBudget, \* posting_entry_budget, posting_set_budget
          RunEntries,   \* entries of a run of the external sort
          CacheKeys     \* cache_budget: keys of all cached posting sets

ASSUME FilterIndexConstants ==
  /\ EntryBudget \in Nat /\ SetBudget \in Nat \ {0} /\ RunEntries \in Nat \ {0} /\ CacheKeys \in Nat

-----------------------------------------------------------------------------
(* Rows and filters.                                                       *)

\* A later record overrides what it has a value for, and widens the times.
FilterRow(row, r) ==
  [min  |-> IF r.ts < row.min THEN r.ts ELSE row.min,
   max  |-> IF r.ts > row.max THEN r.ts ELSE row.max,
   vals |-> Restrict(r.vals, DOMAIN r.vals \cap Range(Indexed)) @@ row.vals]

NewFilterRow(r) == [min |-> r.ts, max |-> r.ts, vals |-> <<>>]

Has(vals, field, value) == field \in DOMAIN vals /\ vals[field] = value

AttrsMatch(f, row) ==
  /\ \A x \in DOMAIN f.want : Has(row.vals, x, f.want[x])
  /\ f.from # Absent => row.max >= f.from
  /\ f.to # Absent => row.min <= f.to

Matches(f, k, row) == (f.trace # Absent => k[1] = f.trace) /\ AttrsMatch(f, row)

\* requested_postings.
Requested(f) ==
  {<<x, f.want[x]>> : x \in DOMAIN f.want} \cup (IF f.trace = Absent THEN {} ELSE {<<"trace_id", f.trace>>})

\* posting_keys_for_row.
PostingsOf(k, row) ==
  LET has == SelectSeq(Indexed, LAMBDA x : x \in DOMAIN row.vals) IN
  <<<<"trace_id", k[1]>>>> \o [i \in DOMAIN has |-> <<has[i], row.vals[has[i]]>>]

-----------------------------------------------------------------------------
(* The index in memory.                                                    *)

NoPostingCache == [keys |-> {}, used |-> {}, lru |-> <<>>, size |-> 0]

\* disk has the file the index was loaded from, if it still answers from it.
EmptyFilter ==
  [rows |-> <<>>, postings |-> <<>>, disabled |-> {}, entries |-> 0,
   disk |-> {}, cached |-> NoPostingCache]

Disk(ix) == CHOOSE d \in ix.disk : TRUE
KeysOf(postings, p) == IF p \in DOMAIN postings THEN postings[p] ELSE {}
Without(f, x) == Restrict(f, DOMAIN f \ {x})

FilterRows(ix) == IF ix.disk = {} THEN ix.rows ELSE Disk(ix).rows
FilterPostings(ix) == IF ix.disk = {} THEN ix.postings ELSE Disk(ix).postings

MutDisableKeepsCount(ix, p) ==
  [ix EXCEPT !.postings = Without(@, p), !.disabled = @ \cup {p}]

DisablePosting(ix, p) ==
  [ix EXCEPT !.postings = Without(@, p), !.disabled = @ \cup {p},
             !.entries = @ - Cardinality(KeysOf(ix.postings, p))]

AddPosting(ix, p, k) ==
  LET keys == KeysOf(ix.postings, p) IN
  IF p \in ix.disabled \/ k \in keys THEN ix
  ELSE IF Cardinality(keys) >= SetBudget \/ ix.entries >= EntryBudget THEN DisablePosting(ix, p)
  ELSE [ix EXCEPT !.postings = p :> (keys \cup {k}) @@ @, !.entries = @ + 1]

RemovePosting(ix, p, k) ==
  LET keys == KeysOf(ix.postings, p) IN
  IF p \in ix.disabled \/ k \notin keys THEN ix
  ELSE [ix EXCEPT !.postings = IF keys = {k} THEN Without(@, p) ELSE [@ EXCEPT ![p] = keys \ {k}],
                  !.entries = @ - 1]

AddPostings(ix, k, row) ==
  FoldLeft(LAMBDA i, p : AddPosting(i, p, k), ix, PostingsOf(k, row))

RemovePostings(ix, k, row) ==
  FoldLeft(LAMBDA i, p : RemovePosting(i, p, k), ix, PostingsOf(k, row))

\* rebuild_postings; order is that of a HashMap, and tells which are disabled.
RebuildPostings(rows, order) ==
  [FoldLeft(LAMBDA i, k : AddPostings(i, k, rows[k]), EmptyFilter, order) EXCEPT !.rows = rows]

\* materialize_disk: all rows come into memory and the file is left alone.
Materialize(ix, order) ==
  IF ix.disk = {} THEN ix ELSE RebuildPostings(Disk(ix).rows, order)

HashOrders(ix) == IF ix.disk = {} THEN {<<>>} ELSE SetToSeqs(DOMAIN Disk(ix).rows)

\* apply_record: the postings of the old row go, those of the new one come.
FilterApply(loaded, r, order) ==
  LET ix   == Materialize(loaded, order)
      k    == r.key
      old  == IF k \in DOMAIN ix.rows THEN ix.rows[k] ELSE NewFilterRow(r)
      bare == IF k \in DOMAIN ix.rows THEN RemovePostings(ix, k, old) ELSE ix
      row  == FilterRow(old, r)
  IN [AddPostings(bare, k, row) EXCEPT !.rows = k :> row @@ @]

\* from_records; rebuild.
FilterFrom(records) == FoldLeft(LAMBDA i, r : FilterApply(i, r, <<>>), EmptyFilter, records)

-----------------------------------------------------------------------------
(* The file: runs of sorted entries, merged by a heap of their heads.      *)

\* trace_id first, then Indexed; filters may also ask for attrs that are not indexed.
Rank(p) == IF p[1] = "trace_id" THEN 0 ELSE CHOOSE i \in 1..Len(Indexed) + 1 : Append(Indexed, p[1])[i] = p[1]

\* Entries <<posting, key>> in the order of their fields, values and keys.
EntryBefore(a, b) ==
  LET x == <<Rank(a[1]), a[1][2], a[2][1], a[2][2]>>
      y == <<Rank(b[1]), b[1][2], b[2][1], b[2][2]>>
  IN \E i \in 1..4 : x[i] < y[i] /\ \A j \in 1..(i - 1) : x[j] = y[j]

\* push, flush_run: a full buffer is sorted, rid of duplicates, and written.
SortedRuns(rows, order) ==
  LET all  == FlattenSeq([i \in DOMAIN order |->
                 LET ps == PostingsOf(order[i], rows[order[i]]) IN [j \in DOMAIN ps |-> <<ps[j], order[i]>>]])
      runs == (Len(all) + RunEntries - 1) \div RunEntries
      last(n) == IF n * RunEntries < Len(all) THEN n * RunEntries ELSE Len(all)
  IN [n \in 1..runs |-> SetToSortSeq(Range(SubSeq(all, (n - 1) * RunEntries + 1, last(n))), EntryBefore)]

\* ExternalPostings::next: equal (field, value) are one posting, a repeated key is skipped.
Grouped(groups, e) ==
  IF groups = <<>> \/ Last(groups).posting # e[1]
  THEN Append(groups, [posting |-> e[1], keys |-> <<e[2]>>])
  ELSE IF Last(Last(groups).keys) = e[2] THEN groups
  ELSE [groups EXCEPT ![Len(groups)].keys = Append(@, e[2])]

\* pop_entry: the least head, of the first run that has it.
PopEntry(st) ==
  LET open == {i \in DOMAIN st.runs : st.runs[i] # <<>>}
      i == CHOOSE i \in open : \A j \in open \ {i} :
             \/ EntryBefore(Head(st.runs[i]), Head(st.runs[j]))
             \/ Head(st.runs[i]) = Head(st.runs[j]) /\ i < j
  IN [runs |-> [st.runs EXCEPT ![i] = Tail(@)], groups |-> Grouped(st.groups, Head(st.runs[i]))]

MergedRuns(runs) ==
  LET total == FoldLeft(LAMBDA n, run : n + Len(run), 0, runs) IN
  FoldLeft(LAMBDA st, n : PopEntry(st), [runs |-> runs, groups |-> <<>>], [n \in 1..total |-> n]).groups

MutSavedResident(ix, stamp, order) ==
  [stamp |-> stamp, rows |-> FilterRows(ix),
   groups |-> LET ps == SetToSeq(DOMAIN FilterPostings(ix)) IN
              [i \in DOMAIN ps |-> [posting |-> ps[i], keys |-> SetToSeq(FilterPostings(ix)[ps[i]])]]]

\* write_atomic: rows and postings, directories, header, then the rename.
WrittenFilter(stamp, rows, groups) == [stamp |-> stamp, rows |-> rows, groups |-> groups]

\* persist_with_metadata: a copy of the file with another stamp.
Restamped(d, stamp) == [stamp |-> stamp, rows |-> d.rows, groups |-> d.groups]

\* save_cache: from memory all postings, the disabled ones too, by the external sort.
SavedFilter(ix, stamp, order) ==
  IF ix.disk # {} THEN Restamped(Disk(ix), stamp)
  ELSE WrittenFilter(stamp, ix.rows, MergedRuns(SortedRuns(ix.rows, order)))

\* open: another stamp, or a posting that is there twice, and the file is of no use.
OpenedFilter(files, stamp) ==
  {[rows |-> d.rows, groups |-> d.groups,
    postings |-> [p \in {g.posting : g \in Range(d.groups)} |->
                    Range((CHOOSE g \in Range(d.groups) : g.posting = p).keys)]]
     : d \in {d \in files : /\ d.stamp = stamp
                            /\ Cardinality({g.posting : g \in Range(d.groups)}) = Len(d.groups)}}

-----------------------------------------------------------------------------
(* What searches ask of the index.                                         *)

InAll(sets, rows) == IF sets = {} THEN rows ELSE {k \in UNION sets : \A s \in sets : k \in s}

\* candidate_span_keys: the resident postings narrow, every row is checked.
MemCandidates(ix, f) ==
  IF Requested(f) \subseteq DOMAIN ix.postings \cup ix.disabled
  THEN {k \in InAll({ix.postings[p] : p \in Requested(f) \ ix.disabled}, DOMAIN ix.rows) :
          k \in DOMAIN ix.rows /\ Matches(f, k, ix.rows[k])}
  ELSE {}

\* The postings of a file that do not have all rows.
Selective(d, f) ==
  {p \in Requested(f) : p \notin DOMAIN d.postings \/ Cardinality(d.postings[p]) # Cardinality(DOMAIN d.rows)}

\* disk_candidate_span_keys: rows are read for a time window only.
DiskCandidates(d, f) ==
  IF Selective(d, f) \subseteq DOMAIN d.postings
  THEN {k \in InAll({d.postings[p] : p \in Selective(d, f)}, DOMAIN d.rows) :
          /\ f.trace # Absent => k[1] = f.trace
          /\ f.from # Absent \/ f.to # Absent => AttrsMatch(f, d.rows[k])}
  ELSE {}

Candidates(ix, f) == IF ix.disk = {} THEN MemCandidates(ix, f) ELSE DiskCandidates(Disk(ix), f)

\* span_matches, matches_key.
SpanMatches(ix, k, f) == k \in DOMAIN FilterRows(ix) /\ Matches(f, k, FilterRows(ix)[k])

\* filter_matches_all: a tenant that has every row, and no other constraint.
FilterMatchesAll(ix, f) ==
  /\ DOMAIN f.want = {"tenant_id"} /\ f.trace = Absent /\ f.from = Absent /\ f.to = Absent
  /\ LET p == <<"tenant_id", f.want["tenant_id"]>> IN
     p \in DOMAIN FilterPostings(ix)
       /\ Cardinality(FilterPostings(ix)[p]) = Cardinality(DOMAIN FilterRows(ix))

\* candidate_count_hint: sizes of the postings it can tell; none known, no hint.
CountHints(ix, f) ==
  {Cardinality(FilterPostings(ix)[p]) : p \in Requested(f) \cap DOMAIN FilterPostings(ix)}

\* candidate_materialization_key_hint, a number of keys or Absent for usize::MAX.
MaterializationHint(ix, f) ==
  LET rows  == Cardinality(DOMAIN FilterRows(ix))
      sizes == [p \in Requested(f) \cap DOMAIN FilterPostings(ix) |-> Cardinality(FilterPostings(ix)[p])]
      total == FoldLeft(LAMBDA n, p : n + (IF sizes[p] = rows THEN 0 ELSE sizes[p]), 0, SetToSeq(DOMAIN sizes))
  IN IF Requested(f) \subseteq DOMAIN sizes THEN IF total = 0 THEN rows ELSE total ELSE Absent

-----------------------------------------------------------------------------
(* The cached posting sets of a file, with a second chance for those used. *)

\* A pass of the eviction loop over the oldest set, for size more keys.
EvictOldest(c, d, size) ==
  IF c.size + size <= CacheKeys \/ c.lru = <<>> THEN c
  ELSE LET p == Head(c.lru) IN
       IF p \in c.used THEN [c EXCEPT !.used = @ \ {p}, !.lru = Append(Tail(@), p)]
       ELSE [c EXCEPT !.keys = @ \ {p}, !.lru = Tail(@), !.size = @ - Cardinality(d.postings[p])]

MutAdmitAny(c, d, p) ==
  LET size == Cardinality(d.postings[p])
      made == FoldLeft(LAMBDA s, n : EvictOldest(s, d, size), c, [n \in 1..Len(c.lru) |-> n])
  IN [made EXCEPT !.keys = @ \cup {p}, !.lru = Append(@, p), !.size = @ + size]

\* lookup: a set too large for the whole budget is not kept.
Admitted(c, d, p) ==
  LET size == Cardinality(d.postings[p])
      made == FoldLeft(LAMBDA s, n : EvictOldest(s, d, size), c, [n \in 1..(2 * Len(c.lru)) |-> n])
  IN IF p \in c.keys THEN [c EXCEPT !.used = @ \cup {p}]
     ELSE IF size > CacheKeys THEN c
     ELSE [made EXCEPT !.keys = @ \cup {p}, !.lru = Append(@, p), !.size = @ + size]

\* The lookups of one query, in the order of requested_postings.
AfterQuery(ix, f) ==
  IF ix.disk = {} THEN ix
  ELSE LET d == Disk(ix)
           p == SetToSortSeq(Selective(d, f), LAMBDA a, b : Rank(a) < Rank(b))
           missing == {i \in DOMAIN p : p[i] \notin DOMAIN d.postings}
           looked == IF missing = {} THEN p ELSE SubSeq(p, 1, (CHOOSE i \in missing : \A j \in missing : i <= j) - 1)
       IN [ix EXCEPT !.cached = FoldLeft(LAMBDA c, x : Admitted(c, d, x), @, looked)]
=============================================================================
