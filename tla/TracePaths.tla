--------------------------------- MODULE TracePaths ---------------------------------
(***************************************************************************)
(* What yt-engine makes of the spans of a trace: the tree, the execution   *)
(* graph and the searches of engine/write_graph_search.rs, the paths,      *)
(* groups and differences of http/trajectory_helpers.rs and                *)
(* read_model_api.rs, the loops and tasks of http/path_api.rs.             *)
(*                                                                         *)
(* A name is a number of the field it comes from; a ranking is the         *)
(* sequence of keys BM25 gives for a text, which module TextIndex models.  *)
(* The rollup always answers (nothing marks it dirty), so the scans the    *)
(* endpoints fall back to do not appear.                                   *)
(***************************************************************************)
EXTENDS Queries

CONSTANTS DepthLimit,   \* 64
          PoolMin, PoolGrowth, \* 50 and 4: the candidates a filtered search asks for
          SetKeys,      \* bm25_filter_set_budget_bytes, in keys
          TopK          \* how many hits a text search may ask for

ASSUME TracePathsConstants == DepthLimit \in Nat /\ PoolMin \in Nat \ {0} /\ PoolGrowth \in Nat \ {0, 1}

IdOf(s) == s.key[2]
ParentOf(s) == Field(s.vals, "parent")
Present(s, fields) == SelectSeq(fields, LAMBDA x : x \in DOMAIN s.vals)

-----------------------------------------------------------------------------
(* The tree.                                                               *)

MutRoots(spans) == {s \in spans : ParentOf(s) = Absent}

\* load_trace_tree: a span whose parent is not there is a root.
Roots(spans) == {s \in spans : ParentOf(s) \notin {IdOf(x) : x \in spans}}
Children(spans, s) == {c \in spans : ParentOf(c) = IdOf(s)}

\* dfs_order, one span popped after the other.
DfsOrder(spans) ==
  FoldLeft(LAMBDA st, n :
             IF st.stack = <<>> THEN st
             ELSE [out |-> Append(st.out, Head(st.stack)),
                   stack |-> ById(Children(spans, Head(st.stack))) \o Tail(st.stack)],
           [out |-> <<>>, stack |-> ById(Roots(spans))], ById(spans)).out

\* agent_graph: spans are told apart by tool or agent, and by themselves without.
Actor(s) ==
  LET named == Present(s, <<"tool", "agent">>) IN
  IF named = <<>> THEN <<Absent, IdOf(s)>> ELSE <<s.vals[Head(named)]>>

GraphNodes(spans) == [a \in {Actor(s) : s \in spans} |-> Summary({s \in spans : Actor(s) = a})]

Calls(spans) == {<<p, s>> \in spans \X spans : ParentOf(s) = IdOf(p) /\ Actor(p) # Actor(s)}
GraphEdges(spans) ==
  [e \in {<<Actor(c[1]), Actor(c[2])>> : c \in Calls(spans)} |->
     Cardinality({c \in Calls(spans) : <<Actor(c[1]), Actor(c[2])>> = e})]

-----------------------------------------------------------------------------
(* The path of a trace.                                                    *)

\* depth_of: a parent that is not there counts; the walk gives up past the limit.
Depth(spans, s) ==
  LET parents == [id \in {IdOf(x) : x \in spans} |-> ParentOf(CHOOSE x \in spans : IdOf(x) = id)] IN
  FoldLeft(LAMBDA st, n : IF st.id \in DOMAIN parents /\ parents[st.id] # Absent
                          THEN [id |-> parents[st.id], depth |-> st.depth + 1] ELSE st,
           [id |-> IdOf(s), depth |-> 0], [n \in 1..(DepthLimit + 1) |-> n]).depth

MutTrajectory(spans) == ById(spans)

\* sort_spans_for_trajectory.
Trajectory(spans) ==
  SetToSortSeq(spans, LAMBDA a, b :
    LET x == Depth(spans, a) y == Depth(spans, b) IN x < y \/ (x = y /\ IdOf(a) < IdOf(b)))

\* folded_kind, folded_name, trajectory_step_key.
Kind(s) ==
  LET fields == Present(s, <<"tool", "model", "agent">>) IN IF fields = <<>> THEN "span" ELSE Head(fields)
Name(s) ==
  LET fields == Present(s, <<"tool", "agent", "model", "log">>) IN
  IF fields = <<>> THEN <<Absent, IdOf(s)>> ELSE <<s.vals[Head(fields)]>>
StepKey(s) == <<Kind(s), Name(s), Field(s.vals, "tool"), Field(s.vals, "model"), Field(s.vals, "status")>>
Signature(path) == [i \in DOMAIN path |-> StepKey(path[i])]

\* trace_success.
Success(path) ==
  path # <<>> /\ \A s \in Range(path) : ~Failed(s) /\ ~Has(s.vals, "validation_status", "fail")

\* read_model_spans_by_trace_ids, full_trace_spans.
FullTrace(t, tenant) == Trajectory(SpansOfTraces({t}, tenant))

\* trajectory_groups_json, TrajectoryGroupBucket.
TrajectoryGroups(f, tenant) ==
  LET path == [t \in TracesOf(TraceSearch(f, tenant)) |-> Trajectory(OfTrace(SpansOfTraces({t}, tenant), t))] IN
  [g \in {Signature(path[t]) : t \in DOMAIN path} |->
     LET of == {t \in DOMAIN path : Signature(path[t]) = g} IN
     [traces |-> of, success |-> Cardinality({t \in of : Success(path[t])}),
      errors |-> Cardinality({t \in of : \E s \in Range(path[t]) : Failed(s)})]]

\* trace_diff_json: what is left of both paths after their common prefix.
TraceDiff(left, right) ==
  LET x == Signature(left) y == Signature(right)
      n == Len(LongestCommonPrefix({x, y})) IN
  [same |-> x = y, common |-> n,
   missing |-> SubSeq(x, n + 1, Len(x)), extra |-> SubSeq(y, n + 1, Len(y))]

-----------------------------------------------------------------------------
(* Loops and tasks.  The id of a loop is stored as a JSON text, here       *)
(* <<label, quoted>>: 5 and "5" are two texts of one label, and only the   *)
(* second is what quoting the label gives.  Lists group by the label; a    *)
(* page is asked for by a label, quotes it, and the rollup compares texts. *)

\* json_scalar_label, json_string_value.
Label(text) == text[1]
Quoted(label) == <<label, TRUE>>
SameLabel(s, want) == \A x \in DOMAIN want : x \in DOMAIN s.vals /\ Label(s.vals[x]) = Label(want[x])

\* indexed_spans_for_attrs: the texts in the rollup, then once more the labels.
AttrSpans(want, tenant) == {s \in RollupSpans(All(tenant), want) : SameLabel(s, want)}

\* LoopBucket, loops_page_json.
LoopBucket(spans) == [traces |-> TracesOf(spans), summary |-> Summary(spans)]
LoopsPage(tenant) ==
  LET spans == {s \in AttrSpans(<<>>, tenant) : "loop_id" \in DOMAIN s.vals}
      loop(s) == Label(s.vals["loop_id"]) IN
  [x \in {loop(s) : s \in spans} |-> LoopBucket({s \in spans : loop(s) = x})]

MutLoopDetail(x, tenant) ==
  LET spans == AttrSpans([loop_id |-> Quoted(x)], tenant) IN
  IF spans = {} THEN {}
  ELSE {[bucket |-> LoopBucket(spans), traces |-> [t \in TracesOf(spans) |-> Trajectory(OfTrace(spans, t))]]}

\* loop_detail_json: none (404) or one, the bucket of the spans found, the traces whole.
LoopDetail(x, tenant) ==
  LET spans == AttrSpans([loop_id |-> Quoted(x)], tenant) IN
  IF spans = {} THEN {}
  ELSE {[bucket |-> LoopBucket(spans), traces |-> [t \in TracesOf(spans) |-> FullTrace(t, tenant)]]}

\* task_traces_json: one span has the task, others of the trace the rest, by label.
TaskTraces(x, field, rest, tenant) ==
  LET task == (field :> Quoted(x))
      found == TracesOf(AttrSpans(task, tenant)) IN
  {t \in found : \A w \in DOMAIN (task @@ rest) :
                   \E s \in SpansOfTraces({t}, tenant) : SameLabel(s, Restrict(task @@ rest, {w}))}

-----------------------------------------------------------------------------
(* Filtered text search.                                                   *)

FirstOf(ranking, n) == SubSeq(ranking, 1, Min({n, Len(ranking)}))

MutGrow(st, ranking, k, f) == st

\* A pass of search_bm25_post_filter_mut: too few candidates of a pool that was
\* filled are asked for again in a larger one.
Grow(st, ranking, k, f) ==
  LET found == SelectSeq(FirstOf(ranking, st.pool), LAMBDA key : SpanMatches(filter, key, f)) IN
  IF st.pool > Len(ranking) \/ Len(found) >= k THEN [st EXCEPT !.found = FirstOf(found, k)]
  ELSE [st EXCEPT !.pool = PoolGrowth * @, !.found = found]

PostFiltered(ranking, k, f) ==
  IF k = 0 THEN <<>>
  ELSE FoldLeft(LAMBDA st, n : Grow(st, ranking, k, f), [pool |-> Max({k, PoolMin}), found |-> <<>>],
                [n \in 1..(Len(ranking) + 1) |-> n]).found

NeedsAttrs(f) == DOMAIN f.want # {} \/ f.from # Absent \/ f.to # Absent

\* with_filter_pred.
Predicate(f, key) ==
  /\ f.trace # Absent => key[1] = f.trace
  /\ NeedsAttrs(f) => key \in Candidates(filter, f)

\* search_text_attr_candidates, search_bm25_with_attrs: which way depends on how
\* many keys the filter would have to gather.
SearchCandidates(ranking, k, f) ==
  LET hint == MaterializationHint(filter, f)
      fits == Requested(f) = {} \/ (hint # Absent /\ hint <= SetKeys)
      other == f.trace # Absent \/ NeedsAttrs([f EXCEPT !.want = Restrict(@, DOMAIN @ \ {"tenant_id"})]) IN
  IF (other /\ fits) \/ ~NeedsAttrs(f) THEN FirstOf(SelectSeq(ranking, LAMBDA key : Predicate(f, key)), k)
  ELSE IF FilterMatchesAll(filter, f) THEN FirstOf(ranking, k)
  ELSE PostFiltered(ranking, k, f)

\* search_text_attr: candidates that the snapshot does not have are gone.
TextSearch(sn, ranking, k, f) ==
  LET keys == SearchCandidates(ranking, k, f)
      hits == FoldQuery(sn, All(Absent), Range(keys)) IN
  SelectSeq(keys, LAMBDA key : key \in {s.key : s \in hits})

-----------------------------------------------------------------------------
(* Properties.                                                             *)

\* Spans whose line of parents ends; a loop of parents is reached from no root.
Rooted(spans) ==
  LET up(line) == line \cup {p \in spans : \E s \in line : ParentOf(s) = IdOf(p)} IN
  {s \in spans : \E p \in FoldLeft(LAMBDA line, n : up(line), {s}, ById(spans)) :
                   \A x \in spans : ParentOf(p) # IdOf(x)}

\* In the order a tree is drawn, each span whose ancestry ends is there once, its
\* parent before it.  The path of a trace has every span, in the same relation as
\* long as no chain is deeper than the limit.  The graph of agents counts spans
\* and calls once (dfs_order, sort_spans_for_trajectory, agent_graph).
TreesComplete ==
  Served =>
    \A t \in {k[1] : k \in AllKeys} :
      LET spans == ReadSpans(Now, OneTrace(t, Absent))
          dfs == DfsOrder(spans)
          path == Trajectory(spans)
          nodes == GraphNodes(FoldQuery(Now, OneTrace(t, Absent), AllKeys))
          edges == GraphEdges(spans) IN
      /\ IsInjective(dfs) /\ Range(dfs) = Rooted(spans)
      /\ \A i, j \in DOMAIN dfs : ParentOf(dfs[j]) = IdOf(dfs[i]) => i < j
      /\ Range(path) = spans /\ Len(path) = Cardinality(spans)
      /\ Rooted(spans) = spans /\ (\A s \in spans : Depth(spans, s) <= DepthLimit) =>
           \A i, j \in DOMAIN path : ParentOf(path[j]) = IdOf(path[i]) => i < j
      /\ FoldSet(LAMBDA a, n : n + nodes[a].spans, 0, DOMAIN nodes) = Cardinality(spans)
      /\ FoldSet(LAMBDA e, n : n + edges[e], 0, DOMAIN edges) + Cardinality(Roots(spans)) <= Cardinality(spans)

\* Two traces are in one group if and only if their difference says so, finding
\* no step that one has and the other has not; each trace found is in a group,
\* not both a success and an error.  A listed loop holds the spans of its label,
\* its page exactly those that spell the label as a quoted string: there is a
\* page if and only if there is such a span, with the list's traces and sums if
\* all are spelled so, and the tasks agree with the page.  A trace is whole
\* wherever it is listed (trajectory_groups_json, trace_diff_json,
\* loops_page_json, loop_detail_json, task_traces_json).
PathsAgree ==
  Served =>
    \A tenant \in Tenants :
      LET any == [trace |-> Absent, want |-> <<>>, from |-> Absent, to |-> Absent]
          groups == TrajectoryGroups(any, tenant)
          loops == LoopsPage(tenant)
          listed == ListTraces(Now, All(tenant))
          having(x) == {s \in FoldQuery(Now, All(tenant), AllKeys) : x \in DOMAIN s.vals}
          read == having("loop_id")
          path == [t \in DOMAIN listed |-> FullTrace(t, tenant)] IN
      /\ UNION {groups[g].traces : g \in DOMAIN groups} = DOMAIN listed
      /\ \A g \in DOMAIN groups : groups[g].success + groups[g].errors <= Cardinality(groups[g].traces)
      /\ \A a, b \in DOMAIN listed :
           LET d == TraceDiff(path[a], path[b]) IN
           /\ d.same = (\E g \in DOMAIN groups : {a, b} \subseteq groups[g].traces)
           /\ d.same = (d.missing = <<>> /\ d.extra = <<>>)
      /\ DOMAIN loops = {Label(s.vals["loop_id"]) : s \in read}
      /\ \A x \in DOMAIN loops :
           LET of == {s \in read : Label(s.vals["loop_id"]) = x}
               named == {s \in of : s.vals["loop_id"] = Quoted(x)}
               detail == LoopDetail(x, tenant) IN
           /\ loops[x] = LoopBucket(of)
           /\ (detail = {}) = (named = {})
           /\ \A page \in detail :
                /\ page.bucket = LoopBucket(named)
                /\ \A t \in DOMAIN page.traces : Len(page.traces[t]) = listed[t].spans
           /\ TaskTraces(x, "loop_id", <<>>, tenant) = TracesOf(named)
           /\ \A p \in {s.vals["phase"] : s \in having("phase")} :
                TaskTraces(x, "loop_id", [phase |-> Quoted(Label(p))], tenant)
                  = TracesOf(named) \cap TracesOf({s \in having("phase") : Label(s.vals["phase"]) = Label(p)})
      /\ UNION {loops[x].traces : x \in DOMAIN loops} \subseteq DOMAIN listed

\* A trace is drawn whole, and every page that shows its path shows the same.
PathsComplete == TreesComplete /\ PathsAgree

\* False, and in no run: a page answers 404 only if the tenant has no such loop
\* (API_REFERENCE.md on GET /v1/loops/:loopId).  A loop whose id is a number is
\* listed, and its page asks for a string.
ListedLoopsFound ==
  Served => \A tenant \in Tenants : \A x \in DOMAIN LoopsPage(tenant) : LoopDetail(x, tenant) # {}

\* Whichever way a filtered text search goes, by the keys of the filter, by the
\* shortcut for a tenant that has everything, or through growing pools because
\* the keys are too many or their posting was given up, its hits are the first
\* of the ranking that match (search_text_attr_candidates and what it calls).
SearchRoutesAgree ==
  Served =>
    LET spans == FoldQuery(Now, All(Absent), AllKeys) IN
    \A f \in {x \in Filters : x.from = Absent /\ x.to = Absent /\ DOMAIN x.want \subseteq Range(Indexed)} :
      LET right == {s.key : s \in {x \in spans : SearchMatches(x, f)}} IN
      \A ranking \in SetToSeqs({s.key : s \in spans}), k \in TopK :
        TextSearch(Now, ranking, k, f) = FirstOf(SelectSeq(ranking, LAMBDA key : key \in right), k)
=============================================================================
