-------------------------------- MODULE MCQueries --------------------------------
EXTENDS TracePaths

Rec(t, s, ts, kind, vals) == [key |-> <<t, s>>, ts |-> ts, kind |-> kind, vals |-> vals]

MCIndexed == <<"tenant_id", "status", "project_id">>

MCScript == <<
  Rec(1, 2, 1, "start", [tenant_id |-> 1, session_id |-> 1, parent |-> 3, status |-> 0, input_tokens |-> 0,
                         tool |-> 1, loop_id |-> <<1, TRUE>>, log |-> 1]),
  Rec(1, 1, 3, "start", [tenant_id |-> 1, project_id |-> 1, session_id |-> 1, duration |-> 2, agent |-> 1, note |-> 1,
                         phase |-> <<1, FALSE>>]),
  Rec(2, 1, 2, "start", [tenant_id |-> 2, status |-> 0, project_id |-> 1, session_id |-> 1, input_tokens |-> 2,
                         parent |-> 1, tool |-> 1, loop_id |-> <<1, FALSE>>]),
  Rec(1, 1, 4, "end",   [tenant_id |-> 2, status |-> 1, parent |-> 2]) >>

Filter(trace, want, from, to) == [trace |-> trace, want |-> want, from |-> from, to |-> to]
MCFilters == {
  Filter(Absent, [tenant_id |-> 1], Absent, Absent),
  Filter(Absent, [tenant_id |-> 2, status |-> 0], Absent, Absent),
  Filter(1, [status |-> 1], Absent, Absent),
  Filter(Absent, [project_id |-> 1], 3, Absent),
  Filter(1, <<>>, Absent, 2),
  Filter(Absent, [tenant_id |-> 1, note |-> 1], Absent, Absent) }
MCSearches == {f \in MCFilters : DOMAIN f.want = {"tenant_id", "status"}}

Query(trace, tenant, from, to) == [trace |-> trace, tenant |-> tenant, from |-> from, to |-> to]
MCRollupQueries == {
  <<Query(Absent, Absent, 0, 4), <<>>>>, <<Query(Absent, 1, 0, 4), [status |-> 0]>>,
  <<Query(1, Absent, 0, 4), <<>>>>, <<Query(2, 2, 0, 4), [project_id |-> 1]>>,
  <<Query(1, 2, 3, 4), <<>>>>, <<Query(Absent, Absent, 0, 1), <<>>>> }
MCSessionQueries == { <<Query(Absent, Absent, 0, 4), [project_id |-> 1]>> }
MCTopK == {1, 2}
MCTenants == {Absent, 1, 2}
=============================================================================
