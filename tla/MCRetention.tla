------------------------------ MODULE MCRetention ------------------------------
(* Two traces, the second with a row of each tenant.  The ledger's file is   *)
(* missing, one of an earlier release that protects the first trace, or one  *)
(* with three policies, of two tenants.                                      *)
EXTENDS Retention

Symmetry == Permutations(Procs)

Row(t, tenant, ts) == [trace |-> t, tenant |-> tenant, ts |-> ts]
MCOldRows == {Row(1, 1, 1), Row(2, 1, 1)}
MCRows == {Row(1, 1, 1), Row(2, 2, 2)}

Old == [ver |-> 1, next |-> [annotations |-> 2, datasets |-> 1],
        list |-> [annotations |-> <<[id |-> 1, rev |-> 0, tenant |-> 1, trace |-> 1, label |-> "good",
                                     status |-> "active", attrs |-> <<>>]>>,
                  datasets |-> <<>>]]

Policy(tenant, interval, cutoff, age) ==
  [tenant |-> tenant, name |-> "old", enabled |-> TRUE, next |-> 1, interval |-> interval, cutoff |-> cutoff, age |-> age,
   protect |-> {"annotations", "datasetAssociations"}, compact |-> TRUE]

\* Two policies that are due at 2, one of them by age, and before them one that
\* is disabled and cannot run.
Stored(id, policy) == [id |-> id, rev |-> 0, last |-> Absent, attrs |-> <<>>] @@ policy
WithPolicies ==
  [ver |-> 2, next |-> [annotations |-> 1, datasets |-> 1, audits |-> 1, policies |-> 4],
   list |-> [annotations |-> <<>>, datasets |-> <<>>, audits |-> <<>>,
             policies |-> <<Stored(1, Policy(1, 2, 0, Absent)), Stored(2, Policy(2, 1, Absent, 1)),
                            Stored(3, [Policy(1, 1, NoNumber, 1) EXCEPT !.enabled = FALSE, !.next = 0])>>]]
MCOldFiles == {{}, {Old}, {WithPolicies}}

Body(t, label, status, attrs) == [tenant |-> 1, trace |-> t, label |-> label, status |-> status, attrs |-> attrs]
MCAnnotationBodies == {
  Body(1, Absent, Absent, [phase |-> <<5, FALSE>>]), Body(2, "bad", "done", [phase |-> <<5, TRUE>>]) }

MCDatasetBodies == { [tenant |-> 1, trace |-> 2, dataset |-> "set", snapshot |-> Absent, eval |-> Absent, attrs |-> <<>>] }

MCPolicyBodies == { Policy(1, 1, Absent, 1), Policy(1, 0, 1, Absent) }

\* For one tenant, the disabled too, of which one cannot run and uses up the
\* limit; for all tenants, two in a row, if more are due the first two.
Call(tenant, where, limit, disabled) ==
  [tenant |-> tenant, where |-> where, limit |-> limit, disabled |-> disabled, now |-> 2]
MCRunCalls == { Call(1, [name |-> "old"], 2, TRUE), Call(Absent, <<>>, 2, FALSE) }

MCChanges == { Deletion(1), [tenant |-> Absent, status |-> "resolved", attrs |-> [phase |-> <<5, FALSE>>], merge |-> FALSE] }

Request(tenant, cutoff, protect) == [tenant |-> tenant, cutoff |-> cutoff, protect |-> protect, compact |-> TRUE]
MCRetentionBodies == { Request(1, 2, {"annotations", "datasetAssociations"}), Request(2, Absent, {}) }

Ask(where, attrs, deleted) == [where |-> where, attrs |-> attrs, deleted |-> deleted]
MCMaxRecords == [annotations |-> 2, datasets |-> 1, audits |-> 1, policies |-> 2]

MCQueries == {
  <<"annotations", Ask([tenant |-> 1], <<>>, FALSE)>>,
  <<"annotations", Ask([status |-> "active"], <<>>, FALSE)>>,
  <<"annotations", Ask([status |-> "deleted"], <<>>, TRUE)>>,
  <<"annotations", Ask(<<>>, [phase |-> <<5, FALSE>>], FALSE)>>,
  <<"annotations", Ask([trace |-> 2, label |-> "bad"], [phase |-> <<5, TRUE>>], TRUE)>>,
  <<"datasets", Ask([tenant |-> 1, trace |-> 2], <<>>, FALSE)>>,
  <<"policies", Ask([name |-> "old", enabled |-> TRUE], <<>>, FALSE)>>,
  <<"audits", Ask([id |-> 1, tenant |-> 1], <<>>, FALSE)>> }
=================================================================================
