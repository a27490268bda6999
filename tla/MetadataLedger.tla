----------------------------- MODULE MetadataLedger -----------------------------
(***************************************************************************)
(* The metadata ledger as a value: annotations, dataset associations,      *)
(* retention audits and retention policies, each list with the counter of  *)
(* its next id; the file they are saved in (metadata/codec.rs, versions 1  *)
(* and 2); the postings a process keeps of them (metadata_index.rs) and    *)
(* the filters a query is answered by (engine/metadata_matchers.rs).       *)
(*                                                                         *)
(* A record is [id, tenant, ...] with the fields its kind is filtered by.  *)
(* An attribute's value is its JSON text: <<label, quoted>>, so that the   *)
(* number 5 and the string "5" are two spellings of one label.  Reasons,   *)
(* reviewers, scores and times are left out; rev counts the updates of a   *)
(* record, as updated_at_ns tells them apart.                              *)
(***************************************************************************)
EXTENDS Integers, SequencesExt

CONSTANT Absent

Kinds == {"annotations", "datasets", "audits", "policies"}

\* A record, or attributes, with fields set.
With(r, more) ==
  [f \in DOMAIN r \cup DOMAIN more |-> IF f \in DOMAIN more THEN more[f] ELSE r[f]]

\* MetadataState.
EmptyLedger == [list |-> [k \in Kinds |-> <<>>], next |-> [k \in Kinds |-> 1]]

\* AnnotationStatus::parse: {} for a text it does not know.
ParseStatus(text) ==
  CASE text \in {"active", "open"} -> {"active"}
    [] text \in {"resolved", "accepted", "done"} -> {"resolved"}
    [] text \in {"rejected", "dismissed"} -> {"rejected"}
    [] text \in {"deleted", "removed", "archived"} -> {"deleted"}
    [] OTHER -> {}

-----------------------------------------------------------------------------
(* The file.                                                               *)

FormatVer == 2
KindsOf(ver) == IF ver = 1 THEN {"annotations", "datasets"} ELSE Kinds

\* encode, always in the newest version.
Encode(ledger) == [ver |-> FormatVer, list |-> ledger.list, next |-> ledger.next]

AboveIds(list) ==
  LET ids == {1} \cup {list[i].id + 1 : i \in DOMAIN list}
  IN CHOOSE top \in ids : \A id \in ids : id <= top

\* decode: {} for a version it does not know; a counter is never at or below
\* an id in use, whatever the file says.
Decode(f) ==
  IF f.ver \notin 1..FormatVer THEN {}
  ELSE LET list == [k \in Kinds |-> IF k \in KindsOf(f.ver) THEN f.list[k] ELSE <<>>]
           said == [k \in Kinds |-> IF k \in KindsOf(f.ver) THEN f.next[k] ELSE 1]
           max(a, b) == IF a >= b THEN a ELSE b
       IN {[list |-> list, next |-> [k \in Kinds |-> max(said[k], AboveIds(list[k]))]]}

-----------------------------------------------------------------------------
(* Postings: <<kind, field, value, id>>.                                   *)

PostedFields(k) ==
  {"tenant"} \cup CASE k = "annotations" -> {"trace", "label", "status"}
                    [] k = "datasets" -> {"trace", "dataset", "eval"}
                    [] k = "audits" -> {"source"}
                    [] k = "policies" -> {"name", "enabled"}

\* MetadataIndex::add_annotation, add_dataset, add_audit, add_policy.
Postings(k, r) ==
  {<<k, "all", TRUE, r.id>>}
  \cup (IF k = "annotations" /\ r.status # "deleted" THEN {<<k, "not_deleted", TRUE, r.id>>} ELSE {})
  \cup {<<k, f, r[f], r.id>> : f \in PostedFields(k)}
  \cup {<<k, "attr_key", key, r.id>> : key \in DOMAIN r.attrs}
  \cup {<<k, "attr", <<key, r.attrs[key]>>, r.id>> : key \in DOMAIN r.attrs}

\* MetadataIndex::build.
IndexOf(list) ==
  UNION {UNION {Postings(k, list[k][i]) : i \in DOMAIN list[k]} : k \in Kinds}

Posted(index, k, f, v) == {e[4] : e \in {x \in index : x[1] = k /\ x[2] = f /\ x[3] = v}}

\* A filter is [where, attrs, deleted]: the fields it names, the attributes it
\* asks for, include_deleted.
\* annotation_candidates, dataset_candidates, audit_candidates, policy_candidates.
FirstCandidates(index, k, q) ==
  IF "id" \in DOMAIN q.where THEN {q.where["id"]}
  ELSE IF k = "annotations" /\ "status" \notin DOMAIN q.where /\ ~q.deleted
       THEN Posted(index, k, "not_deleted", TRUE)
       ELSE Posted(index, k, "all", TRUE)

AttrCandidates(index, k, key, v) ==
  LET exact == Posted(index, k, "attr", <<key, v>>)
  IN IF exact # {} THEN exact ELSE Posted(index, k, "attr_key", key)

Candidates(index, k, q) ==
  {id \in FirstCandidates(index, k, q) :
     /\ \A f \in DOMAIN q.where \ {"id"} : id \in Posted(index, k, f, q.where[f])
     /\ \A key \in DOMAIN q.attrs : id \in AttrCandidates(index, k, key, q.attrs[key])}

\* metadata_value_matches: equal but for the quotes.
ValueMatches(actual, wanted) == actual[1] = wanted[1]

\* annotation_matches, dataset_association_matches, retention_audit_matches,
\* retention_policy_matches; metadata_tenant_allowed is the case of "tenant".
Matches(k, r, q) ==
  /\ \A f \in DOMAIN q.where : r[f] = q.where[f]
  /\ k = "annotations" /\ ~q.deleted => r.status # "deleted"
  /\ \A key \in DOMAIN q.attrs : key \in DOMAIN r.attrs /\ ValueMatches(r.attrs[key], q.attrs[key])

\* annotations, dataset_associations, retention_audits, retention_policies: the
\* positions of the records in the list, in whose order they are returned.
Answer(m, k, q) ==
  LET ids == Candidates(m.index, k, q)
  IN {i \in DOMAIN m.list[k] : m.list[k][i].id \in ids /\ Matches(k, m.list[k][i], q)}

\* What the final check alone would answer.
Scan(m, k, q) == {i \in DOMAIN m.list[k] : Matches(k, m.list[k][i], q)}

Answered(m, k, q) == {m.list[k][i] : i \in Answer(m, k, q)}

\* A label this kind holds in both spellings: the index then finds only one.
MixedSpelling(list, k) ==
  \E i, j \in DOMAIN list[k] : \E key \in DOMAIN list[k][i].attrs \cap DOMAIN list[k][j].attrs :
    LET a == list[k][i].attrs[key]  b == list[k][j].attrs[key] IN a[1] = b[1] /\ a # b

-----------------------------------------------------------------------------
(* What a process holds of the ledger, and changes of it.                  *)

EmptyMem == [list |-> EmptyLedger.list, next |-> EmptyLedger.next, index |-> {}]

Opened(m, ledger) ==
  [m EXCEPT !.list = ledger.list, !.next = ledger.next, !.index = IndexOf(ledger.list)]

\* refresh_metadata_from_disk_locked: a file that cannot be read changes nothing.
RefreshLedger(m, file) ==
  LET found == UNION {Decode(f) : f \in file}
  IN IF found = {} THEN m ELSE Opened(m, CHOOSE l \in found : TRUE)

\* add_annotation, add_dataset_association, add_retention_audit, add_retention_policy.
Numbered(m, k, r) == With(r, [id |-> m.next[k], rev |-> 0])

Added(m, k, r) ==
  LET new == Numbered(m, k, r) IN
  [m EXCEPT !.list[k] = Append(@, new), !.next[k] = @ + 1, !.index = @ \cup Postings(k, new)]

\* The record of that id which that tenant may touch: {} or one position.
Find(m, k, id, tenant) ==
  {i \in DOMAIN m.list[k] : m.list[k][i].id = id /\ tenant \in {Absent, m.list[k][i].tenant}}

\* update_annotation: a status and attributes, merged or replaced.
Patched(r, change) ==
  [r EXCEPT !.status = IF change.status = Absent THEN @ ELSE change.status,
            !.attrs = IF change.attrs = Absent THEN @
                      ELSE IF change.merge THEN With(@, change.attrs) ELSE change.attrs,
            !.rev = @ + 1]

MutUpdated(m, i, change) == [m EXCEPT !.list["annotations"][i] = Patched(@, change)]

Updated(m, i, change) ==
  LET list == [m.list EXCEPT !["annotations"][i] = Patched(@, change)]
  IN [m EXCEPT !.list = list, !.index = IndexOf(list)]

\* delete_annotation.
Deletion(tenant) == [tenant |-> tenant, status |-> "deleted", attrs |-> Absent, merge |-> TRUE]
=================================================================================
