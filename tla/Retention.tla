------------------------------- MODULE Retention -------------------------------
(***************************************************************************)
(* The metadata ledger shared by several processes, and the retention      *)
(* requests that read it to decide which traces may go                     *)
(* (engine/write_metadata.rs, engine/write_retention.rs,                   *)
(* http/metadata_api.rs, http/retention_api.rs).                           *)
(*                                                                         *)
(* A write holds the process lock from the refresh to the save, and is one *)
(* step.  A read refreshes only when both locks happen to be free.  A      *)
(* retention request is many steps: it searches and pins, reads the        *)
(* annotations, reads the dataset associations, deletes, compacts, writes  *)
(* its audit and, when a policy asked for it, marks the policy as run.     *)
(*                                                                         *)
(* disk is what all share: segments (the rows of each and those deleted),  *)
(* the tail not flushed yet and the ledger's file.  mem[p] is what process *)
(* p saw of it at its last refresh.  promised, erased, unrecorded and      *)
(* wronged are ghosts: the records whose save succeeded, what each request *)
(* that came to delete did delete, in their order, those of them that      *)
(* could not record it, and the traces that a record should have kept.     *)
(***************************************************************************)
EXTENDS MetadataLedger

CONSTANTS Procs,
          Rows,            \* what is ingested: [trace, tenant, ts]
          OldRows,         \* those in a segment from the start
          OldFiles,        \* ledger files a start may find, as sets of at most one
          AnnotationBodies, DatasetBodies, PolicyBodies, Changes, \* requests
          RetentionBodies, \* [tenant, cutoff, protect, compact]
          RunCalls,        \* run-due: [tenant, where, limit, disabled, now]
          NoNumber,        \* a cutoff or an age that is not a number
          Queries,         \* <<kind, filter>> asked for
          SampleLimit,     \* trace ids an audit names (100)
          MaxRecords,      \* bound: records, by kind
          MaxUpdates,      \* bound: updates of a record
          MaxRequests,     \* bound: ledger requests and ingested rows
          MaxJobs,         \* bound: retention requests
          MaxFaults        \* bound: saves that fail and crashes

\* The records of a kind as they are added and saved: each has an id of its own.
Records(k, list) ==
  /\ list \in Seq(ToSet(list))
  /\ \A i \in DOMAIN list :
       /\ {"id", "rev"} \subseteq DOMAIN list[i] /\ list[i].id \in Nat /\ list[i].rev \in Nat
       /\ k = "policies" => {"tenant", "name", "enabled", "attrs"} \subseteq DOMAIN list[i]
  /\ \A i, j \in DOMAIN list : list[i].id = list[j].id => i = j

ASSUME LedgerConstants ==
  /\ IsFiniteSet(Rows \cup OldRows) /\ \A r \in Rows \cup OldRows : r.trace \in Nat
  /\ SampleLimit \in Nat
  /\ \A F \in OldFiles : \A f \in F : f.ver \in 1..FormatVer =>
       \A k \in KindsOf(f.ver) : Records(k, f.list[k]) /\ f.next[k] \in Nat
  /\ \A body \in PolicyBodies : {"tenant", "name", "enabled"} \subseteq DOMAIN body
  /\ \A q \in Queries : q[1] \in Kinds /\ DOMAIN q[2].where \subseteq PostedFields(q[1]) \cup {"id"}

VARIABLES disk, mem, up, job, requests, jobs, faults, promised, erased, unrecorded, wronged

ghosts == <<promised, erased, unrecorded, wronged>>
vars == <<disk, mem, up, job, requests, jobs, faults, ghosts>>

Idle == [pc |-> "idle"]
Closed == [segs |-> <<>>, tail |-> {}, list |-> EmptyMem.list, next |-> EmptyMem.next, index |-> EmptyMem.index]

Init ==
  /\ \E f \in OldFiles : disk = [segs |-> <<[rows |-> OldRows, dead |-> {}]>>, tail |-> {},
                                    next |-> 2, file |-> f]
  /\ mem = [p \in Procs |-> Closed] /\ up = {} /\ job = [p \in Procs |-> Idle]
  /\ requests = 0 /\ jobs = 0 /\ faults = 0
  /\ promised = {} /\ erased = <<>> /\ unrecorded = {} /\ wronged = {}

MutRefreshed(p) == [mem[p] EXCEPT !.segs = disk.segs, !.tail = disk.tail]

\* refresh_from_disk_locked.
Refreshed(p) == RefreshLedger([mem[p] EXCEPT !.segs = disk.segs, !.tail = disk.tail], disk.file)

\* refresh_from_disk_for_read: either lock busy, and what was there stays.
View(p, fresh) == IF fresh THEN Refreshed(p) ELSE mem[p]
Current(p, fresh) == View(p, fresh) = Refreshed(p)

Promise(p, k, r) == [by |-> p, kind |-> k, rec |-> r]

\* persist_metadata: the outcome of the save is thrown away, and the client is
\* told of the record all the same.
Saving(p, m, k, r) ==
  LET others == {x \in promised : <<x.kind, x.rec.id>> # <<k, r.id>>} IN
  /\ mem' = [mem EXCEPT ![p] = m]
  /\ \/ /\ disk' = [disk EXCEPT !.file = {Encode(m)}]
        /\ promised' = others \cup {Promise(p, k, r)} /\ UNCHANGED faults
     \/ /\ faults < MaxFaults /\ faults' = faults + 1
        /\ promised' = others /\ UNCHANGED disk

-----------------------------------------------------------------------------
(* Ledger requests.                                                        *)

\* A body with a trace and a label, and a status that parses if it has one.
Valid(body) == body.trace # Absent /\ body.label # Absent /\ (body.status = Absent \/ ParseStatus(body.status) # {})

AnnotationOf(body) ==
  [tenant |-> body.tenant, trace |-> body.trace, label |-> body.label, attrs |-> body.attrs,
   status |-> IF body.status = Absent THEN "active" ELSE CHOOSE s \in ParseStatus(body.status) : TRUE]

Counted == requests < MaxRequests /\ requests' = requests + 1

Create(p, k, r) ==
  LET m == Refreshed(p) IN
  /\ p \in up /\ Counted /\ Len(m.list[k]) < MaxRecords[k]
  /\ Saving(p, Added(m, k, r), k, Numbered(m, k, r))

\* create_annotation_json: 400 for a body that is not valid.
CreateAnnotation(p, body) ==
  /\ Valid(body) /\ Create(p, "annotations", AnnotationOf(body))
  /\ UNCHANGED <<up, job, jobs, erased, unrecorded, wronged>>

CreateDataset(p, body) ==
  /\ Create(p, "datasets", body)
  /\ UNCHANGED <<up, job, jobs, erased, unrecorded, wronged>>

\* create_retention_policy_json: an interval and a cutoff or an age are required.
CreatePolicy(p, body) ==
  /\ body.interval > 0 /\ (body.cutoff # Absent \/ body.age # Absent)
  /\ Create(p, "policies", With(body, [last |-> Absent, attrs |-> <<>>]))
  /\ UNCHANGED <<up, job, jobs, erased, unrecorded, wronged>>

\* update_annotation_json and delete_annotation_json: 404 for an id the tenant does not have.
ChangeAnnotation(p, id, change) ==
  LET m == Refreshed(p) IN
  /\ p \in up /\ Counted
  /\ \E i \in Find(m, "annotations", id, change.tenant) :
       LET r == m.list["annotations"][i]  m2 == Updated(m, i, change) IN
       /\ r.rev < MaxUpdates
       /\ Saving(p, m2, "annotations", m2.list["annotations"][i])
  /\ UNCHANGED <<up, job, jobs, erased, unrecorded, wronged>>

\* annotations_json, dataset_associations_json, retention audits and policies.
ReadLedger(p) ==
  /\ p \in up /\ mem' = [mem EXCEPT ![p] = Refreshed(p)]
  /\ UNCHANGED <<requests, disk, up, job, jobs, faults, ghosts>>

-----------------------------------------------------------------------------
(* The store.                                                              *)

InSegments == UNION {disk.segs[s].rows : s \in DOMAIN disk.segs}
DeadRows == UNION {disk.segs[s].dead : s \in DOMAIN disk.segs}
Alive(segs, s) == segs[s].rows \ segs[s].dead
TracesOf(rows) == {r.trace : r \in rows}

\* Late and repeated events are as welcome as any, also those of a trace that
\* retention deleted.
Ingest(p, r) ==
  /\ p \in up /\ Counted
  /\ disk' = [disk EXCEPT !.tail = @ \cup {r}]
  /\ mem' = [mem EXCEPT ![p] = [Refreshed(p) EXCEPT !.tail = @ \cup {r}]]
  /\ UNCHANGED <<up, job, jobs, faults, ghosts>>

WithSegment(d, rows) ==
  [d EXCEPT !.segs = [s \in DOMAIN @ \cup {d.next} |-> IF s = d.next THEN [rows |-> rows, dead |-> {}] ELSE @[s]],
            !.next = @ + 1]

Flush(p) ==
  /\ p \in up /\ disk.tail # {}
  /\ disk' = WithSegment([disk EXCEPT !.tail = {}], disk.tail)
  /\ mem' = [mem EXCEPT ![p] = [Refreshed(p) EXCEPT !.tail = {}, !.segs = disk'.segs]]
  /\ UNCHANGED <<requests, up, job, jobs, faults, ghosts>>

-----------------------------------------------------------------------------
(* A retention request.                                                    *)

\* protected_trace_reasons, without the reasons; annotations and datasets are
\* those of the tenant, deleted annotations not among them.
EvalLink(r) == {"eval_run_id", "eval_status"} \cap DOMAIN r.attrs # {}
PathMemory(r) == "path_memory_id" \in DOMAIN r.attrs

Protecting(anns, dss, protect) ==
  {r \in anns : \/ "annotations" \in protect
                \/ "evalLinks" \in protect /\ EvalLink(r)
                \/ "pathMemory" \in protect /\ PathMemory(r)}
  \cup {r \in dss : \/ "datasetAssociations" \in protect
                    \/ "snapshots" \in protect /\ r.snapshot # Absent
                    \/ "evalLinks" \in protect /\ (r.eval # Absent \/ EvalLink(r))
                    \/ "pathMemory" \in protect /\ PathMemory(r)}

\* storage_metadata_for_retention: the filter of the tenant, everything else default.
OfTenant(tenant) ==
  [where |-> IF tenant = Absent THEN <<>> ELSE [tenant |-> tenant], attrs |-> <<>>, deleted |-> FALSE]

\* The promises that protect something from this request, by what clients were told.
Shields(req) ==
  LET of(k) == {x \in promised : x.kind = k /\ Matches(k, x.rec, OfTenant(req.tenant))}
  IN {x \in of("annotations") : Protecting({x.rec}, {}, req.protect) # {}}
     \cup {x \in of("datasets") : Protecting({}, {x.rec}, req.protect) # {}}

Visible(m) == m.tail \cup UNION {Alive(m.segs, s) : s \in DOMAIN m.segs}

\* trace_search_spans, pin_snapshot, trace_time_bounds: traces with a row of the
\* tenant, by the newest of all their rows.
CandidateTraces(m, req) ==
  {t \in TracesOf({r \in Visible(m) : req.tenant \in {Absent, r.tenant}}) :
     req.cutoff = Absent \/ \A r \in Visible(m) : r.trace = t => r.ts <= req.cutoff}

Begin(p, m, req, policy, queue, current) ==
  /\ mem' = [mem EXCEPT ![p] = m]
  /\ job' = [job EXCEPT ![p] =
       [pc |-> "annotations", req |-> req, policy |-> policy, queue |-> queue, fresh |-> current,
        segs |-> m.segs, tail |-> m.tail, traces |-> CandidateTraces(m, req),
        anns |-> {}, deed |-> 0, deleted |-> {}, shields |-> Shields(req)]]

\* retention_plan_json: to apply takes a cutoff.
StartRequest(p, req, fresh) ==
  /\ p \in up /\ job[p] = Idle /\ jobs < MaxJobs /\ jobs' = jobs + 1
  /\ req.cutoff # Absent
  /\ Begin(p, View(p, fresh), req, Absent, <<>>, Current(p, fresh))
  /\ UNCHANGED <<requests, disk, up, faults, ghosts>>

\* storage_metadata_for_retention asks twice, and may refresh in between.
ReadAnnotations(p, fresh) ==
  LET m == View(p, fresh)  j == job[p] IN
  /\ j.pc = "annotations" /\ mem' = [mem EXCEPT ![p] = m]
  /\ job' = [job EXCEPT ![p] = [j EXCEPT
       !.pc = "datasets", !.fresh = @ /\ Current(p, fresh),
       !.anns = Answered(m, "annotations", OfTenant(j.req.tenant))]]
  /\ UNCHANGED <<requests, disk, up, jobs, faults, ghosts>>

MutDeletable(m, j) == j.traces \ TracesOf(Protecting(j.anns, {}, j.req.protect))

Deletable(m, j) ==
  LET dss == Answered(m, "datasets", OfTenant(j.req.tenant))
  IN j.traces \ TracesOf(Protecting(j.anns, dss, j.req.protect))

\* protected_trace_reasons and what is left of the candidates.
ReadDatasets(p, fresh) ==
  LET m == View(p, fresh)  j == job[p] IN
  /\ j.pc = "datasets" /\ mem' = [mem EXCEPT ![p] = m]
  /\ job' = [job EXCEPT ![p] = [j EXCEPT
       !.pc = "delete", !.fresh = @ /\ Current(p, fresh), !.anns = {}, !.traces = Deletable(m, j)]]
  /\ UNCHANGED <<requests, disk, up, jobs, faults, ghosts>>

\* The rows delete_segment_rows_for_traces is after: those of the snapshot's
\* segments, of traces without a row in the snapshot's tail.
Sought(j, s) == {r \in Alive(j.segs, s) : r.trace \in j.traces \ TracesOf(j.tail)}

\* Found again under the lock, in the segments that are still there.
DeletedNow(j) ==
  [s \in DOMAIN disk.segs |->
     IF s \in DOMAIN j.segs THEN Sought(j, s) \ disk.segs[s].dead ELSE {}]

\* For the ghosts: what a request did, by its number.
Deed(j) == <<j.deed, j.deleted>>

DeleteRows(p) ==
  LET j == job[p]
      now == DeletedNow(j)
      gone == TracesOf(UNION {now[s] : s \in DOMAIN now})
      kept == {x \in j.shields \cap promised : j.fresh \/ x.by = p}
  IN
  /\ j.pc = "delete"
  /\ disk' = [disk EXCEPT !.segs = [s \in DOMAIN disk.segs |-> [disk.segs[s] EXCEPT !.dead = @ \cup now[s]]]]
  /\ mem' = [mem EXCEPT ![p] = [Refreshed(p) EXCEPT !.segs = disk'.segs]]
  /\ job' = [job EXCEPT ![p] = [j EXCEPT
       !.pc = IF j.req.compact THEN "compact" ELSE "audit",
       !.deed = Len(erased) + 1, !.deleted = gone, !.shields = {}]]
  /\ erased' = Append(erased, gone)
  /\ wronged' = wronged \cup (gone \cap {x.rec.trace : x \in kept})
  /\ UNCHANGED <<requests, up, jobs, faults, promised, unrecorded>>

\* compact_deleted_segments, one segment after the other; a rewritten segment
\* has a new id.
CompactDeleted(p) ==
  LET worn == {s \in DOMAIN disk.segs : disk.segs[s].dead # {}} IN
  /\ job[p].pc = "compact"
  /\ IF worn = {}
     THEN /\ job' = [job EXCEPT ![p].pc = "audit"] /\ UNCHANGED <<disk, mem>>
     ELSE \E s \in worn :
       /\ disk' = WithSegment([disk EXCEPT !.segs = [x \in DOMAIN @ \ {s} |-> @[x]]], Alive(disk.segs, s))
       /\ mem' = [mem EXCEPT ![p] = [Refreshed(p) EXCEPT !.segs = disk'.segs]]
       /\ UNCHANGED job
  /\ UNCHANGED <<requests, up, jobs, faults, ghosts>>

\* sample_u64_set, sample_u64_slice.
Sample(ids) == {t \in ids : Cardinality({u \in ids : u < t}) < SampleLimit}

MutTruncated(j) == FALSE

Truncated(j) == Cardinality(j.traces) > SampleLimit \/ Cardinality(j.deleted) > SampleLimit

\* of is a ghost: whose audit this is.
AuditOf(j) ==
  [tenant |-> j.req.tenant, source |-> j.policy, attrs |-> <<>>, of |-> j.deed,
   deleted |-> Sample(j.deleted), count |-> Cardinality(j.deleted), truncated |-> Truncated(j)]

\* add_retention_audit; a save that fails leaves the request unrecorded.
WriteAudit(p) ==
  LET j == job[p]  m == Refreshed(p)  r == AuditOf(j) IN
  /\ j.pc = "audit"
  /\ Saving(p, Added(m, "audits", r), "audits", Numbered(m, "audits", r))
  /\ unrecorded' = IF faults' = faults THEN unrecorded ELSE unrecorded \cup {Deed(j)}
  /\ job' = [job EXCEPT ![p] = IF j.policy = Absent THEN Idle ELSE [j EXCEPT !.pc = "ran"]]
  /\ UNCHANGED <<requests, up, jobs, erased, wronged>>

-----------------------------------------------------------------------------
(* Policies.                                                               *)

\* retention_policy_effective_query: an absolute cutoff, or an age, at least 0.
\* The traces it is about are those of the caller's tenant, of every tenant if
\* the call has none; the tenant of the policy does not come into it.
EffectiveRequest(policy, tenant, now) ==
  [tenant |-> tenant, protect |-> policy.protect, compact |-> policy.compact,
   cutoff |-> IF policy.cutoff # Absent THEN policy.cutoff
              ELSE IF now > policy.age THEN now - policy.age ELSE 0]

\* 400, from retention_policy_effective_query or from retention_plan_json.
Runnable(policy) ==
  IF policy.cutoff # Absent THEN policy.cutoff # NoNumber ELSE policy.age \notin {Absent, NoNumber}

PolicyFilter(call) == [OfTenant(call.tenant) EXCEPT !.where = With(@, call.where)]

\* The policies that will run, in their order: one that fails uses up the limit too.
Due(m, call) ==
  LET due == {r \in Answered(m, "policies", PolicyFilter(call)) :
                (r.enabled \/ call.disabled) /\ r.next <= call.now}
      sorted == SetToSortSeq(due, LAMBDA a, b : a.next < b.next \/ (a.next = b.next /\ a.id < b.id))
      first == IF Len(sorted) <= call.limit THEN sorted ELSE SubSeq(sorted, 1, call.limit)
  IN SelectSeq(first, Runnable)

\* run_due_retention_policies_json: the list is made once, then each is run in
\* turn; a call that finds none only reads.
RunDue(p, call, fresh) ==
  LET m == View(p, fresh)  due == Due(m, call) IN
  /\ p \in up /\ job[p] = Idle /\ jobs < MaxJobs /\ jobs' = jobs + 1
  /\ due # <<>>
  /\ Begin(p, m, EffectiveRequest(Head(due), call.tenant, call.now), Head(due).id,
           <<call.now>> \o Tail(due), Current(p, fresh))
  /\ UNCHANGED <<requests, disk, up, faults, ghosts>>

\* mark_retention_policy_ran, and on to the next of the list.
MarkRan(p) ==
  LET j == job[p]  m == Refreshed(p)  now == j.queue[1] IN
  /\ j.pc = "ran"
  /\ \E i \in Find(m, "policies", j.policy, j.req.tenant) :
       LET r == m.list["policies"][i]
           new == [r EXCEPT !.last = now, !.next = now + r.interval, !.rev = @ + 1]
       IN Saving(p, [m EXCEPT !.list["policies"][i] = new], "policies", new)
  /\ job' = [job EXCEPT ![p] = IF Len(j.queue) = 1 THEN Idle ELSE [j EXCEPT !.pc = "next"]]
  /\ UNCHANGED <<requests, up, jobs, erased, unrecorded, wronged>>

\* A policy whose record was lost with a failed save is not marked.
MarkNone(p) ==
  LET j == job[p] IN
  /\ j.pc = "ran" /\ Find(Refreshed(p), "policies", j.policy, j.req.tenant) = {}
  /\ mem' = [mem EXCEPT ![p] = Refreshed(p)]
  /\ job' = [job EXCEPT ![p] = IF Len(j.queue) = 1 THEN Idle ELSE [j EXCEPT !.pc = "next"]]
  /\ UNCHANGED <<requests, disk, up, jobs, faults, ghosts>>

NextDue(p, fresh) ==
  LET j == job[p]  policy == j.queue[2] IN
  /\ j.pc = "next"
  /\ Begin(p, View(p, fresh), EffectiveRequest(policy, j.req.tenant, j.queue[1]), policy.id,
           <<j.queue[1]>> \o SubSeq(j.queue, 3, Len(j.queue)), Current(p, fresh))
  /\ UNCHANGED <<requests, disk, up, jobs, faults, ghosts>>

-----------------------------------------------------------------------------

\* open_durable loads the ledger; what cannot be read is an empty one.
Start(p) ==
  /\ p \notin up /\ up' = up \cup {p}
  /\ mem' = [mem EXCEPT ![p] = Refreshed(p)]
  /\ UNCHANGED <<requests, disk, job, jobs, faults, ghosts>>

Crash(p) ==
  /\ p \in up /\ faults < MaxFaults /\ faults' = faults + 1
  /\ up' = up \ {p} /\ mem' = [mem EXCEPT ![p] = Closed]
  /\ unrecorded' = unrecorded \cup
       (IF job[p].pc \in {"compact", "audit"} THEN {Deed(job[p])} ELSE {})
  /\ job' = [job EXCEPT ![p] = Idle]
  /\ UNCHANGED <<requests, disk, jobs, promised, erased, wronged>>

Next ==
  \E p \in Procs :
    \/ Start(p) \/ Crash(p) \/ ReadLedger(p) \/ Flush(p)
    \/ \E r \in Rows : Ingest(p, r)
    \/ (\E b \in AnnotationBodies : CreateAnnotation(p, b)) \/ (\E b \in DatasetBodies : CreateDataset(p, b))
    \/ \E b \in PolicyBodies : CreatePolicy(p, b)
    \/ \E id \in 1..MaxRecords["annotations"], c \in Changes : ChangeAnnotation(p, id, c)
    \/ \E req \in RetentionBodies, fresh \in BOOLEAN : StartRequest(p, req, fresh)
    \/ \E fresh \in BOOLEAN : ReadAnnotations(p, fresh) \/ ReadDatasets(p, fresh) \/ NextDue(p, fresh)
    \/ DeleteRows(p) \/ CompactDeleted(p) \/ WriteAudit(p) \/ MarkRan(p) \/ MarkNone(p)
    \/ \E call \in RunCalls, fresh \in BOOLEAN : RunDue(p, call, fresh)

Spec == Init /\ [][Next]_vars

-----------------------------------------------------------------------------
(* Properties.                                                             *)

\* No lost update: a record a client was told of, and whose save succeeded, is
\* in the ledger's file as it was left by its last change, whatever the other
\* processes wrote since, and no two records of the file share an id.
AckedKept ==
  LET ledger == RefreshLedger(EmptyMem, disk.file).list IN
  /\ \A x \in promised : x.rec \in ToSet(ledger[x.kind])
  /\ \A k \in Kinds : IsInjective([i \in DOMAIN ledger[k] |-> ledger[k][i].id])

\* A query answers, through the postings, with every record its final check
\* accepts, in every process and at every moment; but for a label stored both
\* with and without quotes, of which the postings find only the spelling asked for.
AnswersComplete ==
  \A p \in up : \A q \in Queries :
    MixedSpelling(mem[p].list, q[1]) \/ Answer(mem[p], q[1], q[2]) = Scan(mem[p], q[1], q[2])

\* Retention never deletes a trace that was protected, when the request began
\* and still when it deletes, by a record this process saved; nor, if its reads
\* were not served from an old view because a lock was busy, by any process.
ProtectedKept == wronged = {}

\* An audit tells of a deed: it has all the traces, or some of them, their number
\* and the word that there are more.
Tells(a, d) ==
  /\ a.of = d[1] /\ a.count = Cardinality(d[2])
  /\ a.deleted \subseteq d[2] /\ (a.truncated \/ a.deleted = d[2])

\* What each retention request deleted, and each policy that was run, is told by
\* an audit of its own on file, unless the request has yet to write it, or died
\* before it did, or its save failed.
AuditTrail ==
  LET audits == ToSet(RefreshLedger(EmptyMem, disk.file).list["audits"])
      writing == {Deed(job[p]) : p \in {x \in Procs : job[x].pc \in {"compact", "audit"}}}
      deeds == {<<n, erased[n]>> : n \in DOMAIN erased}
  IN \A d \in deeds \ (unrecorded \cup writing) : \E a \in audits : Tells(a, d)
=================================================================================
