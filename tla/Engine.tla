--------------------------------- MODULE Engine ---------------------------------
(***************************************************************************)
(* The write coordinator of yt-engine on one data directory, in one        *)
(* process that may crash and start again: ingest, flush, compaction,      *)
(* reclamation with gc.log, retention deletes, evaluation write-back, and  *)
(* snapshots.                                                              *)
(*                                                                         *)
(* Pinning is one step (module SnapshotPin takes it apart), the log is     *)
(* sound (module WalSync), and a manifest is saved when it is committed: a *)
(* crash in between loses both.  An event is its LSN; TraceOf says which   *)
(* trace it belongs to, and a trace has one span.  The rows of a segment   *)
(* are the set of its events, so two copies of an event in one segment are *)
(* one row; readers collapse them too (event_id).                          *)
(*                                                                         *)
(* A job that deletes looks through a snapshot like a reader: Clients are  *)
(* the readers and the retention jobs.                                     *)
(***************************************************************************)
EXTENDS Naturals, FiniteSets, FiniteSetsExt

CONSTANTS Readers,         \* threads that hold snapshots
          Jobs,            \* retention jobs
          Traces,
          TraceOf,         \* TraceOf[l]: the trace of event l
          FlushThreshold,  \* rows in the MemTable that make ingest flush
          MaxLsn,          \* bound: events ever ingested
          MaxSeg,          \* bound: segment ids ever allocated
          MaxVersion       \* bound: manifest versions

Lsns == 1..MaxLsn
SegIds == 1..MaxSeg
Clients == Readers \cup Jobs

ASSUME BoundsAreNat ==
  MaxLsn \in Nat /\ MaxSeg \in Nat /\ MaxVersion \in Nat /\ FlushThreshold \in Nat \ {0}
ASSUME EveryEventHasATrace == TraceOf \in [Lsns -> Traces]
ASSUME ReadersAreNoJobs == Readers \cap Jobs = {}

VARIABLES man,        \* the current manifest, in memory and in manifest.dat
          tail,       \* the committed tail of the log
          mem,        \* events in the MemTable
          rows,       \* rows[s]: events in the file of segment s
          files,      \* ids of the segment files that exist
          nextSeg,    \* next_segment_id in memory
          gc,         \* gc.log: segments with a MARK and no DONE
          dead,       \* dead_set
          wpc,        \* what the holder of write_lock is doing
          inputs,     \* segments of the compaction in progress
          victims,    \* what the reclamation in progress still has to unlink
          snap,       \* snap[c]: the snapshot of client c, if it has one
          job,        \* job[j]: the traces retention job j is to delete
          todo,       \* evaluation: [trace, seg] patches still to commit
          deleted,    \* history: events a retention job reported deleted
          leftover,   \* history: what was left of the traces it reported deleted
          reflushed,  \* history: events that two flushes wrote
          landed      \* history: traces whose score did reach a segment

fileVars == <<rows, files, nextSeg>>
clientVars == <<snap, job>>
history == <<deleted, leftover, reflushed, landed>>
vars == <<man, tail, mem, rows, files, nextSeg, gc, dead, wpc, inputs, victims,
          snap, job, todo, history>>

Entry(del, up) == [del |-> del, up |-> up]
EmptyManifest == [version |-> 0, segs |-> <<>>, wm |-> 0, next |-> 1]

Init ==
  /\ man = EmptyManifest /\ tail = 0 /\ mem = {}
  /\ rows = [s \in SegIds |-> {}] /\ files = {} /\ nextSeg = 1
  /\ gc = {} /\ dead = {} /\ wpc = "idle" /\ inputs = {} /\ victims = {}
  /\ snap = [c \in Clients |-> {}] /\ job = [j \in Jobs |-> {}]
  /\ todo = {}
  /\ deleted = {} /\ leftover = {} /\ reflushed = {} /\ landed = {}

-----------------------------------------------------------------------------
(* What a snapshot shows.                                                  *)

Live(m) == DOMAIN m.segs

\* fold_query: the rows of the segments but the deleted ones, and the MemTable
\* range above the watermark.
Visible(m, upTo, memory) ==
  (UNION {rows[s] \ m.segs[s].del : s \in Live(m) \cap files})
     \cup {l \in memory : m.wm < l /\ l <= upTo}

Seen(sn) == Visible(sn.man, sn.live, mem)
VisibleNow == Visible(man, tail, mem)

\* replay_wal_tail_into_memtable_locked.
Replayed == {l \in 1..tail : l > man.wm}

HeldSnapshots == UNION {snap[c] : c \in Clients}

\* min_retained_watermark and safe_version.
RetainedWatermark(m) == Min({m.wm} \cup {sn.man.wm : sn \in HeldSnapshots})
SafeVersion == Min({man.version} \cup {sn.man.version : sn \in HeldSnapshots})

-----------------------------------------------------------------------------
(* Committing.                                                             *)

MutForgetsNextId(segs, wm) ==
  /\ man.version < MaxVersion
  /\ man' = [version |-> man.version + 1, segs |-> segs, wm |-> wm, next |-> man.next]

\* commit_and_persist.
Commit(segs, wm) ==
  /\ man.version < MaxVersion
  /\ man' = [version |-> man.version + 1, segs |-> segs, wm |-> wm, next |-> nextSeg]

\* The segments `keep` as they are, and segment s with entry e.
With(keep, s, e) ==
  [x \in keep \cup {s} |-> IF x = s THEN e ELSE man.segs[x]]

\* A segment file is written under the next id before any manifest names it.
WriteSegment(content) ==
  /\ nextSeg <= MaxSeg /\ nextSeg' = nextSeg + 1
  /\ rows' = [rows EXCEPT ![nextSeg] = content]
  /\ files' = files \cup {nextSeg}

NewSegment == nextSeg - 1

-----------------------------------------------------------------------------
(* Ingest and flush.                                                       *)

\* ingest, one event per batch, which goes on to flush when the MemTable is
\* large, rows it keeps for old readers included.
Ingest ==
  /\ wpc = "idle" /\ tail < MaxLsn
  /\ tail' = tail + 1 /\ mem' = mem \cup {tail + 1}
  /\ wpc' = IF Cardinality(mem') >= FlushThreshold THEN "sealing" ELSE "idle"
  /\ UNCHANGED <<man, fileVars, gc, dead, inputs, victims, clientVars, todo, history>>

\* flush_memtable_locked, first half: every row in memory goes to the segment,
\* absorbed by an earlier flush or not.
Seal ==
  /\ wpc \in {"idle", "sealing"} /\ mem # {}
  /\ WriteSegment(mem)
  /\ wpc' = "sealed"
  /\ UNCHANGED <<man, tail, mem, gc, dead, inputs, victims, clientVars, todo, history>>

MutEvictToWatermark(wm) == mem' = {l \in mem : l > wm}

\* evict_up_to(min_retained_watermark), the new manifest being current.
Evict(wm) == mem' = {l \in mem : l > RetainedWatermark([man EXCEPT !.wm = wm])}

\* Second half: one commit adds the segment and moves the watermark.
CommitFlush ==
  /\ wpc = "sealed" /\ wpc' = "idle"
  /\ Commit(With(Live(man), NewSegment, Entry({}, {})), Max(mem))
  /\ Evict(Max(mem))
  /\ reflushed' = reflushed \cup {l \in mem : l <= man.wm}
  /\ UNCHANGED <<tail, fileVars, gc, dead, inputs, victims, clientVars, todo, deleted,
                 leftover, landed>>

-----------------------------------------------------------------------------
(* Compaction and reclamation.                                             *)

MutMergeKeepsDeleted(chosen) == UNION {rows[s] : s \in chosen \cap Live(man)}

\* The rows of the inputs that are still in the manifest, by its deletion
\* vectors of now, not of when the plan was made.
MergedRows(chosen) == UNION {rows[s] \ man.segs[s].del : s \in chosen \cap Live(man)}

MutMergeDropsPatches(chosen) == {}

MergedPatches(chosen) == UNION {man.segs[s].up : s \in chosen \cap Live(man)}

\* compaction_finish up to the commit.  compaction_begin only notes the inputs
\* it was given; by now some may have been compacted away.
Merge(chosen) ==
  /\ wpc = "idle" /\ chosen # {}
  /\ WriteSegment(MergedRows(chosen))
  /\ inputs' = chosen /\ wpc' = "merged"
  /\ UNCHANGED <<man, tail, mem, gc, dead, victims, clientVars, todo, history>>

\* The commit, and the inputs onto the dead list as of the version it made.
CommitCompaction ==
  /\ wpc = "merged" /\ wpc' = "idle"
  /\ Commit(With(Live(man) \ inputs, NewSegment, Entry({}, MergedPatches(inputs))), man.wm)
  /\ dead' = dead \cup {[seg |-> s, v |-> man.version + 1] : s \in inputs}
  /\ inputs' = {}
  /\ UNCHANGED <<tail, mem, fileVars, gc, victims, clientVars, todo, history>>

\* Every snapshot also has a pin file, and a pin file of any process stops reclaim.
CanReclaim(d) ==
  d.v <= SafeVersion /\ HeldSnapshots = {} /\ d.seg \notin Live(man)

\* reclaim looks at the readers once, before the first victim ...
Reclaim ==
  /\ wpc = "idle"
  /\ victims' = {d \in dead : CanReclaim(d)} /\ victims' # {}
  /\ wpc' = "reclaiming"
  /\ UNCHANGED <<man, tail, mem, fileVars, gc, dead, inputs, clientVars, todo, history>>

\* ... and takes them one after the other: MARK, unlink, DONE.
Mark(d) ==
  /\ wpc = "reclaiming" /\ d \in victims
  /\ gc' = gc \cup {d.seg}
  /\ dead' = dead \ {d} /\ victims' = victims \ {d}
  /\ wpc' = "marked"
  /\ UNCHANGED <<man, tail, mem, fileVars, inputs, clientVars, todo, history>>

UnlinkMarked ==
  /\ wpc = "marked" /\ wpc' = "unlinked"
  /\ files' = files \ gc
  /\ UNCHANGED <<man, tail, mem, rows, nextSeg, gc, dead, inputs, victims,
                 clientVars, todo, history>>

Done ==
  /\ wpc = "unlinked"
  /\ wpc' = IF victims = {} THEN "idle" ELSE "reclaiming"
  /\ gc' = {}
  /\ UNCHANGED <<man, tail, mem, fileVars, dead, inputs, victims, clientVars, todo, history>>

-----------------------------------------------------------------------------
(* Snapshots.                                                              *)

Running == wpc # "down"

Pinned == [man |-> [version |-> man.version, segs |-> man.segs, wm |-> man.wm], live |-> tail]

Pin(r) ==
  /\ Running /\ r \in Readers /\ snap[r] = {}
  /\ snap' = [snap EXCEPT ![r] = {Pinned}]
  /\ UNCHANGED <<man, tail, mem, fileVars, gc, dead, wpc, inputs, victims, job, todo, history>>

Drop(r) ==
  /\ r \in Readers /\ snap[r] # {}
  /\ snap' = [snap EXCEPT ![r] = {}]
  /\ UNCHANGED <<man, tail, mem, fileVars, gc, dead, wpc, inputs, victims, job, todo, history>>

-----------------------------------------------------------------------------
(* Retention deletes.                                                      *)

\* retention_plan_for_config pins a snapshot and picks traces it sees.
PlanRetention(j, traces) ==
  /\ Running /\ j \in Jobs /\ snap[j] = {}
  /\ traces # {} /\ traces \subseteq {TraceOf[l] : l \in VisibleNow}
  /\ snap' = [snap EXCEPT ![j] = {Pinned}]
  /\ job' = [job EXCEPT ![j] = traces]
  /\ UNCHANGED <<man, tail, mem, fileVars, gc, dead, wpc, inputs, victims, todo, history>>

\* Traces with a row in the MemTable range of the snapshot are skipped.
InMemory(sn) == {TraceOf[l] : l \in {x \in mem : sn.man.wm < x /\ x <= sn.live}}

\* The rows to delete in segment s, by the snapshot.
Planned(sn, traces, s) ==
  IF s \in Live(sn.man)
  THEN {l \in rows[s] \ sn.man.segs[s].del : TraceOf[l] \in traces \ InMemory(sn)}
  ELSE {}

\* A segment that was compacted away meanwhile is passed over.
AfterDelete(sn, traces) ==
  [s \in Live(man) |-> [man.segs[s] EXCEPT !.del = @ \cup Planned(sn, traces, s)]]

\* delete_segment_rows_for_traces with something to delete: commit, report the
\* traces that lost a row, drop the snapshot.
ApplyRetention(j) ==
  /\ j \in Jobs /\ wpc = "idle"
  /\ \E sn \in snap[j] :
       LET segs == AfterDelete(sn, job[j])
           newly == UNION {segs[s].del \ man.segs[s].del : s \in Live(man)}
           reported == {TraceOf[l] : l \in newly}
       IN  /\ \E s \in Live(sn.man) : Planned(sn, job[j], s) # {}
           /\ Commit(segs, man.wm)
           /\ deleted' = deleted \cup newly
           /\ leftover' = leftover \cup
                {l \in Visible([man EXCEPT !.segs = segs], tail, mem) : TraceOf[l] \in reported}
  /\ snap' = [snap EXCEPT ![j] = {}] /\ job' = [job EXCEPT ![j] = {}]
  /\ UNCHANGED <<tail, mem, fileVars, gc, dead, wpc, inputs, victims,
                 todo, reflushed, landed>>

\* ... and with nothing to delete, or a plan that is not applied.
EndPlan(j) ==
  /\ j \in Jobs /\ snap[j] # {}
  /\ snap' = [snap EXCEPT ![j] = {}] /\ job' = [job EXCEPT ![j] = {}]
  /\ UNCHANGED <<man, tail, mem, fileVars, gc, dead, wpc, inputs, victims, todo, history>>

-----------------------------------------------------------------------------
(* Evaluation write-back.                                                  *)

\* eval_and_writeback after its flush: the spans of a snapshot, each with the
\* first segment that has a row of it; the scorer picks some.
PlanScores ==
  /\ Running /\ todo = {}
  /\ \E chosen \in (SUBSET {TraceOf[l] : l \in VisibleNow}) \ {{}} :
       LET homes(t) == {s \in Live(man) : \E l \in rows[s] : TraceOf[l] = t}
       IN  todo' = {[trace |-> t, seg |-> Min(homes(t))] : t \in {u \in chosen : homes(u) # {}}}
  /\ UNCHANGED <<man, tail, mem, fileVars, gc, dead, wpc, inputs, victims, clientVars, history>>

\* with_patch on the chosen segment, if it is still there.
AfterUpgrade(x) ==
  [s \in Live(man) |->
     IF s = x.seg THEN [man.segs[s] EXCEPT !.up = @ \cup {x.trace}] ELSE man.segs[s]]

\* commit_upgrade, one span at a time.  A segment that is gone makes it pass over
\* the score, which is then lost although the span is reported scored.
CommitScore(x) ==
  /\ wpc = "idle" /\ x \in todo
  /\ Commit(AfterUpgrade(x), man.wm)
  /\ todo' = todo \ {x}
  /\ landed' = IF x.seg \in Live(man) THEN landed \cup {x.trace} ELSE landed
  /\ UNCHANGED <<tail, mem, fileVars, gc, dead, wpc, inputs, victims,
                 clientVars, deleted, leftover, reflushed>>

-----------------------------------------------------------------------------
(* Crash and restart.                                                      *)

\* What is in memory is lost, a half-done operation too.
Crash ==
  /\ Running /\ wpc' = "down"
  /\ mem' = {} /\ dead' = {} /\ inputs' = {} /\ victims' = {} /\ todo' = {}
  /\ nextSeg' = man.next
  /\ snap' = [c \in Clients |-> {}] /\ job' = [j \in Jobs |-> {}]
  /\ UNCHANGED <<man, tail, rows, files, gc, history>>

\* open_durable finishes the deletions of gc.log one after the other ...
UnlinkPending(s) ==
  /\ wpc = "down" /\ s \in gc \cap files
  /\ files' = files \ {s}
  /\ UNCHANGED <<man, tail, mem, rows, nextSeg, gc, dead, wpc, inputs, victims,
                 clientVars, todo, history>>

\* ... empties it, and recover replays the log after the watermark.
Restart ==
  /\ wpc = "down" /\ wpc' = "idle"
  /\ gc \cap files = {} /\ gc' = {}
  /\ mem' = Replayed
  /\ UNCHANGED <<man, tail, fileVars, dead, inputs, victims, clientVars, todo, history>>

Next ==
  \/ Ingest \/ Seal \/ CommitFlush
  \/ (\E chosen \in SUBSET (1..(nextSeg - 1)) : Merge(chosen)) \/ CommitCompaction
  \/ Reclaim \/ (\E d \in victims : Mark(d)) \/ UnlinkMarked \/ Done
  \/ (\E c \in Clients : Pin(c) \/ Drop(c) \/ ApplyRetention(c) \/ EndPlan(c))
  \/ (\E c \in Clients, traces \in SUBSET Traces : PlanRetention(c, traces))
  \/ PlanScores \/ (\E x \in todo : CommitScore(x))
  \/ Crash \/ (\E s \in gc : UnlinkPending(s)) \/ Restart

Spec == Init /\ [][Next]_vars

-----------------------------------------------------------------------------
(* Properties.                                                             *)

Entries == [del : SUBSET Lsns, up : SUBSET Traces]

\* Type correctness of the engine's state.
TypeOK ==
  /\ man.version \in 0..MaxVersion /\ man.wm \in 0..MaxLsn /\ man.next \in 1..(MaxSeg + 1)
  /\ Live(man) \subseteq SegIds /\ \A s \in Live(man) : man.segs[s] \in Entries
  /\ tail \in 0..MaxLsn /\ mem \subseteq 1..tail
  /\ rows \in [SegIds -> SUBSET Lsns] /\ files \subseteq SegIds
  /\ nextSeg \in man.next..(MaxSeg + 1)
  /\ gc \subseteq SegIds /\ dead \subseteq [seg : SegIds, v : 1..MaxVersion]
  /\ wpc \in {"idle", "sealing", "sealed", "merged", "reclaiming", "marked", "unlinked", "down"}
  /\ inputs \subseteq SegIds /\ victims \subseteq dead
  /\ \A c \in Clients : Cardinality(snap[c]) <= 1
  /\ job \in [Jobs -> SUBSET Traces]
  /\ todo \subseteq [trace : Traces, seg : SegIds]
  /\ deleted \subseteq Lsns /\ leftover \subseteq Lsns /\ reflushed \subseteq Lsns
  /\ landed \subseteq Traces

\* If everything stopped now, a restart would bring back every event that no job
\* deleted: the files, manifest.dat, gc.log and the log agree between any two
\* writes of a flush, a compaction, a reclamation or a restart.
RestartComplete ==
  (1..tail) \ deleted \subseteq
    Visible([man EXCEPT !.segs = [s \in Live(man) \ gc |-> man.segs[s]]], tail, Replayed)

\* A job that reported an event deleted has deleted it for good, through
\* compactions planned before the delete, restarts and re-opened files ...
DeletedStaysDeleted == deleted \cap VisibleNow = {}

\* ... unless two flushes wrote the event.
DeletedStaysDeletedUnlessReflushed == deleted \cap VisibleNow \subseteq reflushed

\* A trace that retention reports deleted is gone whole, twice flushed events
\* aside: "traces still in the MemTable are skipped, so that no trace is half
\* deleted and half alive".
NoHalfDeletedTrace == leftover \subseteq reflushed

Patched(t) == \E s \in Live(man) : t \in man.segs[s].up

\* A patch that reached a segment is never lost: compactions, also those planned
\* before it was committed, carry it to the new segment; restarts keep it.
LandedPatchKept == \A t \in landed : Patched(t)

\* The engine implements TraceStore: whatever it does to its files, an open
\* snapshot goes on showing the same events, and those are all there should be.
Store == INSTANCE TraceStore
           WITH accepted <- tail,
                doomed <- deleted,
                view <- [c \in Clients |-> {Seen(sn) : sn \in snap[c]}]

ImplementsTraceStore == Store!Spec

=============================================================================
