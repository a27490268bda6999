# Verification of yiTrace

yiTrace stores traces (spans, logs, evaluation scores) in a data directory that one or
several processes open as an embedded engine: a write-ahead log, a MemTable, immutable
segment files and a copy-on-write manifest, with snapshots for readers, compaction, deferred
reclamation of dead segments, retention deletes and evaluation scores patched onto segments.
Around it stand the read models (filter index, trace rollup, full-text index), a metadata
ledger, the views of the console, and SDKs that deliver events from traced programs. These
TLA+ modules model the engine and its surroundings; TLC checks them on small instances, and
TLAPS proves the snapshot protocol, the process lock, the shared log, the write coordinator
with its refinement, the shared directory and the buffered exporter for every instance.

## The system

Paths are under `src/yitrace-engine/crates/` unless they start with `src/`; "engine/" is
`yt-engine/src/engine/`, "http/" is `yt-engine/src/http/`.

| component | state | operations | what makes it hard |
|---|---|---|---|
| manifest (`yt-manifest`) | current manifest pointer, global epoch, committed tail, registry of reader slots | `commit`, `pin_snapshot`, `Snapshot::drop`, `safe_version`, `min_retained_watermark`, `can_reclaim` | pinning reads epoch, version, pointer and tail in separate atomic accesses while the writer commits and scans the registry |
| MemTable (`yt-memtable`) | rows by LSN | `insert`, `read_range`, `evict_up_to` | must keep rows for the oldest snapshot that does not have them in a segment |
| log (`yt-wal`) | `wal.log`, the state file of a checkpoint, next LSN, scanned length | `open`, `append_committed`, `replay_after`, `checkpoint`, `refresh_from_disk_after` | torn frames, failed writes, checkpoints ahead of the manifest, several processes appending |
| write coordinator (`engine/write_*.rs`) | all of the above, dead set, id counters | `ingest`, `flush_memtable`, `compaction_begin`/`finish`, `commit_delete`, `commit_upgrade`, `reclaim`, `recover`, `refresh_from_disk` | crash between any two file operations; jobs planned on a snapshot and applied later; other processes committing |
| segment store, manifest file (`segstore.rs`, `persist.rs`) | one file per segment, `manifest.dat` | write whole, read, unlink | tmp + fsync + rename |
| gc log (`gc_log.rs`) | `gc.log` | `mark`, `done`, `scan` | crash between MARK, unlink and DONE |
| process lock (`process_lock.rs`) | a directory, its `owner.json`, reader pin files | `acquire`, `try_acquire`, guard drop, clearing of stale locks, pin files | clearing is not atomic; the holder may die anywhere; a pin file takes no lock |
| backup (`engine/write_recover_commit.rs`) | none | copies files | the engine keeps running |
| folded reads (`engine/write_fold.rs`, `write_read_query.rs`, `yt-core`) | none | scan or look up by key, dedupe by event id, patches, last non-null | skips by bounds; an index newer than the snapshot |
| filter sidecar (`filter_*.rs`) | rows and postings, a file, a cache of posting sets | apply, rebuild, candidates, save, load | budgets, disabled postings, external sort |
| trace rollup (`trace_rollup*`) | a row per span, pages of a file, cached session lists | apply, query, save, load | rows in memory over pages on disk |
| full-text index (`bm25*.rs`, `tokenizer_cn.rs`) | base, delta, counts, query cache | index, search, reset, save, load | a search takes the lock several times; pruning; single flight |
| sidecars (`engine/write_sidecars.rs`), session index (`coordinator_state.rs`) | files stamped with version and watermark; dirty flag | load, rebuild, persist | a stale file accepted for a newer manifest |
| metadata ledger (`metadata*`, `engine/write_metadata.rs`) | annotations, datasets, policies, audits in one file; postings | create, update, query, save the whole file | several processes rewrite it; a save may fail |
| retention (`engine/write_retention.rs`, `http/retention_*.rs`) | policies, audits | plan, protect, delete, compact, audit, run due policies | many commits, any of which may be the last |
| console, paths, trajectories (`engine/write_console.rs`, `http/*_api.rs`) | none | lists, views, groups, loops, differences | the same number by several routes |
| evaluation (`engine/write_eval_dataset.rs`) | none | score spans of a snapshot, patch a segment | the segment may be gone at commit |
| gateway, wire format, OTLP (`http.rs`, `wire.rs`, `otlp.rs`) | none | parse a batch, route it | three spellings of one event |
| SDKs (`src/yitrace-sdk`) | tracer scopes, buffers, bounded queue, spool directories | enter, leave, enqueue, flush, close, consume | full queue, retries, late answers, crashes, errors in traced code |
| vector index, bindings, console front end, alternative stores | | | not modelled |

How they interact: a client calls the coordinator. `ingest` takes the cross-process lock
`write`, then the in-process `write_lock`, refreshes from disk what other processes did,
updates the read models in memory, appends to the log, inserts into the MemTable and
publishes the committed tail. A flush writes a segment, commits a manifest version, saves
it, checkpoints the log, evicts the MemTable up to the oldest watermark that a reader slot
still asks for, and saves the sidecars that are loaded. A compaction commits the merged
segment and puts its inputs on the dead set; `reclaim` unlinks those no snapshot of any
process can reach, through the gc log. A reader never takes the write lock: it pins a
snapshot in the registry, leaves a pin file for other processes, and reads segment files and
the MemTable range above its watermark; searches and lists go to the read models first.

Correct means: an acknowledged event is never lost, from the traced program on; a pinned
snapshot goes on showing the same events, and its files stay on disk; what a job reported
deleted stays deleted, what it reported scored is scored, and what was protected is kept; a
restart after a crash anywhere gives the same store; two processes never write at once and
never hand out one LSN twice; an index, a cache or a page answers as a scan of the events
would.

## The modules

| module | models | extends | proofs |
|---|---|---|---|
| `SnapshotPin` | pinning against one writer, every atomic access a step | | `SnapshotPinProof` |
| `ProcessLock` | the directory lock, every file-system call a step | | `ProcessLockProof` |
| `WalSync` | the log shared by several processes, with crashes | | `WalSyncProof` |
| `Engine` | the coordinator: all its jobs, files, and crashes of one process | | `EngineProof` |
| `TraceStore` | abstract: what the store promises its users; `Engine` implements it | | |
| `SharedStore` | several coordinators on one directory: refresh, pin files, reclaim, backup | | `SharedStoreProof` |
| `MetadataLedger` | the ledger as a value: file versions, postings, filters | | |
| `Retention` | the ledger shared by processes, and retention requests | `MetadataLedger` | `RetentionProof` |
| `ReadModels` | rollup, session index and loading of sidecars along a writer's life | | `ReadModelsProof` |
| `Tokenizer`, `TextIndex` | cutting a text; the index searched by threads while it is written | `Tokenizer` | |
| `FilterIndex`, `RollupIndex` | the filter sidecar and the trace rollup as operators | | |
| `Sidecars` | both at work: records, rebuilds, saves, crashes, replays, queries | `RollupIndex`, `FilterIndex` | |
| `Queries` | folded reads and the console's views over them, with an older snapshot | `Sidecars` | |
| `TracePaths` | trees, graphs, filtered searches, trajectories, loops | `Queries` | |
| `BufferedExporter` | the Python SDK's background writer, every critical section a step | | `BufferedExporterProof` |
| `WireFormat`, `Exporters` | an event in JSON, OTLP and the fold; the exporters as operators | | |
| `Delivery` | a traced program, its exporter, the network, the spool and its consumer | `Exporters`, `WireFormat` | |

`MCx.tla` only gives model values for TLC. Definitions named `Mut...` stand before the
definition they vary; each is a plausible bug of that code, and the property paired with it
in `PROJECT.json` fails under it. A property that has several named parts
(`IndexesFaithful == RollupCovers /\ ...`) has a mutant for each of them.

### SnapshotPin

State: the current manifest, the epoch, the committed tail, the MemTable, the rows and files
of the segments, the dead set, and for the thread that holds `write_lock` its program
counter `wpc`, the manifest it is about to commit (`draft`) and its walk over the registry
(`scan`). Per reader r: where it is in the pin loop (`pc[r]`), the manifest it dereferenced
(`held[r]`), and what it has read and announced (`localEpoch[r]`, `minVersion[r]`,
`live[r]`). What its registry slot shows is a function of these. A reader's actions are the
lines of `pin_snapshot`: read the epoch (a), take the floor version and announce it (b),
read the pointer (c), store version and watermark in the slot (d), re-check pointer and
epoch (f), read the live tail; a failed check rolls back and starts over. The writer
ingests, commits flushes, compactions and chunk edits in the order swap pointer, then bump
epoch, and scans the registry one slot at a time, once to find out how far to evict and once
what may be reclaimed. The registry is locked while it is scanned, so a reader can announce
and leave only between scans, but the atomics of a slot it has already announced change
freely.

The writer's batches are single events. Buffer pins and the pin files of other processes,
which only make reclaim stricter, are left out: what is shown here is that the registry
alone is enough.

### ProcessLock

State: whether the directory exists, whose pid is in `owner.json`, who is alive, and where
each actor is. `create_dir` is atomic; `remove_dir_all` is an unlink and an rmdir that fails
if a file is there again. A process may die at any point, also while it removes, and its pid
is not reused. An owner looks dead to a process whose `kill(pid, 0)` does not return 0
(`process_lock.rs:346`), which is also its answer for a live owner of another user (EPERM):
`MaySignal` says who may signal whom, and the run has a process of another user. The data
directory is one that all users may write; otherwise the second could not open the store.

### WalSync

State per process (`Down` when it does not run): its next LSN, scanned length, checkpoint,
MemTable and the manifest it knows; on disk: the log, the checkpoint file (`NoState` while
there is none) and the saved manifest. A frame is two cells of the log file, so that half a
frame and an offset into the middle of one exist. A frame is whole, torn (the crash came in
the middle) or lost (write or fsync failed but the batch was acked). An ingest or a flush is
one step for the process that holds the lock `write`, except where a crash can fall between:
append and ack, commit and checkpoint. A batch has zero, one or more events; an empty one
takes an LSN all the same. A flush here evicts as if there were no readers. As long as no save
of the manifest ever succeeded there is no `manifest.dat`, and a refresh or recovery keeps the
manifest the process has in memory (`Found`; `write_open.rs:338`, `write_recover_commit.rs:22`):
after a first save that failed, the process that flushed goes on with its segments. A file
that is there can be read, as a save writes it beside, syncs and renames it.

### Engine and TraceStore

State: the manifest (segments with deletion vector and patches, watermark, next segment id),
the log's tail, the MemTable, the content of segment files and which exist, gc.log, the dead
set, the writer's program counter, and the clients: snapshots, retention jobs, one
evaluation. Flush, compaction and reclaim are split wherever a crash leaves files and
manifest apart: segment written and not committed; MARK written, file unlinked, DONE
written. `compaction_begin` only remembers the input ids, so the model lets a compaction
finish with any ids ever allocated, also ids that are gone.

Abstractions: one process; one event per batch; a trace has one span; a pin is one step
(`SnapshotPin` justifies it) and the log is sound (`WalSync` says when); saving the manifest
succeeds. `Reclaim` looks at the readers once and then takes its victims one by one, as the
code does, so a reader may pin in between. A patch is "this trace has its score"; the order
of patches is left out. `commit_delete` and `commit_flush`, which only tests and examples
call, add no behaviour to those of retention and flush.

`TraceStore` has three variables: how many events were accepted, which were deleted by a
job, and what each client's view shows. The mapping is `accepted <- tail`, `doomed <-
deleted`, `view <- ` what each open snapshot would read now, from the files and the MemTable
as they are now. So the refinement says that a flush, a compaction, an eviction or a
reclamation never changes what an open snapshot reads.

### SharedStore

State: the files of the directory, who holds the lock `write` across steps (only a
reclamation does), per process its view (manifest, tail, MemTable, dead set and the version
it was rebuilt from), the snapshot it holds and what that showed when it was taken, and a
backup in progress. Coming up to date is `Here(p)`, which every locked operation applies
first: a newer manifest rebuilds everything volatile, a longer log only adds its tail. A pin
is two steps, the refresh and the pin file, since no lock covers both. Reclaim looks for pin
files once and then unlinks segment after segment. A backup is three copies. Crashes fall
anywhere, also between a segment file and its manifest and between MARK and DONE. What
`Engine` splits inside one process is one step here.

### MetadataLedger and Retention

`MetadataLedger` has the ledger as a value: four lists of records with their next ids,
`Encode` and `Decode` for both versions of the file, the postings of `metadata_index.rs` as
functions from what a filter asks for to ids, and `Answer` (candidates, then the final
check) beside `Scan` (the final check alone). An attribute's value is its JSON text, since
the postings and the final check compare it differently. `Retention` puts it to work: `disk`
is what all processes share, `mem[p]` what p saw of it at its last refresh. A ledger write
is one step under the lock; a read refreshes only if both locks are free. A retention request is
a job of many steps: search and pin, read annotations, read dataset associations, delete,
compact, audit, mark its policy. Saves fail (`persist_metadata` drops the error) and processes
crash between any two steps. `run-due` makes its list of due policies once and runs one job
after the other. A job is about the traces of the *caller's* tenant, of every tenant if the
caller has none (`retention_api.rs:409`), whatever tenant its policy is of; the limit counts
policies that cannot be run (`Runnable`), and a disabled one runs if the call says so. Events
of a trace come at any time, also when retention has already deleted the trace's earlier ones.

### ReadModels

State: the log and the manifest with the rows of its segments, one after the other in the
order of segment ids; `derived`, the read models in memory (`rollup` and `ready`; `docs` and
`seen` of the full-text index and `stale`; `sessions` and `dirty` of the session index) and
the two sidecar files with the version and watermark they were saved under; where the writer
is and what it has indexed and not yet logged (`pending`); and per reader the snapshot it
lists sessions from. Ingest is two steps, because readers see the indexes before the event is in
the log; flush, delete and compaction are two, because a crash can fall between the manifest
and the sidecars. `EnsureRollup` and `EnsureScan` load a sidecar or rebuild, `Restart` loads
nothing unless the log has a tail, and `ListPin`, `ListLook`, `ListRebuild` are the three
looks that `console_sessions` takes at shared state. What a query ought to answer is
`Folded(Visible)`: each visible event once, in the order of `seq`. The code applies records in
a loop; `ApplyAll` says what the loop leaves, of every field the last value that is not null,
and the assumption `ApplyAllIsOneByOne` of `MCReadModels` compares the two on every sequence of
up to `MaxRows` events. A compaction merges its inputs in the order of their ids; its one
caller passes one input at a time.

Abstractions: one process; a batch is one event; a span has a session, one token count and
the kinds of event it has seen, which stand for all fields that are last-non-null, summed or
flags; an event with text is a document of its span. The inside of the rollup and of the
full-text index is in `Sidecars` and `TextIndex`.

### Tokenizer and TextIndex

`Tokenizer` cuts a sequence of characters into terms; the dictionary cut is the dynamic
program of `ChineseTokenizer::cut` as a recursive function from the end. `TextIndex` has the
state of `Bm25Index` (`ix`: base read from the file, delta, document lengths, counts; the
query cache and the searches in flight), threads that search it, and a writer whose
operations are lists of critical sections (`todo`): index an event, reset, rebuild, load,
save. A search is one step per critical section: look into cache and flights, count, fetch
terms, score batch by batch of blocks with the pruning bounds of block-max and WAND, store,
leave. `Exact` scores every posting; it is what the others are compared with. `ln` and the
length norm are integer functions that grow the same way.

### FilterIndex, RollupIndex and Sidecars

`FilterIndex` has the rows and postings, the two budgets and the postings given up,
`Candidates` and its hints and shortcuts, the sorted runs, their merge and the file with its
cache. `RollupIndex` has the row of a span, the pages of the file with their bounds, the
page cache with its second chance, queries over rows in memory and on disk, and the
aggregation of sessions with its cache. `Sidecars` runs both along one script of records:
records are ingested in that order; the first `wm` are in segments, those up to `top` in
the MemTable; deletes, patches and compactions rebuild; the files are saved one after the
other and stamped; a restart loads what has the right stamp and replays the log onto it
record by record, with queries in between.

### Queries and TracePaths

`Queries` adds the segments (for their time bounds) and one reader with a snapshot. A view
is an operator on the state: the scan `FoldQuery`, the read by keys `IndexedRead`, the point
read, and over them the list of traces, the trace view, sessions, turns, aggregates.
`TracePaths` adds what is drawn of a trace (tree, execution order, graph of agents), filtered
text searches (by the filter's keys, by the shortcut, by growing pools over a given
ranking), trajectories with their groups and differences, loops and tasks, whose ids are JSON
texts: a label, and whether the text is that label as a quoted string. They add no state:
their properties are evaluated in every state of `Sidecars` in which no save is under way.
The constants 64 (depth), 50 and 4 (pool) are parameters.

### BufferedExporter

State: the queue of sequence numbers, the three counters of the flush barrier, the threads'
program counters and `waiting`, the set of threads asleep on the condition variable. A
critical section is one step up to its `wait`; `notify_all` empties `waiting`; a thread in
`waiting` takes no step. A lost wake-up is therefore visible as a thread that stays there. A
thread that flushes may instead call `request_flush` or `close`, with and without a timeout.
The store takes or refuses each attempt at a batch; the wait between attempts and the error
callback have no effect on the state and are left out. The branch of `_run` that catches
what `_write_batch` itself raises is unreachable, since `_write_batch` catches everything.

### WireFormat, Exporters and Delivery

`WireFormat` has the JSON of the three SDKs (numbers, digits in strings, nulls, missing
fields), what the gateway makes of it, OTLP spans as two events, and the fold. `Exporters`
has every other exporter as operators on one record: a result is [st, how], how being "ok",
"error" or "crash". `Delivery` is the whole way: a program of one thread opens, uses and
leaves spans, raises errors and catches them (Python exceptions and BaseExceptions,
promises, panics, Rust errors that are values), an exporter that the service or the program
chose delivers, a request may be lost, arrive and look lost, or arrive later, the spool's
consumer takes files through its directories, and both sides die or lose power.

## The runs

| run | shows | bounds |
|---|---|---|
| `snapshot_pin` | `SnapshotComplete`, `HeldSegmentsOnDisk`, `CurrentComplete`, `PinTerminates`, `TypeOK` | 2 readers, 1 event, 2 segments, 3 manifest versions (0 to 2) |
| `process_lock` | `ExclusiveUnlessMisjudged`, `StaleLockCleared`, `TypeOK` | 3 processes, 1 of them another user's, 2 deaths |
| `wal_sync` | `AckedDurableWhenSound`, `PrefixDurable`, `LockHolderSeesAll`, `NothingTwice` | 2 processes, 3 events, 3 frames, 1 torn frame, 1 failed write, 1 failed manifest save |
| `engine` | `RestartComplete`, `DeletedStaysDeletedUnlessReflushed`, `LandedPatchKept`, `ImplementsTraceStore` | 4 events of 2 traces, 3 segments, versions to 3, flush at 2, 1 reader, 1 retention job |
| `shared_store` | `SnapshotStable`, `RefreshExact`, `QuietBackupRestores` | 2 processes, 2 LSNs, 2 segments, 1 crash |
| `shared_backup` | `BackupComplete` fails | as `shared_store` |
| `ledger` | `AckedKept`, `AnswersComplete`, `ProtectedKept`, `AuditTrail` | 2 processes; up to 2 annotations, 1 dataset association, 3 stored policies of 2 tenants (or 2 new ones); 2 ledger requests or events, 1 update, 1 retention request or `run-due` call (of a tenant with the disabled policies, or of none; limit 2), 1 fault |
| `read_models` | `IndexesFaithful`, `SessionsFaithful` | 3 events of 2 spans in 4 records (one event may come twice), 2 sessions, versions to 4, flush at 2 rows, 1 reader |
| `text_index` | `IndexExact`, `SharingSafe`, `AnswersExact` | 2 threads, 3 events of 2 documents, blocks of 1, batches of 2, versions to 2, dictionary tokenizer |
| `queries` | `SidecarsExact`, `PointReadExact`, `WindowCovers`, `ViewsAgree`, `PathsComplete`, `SearchRoutesAgree` | 4 records of 3 spans in 2 traces, 2 tenants, versions to 3, a snapshot of version 1, depth limit 2, pools growing from 1 by factor 2 |
| `buffered_exporter` | `FlushBarrier`, `AllCounted`, `NobodyWaitsForever` | 2 producers, 1 flusher, batches of 1 or 2, queue and write batch of 2, 1 retry, 4 events |
| `delivery` | `NothingLostSilently`, `SpansWhole`, `SpoolDrains` | every kind of exporter, 2 spans, 1 operation, 1 attribute, bodies and batches of 2, buffer of 3, 2 faults |

`SidecarsExact`, `IndexesFaithful`, `SessionsFaithful`, `SharingSafe`, `AnswersExact`,
`PathsComplete`, `NothingTwice`, `NothingLostSilently`, `SpansWhole` and
`NobodyWaitsForever` are conjunctions of named parts, each with its own comment; naming a
part in the cfg checks it alone. `TypeOK` of `WalSync`, `Engine`, `BufferedExporter` and
`ReadModels` is no part of a run; TLC found it true with the same bounds.

Why the bounds are enough. A reader of `SnapshotPin` only interacts with the writer through
its slot, so two readers give every order of slots that a scan visits, and two versions
after the first let one pin lose its race, start over, and be overtaken again; the theorems
below have no bounds. Three actors are the fewest for the race on a stale lock (the dead
owner and two waiters), and with two deaths the one that clears may die in the middle. Two processes and three frames give each log operation a predecessor
of its own, one of the other process and a torn one. In `Engine`, three segments are two
flushes and a compaction (or the reverse: a compaction of a segment that a delete, a patch
or a restart touched), three commits put a delete or a patch between a plan and its
compaction, and four events leave a tail behind the second flush. In `SharedStore` the
second process needs one commit to make the first one's view old and one segment to reclaim
under its snapshot. Four events overflow a queue of two from two producers and make the
writer take two batches. In `ReadModels` one span starts in a session and ends in another
with other tokens, while the second span stays, so that every branch of `apply_span` is
taken; four versions allow a flush, a delete, a compaction and another flush with restarts
between, and four records leave a tail behind two flushes, or room for a repeated event. In
`TextIndex` blocks of one document and a batch of two give a search three critical sections
with updates, resets and reloads between them, and the third event gives a known document
the searched terms; two threads are an owner and a waiter. The script of `queries` has two
tenants in one trace, a loop whose id is once a string and once a number, a span that changes tenant, one that is its own parent and one whose
parent is missing, reported, zero and missing tokens, and a filter on an attribute that is
not indexed; its budgets make one posting overflow and one set be evicted. In `Delivery` two
spans nest or follow each other, an error may be raised in either, and two faults are a lost
answer and a death. In `ledger` one record of each kind is enough for a lost update between
two processes, and the three files the store may start from are none, one of the earlier
format, and one with three policies of two tenants, all of them due, of which one is disabled
and cannot be run; so a `run-due` call of one tenant runs one of them, a call without a
tenant two in a row, each with a deletion and an audit of its own.

Counters that the bounds stop would go on in the program; every bound is a guard named
`Max...` (or the length of a script) and cuts off further operations, so a run may end in
states with few successors. Only `Delivery` may really stop: a program that is dead or done
with nothing left to consume.

The histories `deleted`, `leftover`, `reflushed`, `landed`, `acked`, `raced`, `given`,
`offered`, `promised`, `wronged`, `erased`, `unrecorded`, `applied`, `emitted`, and the
fields `tainted`, `saw`, `current`, `quiet`, `complete` and `pure` are not in the program;
they record what was promised or seen.

### Fairness

`PinTerminates` assumes that a reader in the pin loop keeps taking steps
(`WF_vars(PinStep(r))`) and that the writer finishes what it began
(`WF_vars(WriterContinues)`), as the operating system's scheduler gives. The program's own
loop is lock-free, not wait-free, so the property says that a pin ends if from some time on
the writer starts nothing new (`<>[](wpc = "idle")`); nothing is assumed about who gets the
registry's mutex first. `StaleLockCleared` assumes that each live actor inside an
acquisition keeps running and retrying and that a guard is dropped in the end; an actor that
gives up or dies is never forced to do anything, and a directory that a second death left
without an owner (`Abandoned`) is excepted. In `BufferedExporter` a thread that is not
asleep runs and an attempt of the writer ends; nobody has to export or flush, no timeout has
to strike, and no collection window has to expire (`flush_interval` may be an hour).
`ProducerReturns` alone adds, as its premise, that windows expire. `SpoolDrains` assumes
that the consumer goes on and is restarted (`WF_vars(Consume)`), which is its loop; the
store's refusals count as faults and are therefore finitely many. The other runs check
safety only and assume nothing.

## Disagreements found

One run is expected to fail: `shared_backup`. A backup copies segments, then the log, then
the manifest, so a flush in between gives a copy whose manifest names a segment that it does
not have (`PROJECT.json` quotes the comment). `QuietBackupRestores` is the part that holds.

Nine more definitions state what a comment, a document or a test says and are false. They
are in no run, because the passing runs check the same claim with its exception spelled out.
To see a counterexample, put the name in the run's cfg:

| definition | run | says | the code |
|---|---|---|---|
| `MutualExclusion` | `process_lock` | one holder at a time (`process_lock.rs:3`) | two waiters that see the same dead owner may each remove a lock, the second one the first one's (`process_lock.rs:322`), and a live owner of another user is taken for dead without any race (`:346`); passing: `ExclusiveUnlessMisjudged` |
| `DeadLockCleared` | `process_lock` | a lock whose owner has evidently died is cleared (`process_lock.rs:5`) | a process that dies between unlinking `owner.json` and the rmdir, or between `create_dir` and writing its pid, leaves a directory without a pid, which nobody clears (`process_lock.rs:312-318`); passing: `StaleLockCleared` |
| `AckedDurable` | `wal_sync` | an acknowledged write is durable (`src/yitrace-engine/README.md:46`, `yt-wal/src/lib.rs:9`) | frames appended behind a torn tail are not replayed (`yt-wal/src/lib.rs:377`); write and fsync errors are dropped (`:150`, against `:7`); passing: `AckedDurableWhenSound` |
| `DeletedStaysDeleted` | `engine` | a soft delete hides the rows (`src/yitrace-engine/README.md:49`) | a row in a segment and, for an older snapshot, still in the MemTable is flushed once more without its deletion (`write_ingest_flush.rs:237`, `:268`); passing: `DeletedStaysDeletedUnlessReflushed` |
| `NoHalfDeletedTrace` | `engine` | a trace with rows in the MemTable is skipped whole (`write_retention.rs:43`, `src/docs/API_REFERENCE.md:811`) | what is hot is looked up before the delete takes the lock (`write_retention.rs:57`) |
| `PinProtects` | `shared_store` | reader pins protect a snapshot from every process (`src/docs/API_REFERENCE.md:33`) | the pin file is made after the refresh, without a lock (`write_open.rs:672`), and reclaim looks for pins once (`write_recover_commit.rs:306`); passing: `SnapshotStable`, for snapshots whose manifest was current when the pin file appeared |
| `RollupCountsOnce` | `queries` | retries and replays are idempotent (`src/docs/API_REFERENCE.md:192`) | a rollup rebuilt by a compaction has the rows of the MemTable in it and is saved under the watermark; after a crash the log's tail is counted again |
| `ListedLoopsFound` | `queries` | the page of a loop is a 404 only if the tenant has no such loop (`src/docs/API_REFERENCE.md:689`) | the list groups by a label made of the JSON text (`path_api.rs:12`), while the page quotes the label it is asked for (`:50`) and the rollup compares texts (`trace_rollup.rs:558`): a loop whose id is the number 5 is listed as `5`, and its page is a 404; passing: `PathsAgree`, for the spans that spell it as a string |
| `TsDropsOldest` | `delivery` | what is dropped at `maxBuffered` is the oldest batch (`src/yitrace-sdk/typescript/src/exporter.ts`) | after a failed request the batch is put back behind what came meanwhile; passing: `DropsOldest` for the other exporters |

`ProducerReturns` fails too if `BatchSizes = {3}` with a queue of 2: a batch larger than the
queue waits for ever (`exporter.py:170`, against `test_sdk.py:648`); the run's batches fit.

Further exceptions in passing properties, and behaviour that the models have and a reader may
not expect:

- A score whose segment was compacted away before its commit is written nowhere, and the
  span is reported scored (`write_eval_dataset.rs:43-53`). `LandedPatchKept` speaks of scores
  that did reach a segment.
- The rollup applies events in the order of arrival and does not look at event ids, so a
  retried event puts a span's old tokens and session back, while a folded read ignores the
  retry. `RollupExactInOrder` is about stores without that.
- The session list can be stale without being marked dirty: `console_sessions` rebuilds it
  from a snapshot that may be older than the last write and clears the mark
  (`write_console.rs:192-199`), and the scan after a restart indexes deleted rows and starts
  from a clean mark (`write_open.rs:630`). Both are `tainted` in `ReadModels`.
- The pin file of a live reader is cleared like a lock if its process may not be signalled
  (`process_lock.rs:223`); `SharedStore` is about processes of one user.
- A refresh for another process's commit rebuilds the MemTable and drops rows that an older
  snapshot of this process still reads (`write_open.rs:386`, `:410`); `SnapshotStable` says
  so. The dead set is in memory only, so that a crash leaves files that nothing unlinks.
- Ledger: a label stored as `5` and as `"5"` is found in one spelling only
  (`MixedSpelling`); a record whose save failed lives until the next refresh, its id is then
  given again; a ledger file that cannot be read counts as empty and is overwritten; an
  annotation made between a retention job's reading and its delete does not protect; a read
  that skips its refresh because a lock is busy may miss another process's protection; rows
  of other tenants under the same trace id are deleted with it; two `run-due` calls both run a
  due policy; a crash between delete and audit leaves the deletion unrecorded. A `run-due`
  call without a tenant runs the policies of every tenant, each over the traces of all tenants
  (`retention_api.rs:371`, `:409`); no document says otherwise. `ProtectedKept` covers such
  calls: what protects a trace is then a record of any tenant.
- Windows: a read by time answers with the whole rows of the segments that overlap but only
  with the rows in the window of the MemTable, so a flush changes an answer, and the routes
  by index and by scan differ. `WindowCovers` therefore says what must be in an answer, not
  that there is nothing else.
- Reads on an older snapshot through the filter's keys miss spans that were deleted or given
  to another tenant since; `PointReadExact` is about rows that are still there.
- Console: loops group `5` and `"5"`; their page, and the traces of a task, are about the
  string only, so that the page of such a loop has fewer spans than the list or is a 404
  (`ListedLoopsFound`); `trace_json` counts a reported zero of tokens as unreported (`ViewsAgree` leaves that number out); spans in a
  cycle of parents are not in the execution order; agent graphs and trees have no tenant.
- TypeScript: after one rejected post `BatchExporter` skips every later one
  (`exporter.ts:46-55`), which `Accounted` counts as lost with the chain; `export` does not
  wait for the `flush` it starts (`:40`), so that the rejection is unhandled there, which by
  default ends a Node process (the models go on, or let the program die on its own). What is
  left in the buffer of an exporter that was closed counts as waiting, not as lost; a span of an
  asynchronous callback ends at its first await (`tracer.ts:258`). Python: an error of
  `_fsync_dir` after the rename counts delivered events as dropped; a BaseException leaves
  the status empty. Rust: `span_with` ignores an `Err`. The whole buffer as one body meets
  the gateway's limit for ever (`exporter.py:638`, `http.rs:152`).

## What is proved

`SnapshotPinProof` proves for any set of readers and any bounds, from the one assumption of
`SnapshotPin` (the bounds are naturals):

- `TypeCorrect`: `Spec => []TypeOK`;
- `Invariance`: `Spec => []IInv`;
- `PinnedSnapshotsComplete`: `Spec => []SnapshotComplete`;
- `ReclaimIsSafe`: `Spec => []HeldSegmentsOnDisk`;
- `NothingAckedIsLost`: `Spec => []CurrentComplete`.

None of these properties is inductive: they speak of readers that have finished, while what
protects them is set up in the loop. `IInv` rests on two facts about a manifest: it is
`Covered` (its segments are on disk and hold every row up to its watermark) and `MemKeeps`
(the MemTable has every acknowledged row above it).

- `CurrentInv`, `DraftInv`: both hold of the current manifest, and of the one the writer is
  about to commit.
- `ReaderInv`: both hold of every manifest that a reader has dereferenced, from that moment
  on; what it announced is no newer than what it holds.
- `ScanInv`: the floor that a walk of the registry has computed so far is at most the
  current manifest's and at most that of every reader the walk has passed. A reader that
  announces itself before the walk starts is in it, and one that dereferences during the
  walk gets the current manifest, which the floor is below anyway.
- `DeadInv`: a dead segment is named by no manifest from the version that buried it, so a
  reader that names it holds an older version, and the floor of `safe_version` is below it.

An eviction then keeps `MemKeeps` for every reader because the floor is at most its
watermark, and an unlink keeps `Covered` because `d.v <= floor <= held.version` contradicts
`DeadInv`. TLC checked `IInv` on the instance of the run before it was proved.

`ProcessLockProof` proves, for any set of processes and number of deaths, from `NoOwner`
being no process:

- `LockTypeCorrect`: `Spec => []TypeOK`;
- `Exclusion`: `Spec => []ExclusiveUnlessMisjudged`;
- `OneUserExclusion`: `Spec => []ExclusiveUnlessRaced`, if every process may signal every other.

Its invariant: until `raced` or `usurped`, at most one live actor is *busy* (has created the directory,
holds it, is removing its own or is clearing a dead owner's), the directory exists while one
is, and `owner.json` is as that actor's step left it. So an actor that finds a dead owner
recorded while another is busy has found one that is clearing, which is the race. Processes
that may all signal one another never find a live owner dead, so that `usurped` stays false.

`EngineProof` proves, from `BoundsAreNat`, `EveryEventHasATrace` and `ReadersAreNoJobs`:

- `EngineTypeCorrect`: `Spec => []TypeOK`; `Invariance`: `Spec => []IInv`;
- `NothingLostInACrash`: `Spec => []RestartComplete`;
- `DeletionsLast`: `Spec => []DeletedStaysDeletedUnlessReflushed`;
- `PatchesLast`: `Spec => []LandedPatchKept`;
- `Refinement`: `Spec => ImplementsTraceStore`.

`RestartComplete` and the others speak of what recovery would read, which no single action
establishes. The invariant adds what makes it so:

- `IdsFit`: a segment id that the manifest, the dead list, gc.log or a compaction's inputs
  name is below the next one and is not handed out again; `FilesKept`: the files of the
  manifest are there, and neither the dead list nor gc.log names one of them.
- `Drafted`: the file of the segment that a flush or a compaction is about to add holds what
  its commit relies on, whatever happened since it was written.
- `MemoryIsTail`: the MemTable is a tail end of the log, from the watermark of every pinned
  snapshot on, so that a flush commits the tail itself as the watermark (`FlushReachesTail`).
- `SegmentsHold`: the segments of the manifest hold every event up to the watermark but those
  deleted; `DeletionsStand`: only flushed events are deleted, and an event that was flushed once is
  in one segment, in its deletion vector if it was deleted.
- `SnapsKept`: what a pinned snapshot shows is what it showed when it was pinned.

`CommitEffect`, `FlushEffect`, `CompactionEffect`, `RetentionEffect` and `ScoreEffect` say
field by field what a commit does to the manifest; each action then has one lemma. For the
refinement, `CloseStep`, `LookStep`, `DeleteStep` and `StoreStep` map the steps that the
abstract store sees, and everything else leaves the mapped variables as they are
(`ViewStable`). The minimum of a set of naturals exists because the initial segments below
its members are finite and strict inclusion of finite sets is well founded (`MinIsLeast`); no
induction is needed.

`BufferedExporterProof` proves, for any sets of producers and flushers, batch sizes and
limits, from `ThreadsAreDistinct` and `ParametersArePositive`:

- `FlushIsABarrier`: `Spec => []FlushBarrier`;
- `EveryEventCounted`: `Spec => []AllCounted`.

`flush` compares two counters, so the invariant says what they stand for: the numbers up to
`processed` are the disjoint union of `sent` and `given`, the batch holds the next ones and
the queue the rest, in order (`InOrder`, `Outcomes`). `Balance` is the accounting of a sum over
all producers: what a producer still has to queue or to count is a set of as many tokens, and
`TokensChange` says how the cardinality of all tokens follows one producer; every event
exported is then submitted, owed or dropped.

`SharedStoreProof` proves, for any set of processes and any bounds, from `NobodyIsNoProc` and
`BoundsAreNat`:

- `EveryProcessShowsAll`: `Spec => []RefreshExact`;
- `SnapshotsKeepTheirRows`: `Spec => []SnapshotStable`;
- `QuietBackupsRestore`: `Spec => []QuietBackupRestores`.

`GoodView` says what the view of a process that lags behind may be: an older version of the
manifest or the current one itself, a tail that is not beyond the log's, a MemTable with every
row between its watermark and its tail and with the newest of them if with any. `HereIsCurrent`
derives from it what a refresh arrives at, by both of its paths. `GoodSnap` is what a snapshot
of the manifest on disk rests on: its segments are neither in gc.log nor in the hands of a
reclamation (`Doomed`), which only grows while there is no snapshot, and its rows of the
MemTable stay as long as the MemTable was not rebuilt. A rebuild is visible in `base`, since it
follows a version the process had not seen. `BackupGood` is the same for the copy in progress.

`WalSyncProof` proves, for any set of processes, any bounds and any number of torn frames and
failed saves, from `NobodyIsNoProc`:

- `AckedSurvivesARestart`: `Spec => []AckedDurableWhenSound`;
- `PrefixSurvivesARestart`: `Spec => []PrefixDurable`;
- `RefreshSeesEveryAck`: `Spec => []LockHolderSeesAll`;
- `NothingIsThereTwice`: `Spec => []NothingTwice`.

The properties speak of what a parser that starts at an offset would find, so the invariant
describes the file: it begins with whole frames whose LSNs and events follow each other, the
*prefix* (`Chained`). Without a tear the prefix is the file, and `Torn` says why the first tear
freezes it: the cell after the torn head is a head, whoever appends it. `Offset` is what any
recorded position may be, a boundary of the prefix together with the LSN that comes next
there, or something beyond the tear; `Checkpoint` adds that the prefix before it is below the
recorded LSN, `HasPrefix` that a manifest holds the prefix up to its watermark, and `Exact`
that without a tear it holds nothing else. A process that serves (`Serving`) has the prefix
before its offset in its MemTable above its watermark; `Fresh` makes the MemTable hold nothing
below, but for LSNs that are given out again after a tear. All of this is claimed while no
write failed unnoticed (`fails = 0`), which is what the properties ask for.

How far the parser gets is `Max` of a set, whose existence is again the well-foundedness of
strict inclusion (`MaxIsGreatest`); `ConsumedIs` and `ConsumedHas` turn it into facts about
the frames of any file, `ParseBoundary` and `RowsFromBoundary` say what it finds from a boundary
of the prefix. `FoundKnows` is about the manifest a refresh goes on with, the one on disk or, while there is
none, the process's own; `OpenedFits` says that a process that has opened and not recovered has none then either.
`ReplayFacts`, `RebuiltKnows`, `BroughtKnows` and `RefreshedKnows` follow a
refresh by each of its paths to a process that knows the whole prefix, from which every
property is read off.

`RetentionProof` proves, for any set of processes, requests, rows and ledger files and any
bounds, from `LedgerConstants`:

- `AckedRecordsKept`: `Spec => []AckedKept`;
- `AnswersAreComplete`: `Spec => []AnswersComplete`;
- `ProtectedTracesKept`: `Spec => []ProtectedKept`;
- `AuditsTellAll`: `Spec => []AuditTrail`.

`LedgerConstants` says that the rows are finitely many with a number as trace, that in a file
the program can read no two records of a kind share an id, that a policy's body has the fields
it is filtered by, and that a query filters by fields its kind has. It says nothing of the
counters in such a file, nor of files that cannot be read.

The invariant has a part per place that knows of the ledger. `LedgerGood`: in every process the
ids are distinct and below their counter, and the postings are `IndexOf` of the lists and
nothing else, though `Added` extends them and `Updated` rebuilds them (`AddedOnward`,
`UpdatedOnward`); `RanOnward` needs that no posting names what a run changes. `PromisesGood`: a
promise is on file, and held by the process that made it while that process is up, so that a
view which was not refreshed still has it. `ShieldGood`: a record that protected a trace when
the request began was of the request's tenant, and a record of its id with its rev or a later
one is on file. `JobGood` then follows a request: after the annotations it has those it owes
(`Owed`), after the datasets the traces of what it owes are not among those to delete.

Two facts about a save carry this over the steps of other processes: the file only goes on
(`Grows`: an id stays, its rev does not fall), and a promise that was taken back does not come
again (`NoComeback`), since a record saved later under that id has a greater rev.
`AnswerIsScan` is the lemma about the postings: a record the final check accepts is a
candidate, by each of its fields and by each attribute, unless the spelling differs.
`TrailGood` is `AuditTrail` itself, for what `erased` has of each request that came to delete:
an entry is not changed once it is there, the audits on file stay, and the audit that a
request writes is of its own deletion. `SampleIs` shows that a sample leaves nothing out
unless there is more than it may have, in which case the audit says so (`AuditNames`).

`ReadModelsProof` proves, for any script of events, sessions, readers, flush threshold and
bounds, from `ScriptOfEvents` and `ReadModelBounds`:

- `IndexesAreFaithful`: `Spec => []IndexesFaithful`.

The property speaks of moments between writes; what makes it true happens in the middle of
one. The invariant says what may lie around then:

- `RollupAhead`, `TextAhead`: the read models are of what is visible together with `pending`,
  so that a reader may see an event before the log has it, and never lack one the log has.
  During a delete or a compaction the rollup is of rows that are gone (no claim), while the
  text index still covers what is left.
- `FilesGood`: a sidecar that carries the stamp of the manifest holds the live rows and *some*
  part of the tail of the log. The stamp does not tell which: the tail grows under one version
  while `ensure_*` saves. `StampsOld` adds that no sidecar carries a version still to come, so
  a new manifest makes all of them unusable (`NewVersion`).
- `TailIsIndexed`: a tail is in the log only if both models were loaded before it came, so a
  first load by a query never meets one, and `Restart` lays the whole tail over what it loads.
- `DeadAreDeleted`: an event id the text index keeps without a document is one of a deleted row.

Why a replay over a sidecar with an unknown part of the tail is right is the lemma
`AppliedAgain`: values are those of the last event that has one, so applying the tail again, in
order, changes nothing but what the tail was missing; `KindsOnward` is the same for the kinds
of event, in whatever order and however often they are applied. `FlushedStore` shows that a
flush leaves the visible rows and their order as they are; `KeptRange`, that a compaction keeps
the rows it is given and no other, since the ranks of a finite set of positions are as many
numbers as there are positions.

TLC checked each invariant on the instance of its run before it was proved.

Only model-checked: everything in the other modules; `SessionsFaithful` of `ReadModels`, whose
totals are sums over the spans by a fold; liveness (`PinTerminates`,
`StaleLockCleared`, `NobodyWaitsForever`, `SpoolDrains`), because the prover does not do
fairness and `ENABLED`; what folds and recursive functions compute for every input (the merge
of a span, the cut of a text, scores, pages and postings), which needs an induction theorem
with an operator argument. The types of `SharedStore`, `WalSync` and `BufferedExporter` are
part of the invariants proved (`Shape`), and so are those of `Retention` (`MemGood`, `JobGood`)
and of `ReadModels` but for the session index (`StoreType`, `Typed`).

## Not modelled

In-memory mode, record encodings and checksums (a torn or damaged frame is one case), buffer
pins (taken by no caller outside the tests), the text of gc.log and the order of patches of
one span on several segments, Bloom filters and the caches of decoded segments and posting
blocks, vectors and hybrid search, HTTP framing, authentication and compression, times and
durations except where a window or an order depends on them, Snowflake ids, SDK exporters
shared by several threads (but `BufferedDbExporter`), the wrappers for other languages, the
console's front end, metrics and logs. `PROJECT.json` lists each part with its reason, and
each hazard that no property covers with a note.

## Plan

The modules above are what the plan foresaw. What is left is proof: `TextIndex`, `SharingSafe`,
the half about searches that wait for one another first (`WaiterHasOwner`); the half about the
cache speaks of scores that are folds.
