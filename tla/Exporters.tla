------------------------------ MODULE Exporters ------------------------------
(* The exporters of the three SDKs as operations on one record:               *)
(*   [kind, buf, posts, chain, sent, dropped, lost, ready, inflight, dead,     *)
(*    fsync, net, stored, faults, counter]                                     *)
(* buf is the exporter's buffer, posts its requests that are still awaited,    *)
(* lost the events whose loss the caller was told of or that died with the     *)
(* process; ready, inflight and dead are the directories of the spool, net the *)
(* requests given up that may still arrive, stored what the engine has: pairs  *)
(* of a record and how often it came.  An operation yields the set of its      *)
(* results [st, how], how being "ok", "error" or "crash".                      *)
EXTENDS WireFormat

CONSTANTS MaxBatch, MaxBuffered, MaxFaults, Tenant

Ok(st) == [st |-> st, how |-> "ok"]
Error(st) == [st |-> st, how |-> "error"]

Sdk(kind) ==
  CASE kind \in {"PyHttp", "PyDirect", "PyBatch", "PySpool", "PyNoop"} -> "python"
    [] kind \in {"TsHttp", "TsBatch"} -> "typescript"
    [] kind \in {"RsHttp", "RsBatch"} -> "rust"
    [] kind = "Otlp" -> "otlp"

-----------------------------------------------------------------------------
(* One delivery.                                                               *)

\* ingest: every record is appended, whether it is there or not; copies are counted to two.
Stored(st, records) ==
  [st EXCEPT !.stored = @ \cup {<<r, IF \E x \in st.stored : x[1] = r THEN 2 ELSE 1>> : r \in Range(records)}]

Fault(st) == [st EXCEPT !.faults = @ + 1]

\* The call fails before the engine has the batch, or after it.
Failures(st, accepted) ==
  IF st.faults = MaxFaults THEN {}
  ELSE {Fault(st)} \cup {Stored(Fault(st), r) : r \in accepted}

\* db.ingest on an embedded store.
DbIngest(st, batch) ==
  LET accepted == Route(Sdk(st.kind), batch, Tenant) IN
  {Ok(Stored(st, r)) : r \in accepted} \cup {Error(x) : x \in Failures(st, accepted)}

\* A POST: a client that times out may leave a request behind that arrives later.
HttpPost(st, batch) ==
  LET accepted == Handle(Sdk(st.kind), batch, Tenant) IN
  IF accepted = {} THEN {Error(st)}
  ELSE {Ok(Stored(st, r)) : r \in accepted} \cup {Error(x) : x \in Failures(st, accepted)}
         \cup (IF st.faults = MaxFaults THEN {} ELSE {Error([Fault(st) EXCEPT !.net = @ \cup {batch}])})

-----------------------------------------------------------------------------
(* HttpExporter.                                                               *)

Sent(st, batch) == [st EXCEPT !.sent = @ + Len(batch)]

\* Bugs the properties must find: overflow that is not counted, that cuts off the tail.
MutSilentOverflow(st, batch) ==
  LET all == batch \o st.buf IN
  [st EXCEPT !.buf = IF Len(all) > MaxBuffered THEN SubSeq(all, Len(all) - MaxBuffered + 1, Len(all)) ELSE all]
MutCutsTail(st, batch) ==
  LET all == batch \o st.buf
      over == IF Len(all) > MaxBuffered THEN Len(all) - MaxBuffered ELSE 0 IN
  [st EXCEPT !.buf = SubSeq(all, 1, Len(all) - over), !.dropped = @ + over]

\* A failed batch goes to the head of the buffer; what is too much is cut off there.
PyRequeued(st, batch) ==
  LET all == batch \o st.buf
      over == IF Len(all) > MaxBuffered THEN Len(all) - MaxBuffered ELSE 0 IN
  [st EXCEPT !.buf = SubSeq(all, over + 1, Len(all)), !.dropped = @ + over]

\* _post_or_buffer: the error is reported, never raised.
PyPostOrBuffer(st, batch) ==
  {IF r.how = "ok" THEN Ok(Sent(r.st, batch)) ELSE Ok(PyRequeued(r.st, batch)) : r \in HttpPost(st, batch)}

\* flush, and what close does.
PyHttpFlush(st) == IF st.buf = <<>> THEN {Ok(st)} ELSE PyPostOrBuffer([st EXCEPT !.buf = <<>>], st.buf)

\* export.
PyHttpExport(st, e) ==
  LET full == [st EXCEPT !.buf = Append(@, e)] IN
  IF Len(full.buf) >= MaxBatch THEN PyHttpFlush(full) ELSE {Ok(full)}

\* post_or_buffer, Rust: the same, and the caller gets the error.
RsPostOrBuffer(st, batch) ==
  {IF r.how = "ok" THEN Ok(Sent(r.st, batch)) ELSE Error(PyRequeued(r.st, batch)) : r \in HttpPost(st, batch)}
RsHttpFlush(st) == IF st.buf = <<>> THEN {Ok(st)} ELSE RsPostOrBuffer([st EXCEPT !.buf = <<>>], st.buf)
RsHttpExport(st, e) ==
  LET full == [st EXCEPT !.buf = Append(@, e)] IN
  IF Len(full.buf) >= MaxBatch THEN RsHttpFlush(full) ELSE {Ok(full)}

\* TypeScript: the request is only sent; its answer comes as a step of its own,
\* and the next batch is sent meanwhile.
TsHttpFlush(st) ==
  {Ok(IF st.buf = <<>> THEN st ELSE [st EXCEPT !.posts = Append(@, st.buf), !.buf = <<>>])}
TsHttpExport(st, e) ==
  LET full == [st EXCEPT !.buf = Append(@, e)] IN
  IF Len(full.buf) >= MaxBatch THEN TsHttpFlush(full) ELSE {Ok(full)}

\* post, from the answer on: sent, or back to the head of the buffer.
TsSettled(st, i) ==
  LET rest == [st EXCEPT !.posts = RemoveAt(@, i)] IN
  {IF r.how = "ok" THEN Sent(r.st, st.posts[i]) ELSE PyRequeued(r.st, st.posts[i]) : r \in HttpPost(rest, st.posts[i])}

-----------------------------------------------------------------------------
(* DbExporter and the BatchExporters, here over a sink that may fail.          *)

Lose(st, batch) == [st EXCEPT !.lost = @ \cup Range(batch)]

\* DbExporter.export_batch: an error is the caller's, and so are the events.
PyDirect(st, batch) ==
  {IF r.how = "ok" THEN Ok(Sent(r.st, batch)) ELSE Error(Lose(r.st, batch)) : r \in DbIngest(st, batch)}

\* BatchExporter: the buffer is empty before the sink has the batch.
PyBatchFlush(st) == IF st.buf = <<>> THEN {Ok(st)} ELSE PyDirect([st EXCEPT !.buf = <<>>], st.buf)
PyBatchExport(st, e) ==
  LET full == [st EXCEPT !.buf = Append(@, e)] IN
  IF Len(full.buf) >= MaxBatch THEN PyBatchFlush(full) ELSE {Ok(full)}
RsBatchFlush(st) == IF st.buf = <<>> THEN {Ok(st)} ELSE PyDirect([st EXCEPT !.buf = <<>>], st.buf)
RsBatchExport(st, e) ==
  LET full == [st EXCEPT !.buf = Append(@, e)] IN
  IF Len(full.buf) >= MaxBatch THEN RsBatchFlush(full) ELSE {Ok(full)}

\* TypeScript: each batch waits for the one before it.  Once a send is rejected the
\* chain is: no later batch is sent.  Whoever awaits a flush is told by a rejection;
\* export does not, and where that ends the process (Node, by default) the program
\* is one that dies.
TsBatchSend(st) ==
  LET batch == Head(st.posts)
      rest == [st EXCEPT !.posts = Tail(@)] IN
  IF st.chain = "rejected" THEN {Lose(rest, batch)}
  ELSE {IF r.how = "ok" THEN Sent(r.st, batch) ELSE [Lose(r.st, batch) EXCEPT !.chain = "rejected"] : r \in DbIngest(rest, batch)}

-----------------------------------------------------------------------------
(* The spool: a worker writes files, one consumer feeds them to the store.     *)

SpoolFile(st, batch) == [name |-> st.counter + 1, events |-> batch, torn |-> FALSE]

\* _write_batch: a file under tmp, synced, renamed into ready, the directory synced.
\* An error before the rename drops the batch, one after it only counts it as
\* dropped; a process that dies before the rename leaves a file nobody looks at.
WriteBatch(st, batch) ==
  LET next == [st EXCEPT !.counter = @ + 1]
      placed == [next EXCEPT !.ready = @ \cup {SpoolFile(st, batch)}]
      Drop(x) == [Fault(x) EXCEPT !.dropped = @ + Len(batch)] IN
  {Ok(Sent(placed, batch))}
    \cup (IF st.faults = MaxFaults THEN {}
          ELSE {Ok(Drop(next)), [st |-> Lose(Fault(next), batch), how |-> "crash"]}
                 \cup (IF st.fsync THEN {Ok(Drop(placed))} ELSE {}))

SpoolFlush(st) == IF st.buf = <<>> THEN {Ok(st)} ELSE WriteBatch([st EXCEPT !.buf = <<>>], st.buf)
SpoolExport(st, e) ==
  LET full == [st EXCEPT !.buf = Append(@, e)] IN
  IF Len(full.buf) >= MaxBatch THEN SpoolFlush(full) ELSE {Ok(full)}

\* _recover_inflight, when a consumer is made.
Recovered(st) == [st EXCEPT !.ready = @ \cup st.inflight, !.inflight = {}]

\* consume_once, a file: taken out of ready, unless it is gone.
Taken(st, f) == [st EXCEPT !.ready = @ \ {f}, !.inflight = @ \cup {f}]

\* _move_to_dead and _move_back_to_ready.
MovedToDead(st, f) == [st EXCEPT !.inflight = @ \ {f}, !.dead = @ \cup {f}]
MutStaysInflight(st, f) == st
MovedBack(st, f) == [st EXCEPT !.inflight = @ \ {f}, !.ready = @ \cup {f}]
Unlinked(st, f) == [st EXCEPT !.inflight = @ \ {f}]

-----------------------------------------------------------------------------
(* What export, and what close, does for each kind.                            *)

Export(st, e) ==
  CASE st.kind = "PyHttp" -> PyHttpExport(st, e)
    [] st.kind = "RsHttp" -> RsHttpExport(st, e)
    [] st.kind \in {"TsHttp", "TsBatch"} -> TsHttpExport(st, e)
    [] st.kind = "PyDirect" -> PyDirect(st, <<e>>)
    [] st.kind = "PyBatch" -> PyBatchExport(st, e)
    [] st.kind = "RsBatch" -> RsBatchExport(st, e)
    [] st.kind = "PySpool" -> SpoolExport(st, e)
    [] st.kind = "PyNoop" -> {Ok([st EXCEPT !.dropped = @ + 1])}
    [] st.kind = "Otlp" -> PyHttpExport(st, e)

Close(st) ==
  CASE st.kind \in {"PyHttp", "Otlp"} -> PyHttpFlush(st)
    [] st.kind = "RsHttp" -> RsHttpFlush(st)
    [] st.kind \in {"TsHttp", "TsBatch"} -> TsHttpFlush(st)
    [] st.kind = "PyBatch" -> PyBatchFlush(st)
    [] st.kind = "RsBatch" -> RsBatchFlush(st)
    [] st.kind = "PySpool" -> SpoolFlush(st)
    [] st.kind \in {"PyDirect", "PyNoop"} -> {Ok(st)}
=============================================================================
