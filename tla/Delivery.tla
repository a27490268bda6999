------------------------------- MODULE Delivery -------------------------------
(* A traced program from its spans to what a read of the engine shows: the     *)
(* scopes of the three SDKs' tracers (or of an OpenTelemetry SDK), an exporter, *)
(* a network that loses, delays and repeats, the gateway, and a spool with its  *)
(* consumer, each of which may die.  The program is one thread in one trace;    *)
(* its spans are numbered as they open.                                         *)
EXTENDS Integers, Exporters

CONSTANTS
  Kinds,       \* the exporters a program may set up by hand
  MaxSpans,    \* spans a program opens
  MaxOps,      \* logs, attributes and errors between them
  MaxAttrs     \* attributes a span may have

VARIABLES
  st,          \* the exporter, the network and the engine
  spans,       \* the tracer's spans, closed ones too
  scopes,      \* the open ones, innermost last
  raising,     \* the error being propagated: "no", "error", "base", "panic"
  prog,        \* "run", "closed" or "dead"
  ops,         \* operations used of MaxOps
  consumer,    \* whether there is one
  pass,        \* the files of the pass it is in
  phase,       \* of the file it has inflight: "no", "taken" or "stored"
  emitted      \* every event handed to the exporter, in order

vars == <<st, spans, scopes, raising, prog, ops, consumer, pass, phase, emitted>>
tracer == <<spans, scopes, raising, prog, ops, emitted>>
spooler == <<consumer, pass, phase>>

Python == Sdk(st.kind) = "python"
TypeScript == Sdk(st.kind) = "typescript"
Rust == Sdk(st.kind) = "rust"
Otlp == Sdk(st.kind) = "otlp"

Fresh(kind, fsync) ==
  [kind |-> kind, buf |-> <<>>, posts |-> <<>>, chain |-> "ok", sent |-> 0, dropped |-> 0, lost |-> {},
   ready |-> {}, inflight |-> {}, dead |-> {}, fsync |-> fsync, net |-> {}, stored |-> {}, faults |-> 0, counter |-> 0]

\* _init_yitrace_strict: the exporter for what the service asks for, if it can be had.
Strict(o) ==
  CASE o.url -> IF o.path \/ o.spool THEN {} ELSE {"PyHttp"}
    [] o.mode = "spool" -> IF o.spool THEN {"PySpool"} ELSE {}
    [] ~o.path \/ ~o.opens -> {}
    [] o.mode = "direct" -> {"PyDirect"}
    [] o.mode = "buffered" -> {"PyBuffered"}
    [] OTHER -> {}

\* init_yitrace: with fail_open a failure leaves a tracer that drops everything.
InitYiTrace(o) == IF Strict(o) = {} /\ o.failOpen THEN {"PyNoop"} ELSE Strict(o)

\* Exporters set up by the helper (the buffered one has a module of its own) or by hand.
Setups == [url : BOOLEAN, path : BOOLEAN, spool : BOOLEAN, opens : BOOLEAN, failOpen : BOOLEAN,
           mode : {"spool", "direct", "buffered", "other"}]
AllKinds == Kinds \cup (UNION {InitYiTrace(o) : o \in Setups} \ {"PyBuffered"})

Init ==
  /\ \E kind \in AllKinds, fsync \in BOOLEAN : (fsync \/ kind = "PySpool") /\ st = Fresh(kind, fsync)
  /\ spans = <<>> /\ scopes = <<>> /\ raising = "no" /\ prog = "run" /\ ops = 0
  /\ consumer = FALSE /\ pass = <<>> /\ phase = "no" /\ emitted = <<>>

-----------------------------------------------------------------------------
(* Events.                                                                     *)

\* _emit: status, tokens and attributes go with the end, the agent with every event.
PyEvent(i, sp, type, logs) ==
  LET end == type = END IN
  [trace |-> 1, span |-> i, seq |-> sp.seq + 1, type |-> type, parent |-> sp.parent,
   status |-> IF end THEN sp.status ELSE Absent, tokens |-> IF end THEN sp.tokens ELSE Absent,
   agent |-> sp.agent, tenant |-> Absent, logs |-> logs, attrs |-> IF end THEN sp.attrs ELSE <<>>]
TsEvent(i, sp, type, logs) == PyEvent(i, sp, type, logs)
\* The Rust SDK has no attributes.
RsEvent(i, sp, type, logs) == [PyEvent(i, sp, type, logs) EXCEPT !.attrs = <<>>]

Event(i, sp, type, logs) ==
  IF Python THEN PyEvent(i, sp, type, logs) ELSE IF TypeScript THEN TsEvent(i, sp, type, logs) ELSE RsEvent(i, sp, type, logs)

\* What an OpenTelemetry SDK hands on when a span has ended.
OtlpSpan(i, sp) ==
  [trace |-> 1, span |-> i, parent |-> sp.parent,
   code |-> CASE sp.status = Absent -> 0 [] sp.status = 0 -> 1 [] OTHER -> 2,
   attrs |-> (IF sp.tokens = Absent THEN <<>> ELSE <<<<"llm.token_count.prompt", sp.tokens>>>>)
               \o (IF sp.agent = Absent THEN <<>> ELSE <<<<"gen_ai.agent.name", sp.agent>>>>)]

\* The exporter gets e, and the program what comes of it.
Emitting(e, r) ==
  /\ r \in Export(st, e) /\ st' = r.st /\ emitted' = Append(emitted, e)
  /\ prog' = IF r.how = "crash" THEN "dead" ELSE "run"

-----------------------------------------------------------------------------
(* Scopes.                                                                     *)

Running == prog = "run"
Top == Last(scopes)
InScope == Running /\ scopes # <<>> /\ raising = "no"

\* _scoped_span and its like: a child inherits the agent.  The start is emitted
\* before the scope is guarded: if that fails the body is never run, the error is
\* the caller's and the span gets no end.
Parent == IF scopes = <<>> THEN Absent ELSE Top
NewSpan(result) ==
  [parent |-> Parent, result |-> result, seq |-> 0, status |-> Absent, tokens |-> Absent,
   agent |-> IF Parent = Absent THEN Absent ELSE spans[Parent].agent,
   attrs |-> <<>>, logs |-> <<>>, state |-> "open", failed |-> "no"]

OpenSpan ==
  /\ Running /\ raising = "no" /\ Len(spans) < MaxSpans /\ ~Otlp
  /\ \E result \in IF Rust THEN BOOLEAN ELSE {TRUE} :
       LET i == Len(spans) + 1
           sp == NewSpan(result) IN
       \E r \in Export(st, Event(i, sp, START, <<>>)) :
         /\ Emitting(Event(i, sp, START, <<>>), r)
         /\ spans' = Append(spans, [sp EXCEPT !.seq = 1, !.state = IF r.how = "ok" THEN "open" ELSE "unstarted"])
         /\ scopes' = IF r.how = "ok" THEN Append(scopes, i) ELSE scopes
         /\ raising' = IF r.how = "error" THEN "error" ELSE "no"
  /\ UNCHANGED <<ops, spooler>>

OpenOtlp ==
  /\ Running /\ raising = "no" /\ Len(spans) < MaxSpans /\ Otlp
  /\ spans' = Append(spans, [NewSpan(TRUE) EXCEPT !.seq = 2]) /\ scopes' = Append(scopes, Len(spans) + 1)
  /\ UNCHANGED <<st, raising, prog, ops, spooler, emitted>>

\* log: of the innermost span, or of one whose body runs on after its scope was left.
Log ==
  /\ Running /\ raising = "no" /\ ops < MaxOps /\ ops' = ops + 1 /\ ~Otlp
  /\ \E i \in DOMAIN spans :
       /\ (scopes # <<>> /\ i = Top) \/ spans[i].state = "floating"
       /\ \E r \in Export(st, Event(i, spans[i], LOG, <<"m">>)) :
            /\ Emitting(Event(i, spans[i], LOG, <<"m">>), r)
            /\ spans' = [spans EXCEPT ![i].seq = @ + 1, ![i].logs = IF r.how = "crash" THEN @ ELSE <<"m">>]
            /\ raising' = IF r.how = "error" THEN "error" ELSE "no"
  /\ UNCHANGED <<scopes, spooler>>

\* set_tokens: a negative count raises and changes nothing.
PySetTokens(sp, n) == IF n = -1 THEN {} ELSE {[sp EXCEPT !.tokens = n]}
\* set_attribute: so do a value that is no scalar and one attribute too many.
PySetAttribute(sp, key, value) ==
  LET next == [k \in DOMAIN sp.attrs \cup {key} |-> IF k = key THEN value ELSE sp.attrs[k]] IN
  IF value = -1 \/ Cardinality(DOMAIN next) > MaxAttrs THEN {} ELSE {[sp EXCEPT !.attrs = next]}
\* set_attributes: all of them or none.
PySetAttributes(sp, first, second) ==
  UNION {PySetAttribute(x, second[1], second[2]) : x \in PySetAttribute(sp, first[1], first[2])}
TsSetTokens(sp, n) == PySetTokens(sp, n)
TsSetAttributes(sp, first, second) == PySetAttributes(sp, first, second)
RsSetTokens(sp, n) == IF n = -1 THEN {sp} ELSE {[sp EXCEPT !.tokens = n]}

SetTokens(sp, n) ==
  IF Python THEN PySetTokens(sp, n) ELSE IF TypeScript THEN TsSetTokens(sp, n) ELSE RsSetTokens(sp, n)
SetAttributes(sp, a, b) == IF TypeScript THEN TsSetAttributes(sp, a, b) ELSE PySetAttributes(sp, a, b)

\* The program sets something of its innermost span; an empty result is an error.
Set ==
  /\ InScope /\ ops < MaxOps /\ ops' = ops + 1
  /\ \E sp \in {spans[Top]} : \E found \in
       {{[sp EXCEPT !.status = 0]}, {[sp EXCEPT !.agent = "a"]}}
         \cup {SetTokens(sp, n) : n \in {7, -1}}
         \cup (IF Rust \/ Otlp THEN {} ELSE {SetAttributes(sp, <<"k", 1>>, b) : b \in {<<"k", 2>>, <<"l", 2>>}}) :
       /\ spans' = [spans EXCEPT ![Top] = IF found = {} THEN sp ELSE CHOOSE x \in found : TRUE]
       /\ raising' = IF found = {} THEN "error" ELSE "no"
  /\ UNCHANGED <<st, scopes, prog, spooler, emitted>>

\* The traced code fails: a BaseException that is no Exception, a panic, or an error.
Raise ==
  /\ InScope /\ ops < MaxOps /\ ops' = ops + 1
  /\ raising' \in {"error"} \cup (IF Python THEN {"base"} ELSE IF Rust THEN {"panic"} ELSE {})
  /\ UNCHANGED <<st, spans, scopes, prog, spooler, emitted>>

Catch ==
  /\ Running /\ raising # "no" /\ raising' = "no"
  /\ UNCHANGED <<st, spans, scopes, prog, ops, spooler, emitted>>

-----------------------------------------------------------------------------
(* The end of a scope.                                                         *)

\* The status a span ends with when its body fails.
MutPyFailed(sp) == sp
PyFailed(sp) == IF raising = "error" THEN [sp EXCEPT !.status = 1] ELSE sp
TsFailed(sp) == [sp EXCEPT !.status = 1]
\* span_with sees a panic, and takes an error for the value the body returns;
\* span_with_result sees both.
RsSpanWith(sp) == IF raising = "panic" THEN [sp EXCEPT !.status = 1] ELSE sp
RsSpanWithResult(sp) == [sp EXCEPT !.status = 1]

Failed(sp) ==
  [ CASE Python -> PyFailed(sp) [] TypeScript -> TsFailed(sp) [] Otlp -> [sp EXCEPT !.status = 1]
      [] OTHER -> IF sp.result THEN RsSpanWithResult(sp) ELSE RsSpanWith(sp)
    EXCEPT !.failed = raising ]

\* What is propagated after the end was emitted: in Python a failure there replaces
\* what was; in TypeScript there is none; in Rust it counts only if all was well,
\* and span_with drops the error it took for a value.
PyAfterEnd(how) == IF how = "error" THEN "error" ELSE raising
TsAfterEnd(how) == raising
RsAfterEnd(sp, how) ==
  CASE raising = "no" -> IF how = "error" THEN "error" ELSE "no"
    [] raising = "error" /\ ~sp.result -> IF how = "error" THEN "error" ELSE "no"
    [] OTHER -> raising

\* The end is emitted, whatever happened.
EndWith(sp, state) ==
  LET i == Top
      e == IF Otlp THEN OtlpSpan(i, sp) ELSE Event(i, sp, END, <<>>) IN
  \E r \in Export(st, e) :
    /\ Emitting(e, r)
    /\ spans' = [spans EXCEPT ![i] = [sp EXCEPT !.seq = IF Otlp THEN @ ELSE @ + 1, !.state = state]]
    /\ scopes' = Front(scopes)
    /\ raising' = CASE Rust -> RsAfterEnd(sp, r.how) [] Python -> PyAfterEnd(r.how) [] OTHER -> TsAfterEnd(r.how)

Leave ==
  /\ InScope /\ EndWith(spans[Top], "closed")
  /\ UNCHANGED <<ops, spooler>>

\* A TypeScript body that is a promise: the scope is left at its first await.
LeaveAsync ==
  /\ InScope /\ TypeScript /\ EndWith(spans[Top], "floating")
  /\ UNCHANGED <<ops, spooler>>

Unwind ==
  /\ Running /\ raising # "no" /\ scopes # <<>> /\ EndWith(Failed(spans[Top]), "closed")
  /\ UNCHANGED <<ops, spooler>>

\* Tracer.close.
CloseTracer ==
  /\ Running /\ scopes = <<>>
  /\ \E r \in Close(st) : st' = r.st /\ prog' = IF r.how = "crash" THEN "dead" ELSE "closed"
  /\ UNCHANGED <<spans, scopes, raising, ops, spooler, emitted>>

\* The process of the program is killed.
Killed ==
  /\ Running /\ st.kind = "PySpool" /\ st.faults < MaxFaults
  /\ st' = [Lose(Fault(st), st.buf) EXCEPT !.buf = <<>>] /\ prog' = "dead"
  /\ UNCHANGED <<spans, scopes, raising, ops, spooler, emitted>>

-----------------------------------------------------------------------------
(* Answers, late requests, and the consumer of the spool.                      *)

\* The answers of TypeScript's requests, in any order.
Settle ==
  /\ st.kind = "TsHttp" /\ \E i \in DOMAIN st.posts : st' \in TsSettled(st, i)
  /\ UNCHANGED <<tracer, spooler>>

Send ==
  /\ st.kind = "TsBatch" /\ st.posts # <<>> /\ st' \in TsBatchSend(st)
  /\ UNCHANGED <<tracer, spooler>>

\* A request its client has given up reaches the gateway.
Arrive ==
  /\ \E batch \in st.net : \E r \in Handle(Sdk(st.kind), batch, Tenant) :
       st' = Stored([st EXCEPT !.net = @ \ {batch}], r)
  /\ UNCHANGED <<tracer, spooler>>

\* SpoolConsumer(): one consumer at a time.
ConsumerStart ==
  /\ st.kind = "PySpool" /\ ~consumer
  /\ st' = Recovered(st) /\ consumer' = TRUE
  /\ UNCHANGED <<tracer, pass, phase>>

\* consume_once: the files that are there now, in the order of their names.
Scan ==
  /\ consumer /\ pass = <<>> /\ st.ready # {}
  /\ pass' = SetToSortSeq(st.ready, LAMBDA f, g : f.name < g.name)
  /\ UNCHANGED <<st, tracer, consumer, phase>>

Take ==
  /\ pass # <<>> /\ phase = "no"
  /\ st' = Taken(st, Head(pass)) /\ phase' = "taken"
  /\ UNCHANGED <<tracer, consumer, pass>>

\* A payload that cannot be read is put aside; a store that fails ends the pass.
Ingest ==
  /\ pass # <<>> /\ phase = "taken"
  /\ LET f == Head(pass) IN
     IF f.torn
     THEN st' = MovedToDead(st, f) /\ pass' = Tail(pass) /\ phase' = "no"
     ELSE \E r \in DbIngest(st, f.events) :
            IF r.how = "ok" THEN st' = r.st /\ phase' = "stored" /\ UNCHANGED pass
            ELSE st' = MovedBack(r.st, f) /\ pass' = <<>> /\ phase' = "no"
  /\ UNCHANGED <<tracer, consumer>>

Finish ==
  /\ pass # <<>> /\ phase = "stored"
  /\ st' = Unlinked(st, Head(pass)) /\ pass' = Tail(pass) /\ phase' = "no"
  /\ UNCHANGED <<tracer, consumer>>

ConsumerCrash ==
  /\ consumer /\ st.faults < MaxFaults
  /\ st' = Fault(st) /\ consumer' = FALSE /\ pass' = <<>> /\ phase' = "no"
  /\ UNCHANGED tracer

\* The machine stops: without fsync a file that was renamed may hold garbage.
PowerLoss ==
  /\ st.kind = "PySpool" /\ prog # "dead" /\ st.faults < MaxFaults
  /\ LET dead == [Lose(Fault(st), st.buf) EXCEPT !.buf = <<>>] IN
     \E torn \in IF st.fsync THEN {{}} ELSE SUBSET st.ready :
       st' = [dead EXCEPT !.ready = (@ \ torn) \cup {[f EXCEPT !.torn = TRUE] : f \in torn}]
  /\ prog' = "dead" /\ consumer' = FALSE /\ pass' = <<>> /\ phase' = "no"
  /\ UNCHANGED <<spans, scopes, raising, ops, emitted>>

Consume == ConsumerStart \/ Scan \/ Take \/ Ingest \/ Finish

Next ==
  \/ OpenSpan \/ OpenOtlp \/ Log \/ Set \/ Raise \/ Catch \/ Leave \/ LeaveAsync \/ Unwind
  \/ CloseTracer \/ Killed \/ Settle \/ Send \/ Arrive
  \/ ConsumerStart \/ Scan \/ Take \/ Ingest \/ Finish \/ ConsumerCrash \/ PowerLoss

\* Somebody keeps a consumer running.
Spec == Init /\ [][Next]_vars /\ WF_vars(Consume)

-----------------------------------------------------------------------------
(* Properties.                                                                 *)

Arrived(e) == \E x \in st.stored : x[1].span = e.span /\ (Otlp \/ x[1].seq = e.seq)
Held ==
  Range(st.buf) \cup UNION {Range(b) : b \in Range(st.posts)}
    \cup UNION {Range(f.events) : f \in st.ready \cup st.inflight \cup st.dead}
Missing == {e \in Range(emitted) : ~Arrived(e) /\ e \notin Held \cup st.lost}

\* No event disappears: it is in the engine, waits somewhere, was lost with the
\* caller told or the process dead, or is counted as dropped.  The counts of an
\* HttpExporter add up exactly (_post_or_buffer, post; _write_batch, consume_once).
Accounted ==
  /\ Cardinality(Missing) <= st.dropped
  /\ st.kind \in {"PyHttp", "RsHttp", "TsHttp", "Otlp"} =>
       st.sent + st.dropped + Len(st.buf) + Len(FlattenSeq(st.posts)) = Len(emitted)

\* When the buffer overflows it is the oldest events that go: none that was
\* dropped is newer than one that was kept (_post_or_buffer).
OldestDropped ==
  LET given == UNION {Range(b) : b \in st.net}
      Pos(e) == CHOOSE k \in DOMAIN emitted : emitted[k] = e IN
  \A d \in Missing \ given, b \in Range(st.buf) : Pos(d) < Pos(b)
DropsOldest == st.kind # "TsHttp" => OldestDropped

\* "What is dropped at maxBuffered is the oldest batch" (typescript/src/exporter.ts).
TsDropsOldest == st.kind = "TsHttp" => OldestDropped

\* Once all the events of a closed span have arrived, whatever was lost, delayed,
\* repeated or overtaken on the way, a read shows the span as the program left it
\* (to_wire, parse_wire_batch, map_span, fold_events).
FoldExact ==
  \A i \in DOMAIN spans :
    LET sp == spans[i]
        mine == {e \in Range(emitted) : e.span = i} IN
    sp.state = "closed" /\ prog # "dead" /\ (\A e \in mine : Arrived(e)) =>
      Folded({x \in st.stored : x[1].span = i})
        = [started |-> TRUE, ended |-> TRUE, status |-> sp.status, tokens |-> sp.tokens, parent |-> sp.parent,
           agent |-> sp.agent, tenant |-> Tenant, logs |-> sp.logs, attrs |-> sp.attrs, events |-> sp.seq]

\* A scope that was entered ends in an end event, later than all others of its
\* span, and a body that failed shows in its status: except a Python BaseException
\* and an error that Rust's span takes for a value (_scoped_span, runSpan, span_with).
ScopesEnd ==
  \A i \in DOMAIN spans :
    LET sp == spans[i]
        Ends(e) == e.span = i /\ (Otlp \/ (e.type = END /\ e.seq = sp.seq)) IN
    sp.state = "closed" =>
      /\ \E e \in Range(emitted) : Ends(e)
      /\ sp.failed = "panic" \/ (sp.failed = "error" /\ sp.result) =>
           \E e \in Range(emitted) : Ends(e) /\ IF Otlp THEN e.code = 2 ELSE e.status = 1

\* The spool runs empty: every file is consumed in the end, or put aside, as long
\* as the consumer is restarted and the store does not fail for ever (consume_once,
\* _recover_inflight).
SpoolDrains == <>[](st.ready \cup st.inflight = {})

\* Every event is delivered, waiting or counted as dropped, the oldest dropped first.
NothingLostSilently == Accounted /\ DropsOldest

\* Whatever happens in a traced function its span ends, and a span whose events
\* have arrived reads as the program left it.
SpansWhole == ScopesEnd /\ FoldExact

=============================================================================
