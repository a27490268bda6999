------------------------------ MODULE WireFormat ------------------------------
(* What happens to a span event between an SDK and the engine's log: how the  *)
(* three SDKs put it into JSON, how the gateway reads a batch back, how an     *)
(* OTLP span becomes two events, and what a read folds the events of a span    *)
(* into.  A number is a number or a string of digits in JSON, depending on the *)
(* SDK; an optional field is null or missing.  Times, texts and the id fields  *)
(* kept for display are left out; a hash is an injective tag.                  *)
EXTENDS Naturals, Sequences, SequencesExt, FiniteSetsExt

CONSTANTS
  Absent,    \* None
  MaxBody    \* events a request may carry before the gateway answers 413

Null == <<"null">>
Num(n) == IF n = Absent THEN Null ELSE <<"num", n>>
Digits(n) == IF n = Absent THEN Null ELSE <<"digits", n>>
Text(s) == IF s = Absent THEN Null ELSE <<"text", s>>
Given(f) == [k \in {x \in DOMAIN f : f[x] # Null} |-> f[k]]

START == 1
END == 2
LOG == 4

-----------------------------------------------------------------------------
(* The SDKs.  An event is [trace, span, seq, type, parent, status, tokens,     *)
(* agent, tenant, logs, attrs]; its ext_span_id is <<trace, span>>.            *)

\* to_wire, Python: numbers, null for None.
PyToWire(e) ==
  [trace_id |-> Num(e.trace), span_id |-> Num(e.span), seq |-> Num(e.seq), event_type |-> Num(e.type),
   ext_span_id |-> Text(<<e.trace, e.span>>), parent_span_id |-> Num(e.parent), status |-> Num(e.status),
   input_tokens |-> Num(e.tokens), tenant_id |-> Num(e.tenant), agent_name |-> Text(e.agent),
   logs |-> <<"list", e.logs>>, attrs |-> <<"object", e.attrs>>]

\* toWire, TypeScript: every bigint as a string of digits.
TsToWire(e) ==
  [PyToWire(e) EXCEPT !.trace_id = Digits(e.trace), !.span_id = Digits(e.span), !.seq = Digits(e.seq),
                      !.parent_span_id = Digits(e.parent), !.input_tokens = Digits(e.tokens),
                      !.tenant_id = Digits(e.tenant)]

\* to_json, Rust: a None is left out, and there are no attributes.
RsToWire(e) ==
  LET w == PyToWire(e) IN Given([f \in DOMAIN w \ {"attrs"} |-> w[f]])

-----------------------------------------------------------------------------
(* parse_wire_batch.  A result is a set: empty for None and for an error.      *)

\* field.
Field(obj, key) == IF key \in DOMAIN obj /\ obj[key] # Null THEN {obj[key]} ELSE {}

\* as_u64: a number, or a string of digits.
AsInt(j) == IF j[1] \in {"num", "digits"} THEN {j[2]} ELSE {}
AsStr(j) == IF j[1] = "text" THEN {j[2]} ELSE {}

\* parse_id_value: a string that is no number is hashed.
ParseId(j) == AsInt(j) \cup {<<"fnv", s>> : s \in AsStr(j)}

IntField(obj, key) == UNION {AsInt(j) : j \in Field(obj, key)}
IdField(obj, key) == UNION {ParseId(j) : j \in Field(obj, key)}
StrField(obj, key) == UNION {AsStr(j) : j \in Field(obj, key)}
Opt(found) == IF found = {} THEN Absent ELSE CHOOSE x \in found : TRUE
Width8(x) == IF x = Absent THEN x ELSE x % 256

Body(obj, key, kind, none) ==
  IF \E j \in Field(obj, key) : j[1] = kind THEN obj[key][2] ELSE none

\* One element of the array: it must have its ids, its order, its type and its identity.
ParseRecord(obj) ==
  {[trace |-> t, span |-> s, seq |-> n, type |-> y % 256, ext |-> x,
    parent |-> Opt(IdField(obj, "parent_span_id")), status |-> Width8(Opt(IntField(obj, "status"))),
    tokens |-> Opt(IntField(obj, "input_tokens")), agent |-> Opt(StrField(obj, "agent_name")),
    tenant |-> Opt(IntField(obj, "tenant_id")), logs |-> Body(obj, "logs", "list", <<>>),
    attrs |-> Body(obj, "attrs", "object", <<>>)] :
   t \in IdField(obj, "trace_id"), s \in IdField(obj, "span_id"), n \in IntField(obj, "seq"),
   y \in IntField(obj, "event_type"), x \in StrField(obj, "ext_span_id")}

\* The batch: one bad element refuses all of it.
ParseWireBatch(objs) ==
  LET parsed == [i \in DOMAIN objs |-> ParseRecord(objs[i])] IN
  IF \E i \in DOMAIN objs : parsed[i] = {} THEN {} ELSE {[i \in DOMAIN objs |-> Opt(parsed[i])]}

-----------------------------------------------------------------------------
(* OTLP.  A span is [trace, span, parent, code, attrs], its attributes a       *)
(* sequence of <<key, value>>.                                                 *)

\* first_str, first_u64: the first of the alias keys that is there.
FirstOf(attrs, keys) ==
  LET hits == {k \in DOMAIN keys : \E i \in DOMAIN attrs : attrs[i][1] = keys[k]} IN
  IF hits = {} THEN Absent
  ELSE LET key == keys[Min(hits)] IN
       attrs[Min({i \in DOMAIN attrs : attrs[i][1] = key})][2]

\* status.code: 2 is an error, 1 is fine, anything else says nothing.
OtlpStatus(code) == CASE code = 2 -> 1 [] code = 1 -> 0 [] OTHER -> Absent

\* map_span: the start carries what the attributes say, the end the status.
OtlpEvents(sp) ==
  LET start == [trace |-> sp.trace, span |-> sp.span, seq |-> 1, type |-> START, ext |-> sp.span,
                parent |-> sp.parent, status |-> Absent,
                tokens |-> FirstOf(sp.attrs, <<"gen_ai.usage.input_tokens", "gen_ai.usage.prompt_tokens",
                                               "llm.token_count.prompt">>),
                agent |-> FirstOf(sp.attrs, <<"gen_ai.agent.name", "agent.name">>),
                tenant |-> FirstOf(sp.attrs, <<"yitrace.tenant_id", "tenant.id", "tenant_id">>),
                logs |-> <<>>, attrs |-> <<>>] IN
  << start, [start EXCEPT !.seq = 2, !.type = END, !.status = OtlpStatus(sp.code),
                          !.tokens = Absent, !.agent = Absent, !.tenant = Absent] >>

\* parse_otlp_traces.
ParseOtlpTraces(spans) == FlattenSeq([i \in DOMAIN spans |-> OtlpEvents(spans[i])])

-----------------------------------------------------------------------------
(* The gateway.                                                                *)

\* ingest_wire_for_tenant: the request's tenant replaces what the body says.
ForTenant(records, tenant) == [i \in DOMAIN records |-> [records[i] EXCEPT !.tenant = tenant]]

\* route: POST /v1/ingest and /v1/traces; all of a batch or none of it.
Route(sdk, batch, tenant) ==
  {ForTenant(r, tenant) :
     r \in IF sdk = "otlp" THEN {ParseOtlpTraces(batch)}
           ELSE ParseWireBatch([i \in DOMAIN batch |->
                  CASE sdk = "python" -> PyToWire(batch[i]) [] sdk = "typescript" -> TsToWire(batch[i])
                    [] sdk = "rust" -> RsToWire(batch[i])])}

\* handle: over HTTP, a body above the limit is refused before it is read.
Handle(sdk, batch, tenant) == IF Len(batch) > MaxBody THEN {} ELSE Route(sdk, batch, tenant)

-----------------------------------------------------------------------------
(* fold_events on the rows of one span: pairs of a record and which copy it is. *)

\* The identity an event_id is the hash of.
EventId(r) == <<r.ext, r.seq, r.type>>
Later(new, old) == IF new = Absent THEN old ELSE new

\* A bug FoldExact must find: every copy counts.
MutEveryCopy(rows) == LET all == SetToSeq(rows) IN SortSeq([i \in DOMAIN all |-> all[i][1]], LAMBDA a, b : a.seq < b.seq)

\* A record of each identity, in the order of their seq.
Distinct(rows) ==
  LET ids == {EventId(x[1]) : x \in rows} IN
  SortSeq(SetToSeq({(CHOOSE x \in rows : EventId(x[1]) = id)[1] : id \in ids}), LAMBDA a, b : a.seq < b.seq)

\* The last value that is not None wins, logs are united, attributes overlaid.
Folded(rows) ==
  FoldLeft(LAMBDA f, r :
    [started |-> f.started \/ r.type = START, ended |-> f.ended \/ r.type = END,
     status |-> Later(r.status, f.status), tokens |-> Later(r.tokens, f.tokens),
     parent |-> Later(r.parent, f.parent), agent |-> Later(r.agent, f.agent),
     tenant |-> Later(r.tenant, f.tenant),
     logs |-> f.logs \o SelectSeq(r.logs, LAMBDA l : l \notin Range(f.logs)),
     attrs |-> [k \in DOMAIN r.attrs \cup DOMAIN f.attrs |-> IF k \in DOMAIN r.attrs THEN r.attrs[k] ELSE f.attrs[k]],
     events |-> f.events + 1],
    [started |-> FALSE, ended |-> FALSE, status |-> Absent, tokens |-> Absent, parent |-> Absent,
     agent |-> Absent, tenant |-> Absent, logs |-> <<>>, attrs |-> <<>>, events |-> 0],
    Distinct(rows))
=============================================================================
