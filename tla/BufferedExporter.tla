---------------------------- MODULE BufferedExporter ----------------------------
(***************************************************************************)
(* BufferedDbExporter of the Python SDK: application threads append events *)
(* to a bounded queue, one writer thread collects them into batches and    *)
(* writes these to the embedded store, and flush waits for what was        *)
(* submitted before it.                                                    *)
(*                                                                         *)
(* All of them share one condition variable.  A critical section is one    *)
(* step, up to the wait that releases the lock; `waiting` is the set of    *)
(* threads inside such a wait that nobody has notified, so a wake-up that  *)
(* was lost stays lost.  An event is its sequence number.                  *)
(***************************************************************************)
EXTENDS Naturals, Sequences, SequencesExt, FiniteSets

CONSTANTS Producers,   \* threads that export
          Flushers,    \* threads that flush or close
          Writer,      \* the yitrace-db-writer thread
          BatchSizes,  \* how many events one export_batch may bring
          MaxQueue, MaxBatch, MaxRetries,   \* the parameters of the exporter
          MaxOffered   \* bound: events ever exported

Threads == Producers \cup Flushers \cup {Writer}

ASSUME ThreadsAreDistinct ==
  Producers \cap Flushers = {} /\ Writer \notin Producers \cup Flushers
ASSUME ParametersArePositive ==
  /\ MaxQueue \in Nat \ {0} /\ MaxBatch \in Nat \ {0} /\ MaxRetries \in Nat
  /\ BatchSizes \subseteq Nat \ {0} /\ MaxOffered \in Nat

VARIABLES dropWhenFull,  \* the parameter of that name
          queue,         \* sequence numbers queued
          submitted, processed, flushTarget,  \* _submitted_seq, ...
          closed,        \* the event of that name
          waiting,       \* threads asleep on _queue_changed
          pc,
          left,          \* left[p]: events of its batch producer p still has to queue
          lost,          \* lost[p]: events it could not queue and has not counted yet
          target,        \* target[f]: what flusher f waits for
          batch,         \* what the writer took from the queue
          attempts,      \* failed attempts to write it
          sent,          \* history: events the store took; _sent is how many
          given,         \* history: events given up after the retries
          dropped,       \* _dropped
          offered        \* history: events that export_batch was called with

flags == <<dropWhenFull, closed>>
writerVars == <<batch, attempts, sent, given>>
producerVars == <<left, lost>>
vars == <<flags, queue, submitted, processed, flushTarget, waiting, pc,
          producerVars, target, writerVars, dropped, offered>>

Init ==
  /\ dropWhenFull \in BOOLEAN /\ closed = FALSE
  /\ queue = <<>> /\ submitted = 0 /\ processed = 0 /\ flushTarget = 0
  /\ waiting = {}
  /\ pc = [t \in Threads |-> IF t = Writer THEN "await" ELSE "idle"]
  /\ left = [p \in Producers |-> 0] /\ lost = [p \in Producers |-> 0]
  /\ target = [f \in Flushers |-> 0]
  /\ batch = <<>> /\ attempts = 0 /\ sent = {} /\ given = {}
  /\ dropped = 0 /\ offered = 0

GoTo(t, step) == pc' = [pc EXCEPT ![t] = step]
NotifyAll == waiting' = {}
Wait(t) == waiting' = waiting \cup {t}
Awake(t) == t \notin waiting
Greater(a, b) == IF a < b THEN b ELSE a
Lower(a, b) == IF a < b THEN a ELSE b

-----------------------------------------------------------------------------
(* Producers.                                                              *)

Room == IF closed THEN 0 ELSE MaxQueue - Len(queue)

MutSubmit(p, n) ==
  LET fits == Lower(n, Room)
      stuck == n > fits /\ ~dropWhenFull
  IN  /\ queue' = queue \o [i \in 1..fits |-> submitted + i]
      /\ submitted' = submitted + fits
      /\ IF stuck
         THEN /\ Wait(p) /\ GoTo(p, "blocked")
              /\ left' = [left EXCEPT ![p] = n - fits] /\ UNCHANGED lost
         ELSE /\ NotifyAll /\ GoTo(p, "count")
              /\ left' = [left EXCEPT ![p] = 0]
              /\ lost' = [lost EXCEPT ![p] = n - fits]
      /\ UNCHANGED <<flags, processed, flushTarget, target, writerVars, dropped>>

\* The loop of export_batch with n events to go: queue what fits, then wait for
\* room, which tells nobody of what was queued, or drop the rest and notify.
Submit(p, n) ==
  LET fits == Lower(n, Room)
      stuck == n > fits /\ ~dropWhenFull /\ ~closed
  IN  /\ queue' = queue \o [i \in 1..fits |-> submitted + i]
      /\ submitted' = submitted + fits
      /\ IF stuck
         THEN /\ Wait(p) /\ GoTo(p, "blocked")
              /\ left' = [left EXCEPT ![p] = n - fits] /\ UNCHANGED lost
         ELSE /\ NotifyAll /\ GoTo(p, "count")
              /\ left' = [left EXCEPT ![p] = 0]
              /\ lost' = [lost EXCEPT ![p] = n - fits]
      /\ UNCHANGED <<flags, processed, flushTarget, target, writerVars, dropped>>

ExportBatch(p, n) ==
  /\ pc[p] = "idle"
  /\ offered + n <= MaxOffered /\ offered' = offered + n
  /\ Submit(p, n)

Resume(p) ==
  /\ pc[p] = "blocked" /\ Awake(p)
  /\ Submit(p, left[p])
  /\ UNCHANGED offered

\* _record_drop, outside the critical section.
RecordDrop(p) ==
  /\ pc[p] = "count" /\ GoTo(p, "idle")
  /\ dropped' = dropped + lost[p]
  /\ lost' = [lost EXCEPT ![p] = 0]
  /\ UNCHANGED <<flags, queue, submitted, processed, flushTarget, waiting, left,
                 target, writerVars, offered>>

-----------------------------------------------------------------------------
(* Flush and close.                                                        *)

MutRequest ==
  /\ flushTarget' = Greater(flushTarget, submitted) /\ UNCHANGED waiting
  /\ UNCHANGED <<queue, submitted, processed, producerVars, writerVars, dropped, offered>>

Request ==
  /\ flushTarget' = Greater(flushTarget, submitted) /\ NotifyAll
  /\ UNCHANGED <<queue, submitted, processed, producerVars, writerVars, dropped, offered>>

\* What the tracer calls at the end of a trace.
RequestFlush(f) ==
  /\ pc[f] = "idle" /\ Request
  /\ UNCHANGED <<flags, pc, target>>

Flush(f) ==
  /\ \/ pc[f] = "idle" /\ GoTo(f, "flushing")
     \/ pc[f] = "closing" /\ GoTo(f, "draining")
  /\ Request
  /\ target' = [target EXCEPT ![f] = submitted]
  /\ UNCHANGED flags

\* The first close; any later one returns at once.
Close(f) ==
  /\ pc[f] = "idle" /\ GoTo(f, "closing")
  /\ ~closed /\ closed' = TRUE
  /\ Request
  /\ UNCHANGED <<dropWhenFull, target>>

Reached(f) == processed >= target[f]

AwaitProcessed(f) ==
  /\ pc[f] \in {"flushing", "draining"} /\ Awake(f)
  /\ IF Reached(f)
     THEN GoTo(f, IF pc[f] = "flushing" THEN "done" ELSE "joining") /\ UNCHANGED waiting
     ELSE Wait(f) /\ UNCHANGED pc
  /\ UNCHANGED <<flags, queue, submitted, processed, flushTarget, producerVars,
                 target, writerVars, dropped, offered>>

\* The time of a flush or close that has a timeout is up.
TimeOut(f) ==
  /\ pc[f] \in {"flushing", "draining"} /\ ~Reached(f)
  /\ GoTo(f, IF pc[f] = "flushing" THEN "idle" ELSE "joining")
  /\ waiting' = waiting \ {f}
  /\ UNCHANGED <<flags, queue, submitted, processed, flushTarget, producerVars,
                 target, writerVars, dropped, offered>>

\* flush returns True; close stops waiting for the writer to end.
Return(f) ==
  /\ pc[f] \in {"done", "joining"} /\ GoTo(f, "idle")
  /\ target' = [target EXCEPT ![f] = 0]
  /\ UNCHANGED <<flags, queue, submitted, processed, flushTarget, waiting, producerVars,
                 writerVars, dropped, offered>>

-----------------------------------------------------------------------------
(* The writer.                                                             *)

\* The collection window is over before its time.
Ready == Len(queue) >= MaxBatch \/ closed \/ flushTarget > processed

MutTake ==
  LET size == Lower(MaxBatch, Len(queue))
  IN  /\ GoTo(Writer, "write") /\ NotifyAll
      /\ batch' = SubSeq(queue, 1, size)
      /\ queue' = SubSeq(queue, size + 1, Len(queue))
      /\ processed' = Last(batch')
      /\ attempts' = 0
      /\ UNCHANGED <<flags, submitted, flushTarget, producerVars, target, sent,
                     given, dropped, offered>>

Take ==
  LET size == Lower(MaxBatch, Len(queue))
  IN  /\ GoTo(Writer, "write") /\ NotifyAll
      /\ batch' = SubSeq(queue, 1, size)
      /\ queue' = SubSeq(queue, size + 1, Len(queue))
      /\ attempts' = 0
      /\ UNCHANGED <<flags, submitted, processed, flushTarget, producerVars, target,
                     sent, given, dropped, offered>>

Sleep(step) ==
  /\ Wait(Writer) /\ GoTo(Writer, step)
  /\ UNCHANGED <<flags, queue, submitted, processed, flushTarget, producerVars, target,
                 writerVars, dropped, offered>>

MutStop ==
  /\ pc[Writer] = "await" /\ Awake(Writer) /\ closed
  /\ GoTo(Writer, "stopped")
  /\ UNCHANGED <<flags, queue, submitted, processed, flushTarget, waiting, producerVars,
                 target, writerVars, dropped, offered>>

\* _take_batch on an empty queue ...
Stop ==
  /\ pc[Writer] = "await" /\ Awake(Writer) /\ queue = <<>> /\ closed
  /\ GoTo(Writer, "stopped")
  /\ UNCHANGED <<flags, queue, submitted, processed, flushTarget, waiting, producerVars,
                 target, writerVars, dropped, offered>>

MutAwaitEvents ==
  pc[Writer] = "await" /\ Awake(Writer) /\ queue = <<>> /\ Sleep("await")

AwaitEvents ==
  pc[Writer] = "await" /\ Awake(Writer) /\ queue = <<>> /\ ~closed /\ Sleep("await")

\* ... and in the collection window, woken or fresh ...
Collect ==
  /\ pc[Writer] \in {"await", "collect"} /\ Awake(Writer) /\ queue # <<>>
  /\ IF Ready THEN Take ELSE Sleep("collect")

\* ... which ends at its deadline.
Deadline == pc[Writer] = "collect" /\ Take

\* One attempt of _write_batch: the store takes the batch, or fails and is tried
\* again, or has failed once too often.
Write ==
  /\ pc[Writer] = "write"
  /\ \/ GoTo(Writer, "finish") /\ sent' = sent \cup ToSet(batch)
        /\ UNCHANGED <<given, dropped, attempts>>
     \/ attempts < MaxRetries /\ attempts' = attempts + 1
        /\ UNCHANGED <<pc, sent, given, dropped>>
     \/ /\ attempts >= MaxRetries /\ GoTo(Writer, "finish")
        /\ given' = given \cup ToSet(batch) /\ dropped' = dropped + Len(batch)
        /\ UNCHANGED <<attempts, sent>>
  /\ UNCHANGED <<flags, queue, submitted, processed, flushTarget, waiting, producerVars,
                 target, batch, offered>>

Finish ==
  /\ pc[Writer] = "finish" /\ GoTo(Writer, "await")
  /\ processed' = Last(batch) /\ batch' = <<>> /\ NotifyAll
  /\ attempts' = 0
  /\ UNCHANGED <<flags, queue, submitted, flushTarget, producerVars, target, sent,
                 given, dropped, offered>>

WriterStep == Stop \/ AwaitEvents \/ Collect \/ Write \/ Finish

Next ==
  \/ \E p \in Producers : Resume(p) \/ RecordDrop(p) \/ \E n \in BatchSizes : ExportBatch(p, n)
  \/ \E f \in Flushers : \/ RequestFlush(f) \/ Flush(f) \/ Close(f) \/ AwaitProcessed(f)
                         \/ TimeOut(f) \/ Return(f)
  \/ WriterStep \/ Deadline

Spec == Init /\ [][Next]_vars

\* A thread that is not asleep runs, and every attempt of the writer ends.  Nobody
\* has to export or flush, no timeout has to strike and no window has to expire.
FairSpec ==
  /\ Spec /\ WF_vars(WriterStep)
  /\ \A p \in Producers : WF_vars(Resume(p) \/ RecordDrop(p))
  /\ \A f \in Flushers : WF_vars(AwaitProcessed(f) \/ (pc[f] = "closing" /\ Flush(f)))

-----------------------------------------------------------------------------
(* Properties.                                                             *)

\* Type correctness of the exporter; the queue never exceeds its capacity.
TypeOK ==
  /\ dropWhenFull \in BOOLEAN /\ closed \in BOOLEAN
  /\ ToSet(queue) \subseteq 1..submitted /\ Len(queue) <= MaxQueue
  /\ submitted \in 0..offered /\ offered \in 0..MaxOffered
  /\ processed \in 0..submitted /\ flushTarget \in 0..submitted
  /\ waiting \subseteq Threads
  /\ \A p \in Producers : pc[p] \in {"idle", "blocked", "count"}
  /\ \A f \in Flushers :
       pc[f] \in {"idle", "flushing", "done", "closing", "draining", "joining"}
  /\ pc[Writer] \in {"await", "collect", "write", "finish", "stopped"}
  /\ left \in [Producers -> 0..MaxOffered] /\ lost \in [Producers -> 0..MaxOffered]
  /\ target \in [Flushers -> 0..submitted]
  /\ ToSet(batch) \subseteq 1..submitted /\ Len(batch) <= MaxBatch
  /\ attempts \in 0..MaxRetries
  /\ sent \subseteq 1..submitted /\ given \subseteq 1..submitted /\ dropped \in 0..offered

\* A flush that returned True has waited for every event submitted before it: each
\* is in the store or was given up, none is queued or being written.
FlushBarrier == \A f \in Flushers : pc[f] = "done" => 1..target[f] \subseteq sent \cup given

\* Once the writer has stopped and no export is going on, sent_count and
\* dropped_count account for every event the application ever exported, whatever
\* exports raced close.
AllCounted ==
  pc[Writer] = "stopped" /\ (\A p \in Producers : pc[p] = "idle") =>
    offered = Cardinality(sent) + dropped

\* A flush without a timeout returns, even if no collection window ever expires by
\* itself: whoever asks for it wakes the writer, and the writer wakes whoever waits.
FlushReturns == \A f \in Flushers : pc[f] = "flushing" ~> pc[f] # "flushing"

\* close makes the writer finish what is queued and end.
WriterStops == closed ~> pc[Writer] = "stopped"

\* "When the queue is full the producer waits for the writer to make room": a
\* blocked export goes on, given that collection windows expire.
ProducerReturns ==
  WF_vars(Deadline) => \A p \in Producers : pc[p] = "blocked" ~> pc[p] # "blocked"

\* Nobody waits for ever: a flush returns, close ends the writer, and a blocked
\* export goes on (Condition.wait and notify_all of BufferedDbExporter).
NobodyWaitsForever == FlushReturns /\ WriterStops /\ ProducerReturns

=============================================================================
