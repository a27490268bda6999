-------------------------- MODULE BufferedExporterProof --------------------------
(***************************************************************************)
(* The buffered exporter, for any set of threads, batch sizes and limits:  *)
(* what a flush has waited for, and where every exported event went.       *)
(*                                                                         *)
(* The sequence numbers up to `processed` are in `sent` or in `given`, the *)
(* batch has the ones that follow and the queue the rest, in order; so     *)
(* the counter that flush compares speaks of the very events submitted     *)
(* before it.  For the accounting, what a producer still has to queue or   *)
(* to count is a set of tokens, as many as it owes; the cardinality of all *)
(* tokens is then the sum over producers that export, queue, drop and      *)
(* count keep in balance.                                                  *)
(***************************************************************************)
EXTENDS BufferedExporter, SequenceTheorems, FiniteSetTheorems, TLAPS

-----------------------------------------------------------------------------
(* Tokens.                                                                 *)

\* As many tokens for every producer as it owes.
Tokens(owed) == UNION {{p} \X (1..owed[p]) : p \in Producers}

\* One producer has as many tokens as it owes.
LEMMA TokensOfOne ==
  ASSUME NEW p, NEW n \in Nat
  PROVE  IsFiniteSet({p} \X (1..n)) /\ Cardinality({p} \X (1..n)) = n
<1>1. IsFiniteSet({p}) /\ Cardinality({p}) = 1
  BY FS_Singleton
<1>2. IsFiniteSet(1..n) /\ Cardinality(1..n) = n
  BY FS_Interval
<1>3. /\ IsFiniteSet({p} \X (1..n))
      /\ Cardinality({p} \X (1..n)) = Cardinality({p}) * Cardinality(1..n)
  BY <1>1, <1>2, FS_Product
<1>4. QED
  BY <1>1, <1>2, <1>3

\* When one producer owes more or less, the number of tokens changes by as much.
LEMMA TokensChange ==
  ASSUME NEW owed \in [Producers -> Nat], NEW p \in Producers, NEW n \in Nat,
         IsFiniteSet(Tokens(owed))
  PROVE  /\ IsFiniteSet(Tokens([owed EXCEPT ![p] = n]))
         /\ Cardinality(Tokens([owed EXCEPT ![p] = n])) + owed[p] = Cardinality(Tokens(owed)) + n
<1> DEFINE others == UNION {{q} \X (1..owed[q]) : q \in Producers \ {p}}
           mine(k) == {p} \X (1..k)
           now == [owed EXCEPT ![p] = n]
<1>1. Tokens(owed) = others \cup mine(owed[p])
  BY DEF Tokens
<1>2. Tokens(now) = others \cup mine(n)
  <2>1. \A q \in Producers \ {p} : now[q] = owed[q]
    OBVIOUS
  <2>2. now[p] = n
    OBVIOUS
  <2>3. QED
    BY <2>1, <2>2 DEF Tokens
<1>3. \A k \in Nat : others \cap mine(k) = {}
  OBVIOUS
<1>4. IsFiniteSet(others)
  BY <1>1, FS_Subset
<1>5. \A k \in Nat : /\ IsFiniteSet(others \cup mine(k))
                     /\ Cardinality(others \cup mine(k)) = Cardinality(others) + k
  <2> SUFFICES ASSUME NEW k \in Nat
               PROVE  /\ IsFiniteSet(others \cup mine(k))
                      /\ Cardinality(others \cup mine(k)) = Cardinality(others) + k
    OBVIOUS
  <2>1. IsFiniteSet(mine(k)) /\ Cardinality(mine(k)) = k
    BY TokensOfOne
  <2>2. Cardinality(others \cap mine(k)) = 0
    BY <1>3, FS_EmptySet
  <2>3. Cardinality(others) \in Nat
    BY <1>4, FS_CardinalityType
  <2> HIDE DEF others, mine
  <2>4. /\ IsFiniteSet(others \cup mine(k))
        /\ Cardinality(others \cup mine(k))
             = Cardinality(others) + Cardinality(mine(k)) - Cardinality(others \cap mine(k))
    BY <1>4, <2>1, FS_Union
  <2>5. QED
    BY <2>1, <2>2, <2>3, <2>4
<1>6. Cardinality(others) \in Nat
  BY <1>4, FS_CardinalityType
<1>7. owed[p] \in Nat
  OBVIOUS
<1> HIDE DEF others, mine, now
<1>8. IsFiniteSet(Tokens(now)) /\ Cardinality(Tokens(now)) = Cardinality(others) + n
  BY <1>2, <1>5
<1>9. Cardinality(Tokens(owed)) = Cardinality(others) + owed[p]
  BY <1>1, <1>5, <1>7
<1>10. QED
  BY <1>6, <1>7, <1>8, <1>9 DEF now

-----------------------------------------------------------------------------
(* The inductive invariant.                                                *)

Shape ==
  /\ pc = [t \in Threads |-> pc[t]]
  /\ left \in [Producers -> Nat] /\ lost \in [Producers -> Nat]
  /\ target = [f \in Flushers |-> target[f]] /\ \A f \in Flushers : target[f] \in Nat
  /\ pc[Writer] \in {"await", "collect", "write", "finish", "stopped"}
  /\ \A p \in Producers : pc[p] \in {"idle", "blocked", "count"}
  /\ dropped \in Nat /\ offered \in Nat /\ attempts \in Nat /\ processed \in Nat

\* Batch and queue are the numbers after `processed`, in order.
InOrder ==
  /\ queue \in Seq(Nat) /\ batch \in Seq(Nat)
  /\ Len(queue) <= MaxQueue
  /\ submitted = processed + Len(batch) + Len(queue)
  /\ \A i \in 1..Len(batch) : batch[i] = processed + i
  /\ \A i \in 1..Len(queue) : queue[i] = processed + Len(batch) + i

\* What the writer has at each of its steps.
WriterHas ==
  /\ pc[Writer] \in {"write", "finish"} <=> Len(batch) > 0
  /\ pc[Writer] = "collect" => Len(queue) > 0
  /\ pc[Writer] = "stopped" => closed /\ Len(queue) = 0

\* Where the events went that the writer is done with.
Settled == IF pc[Writer] = "finish" THEN processed + Len(batch) ELSE processed

Outcomes == sent \cup given = 1..Settled /\ sent \cap given = {}

Owed == [p \in Producers |-> left[p] + lost[p]]

\* Every event exported is submitted, owed or counted as dropped.
Balance ==
  /\ IsFiniteSet(Tokens(Owed))
  /\ offered + Cardinality(given) = submitted + Cardinality(Tokens(Owed)) + dropped
  /\ \A p \in Producers : /\ pc[p] = "idle" => left[p] = 0 /\ lost[p] = 0
                          /\ pc[p] = "blocked" => lost[p] = 0
                          /\ pc[p] = "count" => left[p] = 0

\* A flush that is about to return has been overtaken by the writer.
FlushesDone == \A f \in Flushers : pc[f] = "done" => target[f] <= processed

IInv == Shape /\ InOrder /\ WriterHas /\ Outcomes /\ Balance /\ FlushesDone

\* Nothing is exported at the start.
LEMMA InitInv == Init => IInv
<1> SUFFICES ASSUME Init PROVE IInv
  OBVIOUS
<1> USE ThreadsAreDistinct, ParametersArePositive DEF Init
<1>1. Shape /\ InOrder /\ WriterHas /\ FlushesDone
  BY DEF Shape, InOrder, WriterHas, FlushesDone, Threads
<1>2. Outcomes
  BY DEF Outcomes, Settled
<1>3. Balance
  <2>1. Tokens(Owed) = {}
    BY DEF Tokens, Owed
  <2>2. QED
    BY <2>1, FS_EmptySet DEF Balance, Threads
<1>4. QED
  BY <1>1, <1>2, <1>3 DEF IInv

\* The writer is done with finitely many events.
LEMMA OutcomesFinite ==
  ASSUME IInv
  PROVE  /\ Settled \in Nat /\ IsFiniteSet(sent) /\ IsFiniteSet(given)
         /\ Cardinality(sent) \in Nat /\ Cardinality(given) \in Nat
<1>1. Settled \in Nat
  BY LenProperties DEF IInv, Settled, Shape, InOrder
<1>2. IsFiniteSet(1..Settled)
  BY <1>1, FS_Interval
<1>3. sent \subseteq 1..Settled /\ given \subseteq 1..Settled
  BY DEF IInv, Outcomes
<1>4. IsFiniteSet(sent) /\ IsFiniteSet(given)
  BY <1>2, <1>3, FS_Subset
<1>5. QED
  BY <1>1, <1>4, FS_CardinalityType

\* The accounts and the lengths.
LEMMA Books ==
  ASSUME IInv
  PROVE  /\ offered + Cardinality(given) = submitted + Cardinality(Tokens(Owed)) + dropped
         /\ Len(queue) \in Nat /\ Len(batch) \in Nat /\ processed \in Nat /\ dropped \in Nat
         /\ attempts \in Nat /\ submitted \in Nat /\ offered \in Nat
         /\ Cardinality(Tokens(Owed)) \in Nat
         /\ Cardinality(given) \in Nat /\ Cardinality(sent) \in Nat
<1>1. /\ Len(queue) \in Nat /\ Len(batch) \in Nat /\ processed \in Nat /\ dropped \in Nat
      /\ attempts \in Nat /\ offered \in Nat
  BY LenProperties DEF IInv, Shape, InOrder
<1>2. submitted \in Nat
  BY <1>1 DEF IInv, InOrder
<1>3. /\ offered + Cardinality(given) = submitted + Cardinality(Tokens(Owed)) + dropped
      /\ IsFiniteSet(Tokens(Owed))
  BY DEF IInv, Balance
<1>4. Cardinality(Tokens(Owed)) \in Nat
  BY <1>3, FS_CardinalityType
<1>5. QED
  BY <1>1, <1>2, <1>3, <1>4, OutcomesFinite

-----------------------------------------------------------------------------
(* Producers.                                                              *)

\* One pass of the loop of export_batch with n events to go, of which `before` were
\* owed when it began and are offered anew otherwise.
LEMMA SubmitInv ==
  ASSUME IInv, NEW p \in Producers, NEW n \in Nat, Submit(p, n),
         pc[p] \in {"idle", "blocked"}, offered' = offered + n - left[p], n >= left[p]
  PROVE  IInv'
<1> USE ThreadsAreDistinct, ParametersArePositive
<1> DEFINE fits == Lower(n, Room)
           more == [i \in 1..fits |-> submitted + i]
<1>1. fits \in Nat /\ fits <= n /\ Len(queue) + fits <= MaxQueue /\ (closed => fits = 0)
  BY LenProperties DEF IInv, InOrder, Lower, Room
<1>2. /\ queue' = queue \o more /\ submitted' = submitted + fits
      /\ UNCHANGED <<flags, processed, flushTarget, target, writerVars, dropped>>
  BY DEF Submit
<1>4. \/ /\ pc' = [pc EXCEPT ![p] = "blocked"]
         /\ left' = [left EXCEPT ![p] = n - fits] /\ lost' = lost
      \/ /\ pc' = [pc EXCEPT ![p] = "count"]
         /\ left' = [left EXCEPT ![p] = 0] /\ lost' = [lost EXCEPT ![p] = n - fits]
  BY DEF Submit, GoTo
<1>5. p \in Threads /\ p # Writer /\ p \notin Flushers
  BY DEF Threads
<1> HIDE DEF fits
<1>3. left[p] \in Nat /\ lost[p] = 0 /\ n - fits \in Nat
  <2>1. left[p] \in Nat
    BY DEF IInv, Shape
  <2>2. lost[p] = 0
    BY DEF IInv, Balance
  <2>3. n - fits \in Nat
    BY <1>1
  <2>4. QED
    BY <2>1, <2>2, <2>3
<1>6. /\ left' \in [Producers -> Nat] /\ lost' \in [Producers -> Nat]
      /\ left'[p] + lost'[p] = n - fits
      /\ pc'[p] = "blocked" => lost'[p] = 0
      /\ pc'[p] = "count" => left'[p] = 0
      /\ \A q \in Producers \ {p} : left'[q] = left[q] /\ lost'[q] = lost[q]
  BY <1>3, <1>4, <1>5 DEF IInv, Shape
<1>7. /\ pc' = [t \in Threads |-> pc'[t]] /\ pc'[p] \in {"blocked", "count"}
      /\ pc'[Writer] = pc[Writer] /\ \A t \in Threads \ {p} : pc'[t] = pc[t]
  BY <1>4, <1>5 DEF IInv, Shape, Threads
<1>8. submitted \in Nat
  BY LenProperties DEF IInv, Shape, InOrder
<1>9. more \in Seq(Nat) /\ Len(more) = fits /\ \A i \in 1..fits : more[i] = submitted + i
  BY <1>1, <1>8, IsASeq
<1> HIDE DEF more
<1>10. /\ queue' \in Seq(Nat) /\ Len(queue') = Len(queue) + fits
       /\ \A i \in 1..(Len(queue) + fits) :
            queue'[i] = IF i <= Len(queue) THEN queue[i] ELSE more[i - Len(queue)]
  <2>1. queue \in Seq(Nat)
    BY DEF IInv, InOrder
  <2>2. /\ queue \o more \in Seq(Nat) /\ Len(queue \o more) = Len(queue) + Len(more)
        /\ \A i \in 1..(Len(queue) + Len(more)) : (queue \o more)[i] =
             IF i <= Len(queue) THEN queue[i] ELSE more[i - Len(queue)]
    BY <1>9, <2>1, ConcatProperties
  <2>3. QED
    BY <1>2, <1>9, <2>2
<1>11. InOrder'
  <2>1. /\ Len(queue) \in Nat /\ Len(batch) \in Nat /\ processed \in Nat
        /\ submitted = processed + Len(batch) + Len(queue)
        /\ \A i \in 1..Len(queue) : queue[i] = processed + Len(batch) + i
    BY LenProperties DEF IInv, InOrder, Shape
  <2>2. \A i \in 1..(Len(queue) + fits) : queue'[i] = processed + Len(batch) + i
    <3> SUFFICES ASSUME NEW i \in 1..(Len(queue) + fits)
                 PROVE  queue'[i] = processed + Len(batch) + i
      OBVIOUS
    <3>1. i <= Len(queue) => queue'[i] = queue[i] /\ i \in 1..Len(queue)
      <4>1. i <= Len(queue) => queue'[i] = queue[i]
        BY <1>10
      <4>2. QED
        BY <1>1, <2>1, <4>1
    <3>2. ~(i <= Len(queue)) => queue'[i] = more[i - Len(queue)] /\ i - Len(queue) \in 1..fits
      BY <1>1, <1>10, <2>1
    <3>3. i - Len(queue) \in 1..fits => more[i - Len(queue)] = submitted + (i - Len(queue))
      BY <1>9
    <3>4. QED
      BY <1>1, <2>1, <3>1, <3>2, <3>3
  <2>3. batch' = batch /\ processed' = processed /\ submitted' = submitted + fits
    BY <1>2 DEF writerVars
  <2>4. QED
    BY <1>1, <1>10, <2>1, <2>2, <2>3 DEF IInv, InOrder
<1>12. Shape'
  <2>1. \A q \in Producers : pc'[q] \in {"idle", "blocked", "count"}
    BY <1>7 DEF IInv, Shape, Threads
  <2>2. offered' \in Nat
    BY <1>3 DEF IInv, Shape
  <2>3. QED
    BY <1>2, <1>6, <1>7, <2>1, <2>2 DEF IInv, Shape, writerVars
<1>13. WriterHas'
  BY <1>1, <1>2, <1>7, <1>10, LenProperties DEF IInv, WriterHas, InOrder, writerVars, flags
<1>14. Outcomes' /\ FlushesDone'
  BY <1>2, <1>5, <1>7 DEF IInv, Outcomes, Settled, FlushesDone, writerVars, Threads
<1>15. Balance'
  <2>1. Owed \in [Producers -> Nat] /\ Owed[p] = left[p]
    BY <1>3 DEF Owed, IInv, Shape
  <2>2. Owed' = [Owed EXCEPT ![p] = n - fits]
    BY <1>6 DEF Owed
  <2>3. /\ IsFiniteSet(Tokens(Owed)')
        /\ Cardinality(Tokens(Owed)') + left[p] = Cardinality(Tokens(Owed)) + (n - fits)
    <3>1. IsFiniteSet(Tokens(Owed))
      BY DEF IInv, Balance
    <3>2. Tokens(Owed)' = Tokens([Owed EXCEPT ![p] = n - fits])
      BY <2>2 DEF Tokens
    <3>3. /\ IsFiniteSet(Tokens([Owed EXCEPT ![p] = n - fits]))
          /\ Cardinality(Tokens([Owed EXCEPT ![p] = n - fits])) + Owed[p]
               = Cardinality(Tokens(Owed)) + (n - fits)
      BY <1>3, <2>1, <3>1, TokensChange
    <3>4. QED
      BY <2>1, <3>2, <3>3
  <2>4. Cardinality(Tokens(Owed)) \in Nat /\ Cardinality(Tokens(Owed)') \in Nat
    BY <2>3, FS_CardinalityType DEF IInv, Balance
  <2>5. given' = given /\ dropped' = dropped /\ submitted' = submitted + fits
    BY <1>2 DEF writerVars
  <2>6. Cardinality(given') = Cardinality(given)
    BY <2>5
  <2>7. Cardinality(given) \in Nat
    BY OutcomesFinite
  <2>8. offered' + Cardinality(given') = submitted' + Cardinality(Tokens(Owed)') + dropped'
    <3>1. offered + Cardinality(given) = submitted + Cardinality(Tokens(Owed)) + dropped
      BY DEF IInv, Balance
    <3>2. offered \in Nat /\ dropped \in Nat
      BY DEF IInv, Shape
    <3>3. offered' + Cardinality(given)
            = (submitted + fits) + Cardinality(Tokens(Owed)') + dropped
      <4>1. \A o, g, s, c, d, l, f, e \in Nat :
              o + g = s + c + d /\ e + l = c + (n - f) =>
                (o + n - l) + g = (s + f) + e + d
        OBVIOUS
      <4>2. offered \in Nat /\ Cardinality(given) \in Nat /\ submitted \in Nat
            /\ Cardinality(Tokens(Owed)) \in Nat /\ dropped \in Nat /\ left[p] \in Nat
            /\ fits \in Nat /\ Cardinality(Tokens(Owed)') \in Nat
        BY <1>1, <1>3, <1>8, <2>4, <2>7, <3>2
      <4>3. (offered + n - left[p]) + Cardinality(given)
              = (submitted + fits) + Cardinality(Tokens(Owed)') + dropped
        BY <2>3, <3>1, <4>1, <4>2
      <4>4. QED
        BY <4>3
    <3>4. QED
      BY <2>5, <2>6, <3>3
  <2>9. \A q \in Producers : /\ pc'[q] = "idle" => left'[q] = 0 /\ lost'[q] = 0
                             /\ pc'[q] = "blocked" => lost'[q] = 0
                             /\ pc'[q] = "count" => left'[q] = 0
    BY <1>6, <1>7 DEF IInv, Balance, Threads
  <2>10. QED
    BY <2>3, <2>8, <2>9 DEF Balance
<1>16. QED
  BY <1>11, <1>12, <1>13, <1>14, <1>15 DEF IInv

\* A new call of export_batch owes what it was called with.
LEMMA ExportInv ==
  ASSUME IInv, NEW p \in Producers, NEW n \in BatchSizes, ExportBatch(p, n)
  PROVE  IInv'
<1>1. n \in Nat
  BY ParametersArePositive
<1>2. pc[p] = "idle" /\ offered' = offered + n /\ Submit(p, n)
  BY DEF ExportBatch
<1>3. left[p] = 0
  BY <1>2 DEF IInv, Balance
<1>4. offered' = offered + n - left[p] /\ n >= left[p]
  BY <1>1, <1>2, <1>3 DEF IInv, Shape
<1>5. QED
  BY <1>1, <1>2, <1>4, SubmitInv

\* A call that waited for room goes on with what it owes.
LEMMA ResumeInv ==
  ASSUME IInv, NEW p \in Producers, Resume(p)
  PROVE  IInv'
<1>1. pc[p] = "blocked" /\ offered' = offered /\ Submit(p, left[p])
  BY DEF Resume
<1>2. left[p] \in Nat
  BY DEF IInv, Shape
<1>3. offered' = offered + left[p] - left[p] /\ left[p] >= left[p]
  BY <1>1, <1>2 DEF IInv, Shape
<1>4. QED
  BY <1>1, <1>2, <1>3, SubmitInv

\* _record_drop counts what the call could not queue.
LEMMA RecordDropInv ==
  ASSUME IInv, NEW p \in Producers, RecordDrop(p)
  PROVE  IInv'
<1> USE ThreadsAreDistinct
<1>1. /\ pc[p] = "count" /\ pc' = [pc EXCEPT ![p] = "idle"]
      /\ dropped' = dropped + lost[p] /\ lost' = [lost EXCEPT ![p] = 0]
      /\ UNCHANGED <<flags, queue, submitted, processed, left, target, writerVars, offered>>
  BY DEF RecordDrop, GoTo
<1>2. p \in Threads /\ p # Writer /\ p \notin Flushers
  BY DEF Threads
<1>3. left[p] = 0 /\ lost[p] \in Nat
  BY <1>1 DEF IInv, Shape, Balance
<1>4. /\ pc' = [t \in Threads |-> pc'[t]] /\ pc'[p] = "idle"
      /\ pc'[Writer] = pc[Writer] /\ \A t \in Threads \ {p} : pc'[t] = pc[t]
  BY <1>1, <1>2 DEF IInv, Shape, Threads
<1>5. Shape'
  <2>1. \A q \in Producers : pc'[q] \in {"idle", "blocked", "count"}
    BY <1>4 DEF IInv, Shape, Threads
  <2>2. lost' \in [Producers -> Nat] /\ dropped' \in Nat
    BY <1>1, <1>3 DEF IInv, Shape
  <2>3. QED
    BY <1>1, <1>4, <2>1, <2>2 DEF IInv, Shape, writerVars
<1>6. InOrder' /\ WriterHas'
  BY <1>1, <1>4 DEF IInv, InOrder, WriterHas, writerVars, flags
<1>7. Outcomes' /\ FlushesDone'
  BY <1>1, <1>2, <1>4 DEF IInv, Outcomes, Settled, FlushesDone, writerVars, Threads
<1>8. Balance'
  <2>1. Owed \in [Producers -> Nat] /\ Owed[p] = lost[p]
    BY <1>3 DEF Owed, IInv, Shape
  <2>2. Owed' = [Owed EXCEPT ![p] = 0]
    <3>1. left' = left /\ lost'[p] = 0 /\ \A q \in Producers \ {p} : lost'[q] = lost[q]
      BY <1>1 DEF IInv, Shape
    <3>2. left[p] + lost'[p] = 0
      BY <1>3, <3>1
    <3>3. QED
      BY <3>1, <3>2 DEF Owed
  <2>3. Tokens(Owed)' = Tokens([Owed EXCEPT ![p] = 0])
    BY <2>2 DEF Tokens
  <2>4. IsFiniteSet(Tokens(Owed))
    BY DEF IInv, Balance
  <2>5. /\ IsFiniteSet(Tokens([Owed EXCEPT ![p] = 0]))
        /\ Cardinality(Tokens([Owed EXCEPT ![p] = 0])) + Owed[p] = Cardinality(Tokens(Owed)) + 0
    BY <2>1, <2>4, TokensChange
  <2>6. IsFiniteSet(Tokens(Owed)') /\ Cardinality(Tokens(Owed)') + lost[p] = Cardinality(Tokens(Owed)) + 0
    BY <2>1, <2>3, <2>5
  <2>7. given' = given /\ submitted' = submitted /\ offered' = offered
    BY <1>1 DEF writerVars
  <2>8. Cardinality(given') = Cardinality(given)
    BY <2>7
  <2>9. offered' + Cardinality(given') = submitted' + Cardinality(Tokens(Owed)') + dropped'
    <3>1. \A o, g, s, c, d, l, e \in Nat :
            o + g = s + c + d /\ e + l = c + 0 => o + g = s + e + (d + l)
      OBVIOUS
    <3>2. /\ offered \in Nat /\ Cardinality(given) \in Nat /\ submitted \in Nat
          /\ Cardinality(Tokens(Owed)) \in Nat /\ dropped \in Nat /\ lost[p] \in Nat
          /\ Cardinality(Tokens(Owed)') \in Nat
      <4>1. Cardinality(Tokens(Owed)') \in Nat
        BY <2>6, FS_CardinalityType
      <4>2. QED
        BY <1>3, <4>1, Books
    <3>3. offered + Cardinality(given) = submitted + Cardinality(Tokens(Owed)) + dropped
      BY DEF IInv, Balance
    <3>4. offered + Cardinality(given) = submitted + Cardinality(Tokens(Owed)') + (dropped + lost[p])
      BY <2>6, <3>1, <3>2, <3>3
    <3>5. QED
      BY <1>1, <2>7, <2>8, <3>4
  <2>10. \A q \in Producers : /\ pc'[q] = "idle" => left'[q] = 0 /\ lost'[q] = 0
                              /\ pc'[q] = "blocked" => lost'[q] = 0
                              /\ pc'[q] = "count" => left'[q] = 0
    BY <1>1, <1>3, <1>4 DEF IInv, Shape, Balance, Threads
  <2>11. QED
    BY <2>6, <2>9, <2>10 DEF Balance
<1>9. QED
  BY <1>5, <1>6, <1>7, <1>8 DEF IInv

-----------------------------------------------------------------------------
(* Flush and close.                                                        *)

\* A step of a flusher moves that flusher, and may return from a flush only when the
\* writer has passed its target.
LEMMA FlusherStep ==
  ASSUME IInv, NEW f \in Flushers,
         UNCHANGED <<queue, submitted, processed, producerVars, writerVars, dropped, offered>>,
         pc' = [pc EXCEPT ![f] = pc'[f]],
         target' = [target EXCEPT ![f] = target'[f]], target'[f] \in Nat,
         pc'[f] = "done" => target'[f] <= processed,
         closed => closed'
  PROVE  IInv'
<1> USE ThreadsAreDistinct
<1>1. f \in Threads /\ f # Writer /\ f \notin Producers
  BY DEF Threads
<1>2. /\ pc' = [t \in Threads |-> pc'[t]]
      /\ pc'[Writer] = pc[Writer] /\ \A t \in Threads \ {f} : pc'[t] = pc[t]
  BY <1>1 DEF IInv, Shape, Threads
<1>3. /\ target' = [g \in Flushers |-> target'[g]]
      /\ \A g \in Flushers \ {f} : target'[g] = target[g]
  BY DEF IInv, Shape
<1>4. Shape'
  BY <1>1, <1>2, <1>3 DEF IInv, Shape, Threads, producerVars, writerVars
<1>5. InOrder' /\ WriterHas'
  BY <1>2 DEF IInv, InOrder, WriterHas, writerVars
<1>6. Outcomes' /\ FlushesDone'
  BY <1>1, <1>2, <1>3 DEF IInv, Outcomes, Settled, FlushesDone, writerVars, Threads
<1>7. Balance'
  BY <1>1, <1>2 DEF IInv, Balance, Owed, Tokens, writerVars, producerVars, Threads
<1>8. QED
  BY <1>4, <1>5, <1>6, <1>7 DEF IInv

\* Every handler of flush and close is such a step.
LEMMA FlusherInv ==
  ASSUME IInv, NEW f \in Flushers,
         \/ RequestFlush(f) \/ Flush(f) \/ Close(f) \/ AwaitProcessed(f)
         \/ TimeOut(f) \/ Return(f)
  PROVE  IInv'
<1> USE ThreadsAreDistinct
<1>1. /\ f \in Threads /\ pc = [t \in Threads |-> pc[t]] /\ target[f] \in Nat
      /\ target = [g \in Flushers |-> target[g]] /\ submitted \in Nat
  BY LenProperties DEF IInv, Shape, Threads, InOrder
<1>2. pc[f] = "done" => target[f] <= processed
  BY DEF IInv, FlushesDone
<1>3. CASE RequestFlush(f)
  <2>1. /\ UNCHANGED <<queue, submitted, processed, producerVars, writerVars, dropped, offered>>
        /\ UNCHANGED <<closed, pc, target>>
    BY <1>3 DEF RequestFlush, Request, flags
  <2>2. pc' = [pc EXCEPT ![f] = pc'[f]] /\ target' = [target EXCEPT ![f] = target'[f]]
    BY <1>1, <2>1
  <2>3. QED
    BY <1>1, <1>2, <2>1, <2>2, FlusherStep
<1>4. CASE Flush(f)
  <2>1. /\ UNCHANGED <<queue, submitted, processed, producerVars, writerVars, dropped, offered>>
        /\ closed' = closed /\ target' = [target EXCEPT ![f] = submitted]
    BY <1>4 DEF Flush, Request, flags
  <2>2. pc' = [pc EXCEPT ![f] = "flushing"] \/ pc' = [pc EXCEPT ![f] = "draining"]
    BY <1>4 DEF Flush, GoTo
  <2>3. pc' = [pc EXCEPT ![f] = pc'[f]] /\ pc'[f] # "done"
    BY <1>1, <2>2
  <2>4. target' = [target EXCEPT ![f] = target'[f]] /\ target'[f] \in Nat
    BY <1>1, <2>1
  <2>5. QED
    BY <2>1, <2>3, <2>4, FlusherStep
<1>5. CASE Close(f)
  <2>1. /\ UNCHANGED <<queue, submitted, processed, producerVars, writerVars, dropped, offered>>
        /\ closed' /\ target' = target /\ pc' = [pc EXCEPT ![f] = "closing"]
    BY <1>5 DEF Close, Request, GoTo
  <2>2. /\ pc' = [pc EXCEPT ![f] = pc'[f]] /\ pc'[f] # "done"
        /\ target' = [target EXCEPT ![f] = target'[f]]
    BY <1>1, <2>1
  <2>3. QED
    BY <1>1, <2>1, <2>2, FlusherStep
<1>6. CASE AwaitProcessed(f)
  <2>1. /\ UNCHANGED <<queue, submitted, processed, producerVars, writerVars, dropped, offered>>
        /\ closed' = closed /\ target' = target
    BY <1>6 DEF AwaitProcessed, flags
  <2>2. pc' = pc \/ (Reached(f) /\ \E step : pc' = [pc EXCEPT ![f] = step])
    BY <1>6 DEF AwaitProcessed, GoTo
  <2>3. pc' = [pc EXCEPT ![f] = pc'[f]] /\ target' = [target EXCEPT ![f] = target'[f]]
    BY <1>1, <2>1, <2>2
  <2>4. pc'[f] = "done" => target'[f] <= processed
    BY <1>1, <1>2, <2>1, <2>2 DEF Reached, IInv, Shape
  <2>5. QED
    BY <1>1, <2>1, <2>3, <2>4, FlusherStep
<1>7. CASE TimeOut(f)
  <2>1. /\ UNCHANGED <<queue, submitted, processed, producerVars, writerVars, dropped, offered>>
        /\ closed' = closed /\ target' = target
        /\ pc' = [pc EXCEPT ![f] = IF pc[f] = "flushing" THEN "idle" ELSE "joining"]
    BY <1>7 DEF TimeOut, flags, GoTo
  <2>2. /\ pc' = [pc EXCEPT ![f] = pc'[f]] /\ pc'[f] # "done"
        /\ target' = [target EXCEPT ![f] = target'[f]]
    BY <1>1, <2>1
  <2>3. QED
    BY <1>1, <2>1, <2>2, FlusherStep
<1>8. CASE Return(f)
  <2>1. /\ UNCHANGED <<queue, submitted, processed, producerVars, writerVars, dropped, offered>>
        /\ closed' = closed /\ target' = [target EXCEPT ![f] = 0]
        /\ pc' = [pc EXCEPT ![f] = "idle"]
    BY <1>8 DEF Return, flags, GoTo
  <2>2. /\ pc' = [pc EXCEPT ![f] = pc'[f]] /\ pc'[f] # "done"
        /\ target' = [target EXCEPT ![f] = target'[f]] /\ target'[f] \in Nat
    BY <1>1, <2>1
  <2>3. QED
    BY <2>1, <2>2, FlusherStep
<1>9. QED
  BY <1>3, <1>4, <1>5, <1>6, <1>7, <1>8

-----------------------------------------------------------------------------
(* The writer.                                                             *)

\* A step of the writer leaves the producers' accounts as they are, and whoever waits
\* for it sees `processed` grow if anything.
LEMMA WriterStepKeeps ==
  ASSUME IInv, NEW step \in {"await", "collect", "write", "finish", "stopped"},
         pc' = [pc EXCEPT ![Writer] = step],
         UNCHANGED <<flags, submitted, flushTarget, producerVars, target, offered>>,
         processed' \in Nat, processed <= processed', attempts' \in Nat, dropped' \in Nat,
         offered + Cardinality(given') = submitted + Cardinality(Tokens(Owed)) + dropped'
  PROVE  /\ Shape' /\ Balance' /\ FlushesDone'
         /\ pc'[Writer] = step
<1> USE ThreadsAreDistinct
<1>1. Writer \in Threads /\ Writer \notin Producers /\ Writer \notin Flushers
  BY DEF Threads
<1>2. /\ pc' = [t \in Threads |-> pc'[t]] /\ pc'[Writer] = step
      /\ \A t \in Threads \ {Writer} : pc'[t] = pc[t]
  BY <1>1 DEF IInv, Shape
<1>3. Shape'
  BY <1>1, <1>2 DEF IInv, Shape, Threads, producerVars
<1>4. FlushesDone'
  <2> SUFFICES ASSUME NEW f \in Flushers, pc'[f] = "done" PROVE target'[f] <= processed'
    BY DEF FlushesDone
  <2>1. pc[f] = "done" /\ target'[f] = target[f] /\ target[f] \in Nat
    BY <1>1, <1>2 DEF Threads, IInv, Shape
  <2>2. target[f] <= processed /\ processed \in Nat
    BY <2>1 DEF IInv, FlushesDone, Shape
  <2>3. QED
    BY <2>1, <2>2
<1>5. Balance'
  <2>1. Tokens(Owed)' = Tokens(Owed)
    BY DEF Tokens, Owed, producerVars
  <2>2. IsFiniteSet(Tokens(Owed))
    BY DEF IInv, Balance
  <2>3. offered' + Cardinality(given') = submitted' + Cardinality(Tokens(Owed)') + dropped'
    BY <2>1
  <2>4. \A q \in Producers : /\ pc'[q] = "idle" => left'[q] = 0 /\ lost'[q] = 0
                             /\ pc'[q] = "blocked" => lost'[q] = 0
                             /\ pc'[q] = "count" => left'[q] = 0
    BY <1>1, <1>2 DEF IInv, Balance, producerVars, Threads
  <2>5. QED
    BY <2>1, <2>2, <2>3, <2>4 DEF Balance
<1>6. QED
  BY <1>2, <1>3, <1>4, <1>5

\* Going to sleep, on an empty queue or in the collection window, or stopping.
LEMMA IdleInv ==
  ASSUME IInv, NEW step \in {"await", "collect", "stopped"},
         pc' = [pc EXCEPT ![Writer] = step], pc[Writer] \in {"await", "collect"},
         step = "collect" => Len(queue) > 0,
         step = "stopped" => closed /\ Len(queue) = 0,
         UNCHANGED <<flags, queue, submitted, processed, flushTarget, producerVars, target,
                     writerVars, dropped, offered>>
  PROVE  IInv'
<1>1. Shape' /\ Balance' /\ FlushesDone' /\ pc'[Writer] = step
  <2>1. offered + Cardinality(given') = submitted + Cardinality(Tokens(Owed)) + dropped'
    BY Books DEF writerVars
  <2>2. attempts' \in Nat /\ dropped' \in Nat /\ processed' \in Nat /\ processed <= processed'
    BY Books DEF writerVars
  <2>3. QED
    BY <2>1, <2>2, WriterStepKeeps
<1>2. Len(batch) = 0
  BY Books DEF IInv, WriterHas
<1>3. InOrder' /\ WriterHas' /\ Outcomes'
  BY <1>1, <1>2 DEF IInv, InOrder, WriterHas, Outcomes, Settled, writerVars, flags
<1>4. QED
  BY <1>1, <1>3 DEF IInv

\* Taking a batch moves the head of the queue into it, in order.
LEMMA TakeInv ==
  ASSUME IInv, Take, pc[Writer] \in {"await", "collect"}, Len(queue) > 0
  PROVE  IInv'
<1> USE ParametersArePositive
<1> DEFINE size == Lower(MaxBatch, Len(queue))
<1>1. size \in Nat /\ 0 < size /\ size <= Len(queue) /\ Len(queue) \in Nat
  BY Books DEF Lower
<1>2. /\ pc' = [pc EXCEPT ![Writer] = "write"]
      /\ batch' = SubSeq(queue, 1, size) /\ queue' = SubSeq(queue, size + 1, Len(queue))
      /\ attempts' = 0
      /\ UNCHANGED <<flags, submitted, processed, flushTarget, producerVars, target, sent,
                     given, dropped, offered>>
  BY DEF Take, GoTo
<1> HIDE DEF size
<1>3. Shape' /\ Balance' /\ FlushesDone' /\ pc'[Writer] = "write"
  <2>1. offered + Cardinality(given') = submitted + Cardinality(Tokens(Owed)) + dropped'
    BY <1>2, Books
  <2>2. attempts' \in Nat /\ dropped' \in Nat /\ processed' \in Nat /\ processed <= processed'
    BY <1>2, Books
  <2>3. QED
    BY <1>2, <2>1, <2>2, WriterStepKeeps
<1>4. Len(batch) = 0
  BY Books DEF IInv, WriterHas
<1>5. queue \in Seq(Nat) /\ \A i \in 1..Len(queue) : queue[i] = processed + i
  BY <1>4, Books DEF IInv, InOrder
<1>6. batch' \in Seq(Nat) /\ Len(batch') = size /\ \A i \in 1..size : batch'[i] = queue[i]
  <2>1. /\ SubSeq(queue, 1, size) \in Seq(Nat) /\ Len(SubSeq(queue, 1, size)) = size
        /\ \A i \in 1..size : SubSeq(queue, 1, size)[i] = queue[i]
    BY <1>1, <1>5, SubSeqProperties
  <2>2. QED
    BY <1>2, <2>1
<1>7. /\ queue' \in Seq(Nat) /\ Len(queue') = Len(queue) - size
      /\ \A i \in 1..(Len(queue) - size) : queue'[i] = queue[size + i]
  <2> DEFINE rest == SubSeq(queue, size + 1, Len(queue))
  <2>1. \A i \in (size + 1)..Len(queue) : queue[i] \in Nat
    BY <1>1, <1>5
  <2>2. size + 1 \in Int /\ Len(queue) \in Int
    BY <1>1
  <2>3. /\ rest \in Seq(Nat)
        /\ Len(rest) = IF size + 1 <= Len(queue) THEN Len(queue) - (size + 1) + 1 ELSE 0
        /\ \A i \in 1..(Len(queue) - (size + 1) + 1) : rest[i] = queue[(size + 1) + i - 1]
    BY <2>1, <2>2, SubSeqProperties
  <2>4. queue' = rest
    BY <1>2
  <2> HIDE DEF rest
  <2>5. Len(rest) = Len(queue) - size
    BY <1>1, <2>3
  <2>6. \A i \in 1..(Len(queue) - size) : rest[i] = queue[size + i]
    <3>1. Len(queue) - (size + 1) + 1 = Len(queue) - size
      BY <1>1
    <3>2. \A i \in 1..(Len(queue) - size) : (size + 1) + i - 1 = size + i
      BY <1>1
    <3>3. QED
      BY <2>3, <3>1, <3>2
  <2>7. QED
    BY <2>3, <2>4, <2>5, <2>6
<1>8. InOrder'
  <2>1. processed' = processed /\ submitted' = submitted /\ processed \in Nat
        /\ submitted = processed + Len(queue) /\ Len(queue) <= MaxQueue
    BY <1>2, <1>4, Books DEF IInv, InOrder
  <2>2. \A i \in 1..size : batch'[i] = processed + i
    BY <1>1, <1>5, <1>6
  <2>3. \A i \in 1..(Len(queue) - size) : queue'[i] = processed + size + i
    BY <1>1, <1>5, <1>7, <2>1
  <2>4. QED
    BY <1>1, <1>6, <1>7, <2>1, <2>2, <2>3 DEF InOrder
<1>9. WriterHas'
  BY <1>1, <1>3, <1>6 DEF WriterHas
<1>10. Outcomes'
  BY <1>2, <1>3, <1>4 DEF IInv, Outcomes, Settled
<1>11. QED
  BY <1>3, <1>8, <1>9, <1>10 DEF IInv

\* An attempt to write the batch settles all of it, or nothing.
LEMMA WriteInv ==
  ASSUME IInv, Write
  PROVE  IInv'
<1> DEFINE size == Len(batch)
<1>1. /\ pc[Writer] = "write" /\ Len(batch) > 0
      /\ UNCHANGED <<flags, queue, submitted, processed, flushTarget, producerVars, target,
                     batch, offered>>
  BY DEF Write, IInv, WriterHas
<1>2. /\ sent \cup given = 1..processed /\ sent \cap given = {}
      /\ \A i \in 1..Len(batch) : batch[i] = processed + i
  BY <1>1 DEF IInv, Outcomes, Settled, InOrder
<1>3. ToSet(batch) = (processed + 1)..(processed + Len(batch))
  <2>1. ToSet(batch) = {batch[i] : i \in 1..Len(batch)}
    BY LenProperties DEF ToSet, IInv, InOrder
  <2>2. \A i \in (processed + 1)..(processed + Len(batch)) :
          i - processed \in 1..Len(batch) /\ batch[i - processed] = i
    BY <1>2, Books
  <2>3. \A i \in 1..Len(batch) : processed + i \in (processed + 1)..(processed + Len(batch))
    BY Books
  <2>4. ToSet(batch) \subseteq (processed + 1)..(processed + Len(batch))
    BY <1>2, <2>1, <2>3
  <2>5. (processed + 1)..(processed + Len(batch)) \subseteq ToSet(batch)
    BY <2>1, <2>2
  <2>6. QED
    BY <2>4, <2>5
<1>4. /\ ToSet(batch) \cap (1..processed) = {}
      /\ (1..processed) \cup ToSet(batch) = 1..(processed + Len(batch))
  BY <1>3, Books
<1>5. CASE /\ pc' = [pc EXCEPT ![Writer] = "finish"] /\ sent' = sent \cup ToSet(batch)
           /\ UNCHANGED <<given, dropped, attempts>>
  <2>1. Shape' /\ Balance' /\ FlushesDone' /\ pc'[Writer] = "finish"
    BY <1>1, <1>5, Books, WriterStepKeeps
  <2>2. InOrder' /\ WriterHas'
    BY <1>1, <2>1 DEF IInv, InOrder, WriterHas, flags
  <2>3. Outcomes'
    BY <1>1, <1>2, <1>4, <1>5, <2>1 DEF Outcomes, Settled
  <2>4. QED
    BY <2>1, <2>2, <2>3 DEF IInv
<1>6. CASE attempts' = attempts + 1 /\ UNCHANGED <<pc, sent, given, dropped>>
  <2>1. pc' = [pc EXCEPT ![Writer] = "write"]
    BY <1>1, <1>6 DEF IInv, Shape
  <2>2. attempts' \in Nat
    BY <1>6, Books
  <2>3. Shape' /\ Balance' /\ FlushesDone' /\ pc'[Writer] = "write"
    <3>1. /\ processed' \in Nat /\ processed <= processed' /\ dropped' \in Nat
          /\ offered + Cardinality(given') = submitted + Cardinality(Tokens(Owed)) + dropped'
      BY <1>1, <1>6, Books
    <3>2. QED
      BY <1>1, <2>1, <2>2, <3>1, WriterStepKeeps
  <2>4. InOrder' /\ WriterHas' /\ Outcomes'
    BY <1>1, <1>6, <2>3 DEF IInv, InOrder, WriterHas, Outcomes, Settled, flags
  <2>5. QED
    BY <2>3, <2>4 DEF IInv
<1>7. CASE /\ pc' = [pc EXCEPT ![Writer] = "finish"] /\ given' = given \cup ToSet(batch)
           /\ dropped' = dropped + Len(batch) /\ UNCHANGED <<attempts, sent>>
  <2>1. Cardinality(given') = Cardinality(given) + Len(batch)
    <3>1. IsFiniteSet(ToSet(batch)) /\ Cardinality(ToSet(batch)) = Len(batch)
      <4>1. /\ processed + 1 \in Int /\ processed + Len(batch) \in Int
            /\ processed + Len(batch) >= processed + 1
            /\ (processed + Len(batch)) - (processed + 1) + 1 = Len(batch)
        <5>1. processed \in Nat /\ Len(batch) \in Nat /\ Len(batch) > 0
          BY <1>1, Books
        <5>2. QED
          BY <5>1
      <4>2. QED
        BY <1>3, <4>1, FS_Interval
    <3>2. IsFiniteSet(given) /\ given \cap ToSet(batch) = {}
      BY <1>2, <1>4, OutcomesFinite
    <3>3. Cardinality(given \cup ToSet(batch)) =
            Cardinality(given) + Cardinality(ToSet(batch)) - Cardinality(given \cap ToSet(batch))
      BY <3>1, <3>2, FS_Union
    <3>4. Cardinality(given \cap ToSet(batch)) = 0
      BY <3>2, FS_EmptySet
    <3>5. QED
      BY <1>7, <3>1, <3>3, <3>4, Books
  <2>2. offered + Cardinality(given') = submitted + Cardinality(Tokens(Owed)) + dropped'
    <3>1. \A o, g, s, c, d, l \in Nat : o + g = s + c + d => o + (g + l) = s + c + (d + l)
      OBVIOUS
    <3>2. offered + (Cardinality(given) + Len(batch))
            = submitted + Cardinality(Tokens(Owed)) + (dropped + Len(batch))
      BY <3>1, Books
    <3>3. QED
      BY <1>7, <2>1, <3>2
  <2>3. dropped' \in Nat
    BY <1>7, Books
  <2>4. Shape' /\ Balance' /\ FlushesDone' /\ pc'[Writer] = "finish"
    BY <1>1, <1>7, <2>2, <2>3, Books, WriterStepKeeps
  <2>5. InOrder' /\ WriterHas'
    BY <1>1, <2>4 DEF IInv, InOrder, WriterHas, flags
  <2>6. Outcomes'
    BY <1>1, <1>2, <1>4, <1>7, <2>4 DEF Outcomes, Settled
  <2>7. QED
    BY <2>4, <2>5, <2>6 DEF IInv
<1>8. QED
  BY <1>5, <1>6, <1>7 DEF Write, GoTo

\* The number of the last event of the batch is that of the last one settled.
LEMMA FinishInv ==
  ASSUME IInv, Finish
  PROVE  IInv'
<1>1. /\ pc[Writer] = "finish" /\ pc' = [pc EXCEPT ![Writer] = "await"]
      /\ processed' = Last(batch) /\ batch' = <<>> /\ attempts' = 0
      /\ UNCHANGED <<flags, queue, submitted, flushTarget, producerVars, target, sent, given,
                     dropped, offered>>
  BY DEF Finish, GoTo
<1>2. processed' = processed + Len(batch) /\ Len(batch) > 0
  BY <1>1, Books DEF IInv, WriterHas, InOrder, Last
<1>3. Shape' /\ Balance' /\ FlushesDone' /\ pc'[Writer] = "await"
  <2>1. processed' \in Nat /\ processed <= processed' /\ attempts' \in Nat /\ dropped' \in Nat
    BY <1>1, <1>2, Books
  <2>2. offered + Cardinality(given') = submitted + Cardinality(Tokens(Owed)) + dropped'
    BY <1>1, Books
  <2>3. QED
    BY <1>1, <2>1, <2>2, WriterStepKeeps
<1>4. batch' \in Seq(Nat) /\ Len(batch') = 0
  BY <1>1
<1>5. InOrder'
  <2>1. /\ submitted = processed + Len(batch) + Len(queue) /\ batch' \in Seq(Nat)
        /\ queue \in Seq(Nat) /\ Len(queue) <= MaxQueue
        /\ \A i \in 1..Len(queue) : queue[i] = processed + Len(batch) + i
    BY <1>4 DEF IInv, InOrder
  <2>2. submitted' = processed' + Len(batch') + Len(queue')
    BY <1>1, <1>2, <1>4, <2>1, Books
  <2>3. \A i \in 1..Len(queue) : queue[i] = processed' + Len(batch') + i
    BY <1>2, <1>4, <2>1, Books
  <2>4. QED
    BY <1>1, <1>4, <2>1, <2>2, <2>3 DEF InOrder
<1>6. WriterHas'
  BY <1>3, <1>4 DEF WriterHas
<1>7. Outcomes'
  BY <1>1, <1>2, <1>3 DEF IInv, Outcomes, Settled
<1>8. QED
  BY <1>3, <1>5, <1>6, <1>7 DEF IInv

\* Every step of the writer.
LEMMA WriterInv ==
  ASSUME IInv, WriterStep \/ Deadline
  PROVE  IInv'
<1>1. queue \in Seq(Nat)
  BY DEF IInv, InOrder
<1>2. queue = <<>> <=> Len(queue) = 0
  BY <1>1, LenProperties
<1>3. CASE Stop
  BY <1>2, <1>3, IdleInv DEF Stop, GoTo
<1>4. CASE AwaitEvents
  BY <1>2, <1>4, IdleInv DEF AwaitEvents, Sleep, GoTo
<1>5. CASE Collect
  <2>1. pc[Writer] \in {"await", "collect"} /\ Len(queue) > 0 /\ (Take \/ Sleep("collect"))
    BY <1>2, <1>5, Books DEF Collect
  <2>2. CASE Take
    BY <2>1, <2>2, TakeInv
  <2>3. CASE Sleep("collect")
    BY <2>1, <2>3, IdleInv DEF Sleep, GoTo
  <2>4. QED
    BY <2>1, <2>2, <2>3
<1>6. CASE Deadline
  BY <1>6, TakeInv DEF Deadline, IInv, WriterHas
<1>7. QED
  BY <1>3, <1>4, <1>5, <1>6, WriteInv, FinishInv DEF WriterStep

-----------------------------------------------------------------------------
(* The exporter.                                                           *)

\* The invariant holds of every behaviour.
THEOREM Invariance == Spec => []IInv
<1>1. IInv /\ [Next]_vars => IInv'
  <2> SUFFICES ASSUME IInv, [Next]_vars PROVE IInv'
    OBVIOUS
  <2>1. CASE Next
    BY <2>1, ExportInv, ResumeInv, RecordDropInv, FlusherInv, WriterInv DEF Next
  <2>2. CASE UNCHANGED vars
    <3>1. Shape' /\ InOrder' /\ WriterHas'
      BY <2>2 DEF vars, flags, writerVars, producerVars, IInv, Shape, InOrder, WriterHas
    <3>2. Outcomes' /\ FlushesDone'
      BY <2>2 DEF vars, writerVars, IInv, Outcomes, Settled, FlushesDone
    <3>3. Balance'
      BY <2>2 DEF vars, writerVars, producerVars, IInv, Balance, Owed, Tokens
    <3>4. QED
      BY <3>1, <3>2, <3>3 DEF IInv
  <2>3. QED
    BY <2>1, <2>2
<1>2. QED
  BY <1>1, InitInv, PTL DEF Spec

\* A flush returns True only when every event submitted before it is in the store or
\* was given up (BufferedDbExporter.flush and the _processed_seq it compares).
THEOREM FlushIsABarrier == Spec => []FlushBarrier
<1>1. IInv => FlushBarrier
  <2> SUFFICES ASSUME IInv, NEW f \in Flushers, pc[f] = "done"
               PROVE  1..target[f] \subseteq sent \cup given
    BY DEF FlushBarrier
  <2>1. target[f] <= processed /\ target[f] \in Nat
    BY DEF IInv, FlushesDone, Shape
  <2>2. Settled \in Nat /\ processed <= Settled
    BY Books DEF Settled
  <2>3. sent \cup given = 1..Settled
    BY DEF IInv, Outcomes
  <2>4. QED
    BY <2>1, <2>2, <2>3, Books
<1>2. QED
  BY <1>1, Invariance, PTL

\* Once the writer has stopped and no export is going on, sent_count and dropped_count
\* add up to what was exported, whatever raced close (export_batch, close, _run).
THEOREM EveryEventCounted == Spec => []AllCounted
<1>1. IInv => AllCounted
  <2> SUFFICES ASSUME IInv, pc[Writer] = "stopped", \A p \in Producers : pc[p] = "idle"
               PROVE  offered = Cardinality(sent) + dropped
    BY DEF AllCounted
  <2>1. Len(queue) = 0 /\ Len(batch) = 0
    BY Books DEF IInv, WriterHas
  <2>2. submitted = processed /\ Settled = processed
    BY <2>1, Books DEF IInv, InOrder, Settled
  <2>3. Cardinality(Tokens(Owed)) = 0
    <3>1. \A p \in Producers : Owed[p] = 0
      BY DEF IInv, Balance, Owed
    <3>2. Tokens(Owed) = {}
      BY <3>1 DEF Tokens
    <3>3. QED
      BY <3>2, FS_EmptySet
  <2>4. Cardinality(sent) + Cardinality(given) = submitted
    <3>1. sent \cup given = 1..processed /\ sent \cap given = {}
      BY <2>2 DEF IInv, Outcomes
    <3>2. Cardinality(sent \cup given) =
            Cardinality(sent) + Cardinality(given) - Cardinality(sent \cap given)
      BY OutcomesFinite, FS_Union
    <3>3. Cardinality(sent \cap given) = 0
      BY <3>1, FS_EmptySet
    <3>4. Cardinality(1..processed) = processed
      <4>1. 1 \in Int /\ processed \in Int /\ processed \in Nat
        BY Books
      <4>2. Cardinality(1..processed) = IF 1 > processed THEN 0 ELSE processed - 1 + 1
        BY <4>1, FS_Interval
      <4>3. QED
        BY <4>1, <4>2
    <3>5. Cardinality(sent \cup given) = Cardinality(sent) + Cardinality(given) - 0
      BY <3>2, <3>3
    <3>6. processed = Cardinality(sent) + Cardinality(given) - 0
      BY <3>1, <3>4, <3>5
    <3>7. QED
      BY <2>2, <3>6, Books
  <2>5. \A o, g, s, d, t \in Nat : o + g = s + 0 + d /\ t + g = s => o = t + d
    OBVIOUS
  <2>6. QED
    BY <2>3, <2>4, <2>5, Books
<1>2. QED
  BY <1>1, Invariance, PTL

=============================================================================
