------------------------------ MODULE MCReadModels ------------------------------
(* Span a starts in a session and ends in another with other tokens; span b  *)
(* only starts, in the session that a leaves.                                *)
EXTENDS ReadModels

CONSTANTS a, b, s1, s2, r1

MCScript == << [span |-> a, kind |-> "start", sess |-> s1,   tok |-> 2],
               [span |-> b, kind |-> "start", sess |-> s1,   tok |-> 1],
               [span |-> a, kind |-> "end",   sess |-> s2,   tok |-> 3] >>

(* The events of any sequence, applied one by one as the code does it, are   *)
(* those that ApplyAll applies at once (TraceAggregateRollupIndex).          *)
OneByOne(rows, events) == FoldLeft(LAMBDA acc, e : ApplyAll(acc, <<e>>), rows, events)

ASSUME ApplyAllIsOneByOne ==
  \A n \in 0..MaxRows : \A events \in [1..n -> Events] :
    ApplyAll(NoRows, events) = OneByOne(NoRows, events)
=============================================================================
