------------------------------- MODULE TraceStore -------------------------------
(***************************************************************************)
(* What the engine promises the users of one data directory, without       *)
(* segments, MemTable, watermarks or garbage collection: events are        *)
(* accepted once and for all, a client looks at a fixed view, only what a  *)
(* job saw in its own view may be deleted, and every view has all accepted *)
(* events but those somebody deleted.                                      *)
(***************************************************************************)
EXTENDS Naturals

CONSTANTS Clients,  \* who opens views: readers and retention jobs
          MaxLsn    \* bound: events ever accepted

VARIABLES accepted,  \* how many events have been accepted: 1..accepted
          doomed,    \* events that some job deleted
          view       \* view[c]: a set of at most one view, the one client c has open

storeVars == <<accepted, doomed, view>>

Init ==
  /\ accepted = 0 /\ doomed = {}
  /\ view = [c \in Clients |-> {}]

Accept ==
  /\ accepted < MaxLsn /\ accepted' = accepted + 1
  /\ UNCHANGED <<doomed, view>>

\* A deleted event may or may not still be seen; any other must be.
Look(c) ==
  /\ view[c] = {}
  /\ \E seen \in SUBSET (1..accepted) :
       /\ (1..accepted) \ doomed \subseteq seen
       /\ view' = [view EXCEPT ![c] = {seen}]
  /\ UNCHANGED <<accepted, doomed>>

Close(c) ==
  /\ view' = [view EXCEPT ![c] = {}]
  /\ UNCHANGED <<accepted, doomed>>

\* A job deletes some of what it saw, and is done with its view.
Delete(c) ==
  /\ \E seen \in view[c], gone \in SUBSET (1..accepted) :
       gone \subseteq seen /\ doomed' = doomed \cup gone
  /\ view' = [view EXCEPT ![c] = {}]
  /\ UNCHANGED accepted

Crash ==
  /\ view' = [c \in Clients |-> {}]
  /\ UNCHANGED <<accepted, doomed>>

Next ==
  \/ Accept \/ Crash
  \/ \E c \in Clients : Look(c) \/ Close(c) \/ Delete(c)

Spec == Init /\ [][Next]_storeVars

=============================================================================
