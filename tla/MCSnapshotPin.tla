----------------------------- MODULE MCSnapshotPin -----------------------------
(* SnapshotPin with two readers; the bounds are in SnapshotPin.cfg. *)
EXTENDS SnapshotPin

CONSTANTS r1, r2
=============================================================================
