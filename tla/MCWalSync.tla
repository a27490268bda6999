------------------------------- MODULE MCWalSync -------------------------------
(* Two processes on one data directory.                                     *)
EXTENDS WalSync

CONSTANTS p1, p2
=============================================================================
