------------------------------ MODULE MCDelivery ------------------------------
(* A program of two spans.                                                     *)
EXTENDS Delivery
=============================================================================
