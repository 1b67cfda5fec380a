------------------------------ MODULE MCStream ------------------------------
(* Instances of Stream for TLC. *)
EXTENDS Stream, TLC
CONSTANTS a, b
MCAhead == (a :> 1)
=============================================================================
