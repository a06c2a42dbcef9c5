------------------------------- MODULE MCCalls ------------------------------
(***************************************************************************)
(* Instances of Calls.tla for TLC: the Managing Director and two others.   *)
(***************************************************************************)
EXTENDS Calls
=============================================================================
