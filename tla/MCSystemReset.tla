---------------------------- MODULE MCSystemReset ----------------------------
(***************************************************************************)
(* Instances of SystemReset.tla for TLC: an administrator, who asks and    *)
(* executes, a Finance Director who may also ask, the MD, the CEO, and     *)
(* somebody with the roles of Finance Director and CEO.                    *)
(***************************************************************************)
EXTENDS SystemReset, TLC

CONSTANTS admin, fd, mdir, ceo, both

CallSymmetry == Permutations(Request)
=============================================================================
