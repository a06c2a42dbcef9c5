-------------------------- MODULE MCReceiptReviews --------------------------
(***************************************************************************)
(* Instances of ReceiptReviews.tla for TLC: a truck with two sizes, each   *)
(* of a grade of its own, a truck with a size of one of these grades, a    *)
(* manager, a supervisor, and somebody who has both roles.                 *)
(***************************************************************************)
EXTENDS ReceiptReviews, TLC

CONSTANTS s1, s2, s3, t1, t2, g1, g2, manager, both, supervisor

MCTrucks == [s \in Shipment |-> IF s = s3 THEN t2 ELSE t1]
MCGrades == [s \in Shipment |-> IF s = s2 THEN g2 ELSE g1]
MCOneBag == [s \in Shipment |-> 1]
MCBags == [s \in Shipment |-> IF s = s1 THEN 2 ELSE 1]

RequestSymmetry == Permutations(Request)
=============================================================================
