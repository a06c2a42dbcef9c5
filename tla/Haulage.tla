------------------------------- MODULE Haulage -------------------------------
(***************************************************************************)
(* What moving stock between two places promises, whichever of the three   *)
(* services does it: bags leave the place they come from all at once, are  *)
(* on the road, and then either arrive or go back, once.  Transit.tla is   *)
(* shown to implement this module.                                         *)
(***************************************************************************)
EXTENDS Integers

CONSTANTS
    Haul,           \* deliveries that may be made
    Place, Good,
    GoodOf,         \* [Haul -> Good]
    Sold,           \* goods that leave a place by other ways, too
    Uncapped,       \* hauls of which more may be counted in than was sent
    MaxBags         \* bound: bags of one haul, or of one line of an order

VARIABLES
    stock,          \* [Place -> [Good -> Nat]]
    trip            \* where each haul is and what it carries

haulageVars == <<stock, trip>>

Waiting == [at |-> "waiting"]

Less(place, good, n) ==
    /\ stock[place][good] >= n
    /\ stock' = [stock EXCEPT ![place][good] = @ - n]
More(place, good, n) == stock' = [stock EXCEPT ![place][good] = @ + n]

Load(h, from, to, n) ==
    /\ from # to
    /\ Less(from, GoodOf[h], n)
    /\ trip[h] = Waiting
    /\ trip' = [trip EXCEPT ![h] = [at |-> "road", from |-> from, to |-> to, bags |-> n]]

Unload(h, got) ==
    /\ got <= trip[h].bags \/ h \in Uncapped
    /\ More(trip[h].to, GoodOf[h], got)
    /\ trip' = [trip EXCEPT ![h].at = "there"]

TakeBack(h) ==
    /\ More(trip[h].from, GoodOf[h], trip[h].bags)
    /\ trip' = [trip EXCEPT ![h].at = "back"]

\* What leaves a place by other ways: packs that are sold or written off.
Sell(place, good, n) == Less(place, good, n) /\ trip' = trip

Next ==
    \/ \E h \in Haul :
          \/ \E from, to \in Place, n \in 1 .. MaxBags : Load(h, from, to, n)
          \/ /\ trip[h].at = "road"
             /\ TakeBack(h) \/ \E got \in 0 .. MaxBags : Unload(h, got)
    \/ \E place \in Place, good \in Sold, n \in 1 .. 2 * MaxBags : Sell(place, good, n)

Init ==
    /\ stock \in [Place -> [Good -> Nat]]
    /\ trip = [h \in Haul |-> Waiting]

Spec == Init /\ [][Next]_haulageVars
=============================================================================
