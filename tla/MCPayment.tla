----------------------------- MODULE MCPayment -----------------------------
(* Instances of Payment for TLC: one tier that holds two tickets.           *)
EXTENDS Payment, TLC

CONSTANTS t1, e1

MCEventOf == [t \in Tiers |-> e1]
MCCapacity == [t \in Tiers |-> 2]

(* A request for the whole tier, one without a valid quantity, and one that *)
(* overflows when it is added to anything.                                  *)
MCQuantities == {-1, 2, 15}

MCSymmetry == Permutations(Workers) \cup Permutations(Intents)
=============================================================================
