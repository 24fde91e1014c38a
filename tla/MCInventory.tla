---------------------------- MODULE MCInventory ----------------------------
(* Instances of Inventory for TLC: one tier of two tickets, two sales.      *)
EXTENDS Inventory, TLC

CONSTANTS t1, e1

MCEventOf == [t \in Tiers |-> e1]
MCCapacity == [t \in Tiers |-> 2]
=============================================================================
