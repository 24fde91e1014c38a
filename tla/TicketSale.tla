----------------------------- MODULE TicketSale -----------------------------
(***************************************************************************)
(* What the sale of tickets promises, without webhooks, transactions or    *)
(* caches: an order is opened once and settled at most once, by one atomic *)
(* step that either hands over all of its tickets or, only when the tier   *)
(* cannot hold it, refuses it.                                             *)
(***************************************************************************)
EXTENDS Integers

CONSTANTS Intents, Tiers, Capacity

VARIABLES
    demand,     \* the tier and number of tickets of each order
    sale,       \* "none", "pending", "completed" or "failed"
    owned,      \* tickets handed over per order
    remaining   \* tickets left per tier

svars == <<demand, sale, owned, remaining>>

SaleInit ==
    /\ demand \in [Intents -> [tier : Tiers, quantity : Nat \ {0}]]
    /\ sale = [i \in Intents |-> "none"]
    /\ owned = [i \in Intents |-> 0]
    /\ remaining = Capacity

Open(i) ==
    /\ sale[i] = "none"
    /\ sale' = [sale EXCEPT ![i] = "pending"]
    /\ UNCHANGED <<demand, owned, remaining>>

Complete(i) ==
    /\ sale[i] = "pending"
    /\ demand[i].quantity <= remaining[demand[i].tier]
    /\ sale' = [sale EXCEPT ![i] = "completed"]
    /\ owned' = [owned EXCEPT ![i] = demand[i].quantity]
    /\ remaining' = [remaining EXCEPT ![demand[i].tier] = @ - demand[i].quantity]
    /\ UNCHANGED demand

Refuse(i) ==
    /\ sale[i] = "pending"
    /\ demand[i].quantity > remaining[demand[i].tier]
    /\ sale' = [sale EXCEPT ![i] = "failed"]
    /\ UNCHANGED <<demand, owned, remaining>>

SaleNext == \E i \in Intents : Open(i) \/ Complete(i) \/ Refuse(i)

SaleSpec == SaleInit /\ [][SaleNext]_svars
=============================================================================
