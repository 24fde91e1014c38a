--------------------------- MODULE PaymentProofs ---------------------------
(***************************************************************************)
(* Proofs about module Payment, for every set of intents, tiers, buyers    *)
(* and handlers, every capacity, and any number of faults of every kind;   *)
(* and, at the end, about the cached view of module Inventory beside it.   *)
(***************************************************************************)
EXTENDS Inventory, FiniteSetTheorems, TLAPS

-----------------------------------------------------------------------------
(* Counting tickets.                                                        *)

(* Checkout never lets through a quantity below one.                        *)
LEMMA NormalPositive == ASSUME NEW q \in Int PROVE Normal(q) \in Nat \ {0}
BY DEF Normal

(* The tickets of a purchase and of a tier are finitely many.               *)
LEMMA TicketSetsFinite ==
    ASSUME IsFiniteSet(tickets)
    PROVE  /\ \A i : IsFiniteSet(TicketsOf(i)) /\ Cardinality(TicketsOf(i)) \in Nat
           /\ \A t : IsFiniteSet(TicketsIn(t)) /\ Cardinality(TicketsIn(t)) \in Nat
<1>1. \A S \in SUBSET tickets : IsFiniteSet(S) /\ Cardinality(S) \in Nat
  BY FS_Subset, FS_CardinalityType
<1> QED
  BY <1>1 DEF TicketsOf, TicketsIn

(* A settling transaction inserts as many distinct rows as it was asked to. *)
NewTickets(i, t, n, q) ==
    {[purchase |-> i, tier |-> t, number |-> n + k] : k \in 1 .. q}

LEMMA NewTicketsCount ==
    ASSUME NEW i, NEW t, NEW n \in Nat, NEW q \in Nat
    PROVE  /\ IsFiniteSet(NewTickets(i, t, n, q))
           /\ Cardinality(NewTickets(i, t, n, q)) = q
<1> DEFINE f == [k \in 1 .. q |-> [purchase |-> i, tier |-> t, number |-> n + k]]
<1>0. \A a, b \in 1 .. q : f[a] = f[b] => a = b
  <2> SUFFICES ASSUME NEW a \in 1 .. q, NEW b \in 1 .. q, f[a] = f[b] PROVE a = b
    OBVIOUS
  <2>1. f[a].number = n + a /\ f[b].number = n + b
    OBVIOUS
  <2> QED
    BY <2>1
<1>1. f \in Injection(1 .. q, NewTickets(i, t, n, q))
  <2>1. f \in [1 .. q -> NewTickets(i, t, n, q)]
    BY DEF NewTickets
  <2>2. IsInjective(f)
    BY <1>0 DEF IsInjective
  <2> QED
    BY <2>1, <2>2 DEF Injection
<1>2. f \in Surjection(1 .. q, NewTickets(i, t, n, q))
  BY <1>1 DEF Surjection, Injection, NewTickets
<1>3. ExistsBijection(1 .. q, NewTickets(i, t, n, q))
  BY <1>1, <1>2 DEF ExistsBijection, Bijection
<1>4. IsFiniteSet(1 .. q) /\ Cardinality(1 .. q) = q
  BY FS_Interval
<1> QED
  BY <1>3, <1>4, FS_Bijection

-----------------------------------------------------------------------------
(* Type correctness.                                                        *)

TypeInv == TypeOK /\ WellFormed

LEMMA FaultType ==
    ASSUME TypeOK, NEW kind, Fault(kind)
    PROVE  faults' \in 0 .. MaxFaults
BY ConstAssumption DEF TypeOK, Fault

LEMMA FailsType ==
    ASSUME TypeOK, NEW w, NEW kind, Fails(w, kind) \/ Works(w)
    PROVE  faults' \in 0 .. MaxFaults
BY FaultType DEF Fails, Works, TypeOK

(* A committed sale keeps the tables well-typed.                            *)
LEMMA SellType ==
    ASSUME TypeInv, NEW i \in Intents, status[i] # "none", Sell(i)
    PROVE  /\ tickets' \subseteq Ticket
           /\ tickets \subseteq tickets'
           /\ IsFiniteSet(tickets')
           /\ sold' \in [Tiers -> Nat]
           /\ status' = [status EXCEPT ![i] = "completed"]
           /\ status' \in [Intents -> Statuses]
<1> DEFINE o == order[i]
           n == Cardinality(TicketsOf(i))
<1>1. o.quantity \in Nat /\ o.tier \in Tiers /\ n \in Nat
  BY TicketSetsFinite DEF TypeInv, TypeOK, WellFormed, Orders
<1>2. tickets' = tickets \cup NewTickets(i, o.tier, n, o.quantity)
  BY DEF Sell, NewTickets
<1>3. IsFiniteSet(tickets')
  BY <1>1, <1>2, NewTicketsCount, FS_Union DEF TypeInv, WellFormed
<1>4. NewTickets(i, o.tier, n, o.quantity) \subseteq Ticket
  BY <1>1 DEF NewTickets, Ticket
<1> QED
  BY <1>1, <1>2, <1>3, <1>4 DEF Sell, TypeInv, TypeOK, Statuses

LEMMA TypeInit == Init => TypeInv
<1> SUFFICES ASSUME Init PROVE TypeInv
  OBVIOUS
<1> USE ConstAssumption DEF Init
<1>1. IsFiniteSet(tickets)
  BY FS_EmptySet
<1>2. order \in [Intents -> Orders]
  BY DEF Orders
<1>3. TypeOK
  BY <1>2 DEF TypeOK, CheckoutPCs, Statuses, PCs, Outcomes, NoEntry
<1> QED
  BY <1>1, <1>3 DEF TypeInv, WellFormed, HoldsPurchase

LEMMA TypeStep == TypeInv /\ [Next]_vars => TypeInv'
<1> SUFFICES ASSUME TypeInv, [Next]_vars PROVE TypeInv'
  OBVIOUS
<1> USE ConstAssumption
<1> USE DEF TypeInv, TypeOK, WellFormed, HoldsPurchase, PCs, TxPCs, Outcomes,
        checkoutVars, dbVars, redisVars, handlerVars, stripeVars
<1>1. ASSUME NEW i \in Intents, CheckoutStart(i) PROVE TypeInv'
  <2>1. order' \in [Intents -> Orders] /\ order'[i].quantity > 0
    BY <1>1, NormalPositive DEF CheckoutStart, Orders
  <2>2. \A j \in Intents \ {i} : order'[j] = order[j]
    BY <1>1 DEF CheckoutStart
  <2> QED
    BY <1>1, <2>1, <2>2 DEF CheckoutStart, CheckoutGoto, CheckoutPCs
<1>2. ASSUME NEW i \in Intents, CheckoutHeld(i) PROVE TypeInv'
  BY <1>2 DEF CheckoutHeld, CheckoutGoto, CheckoutPCs
<1>3. ASSUME NEW i \in Intents, CreateIntent(i) PROVE TypeInv'
  BY <1>3 DEF CreateIntent, CheckoutGoto, CheckoutPCs
<1>4. ASSUME NEW i \in Intents, InsertPurchase(i) PROVE TypeInv'
  BY <1>4 DEF InsertPurchase, CheckoutGoto, CheckoutPCs, Statuses
<1>5. ASSUME NEW i \in Intents, CheckoutError(i) PROVE TypeInv'
  BY <1>5, FaultType DEF CheckoutError, CheckoutGoto, CheckoutPCs, Statuses
<1>6. ASSUME NEW i \in Intents, Pay(i) PROVE TypeInv'
  BY <1>6 DEF Pay
<1>7. ASSUME NEW i \in Intents, ExpireKey(i) PROVE TypeInv'
  BY <1>7 DEF ExpireKey
<1>8. ASSUME NEW w \in Workers, NEW i \in Intents, Deliver(w, i) PROVE TypeInv'
  BY <1>8 DEF Deliver, PCs
<1>9. ASSUME NEW w \in Workers, Acquire(w) PROVE TypeInv'
  <2>1. faults' \in 0 .. MaxFaults
    BY <1>9, FailsType, FaultType DEF Acquire
  <2>2. job[w] \in Intents /\ pc[w] = "acquire"
    BY <1>9 DEF Acquire
  <2>3. idem' \in [Intents -> {"none", "processing", "done"}]
    BY <1>9, <2>2 DEF Acquire
  <2>4. pc' \in [Workers -> PCs] /\ res' \in [Workers -> Outcomes]
    BY <1>9 DEF Acquire, Goto, Finish
  <2>5. \A v \in Workers : v # w => pc'[v] = pc[v]
    BY <1>9 DEF Acquire, Goto, Finish
  <2>6. pc'[w] \in {"begin", "respond"}
    BY <1>9 DEF Acquire, Goto, Finish
  <2> QED
    BY <1>9, <2>1, <2>2, <2>3, <2>4, <2>5, <2>6 DEF Acquire
<1>10. ASSUME NEW w \in Workers, Begin(w) PROVE TypeInv'
  BY <1>10, FailsType DEF Begin, Goto, PCs, TxPCs
<1>11. ASSUME NEW w \in Workers, LockPurchase(w) PROVE TypeInv'
  <2>1. faults' \in 0 .. MaxFaults
    BY <1>11, FailsType DEF LockPurchase
  <2>2. pc' \in [Workers -> PCs] /\ res' \in [Workers -> Outcomes]
    BY <1>11 DEF LockPurchase, Goto, Finish
  <2>3. \A v \in Workers : v # w => pc'[v] = pc[v]
    BY <1>11 DEF LockPurchase, Goto, Finish
  <2>4. /\ pc'[w] \in {"release", "markDone", "lockTier"}
        /\ pc'[w] = "lockTier" => status[job[w]] # "none"
    BY <1>11 DEF LockPurchase, Goto, Finish
  <2> QED
    BY <1>11, <2>1, <2>2, <2>3, <2>4 DEF LockPurchase
<1>12. ASSUME NEW w \in Workers, LockTier(w) PROVE TypeInv'
  BY <1>12, FailsType DEF LockTier, Goto, PCs, TxPCs
<1>13. ASSUME NEW w \in Workers, TxError(w) PROVE TypeInv'
  BY <1>13, FailsType DEF TxError, Goto, Finish, PCs, TxPCs, Outcomes
<1>14. ASSUME NEW w \in Workers, Invalidate(w) PROVE TypeInv'
  BY <1>14, FailsType DEF Invalidate, Goto, PCs, NoEntry
<1>15. ASSUME NEW w \in Workers, MarkDone(w) PROVE TypeInv'
  BY <1>15, FailsType DEF MarkDone, Goto, PCs
<1>16. ASSUME NEW w \in Workers, IssueForPurchase(w) PROVE TypeInv'
  BY <1>16, FailsType DEF IssueForPurchase, Goto, PCs, TicketsOf
<1>17. ASSUME NEW w \in Workers, PublishPurchase(w) PROVE TypeInv'
  BY <1>17 DEF PublishPurchase, Goto, PCs
<1>18. ASSUME NEW w \in Workers, Release(w) PROVE TypeInv'
  BY <1>18, FailsType DEF Release, Goto, PCs
<1>19. ASSUME NEW w \in Workers, Respond(w) PROVE TypeInv'
  <2>1. faults' \in 0 .. MaxFaults
    BY <1>19, FailsType DEF Respond
  <2>2. acked' \subseteq Intents
    BY <1>19 DEF Respond
  <2> QED
    BY <1>19, <2>1, <2>2 DEF Respond, HandlersIdle
<1>20. ASSUME NEW w \in Workers, Cancel(w) PROVE TypeInv'
  BY <1>20, FaultType DEF Cancel
<1>21. ASSUME NEW W \in SUBSET Workers, Crash(W) PROVE TypeInv'
  <2>1. faults' \in 0 .. MaxFaults
    BY <1>21, FaultType DEF Crash
  <2>2. /\ pc' \in [Workers -> PCs] /\ job' \in [Workers -> Intents \cup {NoIntent}]
        /\ res' \in [Workers -> Outcomes] /\ live' \in [Workers -> BOOLEAN]
    BY <1>21 DEF Crash, HandlersIdle
  <2>3. \A v \in Workers : \/ pc'[v] = "idle" /\ job'[v] = NoIntent
                           \/ pc'[v] = pc[v] /\ job'[v] = job[v]
    BY <1>21 DEF Crash, HandlersIdle
  <2> QED
    BY <1>21, <2>1, <2>2, <2>3 DEF Crash
<1>22. ASSUME NEW w \in Workers, CommitSale(w) PROVE TypeInv'
  <2>1. faults' \in 0 .. MaxFaults
    BY <1>22, FailsType DEF CommitSale
  <2>2. job[w] \in Intents /\ status[job[w]] # "none" /\ Sell(job[w])
    BY <1>22 DEF CommitSale
  <2> HIDE DEF TypeInv
  <2>3. /\ tickets' \subseteq Ticket /\ tickets \subseteq tickets' /\ IsFiniteSet(tickets')
        /\ sold' \in [Tiers -> Nat]
        /\ status' = [status EXCEPT ![job[w]] = "completed"]
        /\ status' \in [Intents -> Statuses]
    BY <2>2, SellType
  <2> USE DEF TypeInv
  <2> QED
    BY <1>22, <2>1, <2>2, <2>3 DEF CommitSale, Goto, Finish
<1>23. ASSUME NEW w \in Workers, CommitSoldOut(w) PROVE TypeInv'
  <2>1. faults' \in 0 .. MaxFaults
    BY <1>23, FailsType DEF CommitSoldOut
  <2>2. job[w] \in Intents /\ status[job[w]] # "none" /\ Refuse(job[w])
    BY <1>23 DEF CommitSoldOut
  <2>3. /\ status' \in [Intents -> Statuses]
        /\ \A i \in Intents : status'[i] # "none" => status[i] # "none"
        /\ \A i \in Intents : status[i] # "none" => status'[i] # "none"
    BY <2>2 DEF Refuse, Statuses
  <2> QED
    BY <1>23, <2>1, <2>2, <2>3 DEF CommitSoldOut, Refuse, Goto, Finish, PCs, Outcomes
<1>24. ASSUME NEW w \in Workers, CommitUnknown(w) PROVE TypeInv'
  <2>1. CASE pc[w] = "mint" /\ Sell(job[w])
    BY <1>24, <2>1, FaultType, SellType DEF CommitUnknown, Goto, Finish, PCs, Outcomes,
       HoldsPurchase
  <2>2. CASE pc[w] = "soldOut" /\ Refuse(job[w])
    BY <1>24, <2>2, FaultType DEF CommitUnknown, Refuse, Goto, Finish, PCs, Outcomes, Statuses
  <2> QED
    BY <1>24, <2>1, <2>2 DEF CommitUnknown
<1>25. CASE UNCHANGED vars
  BY <1>25 DEF vars
<1> QED
  BY <1>1, <1>2, <1>3, <1>4, <1>5, <1>6, <1>7, <1>8, <1>9, <1>10, <1>11, <1>12, <1>13,
     <1>14, <1>15, <1>16, <1>17, <1>18, <1>19, <1>20, <1>21, <1>22, <1>23, <1>24, <1>25
  DEF Next, CheckoutStep, HandlerStep

(* Every reachable state of the payment protocol is well-typed.             *)
THEOREM TypeCorrect == Spec => []TypeOK
<1>1. TypeInv => TypeOK
  BY DEF TypeInv
<1> QED
  BY <1>1, TypeInit, TypeStep, PTL DEF Spec

-----------------------------------------------------------------------------
(* The row locks.                                                           *)

(* No handler acquires a row lock in this step.                             *)
NoNewLock ==
    \A v \in Workers : pc'[v] \in HoldsPurchase => pc'[v] = pc[v] /\ job'[v] = job[v]

(* The steps that touch neither the locks nor the sale tables.              *)
Quiet == NoNewLock /\ UNCHANGED <<order, status, tickets, sold>>

LEMMA QuietSteps ==
    ASSUME TypeInv, NEW w \in Workers,
           \/ \E i \in Intents : Deliver(w, i)
           \/ Acquire(w) \/ Begin(w) \/ TxError(w) \/ Invalidate(w) \/ MarkDone(w)
           \/ IssueForPurchase(w) \/ PublishPurchase(w) \/ Release(w) \/ Respond(w)
           \/ Cancel(w)
    PROVE  Quiet
<1> USE DEF TypeInv, TypeOK, Quiet, NoNewLock, HoldsPurchase, checkoutVars, dbVars,
        redisVars, handlerVars, stripeVars, Goto, Finish
<1>1. CASE \E i \in Intents : Deliver(w, i)
  BY <1>1 DEF Deliver
<1>2. CASE Acquire(w)
  BY <1>2 DEF Acquire
<1>3. CASE Begin(w)
  BY <1>3 DEF Begin
<1>4. CASE TxError(w)
  BY <1>4 DEF TxError
<1>5. CASE Invalidate(w)
  BY <1>5 DEF Invalidate
<1>6. CASE MarkDone(w)
  BY <1>6 DEF MarkDone
<1>7. CASE IssueForPurchase(w)
  BY <1>7 DEF IssueForPurchase
<1>8. CASE PublishPurchase(w)
  BY <1>8 DEF PublishPurchase
<1>9. CASE Release(w)
  BY <1>9 DEF Release
<1>10. CASE Respond(w)
  BY <1>10 DEF Respond, HandlersIdle
<1>11. CASE Cancel(w)
  BY <1>11 DEF Cancel
<1> QED
  BY <1>1, <1>2, <1>3, <1>4, <1>5, <1>6, <1>7, <1>8, <1>9, <1>10, <1>11

LEMMA QuietEnvironment ==
    ASSUME TypeInv,
           \/ \E i \in Intents : CheckoutHeld(i) \/ CreateIntent(i) \/ Pay(i) \/ ExpireKey(i)
           \/ \E W \in SUBSET Workers : Crash(W)
           \/ UNCHANGED vars
    PROVE  Quiet
<1> USE DEF TypeInv, TypeOK, Quiet, NoNewLock, HoldsPurchase, checkoutVars, dbVars,
        redisVars, handlerVars, stripeVars
<1>1. CASE \E i \in Intents : CheckoutHeld(i) \/ CreateIntent(i) \/ Pay(i) \/ ExpireKey(i)
  BY <1>1 DEF CheckoutHeld, CreateIntent, Pay, ExpireKey
<1>2. CASE \E W \in SUBSET Workers : Crash(W)
  BY <1>2 DEF Crash, HandlersIdle
<1>3. CASE UNCHANGED vars
  BY <1>3 DEF vars
<1> QED
  BY <1>1, <1>2, <1>3

LEMMA QuietKeepsLocks ==
    ASSUME LocksProtect, Quiet
    PROVE  LocksProtect'
<1>1. HoldsTier \subseteq HoldsPurchase /\ "mint" \in HoldsPurchase /\ "soldOut" \in HoldsPurchase
  BY DEF HoldsTier, HoldsPurchase
<1> QED
  BY <1>1 DEF LocksProtect, Quiet, NoNewLock

(* A checkout that changes an order or inserts a row touches no purchase    *)
(* that a transaction has locked.                                           *)
LEMMA CheckoutKeepsLocks ==
    ASSUME TypeInv, LocksProtect, NEW i \in Intents, status[i] = "none",
           UNCHANGED <<pc, job, sold>>,
           \A j \in Intents \ {i} : order'[j] = order[j] /\ status'[j] = status[j]
    PROVE  LocksProtect'
<1>1. HoldsTier \subseteq HoldsPurchase /\ "mint" \in HoldsPurchase /\ "soldOut" \in HoldsPurchase
  BY DEF HoldsTier, HoldsPurchase
<1>2. \A v \in Workers : pc[v] \in HoldsPurchase =>
          order'[job[v]] = order[job[v]] /\ status'[job[v]] = status[job[v]]
  BY DEF TypeInv, TypeOK, WellFormed, HoldsPurchase
<1> QED
  BY <1>1, <1>2 DEF LocksProtect

LEMMA LockPurchaseKeepsLocks ==
    ASSUME TypeInv, LocksProtect, NEW w \in Workers, LockPurchase(w)
    PROVE  LocksProtect'
<1>1. UNCHANGED <<order, status, sold, job>>
  BY DEF LockPurchase, checkoutVars, dbVars
<1>2. \A v \in Workers : v # w => pc'[v] = pc[v]
  BY DEF LockPurchase, Goto, Finish, TypeInv, TypeOK
<1>3. pc'[w] \in HoldsPurchase =>
         /\ pc'[w] = "lockTier"
         /\ status[job[w]] \in {"pending", "failed"}
         /\ \A v \in Workers : pc[v] \in HoldsPurchase => job[v] # job[w]
  BY DEF LockPurchase, Goto, Finish, TypeInv, TypeOK, PurchaseLocked, HoldsPurchase
<1>4. pc'[w] \notin HoldsTier /\ pc'[w] # "mint" /\ pc'[w] # "soldOut"
  BY DEF LockPurchase, Goto, Finish, TypeInv, TypeOK, HoldsTier
<1> QED
  BY <1>1, <1>2, <1>3, <1>4 DEF LocksProtect

LEMMA LockTierKeepsLocks ==
    ASSUME TypeInv, LocksProtect, NEW w \in Workers, LockTier(w)
    PROVE  LocksProtect'
<1> DEFINE o == order[job[w]]
<1>1. UNCHANGED <<order, status, sold, job>>
  BY DEF LockTier, checkoutVars, dbVars
<1>2. \A v \in Workers : v # w => pc'[v] = pc[v]
  BY DEF LockTier, Goto, TypeInv, TypeOK
<1>3. /\ pc[w] \in HoldsPurchase
      /\ \A v \in Workers : pc[v] \in HoldsTier => order[job[v]].tier # o.tier
  BY DEF LockTier, TierLocked, HoldsPurchase
<1>4. /\ pc'[w] \in {"mint", "soldOut"}
      /\ pc'[w] = "soldOut" => sold[o.tier] + o.quantity > Capacity[o.tier]
      /\ pc'[w] = "mint" => ~(sold[o.tier] + o.quantity > Capacity[o.tier])
  BY DEF LockTier, Goto, TypeInv, TypeOK
<1>5. job[w] \in Intents /\ o.tier \in Tiers /\ o.quantity \in Int
      /\ sold[o.tier] \in Nat /\ Capacity[o.tier] \in Nat
  BY ConstAssumption DEF LockTier, TypeInv, TypeOK, WellFormed, Orders
<1>6. pc'[w] = "mint" => sold[o.tier] + o.quantity <= Capacity[o.tier]
  BY <1>4, <1>5
<1> QED
  BY <1>1, <1>2, <1>3, <1>4, <1>6 DEF LocksProtect

(* A commit changes one purchase row and one tier row: the ones it holds.   *)
LEMMA CommitKeepsLocks ==
    ASSUME TypeInv, LocksProtect, NEW w \in Workers,
           pc[w] \in HoldsTier, Sell(job[w]) \/ Refuse(job[w]),
           UNCHANGED <<order, job>>,
           pc' = [pc EXCEPT ![w] = "invalidate"] \/ pc' = [pc EXCEPT ![w] = "release"]
    PROVE  LocksProtect'
<1>0. HoldsTier \subseteq HoldsPurchase /\ "mint" \in HoldsTier /\ "soldOut" \in HoldsTier
  BY DEF HoldsTier, HoldsPurchase
<1>1. \A v \in Workers : v # w => pc'[v] = pc[v]
  BY DEF TypeInv, TypeOK
<1>2. pc'[w] \notin HoldsPurchase
  BY DEF TypeInv, TypeOK, HoldsPurchase
<1>3. job[w] \in Intents
  BY DEF HoldsTier, TypeInv, TypeOK, WellFormed
<1>4. \A i \in Intents : i # job[w] => status'[i] = status[i]
  BY <1>3 DEF Sell, Refuse, TypeInv, TypeOK
<1>5. \A t \in Tiers : t # order[job[w]].tier => sold'[t] = sold[t]
  BY DEF Sell, Refuse, TypeInv, TypeOK
<1>6. ASSUME NEW v \in Workers, v # w, pc[v] \in HoldsPurchase
      PROVE  status'[job[v]] = status[job[v]] /\ job[v] \in Intents
  <2>0. pc[v] \in HoldsPurchase /\ pc[w] \in HoldsPurchase
    BY <1>0, <1>6
  <2>1. job[v] # job[w]
    BY <1>6, <2>0 DEF LocksProtect
  <2>2. job[v] \in Intents
    BY <2>0 DEF TypeInv, TypeOK, WellFormed, HoldsPurchase
  <2> QED
    BY <2>1, <2>2, <1>4
<1>7. ASSUME NEW v \in Workers, v # w, pc[v] \in HoldsTier
      PROVE  sold'[order[job[v]].tier] = sold[order[job[v]].tier]
  <2>1. order[job[v]].tier # order[job[w]].tier
    BY <1>7, {pc[v], pc[w]} \subseteq HoldsTier DEF LocksProtect
  <2>2. order[job[v]].tier \in Tiers
    BY <1>0, <1>6, <1>7 DEF TypeInv, TypeOK, Orders
  <2> QED
    BY <2>1, <2>2, <1>5
<1> QED
  BY <1>0, <1>1, <1>2, <1>6, <1>7 DEF LocksProtect

-----------------------------------------------------------------------------
(* The sale tables.                                                         *)

SaleInv == NoOversell /\ MintedExactlyOnce /\ RefusedOnlyWhenFull

LEMMA QuietKeepsSales ==
    ASSUME SaleInv, UNCHANGED <<order, status, tickets, sold>>
    PROVE  SaleInv'
BY DEF SaleInv, NoOversell, MintedExactlyOnce, RefusedOnlyWhenFull, TicketsOf, TicketsIn

(* Inserting a pending row, or changing the order of a request that has no  *)
(* row yet.                                                                 *)
LEMMA CheckoutKeepsSales ==
    ASSUME TypeInv, SaleInv, NEW i \in Intents, status[i] = "none",
           UNCHANGED <<tickets, sold>>,
           \A j \in Intents \ {i} : order'[j] = order[j] /\ status'[j] = status[j],
           status'[i] \in {"none", "pending"}
    PROVE  SaleInv'
BY DEF SaleInv, NoOversell, MintedExactlyOnce, RefusedOnlyWhenFull, TicketsOf, TicketsIn

LEMMA RefuseKeepsSales ==
    ASSUME TypeInv, SaleInv, LocksProtect, NEW w \in Workers, pc[w] = "soldOut",
           Refuse(job[w]), UNCHANGED order
    PROVE  SaleInv'
<1>1. job[w] \in Intents
  BY DEF TypeInv, TypeOK, WellFormed
<1>2. status[job[w]] # "completed"
  BY DEF LocksProtect, HoldsPurchase
<1>3. sold[order[job[w]].tier] + order[job[w]].quantity > Capacity[order[job[w]].tier]
  BY DEF LocksProtect
<1> QED
  BY <1>1, <1>2, <1>3 DEF Refuse, SaleInv, NoOversell, MintedExactlyOnce,
     RefusedOnlyWhenFull, TicketsOf, TicketsIn, TypeInv, TypeOK

(* The purchase a transaction is about to mint for is pending: a failed one *)
(* no longer fits its tier.                                                 *)
LEMMA MintsPending ==
    ASSUME TypeInv, SaleInv, LocksProtect, NEW w \in Workers, pc[w] = "mint"
    PROVE  job[w] \in Intents /\ status[job[w]] = "pending"
<1> DEFINE o == order[job[w]]
<1>1. job[w] \in Intents
  BY DEF TypeInv, TypeOK, WellFormed
<1>2. status[job[w]] \in {"pending", "failed"} /\ sold[o.tier] + o.quantity <= Capacity[o.tier]
  BY DEF LocksProtect, HoldsPurchase
<1>3. sold[o.tier] \in Nat /\ o.quantity \in Int /\ Capacity[o.tier] \in Nat
  BY <1>1, ConstAssumption DEF TypeInv, TypeOK, Orders
<1>4. ~(sold[o.tier] + o.quantity > Capacity[o.tier])
  BY <1>2, <1>3
<1> QED
  BY <1>1, <1>2, <1>4 DEF SaleInv, RefusedOnlyWhenFull

(* What a committed sale adds: the ordered number of tickets, all of the    *)
(* purchase and its tier.                                                   *)
LEMMA SellCounts ==
    ASSUME TypeInv, SaleInv, NEW i \in Intents, status[i] = "pending", Sell(i),
           UNCHANGED order
    PROVE  /\ Cardinality(TicketsOf(i)') = order[i].quantity
           /\ \A j \in Intents \ {i} : TicketsOf(j)' = TicketsOf(j)
           /\ Cardinality(TicketsIn(order[i].tier)') = sold[order[i].tier] + order[i].quantity
           /\ \A t \in Tiers \ {order[i].tier} : TicketsIn(t)' = TicketsIn(t)
<1> DEFINE o == order[i]
           n == Cardinality(TicketsOf(i))
           N == NewTickets(i, o.tier, n, o.quantity)
<1>1. o.quantity \in Nat /\ o.tier \in Tiers /\ n = 0 /\ TicketsOf(i) = {}
  <2>1. o.quantity \in Nat /\ o.tier \in Tiers
    BY DEF TypeInv, TypeOK, WellFormed, Orders
  <2>2. n = 0
    BY DEF SaleInv, MintedExactlyOnce
  <2>3. IsFiniteSet(TicketsOf(i))
    BY TicketSetsFinite DEF TypeInv, WellFormed
  <2> QED
    BY <2>1, <2>2, <2>3, FS_EmptySet
<1>2. tickets' = tickets \cup N
  BY DEF Sell, NewTickets
<1>3. \A k \in N : k.purchase = i /\ k.tier = o.tier
  BY DEF NewTickets
<1>4. IsFiniteSet(N) /\ Cardinality(N) = o.quantity
  <2>1. n \in Nat
    BY <1>1
  <2> QED
    BY <2>1, <1>1, NewTicketsCount
<1>5. TicketsOf(i)' = N
  BY <1>1, <1>2, <1>3 DEF TicketsOf
<1>6. \A j \in Intents \ {i} : TicketsOf(j)' = TicketsOf(j)
  BY <1>2, <1>3 DEF TicketsOf
<1>7. TicketsIn(o.tier)' = TicketsIn(o.tier) \cup N
  BY <1>2, <1>3 DEF TicketsIn
<1>8. \A t \in Tiers \ {o.tier} : TicketsIn(t)' = TicketsIn(t)
  BY <1>2, <1>3 DEF TicketsIn
<1>9. TicketsIn(o.tier) \cap N = {}
  <2> SUFFICES ASSUME NEW k \in TicketsIn(o.tier), k \in N PROVE FALSE
    OBVIOUS
  <2>1. k \in TicketsOf(i)
    BY <1>3 DEF TicketsIn, TicketsOf
  <2> QED
    BY <2>1, <1>1
<1>10. Cardinality(TicketsIn(o.tier) \cup N) = sold[o.tier] + o.quantity
  <2>1. IsFiniteSet(TicketsIn(o.tier)) /\ Cardinality(TicketsIn(o.tier)) = sold[o.tier]
    BY <1>1, TicketSetsFinite DEF TypeInv, WellFormed, SaleInv, NoOversell
  <2>2. Cardinality(TicketsIn(o.tier) \cap N) = 0
    BY <1>9, FS_EmptySet
  <2>3. sold[o.tier] \in Nat
    BY <1>1 DEF TypeInv, TypeOK
  <2>4. Cardinality(TicketsIn(o.tier) \cup N) = Cardinality(TicketsIn(o.tier))
           + Cardinality(N) - Cardinality(TicketsIn(o.tier) \cap N)
    BY <2>1, <1>4, FS_Union
  <2> QED
    BY <2>1, <2>2, <2>3, <2>4, <1>1, <1>4
<1> QED
  BY <1>4, <1>5, <1>6, <1>7, <1>8, <1>10

LEMMA SellKeepsSales ==
    ASSUME TypeInv, SaleInv, LocksProtect, NEW w \in Workers, pc[w] = "mint",
           Sell(job[w]), UNCHANGED order
    PROVE  SaleInv'
<1> DEFINE i == job[w]
           o == order[i]
<1>1. i \in Intents /\ status[i] = "pending"
  BY MintsPending
<1>2. /\ o.tier \in Tiers /\ o.quantity \in Nat
      /\ sold[o.tier] + o.quantity <= Capacity[o.tier]
  BY <1>1 DEF TypeInv, TypeOK, WellFormed, Orders, LocksProtect
<1>3. sold' = [sold EXCEPT ![o.tier] = sold[o.tier] + o.quantity]
      /\ status' = [status EXCEPT ![i] = "completed"]
  BY DEF Sell
<1>4. sold \in [Tiers -> Nat] /\ status \in [Intents -> Statuses] /\ Capacity \in [Tiers -> Nat]
      /\ order \in [Intents -> Orders]
  BY ConstAssumption DEF TypeInv, TypeOK
<1>5. NoOversell'
  <2> SUFFICES ASSUME NEW t \in Tiers
               PROVE  sold'[t] = Cardinality(TicketsIn(t)') /\ sold'[t] <= Capacity[t]
    BY DEF NoOversell, TicketsIn
  <2>1. CASE t = o.tier
    BY <2>1, <1>1, <1>2, <1>3, <1>4, SellCounts
  <2>2. CASE t # o.tier
    <3>1. TicketsIn(t)' = TicketsIn(t)
      BY <2>2, <1>1, SellCounts
    <3> QED
      BY <3>1, <2>2, <1>3, <1>4 DEF SaleInv, NoOversell
  <2> QED
    BY <2>1, <2>2
<1>6. MintedExactlyOnce'
  <2> SUFFICES ASSUME NEW j \in Intents
               PROVE  Cardinality(TicketsOf(j)') =
                         IF status'[j] = "completed" THEN order[j].quantity ELSE 0
    BY DEF MintedExactlyOnce, TicketsOf
  <2>1. CASE j = i
    BY <2>1, <1>1, <1>3, <1>4, SellCounts
  <2>2. CASE j # i
    <3>1. TicketsOf(j)' = TicketsOf(j)
      BY <2>2, <1>1, SellCounts
    <3> QED
      BY <3>1, <2>2, <1>3, <1>4 DEF SaleInv, MintedExactlyOnce
  <2> QED
    BY <2>1, <2>2
<1>7. RefusedOnlyWhenFull'
  <2> SUFFICES ASSUME NEW j \in Intents, status'[j] = "failed"
               PROVE  sold'[order[j].tier] + order[j].quantity > Capacity[order[j].tier]
    BY DEF RefusedOnlyWhenFull
  <2>1. status[j] = "failed"
    BY <1>1, <1>3, <1>4
  <2>2. sold[order[j].tier] + order[j].quantity > Capacity[order[j].tier]
    BY <2>1 DEF SaleInv, RefusedOnlyWhenFull
  <2>3. order[j].tier \in Tiers /\ order[j].quantity \in Int
    BY <1>4 DEF Orders
  <2>4. sold'[order[j].tier] >= sold[order[j].tier] /\ sold'[order[j].tier] \in Nat
    BY <2>3, <1>2, <1>3, <1>4
  <2> QED
    BY <2>2, <2>3, <2>4, <1>4
<1> QED
  BY <1>5, <1>6, <1>7 DEF SaleInv

-----------------------------------------------------------------------------
(* One handler reports a purchase as created.                               *)

(* No handler newly reports "created" and nothing is published in this      *)
(* step.                                                                    *)
NoNewReport ==
    /\ \A v \in Workers :
          /\ pc'[v] = "idle" => res'[v] = "none"
          /\ pc'[v] \in {"invalidate", "issue", "publish"} => res'[v] = "created"
          /\ res'[v] = "created" => /\ res[v] = "created"
                                    /\ job'[v] = job[v]
                                    /\ pc'[v] # "respond" => pc[v] # "respond"
    /\ published' = published
    /\ \A i \in Intents : status[i] = "completed" => status'[i] = "completed"

LEMMA NoNewReportKeeps ==
    ASSUME TypeInv, TypeInv', CreatedOnce, PublishedOnce, NoNewReport
    PROVE  CreatedOnce' /\ PublishedOnce'
<1>1. \A w \in Workers : res[w] = "created" => job[w] \in Intents
  BY DEF TypeInv, TypeOK, WellFormed, CreatedOnce
<1>2. PublishedOnce'
  BY DEF PublishedOnce, NoNewReport
<1>3. CreatedOnce'
  BY <1>1 DEF CreatedOnce, NoNewReport
<1> QED
  BY <1>2, <1>3

(* The steps of a handler before its commit and after its publish.          *)
LEMMA NoNewReportSteps ==
    ASSUME TypeInv, LocksProtect, CreatedOnce, NEW w \in Workers,
           \/ \E i \in Intents : Deliver(w, i)
           \/ Acquire(w) \/ Begin(w) \/ LockPurchase(w) \/ LockTier(w) \/ TxError(w)
           \/ CommitSoldOut(w) \/ CommitUnknown(w) \/ Invalidate(w) \/ MarkDone(w)
           \/ IssueForPurchase(w) \/ Release(w) \/ Respond(w) \/ Cancel(w)
    PROVE  NoNewReport
<1> USE DEF TypeInv, TypeOK, CreatedOnce, NoNewReport, checkoutVars, dbVars,
        redisVars, handlerVars, stripeVars, Goto, Finish
<1>1. CASE \E i \in Intents : Deliver(w, i)
  BY <1>1 DEF Deliver
<1>2. CASE Acquire(w)
  BY <1>2 DEF Acquire
<1>3. CASE Begin(w)
  BY <1>3 DEF Begin
<1>4. CASE LockPurchase(w)
  BY <1>4 DEF LockPurchase
<1>5. CASE LockTier(w)
  BY <1>5 DEF LockTier
<1>6. CASE TxError(w)
  BY <1>6 DEF TxError, TxPCs
<1>7. CASE CommitSoldOut(w)
  BY <1>7 DEF CommitSoldOut, Refuse, LocksProtect, HoldsPurchase
<1>8. CASE CommitUnknown(w)
  BY <1>8 DEF CommitUnknown, Sell, Refuse, LocksProtect, HoldsPurchase
<1>9. CASE Invalidate(w)
  BY <1>9 DEF Invalidate
<1>10. CASE MarkDone(w)
  BY <1>10 DEF MarkDone
<1>11. CASE IssueForPurchase(w)
  BY <1>11 DEF IssueForPurchase
<1>12. CASE Release(w)
  BY <1>12 DEF Release
<1>13. CASE Respond(w)
  BY <1>13 DEF Respond, HandlersIdle
<1>14. CASE Cancel(w)
  BY <1>14 DEF Cancel
<1> QED
  BY <1>1, <1>2, <1>3, <1>4, <1>5, <1>6, <1>7, <1>8, <1>9, <1>10, <1>11, <1>12, <1>13, <1>14

LEMMA NoNewReportEnvironment ==
    ASSUME TypeInv, CreatedOnce,
           \/ \E i \in Intents : CheckoutStep(i) \/ Pay(i) \/ ExpireKey(i)
           \/ \E W \in SUBSET Workers : Crash(W)
           \/ UNCHANGED vars
    PROVE  NoNewReport
<1> USE DEF TypeInv, TypeOK, WellFormed, CreatedOnce, NoNewReport, checkoutVars, dbVars,
        redisVars, handlerVars, stripeVars
<1>1. CASE \E i \in Intents : CheckoutStep(i)
  BY <1>1 DEF CheckoutStep, CheckoutStart, CheckoutHeld, CreateIntent, InsertPurchase,
     CheckoutError
<1>2. CASE \E i \in Intents : Pay(i) \/ ExpireKey(i)
  BY <1>2 DEF Pay, ExpireKey
<1>3. CASE \E W \in SUBSET Workers : Crash(W)
  BY <1>3 DEF Crash, HandlersIdle
<1>4. CASE UNCHANGED vars
  BY <1>4 DEF vars
<1> QED
  BY <1>1, <1>2, <1>3, <1>4

(* The one commit makes the one report: the purchase was pending, so nobody *)
(* has reported or published it.                                            *)
LEMMA CommitSaleReports ==
    ASSUME TypeInv, SaleInv, LocksProtect, CreatedOnce, PublishedOnce,
           NEW w \in Workers, CommitSale(w)
    PROVE  CreatedOnce' /\ PublishedOnce'
<1>1. job[w] \in Intents /\ status[job[w]] = "pending"
  BY MintsPending DEF CommitSale
<1>2. /\ pc' = [pc EXCEPT ![w] = "invalidate"] /\ res' = [res EXCEPT ![w] = "created"]
      /\ status' = [status EXCEPT ![job[w]] = "completed"]
      /\ UNCHANGED <<job, published>>
  BY DEF CommitSale, Goto, Finish, Sell
<1>3. published[job[w]] = 0
  BY <1>1 DEF PublishedOnce, TypeInv, TypeOK
<1>4. \A v \in Workers : res[v] = "created" => job[v] # job[w] /\ job[v] \in Intents
  BY <1>1 DEF CreatedOnce, TypeInv, TypeOK, WellFormed
<1>5. PublishedOnce'
  BY <1>1, <1>2 DEF PublishedOnce, TypeInv, TypeOK
<1>6. CreatedOnce'
  BY <1>1, <1>2, <1>3, <1>4 DEF CreatedOnce, TypeInv, TypeOK
<1> QED
  BY <1>5, <1>6

LEMMA PublishReports ==
    ASSUME TypeInv, CreatedOnce, PublishedOnce, NEW w \in Workers, PublishPurchase(w)
    PROVE  CreatedOnce' /\ PublishedOnce'
<1>1. /\ pc[w] = "publish" /\ res[w] = "created" /\ job[w] \in Intents
      /\ status[job[w]] = "completed" /\ published[job[w]] = 0
  BY DEF PublishPurchase, CreatedOnce, TypeInv, TypeOK, WellFormed
<1>2. /\ pc' = [pc EXCEPT ![w] = "respond"]
      /\ published' = [published EXCEPT ![job[w]] = 1]
      /\ UNCHANGED <<job, res, status>>
  BY <1>1 DEF PublishPurchase, Goto, dbVars, TypeInv, TypeOK
<1>3. PublishedOnce'
  BY <1>1, <1>2 DEF PublishedOnce, TypeInv, TypeOK
<1>4. \A v \in Workers : v # w /\ res[v] = "created" => job[v] # job[w] /\ job[v] \in Intents
  BY <1>1 DEF CreatedOnce, TypeInv, TypeOK, WellFormed
<1>5. CreatedOnce'
  BY <1>1, <1>2, <1>4 DEF CreatedOnce, TypeInv, TypeOK
<1> QED
  BY <1>3, <1>5

-----------------------------------------------------------------------------
(* Every step is one of five kinds.                                         *)

CheckoutEffect(i) ==
    /\ status[i] = "none"
    /\ status' = status \/ status' = [status EXCEPT ![i] = "pending"]
    /\ order' = order \/ order' = [order EXCEPT ![i].quantity = Normal(@)]
    /\ UNCHANGED <<pc, job, tickets, sold>>

CommitEffect(w) ==
    /\ \/ pc[w] = "mint" /\ Sell(job[w])
       \/ pc[w] = "soldOut" /\ Refuse(job[w])
    /\ pc' = [pc EXCEPT ![w] = "invalidate"] \/ pc' = [pc EXCEPT ![w] = "release"]
    /\ UNCHANGED <<order, job>>

LEMMA StepKinds ==
    ASSUME TypeInv, [Next]_vars
    PROVE  \/ Quiet
           \/ \E i \in Intents : CheckoutEffect(i)
           \/ \E w \in Workers : LockPurchase(w) \/ LockTier(w) \/ CommitEffect(w)
<1>1. ASSUME NEW i \in Intents, CheckoutStart(i) \/ InsertPurchase(i) \/ CheckoutError(i)
      PROVE  CheckoutEffect(i)
  <2>1. status[i] = "none"
    BY <1>1 DEF CheckoutStart, InsertPurchase, CheckoutError, TypeInv, WellFormed
  <2> QED
    BY <1>1, <2>1 DEF CheckoutStart, InsertPurchase, CheckoutError, CheckoutEffect,
       dbVars, handlerVars
<1>2. ASSUME NEW w \in Workers, CommitSale(w) \/ CommitSoldOut(w) \/ CommitUnknown(w)
      PROVE  CommitEffect(w)
  BY <1>2 DEF CommitSale, CommitSoldOut, CommitUnknown, CommitEffect, Goto, Finish,
     checkoutVars
<1> QED
  BY <1>1, <1>2, QuietSteps, QuietEnvironment DEF Next, CheckoutStep, HandlerStep

LEMMA SafetyInit == Init => SafetyInv
<1> SUFFICES ASSUME Init PROVE SafetyInv
  OBVIOUS
<1>1. TypeOK /\ WellFormed
  BY TypeInit DEF TypeInv
<1>2. LocksProtect
  BY DEF Init, LocksProtect, HoldsPurchase, HoldsTier
<1>3. NoOversell
  <2>1. \A t \in Tiers : TicketsIn(t) = {}
    BY DEF Init, TicketsIn
  <2>2. \A t \in Tiers : sold[t] = 0 /\ Capacity[t] \in Nat
    BY ConstAssumption DEF Init
  <2>3. Cardinality({}) = 0
    BY FS_EmptySet
  <2> QED
    BY <2>1, <2>2, <2>3 DEF NoOversell
<1>4. MintedExactlyOnce
  <2>1. \A i \in Intents : TicketsOf(i) = {}
    BY DEF Init, TicketsOf
  <2> QED
    BY <2>1, FS_EmptySet DEF Init, MintedExactlyOnce
<1>5. RefusedOnlyWhenFull /\ CreatedOnce /\ PublishedOnce
  BY DEF Init, RefusedOnlyWhenFull, CreatedOnce, PublishedOnce
<1> QED
  BY <1>1, <1>2, <1>3, <1>4, <1>5 DEF SafetyInv

LEMMA SafetyStep == SafetyInv /\ [Next]_vars => SafetyInv'
<1> SUFFICES ASSUME SafetyInv, [Next]_vars PROVE SafetyInv'
  OBVIOUS
<1>1. TypeInv /\ LocksProtect /\ SaleInv /\ CreatedOnce /\ PublishedOnce
  BY DEF SafetyInv, TypeInv, SaleInv
<1>2. TypeInv'
  BY <1>1, TypeStep
<1>3. LocksProtect' /\ SaleInv'
  <2>1. CASE Quiet
    BY <1>1, <2>1, QuietKeepsLocks, QuietKeepsSales DEF Quiet
  <2>2. ASSUME NEW i \in Intents, CheckoutEffect(i) PROVE LocksProtect' /\ SaleInv'
    <3>1. /\ \A j \in Intents \ {i} : order'[j] = order[j] /\ status'[j] = status[j]
          /\ status'[i] \in {"none", "pending"}
      BY <1>1, <2>2 DEF CheckoutEffect, TypeInv, TypeOK
    <3> QED
      BY <1>1, <2>2, <3>1, CheckoutKeepsLocks, CheckoutKeepsSales DEF CheckoutEffect
  <2>3. ASSUME NEW w \in Workers, LockPurchase(w) \/ LockTier(w)
        PROVE  LocksProtect' /\ SaleInv'
    <3>1. UNCHANGED <<order, status, tickets, sold>>
      BY <2>3 DEF LockPurchase, LockTier, checkoutVars, dbVars
    <3> QED
      BY <1>1, <2>3, <3>1, LockPurchaseKeepsLocks, LockTierKeepsLocks, QuietKeepsSales
  <2>4. ASSUME NEW w \in Workers, CommitEffect(w) PROVE LocksProtect' /\ SaleInv'
    <3>1. LocksProtect'
      BY <1>1, <2>4, CommitKeepsLocks DEF CommitEffect, HoldsTier
    <3>2. CASE pc[w] = "mint" /\ Sell(job[w])
      BY <1>1, <2>4, <3>1, <3>2, SellKeepsSales DEF CommitEffect
    <3>3. CASE pc[w] = "soldOut" /\ Refuse(job[w])
      BY <1>1, <2>4, <3>1, <3>3, RefuseKeepsSales DEF CommitEffect
    <3> QED
      BY <2>4, <3>2, <3>3 DEF CommitEffect
  <2> QED
    BY <1>1, <2>1, <2>2, <2>3, <2>4, StepKinds
<1>4. CreatedOnce' /\ PublishedOnce'
  <2>1. CASE NoNewReport
    BY <1>1, <1>2, <2>1, NoNewReportKeeps
  <2>2. ASSUME NEW w \in Workers, CommitSale(w) \/ PublishPurchase(w)
        PROVE  CreatedOnce' /\ PublishedOnce'
    BY <1>1, <2>2, CommitSaleReports, PublishReports
  <2> QED
    BY <1>1, <2>1, <2>2, NoNewReportSteps, NoNewReportEnvironment DEF Next, HandlerStep
<1> QED
  BY <1>2, <1>3, <1>4 DEF SafetyInv, TypeInv, SaleInv

(* The strengthened invariant holds in every reachable state.               *)
THEOREM SafetyInvariant == Spec => []SafetyInv
BY SafetyInit, SafetyStep, PTL DEF Spec

(* Row locks do what the transaction relies on: no two handlers hold a row, *)
(* and what processInTx read under its locks is still true at its commit.   *)
THEOREM LocksHold == Spec => []LocksProtect
<1>1. SafetyInv => LocksProtect
  BY DEF SafetyInv
<1> QED
  BY <1>1, SafetyInvariant, PTL

(* The tier lock and the capacity test alone keep every tier within its     *)
(* capacity and its sold count equal to its ticket rows, under any number   *)
(* of concurrent deliveries and of faults: the no_oversell constraint of    *)
(* the schema never fires.                                                  *)
THEOREM NeverOversold == Spec => []NoOversell
<1>1. SafetyInv => NoOversell
  BY DEF SafetyInv
<1> QED
  BY <1>1, SafetyInvariant, PTL

(* Deliveries of one intent, however many and however interleaved, mint the *)
(* purchased tickets exactly once, even with Redis failing at any point.    *)
THEOREM ExactlyOnceMint == Spec => []MintedExactlyOnce
<1>1. SafetyInv => MintedExactlyOnce
  BY DEF SafetyInv
<1> QED
  BY <1>1, SafetyInvariant, PTL

(* A purchase is marked failed only when its tier cannot hold it, for ever  *)
(* after.                                                                   *)
THEOREM RefusalJustified == Spec => []RefusedOnlyWhenFull
<1>1. SafetyInv => RefusedOnlyWhenFull
  BY DEF SafetyInv
<1> QED
  BY <1>1, SafetyInvariant, PTL

(* PublishPurchase runs at most once per purchase, after its commit.        *)
THEOREM PublishAtMostOnce == Spec => []PublishedOnce
<1>1. SafetyInv => PublishedOnce
  BY DEF SafetyInv
<1> QED
  BY <1>1, SafetyInvariant, PTL

-----------------------------------------------------------------------------
(* Settlement is final.                                                     *)

(* In a step that commits, the purchase was pending or is refused again.    *)
LEMMA CommitSettles ==
    ASSUME TypeInv, LocksProtect, SaleInv, NEW w \in Workers, CommitEffect(w)
    PROVE  /\ job[w] \in Intents
           /\ \/ pc[w] = "mint" /\ status[job[w]] = "pending" /\ Sell(job[w])
              \/ pc[w] = "soldOut" /\ status[job[w]] \in {"pending", "failed"} /\ Refuse(job[w])
<1>1. CASE pc[w] = "mint" /\ Sell(job[w])
  BY <1>1, MintsPending
<1>2. CASE pc[w] = "soldOut" /\ Refuse(job[w])
  BY <1>2 DEF LocksProtect, HoldsPurchase, TypeInv, TypeOK, WellFormed
<1> QED
  BY <1>1, <1>2 DEF CommitEffect

LEMMA SettlementStep ==
    ASSUME SafetyInv, [Next]_vars, NEW i \in Intents, status[i] \in Settled
    PROVE  status'[i] = status[i] /\ TicketsOf(i)' = TicketsOf(i)
<1>0. TypeInv /\ LocksProtect /\ SaleInv /\ status \in [Intents -> Statuses]
  BY DEF SafetyInv, TypeInv, SaleInv, TypeOK
<1>1. CASE UNCHANGED <<status, tickets>>
  BY <1>1 DEF TicketsOf
<1>2. ASSUME NEW j \in Intents, CheckoutEffect(j)
      PROVE  status'[i] = status[i] /\ TicketsOf(i)' = TicketsOf(i)
  BY <1>0, <1>2 DEF CheckoutEffect, TicketsOf, Settled
<1>3. ASSUME NEW w \in Workers, CommitEffect(w)
      PROVE  status'[i] = status[i] /\ TicketsOf(i)' = TicketsOf(i)
  <2>1. CASE pc[w] = "mint" /\ status[job[w]] = "pending" /\ Sell(job[w])
    <3>1. job[w] \in Intents /\ i # job[w] /\ UNCHANGED order
      BY <1>0, <1>3, <2>1, CommitSettles DEF Settled, CommitEffect
    <3>2. TicketsOf(i)' = TicketsOf(i)
      BY <1>0, <2>1, <3>1, SellCounts
    <3> QED
      BY <1>0, <2>1, <3>1, <3>2 DEF Sell
  <2>2. CASE status[job[w]] \in {"pending", "failed"} /\ Refuse(job[w])
    BY <1>0, <2>2 DEF Refuse, TicketsOf, Settled
  <2> QED
    BY <1>0, <1>3, <2>1, <2>2, CommitSettles
<1>4. ASSUME NEW w \in Workers, LockPurchase(w) \/ LockTier(w) PROVE UNCHANGED <<status, tickets>>
  BY <1>4 DEF LockPurchase, LockTier, dbVars
<1> QED
  BY <1>0, <1>1, <1>2, <1>3, <1>4, StepKinds DEF Quiet

(* Once completed or failed, a purchase keeps its status and its tickets:   *)
(* no redelivery, retry or failure of any kind changes them.                *)
THEOREM SettledForGood == Spec => SettlementFinal
<1> DEFINE Final == \A i \in Intents : status[i] \in Settled =>
                        status'[i] = status[i] /\ TicketsOf(i)' = TicketsOf(i)
<1>1. SafetyInv /\ [Next]_vars => [Final]_vars
  BY SettlementStep
<1> QED
  BY <1>1, SafetyInvariant, PTL DEF Spec, SettlementFinal

-----------------------------------------------------------------------------
(* Quantities and amounts.                                                  *)

LEMMA WrapExact ==
    ASSUME NEW n \in Nat, n <= GoMax
    PROVE  Wrap(n) = n
<1> DEFINE m == n + GoMax + 1
           d == 2 * (GoMax + 1)
<1>1. GoMax \in Nat
  BY WidthAssumption
<1>2. m \in Nat /\ d \in Nat /\ m < d /\ m - (GoMax + 1) = n
  BY <1>1
<1>3. \A a, b \in Nat : a < b => a % b = a
  OBVIOUS
<1> HIDE DEF m, d
<1>4. m % d = m
  BY <1>2, <1>3
<1> QED
  BY <1>2, <1>4 DEF Wrap, m, d

(* The sum over the rows of a buyer is no more than a capful for each       *)
(* request.                                                                 *)
LEMMA HeldBounded ==
    ASSUME SafetyInv, RowsInv, NEW i \in Intents
    PROVE  Held(i) \in Nat /\ Held(i) <= Cardinality(Intents) * PurchaseCap
<1> DEFINE rows == {j \in Intents : /\ status[j] \in {"pending", "completed"}
                                    /\ order[j].buyer = order[i].buyer
                                    /\ EventOf[order[j].tier] = EventOf[order[i].tier]}
           T == UNION {{j} \X (1 .. order[j].quantity) : j \in rows}
           All == Intents \X (1 .. PurchaseCap)
<1>1. PurchaseCap \in Nat \ {0} /\ IsFiniteSet(Intents)
  BY ConstAssumption, FiniteAssumption
<1>2. IsFiniteSet(1 .. PurchaseCap) /\ Cardinality(1 .. PurchaseCap) = PurchaseCap
  BY <1>1, FS_Interval
<1>3. IsFiniteSet(All) /\ Cardinality(All) = Cardinality(Intents) * PurchaseCap
  BY <1>1, <1>2, FS_Product
<1>4. T \subseteq All
  <2> SUFFICES ASSUME NEW j \in rows, NEW t \in {j} \X (1 .. order[j].quantity) PROVE t \in All
    OBVIOUS
  <2>1. order[j].quantity \in 1 .. PurchaseCap
    BY DEF RowsInv
  <2> QED
    BY <1>1, <2>1
<1>5. IsFiniteSet(T) /\ Cardinality(T) <= Cardinality(All) /\ Cardinality(T) \in Nat
  BY <1>3, <1>4, FS_Subset, FS_CardinalityType
<1>6. Held(i) = Cardinality(T)
  BY DEF Held
<1> QED
  BY <1>3, <1>5, <1>6

(* Passing the cap means a quantity within it, or one that overflowed and   *)
(* is too large for the column.                                             *)
LEMMA CapPassed ==
    ASSUME Room, NEW h \in Nat, h <= Cardinality(Intents) * PurchaseCap,
           NEW q \in Nat \ {0}, q <= GoMax, ~(Wrap(h + q) > PurchaseCap)
    PROVE  q <= PurchaseCap \/ q > ColMax
<1>0. /\ GoMax \in Nat /\ ColMax \in Nat /\ PurchaseCap \in Nat
      /\ Cardinality(Intents) * PurchaseCap \in Nat
  BY ConstAssumption, WidthAssumption, FiniteAssumption, FS_CardinalityType
<1>1. CASE h + q <= GoMax
  BY <1>0, <1>1, WrapExact
<1>2. CASE h + q > GoMax
  BY <1>0, <1>2 DEF Room
<1> QED
  BY <1>0, <1>1, <1>2

LEMMA RowsStep ==
    ASSUME Room, SafetyInv, RowsInv, [Next]_vars
    PROVE  RowsInv'
<1>0. /\ TypeInv /\ LocksProtect /\ SaleInv /\ status \in [Intents -> Statuses]
      /\ order \in [Intents -> Orders] /\ checkout \in [Intents -> CheckoutPCs]
  BY DEF SafetyInv, TypeInv, SaleInv, TypeOK
<1>1. /\ GoMax \in Nat /\ ColMax \in Nat /\ PurchaseCap \in Nat \ {0}
  BY ConstAssumption, WidthAssumption
<1>2. ASSUME UNCHANGED <<checkout, order>>,
             \A i \in Intents : status'[i] # "none" => status[i] # "none"
      PROVE  RowsInv'
  BY <1>2 DEF RowsInv
<1>3. ASSUME NEW i \in Intents, CheckoutStart(i) PROVE RowsInv'
  <2>1. order[i].quantity \in Int /\ order[i].quantity <= GoMax
    BY <1>0 DEF RowsInv, Orders
  <2>2. 1 <= GoMax
    <3>1. Cardinality(Intents) # 0 /\ Cardinality(Intents) \in Nat
      BY FiniteAssumption, FS_EmptySet, FS_CardinalityType
    <3>2. Cardinality(Intents) * PurchaseCap >= 1
      BY <1>1, <3>1
    <3> QED
      BY <1>1, <3>1, <3>2 DEF Room
  <2>3. Normal(order[i].quantity) <= GoMax
    BY <2>1, <2>2 DEF Normal
  <2>4. /\ checkout' = [checkout EXCEPT ![i] = "held"] /\ status' = status
        /\ order' = [order EXCEPT ![i].quantity = Normal(@)]
    BY <1>3 DEF CheckoutStart, CheckoutGoto, dbVars
  <2>5. order'[i].quantity = Normal(order[i].quantity) /\ status[i] = "none"
        /\ checkout'[i] = "held"
    BY <1>0, <1>3, <2>4 DEF CheckoutStart, TypeInv, WellFormed, Orders
  <2>6. \A j \in Intents \ {i} : order'[j] = order[j] /\ checkout'[j] = checkout[j]
    BY <1>0, <2>4
  <2> QED
    BY <2>3, <2>4, <2>5, <2>6 DEF RowsInv
<1>4. ASSUME NEW i \in Intents, CheckoutHeld(i) PROVE RowsInv'
  <2>1. order[i].quantity \in Nat \ {0} /\ order[i].quantity <= GoMax
    BY <1>0, <1>4 DEF CheckoutHeld, TypeInv, WellFormed, Orders, RowsInv
  <2>2. Wrap(Held(i) + order[i].quantity) > PurchaseCap
        \/ order[i].quantity <= PurchaseCap \/ order[i].quantity > ColMax
    BY <2>1, HeldBounded, CapPassed
  <2>3. /\ order' = order /\ status' = status
        /\ checkout' = [checkout EXCEPT ![i] =
              IF Wrap(Held(i) + order[i].quantity) > PurchaseCap THEN "refused" ELSE "intent"]
    BY <1>4 DEF CheckoutHeld, CheckoutGoto, dbVars
  <2> QED
    BY <1>0, <2>2, <2>3 DEF RowsInv
<1>5. ASSUME NEW i \in Intents, CreateIntent(i) PROVE RowsInv'
  BY <1>0, <1>5 DEF CreateIntent, CheckoutGoto, dbVars, RowsInv
<1>6. ASSUME NEW i \in Intents, InsertPurchase(i) \/ CheckoutError(i) PROVE RowsInv'
  <2>1. order[i].quantity \in Int /\ order' = order
    BY <1>0, <1>6 DEF Orders, InsertPurchase, CheckoutError
  <2>2. /\ checkout' = [checkout EXCEPT ![i] = "returned"]
           \/ checkout' = [checkout EXCEPT ![i] = "error"]
        /\ \/ status' = status
           \/ /\ checkout[i] = "insert" /\ Fits(order[i].quantity)
              /\ status' = [status EXCEPT ![i] = "pending"]
    BY <1>6 DEF InsertPurchase, CheckoutError, CheckoutGoto
  <2>3. checkout[i] = "insert" /\ Fits(order[i].quantity) => order[i].quantity \in 1 .. PurchaseCap
    BY <1>1, <2>1 DEF Fits, RowsInv
  <2> QED
    BY <1>0, <2>1, <2>2, <2>3 DEF RowsInv
<1>7. ASSUME NEW w \in Workers, HandlerStep(w) PROVE RowsInv'
  <2>1. UNCHANGED <<checkout, order>>
    BY <1>7 DEF HandlerStep, Acquire, Begin, LockPurchase, LockTier, TxError, CommitSale,
       CommitSoldOut, CommitUnknown, Invalidate, MarkDone, IssueForPurchase, PublishPurchase,
       Release, Respond, checkoutVars
  <2>2. CASE CommitSale(w) \/ CommitSoldOut(w) \/ CommitUnknown(w)
    <3>1. CommitEffect(w)
      BY <2>2 DEF CommitSale, CommitSoldOut, CommitUnknown, CommitEffect, Goto, Finish,
         checkoutVars
    <3>2. /\ job[w] \in Intents /\ status[job[w]] # "none"
          /\ \E v : status' = [status EXCEPT ![job[w]] = v]
      BY <1>0, <3>1, CommitSettles DEF Sell, Refuse
    <3> QED
      BY <1>0, <1>2, <2>1, <3>2
  <2>3. CASE ~(CommitSale(w) \/ CommitSoldOut(w) \/ CommitUnknown(w))
    <3>1. UNCHANGED status
      BY <1>7, <2>3 DEF HandlerStep, Acquire, Begin, LockPurchase, LockTier, TxError,
         Invalidate, MarkDone, IssueForPurchase, PublishPurchase, Release, Respond, dbVars
    <3> QED
      BY <1>2, <2>1, <3>1
  <2> QED
    BY <2>2, <2>3
<1>8. CASE UNCHANGED <<checkout, order, status>>
  BY <1>2, <1>8
<1> QED
  BY <1>3, <1>4, <1>5, <1>6, <1>7, <1>8 DEF Next, CheckoutStep, vars, checkoutVars, dbVars,
     Pay, ExpireKey, Deliver, Cancel, Crash

LEMMA RowsInit == ASSUME Room, Init PROVE RowsInv
<1>1. \A i \in Intents : order[i].quantity \in Quantities /\ status[i] = "none" /\ checkout[i] = "idle"
  BY DEF Init
<1> QED
  BY <1>1, WidthAssumption DEF RowsInv

(* An amount within int64 is exact.                                         *)
LEMMA AmountExact ==
    ASSUME NEW q \in 1 .. PurchaseCap, Price * PurchaseCap <= GoMax
    PROVE  Amount(q) = Price * q
<1>1. Price \in Nat /\ GoMax \in Nat /\ PurchaseCap \in Nat /\ q \in Nat
  BY ConstAssumption, WidthAssumption
<1>2. PICK r \in Nat : PurchaseCap = q + r
  <2>1. PurchaseCap - q \in Nat /\ PurchaseCap = q + (PurchaseCap - q)
    BY <1>1
  <2> QED
    BY <2>1
<1>3. Price * (q + r) = Price * q + Price * r /\ Price * q \in Nat /\ Price * r \in Nat
  BY <1>1, <1>2
<1>4. Price * q <= GoMax
  BY <1>1, <1>2, <1>3
<1> QED
  BY <1>3, <1>4, WrapExact DEF Amount

(* held + in.Quantity in Checkout overflows without an error, and a huge    *)
(* quantity then passes the cap.  The INTEGER column refuses it: every row  *)
(* is for 1 to PurchaseCap tickets at an exact amount.  What it takes is    *)
(* that an int64 holds all tickets sold and a column value on top.          *)
THEOREM RowsAreExact ==
    ASSUME Room
    PROVE  Spec => []RowsExact
<1>1. RowsInv => RowsExact
  BY AmountExact DEF RowsInv, RowsExact
<1>2. Init => RowsInv
  BY RowsInit
<1>3. SafetyInv /\ RowsInv /\ [Next]_vars => RowsInv'
  BY RowsStep
<1> QED
  BY <1>1, <1>2, <1>3, SafetyInvariant, PTL DEF Spec

-----------------------------------------------------------------------------
(* Keys and acknowledgements.                                               *)

(* The faults that Undisturbed excludes do not happen.                      *)
LEMMA NoDisturbance ==
    ASSUME Undisturbed
    PROVE  ~Fault("redis") /\ ~Fault("reply") /\ ~Fault("cancel") /\ ~Fault("crash")
BY DEF Undisturbed, Fault

(* A handler that owns a key keeps it, or ends what the key stood for.      *)
LEMMA KeyStep ==
    ASSUME Undisturbed, SafetyInv, KeyInv, [Next]_vars
    PROVE  KeyInv'
<1> USE NoDisturbance DEF Owning, TxPCs, checkoutVars, dbVars, redisVars, handlerVars,
        stripeVars, Goto, Finish, Works, Fails
<1>0. /\ \A w \in Workers : live[w] /\ (pc[w] # "idle" => job[w] \in Intents)
      /\ pc \in [Workers -> PCs] /\ job \in [Workers -> Intents \cup {NoIntent}]
      /\ live \in [Workers -> BOOLEAN] /\ idem \in [Intents -> {"none", "processing", "done"}]
  BY DEF KeyInv, SafetyInv, TypeOK, WellFormed
<1>1. ASSUME UNCHANGED <<pc, job, live>>, \A i \in Intents : idem'[i] \in {idem[i], "none"}
      PROVE  KeyInv'
  BY <1>1 DEF KeyInv
<1>2. ASSUME NEW i \in Intents, CheckoutStep(i) \/ Pay(i) \/ ExpireKey(i) PROVE KeyInv'
  BY <1>0, <1>1, <1>2 DEF CheckoutStep, CheckoutStart, CheckoutHeld, CreateIntent, InsertPurchase,
     CheckoutError, Pay, ExpireKey
<1>3. ASSUME NEW w \in Workers, NEW i \in Intents, Deliver(w, i) PROVE KeyInv'
  BY <1>0, <1>3 DEF Deliver, KeyInv
<1>4. ASSUME NEW w \in Workers, Acquire(w) PROVE KeyInv'
  <2>1. CASE /\ idem' = [idem EXCEPT ![job[w]] = "processing"]
             /\ pc' = [pc EXCEPT ![w] = "begin"]
    BY <1>0, <1>4, <2>1 DEF Acquire, KeyInv
  <2>2. CASE UNCHANGED idem /\ pc' = [pc EXCEPT ![w] = "respond"]
    BY <1>0, <1>4, <2>2 DEF Acquire, KeyInv
  <2> QED
    BY <1>0, <1>4, <2>1, <2>2 DEF Acquire
<1>5. ASSUME NEW w \in Workers, pc[w] \in Owning, NEW there \in Owning,
             pc' = [pc EXCEPT ![w] = there], UNCHANGED <<idem, job, live>>
      PROVE  KeyInv'
  BY <1>0, <1>5 DEF KeyInv
<1>6. ASSUME NEW w \in Workers,
             \/ Begin(w) \/ LockPurchase(w) \/ LockTier(w) \/ CommitSale(w)
             \/ CommitSoldOut(w) \/ CommitUnknown(w) \/ TxError(w) \/ Invalidate(w)
      PROVE  KeyInv'
  BY <1>5, <1>6 DEF Begin, LockPurchase, LockTier, CommitSale, CommitSoldOut, CommitUnknown,
     TxError, Invalidate
<1>7. ASSUME NEW w \in Workers, NEW there, NEW x \in {"none", "done"},
             pc' = [pc EXCEPT ![w] = there], UNCHANGED <<job, live>>,
             idem' = [idem EXCEPT ![job[w]] = x], pc[w] # "idle"
      PROVE  KeyInv'
  BY <1>0, <1>7 DEF KeyInv
<1>8. ASSUME NEW w \in Workers, MarkDone(w) \/ Release(w) PROVE KeyInv'
  BY <1>0, <1>7, <1>8 DEF MarkDone, Release
<1>9. ASSUME NEW w \in Workers, IssueForPurchase(w) \/ PublishPurchase(w) PROVE KeyInv'
  BY <1>0, <1>9 DEF IssueForPurchase, PublishPurchase, KeyInv
<1>10. ASSUME NEW w \in Workers, Respond(w) PROVE KeyInv'
  BY <1>0, <1>10 DEF Respond, HandlersIdle, KeyInv
<1>11. ASSUME NEW w \in Workers, Cancel(w) PROVE FALSE
  BY <1>11 DEF Cancel
<1>12. ASSUME NEW W \in SUBSET Workers, Crash(W) PROVE FALSE
  BY <1>12 DEF Crash
<1>13. CASE UNCHANGED vars
  BY <1>1, <1>13 DEF vars
<1> QED
  BY <1>2, <1>3, <1>4, <1>6, <1>8, <1>9, <1>10, <1>11, <1>12, <1>13 DEF Next, HandlerStep

LEMMA KeyInit == Init => KeyInv
BY DEF Init, KeyInv

(* The comment on release, "so that a failed attempt can be retried": as    *)
(* long as Redis is reachable and handlers run to their end, a processing   *)
(* key of an unsettled purchase belongs to a running handler, duplicates,   *)
(* expired keys, failing transactions and lost commits included.            *)
THEOREM KeysOwned ==
    ASSUME Undisturbed
    PROVE  Spec => []KeyHasOwner
<1>1. KeyInv => KeyHasOwner
  BY DEF KeyInv, KeyHasOwner, Handling
<1>2. SafetyInv /\ KeyInv /\ [Next]_vars => KeyInv'
  BY KeyStep
<1> QED
  BY <1>1, <1>2, KeyInit, SafetyInvariant, PTL DEF Spec

(* A settled purchase stays settled, so what the other handlers report of   *)
(* theirs stays true.                                                       *)
LEMMA SettledStays ==
    ASSUME SafetyInv, [Next]_vars, NEW i \in Intents
    PROVE  /\ status[i] \in Settled => status'[i] \in Settled
           /\ status[i] = "completed" => status'[i] = "completed"
BY SettlementStep DEF Settled

(* No handler starts, and handler w, if any, moves to `there': it keeps a   *)
(* true outcome or records one, and completes the key of a completed sale.  *)
LEMMA AckMove ==
    ASSUME SafetyInv, AckInv, KeyInv', [Next]_vars, UNCHANGED <<job, acked>>,
           NEW w \in Workers, job[w] \in Intents,
           \A v \in Workers \ {w} : pc'[v] = pc[v] /\ res'[v] = res[v],
           pc'[w] \in {"invalidate", "markDone"} => status'[job[w]] = "completed",
           res'[w] \in Accepted => status'[job[w]] \in Settled,
           \A i \in Intents : idem'[i] = "done" => idem[i] = "done" \/ status[i] = "completed"
    PROVE  AckInv'
<1>1. \A v \in Workers : /\ job[v] \in Intents \cup {NoIntent}
                         /\ job[v] = NoIntent => pc[v] = "idle" /\ res[v] = "none"
  BY DEF SafetyInv, TypeOK, WellFormed, CreatedOnce
<1>2. acked \subseteq Intents
  BY DEF SafetyInv, TypeOK
<1>3. \A v \in Workers \ {w} :
          /\ pc'[v] \in {"invalidate", "markDone"} => status'[job[v]] = "completed"
          /\ res'[v] \in Accepted => status'[job[v]] \in Settled
  BY <1>1, SettledStays DEF AckInv, Accepted
<1>4. AckedSettled'
  BY <1>2, SettledStays DEF AckInv, AckedSettled
<1>5. \A i \in Intents : idem'[i] = "done" => status'[i] = "completed"
  BY SettledStays DEF AckInv
<1> QED
  BY <1>3, <1>4, <1>5 DEF AckInv

LEMMA AckStep ==
    ASSUME Undisturbed, "dup" \notin Environment, SafetyInv, AckInv, [Next]_vars
    PROVE  AckInv'
<1> USE NoDisturbance DEF checkoutVars, dbVars, redisVars, handlerVars, stripeVars, Goto,
        Finish, Works, Fails
<1>0. /\ \A w \in Workers : live[w] /\ (pc[w] # "idle" => job[w] \in Intents)
      /\ pc \in [Workers -> PCs] /\ job \in [Workers -> Intents \cup {NoIntent}]
      /\ res \in [Workers -> Outcomes] /\ acked \subseteq Intents
      /\ idem \in [Intents -> {"none", "processing", "done"}]
      /\ status \in [Intents -> Statuses]
  BY DEF AckInv, KeyInv, SafetyInv, TypeOK, WellFormed
<1>a. \A w \in Workers : job[w] = NoIntent => pc[w] = "idle" /\ res[w] = "none"
  BY DEF SafetyInv, WellFormed, CreatedOnce
<1>k. KeyInv'
  BY KeyStep DEF AckInv
<1>1. ASSUME UNCHANGED <<pc, job, res, acked>>, \A i \in Intents : idem'[i] \in {idem[i], "none"}
      PROVE  AckInv'
  <2>1. \A i \in Intents : idem'[i] = "done" => status'[i] = "completed"
    BY <1>1, SettledStays DEF AckInv
  <2>2. \A v \in Workers :
           /\ pc'[v] \in {"invalidate", "markDone"} => status'[job[v]] = "completed"
           /\ res'[v] \in Accepted => status'[job[v]] \in Settled
    BY <1>0, <1>a, <1>1, SettledStays DEF AckInv, Accepted
  <2>3. AckedSettled'
    BY <1>0, <1>1, SettledStays DEF AckInv, AckedSettled
  <2> QED
    BY <1>k, <1>1, <2>1, <2>2, <2>3 DEF AckInv
<1>2. ASSUME NEW i \in Intents, CheckoutStep(i) \/ Pay(i) \/ ExpireKey(i) PROVE AckInv'
  BY <1>0, <1>1, <1>2 DEF CheckoutStep, CheckoutStart, CheckoutHeld, CreateIntent, InsertPurchase,
     CheckoutError, Pay, ExpireKey
<1>3. ASSUME NEW w \in Workers, NEW i \in Intents, Deliver(w, i) PROVE AckInv'
  <2>1. \A v \in Workers : job[v] # i
    BY <1>3 DEF Deliver, Handling
  <2>2. res[w] = "none" /\ UNCHANGED <<res, status, idem, acked>>
    BY <1>3 DEF Deliver, SafetyInv, CreatedOnce
  <2>3. \A v \in Workers : IF v = w THEN job'[v] = i /\ pc'[v] = "acquire"
                                    ELSE job'[v] = job[v] /\ pc'[v] = pc[v]
    BY <1>0, <1>3 DEF Deliver
  <2> QED
    BY <1>k, <2>1, <2>2, <2>3 DEF AckInv, AckedSettled, Accepted
<1>4. ASSUME NEW w \in Workers, Acquire(w) PROVE AckInv'
  <2>1. job[w] \in Intents /\ pc[w] = "acquire" /\ UNCHANGED <<status, job, acked>>
    BY <1>0, <1>4 DEF Acquire
  <2>2. idem[job[w]] # "processing"
    <3> SUFFICES ASSUME idem[job[w]] = "processing" PROVE FALSE
      OBVIOUS
    <3>1. PICK v \in Workers : pc[v] \in Owning /\ job[v] = job[w]
      BY <2>1 DEF AckInv, KeyInv
    <3>2. v # w
      BY <2>1, <3>1 DEF Owning, TxPCs
    <3> QED
      BY <2>1, <3>1, <3>2, ConstAssumption DEF AckInv
  <2>3. CASE idem[job[w]] = "none" /\ idem' = [idem EXCEPT ![job[w]] = "processing"]
             /\ pc' = [pc EXCEPT ![w] = "begin"] /\ UNCHANGED res
    BY <1>0, <1>k, <2>1, <2>3, AckMove DEF AckInv
  <2>4. CASE idem[job[w]] = "done" /\ UNCHANGED idem
             /\ pc' = [pc EXCEPT ![w] = "respond"] /\ res' = [res EXCEPT ![w] = "alreadyDone"]
    <3>1. status'[job[w]] \in Settled
      BY <2>1, <2>4 DEF AckInv, Settled
    <3> QED
      BY <1>0, <1>k, <2>1, <2>4, <3>1, AckMove
  <2> QED
    BY <1>0, <1>4, <2>1, <2>2, <2>3, <2>4 DEF Acquire
<1>5. ASSUME NEW w \in Workers, pc[w] # "idle", NEW there \in PCs \ {"invalidate", "markDone"},
             pc' = [pc EXCEPT ![w] = there], UNCHANGED <<idem, job, acked>>,
             \/ UNCHANGED res
             \/ \E o \in Outcomes \ Accepted : res' = [res EXCEPT ![w] = o]
      PROVE  AckInv'
  <2>1. res'[w] \in Accepted => status'[job[w]] \in Settled
    BY <1>0, <1>5, SettledStays DEF AckInv
  <2> QED
    BY <1>0, <1>k, <1>5, <2>1, AckMove
<1>6. ASSUME NEW w \in Workers, 
             \/ Begin(w) \/ LockTier(w) \/ CommitUnknown(w) \/ TxError(w)
             \/ IssueForPurchase(w) \/ PublishPurchase(w)
      PROVE  AckInv'
  <2> USE DEF PCs, TxPCs, Outcomes, Accepted
  <2>1. CASE Begin(w)
    BY <1>5, <2>1 DEF Begin
  <2>2. CASE LockTier(w)
    BY <1>5, <2>2 DEF LockTier
  <2>3. CASE CommitUnknown(w)
    BY <1>5, <2>3 DEF CommitUnknown
  <2>4. CASE TxError(w)
    BY <1>5, <2>4 DEF TxError
  <2>5. CASE IssueForPurchase(w)
    BY <1>5, <2>5 DEF IssueForPurchase
  <2>6. CASE PublishPurchase(w)
    BY <1>5, <2>6 DEF PublishPurchase
  <2> QED
    BY <1>6, <2>1, <2>2, <2>3, <2>4, <2>5, <2>6
<1>7. ASSUME NEW w \in Workers, LockPurchase(w) PROVE AckInv'
  <2>1. job[w] \in Intents /\ UNCHANGED <<status, idem, job, acked>>
    BY <1>0, <1>7 DEF LockPurchase
  <2>2. CASE status[job[w]] = "completed" /\ pc' = [pc EXCEPT ![w] = "markDone"]
             /\ res' = [res EXCEPT ![w] = "alreadyDone"]
    BY <1>0, <1>k, <2>1, <2>2, AckMove DEF Settled
  <2>3. CASE pc' = [pc EXCEPT ![w] = "release"] /\ res' = [res EXCEPT ![w] = "notFound"]
    BY <1>5, <1>7, <2>1, <2>3 DEF LockPurchase, PCs, Outcomes, Accepted
  <2>4. CASE pc' = [pc EXCEPT ![w] = "lockTier"] /\ UNCHANGED res
    BY <1>5, <1>7, <2>1, <2>4 DEF LockPurchase, PCs, TxPCs
  <2> QED
    BY <1>7, <2>2, <2>3, <2>4 DEF LockPurchase
<1>8. ASSUME NEW w \in Workers, CommitSale(w) \/ CommitSoldOut(w) PROVE AckInv'
  <2>1. job[w] \in Intents /\ UNCHANGED <<idem, job, acked>>
    BY <1>0, <1>8 DEF CommitSale, CommitSoldOut
  <2>2. CASE CommitSale(w)
    <3>1. status'[job[w]] = "completed"
      BY <1>0, <2>1, <2>2 DEF CommitSale, Sell
    <3> QED
      BY <1>0, <1>k, <2>1, <2>2, <3>1, AckMove DEF CommitSale, Settled
  <2>3. CASE CommitSoldOut(w)
    <3>1. status'[job[w]] = "failed"
      BY <1>0, <2>1, <2>3 DEF CommitSoldOut, Refuse
    <3> QED
      BY <1>0, <1>k, <2>1, <2>3, <3>1, AckMove DEF CommitSoldOut, Settled
  <2> QED
    BY <1>8, <2>2, <2>3
<1>9. ASSUME NEW w \in Workers, Invalidate(w) \/ MarkDone(w) \/ Release(w) PROVE AckInv'
  <2>1. job[w] \in Intents /\ UNCHANGED <<status, job, acked, res>>
    BY <1>0, <1>9 DEF Invalidate, MarkDone, Release
  <2>2. res'[w] \in Accepted => status'[job[w]] \in Settled
    BY <2>1 DEF AckInv
  <2>3. CASE Invalidate(w)
    <3>1. status'[job[w]] = "completed"
      BY <2>1, <2>3 DEF Invalidate, AckInv
    <3> QED
      BY <1>0, <1>k, <2>1, <2>2, <2>3, <3>1, AckMove DEF Invalidate
  <2>4. CASE MarkDone(w)
    <3>1. status[job[w]] = "completed"
      BY <2>4 DEF MarkDone, AckInv
    <3> QED
      BY <1>0, <1>k, <2>1, <2>2, <2>4, <3>1, AckMove DEF MarkDone
  <2>5. CASE Release(w)
    BY <1>0, <1>k, <2>1, <2>2, <2>5, AckMove DEF Release
  <2> QED
    BY <1>9, <2>3, <2>4, <2>5
<1>10. ASSUME NEW w \in Workers, Respond(w) PROVE AckInv'
  <2>1. job[w] \in Intents /\ UNCHANGED <<status, idem>>
    BY <1>0, <1>10 DEF Respond
  <2>2. \A v \in Workers : IF v = w THEN job'[v] = NoIntent /\ pc'[v] = "idle" /\ res'[v] = "none"
                                    ELSE job'[v] = job[v] /\ pc'[v] = pc[v] /\ res'[v] = res[v]
    BY <1>10 DEF Respond, HandlersIdle
  <2>3. AckedSettled'
    BY <1>10, <2>1 DEF Respond, AckInv, AckedSettled
  <2> QED
    BY <1>k, <2>1, <2>2, <2>3 DEF AckInv, Accepted
<1>11. ASSUME NEW w \in Workers, Cancel(w) PROVE FALSE
  BY <1>11 DEF Cancel
<1>12. ASSUME NEW W \in SUBSET Workers, Crash(W) PROVE FALSE
  BY <1>12 DEF Crash
<1>13. CASE UNCHANGED vars
  BY <1>1, <1>13 DEF vars
<1> QED
  BY <1>2, <1>3, <1>4, <1>6, <1>7, <1>8, <1>9, <1>10, <1>11, <1>12, <1>13 DEF Next, HandlerStep

LEMMA AckInit == Init => AckInv
<1> SUFFICES ASSUME Init PROVE AckInv
  OBVIOUS
<1> QED
  BY KeyInit DEF Init, AckInv, AckedSettled, Accepted

(* What a 2xx tells Stripe: when in addition deliveries of an intent do not *)
(* overlap, an acknowledged purchase is settled, whatever transactions,     *)
(* commits and responses fail and whenever keys expire.                     *)
THEOREM AcksAreTrue ==
    ASSUME Undisturbed, "dup" \notin Environment
    PROVE  Spec => []AckedSettled
<1>1. AckInv => AckedSettled
  BY DEF AckInv
<1>2. SafetyInv /\ AckInv /\ [Next]_vars => AckInv'
  BY AckStep
<1> QED
  BY <1>1, <1>2, AckInit, SafetyInvariant, PTL DEF Spec

-----------------------------------------------------------------------------
(* The protocol implements the abstract sale.                               *)

demandBar == [i \in Intents |-> [tier |-> order[i].tier,
                                 quantity |-> Normal(order[i].quantity)]]
ownedBar == [i \in Intents |-> Cardinality(TicketsOf(i))]
remainingBar == [t \in Tiers |-> Capacity[t] - sold[t]]

LEMMA SaleInitMaps == Init => Sale!SaleInit
<1> SUFFICES ASSUME Init PROVE Sale!SaleInit
  OBVIOUS
<1>1. demandBar \in [Intents -> [tier : Tiers, quantity : Nat \ {0}]]
  BY NormalPositive, ConstAssumption DEF Init, demandBar
<1>2. ownedBar = [i \in Intents |-> 0]
  <2>1. \A i \in Intents : TicketsOf(i) = {}
    BY DEF Init, TicketsOf
  <2> QED
    BY <2>1, FS_EmptySet DEF ownedBar
<1>3. remainingBar = Capacity
  BY ConstAssumption DEF Init, remainingBar
<1> QED
  BY <1>1, <1>2, <1>3 DEF Sale!SaleInit, Init, demandBar, ownedBar, remainingBar

LEMMA SaleStepMaps ==
    ASSUME SafetyInv, [Next]_vars
    PROVE  [Sale!SaleNext]_(Sale!svars)
<1>0. TypeInv /\ LocksProtect /\ SaleInv
  BY DEF SafetyInv, TypeInv, SaleInv
<1>a. /\ status \in [Intents -> Statuses] /\ order \in [Intents -> Orders]
      /\ sold \in [Tiers -> Nat] /\ Capacity \in [Tiers -> Nat]
  BY <1>0, ConstAssumption DEF TypeInv, TypeOK
<1>1. ASSUME UNCHANGED <<order, status, tickets, sold>> PROVE UNCHANGED Sale!svars
  BY <1>1 DEF Sale!svars, TicketsOf
<1>2. ASSUME NEW i \in Intents, CheckoutEffect(i) PROVE Sale!Open(i) \/ UNCHANGED Sale!svars
  <2>1. demandBar' = demandBar
    <3>1. \A q \in Int : Normal(Normal(q)) = Normal(q)
      BY DEF Normal
    <3>2. \A j \in Intents : /\ order'[j].tier = order[j].tier
                             /\ Normal(order'[j].quantity) = Normal(order[j].quantity)
      BY <1>a, <1>2, <3>1 DEF CheckoutEffect, Orders
    <3> QED
      BY <3>2 DEF demandBar
  <2>2. ownedBar' = ownedBar /\ remainingBar' = remainingBar
    BY <1>2 DEF CheckoutEffect, ownedBar, remainingBar, TicketsOf
  <2> QED
    BY <1>2, <2>1, <2>2 DEF CheckoutEffect, Sale!Open, Sale!svars, demandBar, ownedBar,
       remainingBar
<1>3. ASSUME NEW w \in Workers, CommitEffect(w), NEW i \in Intents, i = job[w]
      PROVE  Sale!Complete(i) \/ Sale!Refuse(i) \/ UNCHANGED Sale!svars
  <2> DEFINE o == order[i]
  <2>1. UNCHANGED order
    BY <1>3 DEF CommitEffect
  <2>2. o.tier \in Tiers /\ o.quantity \in Nat \ {0} /\ Normal(o.quantity) = o.quantity
    <3>1. status[i] # "none"
      BY <1>0, <1>3, CommitSettles
    <3>2. o.tier \in Tiers /\ o.quantity \in Int /\ o.quantity > 0
      BY <1>0, <2>1, <3>1 DEF TypeInv, TypeOK, WellFormed, Orders
    <3> QED
      BY <3>2 DEF Normal
  <2>3. demandBar' = demandBar /\ demandBar[i] = [tier |-> o.tier, quantity |-> o.quantity]
    BY <2>1, <2>2 DEF demandBar
  <2>4. remainingBar[o.tier] = Capacity[o.tier] - sold[o.tier]
    BY <2>2 DEF remainingBar
  <2>5. CASE pc[w] = "mint" /\ status[i] = "pending" /\ Sell(i)
    <3>1. ownedBar' = [ownedBar EXCEPT ![i] = o.quantity]
      <4>1. /\ Cardinality(TicketsOf(i)') = o.quantity
            /\ \A j \in Intents \ {i} : TicketsOf(j)' = TicketsOf(j)
        BY <1>0, <2>1, <2>5, SellCounts
      <4> QED
        BY <2>1, <4>1 DEF ownedBar
    <3>2. sold' = [sold EXCEPT ![o.tier] = sold[o.tier] + o.quantity]
          /\ status' = [status EXCEPT ![i] = "completed"]
      BY <2>5 DEF Sell
    <3>3. remainingBar' = [remainingBar EXCEPT ![o.tier] = remainingBar[o.tier] - o.quantity]
      BY <1>a, <2>2, <3>2 DEF remainingBar
    <3>4. o.quantity <= remainingBar[o.tier]
      <4>1. sold[o.tier] + o.quantity <= Capacity[o.tier]
        BY <1>0, <1>3, <2>5 DEF LocksProtect
      <4> QED
        BY <1>a, <2>2, <2>4, <4>1
    <3>5. Sale!Complete(i)
      BY <2>1, <2>3, <2>5, <3>1, <3>2, <3>3, <3>4
      DEF Sale!Complete, demandBar, ownedBar, remainingBar
    <3> QED
      BY <3>5
  <2>6. CASE pc[w] = "soldOut" /\ status[i] \in {"pending", "failed"} /\ Refuse(i)
    <3>1. /\ status' = [status EXCEPT ![i] = "failed"]
          /\ ownedBar' = ownedBar /\ remainingBar' = remainingBar
      BY <2>6 DEF Refuse, ownedBar, remainingBar, TicketsOf
    <3>2. CASE status[i] = "failed"
      <4>1. status' = status
        BY <1>a, <2>1, <3>1, <3>2
      <4> QED
        BY <2>3, <3>1, <4>1 DEF Sale!svars, demandBar, ownedBar, remainingBar
    <3>3. CASE status[i] = "pending"
      <4>1. sold[o.tier] + o.quantity > Capacity[o.tier]
        BY <1>0, <1>3, <2>6 DEF LocksProtect
      <4>2. o.quantity > remainingBar[o.tier]
        BY <1>a, <2>2, <2>4, <4>1
      <4>3. Sale!Refuse(i)
        BY <2>1, <2>3, <3>1, <3>3, <4>2
        DEF Sale!Refuse, demandBar, ownedBar, remainingBar
      <4> QED
        BY <4>3
    <3> QED
      BY <2>6, <3>2, <3>3
  <2> QED
    BY <1>0, <1>3, <2>5, <2>6, CommitSettles
<1>4. ASSUME NEW w \in Workers, LockPurchase(w) \/ LockTier(w)
      PROVE  UNCHANGED <<order, status, tickets, sold>>
  BY <1>4 DEF LockPurchase, LockTier, checkoutVars, dbVars
<1>5. \A w \in Workers : CommitEffect(w) => job[w] \in Intents
  BY <1>0, CommitSettles
<1>6. CASE Quiet
  BY <1>1, <1>6 DEF Quiet
<1>7. CASE \E i \in Intents : CheckoutEffect(i)
  BY <1>2, <1>7 DEF Sale!SaleNext
<1>8. CASE \E w \in Workers : LockPurchase(w) \/ LockTier(w)
  BY <1>1, <1>4, <1>8
<1>9. CASE \E w \in Workers : CommitEffect(w)
  BY <1>3, <1>5, <1>9 DEF Sale!SaleNext
<1> QED
  BY <1>0, <1>6, <1>7, <1>8, <1>9, StepKinds

(* The webhook protocol with all its interleavings, retries and failures    *)
(* implements the abstract sale, in which one atomic step settles an order. *)
THEOREM RefinesSale == Spec => ImplementsSale
<1>1. SafetyInv /\ [Next]_vars => [Sale!SaleNext]_(Sale!svars)
  BY SaleStepMaps
<1> QED
  BY <1>1, SaleInitMaps, SafetyInvariant, PTL DEF Spec, ImplementsSale, Sale!SaleSpec
-----------------------------------------------------------------------------
(* The cached inventory.                                                    *)

(* No step of the payment protocol lowers a sold count, and the only thing  *)
(* it does to a cached count is to delete it.                               *)
LEMMA SoldGrows ==
    ASSUME SafetyInv, [Next]_vars
    PROVE  \A t \in Tiers : sold[t] <= sold'[t]
<1>0. TypeInv /\ LocksProtect /\ SaleInv /\ sold \in [Tiers -> Nat] /\ order \in [Intents -> Orders]
  BY DEF SafetyInv, TypeInv, SaleInv, TypeOK
<1>1. CASE UNCHANGED sold
  BY <1>0, <1>1
<1>2. ASSUME NEW w \in Workers, CommitEffect(w) PROVE \A t \in Tiers : sold[t] <= sold'[t]
  <2>1. job[w] \in Intents /\ (Sell(job[w]) \/ UNCHANGED sold) /\ status[job[w]] # "none"
    BY <1>0, <1>2, CommitSettles DEF Refuse
  <2>2. order[job[w]].quantity \in Nat
    BY <1>0, <2>1 DEF TypeInv, WellFormed, Orders
  <2> QED
    BY <1>0, <1>1, <2>1, <2>2 DEF Sell
<1>3. ASSUME NEW w \in Workers, LockPurchase(w) \/ LockTier(w) PROVE UNCHANGED sold
  BY <1>3 DEF LockPurchase, LockTier, dbVars
<1> QED
  BY <1>0, <1>1, <1>2, <1>3, StepKinds DEF Quiet, CheckoutEffect

LEMMA PaymentOnlyInvalidates ==
    ASSUME SafetyInv, [Next]_vars
    PROVE  \A t \in Tiers : cache'[t] = cache[t] \/ cache'[t] = NoEntry
<1>0. cache \in [Tiers -> Nat \cup {NoEntry}]
  BY DEF SafetyInv, TypeOK
<1>1. CASE UNCHANGED cache
  BY <1>1
<1>2. ASSUME NEW w \in Workers, Invalidate(w)
      PROVE  \A t \in Tiers : cache'[t] = cache[t] \/ cache'[t] = NoEntry
  BY <1>0, <1>2 DEF Invalidate
<1>3. ASSUME NEW i \in Intents, CheckoutStep(i) \/ Pay(i) \/ ExpireKey(i) PROVE UNCHANGED cache
  BY <1>3 DEF CheckoutStep, CheckoutStart, CheckoutHeld, CreateIntent, InsertPurchase,
     CheckoutError, Pay, ExpireKey, redisVars
<1>4. ASSUME NEW w \in Workers, Cancel(w) \/ \E i \in Intents : Deliver(w, i) PROVE UNCHANGED cache
  BY <1>4 DEF Cancel, Deliver, redisVars
<1>5. ASSUME NEW w \in Workers, HandlerStep(w), ~Invalidate(w) PROVE UNCHANGED cache
  BY <1>5 DEF HandlerStep, Acquire, Begin, LockPurchase, LockTier, CommitSale, CommitSoldOut,
     CommitUnknown, TxError, MarkDone, IssueForPurchase, PublishPurchase, Release, Respond,
     redisVars
<1>6. ASSUME NEW W \in SUBSET Workers, Crash(W) PROVE UNCHANGED cache
  BY <1>6 DEF Crash, redisVars
<1>7. CASE UNCHANGED vars
  BY <1>1, <1>7 DEF vars, redisVars
<1> QED
  BY <1>1, <1>2, <1>3, <1>4, <1>5, <1>6, <1>7 DEF Next

(* What remains, in a reachable state.                                      *)
LEMMA RemainingExact ==
    ASSUME SafetyInv
    PROVE  \A t \in Tiers : /\ sold[t] \in Nat /\ Capacity[t] \in Nat
                            /\ sold[t] <= Capacity[t]
                            /\ Remaining(t) = Capacity[t] - sold[t]
                            /\ Remaining(t) \in Nat /\ Remaining(t) <= Capacity[t]
BY ConstAssumption DEF SafetyInv, TypeOK, NoOversell, Remaining

(* A step of a reader leaves every variable of the protocol alone but the   *)
(* cache, whose new entries are counts.                                     *)
LEMMA ReadersHarmless ==
    ASSUME SafetyInv, PaymentUnchanged, faults' \in 0 .. MaxFaults,
           cache' \in [Tiers -> Nat \cup {NoEntry}]
    PROVE  SafetyInv' /\ \A t \in Tiers : Remaining(t)' = Remaining(t)
<1> USE DEF PaymentUnchanged, checkoutVars, dbVars, handlerVars, stripeVars
<1>1. TypeOK' /\ WellFormed'
  BY DEF SafetyInv, TypeOK, WellFormed
<1>2. LocksProtect'
  BY DEF SafetyInv, LocksProtect
<1>3. NoOversell' /\ MintedExactlyOnce' /\ RefusedOnlyWhenFull'
  BY DEF SafetyInv, NoOversell, MintedExactlyOnce, RefusedOnlyWhenFull, TicketsOf, TicketsIn
<1>4. CreatedOnce' /\ PublishedOnce'
  BY DEF SafetyInv, CreatedOnce, PublishedOnce
<1>5. \A t \in Tiers : Remaining(t)' = Remaining(t)
  BY DEF Remaining
<1> QED
  BY <1>1, <1>2, <1>3, <1>4, <1>5 DEF SafetyInv

LEMMA CacheStep == CacheInv /\ [InventoryNext]_ivars => CacheInv'
<1> SUFFICES ASSUME CacheInv, [InventoryNext]_ivars PROVE CacheInv'
  OBVIOUS
<1>0. /\ SafetyInv /\ CacheCommitted
      /\ rpc \in [Readers -> {"idle", "select", "set"}]
      /\ asked \in [Readers -> Tiers]
      /\ count \in [Readers -> Nat \cup {NoEntry}]
      /\ cache \in [Tiers -> Nat \cup {NoEntry}]
      /\ faults \in 0 .. MaxFaults
  BY DEF CacheInv, SafetyInv, TypeOK
<1>a. NoEntry \notin Nat
  BY DEF NoEntry
<1>f. ASSUME NEW kind, Fault(kind) PROVE faults' \in 0 .. MaxFaults
  BY <1>0, <1>f, FaultType DEF SafetyInv
<1>1. CASE [Next]_vars /\ UNCHANGED readerVars
  <2>1. SafetyInv'
    BY <1>0, <1>1, SafetyStep
  <2>2. \A t \in Tiers : Remaining(t)' <= Remaining(t) /\ Remaining(t)' \in Nat /\ Remaining(t) \in Nat
    <3>1. \A t \in Tiers : /\ sold'[t] \in Nat /\ Capacity[t] \in Nat
                           /\ Remaining(t)' = Capacity[t] - sold'[t] /\ Remaining(t)' \in Nat
      BY <2>1, ConstAssumption DEF SafetyInv, TypeOK, NoOversell, Remaining
    <3> QED
      BY <1>0, <1>1, <3>1, SoldGrows, RemainingExact
  <2>3. \A t \in Tiers : cache'[t] # NoEntry => cache'[t] \in Remaining(t)' .. Capacity[t]
    <3>1. \A t \in Tiers : cache'[t] = cache[t] \/ cache'[t] = NoEntry
      BY <1>0, <1>1, PaymentOnlyInvalidates
    <3> QED
      BY <1>0, <2>2, <3>1, ConstAssumption DEF CacheCommitted
  <2>4. UNCHANGED <<rpc, asked, count>>
    BY <1>1 DEF readerVars
  <2>5. \A r \in Readers : rpc'[r] = "set" =>
            count'[r] \in Remaining(asked[r])' .. Capacity[asked'[r]]
    <3> SUFFICES ASSUME NEW r \in Readers, rpc[r] = "set"
                 PROVE  count[r] \in Remaining(asked[r])' .. Capacity[asked[r]]
      BY <2>4
    <3> DEFINE t == asked[r]
    <3>1. t \in Tiers /\ count[r] \in Remaining(t) .. Capacity[t] /\ Capacity[t] \in Nat
      BY <1>0, ConstAssumption DEF CacheCommitted
    <3>2. t' = t
      BY <2>4
    <3>3. Remaining(t)' <= Remaining(t) /\ Remaining(t)' \in Nat /\ Remaining(t) \in Nat
      BY <2>2, <2>4, <3>1, <3>2 DEF Remaining
    <3> QED
      BY <2>4, <3>1, <3>2, <3>3
  <2>6. CacheCommitted'
    BY <2>3, <2>5 DEF CacheCommitted, Remaining
  <2> QED
    BY <1>0, <2>1, <2>4, <2>6 DEF CacheInv
<1>2. ASSUME NEW r \in Readers, NEW t \in Tiers, Get(r, t) PROVE CacheInv'
  <2>1. faults' \in 0 .. MaxFaults /\ UNCHANGED cache /\ PaymentUnchanged
    BY <1>0, <1>2, <1>f DEF Get
  <2>2. SafetyInv' /\ \A u \in Tiers : Remaining(u)' = Remaining(u)
    BY <1>0, <2>1, ReadersHarmless
  <2>3. /\ rpc' \in [Readers -> {"idle", "select", "set"}] /\ asked' \in [Readers -> Tiers]
        /\ count' \in [Readers -> Nat \cup {NoEntry}]
        /\ rpc'[r] # "set"
        /\ \A s \in Readers \ {r} : rpc'[s] = rpc[s] /\ asked'[s] = asked[s] /\ count'[s] = count[s]
    BY <1>0, <1>2 DEF Get, ReaderGoto
  <2> QED
    BY <1>0, <2>1, <2>2, <2>3 DEF CacheInv, CacheCommitted
<1>3. ASSUME NEW r \in Readers, Select(r) PROVE CacheInv'
  <2>1. faults' \in 0 .. MaxFaults /\ UNCHANGED <<asked, cache>> /\ PaymentUnchanged
    BY <1>0, <1>3, <1>f DEF Select
  <2>2. SafetyInv' /\ \A u \in Tiers : Remaining(u)' = Remaining(u)
    BY <1>0, <2>1, ReadersHarmless
  <2>3. Remaining(asked[r]) \in Nat /\ Remaining(asked[r]) \in Remaining(asked[r]) .. Capacity[asked[r]]
    BY <1>0, RemainingExact
  <2>4. /\ rpc' \in [Readers -> {"idle", "select", "set"}]
        /\ count' \in [Readers -> Nat \cup {NoEntry}]
        /\ rpc'[r] = "set" => count'[r] = Remaining(asked[r])
        /\ \A s \in Readers \ {r} : rpc'[s] = rpc[s] /\ count'[s] = count[s]
    BY <1>0, <1>3, <2>3 DEF Select, ReaderGoto
  <2> QED
    BY <1>0, <2>1, <2>2, <2>3, <2>4 DEF CacheInv, CacheCommitted
<1>4. ASSUME NEW r \in Readers, Fill(r) PROVE CacheInv'
  <2>1. faults' \in 0 .. MaxFaults /\ UNCHANGED <<asked, count>> /\ PaymentUnchanged
    BY <1>0, <1>4, <1>f DEF Fill
  <2>2. /\ asked[r] \in Tiers
        /\ count[r] \in Remaining(asked[r]) .. Capacity[asked[r]]
        /\ Remaining(asked[r]) \in Nat /\ Capacity[asked[r]] \in Nat
    BY <1>0, <1>4, RemainingExact DEF Fill, CacheCommitted
  <2>3. count[r] \in Nat
    BY <2>2
  <2>4. cache' \in [Tiers -> Nat \cup {NoEntry}]
        /\ \A t \in Tiers : cache'[t] = cache[t] \/ (t = asked[r] /\ cache'[t] = count[r])
    BY <1>0, <1>4, <2>2, <2>3 DEF Fill
  <2>5. SafetyInv' /\ \A u \in Tiers : Remaining(u)' = Remaining(u)
    BY <1>0, <2>1, <2>4, ReadersHarmless
  <2>6. /\ rpc' \in [Readers -> {"idle", "select", "set"}]
        /\ \A s \in Readers : rpc'[s] = "set" => rpc[s] = "set"
    BY <1>0, <1>4 DEF Fill, ReaderGoto
  <2> QED
    BY <1>0, <2>1, <2>2, <2>4, <2>5, <2>6 DEF CacheInv, CacheCommitted
<1>5. ASSUME NEW t \in Tiers, ExpireCache(t) PROVE CacheInv'
  <2>1. cache' \in [Tiers -> Nat \cup {NoEntry}]
        /\ \A u \in Tiers : cache'[u] = cache[u] \/ cache'[u] = NoEntry
    BY <1>0, <1>5 DEF ExpireCache
  <2>2. SafetyInv' /\ \A u \in Tiers : Remaining(u)' = Remaining(u)
    BY <1>0, <1>5, <2>1, ReadersHarmless DEF ExpireCache
  <2>3. UNCHANGED <<rpc, asked, count>>
    BY <1>5 DEF ExpireCache, readerVars
  <2> QED
    BY <1>0, <2>1, <2>2, <2>3 DEF CacheInv, CacheCommitted
<1>6. CASE UNCHANGED ivars
  BY <1>1, <1>6 DEF ivars
<1> QED
  BY <1>1, <1>2, <1>3, <1>4, <1>5, <1>6 DEF InventoryNext, ReaderStep

LEMMA CacheInit == InventoryInit => CacheInv
<1> SUFFICES ASSUME InventoryInit PROVE CacheInv
  OBVIOUS
<1>1. SafetyInv
  BY SafetyInit DEF InventoryInit
<1>2. CacheCommitted
  BY DEF InventoryInit, Init, CacheCommitted
<1> QED
  BY <1>1, <1>2 DEF InventoryInit, CacheInv

(* "The cache never reflects uncommitted inventory": any number of readers  *)
(* racing sales and invalidations, with Redis failing at any point, cache   *)
(* and answer only counts that were committed.                              *)
THEOREM CacheOnlyCommitted == InventorySpec => []CacheCommitted
<1>1. CacheInv => CacheCommitted
  BY DEF CacheInv
<1> QED
  BY <1>1, CacheInit, CacheStep, PTL DEF InventorySpec

(* Readers and the cache do not disturb the sale: the safety invariant of   *)
(* the payment protocol holds beside them.                                  *)
THEOREM SafeBesideReaders == InventorySpec => []SafetyInv
<1>1. CacheInv => SafetyInv
  BY DEF CacheInv
<1> QED
  BY <1>1, CacheInit, CacheStep, PTL DEF InventorySpec
=============================================================================
