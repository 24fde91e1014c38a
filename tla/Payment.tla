------------------------------ MODULE Payment ------------------------------
(***************************************************************************)
(* Checkout and the idempotent Stripe webhook (internal/payment), with the *)
(* rows of Postgres and the keys of Redis that they share.                 *)
(*                                                                         *)
(* A checkout request reads the buyer's holdings, creates a payment intent *)
(* at the provider and inserts a pending purchase.  Stripe later delivers  *)
(* payment_intent.succeeded to a webhook handler, at least once; the       *)
(* handler claims a Redis key, then settles the purchase in one Postgres   *)
(* transaction under row locks, and finally runs its best-effort tail:     *)
(* cache invalidation, key update, QR issue, publish.  Every call of the   *)
(* handler to Postgres or Redis is one step, so handlers of the same and   *)
(* of different intents interleave between any two of them.                *)
(*                                                                         *)
(* An intent stands for the one checkout request that creates it: the      *)
(* provider returns a fresh id to every request.                           *)
(***************************************************************************)
EXTENDS Integers, FiniteSets

CONSTANTS
    Intents,        \* payment intents, one per checkout request
    NoIntent,       \* the job of an idle webhook handler
    Buyers,
    Tiers,
    Events,
    EventOf,        \* ticket_tiers.event_id
    Capacity,       \* ticket_tiers.capacity
    Quantities,     \* quantities that requests ask for; 0 when the field is absent
    PurchaseCap,    \* Service.purchaseCap
    Workers,        \* webhook handlers running concurrently, on any replica
    Conns,          \* MaxConns of the Postgres pool
    Price,          \* price_cents of the tiers
    GoMax,          \* the largest int, 2^63 - 1
    ColMax,         \* the largest INTEGER of a column, 2^31 - 1
    Environment,    \* what the environment may do in this instance, see below
    MaxFaults       \* bound on the faults of one behaviour

(***************************************************************************)
(* What the environment may do.  "early" and "dup" are ordinary Stripe     *)
(* behaviour, "ttl" is Redis dropping a key; the others are faults, each   *)
(* occurrence of which counts towards MaxFaults.                           *)
(***************************************************************************)
Behaviours ==
    { "early",         \* the payment succeeds before checkout has inserted its row
      "dup",           \* a second delivery while another runs, or after a 2xx
      "ttl",           \* an idempotency key expires or is evicted
      "checkout",      \* a call of the checkout request fails
      "redis",         \* a Redis command fails without effect
      "reply",         \* SETNX takes effect, its reply is lost, the client retries it
      "db",            \* a Postgres statement fails, its transaction rolls back
      "read",          \* the SELECT of package inventory fails
      "commit",        \* COMMIT takes effect but the handler sees an error
      "cancel",        \* a handler's request context is cancelled (timeout, disconnect)
      "crash",         \* the API process stops
      "lost" }         \* a webhook response does not reach Stripe

ASSUME ConstAssumption ==
    /\ NoIntent \notin Intents
    /\ EventOf \in [Tiers -> Events]
    /\ Capacity \in [Tiers -> Nat]
    /\ Quantities \subseteq Int
    /\ PurchaseCap \in Nat \ {0}
    /\ Conns \in Nat \ {0}
    /\ Environment \subseteq Behaviours
    /\ MaxFaults \in Nat

ASSUME WidthAssumption ==
    /\ {Price, GoMax, ColMax} \subseteq Nat
    /\ \A q \in Quantities : -(GoMax + 1) <= q /\ q <= GoMax

ASSUME FiniteAssumption == IsFiniteSet(Intents) /\ IsFiniteSet(Workers)

VARIABLES
    checkout,   \* where each checkout request is
    order,      \* its buyer, tier and quantity; the row's columns once inserted
    status,     \* purchases.status, "none" when the row does not exist
    tickets,    \* rows of table tickets
    sold,       \* ticket_tiers.sold
    idem,       \* the Redis key idempotency:stripe:<intent>
    cache,      \* the Redis key of a tier's remaining count (package inventory)
    tokens,     \* tickets whose qr_token is set
    published,  \* number of PublishPurchase calls per intent
    pc,         \* where each webhook handler is
    job,        \* the intent it handles
    res,        \* the outcome it will answer
    live,       \* whether its request context is still alive
    paid,       \* intents whose payment succeeded at Stripe
    acked,      \* intents with a 2xx answer: Stripe stops retrying them
    faults      \* faults so far

checkoutVars == <<checkout, order>>
dbVars == <<status, tickets, sold, tokens>>
redisVars == <<idem, cache>>
handlerVars == <<pc, job, res, live>>
stripeVars == <<paid, acked>>
vars == <<checkoutVars, dbVars, redisVars, published, handlerVars, stripeVars, faults>>

-----------------------------------------------------------------------------
Orders == [buyer : Buyers, tier : Tiers, quantity : Int]
Statuses == {"none", "pending", "completed", "failed"}
Settled == {"completed", "failed"}

(* A ticket row: the purchase and tier it belongs to and its number within  *)
(* the purchase, which stands for its generated id.                         *)
Ticket == [purchase : Intents, tier : Tiers, number : Nat]
TicketsOf(i) == {k \in tickets : k.purchase = i}
TicketsIn(t) == {k \in tickets : k.tier = t}

NoEntry == -1   \* no cached count

CheckoutPCs == {"idle", "held", "intent", "insert", "returned", "refused", "error"}
TxPCs == {"lockPurchase", "lockTier", "mint", "soldOut"}
PCs == {"idle", "acquire", "begin"} \cup TxPCs
         \cup {"invalidate", "markDone", "issue", "publish", "release", "respond"}
Outcomes == {"none", "created", "alreadyDone", "notFound", "soldOut", "error"}

(* Row locks are held from the step that takes them to the end of the       *)
(* transaction, so the program counters say who holds what.                 *)
HoldsPurchase == {"lockTier", "mint", "soldOut"}
HoldsTier == {"mint", "soldOut"}
PurchaseLocked(i) == \E w \in Workers : pc[w] \in HoldsPurchase /\ job[w] = i
TierLocked(t) == \E w \in Workers : pc[w] \in HoldsTier /\ order[job[w]].tier = t

FreeConn == Cardinality({w \in Workers : pc[w] \in TxPCs}) < Conns

Fault(kind) == /\ kind \in Environment
               /\ faults < MaxFaults
               /\ faults' = faults + 1

(* A Redis command or Postgres statement fails: always under a cancelled    *)
(* context, otherwise by a fault.                                           *)
Fails(w, kind) == \/ ~live[w] /\ UNCHANGED faults
                  \/ live[w] /\ Fault(kind)
Works(w) == live[w] /\ UNCHANGED faults

-----------------------------------------------------------------------------
Init ==
    /\ checkout = [i \in Intents |-> "idle"]
    /\ order \in [Intents -> [buyer : Buyers, tier : Tiers, quantity : Quantities]]
    /\ status = [i \in Intents |-> "none"]
    /\ tickets = {}
    /\ sold = [t \in Tiers |-> 0]
    /\ idem = [i \in Intents |-> "none"]
    /\ cache = [t \in Tiers |-> NoEntry]
    /\ tokens = {}
    /\ published = [i \in Intents |-> 0]
    /\ pc = [w \in Workers |-> "idle"]
    /\ job = [w \in Workers |-> NoIntent]
    /\ res = [w \in Workers |-> "none"]
    /\ live = [w \in Workers |-> TRUE]
    /\ paid = {}
    /\ acked = {}
    /\ faults = 0

-----------------------------------------------------------------------------
(* Checkout.                                                                *)

(* The SUM(quantity) over the pending and completed purchases of the buyer  *)
(* for the event of i, as the number of tickets they are for.               *)
Held(i) ==
    LET rows == {j \in Intents : /\ status[j] \in {"pending", "completed"}
                                 /\ order[j].buyer = order[i].buyer
                                 /\ EventOf[order[j].tier] = EventOf[order[i].tier]}
    IN Cardinality(UNION {{j} \X (1 .. order[j].quantity) : j \in rows})

(* An absent or non-positive quantity in a request means one ticket.        *)
Normal(q) == IF q <= 0 THEN 1 ELSE q

(* int and int64 arithmetic.                                                *)
Wrap(n) == ((n + GoMax + 1) % (2 * (GoMax + 1))) - (GoMax + 1)

Amount(q) == Wrap(Price * q)

(* Mutant: quantity is a BIGINT.                                            *)
FitsWide(q) == q > 0 /\ Amount(q) >= 0

(* What the columns quantity INTEGER CHECK (> 0) and amount_cents CHECK     *)
(* (>= 0) accept.                                                           *)
Fits(q) == q \in 1 .. ColMax /\ Amount(q) >= 0

CheckoutGoto(i, there) == checkout' = [checkout EXCEPT ![i] = there]

CheckoutStart(i) ==
    /\ checkout[i] = "idle"
    /\ CheckoutGoto(i, "held")
    /\ order' = [order EXCEPT ![i].quantity = Normal(@)]
    /\ UNCHANGED <<dbVars, redisVars, published, handlerVars, stripeVars, faults>>

CheckoutHeld(i) ==
    /\ checkout[i] = "held"
    /\ FreeConn
    /\ CheckoutGoto(i, IF Wrap(Held(i) + order[i].quantity) > PurchaseCap
                       THEN "refused" ELSE "intent")
    /\ UNCHANGED <<order, dbVars, redisVars, published, handlerVars, stripeVars, faults>>

CreateIntent(i) ==
    /\ checkout[i] = "intent"
    /\ CheckoutGoto(i, "insert")
    /\ UNCHANGED <<order, dbVars, redisVars, published, handlerVars, stripeVars, faults>>

(* The INSERT checks the foreign key under a shared lock on the tier row,   *)
(* which waits for a settling transaction that holds it FOR UPDATE.  A      *)
(* quantity that passed the cap by overflow is refused here.                *)
InsertPurchase(i) ==
    /\ checkout[i] = "insert"
    /\ FreeConn
    /\ \/ /\ Fits(order[i].quantity)
          /\ ~TierLocked(order[i].tier)
          /\ CheckoutGoto(i, "returned")
          /\ status' = [status EXCEPT ![i] = "pending"]
       \/ /\ ~Fits(order[i].quantity)
          /\ CheckoutGoto(i, "error")
          /\ UNCHANGED status
    /\ UNCHANGED <<order, tickets, sold, tokens, redisVars, published, handlerVars,
                   stripeVars, faults>>

(* A failed call ends the request; a failed INSERT may have taken effect.   *)
CheckoutError(i) ==
    /\ checkout[i] \in {"held", "intent", "insert"}
    /\ Fault("checkout")
    /\ CheckoutGoto(i, "error")
    /\ \/ UNCHANGED status
       \/ /\ checkout[i] = "insert"
          /\ Fits(order[i].quantity)
          /\ ~TierLocked(order[i].tier)
          /\ status' = [status EXCEPT ![i] = "pending"]
    /\ UNCHANGED <<order, tickets, sold, tokens, redisVars, published, handlerVars, stripeVars>>

-----------------------------------------------------------------------------
(* Stripe.                                                                  *)

(* The client confirms the payment with the secret that checkout returned.  *)
(* The webhook handler is written for payments that succeed even earlier.   *)
Pay(i) ==
    /\ i \notin paid
    /\ \/ checkout[i] = "returned"
       \/ checkout[i] = "insert" /\ "early" \in Environment
    /\ paid' = paid \cup {i}
    /\ UNCHANGED <<checkoutVars, dbVars, redisVars, published, handlerVars, acked, faults>>

Handling(i) == \E w \in Workers : job[w] = i

(* payment_intent.succeeded reaches an idle handler: the first delivery, a  *)
(* retry of an unanswered or refused one, or a duplicate.                   *)
Deliver(w, i) ==
    /\ pc[w] = "idle"
    /\ i \in paid
    /\ (Handling(i) \/ i \in acked) => "dup" \in Environment
    /\ pc' = [pc EXCEPT ![w] = "acquire"]
    /\ job' = [job EXCEPT ![w] = i]
    /\ UNCHANGED <<checkoutVars, dbVars, redisVars, published, res, live, stripeVars, faults>>

(* A key's 24 hours end or Redis evicts it.                                 *)
ExpireKey(i) ==
    /\ "ttl" \in Environment
    /\ idem[i] # "none"
    /\ idem' = [idem EXCEPT ![i] = "none"]
    /\ UNCHANGED <<checkoutVars, dbVars, cache, published, handlerVars, stripeVars, faults>>

-----------------------------------------------------------------------------
(* The webhook handler: ProcessPaymentSucceeded and processInTx.            *)

Goto(w, there) == pc' = [pc EXCEPT ![w] = there]
Finish(w, outcome, there) == Goto(w, there) /\ res' = [res EXCEPT ![w] = outcome]

(* Mutant: a handler that cannot acquire the key, for whatever reason, takes *)
(* itself for a duplicate.                                                  *)
AcquireOrGiveUp(w) ==
    /\ pc[w] = "acquire"
    /\ \/ /\ Works(w)
          /\ idem[job[w]] = "none"
          /\ idem' = [idem EXCEPT ![job[w]] = "processing"]
          /\ Goto(w, "begin") /\ UNCHANGED res
       \/ /\ (Works(w) /\ idem[job[w]] # "none") \/ Fails(w, "redis")
          /\ Finish(w, "alreadyDone", "respond") /\ UNCHANGED idem
    /\ UNCHANGED <<checkoutVars, dbVars, cache, published, job, live, stripeVars>>

(* SETNX.  A failed command does not stop the handler: Postgres decides.    *)
(* When the reply is lost the client sends the command again and is told    *)
(* that the key, its own, is taken.                                         *)
Acquire(w) ==
    /\ pc[w] = "acquire"
    /\ \/ /\ Works(w)
          /\ idem[job[w]] = "none"
          /\ idem' = [idem EXCEPT ![job[w]] = "processing"]
          /\ Goto(w, "begin") /\ UNCHANGED res
       \/ /\ Works(w)
          /\ idem[job[w]] # "none"
          /\ Finish(w, "alreadyDone", "respond") /\ UNCHANGED idem
       \/ /\ Fails(w, "redis")
          /\ Goto(w, "begin") /\ UNCHANGED <<idem, res>>
       \/ /\ live[w] /\ Fault("reply")
          /\ idem[job[w]] = "none"
          /\ idem' = [idem EXCEPT ![job[w]] = "processing"]
          /\ Finish(w, "alreadyDone", "respond")
    /\ UNCHANGED <<checkoutVars, dbVars, cache, published, job, live, stripeVars>>

Begin(w) ==
    /\ pc[w] = "begin"
    /\ FreeConn
    /\ Works(w)
    /\ Goto(w, "lockPurchase")
    /\ UNCHANGED <<checkoutVars, dbVars, redisVars, published, job, res, live, stripeVars>>

(* Mutant: SELECT without FOR UPDATE.                                       *)
LockPurchaseNoLock(w) ==
    /\ pc[w] = "lockPurchase"
    /\ Works(w)
    /\ \/ status[job[w]] = "none" /\ Finish(w, "notFound", "release")
       \/ status[job[w]] = "completed" /\ Finish(w, "alreadyDone", "markDone")
       \/ status[job[w]] \in {"pending", "failed"} /\ Goto(w, "lockTier") /\ UNCHANGED res
    /\ UNCHANGED <<checkoutVars, dbVars, redisVars, published, job, live, stripeVars>>

(* Mutant: the check of an already completed purchase is missing.           *)
LockPurchaseNoStatus(w) ==
    /\ pc[w] = "lockPurchase"
    /\ Works(w)
    /\ ~PurchaseLocked(job[w])
    /\ \/ status[job[w]] = "none" /\ Finish(w, "notFound", "release")
       \/ status[job[w]] # "none" /\ Goto(w, "lockTier") /\ UNCHANGED res
    /\ UNCHANGED <<checkoutVars, dbVars, redisVars, published, job, live, stripeVars>>

(* SELECT ... FROM purchases FOR UPDATE, and what the row's status decides. *)
LockPurchase(w) ==
    /\ pc[w] = "lockPurchase"
    /\ Works(w)
    /\ ~PurchaseLocked(job[w])
    /\ \/ status[job[w]] = "none" /\ Finish(w, "notFound", "release")
       \/ status[job[w]] = "completed" /\ Finish(w, "alreadyDone", "markDone")
       \/ status[job[w]] \in {"pending", "failed"} /\ Goto(w, "lockTier") /\ UNCHANGED res
    /\ UNCHANGED <<checkoutVars, dbVars, redisVars, published, job, live, stripeVars>>

(* Mutants of LockTier: SELECT without FOR UPDATE; the capacity test off by  *)
(* one; the row read through the pool instead of the transaction.           *)
TierDecision(w, guard, full(_)) ==
    LET o == order[job[w]] IN
    /\ pc[w] = "lockTier"
    /\ Works(w)
    /\ guard
    /\ Goto(w, IF full(o) THEN "soldOut" ELSE "mint")
    /\ UNCHANGED <<checkoutVars, dbVars, redisVars, published, job, res, live, stripeVars>>
LockTierNoLock(w) ==
    TierDecision(w, TRUE, LAMBDA o : sold[o.tier] + o.quantity > Capacity[o.tier])
LockTierOffByOne(w) ==
    TierDecision(w, ~TierLocked(order[job[w]].tier),
                 LAMBDA o : sold[o.tier] + o.quantity >= Capacity[o.tier])
LockTierFromPool(w) ==
    TierDecision(w, FreeConn /\ ~TierLocked(order[job[w]].tier),
                 LAMBDA o : sold[o.tier] + o.quantity > Capacity[o.tier])

(* SELECT capacity, sold FROM ticket_tiers FOR UPDATE, and the capacity test. *)
LockTier(w) ==
    LET o == order[job[w]] IN
    /\ pc[w] = "lockTier"
    /\ Works(w)
    /\ ~TierLocked(o.tier)
    /\ Goto(w, IF sold[o.tier] + o.quantity > Capacity[o.tier] THEN "soldOut" ELSE "mint")
    /\ UNCHANGED <<checkoutVars, dbVars, redisVars, published, job, res, live, stripeVars>>

(* Mutants of Sell: the counter is taken for the tickets left; it grows by  *)
(* one whatever the quantity.                                               *)
SellTakesAway(i) ==
    LET o == order[i]
    IN /\ tickets' = tickets \cup
                       {[purchase |-> i, tier |-> o.tier, number |-> k] : k \in 1 .. o.quantity}
       /\ sold' = [sold EXCEPT ![o.tier] = @ - o.quantity]
       /\ status' = [status EXCEPT ![i] = "completed"]

SellCountsOne(i) ==
    LET o == order[i]
        n == Cardinality(TicketsOf(i))
    IN /\ tickets' = tickets \cup
                       {[purchase |-> i, tier |-> o.tier, number |-> n + k] :
                            k \in 1 .. o.quantity}
       /\ sold' = [sold EXCEPT ![o.tier] = @ + 1]
       /\ status' = [status EXCEPT ![i] = "completed"]

(* The writes of a transaction become visible when it commits.  The CHECK   *)
(* (sold <= capacity) of the schema is not assumed: see NoOversell.         *)
Sell(i) ==
    LET o == order[i]
        n == Cardinality(TicketsOf(i))
    IN /\ tickets' = tickets \cup
                       {[purchase |-> i, tier |-> o.tier, number |-> n + k] :
                            k \in 1 .. o.quantity}
       /\ sold' = [sold EXCEPT ![o.tier] = @ + o.quantity]
       /\ status' = [status EXCEPT ![i] = "completed"]

Refuse(i) == /\ status' = [status EXCEPT ![i] = "failed"]
              /\ UNCHANGED <<tickets, sold>>

CommitSale(w) ==
    /\ pc[w] = "mint"
    /\ Works(w)
    /\ Sell(job[w])
    /\ Finish(w, "created", "invalidate")
    /\ UNCHANGED <<checkoutVars, tokens, redisVars, published, job, live, stripeVars>>

CommitSoldOut(w) ==
    /\ pc[w] = "soldOut"
    /\ Works(w)
    /\ Refuse(job[w])
    /\ Finish(w, "soldOut", "release")
    /\ UNCHANGED <<checkoutVars, tokens, redisVars, published, job, live, stripeVars>>

(* COMMIT takes effect but its answer does not arrive.                      *)
CommitUnknown(w) ==
    /\ live[w] /\ Fault("commit")
    /\ \/ pc[w] = "mint" /\ Sell(job[w])
       \/ pc[w] = "soldOut" /\ Refuse(job[w])
    /\ Finish(w, "error", "release")
    /\ UNCHANGED <<checkoutVars, tokens, redisVars, published, job, live, stripeVars>>

(* A statement fails: the deferred Rollback ends the transaction.           *)
TxError(w) ==
    /\ pc[w] \in {"begin"} \cup TxPCs
    /\ Fails(w, "db")
    /\ Finish(w, "error", "release")
    /\ UNCHANGED <<checkoutVars, dbVars, redisVars, published, job, live, stripeVars>>

(* inv.Invalidate, still inside processInTx but after the commit.           *)
Invalidate(w) ==
    /\ pc[w] = "invalidate"
    /\ \/ Works(w) /\ cache' = [cache EXCEPT ![order[job[w]].tier] = NoEntry]
       \/ Fails(w, "redis") /\ UNCHANGED cache
    /\ Goto(w, "markDone")
    /\ UNCHANGED <<checkoutVars, dbVars, idem, published, job, res, live, stripeVars>>

(* Mutant: the tail runs whether or not this handler created the tickets.   *)
MarkDoneAlwaysIssues(w) ==
    /\ pc[w] = "markDone"
    /\ \/ Works(w) /\ idem' = [idem EXCEPT ![job[w]] = "done"]
       \/ Fails(w, "redis") /\ UNCHANGED idem
    /\ Goto(w, "issue")
    /\ UNCHANGED <<checkoutVars, dbVars, cache, published, job, res, live, stripeVars>>

MarkDone(w) ==
    /\ pc[w] = "markDone"
    /\ \/ Works(w) /\ idem' = [idem EXCEPT ![job[w]] = "done"]
       \/ Fails(w, "redis") /\ UNCHANGED idem
    /\ Goto(w, IF res[w] = "created" THEN "issue" ELSE "respond")
    /\ UNCHANGED <<checkoutVars, dbVars, cache, published, job, res, live, stripeVars>>

(* Mutant: the loop over the tickets stops one short.                       *)
IssueAllButOne(w) ==
    /\ pc[w] = "issue"
    /\ Works(w) /\ FreeConn
    /\ \E k \in TicketsOf(job[w]) : tokens' = tokens \cup (TicketsOf(job[w]) \ {k})
    /\ Goto(w, "publish")
    /\ UNCHANGED <<checkoutVars, status, tickets, sold, redisVars, published,
                   job, res, live, stripeVars>>

(* Sets the qr_token of every ticket of the purchase that has none; an      *)
(* error leaves the remaining tickets without one and is ignored.           *)
IssueForPurchase(w) ==
    /\ pc[w] = "issue"
    /\ \/ Works(w) /\ FreeConn /\ tokens' = tokens \cup TicketsOf(job[w])
       \/ /\ Fails(w, "db")
          /\ \E S \in SUBSET TicketsOf(job[w]) :
                S # TicketsOf(job[w]) /\ tokens' = tokens \cup S
    /\ Goto(w, "publish")
    /\ UNCHANGED <<checkoutVars, status, tickets, sold, redisVars, published,
                   job, res, live, stripeVars>>

(* The event is handed to the publishers once; their errors are ignored.    *)
PublishPurchase(w) ==
    /\ pc[w] = "publish"
    /\ published' = [published EXCEPT ![job[w]] = @ + 1]
    /\ Goto(w, "respond")
    /\ UNCHANGED <<checkoutVars, dbVars, redisVars, job, res, live, stripeVars, faults>>

(* Mutant: the key stays.                                                   *)
ReleaseNothing(w) ==
    /\ pc[w] = "release"
    /\ Works(w)
    /\ Goto(w, "respond")
    /\ UNCHANGED <<checkoutVars, dbVars, redisVars, published, job, res, live, stripeVars>>

(* DEL, whoever owns the key.                                               *)
Release(w) ==
    /\ pc[w] = "release"
    /\ \/ Works(w) /\ idem' = [idem EXCEPT ![job[w]] = "none"]
       \/ Fails(w, "redis") /\ UNCHANGED idem
    /\ Goto(w, "respond")
    /\ UNCHANGED <<checkoutVars, dbVars, cache, published, job, res, live, stripeVars>>

(* Mutant: an unknown purchase is acknowledged.                             *)
AcceptedNotFound == {"created", "alreadyDone", "soldOut", "notFound"}

(* The status code: 200 also for duplicates and sold out, 503 and 500 ask   *)
(* Stripe to retry.                                                         *)
Accepted == {"created", "alreadyDone", "soldOut"}

HandlersIdle(W) ==
    /\ pc' = [w \in Workers |-> IF w \in W THEN "idle" ELSE pc[w]]
    /\ job' = [w \in Workers |-> IF w \in W THEN NoIntent ELSE job[w]]
    /\ res' = [w \in Workers |-> IF w \in W THEN "none" ELSE res[w]]
    /\ live' = [w \in Workers |-> IF w \in W THEN TRUE ELSE live[w]]

Respond(w) ==
    /\ pc[w] = "respond"
    /\ \/ acked' = (IF res[w] \in Accepted THEN acked \cup {job[w]} ELSE acked)
          /\ UNCHANGED faults
       \/ res[w] \in Accepted /\ Fails(w, "lost") /\ UNCHANGED acked
    /\ HandlersIdle({w})
    /\ UNCHANGED <<checkoutVars, dbVars, redisVars, published, paid>>

-----------------------------------------------------------------------------
(* The request context ends early: the 30 s timeout of the router, or the   *)
(* client hanging up.  Every later call on that context fails.              *)
Cancel(w) ==
    /\ pc[w] # "idle"
    /\ live[w]
    /\ Fault("cancel")
    /\ live' = [live EXCEPT ![w] = FALSE]
    /\ UNCHANGED <<checkoutVars, dbVars, redisVars, published, pc, job, res, stripeVars>>

(* A process stops with the handlers W: Postgres rolls their transactions   *)
(* back, Redis keeps their keys.                                            *)
Crash(W) ==
    /\ \A w \in W : pc[w] # "idle"
    /\ Fault("crash")
    /\ HandlersIdle(W)
    /\ UNCHANGED <<checkoutVars, dbVars, redisVars, published, stripeVars>>

-----------------------------------------------------------------------------
CheckoutStep(i) == \/ CheckoutStart(i) \/ CheckoutHeld(i) \/ CreateIntent(i)
                   \/ InsertPurchase(i) \/ CheckoutError(i)

HandlerStep(w) == \/ Acquire(w) \/ Begin(w) \/ LockPurchase(w) \/ LockTier(w)
                  \/ CommitSale(w) \/ CommitSoldOut(w) \/ CommitUnknown(w) \/ TxError(w)
                  \/ Invalidate(w) \/ MarkDone(w) \/ IssueForPurchase(w)
                  \/ PublishPurchase(w) \/ Release(w) \/ Respond(w)

Next == \/ \E i \in Intents : CheckoutStep(i) \/ Pay(i) \/ ExpireKey(i)
        \/ \E w \in Workers, i \in Intents : Deliver(w, i)
        \/ \E w \in Workers : HandlerStep(w) \/ Cancel(w)
        \/ \E W \in SUBSET Workers \ {{}} : Crash(W)

Spec == Init /\ [][Next]_vars

(* A handler that can move again and again does move: goroutines are        *)
(* scheduled, and Postgres and the connection pool queue their waiters.     *)
(* Stripe keeps retrying a payment that has no 2xx answer.                  *)
Retry(i) == i \notin acked /\ \E w \in Workers : Deliver(w, i)
Fairness == /\ \A w \in Workers : SF_vars(HandlerStep(w))
            /\ \A i \in Intents : SF_vars(Retry(i))

FairSpec == Spec /\ Fairness

-----------------------------------------------------------------------------
(* Properties.                                                              *)

TypeOK ==
    /\ checkout \in [Intents -> CheckoutPCs]
    /\ order \in [Intents -> Orders]
    /\ status \in [Intents -> Statuses]
    /\ tickets \subseteq Ticket
    /\ sold \in [Tiers -> Nat]
    /\ idem \in [Intents -> {"none", "processing", "done"}]
    /\ cache \in [Tiers -> Nat \cup {NoEntry}]
    /\ tokens \subseteq tickets
    /\ published \in [Intents -> Nat]
    /\ pc \in [Workers -> PCs]
    /\ job \in [Workers -> Intents \cup {NoIntent}]
    /\ res \in [Workers -> Outcomes]
    /\ live \in [Workers -> BOOLEAN]
    /\ paid \subseteq Intents
    /\ acked \subseteq Intents
    /\ faults \in 0 .. MaxFaults

(* The tier lock and the capacity test of processInTx, not the CHECK        *)
(* constraint behind them, keep sold within capacity; and sold counts       *)
(* exactly the ticket rows of the tier, whatever fails in between.          *)
NoOversell ==
    \A t \in Tiers : /\ sold[t] = Cardinality(TicketsIn(t))
                     /\ sold[t] <= Capacity[t]

(* Any number of deliveries of an intent, concurrent or not, with either    *)
(* idempotency layer failing, mint exactly the purchased number of tickets  *)
(* for a completed purchase and none for any other                          *)
(* (ProcessPaymentSucceeded's contract).                                    *)
MintedExactlyOnce ==
    \A i \in Intents : Cardinality(TicketsOf(i)) =
                           IF status[i] = "completed" THEN order[i].quantity ELSE 0

(* A paid purchase is refused only when its tier cannot hold it, and that   *)
(* stays true: a later delivery for a failed purchase, which processInTx    *)
(* does process again, could not have been served.                          *)
RefusedOnlyWhenFull ==
    \A i \in Intents : status[i] = "failed" =>
        sold[order[i].tier] + order[i].quantity > Capacity[order[i].tier]

(* held + quantity and price * quantity overflow without an error, so a     *)
(* huge quantity passes the cap as soon as the buyer holds a ticket.  It    *)
(* never becomes a purchase: every row is for 1 to PurchaseCap tickets, and *)
(* its amount is exact (unless the price itself is near GoMax).             *)
RowsExact ==
    \A i \in Intents : status[i] # "none" =>
        LET q == order[i].quantity
        IN /\ q \in 1 .. PurchaseCap
           /\ Price * PurchaseCap <= GoMax => Amount(q) = Price * q

(* Only the handler whose transaction committed publishes the sale, once.   *)
PublishedOnce ==
    \A i \in Intents : published[i] > 0 => published[i] = 1 /\ status[i] = "completed"

(* Settlement is final: no redelivery, retry or failure changes the outcome *)
(* of a settled purchase or its tickets.                                    *)
SettlementFinal ==
    [][\A i \in Intents : status[i] \in Settled =>
           status'[i] = status[i] /\ TicketsOf(i)' = TicketsOf(i)]_vars

(* When deliveries of an intent do not overlap and neither the process nor  *)
(* Redis nor a request context fails, a 2xx tells Stripe the truth: the     *)
(* purchase is settled.                                                     *)
AckedSettled == \A i \in acked : status[i] \in Settled

(* The comments on acquire and release: acquire returns true to exactly one *)
(* caller, and the key is removed so that a failed attempt can be retried.  *)
(* A "processing" key of an unsettled purchase belongs to a handler that is *)
(* still running.  (Not so after a SETNX whose reply was lost, or a release *)
(* on a dead context.)                                                      *)
KeyHasOwner ==
    \A i \in Intents : idem[i] = "processing" /\ status[i] \notin Settled => Handling(i)

(* Every delivery is answered: no handler waits for ever for a connection   *)
(* of the pool, nor for its tier's row while the handler of another         *)
(* purchase has it, although both hold a connection and a purchase's row,   *)
(* and the holder's transaction may fail.                                   *)
HandlersFinish == \A w \in Workers : pc[w] # "idle" ~> pc[w] = "idle"

(* A payment that succeeded for an existing purchase is settled, by this    *)
(* delivery or by a retry.                                                  *)
PaidSettles ==
    \A i \in Intents : (i \in paid /\ status[i] # "none") ~> status[i] \in Settled

(* Every ticket of a completed purchase gets its QR token: the comment on   *)
(* the ignored error of IssueForPurchase says that it can be re-issued.     *)
TokensIssued ==
    \A i \in Intents : status[i] = "completed" ~> TicketsOf(i) \subseteq tokens

(* Service.purchaseCap: the most tickets a buyer may hold per event.        *)
WithinPurchaseCap ==
    \A i \in Intents : status[i] \in {"pending", "completed"} => Held(i) <= PurchaseCap

-----------------------------------------------------------------------------
(* The inductive invariant behind the safety properties.                    *)

(* A handler has a job exactly while it runs and holds only rows that       *)
(* exist; a purchase row exists only for a request that reached its INSERT, *)
(* with a positive quantity.                                                *)
WellFormed ==
    /\ IsFiniteSet(tickets)
    /\ \A w \in Workers : /\ pc[w] = "idle" <=> job[w] = NoIntent
                          /\ pc[w] \in HoldsPurchase => status[job[w]] # "none"
    /\ \A i \in Intents : /\ checkout[i] # "idle" => order[i].quantity > 0
                          /\ status[i] # "none" => checkout[i] \in {"returned", "error"}

(* Two transactions never hold the same row, and what one of them read      *)
(* under its row locks is still true when it commits, whatever the other    *)
(* handlers and the checkouts did since.                                    *)
LocksProtect ==
    /\ \A v, w \in Workers : v # w =>
          /\ {pc[v], pc[w]} \subseteq HoldsPurchase => job[v] # job[w]
          /\ {pc[v], pc[w]} \subseteq HoldsTier => order[job[v]].tier # order[job[w]].tier
    /\ \A w \in Workers :
          LET o == order[job[w]] IN
          /\ pc[w] \in HoldsPurchase => status[job[w]] \in {"pending", "failed"}
          /\ pc[w] = "mint" => sold[o.tier] + o.quantity <= Capacity[o.tier]
          /\ pc[w] = "soldOut" => sold[o.tier] + o.quantity > Capacity[o.tier]

(* At most one handler ever reports a purchase as created, and publishes it. *)
CreatedOnce ==
    /\ \A w \in Workers :
          /\ pc[w] = "idle" => res[w] = "none"
          /\ pc[w] \in {"invalidate", "issue", "publish"} => res[w] = "created"
          /\ res[w] = "created" => status[job[w]] = "completed"
          /\ res[w] = "created" /\ pc[w] # "respond" => published[job[w]] = 0
    /\ \A v, w \in Workers :
          v # w /\ res[v] = "created" /\ res[w] = "created" => job[v] # job[w]

SafetyInv == /\ TypeOK /\ WellFormed /\ LocksProtect
             /\ NoOversell /\ MintedExactlyOnce /\ RefusedOnlyWhenFull
             /\ CreatedOnce /\ PublishedOnce

(* Behind RowsExact: as long as an int64 has Room for the tickets of all    *)
(* purchases and a column value on top, a sum that overflowed and passed    *)
(* the cap is for a quantity that the column refuses.                       *)
Room == Cardinality(Intents) * PurchaseCap + ColMax <= GoMax

RowsInv ==
    \A i \in Intents :
        LET q == order[i].quantity IN
        /\ q <= GoMax
        /\ checkout[i] \in {"intent", "insert"} => q <= PurchaseCap \/ q > ColMax
        /\ status[i] # "none" => q \in 1 .. PurchaseCap

(* Behind KeyHasOwner: with Redis reachable, no process stopping and no     *)
(* context ending, the handler that set a key is between its SETNX and the  *)
(* command that removes or completes it.                                    *)
Undisturbed == Environment \cap {"redis", "reply", "cancel", "crash"} = {}

Owning == {"begin", "invalidate", "markDone", "release"} \cup TxPCs

KeyInv ==
    /\ \A w \in Workers : live[w]
    /\ \A i \in Intents : idem[i] = "processing" =>
          \E w \in Workers : pc[w] \in Owning /\ job[w] = i

(* Behind AckedSettled, when also no two deliveries of an intent overlap: a *)
(* handler that finds the key taken is alone with it, so it is complete.    *)
AckInv ==
    /\ KeyInv
    /\ \A v, w \in Workers : v # w /\ job[v] = job[w] => job[v] = NoIntent
    /\ \A i \in Intents : idem[i] = "done" => status[i] = "completed"
    /\ \A w \in Workers :
          /\ pc[w] \in {"invalidate", "markDone"} => status[job[w]] = "completed"
          /\ res[w] \in Accepted => status[job[w]] \in Settled
    /\ AckedSettled

-----------------------------------------------------------------------------
(* The abstract sale: a transaction's commit is the step that settles.      *)
Sale == INSTANCE TicketSale WITH
    demand <- [i \in Intents |-> [tier |-> order[i].tier,
                                  quantity |-> Normal(order[i].quantity)]],
    sale <- status,
    owned <- [i \in Intents |-> Cardinality(TicketsOf(i))],
    remaining <- [t \in Tiers |-> Capacity[t] - sold[t]]

(* The webhook protocol, with every interleaving, retry and failure,        *)
(* implements the abstract sale.                                            *)
ImplementsSale == Sale!SaleSpec
=============================================================================
