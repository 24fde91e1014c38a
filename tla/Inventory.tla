----------------------------- MODULE Inventory -----------------------------
(***************************************************************************)
(* The cached remaining-inventory view (internal/inventory) beside the     *)
(* payment protocol that invalidates it.  A read of Remaining is a Redis   *)
(* GET and, on a miss, a SELECT and a SET: sales commit and invalidate     *)
(* between any two of these.                                               *)
(***************************************************************************)
EXTENDS Payment

CONSTANT Readers        \* concurrent calls of Remaining

VARIABLES
    rpc,        \* where each call is
    asked,      \* the tier it asks for
    count       \* what it computed from the row, then its answer

readerVars == <<rpc, asked, count>>
ivars == <<vars, readerVars>>

Remaining(t) == IF Capacity[t] < sold[t] THEN 0 ELSE Capacity[t] - sold[t]

InventoryInit ==
    /\ Init
    /\ rpc = [r \in Readers |-> "idle"]
    /\ asked \in [Readers -> Tiers]
    /\ count = [r \in Readers |-> NoEntry]

-----------------------------------------------------------------------------
PaymentUnchanged == UNCHANGED <<checkoutVars, dbVars, idem, published, handlerVars, stripeVars>>

ReaderGoto(r, there) == rpc' = [rpc EXCEPT ![r] = there]

(* GET: a hit is the answer, a miss or an error goes to Postgres.           *)
Get(r, t) ==
    /\ rpc[r] = "idle"
    /\ asked' = [asked EXCEPT ![r] = t]
    /\ \/ /\ cache[t] # NoEntry
          /\ count' = [count EXCEPT ![r] = cache[t]]
          /\ UNCHANGED <<rpc, faults>>
       \/ /\ cache[t] = NoEntry
          /\ ReaderGoto(r, "select")
          /\ UNCHANGED <<count, faults>>
       \/ /\ Fault("redis")
          /\ ReaderGoto(r, "select")
          /\ UNCHANGED count
    /\ UNCHANGED cache /\ PaymentUnchanged

(* Mutant: pending purchases count as sold.                                 *)
SelectUncommitted(r) ==
    /\ rpc[r] = "select"
    /\ FreeConn
    /\ count' = [count EXCEPT ![r] =
          IF \E i \in Intents : status[i] = "pending" /\ order[i].tier = asked[r]
          THEN Remaining(asked[r]) - 1 ELSE Remaining(asked[r])]
    /\ ReaderGoto(r, "set")
    /\ UNCHANGED <<asked, cache, faults>> /\ PaymentUnchanged

(* A plain SELECT sees the last committed row and waits for no lock.        *)
Select(r) ==
    /\ rpc[r] = "select"
    /\ FreeConn
    /\ \/ /\ count' = [count EXCEPT ![r] = Remaining(asked[r])]
          /\ ReaderGoto(r, "set")
          /\ UNCHANGED faults
       \/ /\ Fault("read")
          /\ ReaderGoto(r, "idle")
          /\ UNCHANGED count
    /\ UNCHANGED <<asked, cache>> /\ PaymentUnchanged

(* SET with the TTL, best effort, then the answer.                          *)
Fill(r) ==
    /\ rpc[r] = "set"
    /\ \/ cache' = [cache EXCEPT ![asked[r]] = count[r]] /\ UNCHANGED faults
       \/ UNCHANGED cache /\ Fault("redis")
    /\ ReaderGoto(r, "idle")
    /\ UNCHANGED <<asked, count>> /\ PaymentUnchanged

(* Mutant: the entry is stored without a TTL.                               *)
ExpireNever(t) == FALSE /\ UNCHANGED ivars

(* The 30 seconds of an entry end.                                          *)
ExpireCache(t) ==
    /\ cache[t] # NoEntry
    /\ cache' = [cache EXCEPT ![t] = NoEntry]
    /\ UNCHANGED <<readerVars, faults>> /\ PaymentUnchanged

ReaderStep(r) == Select(r) \/ Fill(r)

InventoryNext ==
    \/ Next /\ UNCHANGED readerVars
    \/ \E r \in Readers : ReaderStep(r) \/ \E t \in Tiers : Get(r, t)
    \/ \E t \in Tiers : ExpireCache(t)

InventorySpec == InventoryInit /\ [][InventoryNext]_ivars

(* Handlers and calls of Remaining are scheduled, Stripe retries, entries   *)
(* expire in time.                                                          *)
InventoryFairSpec ==
    /\ InventorySpec
    /\ \A w \in Workers : SF_ivars(HandlerStep(w) /\ UNCHANGED readerVars)
    /\ \A i \in Intents : SF_ivars(Retry(i) /\ UNCHANGED readerVars)
    /\ \A r \in Readers : SF_ivars(ReaderStep(r))
    /\ \A t \in Tiers : WF_ivars(ExpireCache(t))

-----------------------------------------------------------------------------
(* The package comment: the cache never reflects uncommitted inventory.  A  *)
(* cached count, and one on its way into the cache, was the committed count *)
(* at some time: never below what remains now, never above the capacity.    *)
CacheCommitted ==
    /\ \A t \in Tiers : cache[t] # NoEntry => cache[t] \in Remaining(t) .. Capacity[t]
    /\ \A r \in Readers : rpc[r] = "set" => count[r] \in Remaining(asked[r]) .. Capacity[asked[r]]

(* Behind CacheCommitted: the payment protocol's invariant beside readers,  *)
(* and the types of their state.                                            *)
CacheInv ==
    /\ SafetyInv
    /\ rpc \in [Readers -> {"idle", "select", "set"}]
    /\ asked \in [Readers -> Tiers]
    /\ count \in [Readers -> Nat \cup {NoEntry}]
    /\ CacheCommitted

(* Once sales stop, the TTL removes what a lost or early invalidation left  *)
(* behind: from some time on the cache holds the exact count or nothing.    *)
CacheConverges == <>[](\A t \in Tiers : cache[t] \in {NoEntry, Remaining(t)})

(* The comment on Invalidate: stale inventory is never served.  With no     *)
(* handler between its commit and its DEL, a cached count is exact.         *)
StaleNeverServed ==
    (\A w \in Workers : pc[w] # "invalidate") =>
        \A t \in Tiers : cache[t] \in {NoEntry, Remaining(t)}
=============================================================================
