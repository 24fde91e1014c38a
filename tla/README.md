# Verification of the event-ticketing platform

The repository is a Go backend that sells tickets: checkout and an idempotent
Stripe webhook over Postgres and Redis, a cached inventory view, QR tickets and
door scanning, a rate limiter, and an analytics pipeline over gRPC and Kafka
that feeds a live dashboard. This directory holds TLA+ models of the parts that
carry its correctness claims, the TLC configurations that check them on small
instances, and TLAPS proofs for every instance.

`PROJECT.json` lists the components, the runs, the mutants that show that each
property can fail, the source lines behind every definition, the hazards of the
code, the findings and the theorems.

## 1. Inventory

| Component | State | Operations | Talks to |
|---|---|---|---|
| payment (`internal/payment`) | rows of `purchases`, `tickets`, `ticket_tiers.sold`; Redis key `idempotency:stripe:<intent>` | `Checkout`, `ProcessPaymentSucceeded` with `processInTx`, `acquire`, `markDone`, `release` | Stripe, Postgres, Redis, inventory, issuer, publishers |
| inventory (`internal/inventory`) | Redis key per tier, TTL 30 s | `Remaining`, `Invalidate` | Postgres, Redis; invalidated by payment |
| ticket issuing (`internal/ticket/issuer.go`, `token.go`) | `tickets.qr_token`, PNG files | `IssueForPurchase`, `Sign` | Postgres, file system; called by the webhook |
| ticket validation (`internal/ticket/validator.go`) | Redis key `scan:ticket:<id>`, TTL 24 h; `tickets.status` | `Validate` | Redis, Postgres |
| rate limiter (`internal/ratelimit`) | a sorted set per IP and per user | `Allow` (a Lua script), `Middleware` | Redis; in front of checkout |
| events (`internal/events`) | none | `MultiPublisher.PublishPurchase` | analytics client, Kafka producer |
| analytics (`internal/analytics`, `cmd/analytics`) | totals per event under a mutex, mirrored to a Redis hash | `RecordStream`/`apply`, `GetStats` | gRPC, Redis |
| streaming (`internal/streaming`) | Kafka topic, group offset | `PublishPurchase`, `Consumer.Run` | Kafka |
| dashboard (`internal/dashboard`) | Redis counters per event; the hub's client sets and send buffers | `OnPurchase`, `register`, `unregister`, `Broadcast`, `Subscribe` | Redis, Postgres, WebSocket clients |
| users and auth (`internal/user`, `internal/auth`) | rows of `users`; signed tokens, 24 h | `Register`, `Login`, `Issue`, `Parse`, `RequireRole` | Postgres; in front of the writing routes |
| events and tiers (`internal/event`) | rows of `events`, `ticket_tiers` | `Create`, `Publish`, `CreateTier`, `Get`, `List` | Postgres |
| discovery (`internal/discovery`) | the GraphQL requests that run; a trending cache that is written only | `events`, `eventsNearMe`: `queryEvents`, `attachTiers`, marshalling | Postgres, Redis |
| schema and migrations (`migrations`, `internal/db`) | tables, `schema_migrations`, the pool | `Connect`, `Migrate` | Postgres |
| server, commands, configuration | the life of the processes, 30 s request timeout | start, serve, shut down | everything |
| frontend, infrastructure | | | the API over HTTP |

**Hard behaviours.** Stripe delivers webhooks at least once, possibly before
checkout has inserted the purchase and possibly twice at the same time. Two
layers make a delivery idempotent, a Redis key that can expire, be lost or be
left behind, and row locks in Postgres. After the commit the handler runs a
best-effort tail. Every Redis and Postgres call uses the request's context,
which dies after 30 s. The inventory cache is filled and invalidated without
coordination. Scanners race on one Redis key. The rate limiter takes timestamps
in the API processes and evaluates them in Redis. go-redis repeats commands
whose reply was lost. Replicas run `Migrate` at the same time, without a lock and
with separate statements to check, apply and record. Requests of the catalog and
of the discovery API read in two statements, and a process can stop between
them. GraphQL root fields run in parallel on a shared pool.

**What makes each component correct.**

- payment: no tier is oversold; a completed purchase has exactly its tickets, any
  other none; a refused purchase really did not fit; settlement is final; a paid
  purchase is settled in the end; a 2xx is given only for a settled purchase;
  a sale is published at most once; handlers do not block each other for ever;
  a buyer stays within the cap.
- inventory: cached counts were once committed, and stale ones go away.
- issuing: every ticket of a completed purchase gets a token.
- validation: one admission per ticket; nobody is turned away without cause.
- rate limiter: at most `limit` per window; nobody is refused below it.
- analytics: statistics are exact whatever the order of arrival; a reply covers
  the caller's own purchase.
- users, events, tiers: a token speaks for its account; only those with the right
  to it make events and tiers; answers joined from two statements hold together;
  lists show drafts to organizers only.
- discovery: an answer lists what matches in every dimension of the filter and misses
  nothing, is complete or void, and always comes.
- schema, processes: migrations are applied in order, a process serves the complete
  schema only, and all replicas serve in the end.
- streaming, dashboard: totals equal the published events up to counted losses;
  the snapshots a client sees are in order; no send on a closed channel.

## 2. Modules

| Module | Models |
|---|---|
| `Payment` | checkout and webhook handlers, one action per Postgres or Redis call; Stripe and faults as environment |
| `TicketSale` | the abstract sale that `Payment` implements |
| `Inventory` | `Payment` composed with concurrent readers of the cached count |
| `TicketScan` | concurrent door scans |
| `RateLimit` | the sliding window and the middleware |
| `Dashboard` | Kafka producer and consumer, aggregator, hub and WebSocket clients |
| `Analytics` | the gRPC analytics service and its client |
| `Startup` | the life of the API processes and the migrations they run |
| `Catalog` | accounts, tokens, events and tiers behind the REST routes |
| `Discovery` | `Catalog` extended by the GraphQL API |
| `Platform` | `Startup` composed with `Discovery`: requests run on processes |
| `MCPayment`, `MCInventory`, `MCRateLimit`, `MCAnalytics`, `MCPlatform` | constants for TLC |
| `PaymentProofs` | theorems about `Payment` and `Inventory` |
| `PlatformProofs` | theorems about `Platform` and `Discovery` |
| `TicketScanProofs`, `RateLimitProofs`, `DashboardProofs`, `AnalyticsProofs`, `StartupProofs`, `CatalogProofs` | theorems about the module of that name |

### Payment

An *intent* stands for one checkout request and the purchase row it inserts. Its
`checkout` counter follows `Service.Checkout`: normalise the quantity, sum the
buyer's holdings, create the intent, insert the row. A *worker* is a webhook
handler; its `pc` follows `ProcessPaymentSucceeded`:

    acquire -> begin -> lockPurchase -> lockTier -> mint    -> invalidate -> markDone -> issue -> publish -> respond
                                                 -> soldOut -> release -> respond

Row locks last from the step that takes them to the end of the transaction, so
`PurchaseLocked` and `TierLocked` are read off the program counters. The writes
of a transaction appear in one step, its commit, which is when other
transactions can see them. An open transaction holds one of `Conns`
connections.

`Environment` says what may happen in an instance: early and duplicate
deliveries, expiring keys, failing checkout calls, Redis and Postgres errors, a
lost SETNX reply, a COMMIT that took effect but reported an error, a cancelled
request context, a crash of any set of handlers, and a lost response. Under a
cancelled context (`live[w]` false) every later call of that handler fails,
including the DEL of `release`. The `CHECK (sold <= capacity)` of the schema is
left out on purpose: the models show that it is never needed.

Quantities keep their widths: Go's `int` and `int64` wrap around at `GoMax`, and the
columns accept what `Fits` says, up to `ColMax`. A huge quantity of a buyer who
holds a ticket wraps in `held + in.Quantity`, passes the cap and reaches the
provider; the INSERT refuses it.

Data left out: names, the PNG files, HMACs, JSON and status texts. A
ticket row is its purchase, tier and number.

### Inventory

Extends `Payment` by calls of `Remaining` in three steps (GET, SELECT, SET), so
that sales commit and invalidate between any two of them, and by the TTL.

### TicketScan

`Validate` in four steps: verify the token, read the status, SETNX, record.
`lost` remembers tickets whose key was created by a scan that never answered (it
crashed or its SETNX failed with effect), `unheard` those whose key was created by a
scan that was told it existed: its reply was lost, go-redis sent the SETNX again, and
the scan itself is rejected. `TurnedAwayJustified` names these causes, where the comments
of `Validator` know only the first (section 4). `lapses` counts expired keys. A
key does not expire in the middle of the scan that created it: a scan lasts at
most the 30 s of its request, the key 24 hours.

### RateLimit

`TakeTime` is `time.Now()` in the API process, `Allow` the script in Redis, so
scripts run out of the order of their timestamps. `MaxDelay` bounds how old a
timestamp is when its script runs and `MaxAhead` how far a process's clock is
ahead of Redis; their sum is `Slack`. `cmd/api` uses a limit of 20 per minute and
the router ends a request after 30 s, so the guarantee is not empty in
production. A repeated script carries the same member and timestamp.

### Dashboard

The pipeline of one event in one process. `ReadMessage` is kafka-go's: it commits
the offset before it returns, so a crash loses the message in flight instead of
repeating it, and a commit error ends `Run` for good (`"stopped"`) until the
process restarts. A join without a committed offset starts at the end of the
topic and adds what it passes over to `skipped`. `OnPurchase` is two INCRBYs and
a broadcast; a failed INCRBY yields zero, which the snapshot shows. The read
lock is held in `"send"`; `Register` and `Unregister` wait for it. A purchase
counts as one in both totals, which is all that tells a missed or repeated
INCRBY apart; velocity and per-tier figures are reads and left out.

### Analytics

One event and its stream per purchase, as `PublishPurchase` opens them. The server
takes `apply` in three steps: the fold under the mutex, the atomic increment of
`totalEvents`, and the HSET of the totals read under the mutex, which can
overwrite those of a later event (nothing reads the mirror, so no property is
stated of it). A client that gives up does not stop its event. A killed server
loses its memory; `GracefulStop` ends only finished streams and adds nothing.
`ack` is cleared by a restart because it is compared with the totals of one life.
Revenue is folded in the same statement pair as the count and is left out.

### Startup

`Connect`, `CreateTable`, then `Check`, `Apply` and `Record` for each migration, `Serve`,
and `Terminate`, `Exit` or `Crash`. One step is one statement of `Migrate`. Each
file is sent as one string and so is one implicit transaction. All files can be
repeated, but `IF NOT EXISTS` does not exclude a concurrent creation: `Collide` is the
case where Postgres lets one of two such transactions commit and fails the other.
A statement whose answer is lost may have taken effect (`FailToStart`). Whatever
fails ends the process (`log.Fatalf`), and the orchestrator starts it again.

### Catalog

A row's id is its place in the sequence, and an account is named by its email. A
token carries the claims of `auth.Claims`; `proof`, the password it was issued for,
`by`, the maker of a tier, and `had`, the tiers there were when `Get` read the event, are
history that only properties read. A request begins with its middleware: `Authorize`
(`Middleware` and `RequireRole`) or `optionalAuth` keeps the claims of the token in
`call`, and from then on nobody looks at the token again. The statements follow, each a step:
`CreateEvent`, `Publish` and `List` have one, `CreateTier` (`OwnsEvent`, `InsertTier`) and
`Get` (`GetEvent`, `ListTiers`) two. Tokens expire and other requests run between any two of
these steps, so the right of a write is the claims of its request, not a token that is
still accepted. `Refuse` is every other answer. A request that the middleware turns away
changes nothing and is no step. An answer stays in `call` until the client's next
request, so that `AnswersHold` speaks of what a reader still looks at while the rows
change. Only `List` uses the claims of a reader; `Get` shows any row (section 4).
`SellTicket` stands for the commit of `Payment`. bcrypt and the HMAC are taken as
perfect. A load (`Loads`) gives the initial rows and the bounds of a behaviour.

### Discovery

`Exec` starts a goroutine for each root field of a document. Its arguments are
unmarshalled as in `generated.go` (a refused one voids the field), then `QueryEvents`
takes a connection for the SELECT, `ReadRows` returns it, `AttachTiers` and `Marshal` do the
same for the tiers, and `Dispatch` waits for all fields. `Matches` is the WHERE clause
with SQL's treatment of NULL; `Wanted` states independently what a filter asks for, in
every dimension, and the properties use only that. A lower price bound asks something of
all tiers of an event, so it can stop being true when a cheaper tier is added: `seen`
remembers the tiers there were when the statement ran, `AnswersMatch` judges an answer by
those, and `NothingMissed` excuses an event that a new tier undercut (`Undercut`).
The trending score is an arbitrary positive
number for events with sales, because it fades with time; any metric serves as
distance. Objects are marshalled with the propagation of Null: a missing non-null
field voids its object, a void element its list, a void root field the answer.
Introspection is left out.

### Platform

A client is connected to one process. It is accepted while the process serves, and
answered while it serves or drains; a crash ends its running requests between any
two of their statements (`Lose`). `CallStep` is a statement or a refusal of a request that
was let in; a statement needs a free connection, which discovery requests may hold, so a
request can wait with its claims while its token expires.

## 3. Runs

| Run | Instance | Shows |
|---|---|---|
| `payment_safety` | 2 intents of 1, 2 or overflowing quantities, tier of 2, 2 handlers, every environment behaviour, 2 faults | no oversell, exactly-once minting, justified refusals, exact rows, one publish, locks protect what was read, settlement is final, `Payment` implements `TicketSale` |
| `payment_retry` | 2 intents, 2 handlers, 2 connections; early delivery, expiry, failing statements, ambiguous commits, lost responses | a 2xx is true, keys have owners, payments settle, handlers that wait for connections and the tier's lock finish |
| `inventory` | 1 reader, 2 sales, 2 handlers with concurrent duplicates, 1 connection, failing Redis calls and reads | cached counts were committed; the cache converges; payments settle and every ticket gets a token |
| `scan_safety` | 3 scanners, valid, refunded, unknown and forged tickets, 3 faults | one admission per life of a key, justified rejections |
| `rate_limit` | 3 requests from one address, limit 2, window 4, delay and skew 1, 1 fault | the limit up to `Slack`, and refusals only when due |
| `dashboard` | 3 purchases, 2 clients with buffers of 2, 3 connections, 2 faults | totals drift by at most one per failure, no send on a closed channel, ordered snapshots, slow clients never stall the consumer |
| `analytics` | 3 purchases at minutes 2, 1 and 4, 2 faults | exact statistics in any order of arrival, a counter that lags by the streams in between, replies that cover the caller's purchase |
| `platform` | 2 processes, 3 migrations, 2 outages; 2 accounts, 2 REST clients, 1 GraphQL request of up to two root fields, 4 documents, 1 connection, LIMIT 2 | migrations in order, complete schemas, truthful tokens and claims, rights, rows that only grow and by requests that were let in for it, answers that hold, match every dimension of the filter and miss nothing, complete or void; all processes serve and all requests end |
| `payment_dead_context` | 1 intent, a cancelled context | **violation** of `PaidSettles` |
| `payment_cap` | 2 concurrent checkouts of one buyer | **violation** of `WithinPurchaseCap` |
| `inventory_stale` | 1 reader | **violation** of `StaleNeverServed` |
| `scan_expiry` | expiring scan keys | **violation** of `AdmittedOnce` |

**Bounds.** Two intents on one tier with room for one of them make the sales
compete; two handlers are enough for two settlements of different purchases and
for two deliveries of the same one. Two faults allow a failure and a failure of
its repair (a failed transaction, then a failed release). The quantity -1
exercises the normalisation, and 15 the overflow: with `GoMax` 15 and `ColMax` 7 it
wraps as soon as a ticket is held. Three scanners give two losers of one race. Six
ticks let a window of four open, fill, empty and fill again. With two
connections both handlers of `payment_retry` are in transactions at once, one of them
waiting for the tier's row that the other holds, and the pool is exhausted by them.
Two handlers of one purchase, which overlap with `"dup"` only, wait for its row in
`payment_safety`; `HandlersFinish` is checked without them. `platform` has five loads, so that each question gets its own small state space:
`ColdStart` (both processes migrate an empty database, with two outages), `Writes` (one
account and one to register, an event and a tier from nothing, one fault), `Readers` (two
clients, one event: one adds a tier or publishes between the two statements of the
other's `Get`), `Restart` (one event, one fault and a process that stops while requests run)
and `Search` (three events, one a draft and one without tiers, date or price, four
documents; a `Limit` of 2 cuts results off). One document bounds the price from both sides,
and a new tier undercuts the lower bound. One connection makes the two root fields of a request
compete. Symmetry is used in safety runs only, over the intents and the workers (`MCPayment`) and over two
requests with the same keys (`MCRateLimit`). Deadlock is not checked where the
instance really ends: all payments answered, or the clock at `MaxTime`.

**Fairness.** Handlers and readers get strong fairness: goroutines are scheduled,
Postgres queues lock waiters and pgxpool queues connection waiters, so one that
can move again and again does move. `Retry` is strong fairness of Stripe's
redelivery of a payment without a 2xx answer, which is its documented service.
The dashboard's consumer goroutine is scheduled (weak fairness) and its process
restarted; WebSocket clients get no fairness, since they may never read.
The orchestrator restarts what exits (`infra/k8s/api.yaml` is a Deployment of three
replicas with a liveness probe), so the steps of a starting process get weak
fairness; requests (`CallStep`, `GraphQLStep`) get strong fairness because pgxpool serves its
waiters in turn.
Outages are bounded, so `EveryoneServes` says that processes stop making each other
fail; the timeout of the router is not needed for `RequestsEnd`.
Cache entries expire (weak fairness of the TTL). Customers need not pay, and
faults need not happen.

## 4. Findings

Each is a run that TLC refutes, against a sentence of the repository.

1. **Release on a dead context** (`payment.go:171`). `release` uses the request's
   context. When the transaction failed because that context ended, the DEL fails
   too, the retry meets the key, is answered 200 as a duplicate, and the paid
   purchase stays pending, also after the key has expired, because Stripe has its
   2xx. `idempotency.go:36`: "release removes the key so a failed attempt can be
   retried by Stripe."
2. **Cap by check-then-act** (`payment.go:109`). Two concurrent checkouts read the
   same holdings. `payment.go:41`: "max tickets a buyer may hold per event".
3. **Stale fill** (`inventory.go:58`). A reader stores a count it selected before a
   commit after the invalidation. `inventory.go:62`: "stale inventory is never
   served".
4. **Admission after the key's TTL** (`validator.go:67`). The status test rejects
   only refunded tickets. `validator.go:25`: "every other scan (concurrent or
   later) observes the key and is rejected as already-scanned".

Further disagreements follow from the model and have no run of their own. The passing
runs leave out the environment behaviours under which their properties fail by these
paths, or state the property so that it allows for them:

- **A duplicate acknowledged too early** (`payment.go:163`). A delivery that meets the key
  is answered 200 even when the key says processing. If its owner then fails, its release
  and its 500 come too late: Stripe has a 2xx and the paid purchase stays pending, as in
  finding 1. `PaidSettles` fails with `"dup"` and `"db"` together.
- **SETNX sent again** (`idempotency.go:27`). `cache.go:13` leaves go-redis's retries at
  their default. When the reply of the command that created the key is lost, the repeated
  one says false and nobody owns the key, although `idempotency.go:24-25` says "It returns
  true to exactly one caller (the first)". `KeyHasOwner` and `PaidSettles` fail with
  `"reply"`.
- **The same at the door** (`validator.go:72`). The scan that created the key is rejected as
  already scanned and nobody is admitted, although `validator.go:25` says "the one call
  that creates the key wins and admits". `TurnedAwayJustified` counts this case as
  `unheard`.
- **A crash** of the handler that owns a key (`payment.go:162`): the key survives the
  process, as in finding 1. `PaidSettles` fails with `"crash"`.
- **Drafts shown by Get** (`internal/event/handlers.go:40`). `server.go:58`, in front of `List`
  and `Get`, says "Optional auth: attach claims when present so organizers see drafts."
  `Get` does not look at the claims and shows a draft to whoever has its id.
  `AnswersHold` therefore says of `List` only that drafts are for organizers.
- **Tokens are not issued again.** `TokensIssued` fails with any fault in
  `IssueForPurchase`, which nothing calls again, although `payment.go:180` says the tickets
  "can be re-issued".

## 5. Proofs

`PaymentProofs` proves for all sets of intents, buyers, tiers and workers (the
intents and workers finite), all capacities, caps, pool sizes and environments:

- `TypeCorrect`, `SafetyInvariant` (`Spec => []SafetyInv`), `NeverOversold`,
  `ExactlyOnceMint`, `RefusalJustified`, `PublishAtMostOnce`;
- `SettledForGood`, an action property;
- `RefinesSale`: `Payment` implements `TicketSale`.

`LocksHold` is the part of the invariant that says what the row locks protect. The
other properties are not inductive by themselves. `SafetyInv` adds `WellFormed` (a
handler has a job while it runs and locks only rows that exist; rows have positive
quantities), `LocksProtect` (no two transactions hold the same row, and the
status and the count read under the locks are still true at the commit) and
`CreatedOnce` (at most one handler reports a purchase as created, and it has not
published before). No oversell follows because the capacity test of `lockTier`
still holds at the commit; exactly-once minting because a purchase in `mint` is
pending or failed and so has no tickets; final refusals because `sold` never falls.
The refinement maps a commit to `Complete` or `Refuse`, the insert to `Open`, and
everything else, a second refusal included, to a stutter.

`PaymentProofs` goes on with results that need more than `SafetyInv`:

- `RowsAreExact` (`RowsExact`), for all integer widths with `Room`: an int64 holds
  `PurchaseCap` tickets for every request and a column value on top. With the real
  widths that takes more than 2^62 tickets to break. `RowsInv` says that a request past the
  cap test has a quantity within the cap or one that the column refuses: a sum that
  wrapped had a quantity above `GoMax - Held(i)`. `Held` is the SUM written as the number
  of tickets, which bounds it without an induction over the rows.
- `KeysOwned` (`KeyHasOwner`), when the environment is `Undisturbed`: no failing or
  unanswered Redis command, no cancelled context, no crash. `KeyInv` says that a
  processing key has a handler between its SETNX and the command that ends it.
- `AcksAreTrue` (`AckedSettled`), when also `"dup"` is not in the environment. `AckInv` adds
  that no two handlers have the same job, that a completed key means a completed
  purchase, and what the outcome of a handler that is about to answer means. Both
  hypotheses are those of `payment_retry`. They are needed: finding 1 and the paths
  listed after the findings break the properties without them. Expiring keys, failing
  statements, ambiguous commits and lost responses are allowed.
- `CacheOnlyCommitted` (`CacheCommitted`) for `Inventory` with any readers and every
  environment, and `SafeBesideReaders`: `SafetyInv` holds of the composition, because a
  reader writes nothing but cached counts. `CacheCommitted` also covers counts between
  SELECT and SET and is inductive given `SafetyInv` and types (`CacheInv`), because `sold`
  never falls.

`TicketScanProofs` proves `OneAdmission`: at most one admission per life of a scan
key, for any number of scanners, tickets and faults. `GateInv` adds that a scan
that won holds the key alone and has not used its admission. `RejectionsJustified`
(`TurnedAwayJustified`) follows from `ClaimInv`: a key that exists, like a ticket that was
turned away, is `Claimed`, by an admission, by a scan about to give it, by one that died
or failed, or by one that created the key without hearing of it. The last is the rejected
scan itself, so the theorem does not say that somebody else caused a rejection.

`RateLimitProofs` proves `LimitHolds` and `RefusalsJustified` for every limit,
window, delay and skew. `WindowInv` says that a running script's timestamp is
within the delay and the skew, that a key outlives its entries by a window, and
that an entry missing from the sorted set is older than `Window - Slack`; the
entries a script counts therefore include every admission of the interval.

`DashboardProofs` proves `TotalsAccount` and `NoSendOnClosed`. The account is
inductive as it stands, given types: every failure moves it by at most one.
`HubInv` adds that registered clients have open channels and that a broadcast
visits registered clients only. `SnapshotsInOrder` (`SnapshotsOrdered`) rests on `SnapInv`:
a snapshot under way is the present total or zero, and what a client was shown, what
its channel holds and the total are in order.

`AnalyticsProofs` proves `StatsAreExact`, `CounterExactLag` and `AcksCover` for any finite set of
purchases, any order of their times and any faults and restarts. `AnalyticsInv` is the
conjunction of `StreamInv` (before the fold a running stream's purchase is not applied, after
it it is), `FoldInv` (count, first and last time are those of the applied purchases) and two
of the properties themselves. That callers who were told no more than a total
are no more than it is kept because the counter is incremented before a stream reads it.

`StartupProofs` proves `MigrationsInOrder` and `ServesOnlyMigrated` for any number of
processes, migrations and outages. `StartupInv` adds `StepsBehind`: the migrations before
the one a process is at are recorded, and one it is about to record is applied. Two
processes at the same migration, or one that comes back to it, therefore cannot
leave a gap.

`CatalogProofs` proves `TokensAreTruthful`, `RightsAreHeld`, `AnswersStand` and
`CatalogOnlyGrows` for any accounts, clients, rows and failures. `CatalogInv` adds what is
true between two statements: the claims of a running request still speak for their
account although the token may have expired, a tier about to be inserted has been
authorised by a right that still holds (`Authorised`), and an event row read before the
tiers is published if it was then (`AnswerStands`). All are kept because accounts are
never replaced (`UsersKept`) and rows only grow (`Grows`), which is proved first. `Grows`
also says by whom: whatever a step publishes or adds, a request that was let in with
claims of the owner (or, for a tier, of its maker) was running.

`PlatformProofs` carries both invariants over to the composition
(`PlatformInvariant`, `PlatformServes`, `PlatformRights`, `PlatformGrows`): a step of
`Platform` is one of `Startup` or none for the processes, and one of `Catalog` or one
that only ends requests for the rows.

`PlatformProofs` also proves `AnswersStayTrue` (`AnswersMatch`), `NoEventMissed` (`NothingMissed`) and
`SnapshotsFit` (`TiersCoverPrice`) for any filters, rows, limits and requests. `DiscoveryInv`
says of every root field that the events due to it, until they are read, and the rows it
has read match the filter over the tiers seen (`FieldOK`, `RowOK`), that a lowest price is
that of an existing tier, that the tiers shown bound the present counts (`ShownOK`), and
that the rows are complete once they are read, apart from events that a newer tier
undercut (`Complete`), and the tiers cover the prices (`Covered`).
Each part is kept because rows only grow. Besides that the argument is about
the query: the lowest price exists and is least (`MinPriceLeast`), the WHERE clause and
`Wanted` agree on every dimension, NULLs included (`MatchesWanted`), and a result cut off
by the LIMIT leaves out only rows that may come last (`OrderedComplete`, by counting: an
injection into a finite set of the same size is onto). `DiscoveryInv` ranges over all
steps of the composition, a process that stops between the two statements included.
`AnswersWhole` (`AllOrNothing`) has an invariant of its own, `ShapeInv`: what a root field
has read has the types of the columns, and a field that is done has failed, or has one
object of the selection for every row; an answer is void or made of those. It follows
that no non-null field is ever missing, so that Null propagates from errors only.

The type invariants of the components (`ScanTypeOK`, `LimitTypeOK`, `DashboardTypeOK`,
`StartupTypeOK`, `CatalogTypeOK`) are conjuncts of these inductive invariants: they are
proved, and no run repeats them.

The assumptions are the named ones of the modules (`ConstAssumption`,
`WidthAssumption`, `FiniteAssumption`, `ScanAssumption`, `LimitAssumption`,
`DashboardAssumption`, `AnalyticsAssumption`, `StartupAssumption`, `CatalogAssumption`,
`DiscoveryAssumption`, `DocumentAssumption`, `NullAssumption`, `PlatformAssumption`), which TLC
evaluates in the runs. `DocumentAssumption` is what the scalars of the GraphQL schema guarantee: prices and
places are numbers once they are unmarshalled. `DiscoveryAssumption` says that NULL is
neither a number nor a point, `NullAssumption` that it is none of the strings, objects
and lists of an answer, and that documents select fields the schema has.

Only model-checked is liveness (`PaidSettles`, `TokensIssued`, `HandlersFinish`,
`CacheConverges`, `NeverStalls`, `EveryoneServes`, `RequestsEnd`), which rests on fairness.

## 6. Not modelled, and the plan

Every safety property of the passing runs is proved; liveness stays with TLC.

Left out, and why:

- Several replicas in `Dashboard`. Which replica of a consumer group owns the
  partition, and how it changes, is decided inside kafka-go and Kafka.
- The life of sockets and reader goroutines in `Subscribe`, and the Redis mirror of
  analytics as something to be read: nothing in the repository reads it.
- The rest of `generated.go`: introspection, complexity limits, the field contexts and
  the marshallers of scalars carry no state and no decision of this program. The same
  holds for the generated protobuf code.
- PNG files and QR encoding (pure I/O), bcrypt, HMAC and JWT arithmetic, configuration
  and JSON helpers.
- The frontend and the deployment manifests, apart from what fairness takes from them.
