------------------------------ MODULE Catalog ------------------------------
(***************************************************************************)
(* Accounts and bearer tokens (internal/user, internal/auth), events and   *)
(* their ticket tiers (internal/event), behind the routes of               *)
(* internal/server.  A request of an event route is first let in by its    *)
(* middleware, which keeps the claims of the token, and then runs its      *)
(* statements, one per step: between any two of these steps every other    *)
(* request may run and the token may expire.  A request that is not let in *)
(* changes nothing and is not a step.                                      *)
(***************************************************************************)
EXTENDS Integers, Sequences, FiniteSets

CONSTANTS
    NULL,           \* an absent value, in SQL and in JSON
    Emails,         \* users.email; stands for the account's generated id too
    Passwords,
    AskedRoles,     \* what registrations ask for as their role
    Categories,     \* values of events.category, "general" among them
    NewEvents,      \* what organizers send, see Listings
    Prices,         \* price_cents of new tiers
    Capacity,       \* capacity of new tiers
    Clients,        \* REST clients, with one request each at a time
    Loads           \* the initial rows and the bounds of a behaviour, see below

VARIABLES
    users,      \* table users, by email
    tokens,     \* tokens that Parse accepts
    events,     \* table events, in the order of created_at; ids are indexes
    tiers,      \* table ticket_tiers, likewise
    call,       \* the request of each REST client, and its answer
    load,       \* the load of this behaviour
    faults      \* failed calls so far

catalogVars == <<users, tokens, events, tiers, call, load, faults>>

Roles == {"organizer", "buyer", "admin"}
Organisers == {"organizer", "admin"}
Accounts == [role : Roles, password : Passwords]
OrganiserAccounts == [role : Organisers, password : Passwords]

(* The claims of a token; proof, the password it was issued for, is not in  *)
(* the token.                                                               *)
Tokens == [user : Emails, role : Roles, proof : Passwords]

Listings == [category : Categories \cup {""}, lat : Int \cup {NULL},
             lng : Int \cup {NULL}, starts : Int \cup {NULL}]

EventRows == [owner : Emails, state : {"draft", "published"}, category : Categories,
              lat : Int \cup {NULL}, lng : Int \cup {NULL}, starts : Int \cup {NULL}]

(* The column by names who created the tier; the table has no such column.  *)
TierRows == [event : Nat, price : Nat, capacity : Nat, sold : Nat, by : Emails]

(***************************************************************************)
(* The requests of REST clients: let into the writing routes (write) or    *)
(* the reading ones (read, without claims when there was no valid token),  *)
(* between the two statements of CreateTier (tier) and of Get (get), and   *)
(* the answers (got, listed).  had, the tiers there were when Get read the *)
(* event, is for the properties.                                           *)
(***************************************************************************)
Idle == [op |-> "idle"]
Claims == Tokens \cup {NULL}
Calls == {Idle}
    \cup [op : {"write"}, claims : Tokens]
    \cup [op : {"read"}, claims : Claims]
    \cup [op : {"tier"}, claims : Tokens, event : Nat]
    \cup [op : {"get"}, claims : Claims, event : Nat, row : EventRows, had : SUBSET Nat]
    \cup [op : {"got"}, claims : Claims, event : Nat, row : EventRows, had : SUBSET Nat,
          tiers : SUBSET [tier : Nat, remaining : Int]]
    \cup [op : {"listed"}, claims : Claims, events : SUBSET Nat]

(***************************************************************************)
(* A load gives the rows that exist when a behaviour begins, bounds on the *)
(* rows, the sales and the failures, which clients send requests, and what *)
(* is used: accounts and REST reads (rest), the discovery API (graphql).   *)
(***************************************************************************)
LoadOK(l) ==
    /\ l.users \in [Emails -> Accounts \cup {NULL}]
    /\ l.tokens \subseteq Tokens
    /\ l.events \in Seq(EventRows) /\ l.tiers \in Seq(TierRows)
    /\ {l.maxEvents, l.maxTiers, l.maxSold, l.maxFaults} \subseteq Nat
    /\ {l.rest, l.graphql} \subseteq BOOLEAN
    /\ l.clients \subseteq Clients
    /\ \A t \in l.tokens : l.users[t.user] = [role |-> t.role, password |-> t.proof]
    /\ \A k \in DOMAIN l.events : l.users[l.events[k].owner] \in OrganiserAccounts
    /\ \A j \in DOMAIN l.tiers : /\ l.tiers[j].event \in DOMAIN l.events
                                 /\ l.tiers[j].by = l.events[l.tiers[j].event].owner

ASSUME CatalogAssumption ==
    /\ Capacity \in Nat
    /\ Prices \subseteq Nat
    /\ "general" \in Categories
    /\ NewEvents \subseteq Listings
    /\ NULL \notin Accounts \cup Tokens
    /\ \A l \in Loads : LoadOK(l)

CatalogInit ==
    /\ load \in Loads
    /\ users = load.users
    /\ tokens = load.tokens
    /\ events = load.events
    /\ tiers = load.tiers
    /\ call = [c \in Clients |-> Idle]
    /\ faults = 0

Ids == DOMAIN events
TiersOf(k) == {j \in DOMAIN tiers : tiers[j].event = k}
Failure == faults < load.maxFaults /\ faults' = faults + 1

-----------------------------------------------------------------------------
(* Accounts.                                                                *)

(* Mutant: INSERT ... ON CONFLICT (email) DO UPDATE.                        *)
CreateUpsert(m, account) == users' = [users EXCEPT ![m] = account]

(* INSERT INTO users: the unique email refuses a second account.            *)
Create(m, account) ==
    /\ users[m] = NULL
    /\ users' = [users EXCEPT ![m] = account]

GrantedRole(asked) == IF asked \in Organisers THEN asked ELSE "buyer"

Issue(m, role, pw) == tokens' = tokens \cup {[user |-> m, role |-> role, proof |-> pw]}

(* A failed INSERT is answered 409, whatever failed; when only its answer   *)
(* was lost the account exists, without a token.                            *)
Register(m, pw, asked) ==
    LET role == GrantedRole(asked) IN
    /\ load.rest
    /\ Create(m, [role |-> role, password |-> pw])
    /\ \/ Issue(m, role, pw) /\ UNCHANGED faults
       \/ Failure /\ UNCHANGED tokens
    /\ UNCHANGED <<events, tiers, call, load>>

Login(m, pw) ==
    /\ load.rest
    /\ users[m] # NULL /\ users[m].password = pw
    /\ Issue(m, users[m].role, pw)
    /\ UNCHANGED <<users, events, tiers, call, load, faults>>

(* The 24 hours of a token end.                                             *)
Expire(t) ==
    /\ load.rest
    /\ t \in tokens
    /\ tokens' = tokens \ {t}
    /\ UNCHANGED <<users, events, tiers, call, load, faults>>

-----------------------------------------------------------------------------
(* The requests of the event routes.                                        *)

Ready(c) == call[c].op \in {"idle", "got", "listed"}
SetCall(c, x) == call' = [call EXCEPT ![c] = x]

(* Middleware and RequireRole of the writing routes.  The account is not    *)
(* looked up, and the token is not looked at again.                         *)
Authorize(c, t) ==
    /\ c \in load.clients /\ Ready(c)
    /\ t \in tokens /\ t.role \in Organisers
    /\ SetCall(c, [op |-> "write", claims |-> t])
    /\ UNCHANGED <<users, tokens, events, tiers, load, faults>>

(* The reading routes: a token that Parse refuses counts as none.           *)
optionalAuth(c, t) ==
    /\ load.rest /\ c \in load.clients /\ Ready(c)
    /\ t \in tokens \cup {NULL}
    /\ SetCall(c, [op |-> "read", claims |-> t])
    /\ UNCHANGED <<users, tokens, events, tiers, load, faults>>

(* The other answers, without effect: 400, also of a CreateTier whose body  *)
(* is decoded after OwnsEvent, 403 of an event that is not the caller's,    *)
(* 404, or 500 when the first statement failed.                             *)
Refuse(c) ==
    /\ call[c].op \in {"write", "read", "tier"}
    /\ SetCall(c, Idle)
    /\ UNCHANGED <<users, tokens, events, tiers, load, faults>>

nz(v, default) == IF v = "" THEN default ELSE v

(* CreateEvent and Publish: when the statement fails with effect the answer *)
(* is 500 instead of 201 or 200.                                            *)
CreateEvent(c, l) ==
    /\ call[c].op = "write"
    /\ Len(events) < load.maxEvents
    /\ events' = Append(events, [owner |-> call[c].claims.user, state |-> "draft",
                                 category |-> nz(l.category, "general"),
                                 lat |-> l.lat, lng |-> l.lng, starts |-> l.starts])
    /\ SetCall(c, Idle)
    /\ UNCHANGED <<users, tokens, tiers, load, faults>>

(* Mutant: any organizer may publish.                                       *)
PublishAny(c, k) ==
    /\ call[c].op = "write"
    /\ events' = [events EXCEPT ![k].state = "published"]
    /\ SetCall(c, Idle)
    /\ UNCHANGED <<users, tokens, tiers, load, faults>>

(* UPDATE events SET state='published' WHERE id=$1 AND organizer_id=$2.     *)
Publish(c, k) ==
    /\ call[c].op = "write"
    /\ events[k].owner = call[c].claims.user
    /\ events' = [events EXCEPT ![k].state = "published"]
    /\ SetCall(c, Idle)
    /\ UNCHANGED <<users, tokens, tiers, load, faults>>

(* Mutant: a token of an organizer is enough when the event is not theirs.  *)
OwnsEventOrToken(c, k) ==
    /\ call[c].op = "write" /\ Len(tiers) < load.maxTiers
    /\ SetCall(c, [op |-> "tier", claims |-> call[c].claims, event |-> k])
    /\ UNCHANGED <<users, tokens, events, tiers, load, faults>>

(* CreateTier, first statement: the event exists and is the caller's, or    *)
(* the caller is an administrator.                                          *)
OwnsEvent(c, k) ==
    /\ call[c].op = "write" /\ Len(tiers) < load.maxTiers
    /\ events[k].owner = call[c].claims.user \/ call[c].claims.role = "admin"
    /\ SetCall(c, [op |-> "tier", claims |-> call[c].claims, event |-> k])
    /\ UNCHANGED <<users, tokens, events, tiers, load, faults>>

AddTier(k, price, by) ==
    tiers' = Append(tiers, [event |-> k, price |-> price, capacity |-> Capacity,
                            sold |-> 0, by |-> by])

(* CreateTier, second statement.  A failed INSERT may have taken effect.    *)
InsertTier(c, price) ==
    /\ call[c].op = "tier"
    /\ \/ AddTier(call[c].event, price, call[c].claims.user) /\ UNCHANGED faults
       \/ AddTier(call[c].event, price, call[c].claims.user) /\ Failure
       \/ UNCHANGED tiers /\ Failure
    /\ SetCall(c, Idle)
    /\ UNCHANGED <<users, tokens, events, load>>

(* Package payment sells a ticket of the tier: its transaction's UPDATE.    *)
SellTicket(j) ==
    /\ tiers[j].sold < load.maxSold
    /\ tiers[j].sold < tiers[j].capacity
    /\ tiers' = [tiers EXCEPT ![j].sold = @ + 1]
    /\ UNCHANGED <<users, tokens, events, call, load, faults>>

(* Get, first statement: the row of events, whatever its state and whoever  *)
(* asks.                                                                    *)
GetEvent(c, k) ==
    /\ call[c].op = "read"
    /\ SetCall(c, [op |-> "get", claims |-> call[c].claims, event |-> k, row |-> events[k],
                   had |-> TiersOf(k)])
    /\ UNCHANGED <<users, tokens, events, tiers, load, faults>>

(* Get, second statement: ListTiers; the answer joins the two.  An error    *)
(* of it is answered 500.                                                   *)
ListTiers(c) ==
    /\ call[c].op = "get"
    /\ \/ /\ SetCall(c, [op |-> "got", claims |-> call[c].claims, event |-> call[c].event,
                         row |-> call[c].row, had |-> call[c].had,
                         tiers |-> {[tier |-> j, remaining |-> tiers[j].capacity - tiers[j].sold] :
                                       j \in TiersOf(call[c].event)}])
          /\ UNCHANGED faults
       \/ SetCall(c, Idle) /\ Failure
    /\ UNCHANGED <<users, tokens, events, tiers, load>>

(* Mutant: every valid token shows the drafts.                              *)
ListToAll(claims) == IF claims # NULL THEN Ids ELSE {k \in Ids : events[k].state = "published"}

(* List: only organizers see drafts.                                        *)
ListFor(claims) ==
    IF claims # NULL /\ claims.role \in Organisers
    THEN Ids ELSE {k \in Ids : events[k].state = "published"}

List(c) ==
    /\ call[c].op = "read"
    /\ SetCall(c, [op |-> "listed", claims |-> call[c].claims, events |-> ListFor(call[c].claims)])
    /\ UNCHANGED <<users, tokens, events, tiers, load, faults>>

-----------------------------------------------------------------------------
BeginCall(c) ==
    \/ \E t \in tokens : Authorize(c, t)
    \/ \E t \in tokens \cup {NULL} : optionalAuth(c, t)

Statement(c) ==
    \/ \E l \in NewEvents : CreateEvent(c, l)
    \/ \E k \in Ids : Publish(c, k) \/ OwnsEvent(c, k) \/ GetEvent(c, k)
    \/ \E price \in Prices : InsertTier(c, price)
    \/ ListTiers(c) \/ List(c)

AccountStep ==
    \E m \in Emails, pw \in Passwords : Login(m, pw) \/ \E r \in AskedRoles : Register(m, pw, r)

CatalogNext ==
    \/ AccountStep
    \/ \E t \in tokens : Expire(t)
    \/ \E j \in DOMAIN tiers : SellTicket(j)
    \/ \E c \in Clients : BeginCall(c) \/ Refuse(c) \/ Statement(c)

CatalogSpec == CatalogInit /\ [][CatalogNext]_catalogVars

-----------------------------------------------------------------------------
CatalogTypeOK ==
    /\ users \in [Emails -> Accounts \cup {NULL}]
    /\ tokens \subseteq Tokens
    /\ events \in Seq(EventRows)
    /\ tiers \in Seq(TierRows)
    /\ \A j \in DOMAIN tiers : tiers[j].event \in Ids
    /\ call \in [Clients -> Calls]
    /\ load \in Loads
    /\ faults \in 0 .. load.maxFaults

(* The claims of a running or answered request.                             *)
Claimed == {call[c].claims : c \in {c \in Clients : call[c].op # "idle"}} \ {NULL}

(* A token speaks for its account as long as it is accepted, and so do the  *)
(* claims of a request after it expired: nobody can register over an        *)
(* account, so role and password are those of the one it was issued to.     *)
(* The routes rely on it: they never read the account.                      *)
TokensTruthful ==
    \A t \in tokens \cup Claimed : users[t.user] = [role |-> t.role, password |-> t.proof]

HasRole(m, roles) == users[m] # NULL /\ users[m].role \in roles

(* Rights outlive the request that used them, even when its token expired   *)
(* between the middleware, OwnsEvent and the INSERT: every event belongs to *)
(* an organizer or administrator, and every tier was made by its event's    *)
(* owner or by an administrator.                                            *)
RightsHeld ==
    /\ \A k \in Ids : HasRole(events[k].owner, Organisers)
    /\ \A j \in DOMAIN tiers : \/ tiers[j].by = events[tiers[j].event].owner
                               \/ HasRole(tiers[j].by, {"admin"})

(* An event keeps its owner and its data, and is published once and for     *)
(* all, by a request that was let in with claims of its owner.  (The token  *)
(* may have expired since.)                                                 *)
EventKept(k) ==
    /\ k \in Ids'
    /\ [events[k] EXCEPT !.state = "draft"] = [events'[k] EXCEPT !.state = "draft"]
    /\ events'[k].state # events[k].state =>
          /\ events'[k].state = "published"
          /\ \E c \in Clients : call[c].op = "write" /\ call[c].claims.user = events[k].owner

(* A tier keeps its event and price and never takes a sale back.            *)
TierKept(j) ==
    /\ j \in DOMAIN tiers'
    /\ [tiers[j] EXCEPT !.sold = 0] = [tiers'[j] EXCEPT !.sold = 0]
    /\ tiers'[j].sold >= tiers[j].sold

EventAdded(k) ==
    \E c \in Clients : call[c].op = "write" /\ call[c].claims.user = events'[k].owner

TierAdded(j) ==
    \E c \in Clients : call[c].op = "tier" /\ call[c].event = tiers'[j].event
                                          /\ call[c].claims.user = tiers'[j].by

Grows ==
    /\ \A k \in Ids : EventKept(k)
    /\ \A k \in Ids' \ Ids : EventAdded(k)
    /\ \A j \in DOMAIN tiers : TierKept(j)
    /\ \A j \in DOMAIN tiers' \ DOMAIN tiers : TierAdded(j)

(* What readers that use two statements rely on: a step keeps the rows      *)
(* there were, and what it publishes or adds is what a running request was  *)
(* let in for, whatever became of its token.                                *)
CatalogGrows == [][Grows]_catalogVars

(* An answer of Get joins two statements, between which tiers are added and *)
(* tickets sold; an answer of List outlives the token it was made for.      *)
(* What they say is not taken back.  Get: an event shown as published is,   *)
(* the shown tiers are the event's and include those there were when the    *)
(* event was read, and their counts bound the present ones.  List: drafts   *)
(* were shown to accounts of organizers alone.  Get shows a draft to        *)
(* whoever asks, so nothing of the kind is said of it.                      *)
AnswersHold ==
    \A c \in Clients :
        /\ call[c].op = "got" =>
              /\ call[c].row.state = "published" => events[call[c].event].state = "published"
              /\ call[c].had \subseteq {s.tier : s \in call[c].tiers}
              /\ \A s \in call[c].tiers :
                    /\ tiers[s.tier].event = call[c].event
                    /\ s.remaining \in tiers[s.tier].capacity - tiers[s.tier].sold
                                         .. tiers[s.tier].capacity
        /\ call[c].op = "listed" =>
              \/ \A k \in call[c].events : events[k].state = "published"
              \/ call[c].claims # NULL /\ users[call[c].claims.user].role \in Organisers
=============================================================================
