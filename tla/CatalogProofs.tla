--------------------------- MODULE CatalogProofs ---------------------------
(***************************************************************************)
(* Accounts, tokens and the ownership of events and tiers, for any number  *)
(* of accounts, clients and rows.                                          *)
(***************************************************************************)
EXTENDS Catalog, SequenceTheorems, TLAPS

(* A request that may write is an organizer's; a tier that is about to be   *)
(* inserted has been authorised, by a right that still holds.               *)
Authorised(c) ==
    /\ call[c].op = "write" => call[c].claims.role \in Organisers
    /\ call[c].op = "tier" =>
          /\ call[c].event \in Ids
          /\ \/ call[c].claims.user = events[call[c].event].owner
             \/ HasRole(call[c].claims.user, {"admin"})

(* A published event was shown, or is about to be, with the tiers it had.   *)
ShownEvent(c) ==
    /\ call[c].event \in Ids
    /\ call[c].row.state = "published" => events[call[c].event].state = "published"
    /\ call[c].had \subseteq TiersOf(call[c].event)

(* What a shown tier was is what it is, but for later sales.                *)
ShownTier(c, s) ==
    /\ s.tier \in DOMAIN tiers
    /\ tiers[s.tier].event = call[c].event
    /\ s.remaining \in tiers[s.tier].capacity - tiers[s.tier].sold .. tiers[s.tier].capacity

ShownList(c) ==
    /\ call[c].events \subseteq Ids
    /\ \/ \A k \in call[c].events : events[k].state = "published"
       \/ call[c].claims \in Tokens /\ HasRole(call[c].claims.user, Organisers)

AnswerStands(c) ==
    /\ call[c].op \in {"get", "got"} => ShownEvent(c)
    /\ call[c].op = "got" => /\ call[c].had \subseteq {s.tier : s \in call[c].tiers}
                             /\ \A s \in call[c].tiers : ShownTier(c, s)
    /\ call[c].op = "listed" => ShownList(c)

CatalogInv ==
    /\ CatalogTypeOK
    /\ TokensTruthful
    /\ RightsHeld
    /\ \A c \in Clients : Authorised(c) /\ AnswerStands(c)

-----------------------------------------------------------------------------
(* What one step can do to the rows.                                        *)

(* Accounts are added and never changed.                                    *)
UsersKept == \A m \in Emails : users[m] # NULL => users'[m] = users[m]

LEMMA RowsOf ==
    ASSUME CatalogTypeOK
    PROVE  /\ \A k \in Ids : events[k] \in EventRows /\ k \in Nat
           /\ \A j \in DOMAIN tiers : tiers[j] \in TierRows /\ tiers[j].event \in Ids
           /\ \A t \in tokens : t \in Tokens
           /\ \A c \in Clients : call[c] \in Calls
BY DEF CatalogTypeOK, Ids

(* The kinds of calls are told apart by op.                                 *)
LEMMA WriteCalls ==
    ASSUME NEW x \in Calls, x.op = "write"
    PROVE  x.claims \in Tokens
BY DEF Calls, Idle

LEMMA ReadCalls ==
    ASSUME NEW x \in Calls, x.op = "read"
    PROVE  x.claims \in Claims
BY DEF Calls, Idle

LEMMA TierCalls ==
    ASSUME NEW x \in Calls, x.op = "tier"
    PROVE  x.claims \in Tokens /\ x.event \in Nat
BY DEF Calls, Idle

LEMMA GetCalls ==
    ASSUME NEW x \in Calls, x.op = "get"
    PROVE  x.claims \in Claims /\ x.event \in Nat /\ x.row \in EventRows /\ x.had \in SUBSET Nat
BY DEF Calls, Idle

LEMMA GotCalls ==
    ASSUME NEW x \in Calls, x.op = "got"
    PROVE  x.claims \in Claims /\ x.tiers \subseteq [tier : Nat, remaining : Int]
BY DEF Calls, Idle

LEMMA ListedCalls ==
    ASSUME NEW x \in Calls, x.op = "listed"
    PROVE  x.claims \in Claims
BY DEF Calls, Idle

LEMMA CallKinds ==
    ASSUME NEW x \in Calls
    PROVE  x.op \in {"idle", "write", "read", "tier", "get", "got", "listed"}
BY DEF Calls, Idle

LEMMA CallsBuilt ==
    /\ Idle \in Calls
    /\ \A t \in Tokens : [op |-> "write", claims |-> t] \in Calls
    /\ \A t \in Claims : [op |-> "read", claims |-> t] \in Calls
    /\ \A t \in Tokens, k \in Nat : [op |-> "tier", claims |-> t, event |-> k] \in Calls
    /\ \A t \in Claims, k \in Nat, r \in EventRows, H \in SUBSET Nat :
           [op |-> "get", claims |-> t, event |-> k, row |-> r, had |-> H] \in Calls
    /\ \A t \in Claims, k \in Nat, r \in EventRows, H \in SUBSET Nat,
          S \in SUBSET [tier : Nat, remaining : Int] :
           [op |-> "got", claims |-> t, event |-> k, row |-> r, had |-> H, tiers |-> S] \in Calls
    /\ \A t \in Claims, S \in SUBSET Nat :
           [op |-> "listed", claims |-> t, events |-> S] \in Calls
BY DEF Calls

(* Claims are those of a token.                                             *)
LEMMA ClaimedTokens == ASSUME CatalogTypeOK PROVE Claimed \subseteq Tokens
<1> SUFFICES ASSUME NEW c \in Clients, call[c].op # "idle", call[c].claims # NULL
             PROVE  call[c].claims \in Tokens
  BY DEF Claimed
<1>1. call[c] \in Calls
  BY RowsOf
<1>2. call[c].claims \in Claims
  BY <1>1, CallKinds, WriteCalls, ReadCalls, TierCalls, GetCalls, GotCalls, ListedCalls DEF Claims
<1> QED
  BY <1>2 DEF Claims

LEMMA FailureType ==
    ASSUME load \in Loads, faults \in 0 .. load.maxFaults, Failure, load' = load
    PROVE  faults' \in 0 .. load'.maxFaults
<1>1. load.maxFaults \in Nat
  BY CatalogAssumption DEF LoadOK
<1> QED
  BY <1>1 DEF Failure

LEMMA CatalogInitInv == CatalogInit => CatalogInv
<1> SUFFICES ASSUME CatalogInit PROVE CatalogInv
  OBVIOUS
<1>1. LoadOK(load) /\ load \in Loads
  BY CatalogAssumption DEF CatalogInit
<1>2. CatalogTypeOK
  <2>1. call \in [Clients -> Calls]
    BY CallsBuilt DEF CatalogInit
  <2>2. faults \in 0 .. load.maxFaults
    BY <1>1 DEF CatalogInit, LoadOK
  <2> QED
    BY <1>1, <2>1, <2>2 DEF CatalogInit, CatalogTypeOK, LoadOK, Ids
<1>3. TokensTruthful
  <2>1. Claimed = {}
    BY DEF CatalogInit, Claimed, Idle
  <2> QED
    BY <1>1, <2>1 DEF CatalogInit, LoadOK, TokensTruthful
<1>4. RightsHeld
  <2>1. \A x \in OrganiserAccounts : x # NULL /\ x.role \in Organisers
    BY CatalogAssumption DEF OrganiserAccounts, Accounts, Organisers, Roles
  <2> QED
    BY <1>1, <2>1 DEF CatalogInit, LoadOK, RightsHeld, HasRole, Ids
<1>5. \A c \in Clients : Authorised(c) /\ AnswerStands(c)
  BY DEF CatalogInit, Authorised, AnswerStands, Idle
<1> QED
  BY <1>2, <1>3, <1>4, <1>5 DEF CatalogInv

-----------------------------------------------------------------------------
(* The effect of each write on its table.                                   *)

LEMMA CreateEventEffect ==
    ASSUME CatalogTypeOK, NEW c \in Clients, NEW l \in NewEvents, CreateEvent(c, l)
    PROVE  /\ events' \in Seq(EventRows)
           /\ Ids' = Ids \cup {Len(events) + 1}
           /\ \A k \in Ids : events'[k] = events[k]
           /\ events'[Len(events) + 1].owner = call[c].claims.user
<1> DEFINE t == call[c].claims
           row == [owner |-> t.user, state |-> "draft", category |-> nz(l.category, "general"),
                   lat |-> l.lat, lng |-> l.lng, starts |-> l.starts]
<1>1. t \in Tokens /\ l \in Listings /\ events \in Seq(EventRows)
  BY CatalogAssumption, RowsOf, WriteCalls DEF CatalogTypeOK, CreateEvent
<1>2. nz(l.category, "general") \in Categories
  BY <1>1, CatalogAssumption DEF nz, Listings
<1>3. row \in EventRows
  BY <1>1, <1>2 DEF EventRows, Tokens, Listings
<1>4. events' = Append(events, row)
  BY DEF CreateEvent
<1> HIDE DEF row
<1>5. /\ events' \in Seq(EventRows) /\ Len(events') = Len(events) + 1
      /\ \A k \in 1 .. Len(events) : events'[k] = events[k]
      /\ events'[Len(events) + 1] = row
  BY <1>1, <1>3, <1>4, AppendProperties
<1>6. Ids = 1 .. Len(events) /\ Ids' = 1 .. Len(events) + 1 /\ Len(events) \in Nat
  BY <1>1, <1>5, LenProperties DEF Ids
<1>7. 1 .. Len(events) + 1 = (1 .. Len(events)) \cup {Len(events) + 1}
  BY <1>6
<1> QED
  BY <1>5, <1>6, <1>7 DEF row

LEMMA PublishEffect ==
    ASSUME CatalogTypeOK, NEW c \in Clients, NEW k \in Ids, Publish(c, k)
    PROVE  /\ events' \in Seq(EventRows)
           /\ Ids' = Ids
           /\ \A j \in Ids : events'[j] = IF j = k THEN [events[k] EXCEPT !.state = "published"]
                                                    ELSE events[j]
<1> DEFINE row == [events[k] EXCEPT !.state = "published"]
<1>1. events \in Seq(EventRows) /\ Ids = 1 .. Len(events) /\ events[k] \in EventRows
  BY LenProperties DEF CatalogTypeOK, Ids
<1>2. row \in EventRows
  BY <1>1 DEF EventRows
<1>3. events' = [events EXCEPT ![k] = row]
  BY DEF Publish
<1> HIDE DEF row
<1>4. /\ events' \in Seq(EventRows) /\ Len(events') = Len(events)
      /\ \A j \in 1 .. Len(events) : events'[j] = IF j = k THEN row ELSE events[j]
  BY <1>1, <1>2, <1>3, ExceptSeq
<1>5. Ids' = 1 .. Len(events')
  BY <1>4, LenProperties DEF Ids
<1> QED
  BY <1>1, <1>4, <1>5 DEF row

LEMMA AddTierEffect ==
    ASSUME CatalogTypeOK, NEW k \in Ids, NEW price \in Prices, NEW m \in Emails,
           AddTier(k, price, m)
    PROVE  /\ tiers' \in Seq(TierRows)
           /\ DOMAIN tiers' = DOMAIN tiers \cup {Len(tiers) + 1}
           /\ \A j \in DOMAIN tiers : tiers'[j] = tiers[j]
           /\ tiers'[Len(tiers) + 1].event = k /\ tiers'[Len(tiers) + 1].by = m
<1> DEFINE row == [event |-> k, price |-> price, capacity |-> Capacity, sold |-> 0, by |-> m]
<1>1. tiers \in Seq(TierRows) /\ k \in Nat
  BY RowsOf DEF CatalogTypeOK
<1>2. row \in TierRows
  BY <1>1, CatalogAssumption DEF TierRows
<1>3. tiers' = Append(tiers, row)
  BY DEF AddTier
<1> HIDE DEF row
<1>4. /\ tiers' \in Seq(TierRows) /\ Len(tiers') = Len(tiers) + 1
      /\ \A j \in 1 .. Len(tiers) : tiers'[j] = tiers[j]
      /\ tiers'[Len(tiers) + 1] = row
  BY <1>1, <1>2, <1>3, AppendProperties
<1>5. DOMAIN tiers = 1 .. Len(tiers) /\ DOMAIN tiers' = 1 .. Len(tiers) + 1 /\ Len(tiers) \in Nat
  BY <1>1, <1>4, LenProperties
<1>6. 1 .. Len(tiers) + 1 = (1 .. Len(tiers)) \cup {Len(tiers) + 1}
  BY <1>5
<1> QED
  BY <1>4, <1>5, <1>6 DEF row

LEMMA SellTicketEffect ==
    ASSUME CatalogTypeOK, NEW j \in DOMAIN tiers, SellTicket(j)
    PROVE  /\ tiers' \in Seq(TierRows)
           /\ DOMAIN tiers' = DOMAIN tiers
           /\ \A i \in DOMAIN tiers : tiers'[i] = IF i = j THEN [tiers[j] EXCEPT !.sold = @ + 1]
                                                          ELSE tiers[i]
<1> DEFINE n == tiers[j].sold + 1
           row == [tiers[j] EXCEPT !.sold = n]
<1>1. tiers \in Seq(TierRows) /\ DOMAIN tiers = 1 .. Len(tiers) /\ tiers[j] \in TierRows
  BY LenProperties, RowsOf DEF CatalogTypeOK
<1>2. row \in TierRows
  <2>1. n \in Nat
    BY <1>1 DEF TierRows
  <2> HIDE DEF n
  <2> QED
    BY <1>1, <2>1 DEF TierRows
<1>3. tiers' = [tiers EXCEPT ![j] = row]
  BY DEF SellTicket
<1> HIDE DEF row
<1>4. /\ tiers' \in Seq(TierRows) /\ Len(tiers') = Len(tiers)
      /\ \A i \in 1 .. Len(tiers) : tiers'[i] = IF i = j THEN row ELSE tiers[i]
  BY <1>1, <1>2, <1>3, ExceptSeq
<1>5. DOMAIN tiers' = 1 .. Len(tiers')
  BY <1>4, LenProperties
<1> QED
  BY <1>1, <1>4, <1>5 DEF row

(* After the step t speaks for its account.                                 *)
Speaks(t) == users'[t.user] = [role |-> t.role, password |-> t.proof]

(* An account is only ever put where there is none.                         *)
LEMMA RegisterEffect ==
    ASSUME CatalogTypeOK,
           NEW m \in Emails, NEW pw \in Passwords, NEW r \in AskedRoles, Register(m, pw, r)
    PROVE  /\ users' \in [Emails -> Accounts \cup {NULL}] /\ tokens' \subseteq Tokens
           /\ UsersKept /\ \A t \in tokens' \ tokens : Speaks(t)
<1> DEFINE role == GrantedRole(r)
<1>1. role \in Roles
  BY DEF GrantedRole, Organisers, Roles
<1>2. users[m] = NULL /\ users' = [users EXCEPT ![m] = [role |-> role, password |-> pw]]
  BY DEF Register, Create
<1>3. tokens' \subseteq tokens \cup {[user |-> m, role |-> role, proof |-> pw]}
  BY DEF Register, Issue
<1> HIDE DEF role
<1>4. users' \in [Emails -> Accounts \cup {NULL}]
  BY <1>1, <1>2 DEF CatalogTypeOK, Accounts
<1>5. tokens' \subseteq Tokens
  BY <1>1, <1>3 DEF CatalogTypeOK, Tokens
<1>6. UsersKept
  BY <1>2 DEF UsersKept, CatalogTypeOK
<1>7. ASSUME NEW t \in tokens' \ tokens PROVE Speaks(t)
  BY <1>2, <1>3 DEF CatalogTypeOK, Speaks
<1> QED
  BY <1>4, <1>5, <1>6, <1>7

LEMMA LoginEffect ==
    ASSUME CatalogTypeOK, NEW m \in Emails, NEW pw \in Passwords, Login(m, pw)
    PROVE  /\ tokens' \subseteq Tokens
           /\ UsersKept /\ \A t \in tokens' \ tokens : Speaks(t)
<1>1. users[m] \in Accounts /\ users[m].password = pw /\ users' = users
  BY DEF Login, CatalogTypeOK
<1>2. tokens' = tokens \cup {[user |-> m, role |-> users[m].role, proof |-> pw]}
  BY DEF Login, Issue
<1>3. tokens' \subseteq Tokens
  BY <1>1, <1>2 DEF CatalogTypeOK, Tokens, Accounts
<1>4. users[m] = [role |-> users[m].role, password |-> pw]
  BY <1>1 DEF Accounts
<1> QED
  BY <1>1, <1>2, <1>3, <1>4 DEF Speaks, UsersKept

-----------------------------------------------------------------------------
(* A request of client c is at a new stage, which leaves the rows alone.    *)
CallEffect(c, x) ==
    /\ call' = [call EXCEPT ![c] = x]
    /\ UNCHANGED <<users, tokens, events, tiers, load>>

LEMMA CallType ==
    ASSUME CatalogTypeOK, NEW c \in Clients, NEW x \in Calls, CallEffect(c, x),
           faults' \in 0 .. load'.maxFaults
    PROVE  CatalogTypeOK'
BY DEF CatalogTypeOK, CallEffect, Ids

(* The steps that only move a request.                                      *)
Moves(c) ==
    \/ BeginCall(c) \/ Refuse(c)
    \/ \E k \in Ids : OwnsEvent(c, k) \/ GetEvent(c, k)
    \/ ListTiers(c) \/ List(c)

LEMMA MoveEffect ==
    ASSUME CatalogTypeOK, NEW c \in Clients, Moves(c)
    PROVE  /\ \E x \in Calls : CallEffect(c, x)
           /\ faults' \in 0 .. load'.maxFaults
<1> DEFINE x == call'[c]
<1>0. call[c] \in Calls /\ faults \in 0 .. load.maxFaults /\ load \in Loads
  BY RowsOf DEF CatalogTypeOK
<1>1. ASSUME NEW t \in tokens, Authorize(c, t)
      PROVE  x \in Calls /\ CallEffect(c, x) /\ UNCHANGED faults
  <2>1. x = [op |-> "write", claims |-> t] /\ t \in Tokens
    BY <1>1, RowsOf DEF Authorize, SetCall, CatalogTypeOK
  <2>2. call' = [call EXCEPT ![c] = [op |-> "write", claims |-> t]]
    BY <1>1 DEF Authorize, SetCall
  <2> QED
    BY <1>1, <2>1, <2>2, CallsBuilt DEF Authorize, CallEffect
<1>2. ASSUME NEW t \in tokens \cup {NULL}, optionalAuth(c, t)
      PROVE  x \in Calls /\ CallEffect(c, x) /\ UNCHANGED faults
  <2>1. x = [op |-> "read", claims |-> t] /\ t \in Claims
    BY <1>2, RowsOf DEF optionalAuth, SetCall, CatalogTypeOK, Claims
  <2>2. call' = [call EXCEPT ![c] = [op |-> "read", claims |-> t]]
    BY <1>2 DEF optionalAuth, SetCall
  <2> QED
    BY <1>2, <2>1, <2>2, CallsBuilt DEF optionalAuth, CallEffect
<1>3. ASSUME Refuse(c) PROVE x \in Calls /\ CallEffect(c, x) /\ UNCHANGED faults
  <2>1. x = Idle
    BY <1>3 DEF Refuse, SetCall, CatalogTypeOK
  <2> QED
    BY <1>3, <2>1, CallsBuilt DEF Refuse, SetCall, CallEffect
<1>4. ASSUME NEW k \in Ids, OwnsEvent(c, k)
      PROVE  x \in Calls /\ CallEffect(c, x) /\ UNCHANGED faults
  <2> DEFINE y == [op |-> "tier", claims |-> call[c].claims, event |-> k]
  <2>1. x = y /\ call' = [call EXCEPT ![c] = y]
    BY <1>4 DEF OwnsEvent, SetCall, CatalogTypeOK
  <2>2. call[c].claims \in Tokens /\ k \in Nat
    BY <1>0, <1>4, RowsOf, WriteCalls DEF OwnsEvent
  <2>3. y \in Calls
    BY <2>2, CallsBuilt
  <2> HIDE DEF y
  <2> QED
    BY <1>4, <2>1, <2>3 DEF OwnsEvent, CallEffect
<1>5. ASSUME NEW k \in Ids, GetEvent(c, k)
      PROVE  x \in Calls /\ CallEffect(c, x) /\ UNCHANGED faults
  <2> DEFINE y == [op |-> "get", claims |-> call[c].claims, event |-> k, row |-> events[k],
                   had |-> TiersOf(k)]
  <2>1. x = y /\ call' = [call EXCEPT ![c] = y]
    BY <1>5 DEF GetEvent, SetCall, CatalogTypeOK
  <2>2. call[c].claims \in Claims /\ k \in Nat /\ events[k] \in EventRows
    BY <1>0, <1>5, RowsOf, ReadCalls DEF GetEvent
  <2>3. TiersOf(k) \in SUBSET Nat
    BY LenProperties DEF TiersOf, CatalogTypeOK
  <2>4. y \in Calls
    BY <2>2, <2>3, CallsBuilt
  <2> HIDE DEF y
  <2> QED
    BY <1>5, <2>1, <2>4 DEF GetEvent, CallEffect
<1>6. ASSUME ListTiers(c)
      PROVE  x \in Calls /\ CallEffect(c, x) /\ (UNCHANGED faults \/ Failure)
  <2> DEFINE shown == {[tier |-> j, remaining |-> tiers[j].capacity - tiers[j].sold] :
                          j \in TiersOf(call[c].event)}
             got == [op |-> "got", claims |-> call[c].claims, event |-> call[c].event,
                     row |-> call[c].row, had |-> call[c].had, tiers |-> shown]
  <2>1. /\ call[c].claims \in Claims /\ call[c].event \in Nat
        /\ call[c].row \in EventRows /\ call[c].had \in SUBSET Nat
    BY <1>0, <1>6, GetCalls DEF ListTiers
  <2>2. \A j \in TiersOf(call[c].event) :
            j \in Nat /\ tiers[j].capacity - tiers[j].sold \in Int
    BY RowsOf, LenProperties DEF TiersOf, CatalogTypeOK, TierRows
  <2>3. shown \in SUBSET [tier : Nat, remaining : Int]
    BY <2>2
  <2>4. got \in Calls /\ Idle \in Calls
    BY <2>1, <2>3, CallsBuilt
  <2>5. \/ call' = [call EXCEPT ![c] = got] /\ UNCHANGED faults
        \/ call' = [call EXCEPT ![c] = Idle] /\ Failure
    BY <1>6 DEF ListTiers, SetCall
  <2> HIDE DEF got
  <2>6. UNCHANGED <<users, tokens, events, tiers, load>>
    BY <1>6 DEF ListTiers
  <2> QED
    BY <2>4, <2>5, <2>6 DEF CallEffect, CatalogTypeOK
<1>7. ASSUME List(c) PROVE x \in Calls /\ CallEffect(c, x) /\ UNCHANGED faults
  <2> DEFINE y == [op |-> "listed", claims |-> call[c].claims, events |-> ListFor(call[c].claims)]
  <2>1. x = y /\ call' = [call EXCEPT ![c] = y]
    BY <1>7 DEF List, SetCall, CatalogTypeOK
  <2>2. call[c].claims \in Claims
    BY <1>0, <1>7, ReadCalls DEF List
  <2>3. ListFor(call[c].claims) \in SUBSET Nat
    BY RowsOf DEF ListFor
  <2>4. y \in Calls
    BY <2>2, <2>3, CallsBuilt
  <2> HIDE DEF y
  <2> QED
    BY <1>7, <2>1, <2>4 DEF List, CallEffect
<1> HIDE DEF x
<1>8. x \in Calls /\ CallEffect(c, x) /\ (UNCHANGED faults \/ Failure)
  BY <1>1, <1>2, <1>3, <1>4, <1>5, <1>6, <1>7 DEF Moves, BeginCall
<1>9. load' = load
  BY <1>8 DEF CallEffect
<1> QED
  BY <1>0, <1>8, <1>9, FailureType

(* The row, if any, is the one that was authorised.                         *)
LEMMA InsertTierEffect ==
    ASSUME CatalogInv, NEW c \in Clients, NEW price \in Prices, InsertTier(c, price)
    PROVE  /\ call[c].op = "tier" /\ call[c].event \in Ids /\ call[c].claims.user \in Emails
           /\ AddTier(call[c].event, price, call[c].claims.user) \/ UNCHANGED tiers
           /\ call' = [call EXCEPT ![c] = Idle]
           /\ UNCHANGED <<users, tokens, events, load>>
           /\ faults' \in 0 .. load'.maxFaults
<1>1. call[c].op = "tier" /\ call[c] \in Calls
  BY RowsOf DEF InsertTier, CatalogInv
<1>2. call[c].claims.user \in Emails
  BY <1>1, TierCalls DEF Tokens
<1>3. call[c].event \in Ids
  BY <1>1 DEF CatalogInv, Authorised
<1>4. load' = load /\ load \in Loads /\ faults \in 0 .. load.maxFaults
  BY DEF InsertTier, CatalogInv, CatalogTypeOK
<1>5. faults' \in 0 .. load'.maxFaults
  BY <1>4, FailureType DEF InsertTier
<1> QED
  BY <1>1, <1>2, <1>3, <1>5 DEF InsertTier, SetCall

(* The kinds of steps of a client.                                          *)
LEMMA ClientSteps ==
    ASSUME NEW c \in Clients, BeginCall(c) \/ Refuse(c) \/ Statement(c)
    PROVE  \/ Moves(c)
           \/ \E l \in NewEvents : CreateEvent(c, l)
           \/ \E k \in Ids : Publish(c, k)
           \/ \E price \in Prices : InsertTier(c, price)
BY DEF Moves, Statement

LEMMA CatalogTypeStep ==
    ASSUME CatalogInv, [CatalogNext]_catalogVars
    PROVE  CatalogTypeOK'
<1> USE DEF CatalogInv
<1>1. ASSUME NEW m \in Emails, NEW pw \in Passwords, NEW r \in AskedRoles, Register(m, pw, r)
      PROVE  CatalogTypeOK'
  <2>1. load' = load /\ load \in Loads /\ faults \in 0 .. load.maxFaults
    BY <1>1 DEF Register, CatalogTypeOK
  <2>2. faults' \in 0 .. load'.maxFaults
    BY <1>1, <2>1, FailureType DEF Register
  <2> QED
    BY <1>1, <2>1, <2>2, RegisterEffect DEF Register, CatalogTypeOK, Ids
<1>2. ASSUME NEW m \in Emails, NEW pw \in Passwords, Login(m, pw) PROVE CatalogTypeOK'
  BY <1>2, LoginEffect DEF Login, CatalogTypeOK, Ids
<1>3. ASSUME NEW t \in tokens, Expire(t) PROVE CatalogTypeOK'
  BY <1>3 DEF Expire, CatalogTypeOK, Ids
<1>4. ASSUME NEW c \in Clients, NEW l \in NewEvents, CreateEvent(c, l) PROVE CatalogTypeOK'
  <2>1. call' \in [Clients -> Calls]
    BY <1>4, CallsBuilt DEF CreateEvent, SetCall, CatalogTypeOK
  <2> QED
    BY <1>4, <2>1, CreateEventEffect DEF CreateEvent, CatalogTypeOK
<1>5. ASSUME NEW c \in Clients, NEW k \in Ids, Publish(c, k) PROVE CatalogTypeOK'
  <2>1. call' \in [Clients -> Calls]
    BY <1>5, CallsBuilt DEF Publish, SetCall, CatalogTypeOK
  <2> QED
    BY <1>5, <2>1, PublishEffect DEF Publish, CatalogTypeOK
<1>6. ASSUME NEW j \in DOMAIN tiers, SellTicket(j) PROVE CatalogTypeOK'
  <2>1. \A i \in DOMAIN tiers' : tiers'[i].event = tiers[i].event
    BY <1>6, SellTicketEffect, RowsOf DEF TierRows
  <2> QED
    BY <1>6, <2>1, SellTicketEffect DEF SellTicket, CatalogTypeOK, Ids
<1>7. ASSUME NEW c \in Clients, Moves(c) PROVE CatalogTypeOK'
  BY <1>7, MoveEffect, CallType
<1>8. ASSUME NEW c \in Clients, NEW price \in Prices, InsertTier(c, price)
      PROVE  CatalogTypeOK'
  <2>0. call[c].event \in Ids /\ call[c].claims.user \in Emails /\ CatalogTypeOK
        /\ (AddTier(call[c].event, price, call[c].claims.user) \/ UNCHANGED tiers)
    BY <1>8, InsertTierEffect
  <2>1. tiers' \in Seq(TierRows) /\ \A j \in DOMAIN tiers' : tiers'[j].event \in Ids
    <3>1. CASE AddTier(call[c].event, price, call[c].claims.user)
      BY <2>0, <3>1, AddTierEffect, RowsOf
    <3>2. CASE UNCHANGED tiers
      BY <2>0, <3>2 DEF CatalogTypeOK
    <3> QED
      BY <2>0, <3>1, <3>2
  <2>2. call' \in [Clients -> Calls] /\ Ids' = Ids
    BY <1>8, InsertTierEffect, CallsBuilt DEF CatalogTypeOK, Ids
  <2> QED
    BY <1>8, <2>1, <2>2, InsertTierEffect DEF CatalogTypeOK
<1>9. CASE UNCHANGED catalogVars
  BY <1>9 DEF catalogVars, CatalogTypeOK, Ids
<1> QED
  BY <1>1, <1>2, <1>3, <1>4, <1>5, <1>6, <1>7, <1>8, <1>9, ClientSteps
  DEF CatalogNext, AccountStep

-----------------------------------------------------------------------------
(* CatalogGrows, row by row.                                                *)
LEMMA SameEvents == ASSUME UNCHANGED events PROVE \A k \in Ids : EventKept(k)
BY DEF EventKept, Ids

LEMMA SameTier ==
    ASSUME CatalogTypeOK, NEW j \in DOMAIN tiers, j \in DOMAIN tiers', tiers'[j] = tiers[j]
    PROVE  TierKept(j)
<1>1. tiers[j].sold \in Nat
  BY RowsOf DEF TierRows
<1>2. tiers'[j].sold >= tiers[j].sold
  BY <1>1
<1> QED
  BY <1>2 DEF TierKept

LEMMA GrowsStep == CatalogInv /\ [CatalogNext]_catalogVars => Grows
<1> SUFFICES ASSUME CatalogInv, [CatalogNext]_catalogVars PROVE Grows
  OBVIOUS
<1>0. CatalogTypeOK
  BY DEF CatalogInv
<1>1. ASSUME UNCHANGED <<events, tiers>> PROVE Grows
  BY <1>0, <1>1, SameEvents, SameTier DEF Grows, Ids
<1>2. ASSUME NEW c \in Clients, NEW l \in NewEvents, CreateEvent(c, l) PROVE Grows
  <2>1. \A k \in Ids : k \in Ids' /\ events'[k] = events[k]
    BY <1>0, <1>2, CreateEventEffect
  <2>2. UNCHANGED tiers /\ call[c].op = "write"
    BY <1>2 DEF CreateEvent
  <2>3. \A k \in Ids' \ Ids : EventAdded(k)
    BY <1>0, <1>2, <2>2, CreateEventEffect DEF EventAdded
  <2> QED
    BY <1>0, <2>1, <2>2, <2>3, SameTier DEF Grows, EventKept
<1>3. ASSUME NEW c \in Clients, NEW k \in Ids, Publish(c, k) PROVE Grows
  <2>1. /\ UNCHANGED tiers /\ events[k] \in EventRows
        /\ call[c].op = "write" /\ call[c].claims.user = events[k].owner
    BY <1>0, <1>3, RowsOf DEF Publish
  <2>2. \A i \in Ids : i # k => EventKept(i)
    BY <1>0, <1>3, PublishEffect DEF EventKept
  <2>3. EventKept(k)
    <3>1. k \in Ids' /\ events'[k] = [events[k] EXCEPT !.state = "published"]
      BY <1>0, <1>3, PublishEffect
    <3>2. [events'[k] EXCEPT !.state = "draft"] = [events[k] EXCEPT !.state = "draft"]
          /\ events'[k].state = "published"
      BY <2>1, <3>1 DEF EventRows
    <3> QED
      BY <2>1, <3>1, <3>2 DEF EventKept
  <2>4. Ids' = Ids
    BY <1>0, <1>3, PublishEffect
  <2> QED
    BY <1>0, <2>1, <2>2, <2>3, <2>4, SameTier DEF Grows
<1>4. ASSUME NEW j \in DOMAIN tiers, SellTicket(j) PROVE Grows
  <2>1. UNCHANGED events /\ tiers[j] \in TierRows
    BY <1>0, <1>4, RowsOf DEF SellTicket
  <2>2. ASSUME NEW i \in DOMAIN tiers, i # j PROVE TierKept(i)
    BY <1>0, <1>4, <2>2, SellTicketEffect, SameTier
  <2>3. TierKept(j)
    <3>1. j \in DOMAIN tiers' /\ tiers'[j] = [tiers[j] EXCEPT !.sold = @ + 1]
      BY <1>0, <1>4, SellTicketEffect
    <3>2. [tiers[j] EXCEPT !.sold = 0] = [tiers'[j] EXCEPT !.sold = 0]
      BY <2>1, <3>1 DEF TierRows
    <3>3. tiers[j].sold \in Nat /\ tiers'[j].sold = tiers[j].sold + 1
      BY <2>1, <3>1 DEF TierRows
    <3>4. tiers'[j].sold >= tiers[j].sold
      BY <3>3
    <3> QED
      BY <3>1, <3>2, <3>4 DEF TierKept
  <2>4. DOMAIN tiers' = DOMAIN tiers /\ Ids' = Ids
    BY <1>0, <1>4, <2>1, SellTicketEffect DEF Ids
  <2> QED
    BY <2>1, <2>2, <2>3, <2>4, SameEvents DEF Grows
<1>5. ASSUME NEW c \in Clients, NEW price \in Prices, InsertTier(c, price) PROVE Grows
  <2>1. UNCHANGED events /\ \A j \in DOMAIN tiers : j \in DOMAIN tiers' /\ tiers'[j] = tiers[j]
    BY <1>0, <1>5, InsertTierEffect, AddTierEffect
  <2>2. \A j \in DOMAIN tiers' \ DOMAIN tiers : TierAdded(j)
    BY <1>0, <1>5, InsertTierEffect, AddTierEffect DEF TierAdded
  <2>3. Ids' = Ids
    BY <2>1 DEF Ids
  <2> QED
    BY <1>0, <2>1, <2>2, <2>3, SameEvents, SameTier DEF Grows
<1>6. ASSUME NEW m \in Emails, NEW pw \in Passwords,
             Login(m, pw) \/ \E r \in AskedRoles : Register(m, pw, r)
      PROVE  UNCHANGED <<events, tiers>>
  BY <1>6 DEF Login, Register
<1>7. ASSUME NEW t \in tokens, Expire(t) PROVE UNCHANGED <<events, tiers>>
  BY <1>7 DEF Expire
<1>8. ASSUME NEW c \in Clients, Moves(c) PROVE UNCHANGED <<events, tiers>>
  BY <1>0, <1>8, MoveEffect DEF CallEffect
<1>9. CASE UNCHANGED catalogVars
  BY <1>1, <1>9 DEF catalogVars
<1> QED
  BY <1>1, <1>2, <1>3, <1>4, <1>5, <1>6, <1>7, <1>8, <1>9, ClientSteps
  DEF CatalogNext, AccountStep

(* A step of one client leaves the others where they are.                   *)
LEMMA OthersWait ==
    ASSUME CatalogTypeOK, NEW c \in Clients, BeginCall(c) \/ Refuse(c) \/ Statement(c),
           NEW d \in Clients, d # c
    PROVE  call'[d] = call[d]
<1>1. ASSUME Moves(c) PROVE call'[d] = call[d]
  BY <1>1, MoveEffect DEF CallEffect, CatalogTypeOK
<1>2. ASSUME NEW l \in NewEvents, CreateEvent(c, l) PROVE call'[d] = call[d]
  BY <1>2 DEF CreateEvent, SetCall, CatalogTypeOK
<1>3. ASSUME NEW k \in Ids, Publish(c, k) PROVE call'[d] = call[d]
  BY <1>3 DEF Publish, SetCall, CatalogTypeOK
<1>4. ASSUME NEW price \in Prices, InsertTier(c, price) PROVE call'[d] = call[d]
  BY <1>4 DEF InsertTier, SetCall, CatalogTypeOK
<1> QED
  BY <1>1, <1>2, <1>3, <1>4, ClientSteps

(* A request keeps its claims, or has new ones from a valid token.          *)
Carries(c) ==
    \/ call'[c] = Idle
    \/ call[c].op # "idle" /\ call'[c].claims = call[c].claims
    \/ call'[c].claims \in tokens \cup {NULL}

LEMMA ClaimsCarried ==
    ASSUME CatalogTypeOK, NEW c \in Clients, BeginCall(c) \/ Refuse(c) \/ Statement(c)
    PROVE  Carries(c)
<1> USE DEF SetCall, CatalogTypeOK, Carries
<1>1. ASSUME BeginCall(c) PROVE Carries(c)
  BY <1>1 DEF BeginCall, Authorize, optionalAuth
<1>2. ASSUME NEW k \in Ids, OwnsEvent(c, k) \/ GetEvent(c, k) PROVE Carries(c)
  BY <1>2 DEF OwnsEvent, GetEvent
<1>3. ASSUME ListTiers(c) \/ List(c) PROVE Carries(c)
  BY <1>3 DEF ListTiers, List
<1>4. ASSUME \/ Refuse(c)
             \/ \E l \in NewEvents : CreateEvent(c, l)
             \/ \E k \in Ids : Publish(c, k)
             \/ \E price \in Prices : InsertTier(c, price)
      PROVE  Carries(c)
  BY <1>4 DEF Refuse, CreateEvent, Publish, InsertTier
<1> QED
  BY <1>1, <1>2, <1>3, <1>4 DEF Statement

LEMMA NoNewClaims ==
    ASSUME CatalogTypeOK, [CatalogNext]_catalogVars
    PROVE  Claimed' \subseteq Claimed \cup tokens
<1>1. ASSUME NEW c \in Clients, BeginCall(c) \/ Refuse(c) \/ Statement(c)
      PROVE  Claimed' \subseteq Claimed \cup tokens
  <2> SUFFICES ASSUME NEW d \in Clients, call'[d].op # "idle", call'[d].claims # NULL
               PROVE  call'[d].claims \in Claimed \cup tokens
    BY DEF Claimed
  <2>1. CASE d = c
    BY <1>1, <2>1, ClaimsCarried DEF Carries, Claimed, Idle
  <2>2. CASE d # c
    BY <1>1, <2>2, OthersWait DEF Claimed
  <2> QED
    BY <2>1, <2>2
<1>2. ASSUME \/ AccountStep
             \/ \E t \in tokens : Expire(t)
             \/ \E j \in DOMAIN tiers : SellTicket(j)
             \/ UNCHANGED catalogVars
      PROVE  UNCHANGED call
  BY <1>2 DEF AccountStep, Login, Register, Expire, SellTicket, catalogVars
<1>3. ASSUME UNCHANGED call PROVE Claimed' = Claimed
  BY <1>3 DEF Claimed
<1> QED
  BY <1>1, <1>2, <1>3 DEF CatalogNext

LEMMA UsersStep == CatalogInv /\ [CatalogNext]_catalogVars => UsersKept /\ TokensTruthful'
<1> SUFFICES ASSUME CatalogInv, [CatalogNext]_catalogVars PROVE UsersKept /\ TokensTruthful'
  OBVIOUS
<1>0. CatalogTypeOK /\ TokensTruthful /\ Claimed' \subseteq Claimed \cup tokens
  BY NoNewClaims DEF CatalogInv
<1>1. ASSUME UNCHANGED users, tokens' \subseteq tokens
      PROVE  UsersKept /\ \A t \in tokens' \ tokens : Speaks(t)
  BY <1>1 DEF UsersKept
<1>2. ASSUME NEW m \in Emails, NEW pw \in Passwords,
             Login(m, pw) \/ \E r \in AskedRoles : Register(m, pw, r)
      PROVE  UsersKept /\ \A t \in tokens' \ tokens : Speaks(t)
  BY <1>0, <1>2, RegisterEffect, LoginEffect
<1>3. ASSUME NEW t \in tokens, Expire(t) PROVE UNCHANGED users /\ tokens' \subseteq tokens
  BY <1>3 DEF Expire
<1>4. ASSUME NEW j \in DOMAIN tiers, SellTicket(j) PROVE UNCHANGED <<users, tokens>>
  BY <1>4 DEF SellTicket
<1>5. ASSUME NEW c \in Clients, BeginCall(c) \/ Refuse(c) \/ Statement(c)
      PROVE  UNCHANGED <<users, tokens>>
  BY <1>5 DEF BeginCall, Authorize, optionalAuth, Refuse, Statement, CreateEvent, Publish,
     OwnsEvent, InsertTier, GetEvent, ListTiers, List
<1>6. UsersKept /\ \A t \in tokens' \ tokens : Speaks(t)
  BY <1>1, <1>2, <1>3, <1>4, <1>5 DEF CatalogNext, AccountStep, catalogVars
<1>7. ASSUME NEW t \in tokens \cup Claimed PROVE Speaks(t)
  <2>1. users[t.user] = [role |-> t.role, password |-> t.proof] /\ t \in Tokens
    BY <1>0, ClaimedTokens, RowsOf DEF TokensTruthful
  <2>2. users[t.user] \in Accounts
    BY <2>1 DEF Tokens, Accounts
  <2> QED
    BY <1>6, <2>1, <2>2, CatalogAssumption DEF UsersKept, Tokens, Speaks
<1>8. \A t \in tokens' \cup Claimed' : Speaks(t)
  BY <1>0, <1>6, <1>7
<1> QED
  BY <1>6, <1>8 DEF TokensTruthful, Speaks

-----------------------------------------------------------------------------
(* What growing leaves in place.                                            *)
LEMMA RowsNext ==
    ASSUME CatalogTypeOK'
    PROVE  /\ \A k \in Ids' : events'[k] \in EventRows
           /\ \A j \in DOMAIN tiers' : tiers'[j] \in TierRows
BY DEF CatalogTypeOK, Ids

Kept ==
    /\ \A k \in Ids :
          /\ k \in Ids' /\ events'[k].owner = events[k].owner
          /\ events[k].state = "published" => events'[k].state = "published"
    /\ \A j \in DOMAIN tiers :
          /\ j \in DOMAIN tiers'
          /\ tiers'[j].event = tiers[j].event /\ tiers'[j].by = tiers[j].by
          /\ tiers'[j].capacity = tiers[j].capacity /\ tiers'[j].sold >= tiers[j].sold

LEMMA GrowsKeeps == ASSUME CatalogTypeOK, CatalogTypeOK', Grows PROVE Kept
<1>1. ASSUME NEW k \in Ids
      PROVE  /\ k \in Ids' /\ events'[k].owner = events[k].owner
             /\ events[k].state = "published" => events'[k].state = "published"
  <2>1. EventKept(k) /\ k \in Ids' /\ events[k] \in EventRows /\ events'[k] \in EventRows
    BY RowsOf, RowsNext DEF Grows, EventKept
  <2>2. [events[k] EXCEPT !.state = "draft"].owner = events[k].owner
        /\ [events'[k] EXCEPT !.state = "draft"].owner = events'[k].owner
    BY <2>1 DEF EventRows
  <2> QED
    BY <2>1, <2>2 DEF EventKept
<1>2. ASSUME NEW j \in DOMAIN tiers
      PROVE  /\ j \in DOMAIN tiers'
             /\ tiers'[j].event = tiers[j].event /\ tiers'[j].by = tiers[j].by
             /\ tiers'[j].capacity = tiers[j].capacity /\ tiers'[j].sold >= tiers[j].sold
  <2>1. TierKept(j) /\ j \in DOMAIN tiers' /\ tiers[j] \in TierRows /\ tiers'[j] \in TierRows
    BY RowsOf, RowsNext DEF Grows, TierKept
  <2> DEFINE old == [tiers[j] EXCEPT !.sold = 0]
             new == [tiers'[j] EXCEPT !.sold = 0]
  <2>2. old.event = tiers[j].event /\ old.by = tiers[j].by /\ old.capacity = tiers[j].capacity
    BY <2>1 DEF TierRows
  <2>3. new.event = tiers'[j].event /\ new.by = tiers'[j].by /\ new.capacity = tiers'[j].capacity
    BY <2>1 DEF TierRows
  <2>4. old = new
    BY <2>1 DEF TierKept
  <2> HIDE DEF old, new
  <2> QED
    BY <2>1, <2>2, <2>3, <2>4 DEF TierKept
<1> QED
  BY <1>1, <1>2 DEF Kept

(* HasRole after the step, of an account named before it.                   *)
WillHave(m, roles) == users'[m] # NULL /\ users'[m].role \in roles

LEMMA RolesKept ==
    ASSUME UsersKept, NEW m \in Emails, NEW R, HasRole(m, R)
    PROVE  WillHave(m, R)
BY DEF UsersKept, HasRole, WillHave

(* The role of a token, or of the claims of a request, is its account's.    *)
LEMMA TokenRole ==
    ASSUME CatalogTypeOK, TokensTruthful, NEW t \in tokens \cup Claimed
    PROVE  t.user \in Emails /\ HasRole(t.user, {t.role})
<1>1. t \in Tokens /\ users[t.user] = [role |-> t.role, password |-> t.proof]
  BY RowsOf, ClaimedTokens DEF TokensTruthful
<1>2. [role |-> t.role, password |-> t.proof] \in Accounts
  BY <1>1 DEF Tokens, Accounts
<1> QED
  BY <1>1, <1>2, CatalogAssumption DEF Tokens, HasRole

LEMMA RightsStep ==
    ASSUME CatalogInv, [CatalogNext]_catalogVars, UsersKept, Kept
    PROVE  RightsHeld'
<1> DEFINE Owned(k) == WillHave(events'[k].owner, Organisers)
           Made(j) == tiers'[j].by = events'[tiers'[j].event].owner
                      \/ WillHave(tiers'[j].by, {"admin"})
<1>0. CatalogTypeOK /\ RightsHeld /\ TokensTruthful
  BY DEF CatalogInv
<1>1. ASSUME NEW k \in Ids PROVE Owned(k)
  <2>1. events[k].owner \in Emails /\ HasRole(events[k].owner, Organisers)
    BY <1>0, RowsOf DEF RightsHeld, EventRows
  <2>2. events'[k].owner = events[k].owner
    BY DEF Kept
  <2> QED
    BY <2>1, <2>2, RolesKept
<1>2. ASSUME NEW j \in DOMAIN tiers PROVE Made(j)
  <2>1. tiers[j].by \in Emails /\ tiers[j].event \in Ids
    BY <1>0, RowsOf DEF TierRows
  <2>2. tiers'[j].by = tiers[j].by /\ tiers'[j].event = tiers[j].event
        /\ events'[tiers[j].event].owner = events[tiers[j].event].owner
    BY <2>1 DEF Kept
  <2>3. CASE tiers[j].by = events[tiers[j].event].owner
    BY <2>2, <2>3
  <2>4. CASE HasRole(tiers[j].by, {"admin"})
    BY <2>1, <2>2, <2>4, RolesKept
  <2> QED
    BY <1>0, <2>3, <2>4 DEF RightsHeld
<1>a. ASSUME \A k \in Ids' : Owned(k), \A j \in DOMAIN tiers' : Made(j) PROVE RightsHeld'
  BY <1>a DEF RightsHeld, HasRole, WillHave
<1> HIDE DEF Owned, Made
<1>3. ASSUME Ids' = Ids, DOMAIN tiers' = DOMAIN tiers PROVE RightsHeld'
  BY <1>1, <1>2, <1>3, <1>a
<1>4. ASSUME NEW c \in Clients, NEW l \in NewEvents, CreateEvent(c, l) PROVE RightsHeld'
  <2> DEFINE t == call[c].claims
  <2>0. call[c].op = "write" /\ t \in Tokens /\ t \in Claimed
    BY <1>0, <1>4, RowsOf, WriteCalls, CatalogAssumption DEF CreateEvent, Claimed
  <2>1. UNCHANGED <<users, tiers>> /\ t.role \in Organisers
    BY <1>4, <2>0 DEF CreateEvent, CatalogInv, Authorised
  <2>2. HasRole(t.user, {t.role}) /\ events'[Len(events) + 1].owner = t.user
    BY <1>0, <1>4, <2>0, CreateEventEffect, TokenRole
  <2>3. Owned(Len(events) + 1)
    BY <2>1, <2>2 DEF Owned, HasRole, WillHave
  <2>4. Ids' = Ids \cup {Len(events) + 1}
    BY <1>0, <1>4, CreateEventEffect
  <2> QED
    BY <1>1, <1>2, <1>a, <2>1, <2>3, <2>4
<1>5. ASSUME NEW c \in Clients, NEW price \in Prices, InsertTier(c, price) PROVE RightsHeld'
  <2>1. UNCHANGED <<users, events>> /\ Ids' = Ids
    BY <1>5 DEF InsertTier, Ids
  <2>2. CASE UNCHANGED tiers
    BY <1>3, <2>1, <2>2
  <2>3. CASE AddTier(call[c].event, price, call[c].claims.user)
    <3>1. call[c].op = "tier" /\ call[c].event \in Ids /\ call[c].claims.user \in Emails
      BY <1>5, InsertTierEffect
    <3>2. /\ DOMAIN tiers' = DOMAIN tiers \cup {Len(tiers) + 1}
          /\ tiers'[Len(tiers) + 1].event = call[c].event
          /\ tiers'[Len(tiers) + 1].by = call[c].claims.user
      BY <1>0, <2>3, <3>1, AddTierEffect
    <3>3. \/ call[c].claims.user = events[call[c].event].owner
          \/ HasRole(call[c].claims.user, {"admin"})
      BY <3>1 DEF CatalogInv, Authorised
    <3>4. Made(Len(tiers) + 1)
      BY <2>1, <3>2, <3>3 DEF Made, HasRole, WillHave
    <3> QED
      BY <1>1, <1>2, <1>a, <2>1, <3>2, <3>4
  <2> QED
    BY <1>5, <2>2, <2>3, InsertTierEffect
<1>6. ASSUME NEW c \in Clients, NEW k \in Ids, Publish(c, k)
      PROVE  Ids' = Ids /\ DOMAIN tiers' = DOMAIN tiers
  BY <1>0, <1>6, PublishEffect DEF Publish
<1>7. ASSUME NEW j \in DOMAIN tiers, SellTicket(j)
      PROVE  Ids' = Ids /\ DOMAIN tiers' = DOMAIN tiers
  BY <1>0, <1>7, SellTicketEffect DEF SellTicket, Ids
<1>8. ASSUME AccountStep \/ \E t \in tokens : Expire(t)
      PROVE  Ids' = Ids /\ DOMAIN tiers' = DOMAIN tiers
  BY <1>8 DEF AccountStep, Login, Register, Expire, Ids
<1>9. ASSUME NEW c \in Clients, Moves(c) PROVE Ids' = Ids /\ DOMAIN tiers' = DOMAIN tiers
  BY <1>0, <1>9, MoveEffect DEF CallEffect, Ids
<1>10. CASE UNCHANGED catalogVars
  BY <1>3, <1>10 DEF catalogVars, Ids
<1> QED
  BY <1>3, <1>4, <1>5, <1>6, <1>7, <1>8, <1>9, <1>10, ClientSteps DEF CatalogNext

-----------------------------------------------------------------------------
(* Requests and answers keep what they say.                                 *)
Stands(c) == Authorised(c) /\ AnswerStands(c)

LEMMA IdleStands == ASSUME NEW c \in Clients, call'[c] = Idle PROVE Stands(c)'
BY DEF Stands, Authorised, AnswerStands, Idle

LEMMA UnmovedAuthorised ==
    ASSUME CatalogInv, UsersKept, Kept, NEW c \in Clients, call'[c] = call[c]
    PROVE  Authorised(c)'
<1>0. Authorised(c)
  BY DEF CatalogInv
<1> SUFFICES ASSUME call[c].op = "tier"
             PROVE  /\ call[c].event \in Ids'
                    /\ \/ call[c].claims.user = events'[call[c].event].owner
                       \/ WillHave(call[c].claims.user, {"admin"})
  BY <1>0 DEF Authorised, HasRole, WillHave
<1>1. call[c].event \in Ids
      /\ (\/ call[c].claims.user = events[call[c].event].owner
          \/ HasRole(call[c].claims.user, {"admin"}))
  BY <1>0 DEF Authorised
<1>2. call[c].claims.user \in Emails
  BY RowsOf, TierCalls DEF CatalogInv, Tokens
<1>3. HasRole(call[c].claims.user, {"admin"}) => WillHave(call[c].claims.user, {"admin"})
  BY <1>2, RolesKept
<1> QED
  BY <1>1, <1>3 DEF Kept

LEMMA UnmovedTier ==
    ASSUME CatalogTypeOK, CatalogTypeOK', Kept, NEW c \in Clients, call'[c] = call[c],
           NEW s \in [tier : Nat, remaining : Int], ShownTier(c, s)
    PROVE  ShownTier(c, s)'
<1> DEFINE was == tiers[s.tier]
           is == tiers'[s.tier]
<1>1. s.tier \in DOMAIN tiers /\ s.tier \in DOMAIN tiers' /\ was.event = call[c].event
      /\ s.remaining \in was.capacity - was.sold .. was.capacity
  BY DEF ShownTier, Kept
<1>2. is.event = was.event /\ is.capacity = was.capacity /\ is.sold >= was.sold
  BY <1>1 DEF Kept
<1>3. was.capacity \in Nat /\ was.sold \in Nat /\ is.sold \in Nat /\ s.remaining \in Int
  BY <1>1, RowsOf, RowsNext DEF TierRows
<1> HIDE DEF was, is
<1>4. s.remaining \in is.capacity - is.sold .. is.capacity
  BY <1>1, <1>2, <1>3
<1> QED
  BY <1>1, <1>2, <1>4 DEF ShownTier, was, is

LEMMA UnmovedAnswer ==
    ASSUME CatalogInv, CatalogTypeOK', UsersKept, Kept, NEW c \in Clients, call'[c] = call[c]
    PROVE  AnswerStands(c)'
<1>0. CatalogTypeOK /\ AnswerStands(c) /\ call[c] \in Calls
  BY RowsOf DEF CatalogInv
<1>1. ASSUME ShownEvent(c) PROVE ShownEvent(c)'
  BY <1>1 DEF ShownEvent, Kept, TiersOf
<1>2. ASSUME call[c].op = "got" PROVE \A s \in call[c].tiers : ShownTier(c, s)'
  <2>1. call[c].tiers \subseteq [tier : Nat, remaining : Int]
    BY <1>0, <1>2, GotCalls
  <2> QED
    BY <1>0, <1>2, <2>1, UnmovedTier DEF AnswerStands
<1>3. ASSUME call[c].op = "listed" PROVE ShownList(c)'
  <2>1. ShownList(c)
    BY <1>0, <1>3 DEF AnswerStands
  <2>2. call[c].events \subseteq Ids'
    BY <2>1 DEF ShownList, Kept
  <2>3. CASE \A k \in call[c].events : events[k].state = "published"
    BY <2>1, <2>2, <2>3 DEF ShownList, Kept
  <2>4. CASE call[c].claims \in Tokens /\ HasRole(call[c].claims.user, Organisers)
    <3>1. WillHave(call[c].claims.user, Organisers)
      BY <2>4, RolesKept DEF Tokens
    <3> QED
      BY <2>2, <2>4, <3>1 DEF ShownList, HasRole, WillHave
  <2> QED
    BY <2>1, <2>3, <2>4 DEF ShownList
<1> QED
  BY <1>0, <1>1, <1>2, <1>3 DEF AnswerStands

(* A new stage of a request.                                                *)
LEMMA BeginStands ==
    ASSUME CatalogInv, NEW c \in Clients, BeginCall(c)
    PROVE  Stands(c)'
<1>1. \/ call'[c].op = "write" /\ call'[c].claims.role \in Organisers
      \/ call'[c].op = "read"
  BY DEF BeginCall, Authorize, optionalAuth, SetCall, CatalogInv, CatalogTypeOK
<1> QED
  BY <1>1 DEF Stands, Authorised, AnswerStands

LEMMA OwnsEventStands ==
    ASSUME CatalogInv, NEW c \in Clients, NEW k \in Ids, OwnsEvent(c, k)
    PROVE  Stands(c)'
<1> DEFINE t == call[c].claims
<1>0. CatalogTypeOK /\ TokensTruthful
  BY DEF CatalogInv
<1>1. call'[c] = [op |-> "tier", claims |-> t, event |-> k] /\ UNCHANGED <<users, events>>
  BY <1>0 DEF OwnsEvent, SetCall, CatalogTypeOK
<1>2. call[c].op = "write" /\ (t.user = events[k].owner \/ t.role = "admin")
  BY DEF OwnsEvent
<1>3. t \in Claimed
  BY <1>0, <1>2, RowsOf, WriteCalls, CatalogAssumption DEF Claimed
<1>4. HasRole(t.user, {t.role})
  BY <1>0, <1>3, TokenRole
<1> HIDE DEF t
<1>5. Authorised(c)'
  BY <1>1, <1>2, <1>4 DEF Authorised, HasRole, Ids
<1>6. AnswerStands(c)'
  BY <1>1 DEF AnswerStands
<1> QED
  BY <1>5, <1>6 DEF Stands

LEMMA GetEventStands ==
    ASSUME CatalogInv, NEW c \in Clients, NEW k \in Ids, GetEvent(c, k)
    PROVE  Stands(c)'
<1>1. /\ call'[c] = [op |-> "get", claims |-> call[c].claims, event |-> k, row |-> events[k],
                     had |-> TiersOf(k)]
      /\ UNCHANGED <<events, tiers>>
  BY DEF GetEvent, SetCall, CatalogInv, CatalogTypeOK
<1>2. Authorised(c)'
  BY <1>1 DEF Authorised
<1>3. ShownEvent(c)'
  BY <1>1 DEF ShownEvent, Ids, TiersOf
<1>4. AnswerStands(c)'
  BY <1>1, <1>3 DEF AnswerStands
<1> QED
  BY <1>2, <1>4 DEF Stands

LEMMA ListTiersStands ==
    ASSUME CatalogInv, NEW c \in Clients, ListTiers(c)
    PROVE  Stands(c)'
<1> DEFINE shown == {[tier |-> j, remaining |-> tiers[j].capacity - tiers[j].sold] :
                        j \in TiersOf(call[c].event)}
           got == [op |-> "got", claims |-> call[c].claims, event |-> call[c].event,
                   row |-> call[c].row, had |-> call[c].had, tiers |-> shown]
<1>0. CatalogTypeOK
  BY DEF CatalogInv
<1>1. call[c].op = "get" /\ UNCHANGED <<events, tiers>> /\ (call'[c] = got \/ call'[c] = Idle)
  BY <1>0 DEF ListTiers, SetCall, CatalogTypeOK
<1>2. CASE call'[c] = got
  <2>1. /\ got.op = "got" /\ got.event = call[c].event /\ got.row = call[c].row
        /\ got.had = call[c].had /\ got.tiers = shown
    OBVIOUS
  <2>2. \A s \in shown : ShownTier(c, s)'
    <3> SUFFICES ASSUME NEW s \in shown PROVE ShownTier(c, s)'
      OBVIOUS
    <3> PICK j \in DOMAIN tiers : /\ tiers[j].event = call[c].event
                                  /\ s.tier = j
                                  /\ s.remaining = tiers[j].capacity - tiers[j].sold
      BY DEF TiersOf
    <3>1. tiers[j].capacity \in Nat /\ tiers[j].sold \in Nat
      BY <1>0, RowsOf DEF TierRows
    <3>2. tiers[j].capacity - tiers[j].sold
            \in tiers[j].capacity - tiers[j].sold .. tiers[j].capacity
      BY <3>1
    <3> QED
      BY <1>1, <1>2, <2>1, <3>2 DEF ShownTier
  <2>3. ShownEvent(c)
    BY <1>1 DEF CatalogInv, AnswerStands
  <2>4. call[c].had \subseteq {s.tier : s \in shown}
    <3> SUFFICES ASSUME NEW j \in TiersOf(call[c].event) PROVE \E s \in shown : s.tier = j
      BY <2>3 DEF ShownEvent
    <3>1. [tier |-> j, remaining |-> tiers[j].capacity - tiers[j].sold] \in shown
      OBVIOUS
    <3> QED
      BY <3>1
  <2> HIDE DEF got, shown
  <2>5. ShownEvent(c)'
    BY <1>1, <1>2, <2>1, <2>3 DEF ShownEvent, Ids, TiersOf
  <2> QED
    BY <1>2, <2>1, <2>2, <2>4, <2>5 DEF Stands, Authorised, AnswerStands
<1> QED
  BY <1>1, <1>2, IdleStands

LEMMA ListStands ==
    ASSUME CatalogInv, NEW c \in Clients, List(c)
    PROVE  Stands(c)'
<1> DEFINE t == call[c].claims
<1>0. CatalogTypeOK /\ TokensTruthful /\ call[c].op = "read" /\ call[c] \in Calls
  BY RowsOf DEF CatalogInv, List
<1>1. call'[c] = [op |-> "listed", claims |-> t, events |-> ListFor(t)]
      /\ UNCHANGED <<users, events>>
  BY <1>0 DEF List, SetCall, CatalogTypeOK
<1>2. ListFor(t) \subseteq Ids
  BY DEF ListFor
<1>3. CASE t # NULL /\ t.role \in Organisers
  <2>1. t \in Claimed /\ t \in Tokens
    BY <1>0, <1>3, ReadCalls DEF Claimed, Claims
  <2>2. HasRole(t.user, {t.role})
    BY <1>0, <2>1, TokenRole
  <2> HIDE DEF t
  <2> QED
    BY <1>1, <1>2, <1>3, <2>1, <2>2 DEF Stands, Authorised, AnswerStands, ShownList, HasRole, Ids
<1>4. CASE ~(t # NULL /\ t.role \in Organisers)
  <2>1. \A k \in ListFor(t) : events[k].state = "published"
    BY <1>4 DEF ListFor
  <2> HIDE DEF t
  <2> QED
    BY <1>1, <1>2, <2>1 DEF Stands, Authorised, AnswerStands, ShownList, Ids
<1> QED
  BY <1>3, <1>4

LEMMA StandsStep ==
    ASSUME CatalogInv, [CatalogNext]_catalogVars, CatalogTypeOK', UsersKept, Kept
    PROVE  \A c \in Clients : Stands(c)'
<1>1. ASSUME NEW c \in Clients, call'[c] = call[c] PROVE Stands(c)'
  BY <1>1, UnmovedAuthorised, UnmovedAnswer DEF Stands
<1>2. ASSUME NEW c \in Clients, BeginCall(c) \/ Refuse(c) \/ Statement(c) PROVE Stands(c)'
  <2>1. ASSUME \/ Refuse(c)
               \/ \E l \in NewEvents : CreateEvent(c, l)
               \/ \E k \in Ids : Publish(c, k)
               \/ \E price \in Prices : InsertTier(c, price)
        PROVE  call'[c] = Idle
    BY <2>1 DEF Refuse, CreateEvent, Publish, InsertTier, SetCall, CatalogInv, CatalogTypeOK
  <2> QED
    BY <1>2, <2>1, IdleStands, BeginStands, OwnsEventStands, GetEventStands, ListTiersStands,
       ListStands DEF Statement
<1>3. ASSUME NEW c \in Clients, BeginCall(c) \/ Refuse(c) \/ Statement(c)
      PROVE  \A d \in Clients : Stands(d)'
  BY <1>1, <1>2, <1>3, OthersWait DEF CatalogInv
<1>4. ASSUME \/ AccountStep
             \/ \E t \in tokens : Expire(t)
             \/ \E j \in DOMAIN tiers : SellTicket(j)
             \/ UNCHANGED catalogVars
      PROVE  UNCHANGED call
  BY <1>4 DEF AccountStep, Login, Register, Expire, SellTicket, catalogVars
<1> QED
  BY <1>1, <1>3, <1>4 DEF CatalogNext

-----------------------------------------------------------------------------
LEMMA CatalogInvStep == CatalogInv /\ [CatalogNext]_catalogVars => CatalogInv'
<1> SUFFICES ASSUME CatalogInv, [CatalogNext]_catalogVars PROVE CatalogInv'
  OBVIOUS
<1>1. CatalogTypeOK /\ CatalogTypeOK'
  BY CatalogTypeStep DEF CatalogInv
<1>2. UsersKept /\ TokensTruthful'
  BY UsersStep
<1>3. Kept
  BY <1>1, GrowsStep, GrowsKeeps
<1>4. RightsHeld'
  BY <1>2, <1>3, RightsStep
<1>5. \A c \in Clients : Stands(c)'
  BY <1>1, <1>2, <1>3, StandsStep
<1> QED
  BY <1>1, <1>2, <1>4, <1>5 DEF CatalogInv, Stands

(* CatalogInv is inductive.                                                 *)
THEOREM CatalogInvariant == CatalogSpec => []CatalogInv
BY CatalogInitInv, CatalogInvStep, PTL DEF CatalogSpec

(* A token, or the claims of a request whose token expired, never speaks    *)
(* for another account than the one it was issued to, although the routes   *)
(* of package auth never look at the table users.                           *)
THEOREM TokensAreTruthful == CatalogSpec => []TokensTruthful
<1>1. CatalogInv => TokensTruthful
  BY DEF CatalogInv
<1> QED
  BY <1>1, CatalogInvariant, PTL

(* Every event and every tier was made by somebody with the right to, even  *)
(* when the token expired between the middleware and the statements.        *)
THEOREM RightsAreHeld == CatalogSpec => []RightsHeld
<1>1. CatalogInv => RightsHeld
  BY DEF CatalogInv
<1> QED
  BY <1>1, CatalogInvariant, PTL

(* What Get joined from two statements, and what List showed, stands: the   *)
(* published event, the tiers it had, their counts, and for List whose eyes *)
(* the drafts were for.                                                     *)
THEOREM AnswersStand == CatalogSpec => []AnswersHold
<1>1. CatalogInv => AnswersHold
  <2> SUFFICES ASSUME CatalogInv PROVE AnswersHold
    OBVIOUS
  <2>1. \A c \in Clients : AnswerStands(c) /\ call[c] \in Calls
    BY RowsOf DEF CatalogInv
  <2>2. NULL \notin Tokens
    BY CatalogAssumption
  <2> QED
    BY <2>1, <2>2 DEF AnswersHold, AnswerStands, ShownEvent, ShownTier, ShownList, HasRole
<1> QED
  BY <1>1, CatalogInvariant, PTL

(* Rows of the catalog only grow, so that two statements of one request     *)
(* agree about what they both see, and every row that is published or added *)
(* is the doing of a request that was let in for it, although its token may *)
(* have expired by then.                                                    *)
THEOREM CatalogOnlyGrows == CatalogSpec => CatalogGrows
BY CatalogInvariant, GrowsStep, PTL DEF CatalogSpec, CatalogGrows
=============================================================================
