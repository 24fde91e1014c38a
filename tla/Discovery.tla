----------------------------- MODULE Discovery -----------------------------
(***************************************************************************)
(* The GraphQL discovery API (internal/discovery) over the catalog.  The   *)
(* generated executor resolves the root fields of a request in concurrent  *)
(* goroutines; each runs queryEvents, one SELECT for the events and one    *)
(* for their tiers on two connections of the pool, and _Query waits for    *)
(* all of them.  Introspection is left out.                                *)
(***************************************************************************)
EXTENDS Catalog

CONSTANTS
    Bad,            \* an argument that its scalar type refuses
    Requests,       \* GraphQL requests running at the same time
    Documents,      \* what they ask: arguments per root field, and a selection
    MaxScore,       \* bound on trending scores
    Limit,          \* the LIMIT of the query
    Conns           \* MaxConns of the Postgres pool

ASSUME DiscoveryAssumption ==
    /\ {Limit, Conns} \subseteq Nat \ {0}
    /\ MaxScore \in Nat \ {0}
    /\ NULL \notin Int \cup (Int \X Int)

VARIABLE gql        \* the requests, with the progress of their root fields

RootFields == {"events", "eventsNearMe"}
NoRequest == [state |-> "idle"]

-----------------------------------------------------------------------------
(* Arguments.                                                               *)

GeoFields == {"lat", "lng", "radiusMeters"}
FilterFields == {"category", "startsAfter", "startsBefore",
                 "minPriceCents", "maxPriceCents", "near"}
NoFilter == [k \in FilterFields |-> NULL]

unmarshalInputGeoFilter(raw) ==
    IF \E k \in DOMAIN raw : raw[k] = Bad THEN Bad
    ELSE [k \in GeoFields |-> IF k \in DOMAIN raw THEN raw[k] ELSE 0]

(* An absent field stays nil; the first field that is refused ends it.      *)
unmarshalInputEventFilter(raw) ==
    LET it == [k \in FilterFields |->
                  CASE k \notin DOMAIN raw -> NULL
                    [] k = "near" /\ k \in DOMAIN raw -> unmarshalInputGeoFilter(raw[k])
                    [] OTHER -> raw[k]]
    IN IF \E k \in FilterFields : it[k] = Bad THEN Bad ELSE it

field_Query_events_args(raw) ==
    IF raw = NULL THEN NoFilter ELSE unmarshalInputEventFilter(raw)

field_Query_eventsNearMe_args(raw) ==
    LET near == unmarshalInputGeoFilter(raw)
    IN IF near = Bad THEN Bad ELSE [NoFilter EXCEPT !.near = near]

Args(x, raw) == IF x = "events" THEN field_Query_events_args(raw)
                                ELSE field_Query_eventsNearMe_args(raw)

(* What the scalar types of the schema accept: numbers for the prices and   *)
(* the place.                                                               *)
Numeric(f) == /\ {f.minPriceCents, f.maxPriceCents} \subseteq Int \cup {NULL}
              /\ f.near = NULL \/ f.near \in [GeoFields -> Int]

ASSUME DocumentAssumption ==
    \A d \in Documents : \A x \in DOMAIN d.args :
        LET f == Args(x, d.args[x]) IN f = Bad \/ Numeric(f)

-----------------------------------------------------------------------------
(* The queries.                                                             *)

(* geom, which the trigger of 0003_postgis.sql keeps: a point when both     *)
(* coordinates are there.  Any metric serves as ST_Distance.                *)
Geom(k) == IF NULL \in {events[k].lat, events[k].lng} THEN NULL
           ELSE <<events[k].lng, events[k].lat>>
Abs(n) == IF n < 0 THEN -n ELSE n
Distance(k, near) == Abs(Geom(k)[1] - near.lng) + Abs(Geom(k)[2] - near.lat)

(* LEFT JOIN LATERAL (SELECT MIN(price_cents)): NULL without tiers.         *)
MinPrice(k) ==
    LET prices == {tiers[j].price : j \in TiersOf(k)}
    IN IF prices = {} THEN NULL ELSE CHOOSE p \in prices : \A q \in prices : p <= q

(* A condition on a NULL is not true.                                       *)
AtLeast(v, bound) == bound # NULL => v # NULL /\ v >= bound
AtMost(v, bound) == bound # NULL => v # NULL /\ v <= bound

(* Mutant: an inner join with the tiers.                                    *)
MatchesJoin(k, f) ==
    /\ events[k].state = "published"
    /\ f.near # NULL => Geom(k) # NULL /\ Distance(k, f.near) <= f.near.radiusMeters
    /\ f.category # NULL => events[k].category = f.category
    /\ AtLeast(events[k].starts, f.startsAfter) /\ AtMost(events[k].starts, f.startsBefore)
    /\ MinPrice(k) # NULL
    /\ AtLeast(MinPrice(k), f.minPriceCents) /\ AtMost(MinPrice(k), f.maxPriceCents)

(* Mutant: minPriceCents is forgotten.                                      *)
MatchesNoMinimum(k, f) ==
    /\ events[k].state = "published"
    /\ f.near # NULL => Geom(k) # NULL /\ Distance(k, f.near) <= f.near.radiusMeters
    /\ f.category # NULL => events[k].category = f.category
    /\ AtLeast(events[k].starts, f.startsAfter) /\ AtMost(events[k].starts, f.startsBefore)
    /\ AtMost(MinPrice(k), f.maxPriceCents)

(* The WHERE clause: every dimension that was supplied, ANDed.              *)
Matches(k, f) ==
    /\ events[k].state = "published"
    /\ f.near # NULL => Geom(k) # NULL /\ Distance(k, f.near) <= f.near.radiusMeters
    /\ f.category # NULL => events[k].category = f.category
    /\ AtLeast(events[k].starts, f.startsAfter) /\ AtMost(events[k].starts, f.startsBefore)
    /\ AtLeast(MinPrice(k), f.minPriceCents) /\ AtMost(MinPrice(k), f.maxPriceCents)

(* What a filter asks for, dimension by dimension, for the properties; of   *)
(* the tiers only those in T count.                                         *)
Wanted(k, f, T) ==
    LET e == events[k]
        prices == {tiers[j].price : j \in TiersOf(k) \cap T}
    IN /\ e.state = "published"
       /\ f.category \in {NULL, e.category}
       /\ f.startsAfter = NULL \/ (e.starts # NULL /\ f.startsAfter <= e.starts)
       /\ f.startsBefore = NULL \/ (e.starts # NULL /\ e.starts <= f.startsBefore)
       /\ f.minPriceCents = NULL \/ (prices # {} /\ \A p \in prices : f.minPriceCents <= p)
       /\ f.maxPriceCents = NULL \/ \E p \in prices : p <= f.maxPriceCents
       /\ f.near = NULL \/ /\ NULL \notin {e.lat, e.lng}
                           /\ Distance(k, f.near) <= f.near.radiusMeters

(* The sum of the purchases' weights, which fade with time: positive exactly *)
(* when the event has completed purchases.                                  *)
Trending == {s \in [Ids -> 0 .. MaxScore] :
                \A k \in Ids : s[k] > 0 <=> \E j \in TiersOf(k) : tiers[j].sold > 0}

(* ORDER BY distance with a geo filter, else by trending score and recency. *)
Before(a, b, near) ==
    IF near # NULL THEN a.distance < b.distance
    ELSE a.score > b.score \/ (a.score = b.score /\ a.id > b.id)

(* The results the statement may give: at most Limit of the rows S, none of *)
(* them after one that is left out, in order, ties in any order.            *)
Ordered(S, near) ==
    LET n == IF Cardinality(S) < Limit THEN Cardinality(S) ELSE Limit
    IN {s \in [1 .. n -> S] :
           /\ \A i, j \in 1 .. n : i < j => s[i] # s[j] /\ ~Before(s[j], s[i], near)
           /\ \A a \in S, j \in 1 .. n :
                 Before(a, s[j], near) => \E i \in 1 .. n : s[i] = a}

Row(k, f, score) ==
    [id |-> k, event |-> events[k], minPrice |-> MinPrice(k), score |-> score[k],
     distance |-> IF f.near = NULL THEN NULL ELSE Distance(k, f.near)]

(* Mutant: sold-out tiers are left out.                                     *)
ScanAvailable(S) ==
    {[id |-> j, event |-> tiers[j].event, price |-> tiers[j].price,
      capacity |-> tiers[j].capacity, sold |-> tiers[j].sold,
      remaining |-> tiers[j].capacity - tiers[j].sold] :
          j \in {j \in DOMAIN tiers : tiers[j].event \in S /\ tiers[j].sold < tiers[j].capacity}}

(* ticket_tiers of the events S, as attachTiers scans them.                 *)
ScanTiers(S) ==
    {[id |-> j, event |-> tiers[j].event, price |-> tiers[j].price,
      capacity |-> tiers[j].capacity, sold |-> tiers[j].sold,
      remaining |-> tiers[j].capacity - tiers[j].sold] :
          j \in {j \in DOMAIN tiers : tiers[j].event \in S}}

-----------------------------------------------------------------------------
(* Marshalling: the value of each selected field of an object.  Title,      *)
(* description and venue are copied like the category, the name of a tier   *)
(* like its id.                                                             *)

Event_text(o) == <<o.row.id, o.row.event.category>>
Event_lat_lng(o) == <<o.row.event.lat, o.row.event.lng>>
Event_state(o) == o.row.event.state
Event_startsAt(o) == o.row.event.starts
Event_minPriceCents(o) == o.row.minPrice
Event_distanceMeters(o) == o.row.distance
Event_trendingScore(o) == o.row.score

Tier_fields(t) == [id |-> t.id, priceCents |-> t.price, capacity |-> t.capacity,
                   sold |-> t.sold, remaining |-> t.remaining]

(* All fields of a tier are non-null: a Null voids the object.              *)
TierObject(t) ==
    LET value == Tier_fields(t)
    IN IF \E k \in DOMAIN value : value[k] = NULL THEN NULL ELSE value

(* Mutant: a list without elements is taken for a missing one.              *)
ListOfNonEmpty(S) == IF NULL \in S \/ S = {} THEN NULL ELSE [list |-> S]

(* A list of non-null elements: a Null element voids it, no elements do not. *)
ListOf(S) == IF NULL \in S THEN NULL ELSE [list |-> S]

Event_tiers(o) == ListOf({TierObject(t) : t \in o.tiers})

(* The fields whose Null counts in out.Invalids and voids the object.       *)
NonNullFields == {"text", "state", "tiers", "trendingScore"}

EventObject(o, sel) ==
    LET value == [text |-> Event_text(o), place |-> Event_lat_lng(o),
                  state |-> Event_state(o), startsAt |-> Event_startsAt(o),
                  minPriceCents |-> Event_minPriceCents(o), tiers |-> Event_tiers(o),
                  distanceMeters |-> Event_distanceMeters(o),
                  trendingScore |-> Event_trendingScore(o)]
    IN IF \E k \in sel \cap NonNullFields : value[k] = NULL THEN NULL
       ELSE [k \in sel |-> value[k]]

EventList(rows, shown, sel) ==
    LET object(r) == EventObject([row |-> r, tiers |-> {t \in shown : t.event = r.id}], sel)
    IN IF ListOf({object(rows[i]) : i \in DOMAIN rows}) = NULL THEN NULL
       ELSE [i \in DOMAIN rows |-> object(rows[i])]

-----------------------------------------------------------------------------
(* The executor.                                                            *)

Field(q, x) == gql[q].fields[x]
Fields(q) == IF gql[q].state = "idle" THEN {} ELSE DOMAIN gql[q].fields
Active(q, x) == gql[q].state = "running" /\ x \in Fields(q)
SetField(q, x, new) == gql' = [gql EXCEPT ![q].fields[x] = new]

(* Mutant: the first rows stay open until the function returns.             *)
HoldingBoth == {"rows", "tiers", "tierRows"}

(* rows.Next closes the rows after the last one, which returns the          *)
(* connection: it is held from a statement until its rows are read.         *)
Holding == {"rows", "tierRows"}
Busy(here) == Cardinality({b \in Requests \X RootFields :
                              b[2] \in Fields(b[1]) /\ Field(b[1], b[2]).pc \in here})
FreeConn == Busy(Holding) < Conns

Resolved(field, value) == [field EXCEPT !.pc = "done", !.value = value]

(* Exec: a goroutine for every root field.  One whose arguments are refused *)
(* resolves to Null at once.  due, the events that match now, and seen, the *)
(* tiers there are now or, later, when the events are read, are for the     *)
(* properties.                                                              *)
Exec(q, d) ==
    LET new(x) ==
            LET f == Args(x, d.args[x])
                bad == f = Bad
            IN [pc |-> IF bad THEN "done" ELSE "query", filter |-> f,
                due |-> IF bad THEN {} ELSE {k \in Ids : Wanted(k, f, DOMAIN tiers)},
                seen |-> DOMAIN tiers, rows |-> <<>>, shown |-> {}, value |-> NULL, err |-> bad]
    IN /\ load.graphql
       /\ gql[q].state # "running"
       /\ gql' = [gql EXCEPT ![q] = [state |-> "running", sel |-> d.sel, data |-> NULL,
                                     fields |-> [x \in DOMAIN d.args |-> new(x)]]]
       /\ UNCHANGED catalogVars

(* queryEvents: the SELECT over events, of one snapshot.                    *)
QueryEvents(q, x) ==
    LET f == Field(q, x).filter IN
    /\ Active(q, x) /\ Field(q, x).pc = "query"
    /\ FreeConn
    /\ \E score \in Trending :
       \E s \in Ordered({Row(k, f, score) : k \in {k \in Ids : Matches(k, f)}}, f.near) :
           SetField(q, x, [Field(q, x) EXCEPT !.pc = "rows", !.rows = s, !.seen = DOMAIN tiers])
    /\ UNCHANGED catalogVars

(* The rows are read and the connection is returned.  The scores are also   *)
(* written to Redis, best effort, where nothing reads them.  Without rows   *)
(* there is no second query.                                                *)
ReadRows(q, x) ==
    /\ Active(q, x) /\ Field(q, x).pc = "rows"
    /\ SetField(q, x, IF Field(q, x).rows = <<>> THEN Resolved(Field(q, x), <<>>)
                      ELSE [Field(q, x) EXCEPT !.pc = "tiers"])
    /\ UNCHANGED catalogVars

(* attachTiers: the SELECT over the tiers of the events found.              *)
AttachTiers(q, x) ==
    LET field == Field(q, x) IN
    /\ Active(q, x) /\ field.pc = "tiers"
    /\ FreeConn
    /\ SetField(q, x, [field EXCEPT !.pc = "tierRows",
                          !.shown = ScanTiers({field.rows[i].id : i \in DOMAIN field.rows})])
    /\ UNCHANGED catalogVars

(* Their rows are read, and the list is marshalled.                         *)
Marshal(q, x) ==
    LET field == Field(q, x) IN
    /\ Active(q, x) /\ field.pc = "tierRows"
    /\ SetField(q, x, Resolved(field, EventList(field.rows, field.shown, gql[q].sel)))
    /\ UNCHANGED catalogVars

(* A statement or its rows fail, or the request's 30 seconds end.           *)
FieldError(q, x) ==
    /\ Active(q, x) /\ Field(q, x).pc # "done"
    /\ Failure
    /\ SetField(q, x, [Resolved(Field(q, x), NULL) EXCEPT !.err = TRUE])
    /\ UNCHANGED <<users, tokens, events, tiers, call, load>>

(* Dispatch waits for every field; one Null voids the whole answer.         *)
Dispatch(q) ==
    /\ gql[q].state = "running"
    /\ \A x \in Fields(q) : Field(q, x).pc = "done"
    /\ gql' = [gql EXCEPT ![q].state = "answered",
                          ![q].data = IF \E x \in Fields(q) : Field(q, x).value = NULL THEN NULL
                                      ELSE [x \in Fields(q) |-> Field(q, x).value]]
    /\ UNCHANGED catalogVars

-----------------------------------------------------------------------------
RequestStep(q) ==
    \/ \E x \in RootFields : \/ QueryEvents(q, x) \/ ReadRows(q, x) \/ AttachTiers(q, x)
                             \/ Marshal(q, x) \/ FieldError(q, x)
    \/ Dispatch(q)

DiscoveryInit == CatalogInit /\ gql = [q \in Requests |-> NoRequest]

-----------------------------------------------------------------------------
Found(q, x) == {Field(q, x).rows[i].id : i \in DOMAIN Field(q, x).rows}

(* Everything an answer lists is published and within every dimension of    *)
(* the filter, both price bounds included, as the tiers were when the       *)
(* statement ran; and all of that still is so when the answer is read       *)
(* later, because publishing is final and the rows keep their data.         *)
AnswersMatch ==
    \A q \in Requests : \A x \in Fields(q) :
        LET field == Field(q, x) IN
        field.filter # Bad => \A k \in Found(q, x) : Wanted(k, field.filter, field.seen)

(* A tier, new since the request began, costs less than the filter's lower  *)
(* bound.                                                                   *)
Undercut(k, f) ==
    f.minPriceCents # NULL /\ \E j \in TiersOf(k) : tiers[j].price < f.minPriceCents

(* Nothing is missed: an event that matched when the request began is in    *)
(* the list, whatever was published or priced meanwhile and with tiers or   *)
(* without, unless a new tier undercut minPriceCents, or Limit others are   *)
(* listed and, with a geo filter, none of them is farther away.             *)
NothingMissed ==
    \A q \in Requests : \A x \in Fields(q) :
        LET field == Field(q, x)
            f == field.filter
        IN field.value # NULL =>
              \A k \in field.due \ Found(q, x) :
                  \/ Undercut(k, f)
                  \/ /\ Len(field.rows) = Limit
                     /\ f.near # NULL => \A i \in 1 .. Limit :
                                            field.rows[i].distance <= Distance(k, f.near)

(* The lowest price comes from the first statement, the tiers from the      *)
(* second.  They still fit together: the price is that of a listed tier,    *)
(* and a tier is listed with counts that were committed.                    *)
TiersCoverPrice ==
    \A q \in Requests : \A x \in Fields(q) :
        LET field == Field(q, x) IN
        field.value # NULL => \A i \in DOMAIN field.rows :
            LET r == field.rows[i]
                shown == {t \in field.shown : t.event = r.id}
            IN /\ r.minPrice # NULL => \E t \in shown : t.price = r.minPrice
               /\ \A t \in shown : t.remaining \in tiers[t.id].capacity - tiers[t.id].sold
                                                     .. tiers[t.id].capacity

(* An answer is complete or void: it has no data exactly when the arguments *)
(* or a statement of one of its root fields failed, else it has every root  *)
(* field, with one object of the selected fields for each event found,      *)
(* whether or not the event has tiers, a price, a place or a date.          *)
AllOrNothing ==
    \A q \in Requests : gql[q].state = "answered" =>
        IF \E x \in Fields(q) : Field(q, x).err THEN gql[q].data = NULL
        ELSE /\ gql[q].data # NULL
             /\ \A x \in Fields(q) :
                   /\ x \in DOMAIN gql[q].data
                   /\ Len(gql[q].data[x]) = Len(Field(q, x).rows)
                   /\ \A i \in DOMAIN gql[q].data[x] : DOMAIN gql[q].data[x][i] = gql[q].sel

-----------------------------------------------------------------------------
(* The inductive invariant behind the first three: what a root field has    *)
(* read so far stays true of the rows, which only grow.                     *)

RowOK(row, f, T) ==
    /\ row.id \in Ids /\ Wanted(row.id, f, T)
    /\ row.minPrice # NULL => \E j \in TiersOf(row.id) : tiers[j].price = row.minPrice

ShownOK(t) ==
    /\ t.id \in DOMAIN tiers
    /\ t.remaining \in tiers[t.id].capacity - tiers[t.id].sold .. tiers[t.id].capacity

Covered(r) ==
    \A i \in DOMAIN r.rows : r.rows[i].minPrice # NULL =>
        \E t \in r.shown : t.event = r.rows[i].id /\ t.price = r.rows[i].minPrice

Complete(r) ==
    \A k \in r.due \ {r.rows[i].id : i \in DOMAIN r.rows} :
        \/ Undercut(k, r.filter)
        \/ /\ Len(r.rows) = Limit
           /\ r.filter.near # NULL =>
                 \A i \in 1 .. Limit : r.rows[i].distance <= Distance(k, r.filter.near)

(* A root field r.  What is due is wanted until the events are read;        *)
(* Complete holds from then on, Covered once the tiers are read; a field    *)
(* that failed has no value.                                                *)
FieldOK(r) ==
    /\ DOMAIN r = {"pc", "filter", "due", "seen", "rows", "shown", "value", "err"}
    /\ IF r.filter = Bad THEN r.pc = "done" /\ r.value = NULL /\ r.rows = <<>> /\ r.due = {}
       ELSE DOMAIN r.filter = FilterFields /\ Numeric(r.filter)
    /\ r.pc # "done" => r.value = NULL
    /\ r.seen \subseteq DOMAIN tiers /\ r.due \subseteq Ids
    /\ r.pc = "query" => \A k \in r.due : Wanted(k, r.filter, r.seen)
    /\ \A i \in DOMAIN r.rows : RowOK(r.rows[i], r.filter, r.seen)
    /\ \A t \in r.shown : ShownOK(t)
    /\ r.pc \in {"rows", "tiers", "tierRows"} \/ r.value # NULL => Complete(r)
    /\ r.pc = "tierRows" \/ r.value # NULL => Covered(r)

RequestOK(a) ==
    \/ a = NoRequest
    \/ DOMAIN a = {"state", "sel", "data", "fields"} /\ a.state \in {"running", "answered"}

DiscoveryInv ==
    /\ DOMAIN gql = Requests
    /\ \A q \in Requests : RequestOK(gql[q]) /\ \A x \in Fields(q) : FieldOK(Field(q, x))

(* The inductive invariant behind AllOrNothing: the shape of what was read  *)
(* and of what was made of it.                                              *)

EventFields == {"text", "place", "state", "startsAt", "minPriceCents", "tiers",
                "distanceMeters", "trendingScore"}

FoundRows == [id : Nat, event : EventRows, minPrice : Nat \cup {NULL}, score : Nat,
              distance : Int \cup {NULL}]
ShownTiers == [id : Nat, event : Nat, price : Nat, capacity : Nat, sold : Nat, remaining : Int]

TierObjects == [id : Nat, priceCents : Nat, capacity : Nat, sold : Nat, remaining : Int]
Lists(S) == [list : SUBSET S]

Texts == Nat \X Categories
Places == (Int \cup {NULL}) \X (Int \cup {NULL})
States == {"draft", "published"}
ValuesOf(k) == CASE k = "text" -> Texts
                 [] k = "place" -> Places
                 [] k = "state" -> States
                 [] k = "tiers" -> Lists(TierObjects)
                 [] k = "trendingScore" -> Nat
                 [] OTHER -> Int \cup {NULL}
Values == Texts \cup Places \cup States \cup Lists(TierObjects) \cup Int \cup {NULL}

Objects(sel) == [sel -> Values]
IsObject(f, sel) == f = [k \in sel |-> f[k]] /\ \A k \in sel : f[k] \in ValuesOf(k)

(* Selections are of fields that the schema has, and Null is none of the    *)
(* values that an answer is made of.                                        *)
ASSUME NullAssumption ==
    /\ NULL \notin Texts \cup States \cup TierObjects \cup Lists(TierObjects)
    /\ \A d \in Documents :
          /\ d.sel \subseteq EventFields
          /\ NULL \notin Objects(d.sel) \cup Lists(Objects(d.sel)) \cup Seq(Objects(d.sel))
          /\ NULL \notin [DOMAIN d.args -> Seq(Objects(d.sel))]

(* A list of one object of sel for every row.                               *)
Marshalled(v, rows, sel) ==
    v = [i \in DOMAIN rows |-> v[i]] /\ \A i \in DOMAIN rows : IsObject(v[i], sel)

(* A root field fails or has such a list.                                   *)
FieldShape(r, sel) ==
    /\ DOMAIN r = {"pc", "filter", "due", "seen", "rows", "shown", "value", "err"}
    /\ r.rows \in Seq(FoundRows)
    /\ r.shown \subseteq ShownTiers
    /\ r.err \in BOOLEAN
    /\ r.pc # "done" => ~r.err
    /\ r.pc = "done" /\ r.err => r.value = NULL
    /\ r.pc = "done" /\ ~r.err => Marshalled(r.value, r.rows, sel)

RequestShape(a) ==
    \/ a = NoRequest
    \/ \E d \in Documents :
          /\ DOMAIN a = {"state", "sel", "data", "fields"} /\ a.state \in {"running", "answered"}
          /\ a.sel = d.sel /\ DOMAIN a.fields = DOMAIN d.args
          /\ \A x \in DOMAIN d.args : FieldShape(a.fields[x], d.sel)
          /\ a.state = "answered" =>
                /\ \A x \in DOMAIN d.args : a.fields[x].pc = "done"
                /\ a.data = IF \E x \in DOMAIN d.args : a.fields[x].err THEN NULL
                            ELSE [x \in DOMAIN d.args |-> a.fields[x].value]

ShapeInv == \A q \in Requests : RequestShape(gql[q])
=============================================================================
