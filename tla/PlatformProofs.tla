--------------------------- MODULE PlatformProofs ---------------------------
(***************************************************************************)
(* What StartupProofs and CatalogProofs show of the components holds of    *)
(* the composition, where processes that stop take requests with them.     *)
(* What Discovery answers is proved here too, of the composition at once.  *)
(***************************************************************************)
EXTENDS Platform, StartupProofs, CatalogProofs, FiniteSetTheorems, WellFoundedInduction

-----------------------------------------------------------------------------
(* The processes: a step of the composition is a step of Startup or none.   *)

LEMMA StartsMigrated == PlatformInit => StartupInv
<1> SUFFICES ASSUME PlatformInit PROVE StartupInv
  OBVIOUS
<1>1. CASE StartupInit
  BY <1>1, StartupInitInv
<1>2. CASE ~StartupInit
  <2>1. /\ proc = [p \in Procs |-> "serve"] /\ step = [p \in Procs |-> Migrations + 1]
        /\ table = TRUE /\ applied = Versions /\ recorded = Versions
        /\ outages = MaxOutages - load.outages /\ load \in Loads
    BY <1>2 DEF PlatformInit, DiscoveryInit, CatalogInit
  <2>2. load.outages \in 0 .. MaxOutages /\ Migrations \in Nat /\ MaxOutages \in Nat
    BY <2>1, PlatformAssumption, StartupAssumption
  <2>3. outages \in 0 .. MaxOutages /\ Migrations + 1 \in 1 .. Migrations + 1
        /\ Migrations \in 0 .. Migrations
    BY <2>1, <2>2
  <2>4. StartupTypeOK
    BY <2>1, <2>3 DEF StartupTypeOK, Running
  <2>5. MigratedInOrder
    BY <2>1, <2>3 DEF MigratedInOrder, Versions
  <2>6. StepsBehind
    BY <2>1 DEF StepsBehind, Running
  <2> QED
    BY <2>4, <2>5, <2>6 DEF StartupInv
<1> QED
  BY <1>1, <1>2

LEMMA ProcessSteps == PlatformNext => [StartupNext]_startupVars
BY DEF PlatformNext, ProcStep, RestStep, CallStep, GraphQLStep, StartupNext

-----------------------------------------------------------------------------
(* The rows: a step of the composition is a step of Catalog, or leaves the  *)
(* rows alone and ends some requests.                                       *)
Ends ==
    /\ UNCHANGED <<users, tokens, events, tiers, load>>
    /\ call' \in [Clients -> Calls]
    /\ \A c \in Clients : call'[c] \in {call[c], Idle}
    /\ UNCHANGED faults \/ Failure

LEMMA LoseEnds == ASSUME CatalogInv, NEW p \in Procs, Lose(p) PROVE Ends
<1>1. call' \in [Clients -> Calls]
  BY CallsBuilt DEF CatalogInv, CatalogTypeOK, Lose
<1> QED
  BY <1>1 DEF Lose, Ends

LEMMA RequestsRead ==
    ASSUME CatalogInv, NEW q \in Requests,
           RequestStep(q) \/ \E d \in Documents : Exec(q, d)
    PROVE  Ends \/ UNCHANGED catalogVars
<1>1. ASSUME NEW x \in RootFields, FieldError(q, x) PROVE Ends
  BY <1>1 DEF FieldError, Ends, CatalogInv, CatalogTypeOK
<1>2. ASSUME NEW x \in RootFields,
             QueryEvents(q, x) \/ ReadRows(q, x) \/ AttachTiers(q, x) \/ Marshal(q, x)
      PROVE  UNCHANGED catalogVars
  BY <1>2 DEF QueryEvents, ReadRows, AttachTiers, Marshal
<1>3. ASSUME Dispatch(q) PROVE UNCHANGED catalogVars
  BY <1>3 DEF Dispatch
<1>4. ASSUME NEW d \in Documents, Exec(q, d) PROVE UNCHANGED catalogVars
  BY <1>4 DEF Exec
<1> QED
  BY <1>1, <1>2, <1>3, <1>4 DEF RequestStep

LEMMA RowSteps ==
    ASSUME CatalogInv, [PlatformNext]_platformVars
    PROVE  [CatalogNext]_catalogVars \/ Ends
<1>1. ASSUME NEW p \in Procs, ProcStep(p) PROVE Ends \/ UNCHANGED catalogVars
  BY <1>1, LoseEnds DEF ProcStep, requestVars
<1>2. ASSUME RestStep PROVE CatalogNext
  BY <1>2 DEF RestStep, CatalogNext
<1>3. ASSUME NEW c \in Clients, CallStep(c) PROVE CatalogNext
  BY <1>3 DEF CallStep, CatalogNext
<1>4. ASSUME NEW q \in Requests,
             GraphQLStep(q) \/ \E d \in Documents : Accepts(q) /\ Exec(q, d)
      PROVE  Ends \/ UNCHANGED catalogVars
  BY <1>4, RequestsRead DEF GraphQLStep
<1>5. ASSUME NEW p \in Procs, NEW q \in Procs, Collide(p, q) /\ UNCHANGED requestVars
      PROVE  UNCHANGED catalogVars
  BY <1>5 DEF requestVars
<1>6. CASE UNCHANGED platformVars
  BY <1>6 DEF platformVars, requestVars
<1> QED
  BY <1>1, <1>2, <1>3, <1>4, <1>5, <1>6 DEF PlatformNext

LEMMA EndsKeeps == ASSUME CatalogInv, Ends PROVE CatalogInv' /\ Grows
<1>0. CatalogTypeOK
  BY DEF CatalogInv
<1>1. CatalogTypeOK'
  <2>1. faults' \in 0 .. load'.maxFaults
    BY <1>0, FailureType DEF Ends, CatalogTypeOK
  <2> QED
    BY <1>0, <2>1 DEF Ends, CatalogTypeOK, Ids
<1>2. UsersKept
  BY DEF UsersKept, Ends
<1>3. Grows
  BY <1>0, SameEvents, SameTier DEF Ends, Grows, Ids
<1>4. Kept
  BY <1>0, <1>1, <1>3, GrowsKeeps
<1>5. \A c \in Clients : Stands(c)'
  <2> SUFFICES ASSUME NEW c \in Clients PROVE Stands(c)'
    OBVIOUS
  <2>1. CASE call'[c] = call[c]
    BY <1>1, <1>2, <1>4, <2>1, UnmovedAuthorised, UnmovedAnswer DEF Stands
  <2>2. CASE call'[c] = Idle
    BY <2>2, IdleStands
  <2> QED
    BY <2>1, <2>2 DEF Ends
<1>6. Claimed' \subseteq Claimed
  BY DEF Ends, Claimed, Idle
<1>7. TokensTruthful'
  BY <1>6 DEF CatalogInv, Ends, TokensTruthful
<1>8. RightsHeld'
  BY DEF CatalogInv, Ends, RightsHeld, HasRole, Ids
<1> QED
  BY <1>1, <1>3, <1>5, <1>7, <1>8 DEF CatalogInv, Stands

LEMMA RowsKept == CatalogInv /\ [PlatformNext]_platformVars => CatalogInv' /\ Grows
BY RowSteps, EndsKeeps, CatalogInvStep, GrowsStep

-----------------------------------------------------------------------------
(* Prices, filters and the order of an answer.                              *)

LEMMA LeastNatural ==
    ASSUME NEW S \in SUBSET Nat, S # {}
    PROVE  \E p \in S : \A q \in S : p <= q
<1> DEFINE R == {ss \in Nat \X Nat : ss[1] < ss[2]}
<1>1. IsWellFoundedOn(R, Nat)
  BY NatLessThanWellFounded DEF OpToRel
<1>2. PICK p \in S : \A q \in S : ~(<<q, p>> \in R)
  BY <1>1, WFMin
<1>3. \A q \in S : ~(q < p)
  BY <1>2
<1> QED
  BY <1>3

LEMMA NullIsNoNumber == NULL \notin Int /\ NULL \notin Nat /\ NULL \notin Int \X Int
<1>1. NULL \notin Int /\ NULL \notin Int \X Int
  BY DiscoveryAssumption, Zenon
<1> QED
  BY <1>1

(* MIN(price_cents) is the price of a tier, no tier costs less, and it is   *)
(* NULL for an event without tiers only.                                    *)
LEMMA MinPriceLeast ==
    ASSUME CatalogTypeOK, NEW k
    PROVE  LET prices == {tiers[j].price : j \in TiersOf(k)}
           IN /\ prices \subseteq Nat
              /\ MinPrice(k) = NULL <=> prices = {}
              /\ prices # {} => MinPrice(k) \in prices /\ \A p \in prices : MinPrice(k) <= p
<1> DEFINE prices == {tiers[j].price : j \in TiersOf(k)}
<1>1. prices \subseteq Nat
  BY RowsOf DEF TiersOf, TierRows
<1>2. CASE prices = {}
  BY <1>1, <1>2 DEF MinPrice
<1>3. CASE prices # {}
  <2>1. \E p \in prices : \A q \in prices : p <= q
    BY <1>1, <1>3, LeastNatural
  <2>2. MinPrice(k) = CHOOSE p \in prices : \A q \in prices : p <= q
    BY <1>3 DEF MinPrice
  <2> HIDE DEF prices
  <2>3. MinPrice(k) \in prices /\ \A q \in prices : MinPrice(k) <= q
    BY <2>1, <2>2
  <2>4. MinPrice(k) # NULL
    BY <1>1, <2>3, NullIsNoNumber
  <2> QED
    BY <1>1, <1>3, <2>3, <2>4 DEF prices
<1> QED
  BY <1>2, <1>3

(* An event has a point when it has both coordinates, at a distance from    *)
(* any other.                                                               *)
LEMMA PlacesExist ==
    ASSUME CatalogTypeOK, NEW k \in Ids
    PROVE  /\ Geom(k) = NULL <=> NULL \in {events[k].lat, events[k].lng}
           /\ \A near \in [GeoFields -> Int] : Geom(k) # NULL => Distance(k, near) \in Int
<1>1. events[k].lat \in Int \cup {NULL} /\ events[k].lng \in Int \cup {NULL}
  BY RowsOf DEF EventRows
<1>2. CASE NULL \in {events[k].lat, events[k].lng}
  BY <1>2 DEF Geom
<1>3. CASE NULL \notin {events[k].lat, events[k].lng}
  <2>1. /\ Geom(k) = <<events[k].lng, events[k].lat>>
        /\ events[k].lng \in Int /\ events[k].lat \in Int
    BY <1>1, <1>3 DEF Geom
  <2>2. Geom(k) \in Int \X Int /\ Geom(k)[1] \in Int /\ Geom(k)[2] \in Int
    BY <2>1
  <2>3. ASSUME NEW near \in [GeoFields -> Int] PROVE Distance(k, near) \in Int
    <3>1. near.lng \in Int /\ near.lat \in Int
      BY DEF GeoFields
    <3>2. \A n \in Int : Abs(n) \in Int
      BY DEF Abs
    <3>3. /\ Geom(k)[1] - near.lng \in Int /\ Geom(k)[2] - near.lat \in Int
      BY <2>2, <3>1
    <3> QED
      BY <3>2, <3>3 DEF Distance
  <2>4. Geom(k) # NULL
    BY <2>2, NullIsNoNumber
  <2> QED
    BY <1>3, <2>3, <2>4
<1> QED
  BY <1>2, <1>3

(* Prices of the tiers in T.                                                *)
PricesIn(k, T) == {tiers[j].price : j \in TiersOf(k) \cap T}

(* The bounds on the lowest price, as bounds on the prices of all tiers.    *)
LEMMA PriceBounds ==
    ASSUME CatalogTypeOK, NEW k, NEW b \in Int
    PROVE  LET prices == PricesIn(k, DOMAIN tiers)
           IN /\ AtMost(MinPrice(k), b) <=> \E p \in prices : p <= b
              /\ AtLeast(MinPrice(k), b) <=> prices # {} /\ \A p \in prices : b <= p
<1> DEFINE prices == {tiers[j].price : j \in TiersOf(k)}
           m == MinPrice(k)
<1>1. /\ prices \subseteq Nat
      /\ m = NULL <=> prices = {}
      /\ prices # {} => m \in prices /\ \A p \in prices : m <= p
  BY MinPriceLeast
<1>2. PricesIn(k, DOMAIN tiers) = prices
  BY DEF PricesIn, TiersOf
<1>3. b # NULL
  BY NullIsNoNumber
<1> HIDE DEF prices, m
<1>4. CASE prices = {}
  <2>1. ~AtMost(m, b) /\ ~AtLeast(m, b)
    BY <1>1, <1>3, <1>4 DEF AtMost, AtLeast
  <2> QED
    BY <1>2, <1>4, <2>1 DEF m
<1>5. CASE prices # {}
  <2>1. m \in prices /\ m \in Nat /\ m # NULL /\ (\A p \in prices : m <= p)
    BY <1>1, <1>5
  <2>2. m <= b <=> \E p \in prices : p <= b
    BY <1>1, <2>1
  <2>3. m >= b <=> \A p \in prices : b <= p
    BY <1>1, <2>1
  <2>4. (AtMost(m, b) <=> m <= b) /\ (AtLeast(m, b) <=> m >= b)
    BY <1>3, <2>1 DEF AtMost, AtLeast
  <2> QED
    BY <1>2, <1>5, <2>2, <2>3, <2>4 DEF m
<1> QED
  BY <1>4, <1>5

(* The WHERE clause selects what the filter asks for, all price bounds      *)
(* included; what the filter asked for before is selected or undercut.      *)
LEMMA MatchesWanted ==
    ASSUME CatalogTypeOK, NEW f, DOMAIN f = FilterFields, Numeric(f), NEW k \in Ids
    PROVE  /\ Matches(k, f) => Wanted(k, f, DOMAIN tiers)
           /\ \A T \in SUBSET DOMAIN tiers : Wanted(k, f, T) => Matches(k, f) \/ Undercut(k, f)
<1> DEFINE prices == PricesIn(k, DOMAIN tiers)
           lo == f.minPriceCents
           hi == f.maxPriceCents
<1>0. lo \in Int \cup {NULL} /\ hi \in Int \cup {NULL}
  BY DEF Numeric
<1>1. hi # NULL => (AtMost(MinPrice(k), hi) <=> \E p \in prices : p <= hi)
  BY <1>0, PriceBounds
<1>2. lo # NULL => (AtLeast(MinPrice(k), lo) <=> prices # {} /\ \A p \in prices : lo <= p)
  BY <1>0, PriceBounds
<1>3. Geom(k) = NULL <=> NULL \in {events[k].lat, events[k].lng}
  BY PlacesExist
<1>4. ASSUME Matches(k, f) PROVE Wanted(k, f, DOMAIN tiers)
  <2>1. f.near # NULL => NULL \notin {events[k].lat, events[k].lng}
    BY <1>3, <1>4 DEF Matches
  <2>2. hi = NULL \/ \E p \in prices : p <= hi
    BY <1>1, <1>4 DEF Matches
  <2>3. lo = NULL \/ (prices # {} /\ \A p \in prices : lo <= p)
    BY <1>2, <1>4 DEF Matches
  <2> HIDE DEF prices
  <2> QED
    BY <1>4, <2>1, <2>2, <2>3 DEF Matches, Wanted, AtLeast, AtMost, prices, PricesIn
<1>5. ASSUME NEW T \in SUBSET DOMAIN tiers, Wanted(k, f, T), ~Undercut(k, f) PROVE Matches(k, f)
  <2>1. f.near # NULL => NULL \notin {events[k].lat, events[k].lng}
                         /\ Distance(k, f.near) <= f.near.radiusMeters
    BY <1>5 DEF Wanted
  <2>2. f.near # NULL => Geom(k) # NULL
    BY <1>3, <2>1
  <2>3. PricesIn(k, T) \subseteq prices /\ prices \subseteq Nat
    BY RowsOf DEF PricesIn, TiersOf, TierRows
  <2>4. hi # NULL => \E p \in prices : p <= hi
    BY <1>5, <2>3 DEF Wanted, PricesIn
  <2>5. lo # NULL => prices # {}
    BY <1>5, <2>3 DEF Wanted, PricesIn
  <2>6. lo # NULL => \A p \in prices : ~(p < lo)
    BY <1>5 DEF Undercut, PricesIn
  <2>7. lo # NULL => \A p \in prices : lo <= p
    BY <1>0, <2>3, <2>6
  <2>8. AtMost(MinPrice(k), hi) /\ AtLeast(MinPrice(k), lo)
    BY <1>1, <1>2, <2>4, <2>5, <2>7 DEF AtMost, AtLeast
  <2> HIDE DEF prices
  <2> QED
    BY <1>5, <2>1, <2>2, <2>8 DEF Matches, Wanted, AtLeast, AtMost
<1> QED
  BY <1>4, <1>5

(* Refused arguments are Bad; the others make a filter of all dimensions.   *)
LEMMA FilterShape ==
    ASSUME NEW d \in Documents, NEW x \in DOMAIN d.args, Args(x, d.args[x]) # Bad
    PROVE  DOMAIN Args(x, d.args[x]) = FilterFields /\ Numeric(Args(x, d.args[x]))
<1> DEFINE raw == d.args[x]
<1>1. DOMAIN NoFilter = FilterFields
  BY DEF NoFilter
<1>2. unmarshalInputEventFilter(raw) # Bad => DOMAIN unmarshalInputEventFilter(raw) = FilterFields
  BY DEF unmarshalInputEventFilter
<1>3. field_Query_events_args(raw) # Bad => DOMAIN field_Query_events_args(raw) = FilterFields
  BY <1>1, <1>2 DEF field_Query_events_args
<1>4. field_Query_eventsNearMe_args(raw) # Bad =>
          DOMAIN field_Query_eventsNearMe_args(raw) = FilterFields
  BY <1>1 DEF field_Query_eventsNearMe_args
<1>5. DOMAIN Args(x, raw) = FilterFields
  BY <1>3, <1>4 DEF Args
<1>6. Numeric(Args(x, raw))
  BY DocumentAssumption
<1> QED
  BY <1>5, <1>6

(* An answer that leaves out a row of S has Limit others, none of them      *)
(* after it.                                                                *)
LEMMA OrderedComplete ==
    ASSUME NEW S, IsFiniteSet(S), NEW near, NEW s \in Ordered(S, near),
           NEW a \in S, \A i \in DOMAIN s : s[i] # a
    PROVE  Len(s) = Limit /\ \A j \in 1 .. Limit : s[j] \in S /\ ~Before(a, s[j], near)
<1> DEFINE n == IF Cardinality(S) < Limit THEN Cardinality(S) ELSE Limit
<1>0. Cardinality(S) \in Nat /\ Limit \in Nat /\ n \in Nat
  <2>1. Limit \in Nat
    BY DiscoveryAssumption
  <2>2. Cardinality(S) \in Nat
    BY FS_CardinalityType
  <2> QED
    BY <2>1, <2>2
<1>1. /\ s \in [1 .. n -> S]
      /\ \A i, j \in 1 .. n : i < j => s[i] # s[j]
      /\ \A b \in S, j \in 1 .. n : Before(b, s[j], near) => \E i \in 1 .. n : s[i] = b
  BY DEF Ordered
<1> HIDE DEF n
<1>2. s \in Injection(1 .. n, S)
  <2>1. \A i, j \in 1 .. n : s[i] = s[j] => i = j
    BY <1>0, <1>1
  <2> QED
    BY <1>1, <2>1 DEF Injection, IsInjective
<1>3. IsFiniteSet(1 .. n) /\ Cardinality(1 .. n) = n
  BY <1>0, FS_Interval
<1>4. Cardinality(S) # n
  <2> SUFFICES ASSUME Cardinality(S) = n PROVE FALSE
    OBVIOUS
  <2>1. s \in Surjection(1 .. n, S)
    BY <1>2, <1>3, FS_Injection
  <2>2. \E i \in 1 .. n : s[i] = a
    BY <2>1 DEF Surjection
  <2> QED
    BY <1>1, <2>2
<1>5. n = Limit
  BY <1>4 DEF n
<1>6. Len(s) = n
  BY <1>0, <1>1
<1> QED
  BY <1>1, <1>5, <1>6

-----------------------------------------------------------------------------
(* What a request has read stays true.                                      *)

LEMMA DataKept ==
    ASSUME CatalogTypeOK, CatalogTypeOK', Grows
    PROVE  /\ \A k \in Ids :
                 /\ events'[k].category = events[k].category /\ events'[k].lat = events[k].lat
                 /\ events'[k].lng = events[k].lng /\ events'[k].starts = events[k].starts
           /\ \A j \in DOMAIN tiers : tiers'[j].price = tiers[j].price
<1>1. ASSUME NEW k \in Ids
      PROVE  /\ events'[k].category = events[k].category /\ events'[k].lat = events[k].lat
             /\ events'[k].lng = events[k].lng /\ events'[k].starts = events[k].starts
  <2>1. EventKept(k) /\ events[k] \in EventRows /\ events'[k] \in EventRows
    BY RowsOf, RowsNext DEF Grows, EventKept
  <2> DEFINE old == [events[k] EXCEPT !.state = "draft"]
             new == [events'[k] EXCEPT !.state = "draft"]
  <2>2. /\ old.category = events[k].category /\ old.lat = events[k].lat
        /\ old.lng = events[k].lng /\ old.starts = events[k].starts
    BY <2>1 DEF EventRows
  <2>3. /\ new.category = events'[k].category /\ new.lat = events'[k].lat
        /\ new.lng = events'[k].lng /\ new.starts = events'[k].starts
    BY <2>1 DEF EventRows
  <2>4. old = new
    BY <2>1 DEF EventKept
  <2> HIDE DEF old, new
  <2> QED
    BY <2>2, <2>3, <2>4
<1>2. ASSUME NEW j \in DOMAIN tiers PROVE tiers'[j].price = tiers[j].price
  <2>1. TierKept(j) /\ tiers[j] \in TierRows /\ tiers'[j] \in TierRows
    BY RowsOf, RowsNext DEF Grows, TierKept
  <2> DEFINE old == [tiers[j] EXCEPT !.sold = 0]
             new == [tiers'[j] EXCEPT !.sold = 0]
  <2>2. old.price = tiers[j].price /\ new.price = tiers'[j].price
    BY <2>1 DEF TierRows
  <2>3. old = new
    BY <2>1 DEF TierKept
  <2> HIDE DEF old, new
  <2> QED
    BY <2>2, <2>3
<1> QED
  BY <1>1, <1>2

LEMMA DistanceKept ==
    ASSUME CatalogTypeOK, CatalogTypeOK', Grows, NEW k \in Ids, NEW near
    PROVE  Distance(k, near)' = Distance(k, near)
<1>1. Geom(k)' = Geom(k)
  BY DataKept DEF Geom
<1> QED
  BY <1>1 DEF Distance

(* What was wanted for the prices of some tiers still is for theirs.        *)
LEMMA WantedKept ==
    ASSUME CatalogTypeOK, CatalogTypeOK', Grows, NEW k \in Ids, NEW f,
           NEW T, T \subseteq DOMAIN tiers, Wanted(k, f, T)
    PROVE  Wanted(k, f, T)'
<1>1. k \in Ids'
  BY GrowsKeeps DEF Kept
<1>2. PricesIn(k, T)' = PricesIn(k, T)
  <2>1. \A j \in T : /\ j \in DOMAIN tiers /\ j \in DOMAIN tiers'
                     /\ tiers'[j].event = tiers[j].event /\ tiers'[j].price = tiers[j].price
    BY GrowsKeeps, DataKept DEF Kept
  <2>2. (TiersOf(k) \cap T)' = TiersOf(k) \cap T
    BY <2>1 DEF TiersOf
  <2> QED
    BY <2>1, <2>2 DEF PricesIn
<1>3. Distance(k, f.near)' = Distance(k, f.near)
  BY DistanceKept
<1>4. events[k].state = "published" => events'[k].state = "published"
  BY GrowsKeeps DEF Kept
<1>5. /\ events'[k].category = events[k].category /\ events'[k].lat = events[k].lat
      /\ events'[k].lng = events[k].lng /\ events'[k].starts = events[k].starts
  BY DataKept
<1> QED
  BY <1>2, <1>3, <1>4, <1>5 DEF Wanted, PricesIn

(* Prices stay.                                                             *)
LEMMA UndercutKept ==
    ASSUME CatalogTypeOK, CatalogTypeOK', Grows, NEW k, NEW f, Undercut(k, f)
    PROVE  Undercut(k, f)'
<1>1. \A j \in TiersOf(k) : j \in TiersOf(k)' /\ tiers'[j].price = tiers[j].price
  BY GrowsKeeps, DataKept DEF TiersOf, Kept
<1> QED
  BY <1>1 DEF Undercut

LEMMA RowKept ==
    ASSUME CatalogTypeOK, CatalogTypeOK', Grows, NEW row, NEW f,
           NEW T, T \subseteq DOMAIN tiers, RowOK(row, f, T)
    PROVE  RowOK(row, f, T)'
<1>1. row.id \in Ids' /\ Wanted(row.id, f, T)'
  BY WantedKept, GrowsKeeps DEF RowOK, Kept
<1>2. \A j \in TiersOf(row.id) : j \in TiersOf(row.id)' /\ tiers'[j].price = tiers[j].price
  BY GrowsKeeps, DataKept DEF TiersOf, Kept
<1> QED
  BY <1>1, <1>2 DEF RowOK

LEMMA ShownKept ==
    ASSUME CatalogTypeOK, CatalogTypeOK', Grows, NEW t, ShownOK(t)
    PROVE  ShownOK(t)'
<1>1. /\ t.id \in DOMAIN tiers /\ t.id \in DOMAIN tiers'
      /\ tiers'[t.id].capacity = tiers[t.id].capacity /\ tiers'[t.id].sold >= tiers[t.id].sold
  BY GrowsKeeps DEF ShownOK, Kept
<1>2. /\ tiers[t.id].capacity \in Nat /\ tiers[t.id].sold \in Nat /\ tiers'[t.id].sold \in Nat
  BY <1>1, RowsOf, RowsNext DEF TierRows
<1> QED
  BY <1>1, <1>2 DEF ShownOK

LEMMA FieldKept ==
    ASSUME CatalogTypeOK, CatalogTypeOK', Grows, NEW r, FieldOK(r)
    PROVE  FieldOK(r)'
<1>0. r.seen \subseteq DOMAIN tiers' /\ r.due \subseteq Ids'
  BY GrowsKeeps DEF FieldOK, Kept
<1>1. \A t \in r.shown : ShownOK(t)'
  BY ShownKept DEF FieldOK
<1>2. r.pc = "query" => \A k \in r.due : Wanted(k, r.filter, r.seen)'
  BY WantedKept DEF FieldOK
<1>3. \A i \in DOMAIN r.rows : RowOK(r.rows[i], r.filter, r.seen)'
  BY RowKept DEF FieldOK
<1>4. Complete(r) => Complete(r)'
  <2>1. \A k \in r.due : Distance(k, r.filter.near)' = Distance(k, r.filter.near)
    BY DistanceKept DEF FieldOK
  <2> QED
    BY <2>1, UndercutKept DEF Complete
<1>5. Covered(r) => Covered(r)'
  BY DEF Covered
<1> QED
  BY <1>0, <1>1, <1>2, <1>3, <1>4, <1>5 DEF FieldOK

-----------------------------------------------------------------------------
(* Every step of a request keeps what it has read, or reads what is true.   *)

(* The field of a running request.                                          *)
LEMMA ActiveField ==
    ASSUME DiscoveryInv, NEW q \in Requests, NEW x, Active(q, x)
    PROVE  /\ DOMAIN gql = Requests
           /\ DOMAIN gql[q] = {"state", "sel", "data", "fields"}
           /\ x \in DOMAIN gql[q].fields
           /\ FieldOK(gql[q].fields[x])
<1>1. gql[q].state = "running" /\ x \in Fields(q)
  BY DEF Active
<1>2. gql[q] # NoRequest
  BY <1>1 DEF NoRequest
<1> QED
  BY <1>1, <1>2 DEF DiscoveryInv, RequestOK, Fields, Field

LEMMA UntouchedRequests ==
    ASSUME CatalogTypeOK, CatalogTypeOK', Grows, DiscoveryInv, DOMAIN gql' = Requests,
           \A q \in Requests : gql'[q] = gql[q] \/ gql'[q] = NoRequest
    PROVE  DiscoveryInv'
<1> SUFFICES ASSUME NEW q \in Requests
             PROVE  RequestOK(gql'[q]) /\ \A x \in Fields(q)' : FieldOK(Field(q, x))'
  BY DEF DiscoveryInv, RequestOK, NoRequest
<1>1. CASE gql'[q] = NoRequest
  BY <1>1 DEF RequestOK, Fields, NoRequest
<1>2. CASE gql'[q] = gql[q]
  <2>1. Fields(q)' = Fields(q) /\ \A x \in Fields(q) : Field(q, x)' = Field(q, x)
    BY <1>2 DEF Fields, Field
  <2>2. \A x \in Fields(q) : FieldOK(Field(q, x))
    BY DEF DiscoveryInv
  <2>3. ASSUME NEW x \in Fields(q) PROVE FieldOK(Field(q, x))'
    <3>1. PICK r : r = Field(q, x)
      OBVIOUS
    <3>2. FieldOK(r)'
      BY <2>2, <3>1, FieldKept
    <3> QED
      BY <2>1, <3>1, <3>2
  <2> QED
    BY <1>2, <2>1, <2>3 DEF DiscoveryInv
<1> QED
  BY <1>1, <1>2

LEMMA SetFieldKeeps ==
    ASSUME CatalogTypeOK, CatalogTypeOK', Grows, DiscoveryInv, NEW q \in Requests, NEW x,
           Active(q, x), NEW new, FieldOK(new), SetField(q, x, new)
    PROVE  DiscoveryInv'
<1>0. /\ DOMAIN gql = Requests
      /\ DOMAIN gql[q] = {"state", "sel", "data", "fields"}
      /\ x \in DOMAIN gql[q].fields
  BY ActiveField
<1>1. gql' = [gql EXCEPT ![q].fields[x] = new]
  BY DEF SetField
<1>2. /\ DOMAIN gql' = Requests /\ \A p \in Requests \ {q} : gql'[p] = gql[p]
      /\ DOMAIN gql'[q] = {"state", "sel", "data", "fields"} /\ gql'[q].state = gql[q].state
      /\ DOMAIN gql'[q].fields = DOMAIN gql[q].fields /\ gql'[q].fields[x] = new
      /\ \A y \in DOMAIN gql[q].fields : y # x => gql'[q].fields[y] = gql[q].fields[y]
  BY <1>0, <1>1
<1>3. gql[q].state = "running"
  BY DEF Active
<1>4. ASSUME NEW p \in Requests \ {q}
      PROVE  RequestOK(gql'[p]) /\ \A y \in Fields(p)' : FieldOK(Field(p, y))'
  <2>1. Fields(p)' = Fields(p) /\ \A y \in Fields(p) : Field(p, y)' = Field(p, y)
    BY <1>2 DEF Fields, Field
  <2>2. ASSUME NEW y \in Fields(p) PROVE FieldOK(Field(p, y))'
    <3>1. PICK r : r = Field(p, y)
      OBVIOUS
    <3>2. FieldOK(r)'
      BY <3>1, FieldKept DEF DiscoveryInv
    <3> QED
      BY <2>1, <3>1, <3>2
  <2> QED
    BY <1>2, <2>1, <2>2 DEF DiscoveryInv
<1>5. RequestOK(gql'[q])
  BY <1>2, <1>3 DEF RequestOK
<1>6. ASSUME NEW y \in Fields(q)' PROVE FieldOK(Field(q, y))'
  <2>1. y \in DOMAIN gql[q].fields /\ y \in Fields(q)
    BY <1>2, <1>3 DEF Fields
  <2>2. PICK r : r = IF y = x THEN new ELSE Field(q, y)
    OBVIOUS
  <2>3. Field(q, y)' = r
    BY <1>2, <2>1, <2>2 DEF Field
  <2>4. FieldOK(r)
    BY <2>1, <2>2 DEF DiscoveryInv
  <2>5. FieldOK(r)'
    BY <2>4, FieldKept
  <2> QED
    BY <2>3, <2>5
<1>7. \A p \in Requests : RequestOK(gql'[p]) /\ \A y \in Fields(p)' : FieldOK(Field(p, y))'
  BY <1>4, <1>5, <1>6
<1> QED
  BY <1>2, <1>7 DEF DiscoveryInv, RequestOK, NoRequest

LEMMA IdsFinite == ASSUME CatalogTypeOK PROVE IsFiniteSet(Ids)
<1>1. PICK n \in Nat : Ids = 1 .. n
  BY DEF Ids, CatalogTypeOK
<1>2. IsFiniteSet(1 .. n)
  BY FS_Interval
<1> QED
  BY <1>1, <1>2

(* The answer of the first statement.                                       *)
LEMMA QueryReads ==
    ASSUME CatalogTypeOK, NEW r, FieldOK(r), r.pc = "query", NEW score,
           NEW s \in Ordered({Row(k, r.filter, score) :
                                 k \in {k \in Ids : Matches(k, r.filter)}}, r.filter.near)
    PROVE  FieldOK([r EXCEPT !.pc = "rows", !.rows = s, !.seen = DOMAIN tiers])
<1> DEFINE f == r.filter
           M == {k \in Ids : Matches(k, f)}
           S == {Row(k, f, score) : k \in M}
           new == [r EXCEPT !.pc = "rows", !.rows = s, !.seen = DOMAIN tiers]
<1>1. /\ DOMAIN new = {"pc", "filter", "due", "seen", "rows", "shown", "value", "err"}
      /\ new.pc = "rows" /\ new.rows = s /\ new.filter = f /\ new.due = r.due
      /\ new.shown = r.shown /\ new.value = r.value /\ new.seen = DOMAIN tiers
  BY DEF FieldOK
<1>2. f # Bad /\ DOMAIN f = FilterFields /\ Numeric(f) /\ r.value = NULL
  BY DEF FieldOK
<1>3. \A i \in DOMAIN s : s[i] \in S
  BY DEF Ordered
<1>4. ASSUME NEW k \in M
      PROVE  /\ Row(k, f, score).id = k
             /\ RowOK(Row(k, f, score), f, DOMAIN tiers)
             /\ f.near # NULL => Row(k, f, score).distance = Distance(k, f.near)
  <2>1. Row(k, f, score).id = k /\ Row(k, f, score).minPrice = MinPrice(k)
        /\ (f.near # NULL => Row(k, f, score).distance = Distance(k, f.near))
    BY DEF Row
  <2>2. k \in Ids /\ Wanted(k, f, DOMAIN tiers)
    BY <1>2, MatchesWanted
  <2>3. MinPrice(k) # NULL => \E j \in TiersOf(k) : tiers[j].price = MinPrice(k)
    BY MinPriceLeast
  <2> QED
    BY <2>1, <2>2, <2>3 DEF RowOK
<1>5. \A i \in DOMAIN s : RowOK(s[i], f, DOMAIN tiers)
  BY <1>3, <1>4
<1>6. ASSUME NEW k \in r.due, \A i \in DOMAIN s : s[i].id # k, ~Undercut(k, f)
      PROVE  /\ Len(s) = Limit
             /\ f.near # NULL => \A i \in 1 .. Limit : s[i].distance <= Distance(k, f.near)
  <2>1. k \in M
    <3>1. k \in Ids /\ r.seen \in SUBSET DOMAIN tiers /\ Wanted(k, f, r.seen)
      BY DEF FieldOK
    <3> QED
      BY <1>2, <1>6, <3>1, MatchesWanted
  <2>2. PICK a : a = Row(k, f, score)
    OBVIOUS
  <2>3. a \in S /\ \A i \in DOMAIN s : s[i] # a
    BY <1>4, <1>6, <2>1, <2>2
  <2>4. IsFiniteSet(S)
    <3>2. IsFiniteSet(M)
      BY IdsFinite, FS_Subset
    <3>3. [k2 \in M |-> Row(k2, f, score)] \in Surjection(M, S)
      BY DEF Surjection
    <3> QED
      BY <3>2, <3>3, FS_Surjection
  <2>5. Len(s) = Limit /\ \A j \in 1 .. Limit : s[j] \in S /\ ~Before(a, s[j], f.near)
    BY <2>3, <2>4, OrderedComplete
  <2>6. ASSUME f.near # NULL, NEW i \in 1 .. Limit PROVE s[i].distance <= Distance(k, f.near)
    <3>1. PICK h \in M : s[i] = Row(h, f, score)
      BY <2>5
    <3>2. s[i].distance = Distance(h, f.near) /\ a.distance = Distance(k, f.near)
      BY <1>4, <2>1, <2>2, <2>6, <3>1
    <3>3. ~(a.distance < s[i].distance)
      BY <2>5, <2>6 DEF Before
    <3>4. f.near \in [GeoFields -> Int]
      BY <1>2, <2>6 DEF Numeric
    <3>5. \A m \in M : Distance(m, f.near) \in Int
      BY <2>6, <3>4, PlacesExist DEF Matches
    <3>6. Distance(h, f.near) \in Int /\ Distance(k, f.near) \in Int
      BY <2>1, <3>5
    <3> QED
      BY <3>2, <3>3, <3>6
  <2> QED
    BY <2>5, <2>6
<1>7. Complete(new)
  BY <1>1, <1>6 DEF Complete
<1> HIDE DEF new, S, M
<1>8. new.due \subseteq Ids
  BY <1>1 DEF FieldOK
<1>9. \A t \in new.shown : ShownOK(t)
  BY <1>1 DEF FieldOK
<1>10. FieldOK(new)
  BY <1>1, <1>2, <1>5, <1>7, <1>8, <1>9 DEF FieldOK
<1> QED
  BY <1>10 DEF new

(* The steps after it: the answer is carried over, and the tiers that are   *)
(* read include the one that had the lowest price.                          *)
LEMMA RowsPass ==
    ASSUME NEW r, FieldOK(r), r.pc = "rows"
    PROVE  FieldOK(IF r.rows = <<>> THEN Resolved(r, <<>>) ELSE [r EXCEPT !.pc = "tiers"])
<1>0. r.filter # Bad /\ r.value = NULL
  BY DEF FieldOK
<1>1. CASE r.rows = <<>>
  <2> DEFINE new == Resolved(r, <<>>)
  <2>1. /\ DOMAIN new = {"pc", "filter", "due", "seen", "rows", "shown", "value", "err"}
        /\ new.pc = "done" /\ new.rows = r.rows /\ new.filter = r.filter
        /\ new.due = r.due /\ new.seen = r.seen
        /\ new.shown = r.shown
    BY DEF FieldOK, Resolved
  <2> HIDE DEF new
  <2>2. Complete(new) /\ Covered(new)
    BY <1>1, <2>1 DEF FieldOK, Complete, Covered
  <2>3. FieldOK(new)
    BY <1>0, <2>1, <2>2 DEF FieldOK
  <2> QED
    BY <1>1, <2>3 DEF new
<1>2. CASE r.rows # <<>>
  <2> DEFINE new == [r EXCEPT !.pc = "tiers"]
  <2>1. /\ DOMAIN new = {"pc", "filter", "due", "seen", "rows", "shown", "value", "err"}
        /\ new.pc = "tiers" /\ new.rows = r.rows /\ new.filter = r.filter
        /\ new.due = r.due /\ new.seen = r.seen
        /\ new.shown = r.shown /\ new.value = NULL
    BY <1>0 DEF FieldOK
  <2> HIDE DEF new
  <2>2. Complete(new)
    BY <2>1 DEF FieldOK, Complete
  <2>3. FieldOK(new)
    BY <1>0, <2>1, <2>2 DEF FieldOK
  <2> QED
    BY <1>2, <2>3 DEF new
<1> QED
  BY <1>1, <1>2

LEMMA TiersCovered ==
    ASSUME CatalogTypeOK, NEW r, FieldOK(r), r.pc = "tiers"
    PROVE  FieldOK([r EXCEPT !.pc = "tierRows",
                             !.shown = ScanTiers({r.rows[i].id : i \in DOMAIN r.rows})])
<1> DEFINE S == {r.rows[i].id : i \in DOMAIN r.rows}
           scan(j) == [id |-> j, event |-> tiers[j].event, price |-> tiers[j].price,
                       capacity |-> tiers[j].capacity, sold |-> tiers[j].sold,
                       remaining |-> tiers[j].capacity - tiers[j].sold]
           T == ScanTiers(S)
           new == [r EXCEPT !.pc = "tierRows", !.shown = T]
<1>0. r.filter # Bad /\ r.value = NULL
  BY DEF FieldOK
<1>1. /\ DOMAIN new = {"pc", "filter", "due", "seen", "rows", "shown", "value", "err"}
      /\ new.pc = "tierRows" /\ new.rows = r.rows /\ new.filter = r.filter
      /\ new.due = r.due /\ new.seen = r.seen
      /\ new.shown = T /\ new.value = NULL
  BY <1>0 DEF FieldOK
<1>2. T = {scan(j) : j \in {j \in DOMAIN tiers : tiers[j].event \in S}}
  BY DEF ScanTiers
<1>3. ASSUME NEW j \in DOMAIN tiers PROVE ShownOK(scan(j))
  <2>1. tiers[j].capacity \in Nat /\ tiers[j].sold \in Nat
    BY RowsOf DEF TierRows
  <2>2. tiers[j].capacity - tiers[j].sold \in tiers[j].capacity - tiers[j].sold .. tiers[j].capacity
    BY <2>1
  <2> QED
    BY <2>2 DEF ShownOK
<1>4. \A t \in T : ShownOK(t)
  BY <1>2, <1>3
<1>5. ASSUME NEW i \in DOMAIN r.rows, r.rows[i].minPrice # NULL
      PROVE  \E t \in T : t.event = r.rows[i].id /\ t.price = r.rows[i].minPrice
  <2>1. PICK j \in TiersOf(r.rows[i].id) : tiers[j].price = r.rows[i].minPrice
    BY <1>5 DEF FieldOK, RowOK
  <2>2. j \in DOMAIN tiers /\ tiers[j].event = r.rows[i].id /\ tiers[j].event \in S
    BY <2>1 DEF TiersOf
  <2>3. scan(j) \in T
    BY <1>2, <2>2
  <2>4. scan(j).event = tiers[j].event /\ scan(j).price = tiers[j].price
    OBVIOUS
  <2> HIDE DEF scan, T
  <2> QED
    BY <2>1, <2>2, <2>3, <2>4
<1> HIDE DEF new, T
<1>6. Covered(new) /\ Complete(new)
  BY <1>1, <1>5 DEF FieldOK, Complete, Covered
<1>7. FieldOK(new)
  BY <1>0, <1>1, <1>4, <1>6 DEF FieldOK
<1> QED
  BY <1>7 DEF new, T

LEMMA ValuePasses ==
    ASSUME NEW r, FieldOK(r), r.pc = "tierRows", NEW value
    PROVE  FieldOK(Resolved(r, value))
<1> DEFINE new == Resolved(r, value)
<1>0. r.filter # Bad
  BY DEF FieldOK
<1>1. /\ DOMAIN new = {"pc", "filter", "due", "seen", "rows", "shown", "value", "err"}
      /\ new.pc = "done" /\ new.rows = r.rows /\ new.filter = r.filter
      /\ new.due = r.due /\ new.seen = r.seen
      /\ new.shown = r.shown
  BY DEF FieldOK, Resolved
<1> HIDE DEF new
<1>2. Covered(new) /\ Complete(new)
  BY <1>1 DEF FieldOK, Complete, Covered
<1>3. FieldOK(new)
  BY <1>0, <1>1, <1>2 DEF FieldOK
<1> QED
  BY <1>3 DEF new

LEMMA ErrorVoids ==
    ASSUME NEW r, FieldOK(r), r.pc # "done"
    PROVE  FieldOK([Resolved(r, NULL) EXCEPT !.err = TRUE])
<1> DEFINE new == [Resolved(r, NULL) EXCEPT !.err = TRUE]
<1>0. r.filter # Bad
  BY DEF FieldOK
<1>1. /\ DOMAIN new = {"pc", "filter", "due", "seen", "rows", "shown", "value", "err"}
      /\ new.pc = "done" /\ new.rows = r.rows /\ new.filter = r.filter
      /\ new.due = r.due /\ new.seen = r.seen
      /\ new.shown = r.shown /\ new.value = NULL
  BY DEF FieldOK, Resolved
<1> HIDE DEF new
<1>2. FieldOK(new)
  BY <1>0, <1>1 DEF FieldOK
<1> QED
  BY <1>2 DEF new

(* A new root field: due holds what the filter asks for now.                *)
LEMMA FreshField ==
    ASSUME NEW d \in Documents, NEW x \in DOMAIN d.args
    PROVE  LET f == Args(x, d.args[x])
               bad == f = Bad
           IN FieldOK([pc |-> IF bad THEN "done" ELSE "query", filter |-> f,
                       due |-> IF bad THEN {} ELSE {k \in Ids : Wanted(k, f, DOMAIN tiers)},
                       seen |-> DOMAIN tiers, rows |-> <<>>, shown |-> {}, value |-> NULL,
                       err |-> bad])
<1> DEFINE f == Args(x, d.args[x])
           bad == f = Bad
           new == [pc |-> IF bad THEN "done" ELSE "query", filter |-> f,
                   due |-> IF bad THEN {} ELSE {k \in Ids : Wanted(k, f, DOMAIN tiers)},
                   seen |-> DOMAIN tiers, rows |-> <<>>, shown |-> {}, value |-> NULL, err |-> bad]
<1>1. /\ DOMAIN new = {"pc", "filter", "due", "seen", "rows", "shown", "value", "err"}
      /\ new.pc = (IF bad THEN "done" ELSE "query") /\ new.filter = f
      /\ new.due = (IF bad THEN {} ELSE {k \in Ids : Wanted(k, f, DOMAIN tiers)})
      /\ new.seen = DOMAIN tiers
      /\ new.rows = <<>> /\ new.shown = {} /\ new.value = NULL
  OBVIOUS
<1>2. f # Bad => DOMAIN f = FilterFields /\ Numeric(f)
  BY FilterShape
<1> HIDE DEF new, f
<1>3. new.due \subseteq Ids /\ \A k \in new.due : Wanted(k, new.filter, new.seen)
  BY <1>1
<1>4. FieldOK(new)
  BY <1>1, <1>2, <1>3 DEF FieldOK
<1> QED
  BY <1>4 DEF new, f

LEMMA ExecBegins ==
    ASSUME CatalogTypeOK, CatalogTypeOK', Grows, DiscoveryInv,
           NEW q \in Requests, NEW d \in Documents, Exec(q, d)
    PROVE  DiscoveryInv'
<1> DEFINE new(x) ==
            LET f == Args(x, d.args[x])
                bad == f = Bad
            IN [pc |-> IF bad THEN "done" ELSE "query", filter |-> f,
                due |-> IF bad THEN {} ELSE {k \in Ids : Wanted(k, f, DOMAIN tiers)},
                seen |-> DOMAIN tiers, rows |-> <<>>, shown |-> {}, value |-> NULL, err |-> bad]
<1>1. PICK fields : fields = [x \in DOMAIN d.args |-> new(x)]
  OBVIOUS
<1>2. gql' = [gql EXCEPT ![q] = [state |-> "running", sel |-> d.sel, data |-> NULL,
                                 fields |-> fields]]
  BY <1>1 DEF Exec
<1>3. \A x \in DOMAIN fields : FieldOK(fields[x])
  <2> SUFFICES ASSUME NEW x \in DOMAIN d.args PROVE FieldOK(new(x))
    BY <1>1
  <2> QED
    BY FreshField
<1> HIDE DEF new
<1>4. DOMAIN gql = Requests
  BY DEF DiscoveryInv
<1>5. /\ DOMAIN gql' = Requests /\ \A p \in Requests \ {q} : gql'[p] = gql[p]
      /\ gql'[q] = [state |-> "running", sel |-> d.sel, data |-> NULL, fields |-> fields]
  BY <1>2, <1>4
<1>6. /\ DOMAIN gql'[q] = {"state", "sel", "data", "fields"} /\ gql'[q].state = "running"
      /\ gql'[q].fields = fields
  BY <1>5
<1>7. ASSUME NEW p \in Requests \ {q}
      PROVE  RequestOK(gql'[p]) /\ \A y \in Fields(p)' : FieldOK(Field(p, y))'
  <2>1. Fields(p)' = Fields(p) /\ \A y \in Fields(p) : Field(p, y)' = Field(p, y)
    BY <1>5 DEF Fields, Field
  <2>2. ASSUME NEW y \in Fields(p) PROVE FieldOK(Field(p, y))'
    <3>1. PICK r : r = Field(p, y)
      OBVIOUS
    <3>2. FieldOK(r)'
      BY <3>1, FieldKept DEF DiscoveryInv
    <3> QED
      BY <2>1, <3>1, <3>2
  <2> QED
    BY <1>5, <2>1, <2>2 DEF DiscoveryInv
<1>8. RequestOK(gql'[q])
  BY <1>6 DEF RequestOK
<1>9. ASSUME NEW y \in Fields(q)' PROVE FieldOK(Field(q, y))'
  <2>1. y \in DOMAIN fields
    BY <1>6 DEF Fields
  <2>2. PICK r : r = fields[y]
    OBVIOUS
  <2>3. Field(q, y)' = r
    BY <1>6, <2>2 DEF Field
  <2>4. FieldOK(r)'
    BY <1>3, <2>1, <2>2, FieldKept
  <2> QED
    BY <2>3, <2>4
<1>10. \A p \in Requests : RequestOK(gql'[p]) /\ \A y \in Fields(p)' : FieldOK(Field(p, y))'
  BY <1>7, <1>8, <1>9
<1> QED
  BY <1>5, <1>10 DEF DiscoveryInv, RequestOK, NoRequest

LEMMA DispatchKeeps ==
    ASSUME CatalogTypeOK, CatalogTypeOK', Grows, DiscoveryInv, NEW q \in Requests, Dispatch(q)
    PROVE  DiscoveryInv'
<1>1. PICK data : gql' = [gql EXCEPT ![q].state = "answered", ![q].data = data]
  BY DEF Dispatch
<1>2. DOMAIN gql = Requests /\ gql[q].state = "running"
  BY DEF DiscoveryInv, Dispatch
<1>3. DOMAIN gql[q] = {"state", "sel", "data", "fields"}
  <2>1. gql[q] # NoRequest
    BY <1>2 DEF NoRequest
  <2> QED
    BY <2>1 DEF DiscoveryInv, RequestOK
<1>4. /\ DOMAIN gql' = Requests /\ \A p \in Requests \ {q} : gql'[p] = gql[p]
      /\ DOMAIN gql'[q] = {"state", "sel", "data", "fields"} /\ gql'[q].state = "answered"
      /\ gql'[q].fields = gql[q].fields
  BY <1>1, <1>2, <1>3
<1>5. ASSUME NEW p \in Requests
      PROVE  RequestOK(gql'[p]) /\ \A y \in Fields(p)' : FieldOK(Field(p, y))'
  <2>1. Fields(p)' = Fields(p) /\ \A y \in Fields(p) : Field(p, y)' = Field(p, y)
    BY <1>2, <1>4 DEF Fields, Field
  <2>2. ASSUME NEW y \in Fields(p) PROVE FieldOK(Field(p, y))'
    <3>1. PICK r : r = Field(p, y)
      OBVIOUS
    <3>2. FieldOK(r)'
      BY <3>1, FieldKept DEF DiscoveryInv
    <3> QED
      BY <2>1, <3>1, <3>2
  <2>3. RequestOK(gql'[p])
    <3>1. CASE p = q
      BY <1>4, <3>1 DEF RequestOK
    <3>2. CASE p # q
      BY <1>4, <3>2 DEF DiscoveryInv
    <3> QED
      BY <3>1, <3>2
  <2> QED
    BY <2>1, <2>2, <2>3
<1> QED
  BY <1>4, <1>5 DEF DiscoveryInv, RequestOK, NoRequest

-----------------------------------------------------------------------------
LEMMA RequestKeeps ==
    ASSUME CatalogTypeOK, CatalogTypeOK', Grows, DiscoveryInv, NEW q \in Requests, RequestStep(q)
    PROVE  DiscoveryInv'
<1>1. ASSUME NEW x \in RootFields, QueryEvents(q, x) PROVE DiscoveryInv'
  <2>1. PICK r : r = Field(q, x)
    OBVIOUS
  <2>2. Active(q, x) /\ r.pc = "query" /\ FieldOK(r)
    BY <1>1, <2>1, ActiveField DEF QueryEvents, Field
  <2>3. PICK score \in Trending :
           \E s \in Ordered({Row(k, r.filter, score) :
                               k \in {k \in Ids : Matches(k, r.filter)}}, r.filter.near) :
               SetField(q, x, [r EXCEPT !.pc = "rows", !.rows = s, !.seen = DOMAIN tiers])
    BY <1>1, <2>1 DEF QueryEvents
  <2>4. PICK s \in Ordered({Row(k, r.filter, score) :
                               k \in {k \in Ids : Matches(k, r.filter)}}, r.filter.near) :
               SetField(q, x, [r EXCEPT !.pc = "rows", !.rows = s, !.seen = DOMAIN tiers])
    BY <2>3
  <2>5. PICK new : new = [r EXCEPT !.pc = "rows", !.rows = s, !.seen = DOMAIN tiers]
    OBVIOUS
  <2>6. FieldOK(new)
    BY <2>2, <2>5, QueryReads
  <2> QED
    BY <2>2, <2>4, <2>5, <2>6, SetFieldKeeps
<1>2. ASSUME NEW x \in RootFields, ReadRows(q, x) PROVE DiscoveryInv'
  <2>1. PICK r : r = Field(q, x)
    OBVIOUS
  <2>2. Active(q, x) /\ r.pc = "rows" /\ FieldOK(r)
    BY <1>2, <2>1, ActiveField DEF ReadRows, Field
  <2>3. PICK new : new = IF r.rows = <<>> THEN Resolved(r, <<>>) ELSE [r EXCEPT !.pc = "tiers"]
    OBVIOUS
  <2>4. SetField(q, x, new)
    BY <1>2, <2>1, <2>3 DEF ReadRows
  <2>5. FieldOK(new)
    BY <2>2, <2>3, RowsPass
  <2> QED
    BY <2>2, <2>4, <2>5, SetFieldKeeps
<1>3. ASSUME NEW x \in RootFields, AttachTiers(q, x) PROVE DiscoveryInv'
  <2>1. PICK r : r = Field(q, x)
    OBVIOUS
  <2>2. Active(q, x) /\ r.pc = "tiers" /\ FieldOK(r)
    BY <1>3, <2>1, ActiveField DEF AttachTiers, Field
  <2>3. PICK new : new = [r EXCEPT !.pc = "tierRows",
                                   !.shown = ScanTiers({r.rows[i].id : i \in DOMAIN r.rows})]
    OBVIOUS
  <2>4. SetField(q, x, new)
    BY <1>3, <2>1, <2>3 DEF AttachTiers
  <2>5. FieldOK(new)
    BY <2>2, <2>3, TiersCovered
  <2> QED
    BY <2>2, <2>4, <2>5, SetFieldKeeps
<1>4. ASSUME NEW x \in RootFields, Marshal(q, x) PROVE DiscoveryInv'
  <2>1. PICK r : r = Field(q, x)
    OBVIOUS
  <2>2. Active(q, x) /\ r.pc = "tierRows" /\ FieldOK(r)
    BY <1>4, <2>1, ActiveField DEF Marshal, Field
  <2>3. PICK new : new = Resolved(r, EventList(r.rows, r.shown, gql[q].sel))
    OBVIOUS
  <2>4. SetField(q, x, new)
    BY <1>4, <2>1, <2>3 DEF Marshal
  <2>5. FieldOK(new)
    BY <2>2, <2>3, ValuePasses
  <2> QED
    BY <2>2, <2>4, <2>5, SetFieldKeeps
<1>5. ASSUME NEW x \in RootFields, FieldError(q, x) PROVE DiscoveryInv'
  <2>1. PICK r : r = Field(q, x)
    OBVIOUS
  <2>2. Active(q, x) /\ r.pc # "done" /\ FieldOK(r)
    BY <1>5, <2>1, ActiveField DEF FieldError, Field
  <2>3. PICK new : new = [Resolved(r, NULL) EXCEPT !.err = TRUE]
    OBVIOUS
  <2>4. SetField(q, x, new)
    BY <1>5, <2>1, <2>3 DEF FieldError
  <2>5. FieldOK(new)
    BY <2>2, <2>3, ErrorVoids
  <2> QED
    BY <2>2, <2>4, <2>5, SetFieldKeeps
<1> QED
  BY <1>1, <1>2, <1>3, <1>4, <1>5, DispatchKeeps DEF RequestStep

(* A step that is not a request's leaves every request alone, or ends it.   *)
LEMMA DiscoveryInvStep ==
    ASSUME CatalogInv, DiscoveryInv, [PlatformNext]_platformVars
    PROVE  DiscoveryInv'
<1>1. CatalogTypeOK /\ CatalogTypeOK' /\ Grows
  BY RowsKept DEF CatalogInv
<1>2. ASSUME DOMAIN gql' = Requests,
             \A q \in Requests : gql'[q] = gql[q] \/ gql'[q] = NoRequest
      PROVE  DiscoveryInv'
  BY <1>1, <1>2, UntouchedRequests
<1>3. CASE UNCHANGED gql
  BY <1>2, <1>3 DEF DiscoveryInv
<1>4. ASSUME NEW p \in Procs, ProcStep(p) PROVE DiscoveryInv'
  <2>1. CASE Lose(p)
    BY <1>2, <2>1 DEF Lose
  <2>2. CASE UNCHANGED requestVars
    BY <1>3, <2>2 DEF requestVars
  <2> QED
    BY <1>4, <2>1, <2>2 DEF ProcStep
<1>5. ASSUME NEW q \in Requests, GraphQLStep(q) PROVE DiscoveryInv'
  BY <1>1, <1>5, RequestKeeps DEF GraphQLStep
<1>6. ASSUME NEW q \in Requests, NEW d \in Documents, Exec(q, d) PROVE DiscoveryInv'
  BY <1>1, <1>6, ExecBegins
<1>7. CASE RestStep \/ (\E c \in Clients : CallStep(c))
           \/ (\E p, q \in Procs : Collide(p, q) /\ UNCHANGED requestVars)
  BY <1>3, <1>7 DEF RestStep, CallStep, requestVars
<1>8. CASE UNCHANGED platformVars
  BY <1>3, <1>8 DEF platformVars, requestVars
<1> QED
  BY <1>4, <1>5, <1>6, <1>7, <1>8 DEF PlatformNext

LEMMA DiscoveryInvInit == PlatformInit => DiscoveryInv
BY DEF PlatformInit, DiscoveryInit, DiscoveryInv, RequestOK, Fields, NoRequest

LEMMA InvMatches == DiscoveryInv => AnswersMatch
<1> SUFFICES ASSUME DiscoveryInv, NEW q \in Requests, NEW x \in Fields(q),
                    Field(q, x).filter # Bad, NEW k \in Found(q, x)
             PROVE  Wanted(k, Field(q, x).filter, Field(q, x).seen)
  BY DEF AnswersMatch
<1>1. FieldOK(Field(q, x))
  BY DEF DiscoveryInv
<1>2. PICK i \in DOMAIN Field(q, x).rows : k = Field(q, x).rows[i].id
  BY DEF Found
<1> QED
  BY <1>1, <1>2 DEF FieldOK, RowOK

LEMMA InvComplete == DiscoveryInv => NothingMissed
<1> SUFFICES ASSUME DiscoveryInv, NEW q \in Requests, NEW x \in Fields(q),
                    Field(q, x).value # NULL, NEW k \in Field(q, x).due \ Found(q, x),
                    ~Undercut(k, Field(q, x).filter)
             PROVE  /\ Len(Field(q, x).rows) = Limit
                    /\ Field(q, x).filter.near # NULL =>
                          \A i \in 1 .. Limit : Field(q, x).rows[i].distance
                                                   <= Distance(k, Field(q, x).filter.near)
  BY DEF NothingMissed
<1>1. Complete(Field(q, x))
  BY DEF DiscoveryInv, FieldOK
<1> QED
  BY <1>1 DEF Complete, Found

LEMMA InvCovers == DiscoveryInv => TiersCoverPrice
<1> SUFFICES ASSUME DiscoveryInv, NEW q \in Requests, NEW x \in Fields(q),
                    Field(q, x).value # NULL, NEW i \in DOMAIN Field(q, x).rows
             PROVE  LET r == Field(q, x).rows[i]
                        shown == {t \in Field(q, x).shown : t.event = r.id}
                    IN /\ r.minPrice # NULL => \E t \in shown : t.price = r.minPrice
                       /\ \A t \in shown :
                             t.remaining \in tiers[t.id].capacity - tiers[t.id].sold
                                                .. tiers[t.id].capacity
  BY DEF TiersCoverPrice
<1>1. Covered(Field(q, x)) /\ \A t \in Field(q, x).shown : ShownOK(t)
  BY DEF DiscoveryInv, FieldOK
<1> QED
  BY <1>1 DEF Covered, ShownOK

-----------------------------------------------------------------------------
(* Marshalling: without an error nothing turns into Null.                   *)

LEMMA NullApart ==
    /\ NULL \notin Texts /\ NULL \notin States
    /\ NULL \notin TierObjects /\ NULL \notin Lists(TierObjects)
    /\ \A d \in Documents :
          /\ d.sel \subseteq EventFields
          /\ NULL \notin Objects(d.sel) /\ NULL \notin Lists(Objects(d.sel))
          /\ NULL \notin Seq(Objects(d.sel))
          /\ NULL \notin [DOMAIN d.args -> Seq(Objects(d.sel))]
BY NullAssumption, Zenon

LEMMA TierMade ==
    ASSUME NEW t \in ShownTiers
    PROVE  TierObject(t) \in TierObjects /\ TierObject(t) # NULL
<1>1. Tier_fields(t) \in TierObjects
  BY DEF Tier_fields, TierObjects, ShownTiers
<1>2. \A k \in DOMAIN Tier_fields(t) : Tier_fields(t)[k] \in Int
  BY DEF Tier_fields, ShownTiers
<1>3. TierObject(t) = Tier_fields(t)
  BY <1>2, NullIsNoNumber DEF TierObject
<1> QED
  BY <1>1, <1>3, NullApart

LEMMA TiersMade ==
    ASSUME NEW T \in SUBSET ShownTiers
    PROVE  ListOf({TierObject(t) : t \in T}) \in Lists(TierObjects)
<1>1. {TierObject(t) : t \in T} \in SUBSET TierObjects /\ NULL \notin {TierObject(t) : t \in T}
  BY TierMade
<1> QED
  BY <1>1 DEF ListOf, Lists

LEMMA ObjectMade ==
    ASSUME NEW d \in Documents, NEW row \in FoundRows, NEW T \in SUBSET ShownTiers
    PROVE  LET f == EventObject([row |-> row, tiers |-> T], d.sel)
           IN IsObject(f, d.sel) /\ f # NULL
<1> DEFINE o == [row |-> row, tiers |-> T]
           value == [text |-> Event_text(o), place |-> Event_lat_lng(o),
                     state |-> Event_state(o), startsAt |-> Event_startsAt(o),
                     minPriceCents |-> Event_minPriceCents(o), tiers |-> Event_tiers(o),
                     distanceMeters |-> Event_distanceMeters(o),
                     trendingScore |-> Event_trendingScore(o)]
           f == [k \in d.sel |-> value[k]]
<1>1. /\ o.row = row /\ o.tiers = T /\ row.id \in Nat /\ row.event \in EventRows
      /\ row.minPrice \in Int \cup {NULL} /\ row.distance \in Int \cup {NULL} /\ row.score \in Nat
  BY DEF FoundRows
<1>2. /\ row.event.category \in Categories /\ row.event.state \in {"draft", "published"}
      /\ row.event.lat \in Int \cup {NULL} /\ row.event.lng \in Int \cup {NULL}
      /\ row.event.starts \in Int \cup {NULL}
  BY <1>1 DEF EventRows
<1> HIDE DEF o
<1>3. Event_text(o) \in Texts /\ Event_lat_lng(o) \in Places
  BY <1>1, <1>2 DEF Event_text, Event_lat_lng, Texts, Places
<1>4. Event_state(o) \in States /\ Event_startsAt(o) \in Int \cup {NULL}
  BY <1>1, <1>2 DEF Event_state, Event_startsAt, States
<1>5. /\ Event_minPriceCents(o) \in Int \cup {NULL} /\ Event_distanceMeters(o) \in Int \cup {NULL}
      /\ Event_trendingScore(o) \in Nat
  BY <1>1 DEF Event_minPriceCents, Event_distanceMeters, Event_trendingScore
<1>6. Event_tiers(o) \in Lists(TierObjects)
  BY <1>1, TiersMade DEF Event_tiers
<1>7. ASSUME NEW k \in EventFields PROVE value[k] \in ValuesOf(k)
  BY <1>3, <1>4, <1>5, <1>6 DEF EventFields, ValuesOf
<1>8. ASSUME NEW k \in NonNullFields PROVE value[k] # NULL
  BY <1>3, <1>4, <1>5, <1>6, NullApart, NullIsNoNumber DEF NonNullFields
<1>9. EventObject(o, d.sel) = f
  BY <1>8 DEF EventObject
<1>10. \A k \in d.sel : k \in EventFields /\ f[k] \in ValuesOf(k)
  BY <1>7, NullApart
<1>11. IsObject(f, d.sel)
  BY <1>10 DEF IsObject
<1>12. f # NULL
  <2>1. \A k : ValuesOf(k) \subseteq Values
    BY DEF ValuesOf, Values
  <2>2. f \in Objects(d.sel)
    BY <1>10, <2>1 DEF Objects
  <2> QED
    BY <2>2, NullApart
<1> HIDE DEF f
<1> QED
  BY <1>9, <1>11, <1>12 DEF o

LEMMA ListMade ==
    ASSUME NEW d \in Documents, NEW rows \in Seq(FoundRows), NEW shown \in SUBSET ShownTiers
    PROVE  Marshalled(EventList(rows, shown, d.sel), rows, d.sel)
<1> DEFINE object(r) == EventObject([row |-> r, tiers |-> {t \in shown : t.event = r.id}], d.sel)
           S == {object(rows[i]) : i \in DOMAIN rows}
           v == [i \in DOMAIN rows |-> object(rows[i])]
<1>1. ASSUME NEW i \in DOMAIN rows
      PROVE  IsObject(object(rows[i]), d.sel) /\ object(rows[i]) # NULL
  <2>1. rows[i] \in FoundRows /\ {t \in shown : t.event = rows[i].id} \in SUBSET ShownTiers
    OBVIOUS
  <2> QED
    BY <2>1, ObjectMade
<1> HIDE DEF object
<1>2. S \in SUBSET Objects(d.sel)
  <2>1. \A k : ValuesOf(k) \subseteq Values
    BY DEF ValuesOf, Values
  <2> QED
    BY <1>1, <2>1 DEF IsObject, Objects
<1>3. ListOf(S) = [list |-> S]
  BY <1>1 DEF ListOf
<1>4. ListOf(S) # NULL
  BY <1>2, <1>3, NullApart DEF Lists
<1>5. EventList(rows, shown, d.sel) = v
  BY <1>4 DEF EventList, object
<1> QED
  BY <1>1, <1>5 DEF Marshalled

LEMMA ListApart ==
    ASSUME NEW d \in Documents, NEW rows \in Seq(FoundRows), NEW v, Marshalled(v, rows, d.sel)
    PROVE  v \in Seq(Objects(d.sel)) /\ v # NULL /\ Len(v) = Len(rows)
<1>1. \A k : ValuesOf(k) \subseteq Values
  BY DEF ValuesOf, Values
<1>2. \A i \in DOMAIN rows : v[i] \in Objects(d.sel)
  BY <1>1 DEF Marshalled, IsObject, Objects
<1>3. PICK n \in Nat : DOMAIN rows = 1 .. n /\ Len(rows) = n
  OBVIOUS
<1>4. v \in [1 .. n -> Objects(d.sel)]
  BY <1>2, <1>3 DEF Marshalled
<1>5. v \in Seq(Objects(d.sel)) /\ Len(v) = n
  BY <1>4
<1> QED
  BY <1>3, <1>5, NullApart

-----------------------------------------------------------------------------
(* Every step of a request keeps the shape of what it reads and makes.      *)

(* The rows of the first statement.                                         *)
LEMMA RowShape ==
    ASSUME CatalogTypeOK, NEW f, Numeric(f), NEW score \in Trending,
           NEW k \in Ids, Matches(k, f)
    PROVE  Row(k, f, score) \in FoundRows
<1>1. k \in Nat /\ events[k] \in EventRows
  BY RowsOf DEF Ids, CatalogTypeOK
<1>2. MinPrice(k) \in Nat \cup {NULL}
  BY MinPriceLeast
<1>3. score[k] \in Nat
  BY DiscoveryAssumption DEF Trending
<1>4. f.near # NULL => Distance(k, f.near) \in Int
  BY PlacesExist DEF Numeric, Matches
<1> QED
  BY <1>1, <1>2, <1>3, <1>4 DEF Row, FoundRows

LEMMA QueryShape ==
    ASSUME CatalogTypeOK, NEW sel, NEW r, FieldShape(r, sel), r.pc = "query", Numeric(r.filter),
           NEW score \in Trending,
           NEW s \in Ordered({Row(k, r.filter, score) :
                                 k \in {k \in Ids : Matches(k, r.filter)}}, r.filter.near)
    PROVE  FieldShape([r EXCEPT !.pc = "rows", !.rows = s, !.seen = DOMAIN tiers], sel)
<1> DEFINE S == {Row(k, r.filter, score) : k \in {k \in Ids : Matches(k, r.filter)}}
           n == IF Cardinality(S) < Limit THEN Cardinality(S) ELSE Limit
           new == [r EXCEPT !.pc = "rows", !.rows = s, !.seen = DOMAIN tiers]
<1>1. S \subseteq FoundRows
  BY RowShape
<1>2. n \in Nat
  <2>1. IsFiniteSet({k \in Ids : Matches(k, r.filter)})
    BY IdsFinite, FS_Subset
  <2>2. [k \in {k \in Ids : Matches(k, r.filter)} |-> Row(k, r.filter, score)]
           \in Surjection({k \in Ids : Matches(k, r.filter)}, S)
    BY DEF Surjection
  <2>3. Cardinality(S) \in Nat
    BY <2>1, <2>2, FS_Surjection, FS_CardinalityType
  <2>4. Limit \in Nat
    BY DiscoveryAssumption
  <2> QED
    BY <2>3, <2>4
<1>3. s \in [1 .. n -> S]
  BY DEF Ordered
<1> HIDE DEF S, n
<1>4. s \in Seq(FoundRows)
  BY <1>1, <1>2, <1>3
<1>5. /\ DOMAIN new = {"pc", "filter", "due", "seen", "rows", "shown", "value", "err"}
      /\ new.pc = "rows" /\ new.rows = s /\ new.shown = r.shown /\ new.err = r.err /\ ~r.err
  BY DEF FieldShape
<1> HIDE DEF new
<1>6. FieldShape(new, sel)
  BY <1>4, <1>5 DEF FieldShape
<1> QED
  BY <1>6 DEF new

LEMMA ReadShape ==
    ASSUME NEW sel, NEW r, FieldShape(r, sel), r.pc = "rows"
    PROVE  FieldShape(IF r.rows = <<>> THEN Resolved(r, <<>>) ELSE [r EXCEPT !.pc = "tiers"], sel)
<1> DEFINE new == IF r.rows = <<>> THEN Resolved(r, <<>>) ELSE [r EXCEPT !.pc = "tiers"]
<1>1. /\ DOMAIN new = {"pc", "filter", "due", "seen", "rows", "shown", "value", "err"}
      /\ new.rows = r.rows /\ new.shown = r.shown /\ new.err = r.err /\ ~r.err
      /\ \/ r.rows = <<>> /\ new.value = <<>>
         \/ new.pc = "tiers"
  BY DEF FieldShape, Resolved
<1> HIDE DEF new
<1>2. r.rows = <<>> => Marshalled(<<>>, r.rows, sel)
  BY DEF Marshalled
<1>3. FieldShape(new, sel)
  BY <1>1, <1>2 DEF FieldShape
<1> QED
  BY <1>3 DEF new

LEMMA AttachShape ==
    ASSUME CatalogTypeOK, NEW sel, NEW r, FieldShape(r, sel), r.pc = "tiers", NEW S
    PROVE  FieldShape([r EXCEPT !.pc = "tierRows", !.shown = ScanTiers(S)], sel)
<1> DEFINE new == [r EXCEPT !.pc = "tierRows", !.shown = ScanTiers(S)]
<1>1. ScanTiers(S) \subseteq ShownTiers
  <2> SUFFICES ASSUME NEW j \in DOMAIN tiers
               PROVE  [id |-> j, event |-> tiers[j].event, price |-> tiers[j].price,
                       capacity |-> tiers[j].capacity, sold |-> tiers[j].sold,
                       remaining |-> tiers[j].capacity - tiers[j].sold] \in ShownTiers
    BY DEF ScanTiers
  <2>1. /\ j \in Nat /\ tiers[j].event \in Nat /\ tiers[j].price \in Nat
        /\ tiers[j].capacity \in Nat /\ tiers[j].sold \in Nat
    BY RowsOf DEF TierRows, CatalogTypeOK
  <2> QED
    BY <2>1 DEF ShownTiers
<1>2. /\ DOMAIN new = {"pc", "filter", "due", "seen", "rows", "shown", "value", "err"}
      /\ new.pc = "tierRows" /\ new.rows = r.rows /\ new.shown = ScanTiers(S)
      /\ new.err = r.err /\ ~r.err
  BY DEF FieldShape
<1> HIDE DEF new
<1>3. FieldShape(new, sel)
  BY <1>1, <1>2 DEF FieldShape
<1> QED
  BY <1>3 DEF new

LEMMA MarshalShape ==
    ASSUME NEW d \in Documents, NEW r, FieldShape(r, d.sel), r.pc = "tierRows"
    PROVE  FieldShape(Resolved(r, EventList(r.rows, r.shown, d.sel)), d.sel)
<1> DEFINE v == EventList(r.rows, r.shown, d.sel)
           new == Resolved(r, v)
<1>1. Marshalled(v, r.rows, d.sel)
  BY ListMade DEF FieldShape
<1> HIDE DEF v
<1>2. /\ DOMAIN new = {"pc", "filter", "due", "seen", "rows", "shown", "value", "err"}
      /\ new.pc = "done" /\ new.rows = r.rows /\ new.shown = r.shown /\ new.value = v
      /\ new.err = r.err /\ ~r.err
  BY DEF FieldShape, Resolved
<1> HIDE DEF new
<1>3. FieldShape(new, d.sel)
  BY <1>1, <1>2 DEF FieldShape
<1> QED
  BY <1>3 DEF new, v

LEMMA ErrorShape ==
    ASSUME NEW sel, NEW r, FieldShape(r, sel)
    PROVE  FieldShape([Resolved(r, NULL) EXCEPT !.err = TRUE], sel)
<1> DEFINE new == [Resolved(r, NULL) EXCEPT !.err = TRUE]
<1>1. /\ DOMAIN new = {"pc", "filter", "due", "seen", "rows", "shown", "value", "err"}
      /\ new.pc = "done" /\ new.rows = r.rows /\ new.shown = r.shown /\ new.value = NULL
      /\ new.err = TRUE
  BY DEF FieldShape, Resolved
<1> HIDE DEF new
<1>2. FieldShape(new, sel)
  BY <1>1 DEF FieldShape
<1> QED
  BY <1>2 DEF new

(* The document of a running request.                                       *)
DocumentOf(q, d) ==
    /\ DOMAIN gql = Requests
    /\ DOMAIN gql[q] = {"state", "sel", "data", "fields"}
    /\ gql[q].state = "running"
    /\ gql[q].sel = d.sel /\ DOMAIN gql[q].fields = DOMAIN d.args
    /\ \A x \in DOMAIN d.args : FieldShape(gql[q].fields[x], d.sel)

LEMMA RunningShape ==
    ASSUME DiscoveryInv, ShapeInv, NEW q \in Requests, gql[q].state = "running"
    PROVE  \E d \in Documents : DocumentOf(q, d)
<1>1. gql[q] # NoRequest
  BY DEF NoRequest
<1> QED
  BY <1>1 DEF DiscoveryInv, ShapeInv, RequestShape, DocumentOf

LEMMA SetFieldShape ==
    ASSUME ShapeInv, NEW q \in Requests, NEW d \in Documents, DocumentOf(q, d),
           NEW x \in DOMAIN d.args, NEW new, FieldShape(new, d.sel), SetField(q, x, new)
    PROVE  ShapeInv'
<1>1. gql' = [gql EXCEPT ![q].fields[x] = new]
  BY DEF SetField
<1>2. /\ \A p \in Requests \ {q} : gql'[p] = gql[p]
      /\ DOMAIN gql'[q] = {"state", "sel", "data", "fields"} /\ gql'[q].state = "running"
      /\ gql'[q].sel = d.sel
      /\ DOMAIN gql'[q].fields = DOMAIN d.args /\ gql'[q].fields[x] = new
      /\ \A y \in DOMAIN d.args : y # x => gql'[q].fields[y] = gql[q].fields[y]
  BY <1>1 DEF DocumentOf
<1>3. \A y \in DOMAIN d.args : FieldShape(gql'[q].fields[y], d.sel)
  BY <1>2 DEF DocumentOf
<1>4. RequestShape(gql'[q])
  BY <1>2, <1>3 DEF RequestShape
<1> QED
  BY <1>2, <1>4 DEF ShapeInv

LEMMA DispatchShape ==
    ASSUME DiscoveryInv, ShapeInv, NEW q \in Requests, Dispatch(q)
    PROVE  ShapeInv'
<1>1. PICK d \in Documents : DocumentOf(q, d)
  BY RunningShape DEF Dispatch
<1>2. PICK data : data = IF \E x \in Fields(q) : Field(q, x).value = NULL THEN NULL
                         ELSE [x \in Fields(q) |-> Field(q, x).value]
  OBVIOUS
<1>3. gql' = [gql EXCEPT ![q].state = "answered", ![q].data = data]
  BY <1>2 DEF Dispatch
<1>4. /\ Fields(q) = DOMAIN d.args /\ \A x \in DOMAIN d.args : Field(q, x) = gql[q].fields[x]
      /\ \A x \in DOMAIN d.args : gql[q].fields[x].pc = "done"
  BY <1>1 DEF DocumentOf, Fields, Field, Dispatch
<1>5. ASSUME NEW x \in DOMAIN d.args
      PROVE  gql[q].fields[x].value = NULL <=> gql[q].fields[x].err
  <2>1. FieldShape(gql[q].fields[x], d.sel)
    BY <1>1 DEF DocumentOf
  <2> QED
    BY <1>4, <2>1, ListApart DEF FieldShape
<1>6. data = IF \E x \in DOMAIN d.args : gql[q].fields[x].err THEN NULL
             ELSE [x \in DOMAIN d.args |-> gql[q].fields[x].value]
  BY <1>2, <1>4, <1>5
<1>7. /\ \A p \in Requests \ {q} : gql'[p] = gql[p]
      /\ DOMAIN gql'[q] = {"state", "sel", "data", "fields"} /\ gql'[q].state = "answered"
      /\ gql'[q].sel = d.sel /\ gql'[q].fields = gql[q].fields /\ gql'[q].data = data
  BY <1>1, <1>3 DEF DocumentOf
<1>8. RequestShape(gql'[q])
  <2>1. PICK g : g = gql'[q]
    OBVIOUS
  <2>2. /\ DOMAIN g = {"state", "sel", "data", "fields"} /\ g.state = "answered"
        /\ g.sel = d.sel /\ DOMAIN g.fields = DOMAIN d.args
        /\ \A x \in DOMAIN d.args : FieldShape(g.fields[x], d.sel)
        /\ \A x \in DOMAIN d.args : g.fields[x].pc = "done"
    BY <1>1, <1>4, <1>7, <2>1 DEF DocumentOf
  <2>3. g.data = IF \E x \in DOMAIN d.args : g.fields[x].err THEN NULL
                 ELSE [x \in DOMAIN d.args |-> g.fields[x].value]
    BY <1>6, <1>7, <2>1
  <2>4. RequestShape(g)
    BY <2>2, <2>3, Zenon DEF RequestShape
  <2> QED
    BY <2>1, <2>4
<1> QED
  BY <1>7, <1>8 DEF ShapeInv

LEMMA ExecShape ==
    ASSUME DiscoveryInv, ShapeInv, NEW q \in Requests, NEW d \in Documents, Exec(q, d)
    PROVE  ShapeInv'
<1> DEFINE new(x) ==
            LET f == Args(x, d.args[x])
                bad == f = Bad
            IN [pc |-> IF bad THEN "done" ELSE "query", filter |-> f,
                due |-> IF bad THEN {} ELSE {k \in Ids : Wanted(k, f, DOMAIN tiers)},
                seen |-> DOMAIN tiers, rows |-> <<>>, shown |-> {}, value |-> NULL, err |-> bad]
<1>1. PICK fields : fields = [x \in DOMAIN d.args |-> new(x)]
  OBVIOUS
<1>2. gql' = [gql EXCEPT ![q] = [state |-> "running", sel |-> d.sel, data |-> NULL,
                                 fields |-> fields]]
  BY <1>1 DEF Exec
<1>3. ASSUME NEW x \in DOMAIN d.args PROVE FieldShape(new(x), d.sel)
  <2> DEFINE r == new(x)
             bad == Args(x, d.args[x]) = Bad
  <2>1. /\ DOMAIN r = {"pc", "filter", "due", "seen", "rows", "shown", "value", "err"}
        /\ r.rows = <<>> /\ r.shown = {} /\ r.value = NULL /\ r.err = bad
        /\ r.pc = IF bad THEN "done" ELSE "query"
    OBVIOUS
  <2>2. bad \in BOOLEAN
    BY Zenon
  <2> HIDE DEF r, bad
  <2>3. FieldShape(r, d.sel)
    BY <2>1, <2>2 DEF FieldShape
  <2> QED
    BY <2>3 DEF r
<1>4. DOMAIN fields = DOMAIN d.args /\ \A x \in DOMAIN d.args : FieldShape(fields[x], d.sel)
  BY <1>1, <1>3
<1> HIDE DEF new
<1>5. DOMAIN gql = Requests
  BY DEF DiscoveryInv
<1>6. /\ \A p \in Requests \ {q} : gql'[p] = gql[p]
      /\ gql'[q] = [state |-> "running", sel |-> d.sel, data |-> NULL, fields |-> fields]
  BY <1>2, <1>5
<1>7. RequestShape(gql'[q])
  BY <1>4, <1>6 DEF RequestShape
<1> QED
  BY <1>6, <1>7 DEF ShapeInv

LEMMA RequestKeepsShape ==
    ASSUME CatalogTypeOK, DiscoveryInv, ShapeInv, NEW q \in Requests, RequestStep(q)
    PROVE  ShapeInv'
<1>0. ASSUME NEW x, Active(q, x), NEW new,
             \A d \in Documents : gql[q].sel = d.sel /\ FieldShape(Field(q, x), d.sel)
                                    => FieldShape(new, d.sel),
             SetField(q, x, new)
      PROVE  ShapeInv'
  <2>1. PICK d \in Documents : DocumentOf(q, d)
    BY <1>0, RunningShape DEF Active
  <2>2. x \in DOMAIN d.args /\ gql[q].sel = d.sel /\ FieldShape(Field(q, x), d.sel)
    BY <1>0, <2>1 DEF DocumentOf, Active, Fields, Field
  <2> QED
    BY <1>0, <2>1, <2>2, SetFieldShape
<1>1. ASSUME NEW x \in RootFields, QueryEvents(q, x) PROVE ShapeInv'
  <2>1. PICK r : r = Field(q, x)
    OBVIOUS
  <2>2. Active(q, x) /\ r.pc = "query" /\ FieldOK(r)
    BY <1>1, <2>1, ActiveField DEF QueryEvents, Field
  <2>3. Numeric(r.filter)
    BY <2>2 DEF FieldOK
  <2>4. PICK score \in Trending :
           \E s \in Ordered({Row(k, r.filter, score) :
                               k \in {k \in Ids : Matches(k, r.filter)}}, r.filter.near) :
               SetField(q, x, [r EXCEPT !.pc = "rows", !.rows = s, !.seen = DOMAIN tiers])
    BY <1>1, <2>1 DEF QueryEvents
  <2>5. PICK s \in Ordered({Row(k, r.filter, score) :
                               k \in {k \in Ids : Matches(k, r.filter)}}, r.filter.near) :
               SetField(q, x, [r EXCEPT !.pc = "rows", !.rows = s, !.seen = DOMAIN tiers])
    BY <2>4
  <2>6. PICK new : new = [r EXCEPT !.pc = "rows", !.rows = s, !.seen = DOMAIN tiers]
    OBVIOUS
  <2>7. \A d \in Documents : FieldShape(r, d.sel) => FieldShape(new, d.sel)
    BY <2>2, <2>3, <2>6, QueryShape
  <2> QED
    BY <1>0, <2>1, <2>2, <2>5, <2>6, <2>7
<1>2. ASSUME NEW x \in RootFields, ReadRows(q, x) PROVE ShapeInv'
  <2>1. PICK r : r = Field(q, x)
    OBVIOUS
  <2>2. PICK new : new = IF r.rows = <<>> THEN Resolved(r, <<>>) ELSE [r EXCEPT !.pc = "tiers"]
    OBVIOUS
  <2>3. Active(q, x) /\ r.pc = "rows" /\ SetField(q, x, new)
    BY <1>2, <2>1, <2>2 DEF ReadRows
  <2>4. \A d \in Documents : FieldShape(r, d.sel) => FieldShape(new, d.sel)
    BY <2>2, <2>3, ReadShape
  <2> QED
    BY <1>0, <2>1, <2>3, <2>4
<1>3. ASSUME NEW x \in RootFields, AttachTiers(q, x) PROVE ShapeInv'
  <2>1. PICK r : r = Field(q, x)
    OBVIOUS
  <2>2. PICK new : new = [r EXCEPT !.pc = "tierRows",
                                   !.shown = ScanTiers({r.rows[i].id : i \in DOMAIN r.rows})]
    OBVIOUS
  <2>3. Active(q, x) /\ r.pc = "tiers" /\ SetField(q, x, new)
    BY <1>3, <2>1, <2>2 DEF AttachTiers
  <2>4. \A d \in Documents : FieldShape(r, d.sel) => FieldShape(new, d.sel)
    BY <2>2, <2>3, AttachShape
  <2> QED
    BY <1>0, <2>1, <2>3, <2>4
<1>4. ASSUME NEW x \in RootFields, Marshal(q, x) PROVE ShapeInv'
  <2>1. PICK r : r = Field(q, x)
    OBVIOUS
  <2>2. PICK new : new = Resolved(r, EventList(r.rows, r.shown, gql[q].sel))
    OBVIOUS
  <2>3. Active(q, x) /\ r.pc = "tierRows" /\ SetField(q, x, new)
    BY <1>4, <2>1, <2>2 DEF Marshal
  <2>4. \A d \in Documents : gql[q].sel = d.sel /\ FieldShape(r, d.sel) => FieldShape(new, d.sel)
    BY <2>2, <2>3, MarshalShape
  <2> QED
    BY <1>0, <2>1, <2>3, <2>4
<1>5. ASSUME NEW x \in RootFields, FieldError(q, x) PROVE ShapeInv'
  <2>1. PICK r : r = Field(q, x)
    OBVIOUS
  <2>2. PICK new : new = [Resolved(r, NULL) EXCEPT !.err = TRUE]
    OBVIOUS
  <2>3. Active(q, x) /\ SetField(q, x, new)
    BY <1>5, <2>1, <2>2 DEF FieldError
  <2>4. \A d \in Documents : FieldShape(r, d.sel) => FieldShape(new, d.sel)
    BY <2>2, ErrorShape
  <2> QED
    BY <1>0, <2>1, <2>3, <2>4
<1> QED
  BY <1>1, <1>2, <1>3, <1>4, <1>5, DispatchShape DEF RequestStep

LEMMA ShapeInvStep ==
    ASSUME CatalogInv, DiscoveryInv, ShapeInv, [PlatformNext]_platformVars
    PROVE  ShapeInv'
<1>0. RequestShape(NoRequest)
  BY DEF RequestShape
<1>1. ASSUME \A q \in Requests : gql'[q] = gql[q] \/ gql'[q] = NoRequest PROVE ShapeInv'
  BY <1>0, <1>1 DEF ShapeInv
<1>2. CASE UNCHANGED gql
  BY <1>1, <1>2
<1>3. ASSUME NEW p \in Procs, ProcStep(p) PROVE ShapeInv'
  <2>1. CASE Lose(p)
    BY <1>1, <2>1 DEF Lose
  <2>2. CASE UNCHANGED requestVars
    BY <1>2, <2>2 DEF requestVars
  <2> QED
    BY <1>3, <2>1, <2>2 DEF ProcStep
<1>4. ASSUME NEW q \in Requests, GraphQLStep(q) PROVE ShapeInv'
  BY <1>4, RequestKeepsShape DEF GraphQLStep, CatalogInv
<1>5. ASSUME NEW q \in Requests, NEW d \in Documents, Exec(q, d) PROVE ShapeInv'
  BY <1>5, ExecShape
<1>6. CASE RestStep \/ (\E c \in Clients : CallStep(c))
           \/ (\E p, q \in Procs : Collide(p, q) /\ UNCHANGED requestVars)
  BY <1>2, <1>6 DEF RestStep, CallStep, requestVars
<1>7. CASE UNCHANGED platformVars
  BY <1>2, <1>7 DEF platformVars, requestVars
<1> QED
  BY <1>3, <1>4, <1>5, <1>6, <1>7 DEF PlatformNext

LEMMA InvWhole == ShapeInv => AllOrNothing
<1> SUFFICES ASSUME ShapeInv, NEW q \in Requests, gql[q].state = "answered"
             PROVE  IF \E x \in Fields(q) : Field(q, x).err THEN gql[q].data = NULL
                    ELSE /\ gql[q].data # NULL
                         /\ \A x \in Fields(q) :
                               /\ x \in DOMAIN gql[q].data
                               /\ Len(gql[q].data[x]) = Len(Field(q, x).rows)
                               /\ \A i \in DOMAIN gql[q].data[x] :
                                     DOMAIN gql[q].data[x][i] = gql[q].sel
  BY DEF AllOrNothing
<1>1. gql[q] # NoRequest
  BY DEF NoRequest
<1>2. PICK d \in Documents :
          /\ gql[q].sel = d.sel /\ DOMAIN gql[q].fields = DOMAIN d.args
          /\ \A x \in DOMAIN d.args : /\ FieldShape(gql[q].fields[x], d.sel)
                                      /\ gql[q].fields[x].pc = "done"
          /\ gql[q].data = IF \E x \in DOMAIN d.args : gql[q].fields[x].err THEN NULL
                           ELSE [x \in DOMAIN d.args |-> gql[q].fields[x].value]
  BY <1>1 DEF ShapeInv, RequestShape
<1>3. Fields(q) = DOMAIN d.args /\ \A x \in DOMAIN d.args : Field(q, x) = gql[q].fields[x]
  BY <1>2 DEF Fields, Field
<1>4. CASE \E x \in Fields(q) : Field(q, x).err
  BY <1>2, <1>3, <1>4
<1>5. CASE ~\E x \in Fields(q) : Field(q, x).err
  <2>1. gql[q].data = [x \in DOMAIN d.args |-> gql[q].fields[x].value]
    BY <1>2, <1>3, <1>5
  <2>2. ASSUME NEW x \in DOMAIN d.args
        PROVE  LET v == gql[q].fields[x].value
               IN /\ v \in Seq(Objects(d.sel)) /\ Len(v) = Len(Field(q, x).rows)
                  /\ \A i \in DOMAIN v : DOMAIN v[i] = d.sel
    <3>1. PICK r : r = gql[q].fields[x]
      OBVIOUS
    <3>2. r.rows \in Seq(FoundRows) /\ Marshalled(r.value, r.rows, d.sel)
      BY <1>2, <1>3, <1>5, <3>1 DEF FieldShape
    <3>3. r.value \in Seq(Objects(d.sel)) /\ Len(r.value) = Len(r.rows)
      BY <3>2, ListApart
    <3>4. \A i \in DOMAIN r.value : r.value[i] \in Objects(d.sel)
      BY <3>3
    <3>5. \A i \in DOMAIN r.value : DOMAIN r.value[i] = d.sel
      BY <3>4 DEF Objects
    <3> QED
      BY <1>3, <3>1, <3>3, <3>5
  <2>3. gql[q].data \in [DOMAIN d.args -> Seq(Objects(d.sel))]
    BY <2>1, <2>2
  <2>4. gql[q].data # NULL
    BY <2>3, NullApart
  <2> QED
    BY <1>2, <1>3, <1>5, <2>1, <2>2, <2>4
<1> QED
  BY <1>4, <1>5

-----------------------------------------------------------------------------
(* Both inductive invariants survive the composition: crashes, shutdowns    *)
(* and failing statements between any two steps of any request.             *)
THEOREM PlatformInvariant == PlatformSpec => [](StartupInv /\ CatalogInv)
<1>1. PlatformInit => StartupInv /\ CatalogInv
  BY StartsMigrated, CatalogInitInv DEF PlatformInit, DiscoveryInit
<1>2. StartupInv /\ CatalogInv /\ [PlatformNext]_platformVars => StartupInv' /\ CatalogInv'
  <2> SUFFICES ASSUME StartupInv, CatalogInv, [PlatformNext]_platformVars
               PROVE  StartupInv' /\ CatalogInv'
    OBVIOUS
  <2>1. [StartupNext]_startupVars
    BY ProcessSteps DEF platformVars
  <2> QED
    BY <2>1, StartupInvStep, RowsKept
<1> QED
  BY <1>1, <1>2, PTL DEF PlatformSpec

(* Whatever starts, dies and starts again beside it, a process of the       *)
(* platform answers requests on the complete schema only.                   *)
THEOREM PlatformServes == PlatformSpec => []ServesMigrated
BY InvServes, PlatformInvariant, PTL

(* Rights survive a token that expires, and a process that stops, between   *)
(* the middleware, OwnsEvent and the INSERT.                                *)
THEOREM PlatformRights == PlatformSpec => []RightsHeld
<1>1. CatalogInv => RightsHeld
  BY DEF CatalogInv
<1> QED
  BY <1>1, PlatformInvariant, PTL

(* Rows only grow, and only by requests that were let in for it, whatever   *)
(* the processes and the discovery requests do.                             *)
THEOREM PlatformGrows == PlatformSpec => CatalogGrows
<1>1. CatalogInv /\ [PlatformNext]_platformVars => [Grows]_catalogVars
  BY RowsKept
<1> QED
  BY <1>1, PlatformInvariant, PTL DEF PlatformSpec, CatalogGrows

(* What a discovery request has read stays true of the rows, whatever is    *)
(* published, priced and sold while it runs and whichever processes stop.   *)
THEOREM DiscoveryInvariant == PlatformSpec => []DiscoveryInv
BY DiscoveryInvInit, DiscoveryInvStep, PlatformInvariant, PTL DEF PlatformSpec

(* The WHERE clause that queryEvents builds lists only events that are      *)
(* published and within every dimension of the filter, minPriceCents and    *)
(* maxPriceCents included, at the prices there were; and what organizers    *)
(* and buyers do later never makes an answer that was given untrue.         *)
THEOREM AnswersStayTrue == PlatformSpec => []AnswersMatch
BY InvMatches, DiscoveryInvariant, PTL

(* The LEFT JOIN, the ORDER BY and the LIMIT lose nothing: an event that    *)
(* matched when the request began is listed, unless a new tier undercut the *)
(* filter's minPriceCents, or Limit others are listed and, with a geo       *)
(* filter, none of them is farther away.                                    *)
THEOREM NoEventMissed == PlatformSpec => []NothingMissed
BY InvComplete, DiscoveryInvariant, PTL

(* The two statements of queryEvents run on two snapshots.  Their answer    *)
(* fits together all the same: a listed lowest price is that of a listed    *)
(* tier, and the counts shown were committed.                               *)
THEOREM SnapshotsFit == PlatformSpec => []TiersCoverPrice
BY InvCovers, DiscoveryInvariant, PTL

(* The marshallers of generated.go void an object for a missing non-null    *)
(* field, a list for a void object and the answer for a void list.  Nothing *)
(* that queryEvents reads ever sets that off: an answer is void exactly     *)
(* when a root field failed, and otherwise has one object of the selected   *)
(* fields for every event found.                                            *)
THEOREM AnswersWhole == PlatformSpec => []AllOrNothing
<1>1. PlatformInit => ShapeInv
  BY DEF PlatformInit, DiscoveryInit, ShapeInv, RequestShape
<1>2. CatalogInv /\ DiscoveryInv /\ ShapeInv /\ [PlatformNext]_platformVars => ShapeInv'
  BY ShapeInvStep
<1> QED
  BY <1>1, <1>2, InvWhole, DiscoveryInvariant, PlatformInvariant, PTL DEF PlatformSpec
=============================================================================
