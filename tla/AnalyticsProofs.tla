-------------------------- MODULE AnalyticsProofs ---------------------------
(***************************************************************************)
(* Proofs about module Analytics, for every finite set of purchases, every *)
(* order of their times, and any number of faults and restarts.            *)
(***************************************************************************)
EXTENDS Analytics, FiniteSetTheorems, TLAPS

-----------------------------------------------------------------------------
(* Maxima and cardinalities.                                                *)

LEMMA MaxIs ==
    ASSUME NEW S, S \subseteq Int, NEW m \in S, \A y \in S : m >= y
    PROVE  Max(S) = m
<1>1. \A x \in S : (\A y \in S : x >= y) => x = m
  OBVIOUS
<1>2. Max(S) \in S /\ \A y \in S : Max(S) >= y
  BY DEF Max
<1> QED
  BY <1>1, <1>2

(* The sets that are counted are finite.                                    *)
LEMMA StreamsFinite ==
    ASSUME StreamInv
    PROVE  /\ IsFiniteSet(applied) /\ Cardinality(applied) \in Nat
           /\ IsFiniteSet(Counting) /\ Cardinality(Counting) \in Nat
           /\ Counting \subseteq applied
<1>1. applied \in SUBSET Purchases /\ Counting \in SUBSET Purchases /\ Counting \subseteq applied
  BY DEF StreamInv, Counting
<1> QED
  BY <1>1, AnalyticsAssumption, FS_Subset, FS_CardinalityType

(* The counter is the number of the purchases that have been counted.       *)
LEMMA CountedExactly ==
    ASSUME StreamInv, FoldInv, CounterLags
    PROVE  IsFiniteSet(applied \ Counting) /\ Cardinality(applied \ Counting) = totalEvents
<1>1. Cardinality(applied \ Counting) = Cardinality(applied) - Cardinality(applied \cap Counting)
      /\ IsFiniteSet(applied \ Counting)
  BY StreamsFinite, FS_Difference
<1>2. applied \cap Counting = Counting
  BY StreamsFinite
<1>3. totalEvents + Cardinality(Counting) = Cardinality(applied) /\ totalEvents \in Nat
  BY DEF CounterLags, GetStats, FoldInv, StreamInv
<1>4. Cardinality(Counting) \in Nat /\ Cardinality(applied) \in Nat
  BY StreamsFinite
<1>5. Cardinality(applied) - Cardinality(Counting) = totalEvents
  BY <1>3, <1>4
<1> QED
  BY <1>1, <1>2, <1>5

-----------------------------------------------------------------------------
(* The streams.                                                             *)

LEMMA StreamInit == AnalyticsInit => StreamInv
BY DEF AnalyticsInit, StreamInv

LEMMA StreamKeeps == StreamInv /\ [AnalyticsNext]_avars => StreamInv'
<1> SUFFICES ASSUME StreamInv, [AnalyticsNext]_avars PROVE StreamInv'
  OBVIOUS
<1> USE DEF StreamInv, At
<1>1. ASSUME NEW p \in Purchases, Send(p) PROVE StreamInv'
  BY <1>1 DEF Send
<1>2. ASSUME NEW p \in Purchases, GiveUp(p) PROVE StreamInv'
  BY <1>2 DEF GiveUp
<1>3. ASSUME NEW p \in Purchases, RecvError(p) PROVE StreamInv'
  BY <1>3 DEF RecvError
<1>4. ASSUME NEW p \in Purchases, Apply(p) PROVE StreamInv'
  BY <1>4 DEF Apply
<1>5. ASSUME NEW p \in Purchases, Count(p) PROVE StreamInv'
  BY <1>5 DEF Count
<1>6. ASSUME NEW p \in Purchases, Mirror(p) PROVE StreamInv'
  BY <1>6 DEF Mirror
<1>7. ASSUME NEW p \in Purchases, SendAndClose(p) PROVE StreamInv'
  BY <1>7 DEF SendAndClose
<1>8. CASE Restart
  BY <1>8 DEF Restart
<1>9. CASE UNCHANGED avars
  BY <1>9 DEF avars
<1> QED
  BY <1>1, <1>2, <1>3, <1>4, <1>5, <1>6, <1>7, <1>8, <1>9 DEF AnalyticsNext, StreamStep

-----------------------------------------------------------------------------
(* The aggregate.                                                           *)

LEMMA FoldInit == AnalyticsInit => FoldInv
BY FS_EmptySet DEF AnalyticsInit, FoldInv, NoAgg

(* One more purchase, early, late or in between.                            *)
LEMMA FoldApply ==
    ASSUME StreamInv, FoldInv, NEW p \in Purchases, Apply(p)
    PROVE  FoldInv'
<1> DEFINE t == OccurredAt[p]
<1>1. /\ t \in Nat \ {0} /\ p \notin applied /\ applied' = applied \cup {p}
      /\ agg' = Folded(agg, t)
      /\ \A q \in applied : OccurredAt[q] \in Nat
  BY AnalyticsAssumption DEF Apply, StreamInv
<1>2. Cardinality(applied') = Cardinality(applied) + 1 /\ Cardinality(applied) \in Nat
  BY <1>1, StreamsFinite, FS_AddElement
<1>3. CASE applied = {}
  <2>1. agg' = [sold |-> 1, firstAt |-> t, lastAt |-> t] /\ agg.sold = 0
    BY <1>1, <1>3 DEF Folded, FoldInv, NoAgg
  <2>2. applied' = {p} /\ Cardinality(applied) = 0
    BY <1>1, <1>3, FS_EmptySet
  <2> QED
    BY <1>1, <1>2, <2>1, <2>2 DEF FoldInv
<1>4. CASE applied # {}
  <2>1. agg.sold # 0
    BY <1>4, StreamsFinite, FS_EmptySet DEF FoldInv
  <2>2. agg' = [sold |-> agg.sold + 1,
                firstAt |-> IF t < agg.firstAt THEN t ELSE agg.firstAt,
                lastAt |-> IF t > agg.lastAt THEN t ELSE agg.lastAt]
    BY <1>1, <2>1 DEF Folded, NoAgg
  <2>3. agg.sold \in Nat /\ agg.firstAt \in Nat /\ agg.lastAt \in Nat
    BY DEF FoldInv
  <2>4. agg' \in [sold : Nat, firstAt : Nat, lastAt : Nat] /\ agg'.sold = Cardinality(applied')
    BY <1>1, <1>2, <2>2, <2>3 DEF FoldInv
  <2>5. /\ \E q \in applied' : agg'.firstAt = OccurredAt[q]
        /\ \E q \in applied' : agg'.lastAt = OccurredAt[q]
    BY <1>1, <1>4, <2>2 DEF FoldInv
  <2>6. \A q \in applied' : agg'.firstAt <= OccurredAt[q] /\ OccurredAt[q] <= agg'.lastAt
    BY <1>1, <1>4, <2>2, <2>3 DEF FoldInv
  <2> QED
    BY <1>1, <2>4, <2>5, <2>6 DEF FoldInv
<1> QED
  BY <1>3, <1>4

LEMMA FoldKeeps == StreamInv /\ FoldInv /\ [AnalyticsNext]_avars => FoldInv'
<1> SUFFICES ASSUME StreamInv, FoldInv, [AnalyticsNext]_avars PROVE FoldInv'
  OBVIOUS
<1>1. CASE UNCHANGED <<agg, applied>>
  BY <1>1 DEF FoldInv
<1>2. CASE Restart
  BY <1>2, FS_EmptySet DEF Restart, FoldInv, NoAgg
<1>3. ASSUME NEW p \in Purchases,
             Send(p) \/ GiveUp(p) \/ RecvError(p) \/ Count(p) \/ Mirror(p) \/ SendAndClose(p)
      PROVE  UNCHANGED <<agg, applied>>
  BY <1>3 DEF Send, GiveUp, RecvError, Count, Mirror, SendAndClose
<1> QED
  BY <1>1, <1>2, <1>3, FoldApply DEF AnalyticsNext, StreamStep, avars

(* GetStats is exact in every reachable state.                              *)
LEMMA FoldIsExact ==
    ASSUME StreamInv, FoldInv
    PROVE  StatsExact
<1> DEFINE apart == {OccurredAt[p] - OccurredAt[q] : p, q \in applied}
           span == agg.lastAt - agg.firstAt
<1>1. agg.firstAt \in Nat /\ agg.lastAt \in Nat /\ \A p \in applied : OccurredAt[p] \in Nat
  BY AnalyticsAssumption DEF FoldInv, StreamInv
<1>2. {1} \cup apart \subseteq Int
  BY <1>1
<1>3. GetStats.sold = Cardinality(applied)
  BY DEF GetStats, FoldInv
<1>4. GetStats.minutes = IF span < 1 THEN 1 ELSE span
  BY DEF GetStats
<1>5. CASE applied = {}
  <2>1. span = 0 /\ {1} \cup apart = {1}
    BY <1>5 DEF FoldInv, NoAgg
  <2>2. Max({1}) = 1
    BY MaxIs
  <2> QED
    BY <1>3, <1>4, <2>1, <2>2 DEF StatsExact
<1>6. CASE applied # {}
  <2>1. span \in apart
    BY <1>6 DEF FoldInv
  <2>2. \A d \in apart : span >= d
    <3> SUFFICES ASSUME NEW p \in applied, NEW q \in applied
                 PROVE  span >= OccurredAt[p] - OccurredAt[q]
      OBVIOUS
    <3> QED
      BY <1>1, <1>6 DEF FoldInv
  <2>3. span \in Int
    BY <1>1
  <2> HIDE DEF apart, span
  <2>4. CASE span < 1
    <3>1. \A d \in {1} \cup apart : 1 >= d
      BY <1>2, <2>2, <2>3, <2>4
    <3>2. Max({1} \cup apart) = 1
      BY <1>2, <3>1, MaxIs
    <3> QED
      BY <1>3, <1>4, <2>4, <3>2 DEF StatsExact, apart
  <2>5. CASE ~(span < 1)
    <3>1. \A d \in {1} \cup apart : span >= d
      BY <2>2, <2>3, <2>5
    <3>2. Max({1} \cup apart) = span
      BY <1>2, <2>1, <3>1, MaxIs
    <3> QED
      BY <1>3, <1>4, <2>5, <3>2 DEF StatsExact, apart
  <2> QED
    BY <2>4, <2>5
<1> QED
  BY <1>5, <1>6

-----------------------------------------------------------------------------
(* The counter.                                                             *)

LEMMA CounterInit == AnalyticsInit => CounterLags
<1> SUFFICES ASSUME AnalyticsInit PROVE CounterLags
  OBVIOUS
<1>1. Counting = {}
  BY DEF AnalyticsInit, Counting
<1> QED
  BY <1>1, FS_EmptySet DEF AnalyticsInit, CounterLags, GetStats, NoAgg

LEMMA CounterKeeps ==
    StreamInv /\ FoldInv /\ CounterLags /\ [AnalyticsNext]_avars => CounterLags'
<1> SUFFICES ASSUME StreamInv, FoldInv, CounterLags, [AnalyticsNext]_avars PROVE CounterLags'
  OBVIOUS
<1>0. /\ totalEvents + Cardinality(Counting) = agg.sold
      /\ totalEvents \in Nat /\ agg.sold \in Nat /\ Cardinality(Counting) \in Nat
      /\ IsFiniteSet(Counting)
  BY StreamsFinite DEF CounterLags, GetStats, StreamInv, FoldInv
<1>1. ASSUME UNCHANGED <<totalEvents, agg>>, Counting' = Counting PROVE CounterLags'
  BY <1>1 DEF CounterLags, GetStats
<1>2. ASSUME NEW p \in Purchases,
             Send(p) \/ GiveUp(p) \/ RecvError(p) \/ Mirror(p) \/ SendAndClose(p)
      PROVE  CounterLags'
  <2>1. UNCHANGED <<totalEvents, agg>>
    BY <1>2 DEF Send, GiveUp, RecvError, Mirror, SendAndClose
  <2>2. \A q \in Purchases : server'[q] = "count" <=> server[q] = "count"
    BY <1>2 DEF Send, GiveUp, RecvError, Mirror, SendAndClose, At, StreamInv
  <2> QED
    BY <1>1, <2>1, <2>2 DEF Counting
<1>3. ASSUME NEW p \in Purchases, Apply(p) PROVE CounterLags'
  <2>1. Counting' = Counting \cup {p} /\ p \notin Counting
    BY <1>3 DEF Apply, At, Counting, StreamInv
  <2>2. agg'.sold = agg.sold + 1
    <3>1. FoldInv'
      BY <1>3, FoldApply
    <3>2. p \notin applied /\ applied' = applied \cup {p}
      BY <1>3 DEF Apply, StreamInv
    <3>3. Cardinality(applied') = Cardinality(applied) + 1
      BY <3>2, StreamsFinite, FS_AddElement
    <3>4. agg'.sold = Cardinality(applied') /\ agg.sold = Cardinality(applied)
      BY <3>1 DEF FoldInv
    <3> QED
      BY <3>3, <3>4
  <2>3. Cardinality(Counting') = Cardinality(Counting) + 1
    BY <1>0, <2>1, FS_AddElement
  <2> QED
    BY <1>0, <1>3, <2>2, <2>3 DEF Apply, CounterLags, GetStats
<1>4. ASSUME NEW p \in Purchases, Count(p) PROVE CounterLags'
  <2>1. Counting' = Counting \ {p} /\ p \in Counting
    BY <1>4 DEF Count, At, Counting, StreamInv
  <2>2. Cardinality(Counting') = Cardinality(Counting) - 1
    BY <1>0, <2>1, FS_RemoveElement
  <2> QED
    BY <1>0, <1>4, <2>2 DEF Count, CounterLags, GetStats
<1>5. CASE Restart
  <2>1. Counting' = {}
    BY <1>5 DEF Restart, Counting
  <2> QED
    BY <1>5, <2>1, FS_EmptySet DEF Restart, CounterLags, GetStats, NoAgg
<1>6. CASE UNCHANGED avars
  BY <1>1, <1>6 DEF avars, Counting
<1> QED
  BY <1>2, <1>3, <1>4, <1>5, <1>6 DEF AnalyticsNext, StreamStep

-----------------------------------------------------------------------------
(* The acknowledgements.                                                    *)

(* The callers that were told a total of at most n.                         *)
Told(n) == {q \in Purchases : ack[q] \in 1 .. n}

(* A caller that has its reply has been counted.                            *)
LEMMA ToldCounted ==
    ASSUME StreamInv, FoldInv, CounterLags, AckCoversOwn
    PROVE  \A n \in Nat : Told(n) \subseteq applied \ Counting
<1> SUFFICES ASSUME NEW n \in Nat, NEW q \in Told(n) PROVE q \in applied \ Counting
  OBVIOUS
<1>1. q \in Purchases /\ ack[q] > 0
  BY DEF Told, StreamInv
<1>2. q \in applied /\ server[q] = "end"
  BY <1>1 DEF AckCoversOwn, StreamInv
<1> QED
  BY <1>2 DEF Counting

LEMMA AckKeeps ==
    StreamInv /\ FoldInv /\ CounterLags /\ AckCoversOwn /\ [AnalyticsNext]_avars => AckCoversOwn'
<1> SUFFICES ASSUME StreamInv, FoldInv, CounterLags, AckCoversOwn, [AnalyticsNext]_avars
             PROVE  AckCoversOwn'
  OBVIOUS
<1>1. ASSUME UNCHANGED ack, applied \subseteq applied', totalEvents' >= totalEvents,
             totalEvents' \in Nat
      PROVE  AckCoversOwn'
  BY <1>1 DEF AckCoversOwn, StreamInv
<1>2. ASSUME NEW p \in Purchases,
             \/ Send(p) \/ GiveUp(p) \/ RecvError(p) \/ Apply(p) \/ Count(p) \/ Mirror(p)
      PROVE  AckCoversOwn'
  BY <1>1, <1>2 DEF Send, GiveUp, RecvError, Apply, Count, Mirror, StreamInv
<1>3. ASSUME NEW p \in Purchases, SendAndClose(p) PROVE AckCoversOwn'
  <2>1. /\ ack' = [ack EXCEPT ![p] = totalEvents] /\ UNCHANGED <<applied, totalEvents>>
        /\ p \in applied \ Counting /\ totalEvents \in Nat /\ ack \in [Purchases -> Nat]
    BY <1>3 DEF SendAndClose, StreamInv, Counting
  <2> DEFINE Now(q) == {s \in Purchases : ack'[s] \in 1 .. ack'[q]}
  <2> SUFFICES ASSUME NEW q \in Purchases, ack'[q] > 0
               PROVE  /\ q \in applied /\ ack'[q] <= totalEvents
                      /\ Cardinality(Now(q)) <= ack'[q]
    BY <2>1 DEF AckCoversOwn
  <2>2. q \in applied /\ ack'[q] <= totalEvents /\ ack'[q] \in Nat
    <3>1. CASE q = p
      BY <2>1, <3>1
    <3>2. CASE q # p
      <4>1. ack'[q] = ack[q] /\ ack[q] > 0
        BY <2>1, <3>2
      <4> QED
        BY <2>1, <4>1 DEF AckCoversOwn
    <3> QED
      BY <3>1, <3>2
  <2>3. CASE ack'[q] = totalEvents
    <3>1. Now(q) \subseteq Told(totalEvents) \cup {p}
      BY <2>1, <2>3 DEF Told
    <3>2. Now(q) \in SUBSET (applied \ Counting)
      BY <2>1, <3>1, ToldCounted
    <3>3. IsFiniteSet(applied \ Counting) /\ Cardinality(applied \ Counting) = totalEvents
      BY CountedExactly
    <3> QED
      BY <2>2, <2>3, <3>2, <3>3, FS_Subset
  <2>4. CASE ack'[q] # totalEvents
    <3>1. q # p /\ ack'[q] = ack[q] /\ ack'[p] = totalEvents
      BY <2>1, <2>4
    <3>2. ack[p] = 0
      BY <1>3 DEF SendAndClose, StreamInv
    <3>3. Now(q) = Told(ack[q])
      BY <2>1, <2>2, <2>4, <3>1, <3>2 DEF Told
    <3> QED
      BY <2>2, <3>1, <3>3 DEF AckCoversOwn, Told
  <2> QED
    BY <2>2, <2>3, <2>4
<1>4. CASE Restart
  BY <1>4 DEF Restart, AckCoversOwn
<1>5. CASE UNCHANGED avars
  BY <1>1, <1>5 DEF avars, StreamInv
<1> QED
  BY <1>2, <1>3, <1>4, <1>5 DEF AnalyticsNext, StreamStep

-----------------------------------------------------------------------------
(* Every reachable state of the analytics service satisfies the inductive   *)
(* invariant, types included.                                               *)
THEOREM AnalyticsInvariant == AnalyticsSpec => []AnalyticsInv
<1>1. AnalyticsInit => AnalyticsInv
  BY StreamInit, FoldInit, CounterInit DEF AnalyticsInv, AnalyticsInit, AckCoversOwn
<1>2. AnalyticsInv /\ [AnalyticsNext]_avars => AnalyticsInv'
  BY StreamKeeps, FoldKeeps, CounterKeeps, AckKeeps DEF AnalyticsInv
<1> QED
  BY <1>1, <1>2, PTL DEF AnalyticsSpec

(* GetStats answers the number of purchases folded in since the server      *)
(* started and the minutes from the earliest to the latest of them, in      *)
(* whatever order the streams delivered them.                               *)
THEOREM StatsAreExact == AnalyticsSpec => []StatsExact
<1>1. AnalyticsInv => StatsExact
  BY FoldIsExact DEF AnalyticsInv
<1> QED
  BY <1>1, AnalyticsInvariant, PTL

(* The counter that apply increments after the unlock misses exactly the    *)
(* streams that are between the two, and counts none twice.                 *)
THEOREM CounterExactLag == AnalyticsSpec => []CounterLags
<1>1. AnalyticsInv => CounterLags
  BY DEF AnalyticsInv
<1> QED
  BY <1>1, AnalyticsInvariant, PTL

(* The total in a reply covers the caller's purchase and those of all the   *)
(* callers that were told no more.                                          *)
THEOREM AcksCover == AnalyticsSpec => []AckCoversOwn
<1>1. AnalyticsInv => AckCoversOwn
  BY DEF AnalyticsInv
<1> QED
  BY <1>1, AnalyticsInvariant, PTL
=============================================================================
