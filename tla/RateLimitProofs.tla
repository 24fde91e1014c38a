-------------------------- MODULE RateLimitProofs ---------------------------
(***************************************************************************)
(* What the limiter guarantees for every limit, window, delay, skew and    *)
(* number of requests.                                                     *)
(***************************************************************************)
EXTENDS RateLimit, FiniteSetTheorems, TLAPS

(* The key a running request is counted under exists.                       *)
LEMMA KeyType ==
    ASSUME LimitTypeOK, NEW r \in Requests, rpc[r] = "run"
    PROVE  Key(r) \in Keys
<1>1. KeysOf[r] \in Seq(Keys) /\ turn[r] \in 1 .. Len(KeysOf[r])
  BY LimitAssumption DEF LimitTypeOK
<1> QED
  BY <1>1 DEF Key

(* Everything but the counts of WindowInv, for one entry of one key.        *)
EntryInv(k, e) ==
    /\ e.at <= clock
    /\ e.at <= e.score + MaxDelay /\ e.score <= e.at + MaxAhead
    /\ e.at + Window <= expires[k]
    /\ e \notin zset[k] => e.score + Window <= clock + MaxAhead

LEMMA TrimmedFacts ==
    ASSUME WindowInv, NEW r \in Requests, rpc[r] = "run"
    PROVE  /\ Trimmed(r) \subseteq zset[Key(r)]
           /\ Trimmed(r) \subseteq log[Key(r)]
           /\ IsFiniteSet(Trimmed(r))
           /\ Cardinality(Trimmed(r)) \in Nat
           /\ Added(r) \in SUBSET Entry
           /\ \A e \in Added(r) : e.score = stamp[r] /\ e.at = clock
           /\ \A e, f \in Added(r) : e = f
           /\ IsFiniteSet(Added(r)) /\ Cardinality(Added(r)) \in 0 .. 1
<1>1. Key(r) \in Keys
  BY KeyType DEF WindowInv
<1>2. Trimmed(r) \subseteq zset[Key(r)]
  BY DEF Trimmed, Existing
<1>3. Trimmed(r) \subseteq log[Key(r)] /\ IsFiniteSet(log[Key(r)])
  BY <1>1, <1>2 DEF WindowInv
<1>4. IsFiniteSet(Trimmed(r)) /\ Cardinality(Trimmed(r)) \in Nat
  BY <1>3, FS_Subset, FS_CardinalityType
<1>5. clock \in Nat /\ stamp[r] \in Nat
  BY DEF WindowInv, LimitTypeOK
<1>6. DEFINE new == [member |-> r, score |-> stamp[r], at |-> clock]
<1>7. new \in Entry /\ new.score = stamp[r] /\ new.at = clock
  BY <1>5 DEF Entry
<1>8. Added(r) = {} \/ Added(r) = {new}
  BY DEF Added
<1>9. IsFiniteSet(Added(r)) /\ Cardinality(Added(r)) \in 0 .. 1
  <2>1. CASE Added(r) = {}
    BY <2>1, FS_EmptySet
  <2>2. CASE Added(r) = {new}
    <3> HIDE DEF new
    <3>1. IsFiniteSet({new}) /\ Cardinality({new}) = 1
      BY FS_Singleton
    <3> QED BY <2>2, <3>1
  <2> QED BY <1>8, <2>1, <2>2
<1> HIDE DEF new
<1> QED
  BY <1>2, <1>3, <1>4, <1>7, <1>8, <1>9

(* An entry young enough to count against the limit is still in the set.    *)
LEMMA RecentKept ==
    ASSUME WindowInv, NEW r \in Requests, rpc[r] = "run",
           NEW e \in log[Key(r)], clock + Slack < e.at + Window
    PROVE  e \in Trimmed(r)
<1>1. Key(r) \in Keys
  BY KeyType DEF WindowInv
<1>2. e \in Entry /\ EntryInv(Key(r), e)
  BY <1>1 DEF WindowInv, LimitTypeOK, EntryInv
<1>3. /\ clock \in Nat /\ stamp[r] \in Nat /\ expires[Key(r)] \in Nat
      /\ e.at \in Nat /\ e.score \in Nat
      /\ stamp[r] <= clock + MaxAhead
      /\ e.at <= e.score + MaxDelay /\ e.at + Window <= expires[Key(r)]
  BY <1>1, <1>2 DEF WindowInv, LimitTypeOK, Entry
<1>4. e.score + Window > clock + MaxAhead /\ clock < expires[Key(r)]
  <2>1. clock + MaxDelay + MaxAhead < e.at + Window
    BY <1>3, LimitAssumption DEF Slack
  <2>2. e.score + Window > clock + MaxAhead
    BY <1>3, <2>1, LimitAssumption
  <2>3. clock < expires[Key(r)]
    BY <1>3, <2>1, LimitAssumption
  <2> QED BY <2>2, <2>3
<1>5. e \in zset[Key(r)] /\ stamp[r] < e.score + Window
  BY <1>2, <1>3, <1>4, LimitAssumption DEF EntryInv
<1> QED
  BY <1>4, <1>5 DEF Trimmed, Existing

(* One run of the script keeps the invariant, whoever asked.                *)
LEMMA ScriptStep ==
    ASSUME WindowInv, NEW r \in Requests, rpc[r] = "run",
           SlidingWindow(r), clock' = clock
    PROVE  /\ zset' \in [Keys -> SUBSET Entry]
           /\ expires' \in [Keys -> Nat]
           /\ log' \in [Keys -> SUBSET Entry]
           /\ \A k \in Keys : /\ IsFiniteSet(log'[k])
                              /\ zset'[k] \subseteq log'[k]
                              /\ \A e \in log'[k] : EntryInv(k, e)'
           /\ AtMostLimit'
<1>0. PICK T, A : T = Trimmed(r) /\ A = Added(r)
  OBVIOUS
<1>1. PICK K \in Keys : K = Key(r)
  BY KeyType DEF WindowInv
<1>2. /\ T \subseteq zset[K] /\ T \subseteq log[K]
      /\ IsFiniteSet(T) /\ Cardinality(T) \in Nat
      /\ A \in SUBSET Entry
      /\ \A e \in A : e.score = stamp[r] /\ e.at = clock
      /\ IsFiniteSet(A) /\ Cardinality(A) \in 0 .. 1
  BY <1>0, <1>1, TrimmedFacts
<1>3. /\ clock \in Nat /\ stamp[r] \in Nat
      /\ zset \in [Keys -> SUBSET Entry] /\ expires \in [Keys -> Nat]
      /\ log \in [Keys -> SUBSET Entry]
      /\ clock <= stamp[r] + MaxDelay /\ stamp[r] <= clock + MaxAhead
      /\ \A k \in Keys : /\ IsFiniteSet(log[k])
                         /\ zset[k] \subseteq log[k]
                         /\ \A e \in log[k] : EntryInv(k, e)
  BY DEF WindowInv, LimitTypeOK, EntryInv
<1>4. \A e \in log[K] : e \notin T => e.score + Window <= clock + MaxAhead
  <2> SUFFICES ASSUME NEW e \in log[K], e \notin T
               PROVE  e.score + Window <= clock + MaxAhead
    OBVIOUS
  <2>1. e \in Entry /\ e.at \in Nat /\ e.score \in Nat /\ expires[K] \in Nat
    BY <1>1, <1>3 DEF Entry
  <2>2. EntryInv(K, e)
    BY <1>1, <1>3
  <2>3. e \in zset[K] => expires[K] <= clock \/ e.score + Window <= stamp[r]
    <3>1. CASE clock < expires[K]
      BY <3>1, <2>1, <1>0, <1>1, <1>3, LimitAssumption DEF Trimmed, Existing
    <3>2. CASE ~(clock < expires[K])
      BY <3>2, <2>1, <1>3
    <3> QED BY <3>1, <3>2
  <2> QED
    <3>1. CASE e \notin zset[K]
      BY <3>1, <2>2 DEF EntryInv
    <3>2. CASE e.score + Window <= stamp[r]
      BY <3>2, <2>1, <1>3, LimitAssumption
    <3>3. CASE expires[K] <= clock
      BY <3>3, <2>1, <2>2, <1>3, LimitAssumption DEF EntryInv
    <3> QED BY <2>3, <3>1, <3>2, <3>3
<1>5. CASE Room(r)
  <2>1. /\ zset' = [zset EXCEPT ![K] = T \cup A]
        /\ expires' = [expires EXCEPT ![K] = clock + Window]
        /\ log' = [log EXCEPT ![K] = @ \cup A]
        /\ Cardinality(T) < Limit
    BY <1>0, <1>1, <1>5 DEF SlidingWindow, Room
  <2>2. /\ zset'[K] = T \cup A /\ log'[K] = log[K] \cup A
        /\ expires'[K] = clock + Window
        /\ \A k \in Keys \ {K} : /\ zset'[k] = zset[k] /\ log'[k] = log[k]
                                 /\ expires'[k] = expires[k]
    BY <1>1, <1>3, <2>1
  <2>3. /\ zset' \in [Keys -> SUBSET Entry] /\ expires' \in [Keys -> Nat]
        /\ log' \in [Keys -> SUBSET Entry]
    BY <1>1, <1>2, <1>3, <2>1, LimitAssumption
  <2>4. IsFiniteSet(log'[K]) /\ zset'[K] \subseteq log'[K]
    <3>1. IsFiniteSet(log[K]) /\ IsFiniteSet(A)
      BY <1>2, <1>3
    <3>2. IsFiniteSet(log[K] \cup A)
      BY <3>1, FS_Union
    <3> QED BY <1>2, <2>2, <3>2
  <2>5. ASSUME NEW e \in log'[K] PROVE EntryInv(K, e)'
    <3>1. CASE e \in A
      BY <3>1, <1>2, <1>3, <2>2, LimitAssumption DEF EntryInv
    <3>2. CASE e \in log[K]
      <4>1. e.at \in Nat /\ e.score \in Nat /\ EntryInv(K, e)
        BY <3>2, <1>1, <1>3 DEF Entry
      <4> QED
        BY <4>1, <3>2, <1>3, <1>4, <2>2, LimitAssumption DEF EntryInv
    <3> QED
      BY <2>5, <2>2, <3>1, <3>2
  <2>6. ASSUME NEW k \in Keys \ {K}, NEW e \in log'[k] PROVE EntryInv(k, e)'
    BY <2>6, <1>3, <2>2 DEF EntryInv
  <2>7. Cardinality(T \cup A) <= Limit /\ IsFiniteSet(T \cup A)
    <3>1. Cardinality(T \cup A) =
            Cardinality(T) + Cardinality(A) - Cardinality(T \cap A) /\ IsFiniteSet(T \cup A)
      BY <1>2, FS_Union
    <3>2. Cardinality(T \cap A) \in Nat
      BY <1>2, FS_Intersection, FS_CardinalityType
    <3> QED
      BY <1>2, <2>1, <3>1, <3>2, LimitAssumption
  <2>8. ASSUME NEW e \in log'[K] PROVE Cardinality(RecentAt(K, e.at)') <= Limit
    <3>1. e.at \in Nat /\ e.at <= clock
      BY <2>3, <2>5, <1>1 DEF EntryInv, Entry
    <3>2. CASE e.at = clock
      <4>1. RecentAt(K, e.at)' \subseteq T \cup A
        <5> SUFFICES ASSUME NEW f \in log[K], clock + Slack < f.at + Window
                     PROVE  f \in T
          BY <2>2, <3>2 DEF RecentAt
        <5> QED
          BY <1>0, <1>1, RecentKept
      <4>2. /\ Cardinality(RecentAt(K, e.at)') <= Cardinality(T \cup A)
            /\ Cardinality(RecentAt(K, e.at)') \in Nat /\ Cardinality(T \cup A) \in Nat
        BY <4>1, <2>7, FS_Subset, FS_CardinalityType
      <4> QED
        BY <4>2, <2>7, LimitAssumption
    <3>3. CASE e.at # clock
      <4>1. e \in log[K]
        BY <2>2, <2>8, <1>2, <3>3
      <4>2. RecentAt(K, e.at)' = RecentAt(K, e.at)
        <5>1. \A f \in A : ~(f.at <= e.at)
          BY <1>2, <1>3, <3>1, <3>3
        <5> QED
          BY <5>1, <2>2 DEF RecentAt
      <4> QED
        BY <4>1, <4>2, <1>1 DEF WindowInv, AtMostLimit
    <3> QED
      BY <3>2, <3>3
  <2>9. ASSUME NEW k \in Keys \ {K}, NEW e \in log'[k]
        PROVE  Cardinality(RecentAt(k, e.at)') <= Limit
    <3>1. RecentAt(k, e.at)' = RecentAt(k, e.at) /\ e \in log[k]
      BY <2>2, <2>9 DEF RecentAt
    <3> QED
      BY <3>1 DEF WindowInv, AtMostLimit
  <2>10. AtMostLimit'
    BY <2>8, <2>9 DEF AtMostLimit
  <2> QED
    BY <1>3, <2>2, <2>3, <2>4, <2>5, <2>6, <2>10
<1>6. CASE ~Room(r)
  <2>1. zset' = [zset EXCEPT ![K] = T] /\ expires' = expires /\ log' = log
    BY <1>0, <1>1, <1>6 DEF SlidingWindow
  <2>2. zset'[K] = T /\ \A k \in Keys \ {K} : zset'[k] = zset[k]
    BY <1>1, <1>3, <2>1
  <2>3. zset' \in [Keys -> SUBSET Entry]
    BY <1>1, <1>2, <1>3, <2>1
  <2>4. ASSUME NEW k \in Keys, NEW e \in log'[k] PROVE EntryInv(k, e)'
    BY <2>4, <1>3, <1>4, <2>1, <2>2 DEF EntryInv
  <2>5. AtMostLimit'
    BY <2>1 DEF WindowInv, AtMostLimit, RecentAt
  <2> QED
    BY <1>2, <1>3, <2>1, <2>2, <2>3, <2>4, <2>5
<1> QED
  BY <1>5, <1>6

LEMMA WindowInit == LimitInit => WindowInv
<1> SUFFICES ASSUME LimitInit PROVE WindowInv
  OBVIOUS
<1>1. LimitTypeOK
  <2>1. \A r \in Requests : Len(KeysOf[r]) \in Nat \ {0}
    BY LimitAssumption
  <2> QED
    BY <2>1 DEF LimitInit, LimitTypeOK, Entry
<1>2. \A k \in Keys : log[k] = {} /\ zset[k] = {}
  BY DEF LimitInit
<1>3. AtMostLimit
  BY <1>2 DEF AtMostLimit
<1>4. \A k \in Keys : IsFiniteSet(log[k])
  BY <1>2, FS_EmptySet
<1>5. \A r \in Requests : rpc[r] # "run"
  BY DEF LimitInit
<1> QED
  BY <1>1, <1>2, <1>3, <1>4, <1>5 DEF WindowInv

(* The parts of the invariant about entries, which only the script and the  *)
(* clock disturb.                                                           *)
EntriesInv ==
    /\ \A k \in Keys : /\ IsFiniteSet(log[k])
                       /\ zset[k] \subseteq log[k]
                       /\ \A e \in log[k] : EntryInv(k, e)
    /\ AtMostLimit

(* A running script is neither late nor too far ahead.                      *)
Timely == \A r \in Requests : rpc[r] = "run" =>
             clock <= stamp[r] + MaxDelay /\ stamp[r] <= clock + MaxAhead

LEMMA Parts == WindowInv <=> LimitTypeOK /\ Timely /\ EntriesInv
BY DEF WindowInv, Timely, EntriesInv, EntryInv

LEMMA EntriesKept ==
    ASSUME EntriesInv, UNCHANGED <<clock, zset, expires, log>>
    PROVE  EntriesInv'
<1>1. \A k, t : RecentAt(k, t)' = RecentAt(k, t)
  BY DEF RecentAt
<1>2. AtMostLimit'
  BY <1>1 DEF EntriesInv, AtMostLimit
<1> QED
  BY <1>2 DEF EntriesInv, EntryInv

LEMMA NextKeyStep ==
    ASSUME LimitTypeOK, NEW r \in Requests, rpc[r] = "run", NextKey(r)
    PROVE  /\ turn' \in [Requests -> Nat]
           /\ rpc' \in [Requests -> {"ask", "run", "served", "refused"}]
           /\ \A q \in Requests :
                 rpc'[q] \in {"ask", "run"} => turn'[q] \in 1 .. Len(KeysOf[q])
           /\ \A q \in Requests : rpc'[q] = "run" => rpc[q] = "run"
<1>1. Len(KeysOf[r]) \in Nat /\ turn[r] \in 1 .. Len(KeysOf[r])
  BY LimitAssumption DEF LimitTypeOK
<1> QED
  BY <1>1 DEF LimitTypeOK, NextKey

LEMMA WindowStep ==
    ASSUME WindowInv, [LimitNext]_lvars
    PROVE  WindowInv'
<1>0. LimitTypeOK /\ Timely /\ EntriesInv
  BY Parts
<1>1. CASE Tick
  <2>1. LimitTypeOK'
    BY <1>0, <1>1 DEF Tick, LimitTypeOK
  <2>2. Timely'
    BY <1>0, <1>1, LimitAssumption DEF Tick, Timely, LimitTypeOK
  <2>3. EntriesInv'
    <3>1. \A k, t : RecentAt(k, t)' = RecentAt(k, t)
      BY <1>1 DEF Tick, RecentAt
    <3>2. AtMostLimit'
      BY <1>0, <1>1, <3>1 DEF Tick, EntriesInv, AtMostLimit
    <3>3. ASSUME NEW k \in Keys, NEW e \in log[k] PROVE EntryInv(k, e)'
      <4>1. e.at \in Nat /\ e.score \in Nat /\ clock \in Nat /\ clock' = clock + 1
        BY <1>0, <1>1, <3>3 DEF Tick, LimitTypeOK, Entry
      <4> QED
        BY <1>0, <1>1, <3>3, <4>1, LimitAssumption DEF Tick, EntriesInv, EntryInv
    <3> QED
      BY <1>0, <1>1, <3>2, <3>3 DEF Tick, EntriesInv
  <2> QED BY <2>1, <2>2, <2>3, Parts DEF WindowInv, Timely, EntriesInv, EntryInv
<1>2. ASSUME NEW r \in Requests, TakeTime(r) PROVE WindowInv'
  <2>1. PICK now \in 0 .. clock + MaxAhead : /\ clock <= now + MaxDelay
                                             /\ stamp' = [stamp EXCEPT ![r] = now]
    BY <1>2 DEF TakeTime
  <2>2. now \in Nat /\ now <= clock + MaxAhead
    BY <1>0, <2>1, LimitAssumption DEF LimitTypeOK
  <2>3. LimitTypeOK' /\ Timely'
    BY <1>0, <1>2, <2>1, <2>2 DEF TakeTime, LimitTypeOK, Timely
  <2>4. EntriesInv'
    BY <1>0, <1>2, EntriesKept DEF TakeTime
  <2> QED BY <2>3, <2>4 DEF WindowInv, Timely, EntriesInv, EntryInv
<1>3. ASSUME NEW r \in Requests, Allow(r) PROVE WindowInv'
  <2>1. rpc[r] = "run" /\ SlidingWindow(r) /\ clock' = clock /\ stamp' = stamp
        /\ lfaults' = lfaults
    BY <1>3 DEF Allow
  <2>2. /\ EntriesInv' /\ zset' \in [Keys -> SUBSET Entry]
        /\ expires' \in [Keys -> Nat] /\ log' \in [Keys -> SUBSET Entry]
    BY <2>1, ScriptStep DEF EntriesInv
  <2>3. LimitTypeOK' /\ Timely'
    <3>1. CASE NextKey(r)
      BY <1>0, <2>1, <2>2, <3>1, NextKeyStep DEF LimitTypeOK, Timely
    <3>2. CASE rpc' = [rpc EXCEPT ![r] = "refused"] /\ UNCHANGED turn
      BY <1>0, <2>1, <2>2, <3>2 DEF LimitTypeOK, Timely
    <3> QED BY <1>3, <3>1, <3>2 DEF Allow
  <2> QED BY <2>2, <2>3 DEF WindowInv, Timely, EntriesInv, EntryInv
<1>4. ASSUME NEW r \in Requests, LoseReply(r) PROVE WindowInv'
  <2>1. rpc[r] = "run" /\ SlidingWindow(r) /\ UNCHANGED <<clock, rpc, turn, stamp>>
        /\ lfaults' = lfaults + 1
    BY <1>4 DEF LoseReply
  <2>2. /\ EntriesInv' /\ zset' \in [Keys -> SUBSET Entry]
        /\ expires' \in [Keys -> Nat] /\ log' \in [Keys -> SUBSET Entry]
    BY <2>1, ScriptStep DEF EntriesInv
  <2>3. LimitTypeOK' /\ Timely'
    BY <1>0, <2>1, <2>2 DEF LimitTypeOK, Timely
  <2> QED BY <2>2, <2>3 DEF WindowInv, Timely, EntriesInv, EntryInv
<1>5. ASSUME NEW r \in Requests, FailOpen(r) PROVE WindowInv'
  <2>1. rpc[r] = "run" /\ NextKey(r) /\ UNCHANGED <<clock, zset, expires, log, stamp>>
        /\ lfaults' = lfaults + 1
    BY <1>5 DEF FailOpen
  <2>2. LimitTypeOK' /\ Timely'
    BY <1>0, <2>1, NextKeyStep DEF LimitTypeOK, Timely
  <2>3. EntriesInv'
    BY <1>0, <2>1, EntriesKept
  <2> QED BY <2>2, <2>3 DEF WindowInv, Timely, EntriesInv, EntryInv
<1>6. CASE UNCHANGED lvars
  <2>1. LimitTypeOK' /\ Timely'
    BY <1>0, <1>6 DEF LimitTypeOK, Timely, lvars
  <2>2. EntriesInv'
    BY <1>0, <1>6, EntriesKept DEF lvars
  <2> QED BY <2>1, <2>2 DEF WindowInv, Timely, EntriesInv, EntryInv
<1> QED
  BY <1>1, <1>2, <1>3, <1>4, <1>5, <1>6 DEF LimitNext

(* The invariant of the limiter holds for every choice of the constants.    *)
THEOREM WindowInvariant == LimitSpec => []WindowInv
<1>1. WindowInv /\ [LimitNext]_lvars => WindowInv'
  BY WindowStep
<1> QED
  BY <1>1, WindowInit, PTL DEF LimitSpec

(* "Limiter admits at most limit events per window per key", up to the      *)
(* delay and skew of the timestamps that Allow takes.                       *)
THEOREM LimitHolds == LimitSpec => []AtMostLimit
<1>1. WindowInv => AtMostLimit
  BY DEF WindowInv
<1> QED
  BY <1>1, WindowInvariant, PTL

(* A request gets 429 only when Limit requests of its key were counted in   *)
(* the last window, again up to delay and skew.                             *)
THEOREM RefusalsJustified == LimitSpec => RefusalsDue
<1> DEFINE Due == \A r \in Requests : rpc[r] = "run" /\ rpc'[r] = "refused" =>
              Cardinality({e \in log[Key(r)] : clock < e.at + Window + Slack}) >= Limit
<1>1. WindowInv /\ [LimitNext]_lvars => [Due]_lvars
  <2> SUFFICES ASSUME WindowInv, LimitNext,
                      NEW r \in Requests, rpc[r] = "run", rpc'[r] = "refused"
               PROVE  Cardinality({e \in log[Key(r)] : clock < e.at + Window + Slack}) >= Limit
    OBVIOUS
  <2> DEFINE R == {e \in log[Key(r)] : clock < e.at + Window + Slack}
  <2>1. ~Room(r)
    BY DEF WindowInv, LimitTypeOK, LimitNext, Tick, TakeTime, Allow, LoseReply, FailOpen, NextKey
  <2>2. Key(r) \in Keys /\ IsFiniteSet(log[Key(r)])
    BY KeyType DEF WindowInv
  <2>3. Trimmed(r) \subseteq R
    <3> SUFFICES ASSUME NEW e \in Trimmed(r) PROVE e \in R
      OBVIOUS
    <3>1. e \in log[Key(r)]
      BY TrimmedFacts
    <3>2. /\ e.at \in Nat /\ e.score \in Nat /\ clock \in Nat /\ stamp[r] \in Nat
          /\ e.score <= e.at + MaxAhead /\ clock <= stamp[r] + MaxDelay
      BY <2>2, <3>1 DEF WindowInv, LimitTypeOK, Entry
    <3>3. stamp[r] < e.score + Window
      BY DEF Trimmed
    <3> QED
      BY <3>1, <3>2, <3>3, LimitAssumption DEF Slack
  <2>4. IsFiniteSet(R)
    BY <2>2, FS_Subset
  <2>5. Cardinality(Trimmed(r)) <= Cardinality(R) /\ Cardinality(R) \in Nat
    BY <2>3, <2>4, FS_Subset, FS_CardinalityType
  <2> QED
    BY <2>1, <2>5, TrimmedFacts, LimitAssumption DEF Room
<1> QED
  BY <1>1, WindowInvariant, PTL DEF LimitSpec, RefusalsDue
=============================================================================
