----------------------------- MODULE Analytics ------------------------------
(***************************************************************************)
(* The gRPC analytics service (internal/analytics): each committed         *)
(* purchase of an event opens its own stream, and the server folds it into *)
(* the event's aggregate under a mutex, counts it, and mirrors the total   *)
(* to Redis.  Streams run concurrently; the client gives up after 5 s; a   *)
(* server that stops loses its memory.  A purchase counts as one.          *)
(***************************************************************************)
EXTENDS Integers, FiniteSets, FiniteSetsExt

CONSTANTS
    Purchases,      \* purchases of one event, each published once
    OccurredAt,     \* when each was committed, in minutes
    Environment,    \* "net", "timeout", "redis", "restart"
    MaxFaults

ASSUME AnalyticsAssumption ==
    /\ IsFiniteSet(Purchases)
    /\ OccurredAt \in [Purchases -> Nat \ {0}]
    /\ Environment \subseteq {"net", "timeout", "redis", "restart"}
    /\ MaxFaults \in Nat

VARIABLES
    client,     \* where PublishPurchase is, for each purchase
    server,     \* where the server's RecordStream is
    agg,        \* byEvent: tickets sold, firstAt and lastAt; zeros when absent
    got,        \* the total that apply read under the mutex
    totalEvents,
    mirror,     \* tickets_sold in the Redis hash
    ack,        \* RecordAck.TotalEvents
    applied,    \* purchases folded into agg since the server started
    afaults

avars == <<client, server, agg, got, totalEvents, mirror, ack, applied, afaults>>

NoAgg == [sold |-> 0, firstAt |-> 0, lastAt |-> 0]

AnalyticsInit ==
    /\ client = [p \in Purchases |-> "new"]
    /\ server = [p \in Purchases |-> "none"]
    /\ agg = NoAgg
    /\ got = [p \in Purchases |-> 0]
    /\ totalEvents = 0
    /\ mirror = 0
    /\ ack = [p \in Purchases |-> 0]
    /\ applied = {}
    /\ afaults = 0

AFault(kind) == /\ kind \in Environment
                /\ afaults < MaxFaults
                /\ afaults' = afaults + 1

At(p, there) == server' = [server EXCEPT ![p] = there]

-----------------------------------------------------------------------------
(* The client opens a stream and sends its event, or fails to.              *)
Send(p) ==
    /\ client[p] = "new"
    /\ \/ /\ client' = [client EXCEPT ![p] = "waiting"]
          /\ At(p, "recv")
          /\ UNCHANGED afaults
       \/ /\ client' = [client EXCEPT ![p] = "error"]
          /\ AFault("net")
          /\ UNCHANGED server
    /\ UNCHANGED <<agg, got, totalEvents, mirror, ack, applied>>

(* The 5 seconds or the webhook's context end, or the connection breaks.    *)
GiveUp(p) ==
    /\ client[p] = "waiting"
    /\ AFault("timeout")
    /\ client' = [client EXCEPT ![p] = "error"]
    /\ UNCHANGED <<server, agg, got, totalEvents, mirror, ack, applied>>

(* Recv fails because the client gave up: the event is not read.            *)
RecvError(p) ==
    /\ server[p] \in {"recv", "eof"}
    /\ client[p] = "error"
    /\ At(p, "end")
    /\ UNCHANGED <<client, agg, got, totalEvents, mirror, ack, applied, afaults>>

(* Mutant: events are taken to arrive in the order of their times.          *)
FoldedInOrder(a, t) ==
    IF a = NoAgg THEN [sold |-> 1, firstAt |-> t, lastAt |-> t]
    ELSE [sold |-> a.sold + 1, firstAt |-> a.firstAt, lastAt |-> t]

(* The aggregate with one more purchase, committed at time t.               *)
Folded(a, t) ==
    IF a = NoAgg THEN [sold |-> 1, firstAt |-> t, lastAt |-> t]
    ELSE [sold |-> a.sold + 1,
          firstAt |-> IF t < a.firstAt THEN t ELSE a.firstAt,
          lastAt |-> IF t > a.lastAt THEN t ELSE a.lastAt]

(* apply up to the unlock.                                                  *)
Apply(p) ==
    /\ server[p] = "recv"
    /\ agg' = Folded(agg, OccurredAt[p])
    /\ got' = [got EXCEPT ![p] = agg'.sold]
    /\ applied' = applied \cup {p}
    /\ At(p, "count")
    /\ UNCHANGED <<client, totalEvents, mirror, ack, afaults>>

(* Mutant: the counter is set from the aggregate, read after the unlock.    *)
CountFromAgg(p) ==
    /\ server[p] = "count"
    /\ totalEvents' = agg.sold
    /\ At(p, "mirror")
    /\ UNCHANGED <<client, agg, got, mirror, ack, applied, afaults>>

(* The atomic increment, after the unlock.                                  *)
Count(p) ==
    /\ server[p] = "count"
    /\ totalEvents' = totalEvents + 1
    /\ At(p, "mirror")
    /\ UNCHANGED <<client, agg, got, mirror, ack, applied, afaults>>

(* HSET with the total read under the mutex, best effort: the writes of two *)
(* streams land in either order.                                            *)
Mirror(p) ==
    /\ server[p] = "mirror"
    /\ \/ mirror' = got[p] /\ UNCHANGED afaults
       \/ UNCHANGED mirror /\ AFault("redis")
    /\ At(p, "eof")
    /\ UNCHANGED <<client, agg, got, totalEvents, ack, applied>>

(* Mutant: the reply is sent before the event is folded.                    *)
AckEarly(p) ==
    /\ server[p] \in {"recv", "eof"}
    /\ client[p] = "waiting"
    /\ client' = [client EXCEPT ![p] = "ok"]
    /\ ack' = [ack EXCEPT ![p] = totalEvents]
    /\ At(p, "end")
    /\ UNCHANGED <<agg, got, totalEvents, mirror, applied, afaults>>

(* The end of the stream: SendAndClose, and CloseAndRecv returns.           *)
SendAndClose(p) ==
    /\ server[p] = "eof"
    /\ client[p] = "waiting"
    /\ client' = [client EXCEPT ![p] = "ok"]
    /\ ack' = [ack EXCEPT ![p] = totalEvents]
    /\ At(p, "end")
    /\ UNCHANGED <<agg, got, totalEvents, mirror, applied, afaults>>

(* The server is killed and starts again with nothing in memory: waiting    *)
(* clients see an error.                                                    *)
Restart ==
    /\ AFault("restart")
    /\ client' = [p \in Purchases |-> IF client[p] = "waiting" THEN "error" ELSE client[p]]
    /\ server' = [p \in Purchases |-> IF server[p] = "none" THEN "none" ELSE "end"]
    /\ agg' = NoAgg /\ totalEvents' = 0 /\ applied' = {}
    /\ ack' = [p \in Purchases |-> 0]       \* acknowledgements of the former life
    /\ UNCHANGED <<got, mirror>>

(* What GetStats answers: tickets sold and the minutes velocity divides by. *)
GetStats ==
    [sold |-> agg.sold,
     minutes |-> IF agg.lastAt - agg.firstAt < 1 THEN 1 ELSE agg.lastAt - agg.firstAt]

(* A step of RecordStream.                                                  *)
StreamStep(p) == RecvError(p) \/ Apply(p) \/ Count(p) \/ Mirror(p) \/ SendAndClose(p)

AnalyticsNext == \/ Restart
                 \/ \E p \in Purchases : Send(p) \/ GiveUp(p) \/ StreamStep(p)

AnalyticsSpec == AnalyticsInit /\ [][AnalyticsNext]_avars

-----------------------------------------------------------------------------
(* GetStats is exact at any time, in whatever order the events arrive: the  *)
(* tickets are those of the purchases folded in since the server started,   *)
(* and velocity divides by the minutes from the earliest of them to the     *)
(* latest, at least one.                                                    *)
StatsExact ==
    LET apart == {OccurredAt[p] - OccurredAt[q] : p, q \in applied}
    IN  /\ GetStats.sold = Cardinality(applied)
        /\ GetStats.minutes = Max({1} \cup apart)

(* The lock-free counter lags behind the aggregate by exactly the streams   *)
(* between the unlock and the increment, and never counts one twice.        *)
Counting == {p \in Purchases : server[p] = "count"}

CounterLags == totalEvents + Cardinality(Counting) = GetStats.sold

(* A reply reports a total that includes the caller's own purchase and, as  *)
(* the total only grows, those of all callers that were told no more.       *)
AckCoversOwn ==
    \A p \in Purchases : ack[p] > 0 =>
        /\ p \in applied
        /\ ack[p] <= totalEvents
        /\ Cardinality({q \in Purchases : ack[q] \in 1 .. ack[p]}) <= ack[p]

-----------------------------------------------------------------------------
(* The inductive invariant behind these properties.                         *)

(* Where a stream is says whether its purchase is folded in: an event is    *)
(* applied once, between Recv and the unlock, and acknowledged at the end.  *)
StreamInv ==
    /\ client \in [Purchases -> {"new", "waiting", "error", "ok"}]
    /\ server \in [Purchases -> {"none", "recv", "count", "mirror", "eof", "end"}]
    /\ ack \in [Purchases -> Nat]
    /\ totalEvents \in Nat
    /\ applied \subseteq Purchases
    /\ \A p \in Purchases :
          /\ client[p] = "new" => server[p] = "none"
          /\ server[p] \in {"none", "recv"} => p \notin applied
          /\ server[p] \in {"count", "mirror", "eof"} => p \in applied
          /\ ack[p] > 0 => server[p] = "end"

(* The aggregate is that of the purchases applied, in whatever order: their *)
(* number, and the times of the earliest and the latest of them.            *)
FoldInv ==
    /\ agg \in [sold : Nat, firstAt : Nat, lastAt : Nat]
    /\ agg.sold = Cardinality(applied)
    /\ applied = {} => agg = NoAgg
    /\ applied # {} =>
          /\ \E p \in applied : agg.firstAt = OccurredAt[p]
          /\ \E p \in applied : agg.lastAt = OccurredAt[p]
          /\ \A p \in applied : agg.firstAt <= OccurredAt[p] /\ OccurredAt[p] <= agg.lastAt

AnalyticsInv == StreamInv /\ FoldInv /\ CounterLags /\ AckCoversOwn
=============================================================================
