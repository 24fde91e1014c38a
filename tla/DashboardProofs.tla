-------------------------- MODULE DashboardProofs ---------------------------
(***************************************************************************)
(* The accounting of the dashboard pipeline and the safety of the hub's    *)
(* channels, for every number of clients, purchases, restarts and faults.  *)
(***************************************************************************)
EXTENDS Dashboard, TLAPS

LEMMA HubInit == DashboardInit => HubInv
BY DashboardAssumption
   DEF DashboardInit, HubInv, DashboardTypeOK, DriftBounded, Accounted, NoOffset, Working, Locked

(* The totals and the positions in the topic.                               *)
PipelineVars == <<kafkaVars, revenue, sold, faults>>

(* A step that leaves the totals and the topic alone and does not move the  *)
(* handler past a total keeps the account.                                  *)
LEMMA DriftKept ==
    ASSUME DriftBounded, UNCHANGED PipelineVars,
           (consumer' = "revenue") <=> (consumer = "revenue"),
           (consumer' = "sold") <=> (consumer = "sold")
    PROVE  DriftBounded'
BY DEF DriftBounded, Accounted, PipelineVars, kafkaVars

LEMMA HubStep ==
    ASSUME HubInv, [DashboardNext]_dvars
    PROVE  HubInv'
<1> USE DashboardAssumption DEF HubInv
<1> USE DEF DashboardTypeOK, Working, Locked, NoOffset, kafkaVars, totalVars, hubVars, Fault
<1>1. CASE PublishPurchase
  <2>1. DashboardTypeOK'
    BY <1>1 DEF PublishPurchase
  <2>2. DriftBounded'
    <3>1. CASE produced' = produced + 1 /\ UNCHANGED faults
      BY <1>1, <3>1 DEF PublishPurchase, DriftBounded, Accounted
    <3>2. CASE produced' \in {produced, produced + 2} /\ Fault("kafka")
      <4>1. CASE produced' = produced
        BY <1>1, <3>2, <4>1 DEF PublishPurchase, DriftBounded, Accounted
      <4>2. CASE produced' = produced + 2
        BY <1>1, <3>2, <4>2 DEF PublishPurchase, DriftBounded, Accounted
      <4> QED BY <3>2, <4>1, <4>2
    <3> QED BY <1>1, <3>1, <3>2 DEF PublishPurchase
  <2> QED BY <1>1, <2>1, <2>2 DEF PublishPurchase
<1>2. CASE Join
  BY <1>2 DEF Join, DriftBounded, Accounted
<1>3. CASE ReadMessage
  <2>1. DashboardTypeOK'
    <3>1. CASE next' = next + 1 /\ offset' = next + 1
      BY <1>3, <3>1 DEF ReadMessage
    <3>2. CASE UNCHANGED <<next, offset>>
      BY <1>3, <3>2 DEF ReadMessage
    <3> QED BY <1>3, <3>1, <3>2 DEF ReadMessage
  <2>2. DriftBounded'
    <3>1. CASE consumer' = "revenue" /\ next' = next + 1 /\ UNCHANGED faults
      BY <1>3, <3>1 DEF ReadMessage, DriftBounded, Accounted
    <3>2. CASE consumer' = "stopped" /\ next' \in {next, next + 1} /\ Fault("commit")
      <4>1. CASE next' = next
        BY <1>3, <3>2, <4>1 DEF ReadMessage, DriftBounded, Accounted
      <4>2. CASE next' = next + 1
        BY <1>3, <3>2, <4>2 DEF ReadMessage, DriftBounded, Accounted
      <4> QED BY <3>2, <4>1, <4>2
    <3> QED BY <1>3, <3>1, <3>2 DEF ReadMessage
  <2> QED BY <1>3, <2>1, <2>2 DEF ReadMessage
<1>4. CASE AddRevenue
  BY <1>4 DEF AddRevenue, IncrBy, DriftBounded, Accounted
<1>5. CASE AddSold
  <2>1. /\ consumer = "sold" /\ consumer' = "broadcast"
        /\ \/ sold' = sold + 1 /\ UNCHANGED faults
           \/ sold' \in {sold, sold + 2} /\ faults' = faults + 1 /\ faults < MaxFaults
        /\ UNCHANGED <<kafkaVars, revenue, hubVars, todo>>
    BY <1>5 DEF AddSold, IncrBy
  <2>2. snap' \in Nat
    BY <1>5, <2>1 DEF AddSold
  <2>3. DriftBounded'
    <3>1. CASE sold' = sold + 1 /\ UNCHANGED faults
      BY <2>1, <3>1 DEF DriftBounded, Accounted
    <3>2. CASE sold' = sold /\ faults' = faults + 1
      BY <2>1, <3>2 DEF DriftBounded, Accounted
    <3>3. CASE sold' = sold + 2 /\ faults' = faults + 1
      BY <2>1, <3>3 DEF DriftBounded, Accounted
    <3> QED BY <2>1, <3>1, <3>2, <3>3
  <2> QED BY <2>1, <2>2, <2>3
<1>6. CASE BeginBroadcast
  <2>1. DriftBounded'
    BY <1>6, DriftKept DEF BeginBroadcast, PipelineVars
  <2> QED BY <1>6, <2>1 DEF BeginBroadcast
<1>7. ASSUME NEW c \in Clients, Send(c) PROVE HubInv'
  <2>1. DriftBounded'
    BY <1>7, DriftKept DEF Send, PipelineVars
  <2>2. send' \in [Clients -> Seq(Nat)]
    BY <1>7 DEF Send
  <2> QED BY <1>7, <2>1, <2>2 DEF Send
<1>8. CASE EndBroadcast
  <2>1. DriftBounded'
    BY <1>8, DriftKept DEF EndBroadcast, PipelineVars
  <2> QED BY <1>8, <2>1 DEF EndBroadcast
<1>9. ASSUME NEW c \in Clients, Register(c) PROVE HubInv'
  <2>1. DriftBounded'
    BY <1>9, DriftKept DEF Register, PipelineVars
  <2>2. send' \in [Clients -> Seq(Nat)]
    BY <1>9 DEF Register
  <2> QED BY <1>9, <2>1, <2>2 DEF Register
<1>10. ASSUME NEW c \in Clients, WriteMessage(c) PROVE HubInv'
  <2>1. DriftBounded'
    BY <1>10, DriftKept DEF WriteMessage, PipelineVars
  <2>2. Head(send[c]) \in Nat /\ Tail(send[c]) \in Seq(Nat)
    BY <1>10 DEF WriteMessage
  <2> QED BY <1>10, <2>1, <2>2 DEF WriteMessage
<1>11. ASSUME NEW c \in Clients, Disconnect(c) PROVE HubInv'
  <2>1. DriftBounded'
    BY <1>11, DriftKept DEF Disconnect, PipelineVars
  <2> QED BY <1>11, <2>1 DEF Disconnect
<1>12. ASSUME NEW c \in Clients, Unregister(c) PROVE HubInv'
  <2>1. DriftBounded'
    BY <1>12, DriftKept DEF Unregister, PipelineVars
  <2> QED BY <1>12, <2>1 DEF Unregister
<1>13. CASE Crash
  <2>1. DriftBounded'
    BY <1>13 DEF Crash, DriftBounded, Accounted
  <2>2. send' \in [Clients -> Seq(Nat)]
    BY <1>13 DEF Crash
  <2> QED BY <1>13, <2>1, <2>2 DEF Crash
<1>14. CASE UNCHANGED dvars
  <2>1. DriftBounded'
    BY <1>14, DriftKept DEF dvars, PipelineVars
  <2> QED BY <1>14, <2>1 DEF dvars
<1> QED
  BY <1>1, <1>2, <1>3, <1>4, <1>5, <1>6, <1>7, <1>8, <1>9, <1>10, <1>11, <1>12,
     <1>13, <1>14 DEF DashboardNext, Handle

(* The inductive invariant holds in every state of the pipeline.            *)
THEOREM HubInvariant == DashboardSpec => []HubInv
<1>1. HubInv /\ [DashboardNext]_dvars => HubInv'
  BY HubStep
<1> QED
  BY <1>1, HubInit, PTL DEF DashboardSpec

(* The Redis totals of OnPurchase account for every published purchase, up  *)
(* to one per failure of Kafka, Redis or the process.                       *)
THEOREM TotalsAccount == DashboardSpec => []DriftBounded
<1>1. HubInv => DriftBounded
  BY DEF HubInv
<1> QED
  BY <1>1, HubInvariant, PTL

(* Hub.Broadcast never sends on a channel that unregister has closed.       *)
THEOREM NoSendOnClosed == DashboardSpec => []SendsToOpen
<1>1. HubInv => SendsToOpen
  BY DEF HubInv, SendsToOpen
<1> QED
  BY <1>1, HubInvariant, PTL

-----------------------------------------------------------------------------
(* The order of snapshots.                                                  *)

(* What SnapshotsOrdered says of a client, element by element: v was shown  *)
(* last, q waits in the channel, and total has been sold.                   *)
InOrder(v, q, total) ==
    /\ v <= total
    /\ \A i \in 1 .. Len(q) : q[i] <= total /\ (q[i] = 0 \/ v <= q[i])
    /\ \A i, j \in 1 .. Len(q) : i <= j => q[j] = 0 \/ q[i] <= q[j]

(* The snapshot that a broadcast carries is the present total, or the zero  *)
(* of a failed INCRBY: the consumer adds nothing while it broadcasts.       *)
SnapInv ==
    /\ HubInv
    /\ consumer \in {"broadcast", "send"} => snap \in {0, sold}
    /\ \A c \in Clients : InOrder(view[c], send[c], sold)

LEMMA InOrderConcat ==
    ASSUME NEW v \in Nat, NEW q \in Seq(Nat), NEW total \in Nat, InOrder(v, q, total)
    PROVE  \A i, j \in 1 .. Len(<<v>> \o q) : i <= j =>
               /\ (<<v>> \o q)[i] <= total
               /\ (<<v>> \o q)[j] = 0 \/ (<<v>> \o q)[i] <= (<<v>> \o q)[j]
<1> DEFINE s == <<v>> \o q
<1>1. Len(q) \in Nat /\ Len(s) = Len(q) + 1
  OBVIOUS
<1>2. s[1] = v
  OBVIOUS
<1>3. \A i \in 1 .. Len(s) : i # 1 => i - 1 \in 1 .. Len(q) /\ s[i] = q[i - 1]
  BY <1>1
<1>4. \A i \in 1 .. Len(q) : q[i] \in Nat
  OBVIOUS
<1> HIDE DEF s
<1> SUFFICES ASSUME NEW i \in 1 .. Len(s), NEW j \in 1 .. Len(s), i <= j
             PROVE  s[i] <= total /\ (s[j] = 0 \/ s[i] <= s[j])
  BY DEF s
<1>5. CASE i = 1 /\ j = 1
  BY <1>2, <1>5 DEF InOrder
<1>6. CASE i = 1 /\ j # 1
  BY <1>2, <1>3, <1>6 DEF InOrder
<1>7. CASE i # 1
  <2>1. j # 1 /\ i - 1 <= j - 1
    BY <1>1, <1>7
  <2> QED
    BY <1>3, <1>7, <2>1 DEF InOrder
<1> QED
  BY <1>5, <1>6, <1>7

LEMMA InOrderAppend ==
    ASSUME NEW v \in Nat, NEW q \in Seq(Nat), NEW total \in Nat, InOrder(v, q, total),
           NEW x \in {0, total}
    PROVE  InOrder(v, Append(q, x), total)
<1> DEFINE s == Append(q, x)
<1>1. /\ Len(q) \in Nat /\ Len(s) = Len(q) + 1 /\ s[Len(q) + 1] = x
      /\ \A i \in 1 .. Len(q) : s[i] = q[i] /\ q[i] \in Nat
  OBVIOUS
<1> HIDE DEF s
<1>2. \A i \in 1 .. Len(s) : i \in 1 .. Len(q) \/ i = Len(q) + 1
  BY <1>1
<1>3. \A i \in 1 .. Len(s) : s[i] <= total /\ (s[i] = 0 \/ v <= s[i])
  BY <1>1, <1>2 DEF InOrder
<1>4. ASSUME NEW i \in 1 .. Len(s), NEW j \in 1 .. Len(s), i <= j
      PROVE  s[j] = 0 \/ s[i] <= s[j]
  <2>1. CASE j = Len(q) + 1
    BY <1>1, <1>3, <2>1
  <2>2. CASE j \in 1 .. Len(q)
    <3>1. i \in 1 .. Len(q)
      BY <1>1, <1>4, <2>2
    <3> QED
      BY <1>1, <1>4, <2>2, <3>1 DEF InOrder
  <2> QED
    BY <1>2, <2>1, <2>2
<1> QED
  BY <1>3, <1>4 DEF InOrder, s

LEMMA InOrderTail ==
    ASSUME NEW v \in Nat, NEW q \in Seq(Nat), q # <<>>, NEW total \in Nat, InOrder(v, q, total)
    PROVE  InOrder(Head(q), Tail(q), total)
<1>1. /\ Len(q) \in Nat \ {0} /\ Len(Tail(q)) = Len(q) - 1 /\ Head(q) = q[1]
      /\ \A i \in 1 .. Len(q) : q[i] \in Nat
  OBVIOUS
<1>2. \A i \in 1 .. Len(Tail(q)) : i + 1 \in 1 .. Len(q) /\ Tail(q)[i] = q[i + 1]
  OBVIOUS
<1>3. 1 \in 1 .. Len(q) /\ \A i \in 1 .. Len(Tail(q)) : 1 <= i + 1
  BY <1>1
<1> QED
  BY <1>1, <1>2, <1>3 DEF InOrder

LEMMA InOrderMore ==
    ASSUME NEW v \in Nat, NEW q \in Seq(Nat), NEW total \in Nat, InOrder(v, q, total),
           NEW more \in Nat, total <= more
    PROVE  InOrder(v, q, more)
<1>1. \A i \in 1 .. Len(q) : q[i] \in Nat
  OBVIOUS
<1> QED
  BY <1>1 DEF InOrder

LEMMA InOrderEmpty == ASSUME NEW total \in Nat PROVE InOrder(0, <<>>, total)
BY DEF InOrder

LEMMA SnapStep ==
    ASSUME SnapInv, [DashboardNext]_dvars
    PROVE  SnapInv'
<1> USE DEF Locked, Working
<1> DEFINE Kept == \A c \in Clients : InOrder(view'[c], send'[c], sold')
<1>0. /\ HubInv' /\ HubInv
      /\ \A c \in Clients : InOrder(view[c], send[c], sold) /\ view[c] \in Nat /\ send[c] \in Seq(Nat)
      /\ sold \in Nat /\ sold' \in Nat /\ send \in [Clients -> Seq(Nat)] /\ view \in [Clients -> Nat]
      /\ consumer \in {"broadcast", "send"} => snap \in {0, sold}
  BY HubStep DEF SnapInv, HubInv, DashboardTypeOK
<1>1. ASSUME UNCHANGED <<view, send>>, sold <= sold' PROVE Kept
  BY <1>0, <1>1, InOrderMore
<1>2. CASE AddSold
  <2>1. sold <= sold' /\ snap' \in {0, sold'}
    BY <1>0, <1>2 DEF AddSold, IncrBy
  <2> QED
    BY <1>0, <1>1, <1>2, <2>1 DEF AddSold, SnapInv, hubVars
<1>3. ASSUME NEW c \in Clients, Send(c) PROVE SnapInv'
  <2>1. snap \in {0, sold} /\ UNCHANGED <<view, sold, snap, consumer>>
    BY <1>0, <1>3 DEF Send, totalVars
  <2>2. InOrder(view[c], Append(send[c], snap), sold)
    BY <1>0, <2>1, InOrderAppend
  <2>3. send'[c] \in {send[c], Append(send[c], snap)} /\ \A d \in Clients \ {c} : send'[d] = send[d]
    BY <1>0, <1>3 DEF Send
  <2> QED
    BY <1>0, <2>1, <2>2, <2>3 DEF SnapInv
<1>4. ASSUME NEW c \in Clients, Register(c) PROVE SnapInv'
  <2>1. /\ send' = [send EXCEPT ![c] = <<>>] /\ view' = [view EXCEPT ![c] = 0]
        /\ UNCHANGED <<sold, snap, consumer>>
    BY <1>4 DEF Register, totalVars
  <2> QED
    BY <1>0, <2>1, InOrderEmpty DEF SnapInv
<1>5. ASSUME NEW c \in Clients, WriteMessage(c) PROVE SnapInv'
  <2>1. /\ send' = [send EXCEPT ![c] = Tail(send[c])] /\ view' = [view EXCEPT ![c] = Head(send[c])]
        /\ send[c] # <<>> /\ UNCHANGED <<sold, snap, consumer>>
    BY <1>5 DEF WriteMessage, totalVars
  <2>2. InOrder(Head(send[c]), Tail(send[c]), sold)
    BY <1>0, <2>1, InOrderTail
  <2> QED
    BY <1>0, <2>1, <2>2 DEF SnapInv
<1>6. CASE Crash
  <2>1. /\ send' = [c \in Clients |-> <<>>] /\ view' = [c \in Clients |-> 0] /\ consumer' = "down"
        /\ UNCHANGED sold
    BY <1>6 DEF Crash, totalVars
  <2> QED
    BY <1>0, <2>1, InOrderEmpty DEF SnapInv
<1>7. ASSUME UNCHANGED <<view, send, sold, snap>>,
             consumer' \in {"broadcast", "send"} => consumer \in {"broadcast", "send"}
      PROVE  SnapInv'
  BY <1>0, <1>7 DEF SnapInv
<1>8. CASE PublishPurchase \/ Join \/ ReadMessage
  BY <1>7, <1>8 DEF PublishPurchase, Join, ReadMessage, totalVars, hubVars
<1>9. CASE AddRevenue \/ BeginBroadcast \/ EndBroadcast
  BY <1>7, <1>9 DEF AddRevenue, BeginBroadcast, EndBroadcast, totalVars, hubVars
<1>10. ASSUME NEW c \in Clients, Disconnect(c) \/ Unregister(c) PROVE SnapInv'
  BY <1>7, <1>10 DEF Disconnect, Unregister, totalVars
<1>11. CASE UNCHANGED dvars
  BY <1>7, <1>11 DEF dvars, totalVars, hubVars
<1> QED
  BY <1>2, <1>3, <1>4, <1>5, <1>6, <1>8, <1>9, <1>10, <1>11 DEF DashboardNext, Handle

(* What a dashboard shows of an event's sales never goes back, but for the  *)
(* zeros of failed commands: not through dropped snapshots, clients that    *)
(* come and go during a broadcast, repeated messages or restarts.           *)
THEOREM SnapshotsInOrder == DashboardSpec => []SnapshotsOrdered
<1>1. DashboardInit => SnapInv
  <2> SUFFICES ASSUME DashboardInit PROVE SnapInv
    OBVIOUS
  <2> QED
    BY HubInit, InOrderEmpty DEF DashboardInit, SnapInv
<1>2. SnapInv /\ [DashboardNext]_dvars => SnapInv'
  BY SnapStep
<1>3. SnapInv => SnapshotsOrdered
  <2> SUFFICES ASSUME SnapInv, NEW c \in Clients, NEW i \in 1 .. Len(<<view[c]>> \o send[c]),
                      NEW j \in 1 .. Len(<<view[c]>> \o send[c]), i <= j
               PROVE  LET q == <<view[c]>> \o send[c]
                      IN  q[i] <= sold /\ (q[j] = 0 \/ q[i] <= q[j])
    BY DEF SnapshotsOrdered
  <2>1. view[c] \in Nat /\ send[c] \in Seq(Nat) /\ sold \in Nat /\ InOrder(view[c], send[c], sold)
    BY DEF SnapInv, HubInv, DashboardTypeOK
  <2> QED
    BY <2>1, InOrderConcat
<1> QED
  BY <1>1, <1>2, <1>3, PTL DEF DashboardSpec
=============================================================================
