----------------------------- MODULE Dashboard ------------------------------
(***************************************************************************)
(* The live dashboard of one event: purchases published to Kafka           *)
(* (internal/streaming), the consumer that folds them into Redis totals    *)
(* and broadcasts a snapshot (internal/dashboard Aggregator), and the hub  *)
(* with its WebSocket clients.  One API process, which may stop and start  *)
(* again; a total counts purchases, and a snapshot is its number of sales. *)
(***************************************************************************)
EXTENDS Integers, Sequences, FiniteSets

CONSTANTS
    Clients,        \* dashboards that connect and disconnect
    Buffer,         \* capacity of a client's send channel
    Environment,    \* what may go wrong, see below
    MaxPublished,   \* bound on the purchases
    MaxVisits,      \* bound on the connections
    MaxFaults       \* bound on the faults

Failures ==
    { "kafka",      \* a message is not written, or its lost reply makes the writer repeat it
      "commit",     \* the offset commit inside ReadMessage reports an error
      "redis",      \* INCRBY fails
      "reply",      \* INCRBY takes effect, its reply is lost, the client repeats it
      "crash" }     \* the process stops

ASSUME DashboardAssumption ==
    /\ Buffer \in Nat \ {0}
    /\ Environment \subseteq Failures
    /\ MaxPublished \in Nat
    /\ MaxVisits \in Nat
    /\ MaxFaults \in Nat

VARIABLES
    bought,     \* purchases handed to Producer.PublishPurchase
    produced,   \* messages in the topic
    offset,     \* the group's committed offset
    next,       \* the reader's position
    skipped,    \* messages that a join with StartOffset = LastOffset passed over
    consumer,   \* where the process and its consumer goroutine are
    revenue, sold,      \* the Redis totals
    snap,       \* the sold total that the present snapshot shows
    todo,       \* clients that the present Broadcast still has to visit
    clients,    \* Hub.clients
    closed,     \* clients whose send channel is closed
    conn,       \* where each client's Subscribe handler is
    send,       \* the send channels
    view,       \* the last snapshot written to each client
    visits, faults

kafkaVars == <<bought, produced, offset, next, skipped>>
totalVars == <<revenue, sold, snap>>
hubVars == <<clients, closed, conn, send, view, visits>>
dvars == <<kafkaVars, totalVars, hubVars, consumer, todo, faults>>

NoOffset == -1

DashboardInit ==
    /\ bought = 0 /\ produced = 0 /\ offset = NoOffset /\ next = 0 /\ skipped = 0
    /\ revenue = 0 /\ sold = 0 /\ snap = 0
    /\ consumer = "down"
    /\ todo = {} /\ clients = {} /\ closed = {}
    /\ conn = [c \in Clients |-> "away"]
    /\ send = [c \in Clients |-> <<>>]
    /\ view = [c \in Clients |-> 0]
    /\ visits = 0 /\ faults = 0

Fault(kind) == /\ kind \in Environment
               /\ faults < MaxFaults
               /\ faults' = faults + 1

-----------------------------------------------------------------------------
(* Kafka.                                                                   *)

(* WriteMessages: written once, not at all, or twice.                       *)
PublishPurchase ==
    /\ bought < MaxPublished
    /\ bought' = bought + 1
    /\ \/ produced' = produced + 1 /\ UNCHANGED faults
       \/ produced' \in {produced, produced + 2} /\ Fault("kafka")
    /\ UNCHANGED <<offset, next, skipped, totalVars, hubVars, consumer, todo>>

(* The process starts and its consumer joins the group: at the committed    *)
(* offset or, when there is none, at the end of the topic.                  *)
Join ==
    /\ consumer = "down"
    /\ consumer' = "read"
    /\ next' = (IF offset = NoOffset THEN produced ELSE offset)
    /\ skipped' = skipped + (next' - next)
    /\ UNCHANGED <<bought, produced, offset, totalVars, hubVars, todo, faults>>

(* ReadMessage commits the offset before it returns the message.  When the  *)
(* commit reports an error, effective or not, Run returns for good.         *)
ReadMessage ==
    /\ consumer = "read"
    /\ next < produced
    /\ \/ /\ consumer' = "revenue"
          /\ next' = next + 1 /\ offset' = next + 1
          /\ UNCHANGED faults
       \/ /\ consumer' = "stopped"
          /\ \/ next' = next + 1 /\ offset' = next + 1
             \/ UNCHANGED <<next, offset>>
          /\ Fault("commit")
    /\ UNCHANGED <<bought, produced, skipped, totalVars, hubVars, todo>>

-----------------------------------------------------------------------------
(* OnPurchase.                                                              *)

(* Mutant: the total is set to this purchase's quantity.                    *)
IncrBySets(total) == total' = 1 /\ UNCHANGED faults

(* INCRBY of one purchase; an error is ignored.                             *)
IncrBy(total) == \/ total' = total + 1 /\ UNCHANGED faults
                 \/ total' = total + 2 /\ Fault("reply")
                 \/ total' = total /\ Fault("redis")

AddRevenue ==
    /\ consumer = "revenue"
    /\ IncrBy(revenue)
    /\ consumer' = "sold"
    /\ UNCHANGED <<kafkaVars, sold, snap, hubVars, todo>>

(* Mutant: the snapshot shows the other total.                              *)
AddSoldShowsRevenue ==
    /\ consumer = "sold"
    /\ IncrBy(sold)
    /\ snap' = revenue
    /\ consumer' = "broadcast"
    /\ UNCHANGED <<kafkaVars, revenue, hubVars, todo>>

(* The result of a failed command is zero, and goes into the snapshot.      *)
AddSold ==
    /\ consumer = "sold"
    /\ IncrBy(sold)
    /\ snap' = (IF sold' = sold THEN 0 ELSE sold')
    /\ consumer' = "broadcast"
    /\ UNCHANGED <<kafkaVars, revenue, hubVars, todo>>

(* Hub.Broadcast under the read lock: one send per client.                  *)
Locked == consumer = "send"

BeginBroadcast ==
    /\ consumer = "broadcast"
    /\ todo' = clients
    /\ consumer' = "send"
    /\ UNCHANGED <<kafkaVars, totalVars, hubVars, faults>>

(* Mutant: the send blocks.                                                 *)
SendBlocking(c) ==
    /\ Locked /\ c \in todo
    /\ Len(send[c]) < Buffer
    /\ send' = [send EXCEPT ![c] = Append(@, snap)]
    /\ todo' = todo \ {c}
    /\ UNCHANGED <<kafkaVars, totalVars, clients, closed, conn, view, visits, consumer, faults>>

(* A full buffer drops the snapshot.                                        *)
Send(c) ==
    /\ Locked /\ c \in todo
    /\ send' = [send EXCEPT ![c] = IF Len(@) < Buffer THEN Append(@, snap) ELSE @]
    /\ todo' = todo \ {c}
    /\ UNCHANGED <<kafkaVars, totalVars, clients, closed, conn, view, visits, consumer, faults>>

EndBroadcast ==
    /\ Locked /\ todo = {}
    /\ consumer' = "read"
    /\ UNCHANGED <<kafkaVars, totalVars, hubVars, todo, faults>>

-----------------------------------------------------------------------------
(* Subscribe, one handler per WebSocket connection.                         *)

Register(c) ==
    /\ consumer # "down" /\ ~Locked
    /\ conn[c] = "away"
    /\ visits < MaxVisits /\ visits' = visits + 1
    /\ conn' = [conn EXCEPT ![c] = "open"]
    /\ clients' = clients \cup {c}
    /\ closed' = closed \ {c}                   \* a fresh channel
    /\ send' = [send EXCEPT ![c] = <<>>]
    /\ view' = [view EXCEPT ![c] = 0]
    /\ UNCHANGED <<kafkaVars, totalVars, consumer, todo, faults>>

WriteMessage(c) ==
    /\ conn[c] = "open"
    /\ send[c] # <<>>
    /\ view' = [view EXCEPT ![c] = Head(send[c])]
    /\ send' = [send EXCEPT ![c] = Tail(@)]
    /\ UNCHANGED <<kafkaVars, totalVars, clients, closed, conn, visits, consumer, todo, faults>>

(* The reader goroutine sees the client leave, or a write fails.            *)
Disconnect(c) ==
    /\ conn[c] = "open"
    /\ conn' = [conn EXCEPT ![c] = "gone"]
    /\ UNCHANGED <<kafkaVars, totalVars, clients, closed, send, view, visits, consumer, todo, faults>>

(* Mutant: unregister does not take the lock.                               *)
UnregisterUnlocked(c) ==
    /\ conn[c] = "gone"
    /\ conn' = [conn EXCEPT ![c] = "away"]
    /\ clients' = clients \ {c}
    /\ closed' = closed \cup {c}
    /\ UNCHANGED <<kafkaVars, totalVars, send, view, visits, consumer, todo, faults>>

Unregister(c) ==
    /\ ~Locked
    /\ conn[c] = "gone"
    /\ conn' = [conn EXCEPT ![c] = "away"]
    /\ clients' = clients \ {c}
    /\ closed' = closed \cup {c}
    /\ UNCHANGED <<kafkaVars, totalVars, send, view, visits, consumer, todo, faults>>

(* The process stops: Kafka and Redis keep their state.                     *)
Crash ==
    /\ consumer # "down"
    /\ Fault("crash")
    /\ consumer' = "down"
    /\ todo' = {} /\ clients' = {} /\ closed' = {}
    /\ conn' = [c \in Clients |-> "away"]
    /\ send' = [c \in Clients |-> <<>>]
    /\ view' = [c \in Clients |-> 0]
    /\ UNCHANGED <<kafkaVars, totalVars, visits>>

Handle == \/ AddRevenue \/ AddSold \/ BeginBroadcast \/ EndBroadcast
          \/ \E c \in Clients : Send(c)

DashboardNext ==
    \/ PublishPurchase \/ Join \/ ReadMessage \/ Handle \/ Crash
    \/ \E c \in Clients : Register(c) \/ WriteMessage(c) \/ Disconnect(c) \/ Unregister(c)

DashboardSpec == DashboardInit /\ [][DashboardNext]_dvars

(* The consumer goroutine is scheduled; clients may never read.             *)
DashboardFairSpec == DashboardSpec /\ WF_dvars(ReadMessage) /\ WF_dvars(Handle) /\ WF_dvars(Join)

-----------------------------------------------------------------------------
Working == {"revenue", "sold", "broadcast", "send"}

DashboardTypeOK ==
    /\ bought \in Nat /\ produced \in Nat /\ next \in 0 .. produced /\ skipped \in Nat
    /\ offset \in {NoOffset, next}
    /\ revenue \in Nat /\ sold \in Nat /\ snap \in Nat
    /\ consumer \in {"down", "read", "stopped"} \cup Working
    /\ clients \subseteq Clients /\ closed \subseteq Clients
    /\ todo \subseteq Clients /\ (todo # {} => Locked)
    /\ conn \in [Clients -> {"away", "open", "gone"}]
    /\ send \in [Clients -> Seq(Nat)]
    /\ view \in [Clients -> Nat]
    /\ visits \in Nat /\ faults \in 0 .. MaxFaults

(* Every purchase is unread in the topic, passed over by a join, being      *)
(* handled, or counted: the totals differ from that by at most one per      *)
(* failure.  In particular a crash loses at most the one purchase that the  *)
(* consumer had committed and not counted, and a restart repeats none.      *)
Accounted(total, pending) == total + pending + skipped + (produced - next) - bought

DriftBounded ==
    LET r == Accounted(revenue, IF consumer = "revenue" THEN 1 ELSE 0)
        s == Accounted(sold, IF consumer \in {"revenue", "sold"} THEN 1 ELSE 0)
    IN -faults <= r /\ r <= faults /\ -faults <= s /\ s <= faults

(* Broadcast visits only clients with an open channel, so that it never     *)
(* sends on a closed one, which would panic: unregister removes a client    *)
(* and closes its channel under the lock.                                   *)
SendsToOpen == todo \cap closed = {}

(* A client sees the sales grow: the snapshots it was shown and those in    *)
(* its channel are in order, except zeros from a failed INCRBY, and none    *)
(* exceeds the total.                                                       *)
SnapshotsOrdered ==
    \A c \in Clients :
        LET q == <<view[c]>> \o send[c] IN
        \A i, j \in 1 .. Len(q) : i <= j => q[i] <= sold /\ (q[j] = 0 \/ q[i] <= q[j])

(* The purpose of the drop in Broadcast: clients that do not read never     *)
(* stall the pipeline.                                                      *)
NeverStalls == consumer \in Working ~> consumer \notin Working

(* The inductive invariant: a registered client has an open channel, and a  *)
(* broadcast visits registered clients.                                     *)
HubInv ==
    /\ DashboardTypeOK
    /\ clients \cap closed = {}
    /\ todo \subseteq clients
    /\ DriftBounded
=============================================================================
