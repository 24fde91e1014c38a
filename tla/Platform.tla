------------------------------ MODULE Platform ------------------------------
(***************************************************************************)
(* The API processes of Startup answering the requests of Catalog and      *)
(* Discovery.  A client is connected to one process, which serves it only  *)
(* while it runs: a process that stops takes the running requests with it, *)
(* between any two of their statements.                                    *)
(***************************************************************************)
EXTENDS Startup, Discovery

CONSTANT HostOf     \* the process each client is connected to

ASSUME PlatformAssumption ==
    /\ HostOf \in [Clients \cup Requests -> Procs]
    /\ \A l \in Loads : l.cold \in BOOLEAN /\ l.outages \in 0 .. MaxOutages

requestVars == <<catalogVars, gql>>
platformVars == <<startupVars, requestVars>>

(* A cold load begins with an empty database, the others after a start.     *)
PlatformInit ==
    /\ DiscoveryInit
    /\ \/ load.cold /\ StartupInit
       \/ /\ ~load.cold
          /\ proc = [p \in Procs |-> "serve"]
          /\ step = [p \in Procs |-> Migrations + 1]
          /\ table = TRUE
          /\ applied = Versions
          /\ recorded = Versions
          /\ outages = MaxOutages - load.outages

-----------------------------------------------------------------------------
(* ListenAndServe accepts until Shutdown; requests that run go on.          *)
Accepts(c) == proc[HostOf[c]] = "serve"
Answers(c) == proc[HostOf[c]] \in Running

Serving == \E p \in Procs : proc[p] = "serve"

RunningOn(p) == {c \in Clients : HostOf[c] = p /\ ~Ready(c)} \cup
                {q \in Requests : HostOf[q] = p /\ gql[q].state = "running"}

(* The requests that run on p end without an answer.                        *)
Lose(p) ==
    /\ call' = [c \in Clients |-> IF c \in RunningOn(p) THEN Idle ELSE call[c]]
    /\ gql' = [q \in Requests |-> IF q \in RunningOn(p) THEN NoRequest ELSE gql[q]]
    /\ UNCHANGED <<users, tokens, events, tiers, load, faults>>

(* Shutdown returns when no request runs; its 10 seconds ending earlier is  *)
(* a Crash of the draining process.                                         *)
ProcStep(p) ==
    \/ (StartStep(p) \/ FailToStart(p) \/ Terminate(p)) /\ UNCHANGED requestVars
    \/ RunningOn(p) = {} /\ Exit(p) /\ UNCHANGED requestVars
    \/ Crash(p) /\ Lose(p)

(* A statement takes a connection and returns it.                           *)
RestStep ==
    /\ \/ FreeConn /\ Serving /\ (AccountStep \/ \E j \in DOMAIN tiers : SellTicket(j))
       \/ \E t \in tokens : Expire(t)
       \/ \E c \in Clients : Accepts(c) /\ BeginCall(c)
    /\ UNCHANGED <<gql, startupVars>>

CallStep(c) ==
    /\ Answers(c)
    /\ Refuse(c) \/ (FreeConn /\ Statement(c))
    /\ UNCHANGED <<gql, startupVars>>

GraphQLStep(q) == Answers(q) /\ RequestStep(q) /\ UNCHANGED startupVars

PlatformNext ==
    \/ \E p \in Procs : ProcStep(p)
    \/ \E p, q \in Procs : Collide(p, q) /\ UNCHANGED requestVars
    \/ RestStep
    \/ \E c \in Clients : CallStep(c)
    \/ \E q \in Requests : \/ GraphQLStep(q)
                           \/ \E d \in Documents : /\ Accepts(q) /\ Exec(q, d)
                                                  /\ UNCHANGED startupVars

PlatformSpec == PlatformInit /\ [][PlatformNext]_platformVars

(* The orchestrator restarts what exits, a process runs on, a shutdown whose *)
(* requests are answered ends, and the goroutines of a request are scheduled *)
(* and served by the pool in turn.                                          *)
PlatformFairSpec ==
    /\ PlatformSpec
    /\ \A p \in Procs : /\ WF_platformVars(StartStep(p) /\ UNCHANGED requestVars)
                        /\ WF_platformVars(RunningOn(p) = {} /\ Exit(p) /\ UNCHANGED requestVars)
    /\ \A q \in Requests : SF_platformVars(GraphQLStep(q))
    /\ \A c \in Clients : SF_platformVars(CallStep(c))

-----------------------------------------------------------------------------
(* Starting together, processes make each other fail in Migrate, and die of *)
(* it.  They do not do so for ever: once the outages end, all of them serve *)
(* and go on serving.                                                       *)
EveryoneServes == <>[](\A p \in Procs : proc[p] = "serve")

(* Every GraphQL request is answered, or lost with its process: its root    *)
(* fields never wait for each other's connections.  The router's timeout is *)
(* not needed for it.                                                       *)
RequestsEnd == \A q \in Requests : gql[q].state = "running" ~> gql[q].state # "running"
=============================================================================
