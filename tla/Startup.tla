------------------------------ MODULE Startup ------------------------------
(***************************************************************************)
(* The life of the API processes (cmd/api/main.go, internal/db): a process *)
(* waits for Postgres, runs Migrate, pings Redis and serves until it is    *)
(* told to stop, or dies on the way.  Migrate checks, applies and records  *)
(* every migration in separate statements and takes no lock, and all       *)
(* replicas run it when they start.                                        *)
(***************************************************************************)
EXTENDS Integers, FiniteSets

CONSTANTS
    Procs,          \* replicas of the API process
    Migrations,     \* number of embedded migrations, in lexical order
    MaxOutages      \* bound on the outages of one behaviour

ASSUME StartupAssumption == Migrations \in Nat /\ MaxOutages \in Nat

VARIABLES
    proc,       \* where each process is
    step,       \* the migration it is at
    table,      \* whether table schema_migrations exists
    applied,    \* migrations whose statements have committed
    recorded,   \* rows of schema_migrations
    outages     \* outages so far

schemaVars == <<table, applied, recorded>>
startupVars == <<proc, step, schemaVars, outages>>

Starting == {"connect", "table", "check", "apply", "record", "redis"}
Running == {"serve", "drain"}
Versions == 1 .. Migrations

StartupInit ==
    /\ proc = [p \in Procs |-> "down"]
    /\ step = [p \in Procs |-> 1]
    /\ table = FALSE
    /\ applied = {}
    /\ recorded = {}
    /\ outages = 0

-----------------------------------------------------------------------------
At(p, here) == proc[p] = here
ProcGoto(p, there) == proc' = [proc EXCEPT ![p] = there]
Outage == outages < MaxOutages /\ outages' = outages + 1

(* The orchestrator starts a process, again whenever it has exited.         *)
Launch(p) ==
    /\ At(p, "down")
    /\ ProcGoto(p, "connect")
    /\ step' = [step EXCEPT ![p] = 1]
    /\ UNCHANGED <<schemaVars, outages>>

(* Connect: a Ping of its 30 second loop is answered.                       *)
Connect(p) ==
    /\ At(p, "connect")
    /\ ProcGoto(p, "table")
    /\ UNCHANGED <<step, schemaVars, outages>>

(* CREATE TABLE IF NOT EXISTS schema_migrations.                            *)
CreateTable(p) ==
    /\ At(p, "table")
    /\ table' = TRUE
    /\ ProcGoto(p, "check")
    /\ UNCHANGED <<step, applied, recorded, outages>>

(* Mutant: the loop stops at the first recorded migration.                  *)
CheckFirstOnly(p) ==
    /\ At(p, "check")
    /\ \/ /\ step[p] > Migrations \/ step[p] \in recorded
          /\ ProcGoto(p, "redis") /\ UNCHANGED step
       \/ /\ step[p] \in Versions \ recorded
          /\ ProcGoto(p, "apply") /\ UNCHANGED step
    /\ UNCHANGED <<schemaVars, outages>>

(* Mutant: a migration is applied whether or not it is recorded.            *)
CheckNothing(p) ==
    /\ At(p, "check")
    /\ ProcGoto(p, IF step[p] \in Versions THEN "apply" ELSE "redis")
    /\ UNCHANGED <<step, schemaVars, outages>>

(* SELECT EXISTS for the next migration, which is skipped when recorded;    *)
(* after the last one Migrate returns.                                      *)
Check(p) ==
    /\ At(p, "check")
    /\ \/ /\ step[p] > Migrations
          /\ ProcGoto(p, "redis") /\ UNCHANGED step
       \/ /\ step[p] \in recorded
          /\ step' = [step EXCEPT ![p] = @ + 1] /\ UNCHANGED proc
       \/ /\ step[p] \in Versions \ recorded
          /\ ProcGoto(p, "apply") /\ UNCHANGED step
    /\ UNCHANGED <<schemaVars, outages>>

(* Mutant: an error of the statements is ignored.                           *)
ApplyOrNot(p) ==
    /\ At(p, "apply")
    /\ applied' \in {applied, applied \cup {step[p]}}
    /\ ProcGoto(p, "record")
    /\ UNCHANGED <<step, table, recorded, outages>>

(* The file's statements, in one implicit transaction.  All of them can be  *)
(* repeated: IF NOT EXISTS, OR REPLACE, a backfill of what is NULL.         *)
Apply(p) ==
    /\ At(p, "apply")
    /\ applied' = applied \cup {step[p]}
    /\ ProcGoto(p, "record")
    /\ UNCHANGED <<step, table, recorded, outages>>

(* IF NOT EXISTS does not exclude a concurrent creation: when p and q create *)
(* the same objects, Postgres lets one transaction commit and fails the     *)
(* other, whose process exits.                                              *)
Collide(p, q) ==
    /\ p # q
    /\ \/ /\ At(p, "table") /\ At(q, "table") /\ ~table
          /\ table' = TRUE
          /\ proc' = [proc EXCEPT ![p] = "check", ![q] = "down"]
          /\ UNCHANGED applied
       \/ /\ At(p, "apply") /\ At(q, "apply") /\ step[p] = step[q]
          /\ step[p] \notin applied
          /\ applied' = applied \cup {step[p]}
          /\ proc' = [proc EXCEPT ![p] = "record", ![q] = "down"]
          /\ UNCHANGED table
    /\ UNCHANGED <<step, recorded, outages>>

(* INSERT INTO schema_migrations.  When another process has recorded the    *)
(* migration in the meantime the primary key refuses the row and log.Fatalf *)
(* ends the process.                                                        *)
Record(p) ==
    /\ At(p, "record")
    /\ \/ /\ step[p] \notin recorded
          /\ recorded' = recorded \cup {step[p]}
          /\ step' = [step EXCEPT ![p] = @ + 1]
          /\ ProcGoto(p, "check")
       \/ /\ step[p] \in recorded
          /\ ProcGoto(p, "down")
          /\ UNCHANGED <<recorded, step>>
    /\ UNCHANGED <<table, applied, outages>>

(* cache.New pings Redis; the rest of main wires the parts together and     *)
(* does not wait: a failing analytics or Kafka dial is only logged.         *)
Serve(p) ==
    /\ At(p, "redis")
    /\ ProcGoto(p, "serve")
    /\ UNCHANGED <<step, schemaVars, outages>>

(* A call of a starting process fails, or its 30 seconds for Postgres or    *)
(* 5 seconds for Redis end: log.Fatalf.  A statement whose answer was lost  *)
(* may have taken effect.                                                   *)
FailToStart(p) ==
    /\ proc[p] \in Starting
    /\ Outage
    /\ \/ UNCHANGED schemaVars
       \/ At(p, "table") /\ table' = TRUE /\ UNCHANGED <<applied, recorded>>
       \/ /\ At(p, "apply") /\ applied' = applied \cup {step[p]}
          /\ UNCHANGED <<table, recorded>>
       \/ /\ At(p, "record") /\ recorded' = recorded \cup {step[p]}
          /\ UNCHANGED <<table, applied>>
    /\ ProcGoto(p, "down")
    /\ UNCHANGED step

(* SIGTERM: Shutdown stops accepting and waits for the running requests.    *)
Terminate(p) ==
    /\ At(p, "serve")
    /\ Outage
    /\ ProcGoto(p, "drain")
    /\ UNCHANGED <<step, schemaVars>>

Exit(p) ==
    /\ At(p, "drain")
    /\ ProcGoto(p, "down")
    /\ UNCHANGED <<step, schemaVars, outages>>

(* The process dies while it serves or drains.                              *)
Crash(p) ==
    /\ proc[p] \in Running
    /\ Outage
    /\ ProcGoto(p, "down")
    /\ UNCHANGED <<step, schemaVars>>

-----------------------------------------------------------------------------
StartStep(p) == \/ Launch(p) \/ Connect(p) \/ CreateTable(p) \/ Check(p)
                \/ Apply(p) \/ Record(p) \/ Serve(p)

StartupNext ==
    \/ \E p \in Procs : StartStep(p) \/ FailToStart(p) \/ Terminate(p) \/ Exit(p) \/ Crash(p)
    \/ \E p, q \in Procs : Collide(p, q)

StartupSpec == StartupInit /\ [][StartupNext]_startupVars

-----------------------------------------------------------------------------
StartupTypeOK ==
    /\ proc \in [Procs -> {"down"} \cup Starting \cup Running]
    /\ step \in [Procs -> 1 .. Migrations + 1]
    /\ table \in BOOLEAN
    /\ applied \subseteq Versions
    /\ recorded \subseteq Versions
    /\ outages \in 0 .. MaxOutages

(* Migrate's contract, whoever else runs it and wherever a process dies     *)
(* between applying and recording: the recorded migrations are applied,     *)
(* both are the first ones in lexical order, and at most one migration is   *)
(* applied that is not recorded.                                            *)
MigratedInOrder ==
    \E n \in 0 .. Migrations : /\ recorded = 1 .. n
                               /\ applied \in {1 .. n, 1 .. n + 1}

(* No request meets a schema that lacks a migration: a process that serves, *)
(* or still answers while it drains, runs on the complete schema.           *)
ServesMigrated ==
    (\E p \in Procs : proc[p] \in Running) => recorded = Versions /\ applied = Versions

(* A process never runs ahead of the records: the migrations before its own *)
(* are recorded.                                                            *)
StepsBehind ==
    \A p \in Procs :
        /\ proc[p] \in {"connect", "table"} => step[p] = 1
        /\ proc[p] \in {"check", "apply", "record"} => 1 .. step[p] - 1 \subseteq recorded
        /\ proc[p] \in {"apply", "record"} => step[p] \in Versions
        /\ proc[p] = "record" => step[p] \in applied
        /\ proc[p] \in {"redis"} \cup Running => recorded = Versions

StartupInv == StartupTypeOK /\ MigratedInOrder /\ StepsBehind
=============================================================================
