--------------------------- MODULE StartupProofs ---------------------------
(***************************************************************************)
(* The migrations of any number of processes, for any number of migrations *)
(* and any pattern of collisions, failures and restarts.                   *)
(***************************************************************************)
EXTENDS Startup, TLAPS

(* A process at migration s whose predecessors are recorded is at most one  *)
(* migration ahead of the records.                                          *)
LEMMA NextInLine ==
    ASSUME NEW n \in Nat, NEW s \in Nat \ {0}, 1 .. s - 1 \subseteq 1 .. n
    PROVE  s <= n + 1
<1>1. CASE s = 1
  BY <1>1
<1>2. CASE s > 1
  <2>1. s - 1 \in 1 .. s - 1
    BY <1>2
  <2> QED
    BY <2>1
<1> QED
  BY <1>1, <1>2

(* Adding the next migration, or one that is there, keeps an initial segment. *)
LEMMA Extend ==
    ASSUME NEW n \in Nat, NEW s \in Nat \ {0}
    PROVE  /\ s <= n => (1 .. n) \cup {s} = 1 .. n
           /\ s = n + 1 => (1 .. n) \cup {s} = 1 .. n + 1
           /\ s <= n + 1 => (1 .. n + 1) \cup {s} = 1 .. n + 1
OBVIOUS

LEMMA StartupInitInv == StartupInit => StartupInv
<1> SUFFICES ASSUME StartupInit PROVE StartupInv
  OBVIOUS
<1> USE StartupAssumption DEF StartupInit
<1>1. StartupTypeOK
  <2>1. table \in BOOLEAN
    OBVIOUS
  <2>2. step \in [Procs -> 1 .. Migrations + 1] /\ outages \in 0 .. MaxOutages
    OBVIOUS
  <2>3. proc \in [Procs -> {"down"} \cup Starting \cup Running]
    OBVIOUS
  <2> QED
    BY <2>1, <2>2, <2>3 DEF StartupTypeOK
<1>2. MigratedInOrder
  <2>1. {} = 1 .. 0
    OBVIOUS
  <2> QED
    BY <2>1 DEF MigratedInOrder
<1>3. StepsBehind
  BY DEF StepsBehind, Running
<1> QED
  BY <1>1, <1>2, <1>3 DEF StartupInv

-----------------------------------------------------------------------------
(* Applying a migration that is next in line.                               *)
LEMMA ApplyKeeps ==
    ASSUME StartupInv, NEW p \in Procs, proc[p] \in {"apply", "record"},
           applied' = applied \cup {step[p]}, recorded' = recorded
    PROVE  MigratedInOrder' /\ applied' \subseteq Versions
<1> USE StartupAssumption DEF StartupInv, StartupTypeOK, Versions
<1>1. PICK n \in 0 .. Migrations : recorded = 1 .. n /\ applied \in {1 .. n, 1 .. n + 1}
  BY DEF MigratedInOrder
<1>2. step[p] \in Versions /\ 1 .. step[p] - 1 \subseteq 1 .. n
  BY <1>1 DEF StepsBehind
<1>3. step[p] <= n + 1
  BY <1>2, NextInLine
<1>4. applied' \in {1 .. n, 1 .. n + 1}
  <2>1. n \in Nat /\ step[p] \in Nat \ {0}
    BY <1>1, <1>2
  <2>2. CASE applied = 1 .. n /\ step[p] <= n
    BY <2>1, <2>2, Extend
  <2>3. CASE applied = 1 .. n /\ step[p] = n + 1
    BY <2>1, <2>3, Extend
  <2>4. CASE applied = 1 .. n + 1
    BY <1>3, <2>1, <2>4, Extend
  <2> QED
    BY <1>1, <1>3, <2>1, <2>2, <2>3, <2>4
<1> QED
  BY <1>1, <1>2, <1>4 DEF MigratedInOrder

(* Recording a migration that has been applied.                             *)
LEMMA RecordKeeps ==
    ASSUME StartupInv, NEW p \in Procs, proc[p] = "record",
           recorded' = recorded \cup {step[p]}, applied' = applied
    PROVE  MigratedInOrder' /\ recorded' \subseteq Versions
<1> USE StartupAssumption DEF StartupInv, StartupTypeOK, Versions
<1>1. PICK n \in 0 .. Migrations : recorded = 1 .. n /\ applied \in {1 .. n, 1 .. n + 1}
  BY DEF MigratedInOrder
<1>2. step[p] \in Versions /\ 1 .. step[p] - 1 \subseteq 1 .. n /\ step[p] \in applied
  BY <1>1 DEF StepsBehind
<1>3. step[p] <= n + 1
  BY <1>2, NextInLine
<1>4. CASE step[p] <= n
  <2>1. n \in Nat /\ step[p] \in Nat \ {0}
    BY <1>1, <1>2
  <2>2. recorded' = 1 .. n
    BY <1>1, <1>4, <2>1, Extend
  <2> QED
    BY <1>1, <2>2 DEF MigratedInOrder
<1>5. CASE step[p] = n + 1
  <2>1. recorded' = 1 .. n + 1
    BY <1>1, <1>2, <1>5, Extend
  <2>2. n + 1 \notin 1 .. n
    BY <1>1
  <2>3. applied' = 1 .. n + 1
    BY <1>1, <1>2, <1>5, <2>2
  <2>4. n + 1 \in 0 .. Migrations
    BY <1>2, <1>5
  <2> QED
    BY <2>1, <2>3, <2>4, <1>2 DEF MigratedInOrder
<1> QED
  BY <1>3, <1>4, <1>5, <1>2

(* After the last migration every version is recorded.                      *)
LEMMA AllRecorded ==
    ASSUME StartupInv, NEW p \in Procs, proc[p] = "check", step[p] > Migrations
    PROVE  recorded = Versions
<1>1. step[p] = Migrations + 1 /\ 1 .. step[p] - 1 \subseteq recorded /\ recorded \subseteq Versions
  BY StartupAssumption DEF StartupInv, StartupTypeOK, StepsBehind
<1>2. 1 .. Migrations \subseteq recorded
  BY <1>1, StartupAssumption
<1> QED
  BY <1>1, <1>2 DEF Versions

-----------------------------------------------------------------------------
LEMMA StartupTypeStep == StartupInv /\ [StartupNext]_startupVars => StartupTypeOK'
<1> SUFFICES ASSUME StartupInv, [StartupNext]_startupVars PROVE StartupTypeOK'
  OBVIOUS
<1> USE StartupAssumption DEF StartupInv, StartupTypeOK, Starting, Running, schemaVars, At, ProcGoto
<1>0. ASSUME Outage PROVE outages' \in 0 .. MaxOutages
  BY <1>0 DEF Outage
<1>1. ASSUME NEW p \in Procs, Launch(p) \/ Connect(p) \/ Serve(p) \/ Exit(p)
      PROVE  StartupTypeOK'
  <2>1. UNCHANGED <<table, applied, recorded, outages>>
    BY <1>1 DEF Launch, Connect, Serve, Exit
  <2>2. proc' \in [Procs -> {"down"} \cup Starting \cup Running]
    BY <1>1 DEF Launch, Connect, Serve, Exit
  <2>3. step' \in [Procs -> 1 .. Migrations + 1]
    BY <1>1 DEF Launch, Connect, Serve, Exit
  <2> QED
    BY <2>1, <2>2, <2>3
<1>2. ASSUME NEW p \in Procs, CreateTable(p) PROVE StartupTypeOK'
  BY <1>2 DEF CreateTable
<1>3. ASSUME NEW p \in Procs, Check(p) PROVE StartupTypeOK'
  <2>1. step[p] \in recorded => step[p] + 1 \in 1 .. Migrations + 1
    BY DEF Versions
  <2>2. step' \in [Procs -> 1 .. Migrations + 1]
    BY <1>3, <2>1 DEF Check
  <2>3. proc' \in [Procs -> {"down"} \cup Starting \cup Running]
    BY <1>3 DEF Check
  <2> QED
    BY <1>3, <2>2, <2>3 DEF Check
<1>4. ASSUME NEW p \in Procs, Apply(p) PROVE StartupTypeOK'
  <2>1. applied' \subseteq Versions
    BY <1>4, ApplyKeeps DEF Apply
  <2> QED
    BY <1>4, <2>1 DEF Apply
<1>5. ASSUME NEW p \in Procs, Record(p) PROVE StartupTypeOK'
  <2>1. step[p] \in Versions
    BY <1>5 DEF Record, StepsBehind
  <2>2. recorded' \subseteq Versions
    BY <1>5, <2>1 DEF Record
  <2>3. step[p] + 1 \in 1 .. Migrations + 1
    BY <2>1 DEF Versions
  <2>4. step' \in [Procs -> 1 .. Migrations + 1]
    BY <1>5, <2>3 DEF Record
  <2> QED
    BY <1>5, <2>2, <2>4 DEF Record
<1>6. ASSUME NEW p \in Procs, FailToStart(p) PROVE StartupTypeOK'
  <2>1. At(p, "apply") \/ At(p, "record") => step[p] \in Versions
    BY DEF StepsBehind
  <2>2. table' \in BOOLEAN /\ applied' \subseteq Versions /\ recorded' \subseteq Versions
    BY <1>6, <2>1 DEF FailToStart
  <2> QED
    BY <1>0, <1>6, <2>2 DEF FailToStart
<1>7. ASSUME NEW p \in Procs, Terminate(p) \/ Crash(p) PROVE StartupTypeOK'
  BY <1>0, <1>7 DEF Terminate, Crash
<1>8. ASSUME NEW p \in Procs, NEW q \in Procs, Collide(p, q) PROVE StartupTypeOK'
  <2>1. At(p, "apply") => step[p] \in Versions
    BY DEF StepsBehind
  <2>2. table' \in BOOLEAN /\ applied' \subseteq Versions
    BY <1>8, <2>1 DEF Collide
  <2>3. proc' \in [Procs -> {"down"} \cup Starting \cup Running]
    BY <1>8 DEF Collide
  <2> QED
    BY <1>8, <2>2, <2>3 DEF Collide
<1>9. CASE UNCHANGED startupVars
  BY <1>9 DEF startupVars
<1> QED
  BY <1>1, <1>2, <1>3, <1>4, <1>5, <1>6, <1>7, <1>8, <1>9 DEF StartupNext, StartStep

LEMMA InOrderStep == StartupInv /\ [StartupNext]_startupVars => MigratedInOrder'
<1> SUFFICES ASSUME StartupInv, [StartupNext]_startupVars PROVE MigratedInOrder'
  OBVIOUS
<1>1. ASSUME UNCHANGED <<applied, recorded>> PROVE MigratedInOrder'
  BY <1>1 DEF StartupInv, MigratedInOrder
<1>2. ASSUME NEW p \in Procs, Apply(p) PROVE MigratedInOrder'
  BY <1>2, ApplyKeeps DEF Apply, At
<1>3. ASSUME NEW p \in Procs, Record(p) PROVE MigratedInOrder'
  BY <1>1, <1>3, RecordKeeps DEF Record, At
<1>4. ASSUME NEW p \in Procs, FailToStart(p) PROVE MigratedInOrder'
  <2>1. CASE UNCHANGED schemaVars
    BY <1>1, <2>1 DEF schemaVars
  <2>2. CASE At(p, "table") /\ UNCHANGED <<applied, recorded>>
    BY <1>1, <2>2
  <2>3. CASE At(p, "apply") /\ applied' = applied \cup {step[p]} /\ UNCHANGED <<table, recorded>>
    BY <2>3, ApplyKeeps DEF At
  <2>4. CASE At(p, "record") /\ recorded' = recorded \cup {step[p]} /\ UNCHANGED <<table, applied>>
    BY <2>4, RecordKeeps DEF At
  <2> QED
    BY <1>4, <2>1, <2>2, <2>3, <2>4 DEF FailToStart
<1>5. ASSUME NEW p \in Procs, NEW q \in Procs, Collide(p, q) PROVE MigratedInOrder'
  BY <1>1, <1>5, ApplyKeeps DEF Collide, At
<1>6. ASSUME NEW p \in Procs,
             \/ Launch(p) \/ Connect(p) \/ CreateTable(p) \/ Check(p) \/ Serve(p)
             \/ Terminate(p) \/ Exit(p) \/ Crash(p)
      PROVE  UNCHANGED <<applied, recorded>>
  BY <1>6 DEF Launch, Connect, CreateTable, Check, Serve, Terminate, Exit, Crash, schemaVars
<1>7. CASE UNCHANGED startupVars
  BY <1>1, <1>7 DEF startupVars, schemaVars
<1> QED
  BY <1>1, <1>2, <1>3, <1>4, <1>5, <1>6, <1>7 DEF StartupNext, StartStep

(* What StepsBehind says of one process.                                    *)
Behind(p) ==
    /\ proc[p] \in {"connect", "table"} => step[p] = 1
    /\ proc[p] \in {"check", "apply", "record"} => 1 .. step[p] - 1 \subseteq recorded
    /\ proc[p] \in {"apply", "record"} => step[p] \in Versions
    /\ proc[p] = "record" => step[p] \in applied
    /\ proc[p] \in {"redis"} \cup Running => recorded = Versions

(* It survives the steps of others, because both tables only grow.          *)
LEMMA OthersStayBehind ==
    ASSUME StartupTypeOK', NEW r \in Procs, Behind(r), proc'[r] = proc[r], step'[r] = step[r],
           recorded \subseteq recorded', applied \subseteq applied'
    PROVE  Behind(r)'
BY DEF Behind, StartupTypeOK

LEMMA BehindStep == StartupInv /\ [StartupNext]_startupVars => StepsBehind'
<1> SUFFICES ASSUME StartupInv, [StartupNext]_startupVars PROVE StepsBehind'
  OBVIOUS
<1> USE DEF At, ProcGoto, schemaVars, Running
<1>1. StartupTypeOK /\ StartupTypeOK' /\ \A r \in Procs : Behind(r)
  BY StartupTypeStep DEF StartupInv, StepsBehind, Behind
<1>2. recorded \subseteq recorded' /\ applied \subseteq applied'
  BY DEF StartupNext, StartStep, Launch, Connect, CreateTable, Check, Apply, Record, Serve,
     FailToStart, Terminate, Exit, Crash, Collide, startupVars
<1>3. ASSUME NEW p \in Procs, Behind(p)',
             \A r \in Procs \ {p} : proc'[r] = proc[r] /\ step'[r] = step[r]
      PROVE  StepsBehind'
  <2>1. \A r \in Procs \ {p} : Behind(r)'
    BY <1>1, <1>2, <1>3, OthersStayBehind
  <2> QED
    BY <1>3, <2>1 DEF StepsBehind, Behind
<1> HIDE DEF At, ProcGoto
<1>4. ASSUME NEW p \in Procs, Launch(p) \/ Connect(p) \/ Serve(p) \/ Terminate(p) \/ Exit(p) \/ Crash(p)
      PROVE  StepsBehind'
  <2>1. Behind(p)'
    BY <1>1, <1>4 DEF Launch, Connect, Serve, Terminate, Exit, Crash, At, ProcGoto, Behind,
       StartupTypeOK
  <2>2. \A r \in Procs \ {p} : proc'[r] = proc[r] /\ step'[r] = step[r]
    BY <1>1, <1>4 DEF Launch, Connect, Serve, Terminate, Exit, Crash, ProcGoto, StartupTypeOK
  <2> QED
    BY <1>3, <2>1, <2>2
<1>5. ASSUME NEW p \in Procs, CreateTable(p) PROVE StepsBehind'
  <2>1. \A r \in Procs \ {p} : proc'[r] = proc[r] /\ step'[r] = step[r]
    BY <1>1, <1>5 DEF CreateTable, ProcGoto, StartupTypeOK
  <2>2. proc'[p] = "check" /\ step'[p] = 1
    BY <1>1, <1>5 DEF CreateTable, At, ProcGoto, Behind, StartupTypeOK
  <2>3. 1 .. step'[p] - 1 = {}
    BY <2>2
  <2> QED
    BY <1>3, <2>1, <2>2, <2>3 DEF Behind
<1>6. ASSUME NEW p \in Procs, Check(p) PROVE StepsBehind'
  <2>1. \A r \in Procs \ {p} : proc'[r] = proc[r] /\ step'[r] = step[r]
    BY <1>1, <1>6 DEF Check, ProcGoto, StartupTypeOK
  <2>2. CASE step[p] > Migrations /\ ProcGoto(p, "redis") /\ UNCHANGED step
    <3>1. recorded = Versions
      BY <1>6, <2>2, AllRecorded DEF Check, At
    <3>2. proc'[p] = "redis" /\ recorded' = Versions
      BY <1>1, <1>6, <2>2, <3>1 DEF Check, ProcGoto, StartupTypeOK
    <3> QED
      BY <1>3, <2>1, <3>2 DEF Behind
  <2>3. CASE step[p] \in recorded /\ step' = [step EXCEPT ![p] = @ + 1] /\ UNCHANGED proc
    <3>1. proc'[p] = "check" /\ step'[p] = step[p] + 1 /\ recorded' = recorded
      BY <1>1, <1>6, <2>3 DEF Check, At, StartupTypeOK
    <3>2. step[p] \in Nat \ {0} /\ 1 .. step[p] - 1 \subseteq recorded
      BY <1>1, <1>6 DEF Check, At, StartupTypeOK, Behind
    <3>3. 1 .. step'[p] - 1 \subseteq recorded
      <4>1. \A k \in 1 .. step'[p] - 1 : k \in 1 .. step[p] - 1 \/ k = step[p]
        BY <3>1, <3>2
      <4> QED
        BY <2>3, <3>2, <4>1
    <3> QED
      BY <1>3, <2>1, <3>1, <3>3 DEF Behind
  <2>4. CASE step[p] \in Versions \ recorded /\ ProcGoto(p, "apply") /\ UNCHANGED step
    <3>1. proc'[p] = "apply" /\ step'[p] = step[p] /\ recorded' = recorded
      BY <1>1, <1>6, <2>4 DEF Check, ProcGoto, StartupTypeOK
    <3>2. 1 .. step[p] - 1 \subseteq recorded
      BY <1>1, <1>6 DEF Check, At, Behind
    <3> QED
      BY <1>3, <2>1, <2>4, <3>1, <3>2 DEF Behind
  <2> QED
    BY <1>6, <2>2, <2>3, <2>4 DEF Check
<1>7. ASSUME NEW p \in Procs, Apply(p) PROVE StepsBehind'
  <2>1. \A r \in Procs \ {p} : proc'[r] = proc[r] /\ step'[r] = step[r]
    BY <1>1, <1>7 DEF Apply, ProcGoto, StartupTypeOK
  <2>2. proc'[p] = "record" /\ proc[p] = "apply" /\ step'[p] = step[p] /\ step[p] \in applied'
        /\ recorded' = recorded
    BY <1>1, <1>7 DEF Apply, ProcGoto, At, StartupTypeOK
  <2> QED
    BY <1>1, <1>3, <2>1, <2>2 DEF Behind
<1>8. ASSUME NEW p \in Procs, Record(p) PROVE StepsBehind'
  <2>1. \A r \in Procs \ {p} : proc'[r] = proc[r] /\ step'[r] = step[r]
    BY <1>1, <1>8 DEF Record, ProcGoto, StartupTypeOK
  <2>2. CASE proc'[p] = "down"
    BY <1>3, <2>1, <2>2 DEF Behind
  <2>3. CASE recorded' = recorded \cup {step[p]} /\ step' = [step EXCEPT ![p] = @ + 1]
             /\ ProcGoto(p, "check")
    <3>1. proc'[p] = "check" /\ step'[p] = step[p] + 1
      BY <1>1, <2>3 DEF ProcGoto, StartupTypeOK
    <3>2. step[p] \in Nat \ {0} /\ 1 .. step[p] - 1 \subseteq recorded
      BY <1>1, <1>8 DEF Record, At, StartupTypeOK, Behind
    <3>3. 1 .. step'[p] - 1 \subseteq recorded'
      <4>1. \A k \in 1 .. step'[p] - 1 : k \in 1 .. step[p] - 1 \/ k = step[p]
        BY <3>1, <3>2
      <4> QED
        BY <2>3, <3>2, <4>1
    <3> QED
      BY <1>3, <2>1, <3>1, <3>3 DEF Behind
  <2> QED
    BY <1>1, <1>8, <2>2, <2>3 DEF Record, ProcGoto, StartupTypeOK
<1>9. ASSUME NEW p \in Procs, FailToStart(p) PROVE StepsBehind'
  <2>1. /\ proc'[p] = "down"
        /\ \A r \in Procs \ {p} : proc'[r] = proc[r] /\ step'[r] = step[r]
    BY <1>1, <1>9 DEF FailToStart, ProcGoto, StartupTypeOK
  <2> QED
    BY <1>3, <2>1 DEF Behind
<1>10. ASSUME NEW p \in Procs, NEW q \in Procs, Collide(p, q) PROVE StepsBehind'
  <2>1. /\ p # q /\ proc'[q] = "down" /\ recorded' = recorded /\ step' = step
        /\ \A r \in Procs \ {p, q} : proc'[r] = proc[r] /\ step'[r] = step[r]
    BY <1>1, <1>10 DEF Collide, StartupTypeOK
  <2>2. \A r \in Procs \ {p, q} : Behind(r)'
    BY <1>1, <1>2, <2>1, OthersStayBehind
  <2>3. Behind(q)'
    BY <2>1 DEF Behind
  <2>4. CASE At(p, "table") /\ proc' = [proc EXCEPT ![p] = "check", ![q] = "down"]
    <3>1. proc'[p] = "check" /\ step'[p] = 1
      BY <1>1, <2>1, <2>4 DEF At, Behind, StartupTypeOK
    <3>2. 1 .. step'[p] - 1 = {}
      BY <3>1
    <3>3. Behind(p)'
      BY <3>1, <3>2 DEF Behind
    <3> QED
      BY <2>2, <2>3, <3>3 DEF StepsBehind, Behind
  <2>5. CASE At(p, "apply") /\ applied' = applied \cup {step[p]}
             /\ proc' = [proc EXCEPT ![p] = "record", ![q] = "down"]
    <3>1. proc[p] = "apply" /\ proc'[p] = "record" /\ step'[p] = step[p] /\ step[p] \in applied'
      BY <1>1, <2>1, <2>5 DEF At, StartupTypeOK
    <3>2. Behind(p)'
      BY <1>1, <2>1, <3>1 DEF Behind
    <3> QED
      BY <2>2, <2>3, <3>2 DEF StepsBehind, Behind
  <2> QED
    BY <1>10, <2>4, <2>5 DEF Collide
<1>11. CASE UNCHANGED startupVars
  BY <1>1, <1>11 DEF startupVars, Behind, StepsBehind
<1> QED
  BY <1>4, <1>5, <1>6, <1>7, <1>8, <1>9, <1>10, <1>11 DEF StartupNext, StartStep

-----------------------------------------------------------------------------
LEMMA StartupInvStep == StartupInv /\ [StartupNext]_startupVars => StartupInv'
BY StartupTypeStep, InOrderStep, BehindStep DEF StartupInv

(* A process that serves has found every migration recorded, and what is    *)
(* recorded is applied.                                                     *)
LEMMA InvServes == StartupInv => ServesMigrated
<1> SUFFICES ASSUME StartupInv, NEW p \in Procs, proc[p] \in Running
             PROVE  recorded = Versions /\ applied = Versions
  BY DEF ServesMigrated
<1>1. recorded = Versions
  BY DEF StartupInv, StepsBehind
<1>2. PICK n \in 0 .. Migrations : recorded = 1 .. n /\ applied \in {1 .. n, 1 .. n + 1}
  BY DEF StartupInv, MigratedInOrder
<1>3. recorded \subseteq applied
  BY <1>2, StartupAssumption
<1> QED
  BY <1>1, <1>3 DEF StartupInv, StartupTypeOK

(* The inductive invariant of the start-up holds: types, the order of the   *)
(* migrations, and every process behind the records.                        *)
THEOREM StartupInvariant == StartupSpec => []StartupInv
BY StartupInitInv, StartupInvStep, PTL DEF StartupSpec

(* Migrate's contract, for any number of processes and migrations.          *)
THEOREM MigrationsInOrder == StartupSpec => []MigratedInOrder
<1>1. StartupInv => MigratedInOrder
  BY DEF StartupInv
<1> QED
  BY <1>1, StartupInvariant, PTL

(* No process serves on an incomplete schema.                               *)
THEOREM ServesOnlyMigrated == StartupSpec => []ServesMigrated
BY InvServes, StartupInvariant, PTL
=============================================================================
