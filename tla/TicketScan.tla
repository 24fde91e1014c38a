----------------------------- MODULE TicketScan -----------------------------
(***************************************************************************)
(* Admission at the door (internal/ticket Validator).  Scanners present    *)
(* tokens concurrently; one SETNX per ticket decides who is admitted, and  *)
(* the ticket row is updated afterwards, best effort.                      *)
(***************************************************************************)
EXTENDS Naturals

CONSTANTS
    Tickets,        \* ticket ids with a row, as named by validly signed tokens
    Unknown,        \* a validly signed id that has no row
    Forged,         \* a token whose signature does not verify
    Scanners,
    Refunded,       \* tickets whose row says refunded
    Environment,    \* what may go wrong: "ttl", "redis", "reply", "db", "crash"
    MaxFaults       \* bound on how often

ASSUME ScanAssumption ==
    /\ Unknown \notin Tickets
    /\ Forged \notin Tickets \cup {Unknown}
    /\ Refunded \subseteq Tickets
    /\ Environment \subseteq {"ttl", "redis", "reply", "db", "crash"}
    /\ MaxFaults \in Nat

VARIABLES
    state,      \* tickets.status
    key,        \* whether the Redis key scan:ticket:<id> exists
    spc,        \* where each scan is
    shown,      \* the token it presents
    admitted,   \* number of "admitted" answers per ticket
    turned,     \* tickets answered "already scanned"
    lost,       \* tickets for which a scan created the key and gave no answer
    unheard,    \* tickets for which a scan created the key and was told it existed
    lapses,     \* expired keys per ticket
    faults

svars == <<state, key, spc, shown, admitted, turned, lost, unheard, lapses, faults>>

Presented == Tickets \cup {Unknown, Forged}

ScanInit ==
    /\ state = [k \in Tickets |-> IF k \in Refunded THEN "refunded" ELSE "valid"]
    /\ key = [k \in Tickets |-> FALSE]
    /\ spc = [s \in Scanners |-> "idle"]
    /\ shown \in [Scanners -> Presented]
    /\ admitted = [k \in Tickets |-> 0]
    /\ turned = {}
    /\ lost = {}
    /\ unheard = {}
    /\ lapses = [k \in Tickets |-> 0]
    /\ faults = 0

Fault(kind) == /\ kind \in Environment
               /\ faults < MaxFaults
               /\ faults' = faults + 1

Goto(s, there) == spc' = [spc EXCEPT ![s] = there]

-----------------------------------------------------------------------------
(* Validate begins: a token that does not verify is answered at once.       *)
Verify(s, k) ==
    /\ spc[s] = "idle"
    /\ shown' = [shown EXCEPT ![s] = k]
    /\ Goto(s, IF k = Forged THEN "idle" ELSE "lookup")
    /\ UNCHANGED <<state, key, admitted, turned, lost, unheard, lapses, faults>>

(* SELECT status: no row, a refunded ticket and an error end the scan; a    *)
(* scanned ticket does not.                                                 *)
Lookup(s) ==
    /\ spc[s] = "lookup"
    /\ \/ /\ Goto(s, IF shown[s] \in Tickets /\ state[shown[s]] # "refunded"
                     THEN "claim" ELSE "idle")
          /\ UNCHANGED faults
       \/ Goto(s, "idle") /\ Fault("db")
    /\ UNCHANGED <<state, key, shown, admitted, turned, lost, unheard, lapses>>

(* Mutant: GET, then SET, instead of SETNX.                                 *)
ClaimNotAtomic(s) ==
    /\ spc[s] = "claim"
    /\ state[shown[s]] # "scanned"
    /\ key' = [key EXCEPT ![shown[s]] = TRUE]
    /\ Goto(s, "record")
    /\ UNCHANGED <<state, shown, admitted, turned, lost, unheard, lapses, faults>>

(* SETNX: won, lost, failed with or without effect, or applied with its     *)
(* reply lost, in which case the client sends it again and is told that the *)
(* key exists.                                                              *)
Claim(s) ==
    /\ spc[s] = "claim"
    /\ \/ /\ ~key[shown[s]]
          /\ key' = [key EXCEPT ![shown[s]] = TRUE]
          /\ Goto(s, "record")
          /\ UNCHANGED <<turned, lost, unheard, faults>>
       \/ /\ key[shown[s]]
          /\ turned' = turned \cup {shown[s]}
          /\ Goto(s, "idle")
          /\ UNCHANGED <<key, lost, unheard, faults>>
       \/ /\ Fault("redis")
          /\ Goto(s, "idle")
          /\ \/ UNCHANGED <<key, lost>>
             \/ /\ ~key[shown[s]]
                /\ key' = [key EXCEPT ![shown[s]] = TRUE]
                /\ lost' = lost \cup {shown[s]}
          /\ UNCHANGED <<turned, unheard>>
       \/ /\ ~key[shown[s]]
          /\ Fault("reply")
          /\ key' = [key EXCEPT ![shown[s]] = TRUE]
          /\ turned' = turned \cup {shown[s]}
          /\ unheard' = unheard \cup {shown[s]}
          /\ Goto(s, "idle")
          /\ UNCHANGED lost
    /\ UNCHANGED <<state, shown, admitted, lapses>>

(* Mutant: an error of the UPDATE fails the scan.                           *)
RecordStrict(s) ==
    /\ spc[s] = "record"
    /\ \/ /\ state' = [state EXCEPT ![shown[s]] = "scanned"]
          /\ admitted' = [admitted EXCEPT ![shown[s]] = @ + 1]
          /\ UNCHANGED faults
       \/ UNCHANGED <<state, admitted>> /\ Fault("db")
    /\ Goto(s, "idle")
    /\ UNCHANGED <<key, shown, turned, lost, unheard, lapses>>

(* UPDATE tickets, errors ignored, and the answer "admitted".               *)
Record(s) ==
    /\ spc[s] = "record"
    /\ \/ state' = [state EXCEPT ![shown[s]] = "scanned"] /\ UNCHANGED faults
       \/ UNCHANGED state /\ Fault("db")
    /\ admitted' = [admitted EXCEPT ![shown[s]] = @ + 1]
    /\ Goto(s, "idle")
    /\ UNCHANGED <<key, shown, turned, lost, unheard, lapses>>

(* The process stops in the middle of the scan.                             *)
Crash(s) ==
    /\ spc[s] # "idle"
    /\ Fault("crash")
    /\ Goto(s, "idle")
    /\ lost' = (IF spc[s] = "record" THEN lost \cup {shown[s]} ELSE lost)
    /\ UNCHANGED <<state, key, shown, admitted, turned, unheard, lapses>>

(* The 24 hours of a scan key end.                                          *)
ExpireKey(k) ==
    /\ key[k]
    /\ \A s \in Scanners : spc[s] = "record" => shown[s] # k    \* a scan takes far less
    /\ Fault("ttl")
    /\ key' = [key EXCEPT ![k] = FALSE]
    /\ lapses' = [lapses EXCEPT ![k] = @ + 1]
    /\ UNCHANGED <<state, spc, shown, admitted, turned, lost, unheard>>

ScanStep(s) == Lookup(s) \/ Claim(s) \/ Record(s)

ScanNext ==
    \/ \E s \in Scanners : ScanStep(s) \/ Crash(s) \/ \E k \in Presented : Verify(s, k)
    \/ \E k \in Tickets : ExpireKey(k)

ScanSpec == ScanInit /\ [][ScanNext]_svars

-----------------------------------------------------------------------------
ScanTypeOK ==
    /\ state \in [Tickets -> {"valid", "scanned", "refunded"}]
    /\ key \in [Tickets -> BOOLEAN]
    /\ spc \in [Scanners -> {"idle", "lookup", "claim", "record"}]
    /\ shown \in [Scanners -> Presented]
    /\ admitted \in [Tickets -> Nat]
    /\ turned \subseteq Tickets
    /\ lost \subseteq Tickets
    /\ unheard \subseteq Tickets
    /\ lapses \in [Tickets -> Nat]
    /\ faults \in 0 .. MaxFaults
    /\ \A s \in Scanners : spc[s] \in {"claim", "record"} => shown[s] \in Tickets

(* One admission per life of a scan key: any number of concurrent and later *)
(* scans, whatever fails, admit a ticket once, and once more only after its *)
(* key has expired.                                                         *)
OneAdmissionPerKey == \A k \in Tickets : admitted[k] <= 1 + lapses[k]

Admitting(k) == admitted[k] >= 1 \/ \E s \in Scanners : spc[s] = "record" /\ shown[s] = k

Claimed(k) == Admitting(k) \/ k \in lost \cup unheard

(* No race is lost by everybody: a ticket is rejected as already scanned    *)
(* only if a scan admitted it or is about to, created the key and stopped   *)
(* or failed before it answered, or created the key without hearing of it;  *)
(* then it is that very scan, sent again by the client, that is rejected.   *)
TurnedAwayJustified == \A k \in turned : Claimed(k)

(* The contract of Validator: a ticket is admitted once across any number   *)
(* of concurrent and later scans.                                           *)
AdmittedOnce == \A k \in Tickets : admitted[k] <= 1

(* Why one key admits once: a scan that has won holds the key, at most one  *)
(* scan per ticket has won, and it has not yet used the admission that the  *)
(* present key stands for.                                                  *)
GateInv ==
    /\ ScanTypeOK
    /\ \A k \in Tickets : admitted[k] <= lapses[k] + (IF key[k] THEN 1 ELSE 0)
    /\ \A s \in Scanners : spc[s] = "record" =>
          key[shown[s]] /\ admitted[shown[s]] <= lapses[shown[s]]
    /\ \A r, s \in Scanners :
          r # s /\ spc[r] = "record" /\ spc[s] = "record" => shown[r] # shown[s]

(* Why rejections are justified: a key is evidence of a claim, and a claim  *)
(* is never forgotten, not even when its scan dies or its key expires.      *)
ClaimInv == GateInv /\ \A k \in Tickets : key[k] \/ k \in turned => Claimed(k)
=============================================================================
