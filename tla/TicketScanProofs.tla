-------------------------- MODULE TicketScanProofs --------------------------
(***************************************************************************)
(* One admission per life of a scan key, for every number of scanners,     *)
(* tickets, scans and faults.                                              *)
(***************************************************************************)
EXTENDS TicketScan, TLAPS

LEMMA GateInit == ScanInit => GateInv
BY ScanAssumption DEF ScanInit, GateInv, ScanTypeOK, Presented

LEMMA GateStep ==
    ASSUME GateInv, [ScanNext]_svars
    PROVE  GateInv'
<1> USE ScanAssumption DEF GateInv, ScanTypeOK, Goto, Fault
<1>1. ASSUME NEW s \in Scanners, NEW k \in Presented, Verify(s, k) PROVE GateInv'
  BY <1>1 DEF Verify
<1>2. ASSUME NEW s \in Scanners, Lookup(s) PROVE GateInv'
  BY <1>2 DEF Lookup
<1>3. ASSUME NEW s \in Scanners, Claim(s) PROVE GateInv'
  <2>1. shown[s] \in Tickets
    BY <1>3 DEF Claim
  <2>2. turned' \subseteq Tickets /\ lost' \subseteq Tickets /\ unheard' \subseteq Tickets /\ faults' \in 0 .. MaxFaults
    BY <1>3, <2>1 DEF Claim
  <2>3. key' \in [Tickets -> BOOLEAN] /\ \A k \in Tickets : key[k] => key'[k]
    BY <1>3, <2>1 DEF Claim
  <2>4. CASE /\ ~key[shown[s]]
             /\ key' = [key EXCEPT ![shown[s]] = TRUE]
             /\ Goto(s, "record")
    BY <1>3, <2>1, <2>2, <2>3, <2>4 DEF Claim
  <2>5. CASE Goto(s, "idle")
    BY <1>3, <2>2, <2>3, <2>5 DEF Claim
  <2> QED
    BY <1>3, <2>4, <2>5 DEF Claim
<1>4. ASSUME NEW s \in Scanners, Record(s) PROVE GateInv'
  <2>1. /\ shown[s] \in Tickets /\ key[shown[s]]
        /\ admitted[shown[s]] <= lapses[shown[s]]
    BY <1>4 DEF Record
  <2>2. \A r \in Scanners : r # s /\ spc[r] = "record" => shown[r] # shown[s]
    BY <1>4 DEF Record
  <2> QED
    BY <1>4, <2>1, <2>2 DEF Record
<1>5. ASSUME NEW s \in Scanners, Crash(s) PROVE GateInv'
  BY <1>5 DEF Crash
<1>6. ASSUME NEW k \in Tickets, ExpireKey(k) PROVE GateInv'
  BY <1>6 DEF ExpireKey
<1>7. CASE UNCHANGED svars
  BY <1>7 DEF svars
<1> QED
  BY <1>1, <1>2, <1>3, <1>4, <1>5, <1>6, <1>7 DEF ScanNext, ScanStep

(* SETNX admits each ticket at most once per life of its key, however many  *)
(* scanners race and whatever fails before or after it: the exactly-once    *)
(* entry of Validator.Validate, up to the expiry of the key.                *)
THEOREM OneAdmission == ScanSpec => []OneAdmissionPerKey
<1>1. GateInv /\ [ScanNext]_svars => GateInv'
  BY GateStep
<1>2. ASSUME GateInv PROVE OneAdmissionPerKey
  <2> SUFFICES ASSUME NEW k \in Tickets PROVE admitted[k] <= 1 + lapses[k]
    BY DEF OneAdmissionPerKey
  <2>1. admitted[k] \in Nat /\ lapses[k] \in Nat
    BY <1>2 DEF GateInv, ScanTypeOK
  <2>2. admitted[k] <= lapses[k] + 1 \/ admitted[k] <= lapses[k] + 0
    BY <1>2 DEF GateInv
  <2> QED
    BY <2>1, <2>2
<1> QED
  BY <1>1, <1>2, GateInit, PTL DEF ScanSpec

-----------------------------------------------------------------------------
(* A claim, once made, stays: an admission, a scan without answer, a reply  *)
(* that was lost, or a scan that is about to become one of the first two.   *)
LEMMA ClaimedStays ==
    ASSUME GateInv, [ScanNext]_svars, NEW k \in Tickets, Claimed(k)
    PROVE  Claimed(k)'
<1> USE ScanAssumption DEF GateInv, ScanTypeOK, Goto, Claimed, Admitting
<1>1. ASSUME NEW s \in Scanners, NEW p \in Presented, Verify(s, p) PROVE Claimed(k)'
  BY <1>1 DEF Verify
<1>2. ASSUME NEW s \in Scanners, Lookup(s) PROVE Claimed(k)'
  BY <1>2 DEF Lookup
<1>3. ASSUME NEW s \in Scanners, Claim(s) PROVE Claimed(k)'
  BY <1>3 DEF Claim
<1>4. ASSUME NEW s \in Scanners, Record(s) PROVE Claimed(k)'
  BY <1>4 DEF Record
<1>5. ASSUME NEW s \in Scanners, Crash(s) PROVE Claimed(k)'
  BY <1>5 DEF Crash
<1>6. ASSUME NEW j \in Tickets, ExpireKey(j) PROVE Claimed(k)'
  BY <1>6 DEF ExpireKey
<1>7. CASE UNCHANGED svars
  BY <1>7 DEF svars
<1> QED
  BY <1>1, <1>2, <1>3, <1>4, <1>5, <1>6, <1>7 DEF ScanNext, ScanStep

(* A key that appears and a rejection that is answered come with a claim:   *)
(* both happen in SETNX only.                                               *)
LEMMA NewlyClaimed ==
    ASSUME ClaimInv, [ScanNext]_svars, NEW k \in Tickets,
           key'[k] \/ k \in turned', ~(key[k] \/ k \in turned)
    PROVE  Claimed(k)'
<1> USE DEF ClaimInv, GateInv, ScanTypeOK
<1>1. PICK s \in Scanners : Claim(s)
  BY DEF ScanNext, ScanStep, Verify, Lookup, Record, Crash, ExpireKey, svars
<1>2. shown[s] = k /\ ~key[k]
  BY <1>1 DEF Claim
<1>3. CASE spc' = [spc EXCEPT ![s] = "record"]
  BY <1>1, <1>2, <1>3 DEF Claimed, Admitting, Claim
<1>4. CASE k \in lost' \cup unheard'
  BY <1>4 DEF Claimed
<1> QED
  BY <1>1, <1>2, <1>3, <1>4 DEF Claim, Goto

LEMMA ClaimStep == ClaimInv /\ [ScanNext]_svars => ClaimInv'
<1> SUFFICES ASSUME ClaimInv, [ScanNext]_svars PROVE ClaimInv'
  OBVIOUS
<1>1. GateInv'
  BY GateStep DEF ClaimInv
<1>2. ASSUME NEW k \in Tickets, key'[k] \/ k \in turned' PROVE Claimed(k)'
  BY <1>2, ClaimedStays, NewlyClaimed DEF ClaimInv
<1> QED
  BY <1>1, <1>2 DEF ClaimInv

(* Validate answers "already scanned" only for a ticket that was admitted   *)
(* or is being admitted, whose winning scan gave no answer, or whose SETNX  *)
(* took effect without its reply: two scans that hear their replies and run *)
(* to their end never both lose, whenever the key expires.                  *)
THEOREM RejectionsJustified == ScanSpec => []TurnedAwayJustified
<1>1. ScanInit => ClaimInv
  BY GateInit DEF ScanInit, ClaimInv
<1>2. ClaimInv => TurnedAwayJustified
  BY DEF ClaimInv, GateInv, ScanTypeOK, TurnedAwayJustified
<1> QED
  BY <1>1, <1>2, ClaimStep, PTL DEF ScanSpec
=============================================================================
