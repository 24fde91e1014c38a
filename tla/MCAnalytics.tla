---------------------------- MODULE MCAnalytics -----------------------------
(* Three purchases of one event whose events may arrive in any order: the   *)
(* second was committed first, and the third well after the others.         *)
EXTENDS Analytics

CONSTANTS p1, p2, p3

MCPurchases == {p1, p2, p3}
MCOccurredAt == [p \in MCPurchases |-> CASE p = p1 -> 2 [] p = p2 -> 1 [] p = p3 -> 4]
=============================================================================
