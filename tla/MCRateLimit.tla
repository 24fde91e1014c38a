---------------------------- MODULE MCRateLimit -----------------------------
EXTENDS RateLimit, TLC

CONSTANTS ip1, u1, r1, r2, r3

(* Three requests from one address, one of them authenticated.              *)
MCKeysOf == (r1 :> <<ip1, u1>>) @@ (r2 :> <<ip1>>) @@ (r3 :> <<ip1>>)
MCSymmetry == Permutations({r2, r3})
=============================================================================
