--------------------------- MODULE MCSealLifecycle ---------------------------
(* Values for checking SealLifecycle: one valid way to split the root key,  *)
(* two of two shares, and one that Config.Validate refuses.                 *)
EXTENDS SealLifecycle, TLC

CONSTANTS w1, w2, g1, g2

MCWorkers == {w1, w2}
MCMay     == w1 :> {"auto", "init", "seal", "audit", "write"}
             @@ w2 :> {"unseal", "reset", "seal"}
MCLoops   == {g1, g2}
MCParams  == {[n |-> 2, t |-> 2], [n |-> 2, t |-> 1]}

BothSeals == {"shamir", "transit"}
Shamir    == {"shamir"}
==============================================================================
