-------------------------------- MODULE MCKvV2 --------------------------------
(* Small instances of KvV2 for TLC on a mount that keeps two versions: one   *)
(* worker that serves every operation, or two that serve the ones that touch *)
(* version data.                                                             *)
EXTENDS KvV2, TLC

CONSTANTS w1, w2, w3

MCWorkers == {w1, w2, w3}
MCCrews   == {{w1}, {w2, w3}}
MCMay     == w1 :> Ops @@ w2 :> {"write", "undelete", "tune", "purge"}
                       @@ w3 :> {"write", "destroy"}
MCLists   == {{}, {1}, {1, 2}}
MCCas     == {None, 1}
MCTunings == {[cap |-> 1, cas |-> None], [cap |-> None, cas |-> TRUE]}

\* The instance of the disagreement with the documentation: two workers, writes
\* and deletions.
CasCrews == {{w2, w3}}
CasMay   == [w \in MCWorkers |-> {"write", "delete"}]
CasCas   == {None, 0, 1}
==============================================================================
