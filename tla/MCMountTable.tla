----------------------------- MODULE MCMountTable -----------------------------
(* A small instance of MountTable for TLC: the cubbyhole's path, one nested in *)
(* it, one beside it, and an auth method.  The path secrets are written to is  *)
(* served by the nested mount, else by whatever is at the cubbyhole's path.    *)
EXTENDS MountTable, TLC

CONSTANTS w1, w2, m1, m2, cubbyhole

MCCub     == <<"cubbyhole">>
MCNames   == {"a", "b", "c", "cubbyhole", "token"}
MCToken   == <<"token">>
MCWhere   == [logical |-> {<<"a">>, MCCub, <<"cubbyhole", "b">>},
              auth |-> {<<"a">>, MCToken}]
MCAsked   == [logical |-> {<<"cubbyhole", "b">>}, auth |-> {<<"a", "c">>}]

\* A new mount's id is any unused one.
Symmetry == Permutations({m1, m2}) \cup Permutations({w1, w2})
==============================================================================
