----------------------------- MODULE MCTokenStore -----------------------------
(* Small instances of TokenStore for TLC. *)
EXTENDS TokenStore

CONSTANTS r1, r2, bg

P(uses, ttl, max, ren) == [numUses |-> uses, ttl |-> ttl, maxTTL |-> max,
                           renewable |-> ren]

\* One request at a time, as in a unit test with the revoker stopped:
\* the only worker also runs scanOnce.
SerialMay    == [w \in {r1} |-> Ops]
SerialParams == {P(2, 1, 2, TRUE)}

\* Two requests and the background revoker.  Nobody writes a cubbyhole but wrap:
\* the run's properties are not about its contents.
ConcurrentMay == [w \in {r1, r2, bg} |->
                    CASE w = r1 -> Ops \ {"scan", "write"}
                      [] w = r2 -> {"create", "read", "renew", "revoke",
                                    "leaseRenew", "revokePrefix"}
                      [] w = bg -> {"scan"}]
ConcurrentParams == {P(2, 1, 2, TRUE)}

\* One client that never renews, and the background revoker.
SweepMay == [w \in {r1, bg} |->
               IF w = bg THEN {"scan"}
               ELSE {"create", "read", "revoke", "leaseRevoke", "revokePrefix"}]
SweepParams == {P(2, 1, 0, FALSE), P(0, 1, 0, FALSE)}

\* The instances of the two disagreements with the documentation.
LeakMay    == [w \in {r1} |-> {"create", "read", "write", "scan"}]
LeakParams == {P(2, 1, 0, FALSE)}
UnwrapMay  == [w \in {r1, r2} |-> {"wrap", "unwrap", "unwrapSelf"}]
==============================================================================
