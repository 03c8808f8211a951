------------------------------ MODULE TokenLife ------------------------------
(***************************************************************************)
(* What the token store promises a client, with every handler atomic: an   *)
(* id is issued once, each accepted request spends one use of a            *)
(* use-limited token, the last use retires it, and a retired id is never   *)
(* live again.  TokenStore implements this when requests run one at a time *)
(* (MCTokenSerial); when they interleave, a use may be lost.               *)
(***************************************************************************)
EXTENDS Naturals

CONSTANTS Tokens,      \* token ids randToken may return
          Limits,      \* num_uses values a token may be created with
          MaxServed    \* accepted requests are counted up to this bound

VARIABLES status,      \* "unborn", "live" or "gone"
          left,        \* uses left of a live token, 0 when unlimited
          served       \* requests accepted with the token

lifeVars == <<status, left, served>>

LifeInit == /\ status = [t \in Tokens |-> "unborn"]
            /\ left   = [t \in Tokens |-> 0]
            /\ served = [t \in Tokens |-> 0]

Counted(n) == IF n < MaxServed THEN n + 1 ELSE MaxServed

Issue(t, n) == /\ status[t] = "unborn"
               /\ status' = [status EXCEPT ![t] = "live"]
               /\ left'   = [left EXCEPT ![t] = n]
               /\ UNCHANGED served

ServeUnlimited(t) == /\ status[t] = "live"
                     /\ left[t] = 0
                     /\ served' = [served EXCEPT ![t] = Counted(@)]
                     /\ UNCHANGED <<status, left>>

ServeLimited(t) == /\ status[t] = "live"
                   /\ left[t] > 0
                   /\ left'   = [left EXCEPT ![t] = @ - 1]
                   /\ status' = [status EXCEPT ![t] = IF left[t] = 1 THEN "gone" ELSE @]
                   /\ served' = [served EXCEPT ![t] = Counted(@)]

Retire(t) == /\ status[t] = "live"
             /\ status' = [status EXCEPT ![t] = "gone"]
             /\ left'   = [left EXCEPT ![t] = 0]
             /\ UNCHANGED served

LifeNext == \E t \in Tokens : \/ \E n \in Limits : Issue(t, n)
                              \/ ServeUnlimited(t)
                              \/ ServeLimited(t)
                              \/ Retire(t)

LifeSpec == LifeInit /\ [][LifeNext]_lifeVars
==============================================================================
