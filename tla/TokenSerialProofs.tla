-------------------------- MODULE TokenSerialProofs --------------------------
(***************************************************************************)
(* What TokenStore guarantees for any number of tokens and any parameters  *)
(* when requests run one at a time: it implements TokenLife and reveals a  *)
(* wrapped payload once, across crashes, and its records agree between     *)
(* requests, without.  Last, with any number of requests at once: when a   *)
(* revocation is final.                                                    *)
(***************************************************************************)
EXTENDS TokenStoreProofs

\* At most one goroutine issues barrier operations.
OneAtATime == \A v, w \in Workers : v = w

Revoking == {"rv_get", "rv_acc", "rv_tok"}
Limits   == {p.numUses : p \in Params} \cup {0}

\* The copy a worker holds is the stored entry, and a token it is about to
\* store was never stored: nobody else writes between its read and its write.
CopyOf(w) ==
  /\ pc[w] = "use_put" => /\ tok[tgt[w]] # None /\ tok[tgt[w]].numUses > 1
                          /\ te[w] = Spend(tok[tgt[w]])
  /\ pc[w] = "rn_put"  => /\ tok[tgt[w]] # None
                          /\ te[w].numUses = tok[tgt[w]].numUses
  /\ pc[w] = "mk_tok"  => /\ tok[tgt[w]] = None /\ tgt[w] \notin dead
                          /\ te[w].numUses \in Limits

\* use() is inside a revoke only for an expired token or for its last use.
RetOf(w) ==
  /\ ret[w] # "purge" => pc[w] \in Revoking
  /\ ret[w] = "serve" => tok[tgt[w]] # None /\ tok[tgt[w]].numUses = 1

\* An id nobody minted has no record, and a revoked id never gets one again.
GoneInv ==
  /\ \A t \in Tokens : minted[t] = None => tok[t] = None /\ t \notin dead
  /\ \A t \in dead : tok[t] = None

SerialInv == GoneInv /\ \A w \in Workers : CopyOf(w) /\ RetOf(w)

\* Accepted requests are counted up to the bound.
CountInv == \A t \in Tokens : served[t] <= MaxServed

------------------------------------------------------------------------------
(* How a worker comes to hold a copy, and to be inside use()'s revoke. *)

WayTo(w) ==
  /\ pc'[w] = "use_put" =>
       /\ tgt'[w] = tgt[w] /\ tok' = tok
       /\ tok[tgt[w]] # None /\ tok[tgt[w]].numUses > 1
       /\ te'[w] = Spend(tok[tgt[w]])
  /\ pc'[w] = "rn_put" =>
       /\ tgt'[w] = tgt[w] /\ tok' = tok
       /\ tok[tgt[w]] # None /\ tok[tgt[w]].expire # 0
       /\ \E inc \in Incs : te'[w] = Renewed(tok[tgt[w]], inc)
  /\ pc'[w] = "mk_tok" =>
       /\ tgt'[w] \in Tokens /\ minted[tgt'[w]] = None
       /\ te'[w].numUses \in Limits
       /\ tok' = tok /\ dead' = dead

RetWay(w) ==
  /\ ret'[w] # "purge" => pc'[w] \in Revoking
  /\ ret'[w] = "serve" =>
       /\ tgt'[w] = tgt[w] /\ tok' = tok
       /\ \/ ret[w] = "serve"
          \/ tok[tgt[w]] # None /\ tok[tgt[w]].numUses = 1

LEMMA MintLimits ==
  /\ WrapEntry.numUses \in Limits
  /\ \A p \in Params : NewEntry(p, FALSE).numUses \in Limits
  BY DEF WrapEntry, NewEntry, Limits

LEMMA WayArrive ==
  ASSUME TypeOK, NEW w \in Workers, Arrive(w)
  PROVE  WayTo(w)
<1> USE DEF TypeOK, LocalOK, WayTo, Begin, Goto, store, hist
<1>1. CASE BeginSelf(w)
  BY <1>1 DEF BeginSelf
<1>2. CASE BeginAdmin(w)
  BY <1>2, FirstLabels DEF BeginAdmin, Writing, Minting
<1>3. CASE BeginLease(w) \/ BeginBulk(w)
  BY <1>3 DEF BeginLease, BeginBulk
<1>4. CASE BeginMint(w)
  <2>1. PICK o \in MintOps, t \in Tokens :
           \E e \in {WrapEntry} \cup {NewEntry(p, FALSE) : p \in Params} :
             /\ Begin(w, o, t, "mk_tok")
             /\ te' = [te EXCEPT ![w] = e]
             /\ Mint(t, e)
    BY <1>4 DEF BeginMint
  <2>2. \A e \in {WrapEntry} \cup {NewEntry(p, FALSE) : p \in Params} : e.numUses \in Limits
    BY MintLimits
  <2> QED BY <2>1, <2>2 DEF Mint
<1> QED BY <1>1, <1>2, <1>3, <1>4 DEF Arrive

LEMMA WayStep ==
  ASSUME TypeOK, NEW w \in Workers, Step(w)
  PROVE  WayTo(w)
<1> USE DEF TypeOK, LocalOK, WayTo, Goto, Keep, On, Finish,
            store, hist
<1>1. CASE Use(w)
  BY <1>1, FirstLabels DEF Use, RevokeInUse, Serve, Writing, Minting
<1>2. CASE UsePut(w)
  BY <1>2, FirstLabels DEF UsePut, Serve, Writing, Minting
<1>3. CASE RvServe(w)
  BY <1>3, FirstLabels DEF RvServe, DeleteToken, Writing, Minting
<1>4. CASE RvGet(w) \/ RvAcc(w) \/ RvReject(w) \/ RvPurge(w) \/ AcGet(w)
  BY <1>4 DEF RvGet, RvAcc, RvReject, RvPurge, DeleteToken, AcGet
<1>5. CASE Purge(w)
  BY <1>5, MintEntryType, MintLimits DEF Purge, Mint
<1>6. CASE Lock(w) \/ Pick(w) \/ RmLease(w)
  BY <1>6 DEF Lock, Pick, ScanLease, Visit, RmLease, NextLease
<1>7. CASE RnGet(w)
  BY <1>7 DEF RnGet
<1>8. CASE RnPut(w) \/ RnLease(w)
  BY <1>8 DEF RnPut, RnLease
<1>9. CASE MkTok(w) \/ MkAcc(w) \/ MkLease(w) \/ MkCub(w)
  BY <1>9 DEF MkTok, MkAcc, MkLease, MkCub, Deliver
<1>10. CASE CbPut(w) \/ UnGet(w) \/ UnRead(w) \/ RwRead(w)
  BY <1>10 DEF CbPut, UnGet, UnRead, RwRead, ReadPayload
<1> QED BY <1>1, <1>2, <1>3, <1>4, <1>5, <1>6, <1>7, <1>8, <1>9, <1>10 DEF Step

LEMMA RetArrive ==
  ASSUME TypeOK, NEW w \in Workers, RetOf(w), Arrive(w)
  PROVE  RetWay(w)
<1> USE DEF TypeOK, LocalOK, RetWay, RetOf, Revoking, Begin, Goto, store, hist
<1>1. CASE BeginSelf(w)
  BY <1>1 DEF BeginSelf
<1>2. CASE BeginAdmin(w)
  BY <1>2, FirstLabels DEF BeginAdmin, Writing, Minting
<1>3. CASE BeginLease(w) \/ BeginBulk(w)
  BY <1>3 DEF BeginLease, BeginBulk
<1>4. CASE BeginMint(w)
  BY <1>4, MintStep
<1> QED BY <1>1, <1>2, <1>3, <1>4 DEF Arrive

LEMMA RetStep ==
  ASSUME TypeOK, NEW w \in Workers, RetOf(w), Step(w)
  PROVE  RetWay(w)
<1> USE DEF TypeOK, LocalOK, RetWay, RetOf, Revoking, Goto, Keep, On, Finish,
            store, hist
<1>1. CASE Use(w)
  BY <1>1, FirstLabels DEF Use, RevokeInUse, Serve, Writing, Minting
<1>2. CASE UsePut(w)
  BY <1>2, FirstLabels DEF UsePut, Serve, Writing, Minting
<1>3. CASE RvServe(w)
  BY <1>3, FirstLabels DEF RvServe, DeleteToken, Writing, Minting
<1>4. CASE RvGet(w) \/ RvAcc(w) \/ RvReject(w) \/ RvPurge(w) \/ AcGet(w)
  BY <1>4 DEF RvGet, RvAcc, RvReject, RvPurge, DeleteToken, AcGet
<1>5. CASE Purge(w)
  BY <1>5 DEF Purge, Mint
<1>6. CASE Lock(w) \/ Pick(w) \/ RmLease(w)
  BY <1>6 DEF Lock, Pick, ScanLease, Visit, RmLease, NextLease
<1>7. CASE RnGet(w)
  BY <1>7 DEF RnGet
<1>8. CASE RnPut(w) \/ RnLease(w)
  BY <1>8 DEF RnPut, RnLease
<1>9. CASE MkTok(w) \/ MkAcc(w) \/ MkLease(w) \/ MkCub(w)
  BY <1>9 DEF MkTok, MkAcc, MkLease, MkCub, Deliver
<1>10. CASE CbPut(w) \/ UnGet(w) \/ UnRead(w) \/ RwRead(w)
  BY <1>10 DEF CbPut, UnGet, UnRead, RwRead, ReadPayload
<1> QED BY <1>1, <1>2, <1>3, <1>4, <1>5, <1>6, <1>7, <1>8, <1>9, <1>10 DEF Step

\* Spending and renewing leave the rest of an entry alone.
LEMMA RenewedKeepsUses ==
  ASSUME NEW e \in Entry, NEW inc \in Nat
  PROVE  Renewed(e, inc).numUses = e.numUses
  BY DEF Entry, Renewed

LEMMA GoneStep ==
  ASSUME TypeOK, TypeOK', TargetInv, SerialInv, NEW w \in Workers, Arrive(w) \/ Step(w)
  PROVE  GoneInv'
<1>1. Effect(w)
  BY EffectArrive, EffectStep
<1>2. \A t \in Tokens : minted[t] # None => minted'[t] = minted[t]
  BY MintedGrows
<1>3. pc[w] \in Writing \cup {"mk_tok", "rv_tok"} => tgt[w] \in Tokens /\ minted[tgt[w]] # None
  BY DEF TargetInv, Writing
<1>4. pc[w] \in Writing \cup {"mk_tok"} => tgt[w] \notin dead
  BY DEF SerialInv, CopyOf, GoneInv, Writing
<1>5. dead \subseteq Tokens
  BY DEF TypeOK, HistOK
<1>6. \A t \in Tokens : minted'[t] = None => tok'[t] = None /\ t \notin dead'
  BY <1>1, <1>2, <1>3 DEF Effect, TokEffect, SerialInv, GoneInv, TypeOK, StoreOK
<1>7. \A t \in dead' : tok'[t] = None
  BY <1>1, <1>3, <1>4, <1>5 DEF Effect, TokEffect, SerialInv, GoneInv, TypeOK, StoreOK
<1> QED BY <1>6, <1>7 DEF GoneInv

LEMMA SerialNext ==
  ASSUME IInv, IInv', OneAtATime, SerialInv, [Next \/ Crash]_vars
  PROVE  SerialInv'
<1>1. CASE Tick \/ UNCHANGED vars
  BY <1>1 DEF Tick, vars, local, hist, store, SerialInv, GoneInv, CopyOf, RetOf
<1>2. CASE Crash
  BY <1>2 DEF Crash, hist, store, SerialInv, GoneInv, CopyOf, RetOf
<1>3. ASSUME NEW w \in Workers, Arrive(w) \/ Step(w)
      PROVE  SerialInv'
  <2> USE DEF IInv
  <2>1. GoneInv'
    BY <1>3, GoneStep
  <2>2. WayTo(w) /\ RetWay(w)
    BY <1>3, WayArrive, WayStep, RetArrive, RetStep DEF SerialInv
  <2>3. pc'[w] = "rn_put" => te'[w].numUses = tok[tgt[w]].numUses
    <3>1. pc'[w] = "rn_put" => tgt[w] \in Tokens
      BY <2>2 DEF WayTo, TargetInv
    <3> QED BY <2>2, <3>1, RenewedKeepsUses, IncsAssumption DEF WayTo, TypeOK, StoreOK
  <2>4. CopyOf(w)'
    BY <2>2, <2>3 DEF WayTo, CopyOf, SerialInv, GoneInv
  <2>5. RetOf(w)'
    BY <2>2 DEF RetWay, RetOf, SerialInv
  <2> QED BY <2>1, <2>4, <2>5 DEF SerialInv, OneAtATime
<1> QED BY <1>1, <1>2, <1>3 DEF Next

------------------------------------------------------------------------------
(* The steps of TokenLife, each from what a barrier operation does to the   *)
(* stored entry, to the set of revoked ids and to the count of requests.    *)

Status == [t \in Tokens |-> IF tok[t] # None THEN "live"
                            ELSE IF t \in dead THEN "gone" ELSE "unborn"]
Left   == [t \in Tokens |-> IF tok[t] # None THEN tok[t].numUses ELSE 0]

CountOne(t) ==
  served' = [served EXCEPT ![t] = IF @ < MaxServed THEN @ + 1 ELSE @]

LEMMA LifeCounted ==
  ASSUME TypeOK, CountInv, NEW t \in Tokens, CountOne(t)
  PROVE  served' = [served EXCEPT ![t] = Life!Counted(@)]
<1>1. served[t] \in Nat /\ served[t] <= MaxServed
  BY DEF CountInv, TypeOK, HistOK
<1>2. (IF served[t] < MaxServed THEN served[t] + 1 ELSE served[t]) = Life!Counted(served[t])
  BY <1>1, BoundsAssumption DEF Life!Counted
<1> QED BY <1>2 DEF CountOne

LEMMA LifeStutter ==
  ASSUME UNCHANGED <<tok, dead, served>>
  PROVE  UNCHANGED Life!lifeVars
  BY DEF Life!lifeVars

\* A renewal changes nothing TokenLife speaks of.
LEMMA LifeRenew ==
  ASSUME TypeOK, NEW t \in Tokens, NEW e \in Entry, tok[t] # None,
         e.numUses = tok[t].numUses,
         tok' = [tok EXCEPT ![t] = e], UNCHANGED <<dead, served>>
  PROVE  UNCHANGED Life!lifeVars
  BY NoneAssumption DEF Life!lifeVars, TypeOK, StoreOK

LEMMA LifeIssue ==
  ASSUME TypeOK, NEW t \in Tokens, NEW e \in Entry, e.numUses \in Limits,
         tok[t] = None, t \notin dead,
         tok' = [tok EXCEPT ![t] = e], UNCHANGED <<dead, served>>
  PROVE  Life!LifeNext
<1>1. Life!Issue(t, e.numUses)
  BY NoneAssumption DEF Life!Issue, TypeOK, StoreOK
<1> QED BY <1>1 DEF Life!LifeNext, Limits

LEMMA LifeUnlimited ==
  ASSUME TypeOK, CountInv, NEW t \in Tokens, tok[t] # None, tok[t].numUses = 0,
         UNCHANGED <<tok, dead>>, CountOne(t)
  PROVE  Life!LifeNext
<1>1. served' = [served EXCEPT ![t] = Life!Counted(@)]
  BY LifeCounted
<1>2. Life!ServeUnlimited(t)
  BY <1>1 DEF Life!ServeUnlimited
<1> QED BY <1>2 DEF Life!LifeNext

LEMMA LifeSpend ==
  ASSUME TypeOK, CountInv, NEW t \in Tokens, tok[t] # None, tok[t].numUses > 1,
         tok' = [tok EXCEPT ![t] = Spend(tok[t])], dead' = dead, CountOne(t)
  PROVE  Life!LifeNext
<1>1. served' = [served EXCEPT ![t] = Life!Counted(@)]
  BY LifeCounted
<1>2. Spend(tok[t]) \in Entry /\ Spend(tok[t]).numUses = tok[t].numUses - 1
  BY DEF TypeOK, StoreOK, Entry, Spend
<1>3. /\ Status' = Status
      /\ Left' = [Left EXCEPT ![t] = Left[t] - 1]
      /\ Status[t] = "live" /\ Left[t] > 1
  BY <1>2, NoneAssumption DEF Status, Left, TypeOK, StoreOK
<1>4. Left[t] \in Nat
  BY DEF Left, TypeOK, StoreOK, Entry
<1>5. Life!ServeLimited(t)
  BY <1>1, <1>3, <1>4 DEF Life!ServeLimited, Status, Left
<1> QED BY <1>5 DEF Life!LifeNext

LEMMA LifeLast ==
  ASSUME TypeOK, CountInv, NEW t \in Tokens, tok[t] # None, tok[t].numUses = 1,
         tok' = [tok EXCEPT ![t] = None], dead' = dead \cup {t}, CountOne(t)
  PROVE  Life!LifeNext
<1>1. served' = [served EXCEPT ![t] = Life!Counted(@)]
  BY LifeCounted
<1>2. /\ Status' = [Status EXCEPT ![t] = "gone"]
      /\ Left' = [Left EXCEPT ![t] = 0]
      /\ Status[t] = "live" /\ Left[t] = 1
  BY DEF Status, Left, TypeOK, StoreOK
<1>3. /\ Status' = [Status EXCEPT ![t] = IF Left[t] = 1 THEN "gone" ELSE @]
      /\ Left' = [Left EXCEPT ![t] = @ - 1]
  BY <1>2
<1>4. Life!ServeLimited(t)
  BY <1>1, <1>2, <1>3 DEF Life!ServeLimited, Status, Left
<1> QED BY <1>4 DEF Life!LifeNext

\* Revoking a token that is gone already changes nothing.
LEMMA LifeRetire ==
  ASSUME TypeOK, NEW t \in Tokens, Settled(t),
         tok' = [tok EXCEPT ![t] = None], dead' = dead \cup {t}, served' = served
  PROVE  Life!LifeNext \/ UNCHANGED Life!lifeVars
<1>1. CASE tok[t] # None
  <2>1. Life!Retire(t)
    BY <1>1 DEF Life!Retire, TypeOK, StoreOK
  <2> QED BY <2>1 DEF Life!LifeNext
<1>2. CASE tok[t] = None
  BY <1>2 DEF Settled, Life!lifeVars, TypeOK, StoreOK
<1> QED BY <1>1, <1>2

LEMMA LifeInitially == Init => Life!LifeInit /\ SerialInv /\ CountInv
  BY NoneAssumption, BoundsAssumption
  DEF Init, Life!LifeInit, SerialInv, GoneInv, CopyOf, RetOf, CountInv

\* What a barrier operation may do to token t as TokenLife knows it: count a
\* request, with or without spending a use, revoke, renew or create it.
Unlimited(t) == /\ tok[t] # None /\ tok[t].numUses = 0
                /\ UNCHANGED <<tok, dead>> /\ CountOne(t)

SpendOne(t)  == /\ tok[t] # None /\ tok[t].numUses > 1
                /\ tok' = [tok EXCEPT ![t] = Spend(tok[t])]
                /\ dead' = dead /\ CountOne(t)

SpendLast(t) == /\ tok[t] # None /\ tok[t].numUses = 1
                /\ tok' = [tok EXCEPT ![t] = None]
                /\ dead' = dead \cup {t} /\ CountOne(t)

Revoked(t)   == /\ Settled(t)
                /\ tok' = [tok EXCEPT ![t] = None]
                /\ dead' = dead \cup {t} /\ served' = served

Prolonged(t) == \E e \in Entry : /\ tok[t] # None /\ e.numUses = tok[t].numUses
                                 /\ tok' = [tok EXCEPT ![t] = e]
                                 /\ UNCHANGED <<dead, served>>

Created(t)   == /\ tok[t] = None /\ t \notin dead
                /\ minted[t] \in Entry /\ minted[t].numUses \in Limits
                /\ tok' = [tok EXCEPT ![t] = minted[t]]
                /\ UNCHANGED <<dead, served>>

LEMMA Outcome ==
  ASSUME IInv, SerialInv, NEW w \in Workers, Arrive(w) \/ Step(w)
  PROVE  \/ UNCHANGED <<tok, dead, served>>
         \/ /\ tgt[w] \in Tokens
            /\ \/ Unlimited(tgt[w]) \/ SpendOne(tgt[w]) \/ SpendLast(tgt[w])
               \/ Revoked(tgt[w]) \/ Prolonged(tgt[w]) \/ Created(tgt[w])
<1> USE DEF IInv
<1>0. pc[w] \notin {"idle", "lock", "pick"} => tgt[w] \in Tokens
  BY DEF TargetInv
<1>1. CASE Arrive(w)
  BY <1>1
  DEF Arrive, BeginSelf, BeginAdmin, BeginLease, BeginBulk, BeginMint, Begin, Mint, store, hist
<1>2. CASE Use(w)
  <2>1. CASE UNCHANGED served
    BY <1>2, <2>1 DEF Use, store, hist, Serve, RevokeInUse
  <2>2. CASE tok[tgt[w]] # None /\ tok[tgt[w]].numUses = 0 /\ Serve(w)
    <3>1. UNCHANGED <<tok, dead>> /\ CountOne(tgt[w])
      BY <1>2, <2>2 DEF Use, Serve, store, CountOne
    <3> QED BY <1>0, <1>2, <2>2, <3>1 DEF Use, Unlimited
  <2> QED BY <1>2, <2>1, <2>2 DEF Use, RevokeInUse, hist
<1>3. CASE UsePut(w)
  <2>1. tgt[w] \in Tokens /\ tok[tgt[w]] # None /\ tok[tgt[w]].numUses > 1
    BY <1>0, <1>3 DEF UsePut, SerialInv, CopyOf
  <2>2. tok' = [tok EXCEPT ![tgt[w]] = Spend(tok[tgt[w]])]
    BY <1>3 DEF UsePut, SerialInv, CopyOf
  <2>3. dead' = dead /\ CountOne(tgt[w])
    BY <1>3 DEF UsePut, Serve, CountOne
  <2> QED BY <2>1, <2>2, <2>3 DEF SpendOne
<1>4. CASE RvServe(w)
  <2>1. tgt[w] \in Tokens /\ tok[tgt[w]] # None /\ tok[tgt[w]].numUses = 1
    BY <1>0, <1>4 DEF RvServe, DeleteToken, SerialInv, RetOf
  <2>2. /\ tok' = [tok EXCEPT ![tgt[w]] = None] /\ dead' = dead \cup {tgt[w]}
        /\ CountOne(tgt[w])
    BY <1>4 DEF RvServe, DeleteToken, CountOne
  <2> QED BY <2>1, <2>2 DEF SpendLast
<1>5. CASE RvReject(w) \/ RvPurge(w)
  <2>1. tgt[w] \in Tokens /\ Settled(tgt[w])
    BY <1>0, <1>5 DEF RvReject, RvPurge, DeleteToken, KeptInv
  <2>2. /\ tok' = [tok EXCEPT ![tgt[w]] = None] /\ dead' = dead \cup {tgt[w]}
        /\ served' = served
    BY <1>5 DEF RvReject, RvPurge, DeleteToken
  <2> QED BY <2>1, <2>2 DEF Revoked
<1>6. CASE RnPut(w)
  <2>1. /\ tgt[w] \in Tokens /\ tok[tgt[w]] # None
        /\ te[w] \in Entry /\ te[w].numUses = tok[tgt[w]].numUses
    BY <1>0, <1>6 DEF RnPut, SerialInv, CopyOf, MintedInv, Writing, TypeOK, LocalOK
  <2>2. tok' = [tok EXCEPT ![tgt[w]] = te[w]] /\ UNCHANGED <<dead, served>>
    BY <1>6 DEF RnPut, hist
  <2> QED BY <2>1, <2>2 DEF Prolonged
<1>7. CASE MkTok(w)
  <2>1. /\ tgt[w] \in Tokens /\ tok[tgt[w]] = None /\ tgt[w] \notin dead
        /\ te[w] \in Entry /\ te[w].numUses \in Limits /\ te[w] = minted[tgt[w]]
    BY <1>0, <1>7 DEF MkTok, SerialInv, CopyOf, MintedInv, Minting, TypeOK, LocalOK
  <2>2. tok' = [tok EXCEPT ![tgt[w]] = te[w]] /\ UNCHANGED <<dead, served>>
    BY <1>7 DEF MkTok, hist
  <2> QED BY <2>1, <2>2 DEF Created
<1>8. CASE \/ RvGet(w) \/ RvAcc(w) \/ AcGet(w) \/ Purge(w)
           \/ Lock(w) \/ Pick(w) \/ RmLease(w) \/ RnGet(w) \/ RnLease(w)
  BY <1>8
  DEF RvGet, RvAcc, AcGet, Purge, Reveal, Mint, Lock, Pick, RmLease, RnGet, RnLease, store, hist
<1>9. CASE \/ MkAcc(w) \/ MkLease(w) \/ MkCub(w)
           \/ CbPut(w) \/ UnGet(w) \/ UnRead(w) \/ RwRead(w)
  BY <1>9
  DEF MkAcc, MkLease, MkCub, Deliver, CbPut, UnGet, UnRead, RwRead, ReadPayload, store, hist
<1> QED BY <1>1, <1>2, <1>3, <1>4, <1>5, <1>6, <1>7, <1>8, <1>9 DEF Step

\* Every arrival and every barrier operation is a step of TokenLife or none.
LEMMA LifeStep ==
  ASSUME IInv, SerialInv, CountInv, NEW w \in Workers, Arrive(w) \/ Step(w)
  PROVE  Life!LifeNext \/ UNCHANGED Life!lifeVars
<1>1. TypeOK
  BY DEF IInv
<1>2. CASE UNCHANGED <<tok, dead, served>>
  BY <1>2, LifeStutter
<1>3. ASSUME NEW t \in Tokens,
             Unlimited(t) \/ SpendOne(t) \/ SpendLast(t)
      PROVE  Life!LifeNext
  BY <1>1, <1>3, LifeUnlimited, LifeSpend, LifeLast DEF Unlimited, SpendOne, SpendLast
<1>4. ASSUME NEW t \in Tokens, Revoked(t) \/ Prolonged(t) \/ Created(t)
      PROVE  Life!LifeNext \/ UNCHANGED Life!lifeVars
  BY <1>1, <1>4, LifeRetire, LifeRenew, LifeIssue DEF Revoked, Prolonged, Created
<1> QED BY <1>2, <1>3, <1>4, Outcome

LEMMA CountNext ==
  ASSUME TypeOK, CountInv, [Next \/ Crash]_vars
  PROVE  CountInv'
<1>1. CASE Tick \/ Crash \/ UNCHANGED vars
  BY <1>1 DEF Tick, Crash, vars, hist, CountInv
<1>2. ASSUME NEW w \in Workers, Arrive(w) \/ Step(w)
      PROVE  CountInv'
  <2>1. CASE served' = served
    BY <2>1 DEF CountInv
  <2>2. CASE CountOne(tgt[w])
    BY <2>2, BoundsAssumption DEF CountOne, CountInv, TypeOK, HistOK
  <2>3. served' = served \/ CountOne(tgt[w])
    <3>1. CASE Arrive(w)
      BY <3>1 DEF Arrive, BeginSelf, BeginAdmin, BeginLease, BeginBulk, BeginMint, Mint, hist
    <3>2. CASE Use(w) \/ UsePut(w) \/ RvServe(w)
      BY <3>2 DEF Use, UsePut, RvServe, Serve, RevokeInUse, CountOne, hist
    <3>3. CASE RvGet(w) \/ RvAcc(w) \/ RvReject(w) \/ RvPurge(w) \/ AcGet(w) \/ Purge(w)
      BY <3>3 DEF RvGet, RvAcc, RvReject, RvPurge, AcGet, Purge, Reveal, Mint, hist
    <3>4. CASE Lock(w) \/ Pick(w) \/ RmLease(w) \/ RnGet(w) \/ RnPut(w) \/ RnLease(w)
      BY <3>4 DEF Lock, Pick, RmLease, RnGet, RnPut, RnLease, hist
    <3>5. CASE MkTok(w) \/ MkAcc(w) \/ MkLease(w) \/ MkCub(w)
      BY <3>5 DEF MkTok, MkAcc, MkLease, MkCub, Deliver, hist
    <3>6. CASE CbPut(w) \/ UnGet(w) \/ UnRead(w) \/ RwRead(w)
      BY <3>6 DEF CbPut, UnGet, UnRead, RwRead, ReadPayload, hist
    <3> QED BY <1>2, <3>1, <3>2, <3>3, <3>4, <3>5, <3>6 DEF Step
  <2> QED BY <2>1, <2>2, <2>3
<1> QED BY <1>1, <1>2 DEF Next

\* One request at a time, and across crashes, every behaviour of the token
\* store is one of TokenLife: an id is issued once, each accepted request
\* spends a use, the last use retires the id and nothing brings it back.
THEOREM RefinesTokenLife ==
  ASSUME OneAtATime
  PROVE  CrashSpec => ImplementsTokenLife
<1>1. Init => Life!LifeInit /\ SerialInv /\ CountInv
  BY LifeInitially
<1>2. IInv /\ IInv' /\ SerialInv /\ [Next \/ Crash]_vars => SerialInv'
  BY SerialNext
<1>3. IInv /\ CountInv /\ [Next \/ Crash]_vars => CountInv'
  BY CountNext DEF IInv
<1>4. IInv /\ SerialInv /\ CountInv /\ [Next \/ Crash]_vars => [Life!LifeNext]_(Life!lifeVars)
  <2> SUFFICES ASSUME IInv, SerialInv, CountInv, [Next \/ Crash]_vars
               PROVE  Life!LifeNext \/ UNCHANGED Life!lifeVars
    OBVIOUS
  <2>1. CASE Tick \/ Crash \/ UNCHANGED vars
    BY <2>1, LifeStutter DEF Tick, Crash, vars, store, hist
  <2> QED BY <2>1, LifeStep DEF Next
<1> QED BY <1>1, <1>2, <1>3, <1>4, Inductive, PTL
        DEF CrashSpec, ImplementsTokenLife, Life!LifeSpec

\* The uses left of a limited token and the requests served with it are within
\* what it was created with; a token not stored yet has served none.
UsesInv == \A t \in Tokens :
  /\ tok[t] # None /\ minted[t].numUses > 0
       => tok[t].numUses > 0 /\ served[t] + tok[t].numUses <= minted[t].numUses
  /\ tok[t] = None /\ t \notin dead => served[t] = 0
  /\ t \in dead /\ minted[t].numUses > 0 => served[t] <= minted[t].numUses

\* A token created for a number of uses serves no more requests than that.
UsesBounded == \A t \in Tokens :
  minted[t] # None /\ minted[t].numUses > 0 => served[t] <= minted[t].numUses

LEMMA UsesNext ==
  ASSUME IInv, IInv', OneAtATime, SerialInv, UsesInv, [Next \/ Crash]_vars
  PROVE  UsesInv'
<1>1. CASE UNCHANGED <<tok, dead, served, minted>>
  BY <1>1 DEF UsesInv
<1>2. ASSUME NEW w \in Workers, Arrive(w) \/ Step(w)
      PROVE  UsesInv'
  <2> SUFFICES ASSUME NEW u \in Tokens
               PROVE  /\ tok'[u] # None /\ minted'[u].numUses > 0
                           => /\ tok'[u].numUses > 0
                              /\ served'[u] + tok'[u].numUses <= minted'[u].numUses
                      /\ tok'[u] = None /\ u \notin dead' => served'[u] = 0
                      /\ u \in dead' /\ minted'[u].numUses > 0
                           => served'[u] <= minted'[u].numUses
    BY DEF UsesInv
  <2>1. minted[u] # None => minted'[u] = minted[u]
    BY <1>2, MintedGrows DEF IInv
  <2>2. minted[u] = None => tok[u] = None /\ u \notin dead
    BY DEF SerialInv, GoneInv
  <2>3. /\ served[u] \in Nat
        /\ tok[u] # None => tok[u].numUses \in Nat
        /\ minted[u] # None => minted[u].numUses \in Nat
    BY DEF IInv, TypeOK, StoreOK, HistOK, Entry
  <2>4. u \in dead => tok[u] = None
    BY DEF SerialInv, GoneInv
  <2>5. CASE tok'[u] = tok[u] /\ served'[u] = served[u] /\ (u \in dead' <=> u \in dead)
    BY <2>1, <2>2, <2>5 DEF UsesInv
  <2>6. CASE u = tgt[w] /\ Unlimited(u)
    <3>1. tok'[u] = tok[u] /\ u \notin dead'
      BY <2>4, <2>6 DEF Unlimited
    <3> QED BY <2>1, <2>2, <2>6, <3>1 DEF Unlimited, UsesInv
  <2>7. CASE u = tgt[w] /\ SpendOne(u)
    <3>1. served'[u] \in {served[u], served[u] + 1}
      BY <2>7 DEF SpendOne, CountOne, IInv, TypeOK, HistOK
    <3>2. tok'[u] = Spend(tok[u]) /\ tok[u] \in Entry /\ u \notin dead'
      BY <2>4, <2>7 DEF SpendOne, IInv, TypeOK, StoreOK
    <3>3. Spend(tok[u]) \in Entry /\ Spend(tok[u]).numUses = tok[u].numUses - 1
      BY <2>7, <3>2 DEF SpendOne, Spend, Entry
    <3>4. tok'[u].numUses = tok[u].numUses - 1 /\ tok'[u] # None
      BY <3>2, <3>3, NoneAssumption
    <3> QED BY <2>1, <2>2, <2>3, <2>7, <3>1, <3>2, <3>4 DEF SpendOne, UsesInv
  <2>8. CASE u = tgt[w] /\ SpendLast(u)
    <3>1. served'[u] \in {served[u], served[u] + 1}
      BY <2>8 DEF SpendLast, CountOne, IInv, TypeOK, HistOK
    <3>2. tok'[u] = None /\ u \in dead'
      BY <2>8 DEF SpendLast, IInv, TypeOK, StoreOK
    <3> QED BY <2>1, <2>2, <2>3, <2>8, <3>1, <3>2 DEF SpendLast, UsesInv
  <2>9. CASE u = tgt[w] /\ Revoked(u)
    <3>1. tok'[u] = None /\ u \in dead' /\ served'[u] = served[u]
      BY <2>9 DEF Revoked, IInv, TypeOK, StoreOK
    <3>2. tok[u] # None \/ u \in dead
      BY <2>9 DEF Revoked, Settled
    <3> QED BY <2>1, <2>2, <2>3, <3>1, <3>2 DEF UsesInv
  <2>10. CASE u = tgt[w] /\ Prolonged(u)
    <3>1. /\ tok[u] # None /\ tok'[u].numUses = tok[u].numUses
          /\ served'[u] = served[u] /\ u \notin dead' /\ tok'[u] # None
      BY <2>4, <2>10, NoneAssumption DEF Prolonged, IInv, TypeOK, StoreOK
    <3> QED BY <2>1, <2>2, <3>1 DEF UsesInv
  <2>11. CASE u = tgt[w] /\ Created(u)
    <3>1. /\ tok'[u] = minted[u] /\ minted[u] # None /\ served'[u] = 0 /\ u \notin dead'
      BY <2>11, NoneAssumption DEF Created, UsesInv, IInv, TypeOK, StoreOK
    <3> QED BY <2>1, <2>3, <3>1
  <2>12. CASE UNCHANGED <<tok, dead, served>>
    BY <2>5, <2>12
  <2>13. ASSUME tgt[w] \in Tokens, u # tgt[w],
                \/ Unlimited(tgt[w]) \/ SpendOne(tgt[w]) \/ SpendLast(tgt[w])
                \/ Revoked(tgt[w]) \/ Prolonged(tgt[w]) \/ Created(tgt[w])
         PROVE  tok'[u] = tok[u] /\ served'[u] = served[u] /\ (u \in dead' <=> u \in dead)
    <3>1. /\ tok'[u] = tok[u] \/ tok' = tok
          /\ served'[u] = served[u] \/ served' = served
          /\ dead' \in {dead, dead \cup {tgt[w]}}
      BY <2>13
      DEF Unlimited, SpendOne, SpendLast, Revoked, Prolonged, Created, CountOne,
          IInv, TypeOK, StoreOK, HistOK
    <3> QED BY <2>13, <3>1
  <2> QED BY <1>2, <2>5, <2>6, <2>7, <2>8, <2>9, <2>10, <2>11, <2>12, <2>13, Outcome
<1> QED BY <1>1, <1>2 DEF Next, Tick, Crash, vars, store, hist

\* One request at a time, and across crashes: a token created for n uses serves
\* n requests and no more, whatever was spent, renewed, revoked or interrupted.
THEOREM UsesSafe ==
  ASSUME OneAtATime
  PROVE  CrashSpec => []UsesBounded
<1>1. Init => SerialInv /\ UsesInv
  BY LifeInitially DEF Init, UsesInv
<1>2. IInv /\ IInv' /\ SerialInv /\ [Next \/ Crash]_vars => SerialInv'
  BY SerialNext
<1>3. IInv /\ IInv' /\ SerialInv /\ UsesInv /\ [Next \/ Crash]_vars => UsesInv'
  BY UsesNext
<1>4. IInv /\ UsesInv => UsesBounded
  <2> SUFFICES ASSUME IInv, UsesInv, NEW t \in Tokens, minted[t] # None,
                      minted[t].numUses > 0
               PROVE  served[t] <= minted[t].numUses
    BY DEF UsesBounded
  <2>1. /\ served[t] \in Nat /\ minted[t].numUses \in Nat
        /\ tok[t] # None => tok[t].numUses \in Nat
    BY DEF IInv, TypeOK, StoreOK, HistOK, Entry
  <2> QED BY <2>1 DEF UsesInv
<1> QED BY <1>1, <1>2, <1>3, <1>4, Inductive, PTL DEF CrashSpec
------------------------------------------------------------------------------
(* One payload, one wrapping token, one answer. *)

Unwraps == {"unwrap", "unwrapSelf", "rewrap"}

Wrapped(t) == minted[t] # None /\ minted[t].wrap

\* Token t's cubbyhole has an entry under "response".
Holds(t) == cub[t] \notin {None, Plain}

\* No unwrap has returned the payload p, and no cubbyhole holds it; or none
\* but that of the token it is named by.
Loose(p) == revealed[p] = 0 /\ \A t \in Tokens : cub[t] # p
Clean(p) == revealed[p] = 0 /\ \A t \in Tokens : cub[t] = p => t = p

\* Two tokens never hold the same payload, one that was returned is held by
\* none, and a token that can still write one has its payload to itself.
PayloadInv ==
  /\ \A t, u \in Tokens : Holds(t) /\ cub[t] = cub[u] => t = u
  /\ \A t \in Tokens : Holds(t) => revealed[cub[t]] = 0 /\ minted[cub[t]] # None
  /\ \A t \in Tokens : minted[t] = None => cub[t] = None /\ revealed[t] = 0
  /\ \A t \in Tokens : tok[t] # None => Wrapped(t) \/ Clean(t)
  /\ UnwrapOnce

\* Between reading a payload and deleting it, the cubbyhole still holds it;
\* a payload about to be stored is held by nobody else.
PayOf(w) ==
  /\ pay[w] # None =>
       /\ minted[pay[w]] # None
       /\ \/ /\ pc[w] \in Revoking \cup {"purge"} /\ op[w] \in Unwraps
             /\ ret[w] = "purge" /\ cub[tgt[w]] = pay[w]
          \/ pc[w] \in Minting /\ op[w] = "rewrap"
  /\ pc[w] \in Revoking \cup {"purge"} /\ op[w] \in Unwraps /\ ret[w] = "purge"
       => pay[w] # None
  /\ pc[w] = "purge" => tok[tgt[w]] = None
  /\ pc[w] \in Minting =>
       /\ op[w] \in MintOps \cup {"rewrap"}
       /\ op[w] = "rewrap" => /\ pay[w] # None /\ Loose(pay[w])
                              /\ Wrapped(pay[w]) \/ tok[pay[w]] = None
       /\ op[w] # "rewrap" => Loose(tgt[w])
       /\ op[w] # "create" => Wrapped(tgt[w])
  /\ pc[w] = "mk_cub" => op[w] \in {"wrap", "rewrap"}
  /\ pc[w] = "cb_put" => op[w] = "write" /\ Clean(tgt[w])
  /\ pc[w] = "ac_get" => op[w] = "revokeAcc"
  /\ pc[w] \in {"un_get", "un_read", "rw_read"} => op[w] \in Unwraps
  /\ pc[w] # "idle" /\ op[w] = "write" => ~Wrapped(tgt[w])
  /\ mu = w => pc[w] # "idle" /\ op[w] \in LeaseOps \cup BulkOps

UnwrapInv == PayloadInv /\ \A w \in Workers : PayOf(w)

\* A request that neither mints nor touches a cubbyhole.
Still == UNCHANGED <<cub, revealed, minted>>

\* A token that is stored was stored before, or is being created.
TokKeeps == \A t \in Tokens : tok'[t] # None => tok[t] # None \/ Wrapped(t) \/ Loose(t)

LEMMA TokKept ==
  ASSUME TypeOK, TargetInv, NEW w \in Workers, CopyOf(w), PayOf(w), Arrive(w) \/ Step(w)
  PROVE  TokKeeps
<1>1. TokEffect(w)
  BY EffectArrive, EffectStep DEF Effect
<1>2. pc[w] \in Writing => tok[tgt[w]] # None
  BY DEF CopyOf, Writing
<1>3. pc[w] = "mk_tok" => Wrapped(tgt[w]) \/ Loose(tgt[w])
  BY DEF PayOf, Minting
<1> QED BY <1>1, <1>2, <1>3 DEF TokEffect, TokKeeps, TypeOK, StoreOK

LEMMA PayloadStill ==
  ASSUME PayloadInv, Still, TokKeeps
  PROVE  PayloadInv'
  BY DEF PayloadInv, Still, TokKeeps, Wrapped, Holds, Loose, Clean, UnwrapOnce

LEMMA FinishPay ==
  ASSUME TypeOK, NEW w \in Workers, Finish(w)
  PROVE  PayOf(w)'
  BY NoneAssumption DEF TypeOK, LocalOK, Finish, Goto, Keep, PayOf, Revoking, Minting

LEMMA PayArrive ==
  ASSUME TypeOK, NEW w \in Workers, PayOf(w), Still, Arrive(w)
  PROVE  PayOf(w)'
<1> USE DEF TypeOK, LocalOK, Still, Begin, Goto, PayOf, Revoking, Minting, Wrapped, Loose, Clean
<1>1. CASE BeginSelf(w)
  BY <1>1 DEF BeginSelf
<1>2. CASE BeginAdmin(w)
  BY <1>2 DEF BeginAdmin, First, AdminOps, Unwraps
<1>3. CASE BeginLease(w)
  BY <1>3 DEF BeginLease, LeaseOps
<1>4. CASE BeginBulk(w)
  BY <1>4 DEF BeginBulk, BulkOps
<1>5. CASE BeginMint(w)
  BY <1>5, NoneAssumption, MintStep DEF Mint, HistOK
<1> QED BY <1>1, <1>2, <1>3, <1>4, <1>5 DEF Arrive

LEMMA PayStep ==
  ASSUME TypeOK, TargetInv, PayloadInv, NEW w \in Workers, CopyOf(w), RetOf(w),
         PayOf(w), Still, Step(w), ~Purge(w)
  PROVE  PayOf(w)'
<1> USE DEF TypeOK, LocalOK, Still, Goto, Keep, On, RetOf, PayOf, Revoking, Minting, Wrapped,
            Loose, Clean
<1>1. CASE Use(w)
  BY <1>1, FinishPay DEF Use, RevokeInUse, Serve, First, SelfOps, Unwraps, PayloadInv, TargetInv
<1>2. CASE UsePut(w)
  BY <1>2, FinishPay DEF UsePut, Serve, First, Unwraps, CopyOf, PayloadInv, TargetInv
<1>3. CASE RvServe(w)
  BY <1>3, FinishPay DEF RvServe, DeleteToken, First, Unwraps, PayloadInv, TargetInv
<1>4. CASE RvGet(w) \/ RvAcc(w) \/ RvReject(w) \/ RvPurge(w) \/ AcGet(w)
  BY <1>4, FinishPay DEF RvGet, RvAcc, RvReject, RvPurge, DeleteToken, AcGet, Unwraps, TargetInv,
                         StoreOK
<1>6. CASE Lock(w) \/ Pick(w) \/ RmLease(w)
  BY <1>6, FinishPay DEF Lock, Pick, ScanLease, Visit, RmLease, NextLease, Unwraps, LeaseOps,
      BulkOps
<1>7. CASE RnGet(w) \/ RnPut(w) \/ RnLease(w)
  BY <1>7, FinishPay DEF RnGet, RnPut, RnLease
<1>5. CASE MkTok(w)
  BY <1>5 DEF MkTok, TargetInv, StoreOK
<1>8. CASE MkAcc(w) \/ MkLease(w) \/ MkCub(w)
  BY <1>8, FinishPay DEF MkAcc, MkLease, MkCub, Deliver
<1>9. CASE CbPut(w) \/ UnGet(w)
  BY <1>9, FinishPay DEF CbPut, UnGet, Unwraps
<1>10. CASE UnRead(w) \/ RwRead(w)
  <2>1. CASE Finish(w)
    BY <2>1, FinishPay
  <2>2. CASE /\ cub[tgt[w]] \notin {None, Plain}
             /\ pay' = [pay EXCEPT ![w] = cub[tgt[w]]]
             /\ Goto(w, "rv_get")
             /\ UNCHANGED <<op, tgt, te, ret, todo, mu>>
    <3>1. tgt[w] \in Tokens /\ minted[cub[tgt[w]]] # None
      BY <1>10, <2>2 DEF UnRead, RwRead, TargetInv, PayloadInv, Holds
    <3>2. op[w] \in Unwraps /\ ret[w] = "purge"
      BY <1>10 DEF UnRead, RwRead
    <3>3. pay'[w] = cub[tgt[w]] /\ pc'[w] = "rv_get"
      BY <2>2
    <3> QED BY <1>10, <2>2, <3>1, <3>2, <3>3 DEF UnRead, RwRead, Unwraps
  <2> QED BY <1>10, <2>1, <2>2 DEF UnRead, RwRead, ReadPayload
<1> QED BY <1>1, <1>2, <1>3, <1>4, <1>5, <1>6, <1>7, <1>8, <1>9, <1>10 DEF Step
\* What the steps that do touch a cubbyhole do to the payloads.
LEMMA PayloadDrop ==
  ASSUME TypeOK, PayloadInv, NEW t \in Tokens, cub' = [cub EXCEPT ![t] = None],
         UNCHANGED <<tok, revealed, minted>>
  PROVE  PayloadInv'
  BY NoneAssumption
  DEF TypeOK, StoreOK, PayloadInv, Wrapped, Holds, Clean, UnwrapOnce

LEMMA PayloadReveal ==
  ASSUME TypeOK, PayloadInv, NEW t \in Tokens, tok[t] = None, Holds(t),
         cub' = [cub EXCEPT ![t] = None], Reveal(cub[t]), UNCHANGED <<tok, minted>>
  PROVE  PayloadInv'
<1> DEFINE p == cub[t]
<1>1. p \in Tokens /\ revealed[p] = 0
  BY DEF TypeOK, StoreOK, PayloadInv, Holds
<1>2. \A x \in Tokens : revealed'[x] = IF x = p THEN 1 ELSE revealed[x]
  BY <1>1 DEF Reveal, TypeOK, HistOK
<1>3. \A x \in Tokens : cub'[x] = IF x = t THEN None ELSE cub[x]
  BY DEF TypeOK, StoreOK
<1>4. \A x \in Tokens : cub[x] \in Tokens \cup {None, Plain}
  BY DEF TypeOK, StoreOK
<1>5. \A x, u \in Tokens : Holds(x)' /\ cub'[x] = cub'[u] => x = u
  BY <1>3 DEF PayloadInv, Holds
<1>6. \A x \in Tokens : Holds(x)' => revealed'[cub'[x]] = 0 /\ minted'[cub'[x]] # None
  BY <1>2, <1>3, <1>4 DEF PayloadInv, Holds
<1>7. \A x \in Tokens : /\ minted'[x] = None => cub'[x] = None /\ revealed'[x] = 0
                        /\ revealed'[x] <= 1
  BY <1>1, <1>2, <1>3 DEF PayloadInv, UnwrapOnce, Holds
<1>8. ASSUME NEW x \in Tokens, tok'[x] # None
      PROVE  Wrapped(x)' \/ Clean(x)'
  <2>1. Wrapped(x) \/ Clean(x)
    BY <1>8 DEF PayloadInv
  <2>2. Clean(x) => x # p
    BY <1>8 DEF Clean
  <2> QED BY <1>2, <1>3, <2>1, <2>2, NoneAssumption DEF Wrapped, Clean
<1> QED BY <1>5, <1>6, <1>7, <1>8 DEF PayloadInv, UnwrapOnce

\* A new id has no cubbyhole yet; other cubbyholes stay or go.
LEMMA PayloadMint ==
  ASSUME TypeOK, PayloadInv, GoneInv, NEW u \in Tokens, NEW e \in Entry, Mint(u, e), tok' = tok,
         \A x \in Tokens : cub'[x] \in {cub[x], None}
  PROVE  PayloadInv'
<1>1. /\ minted[u] = None /\ revealed' = revealed
      /\ \A x \in Tokens : minted'[x] = IF x = u THEN e ELSE minted[x]
  BY DEF Mint, TypeOK, HistOK
<1>2. cub[u] = None /\ cub'[u] = None /\ e # None /\ tok[u] = None
  BY <1>1, NoneAssumption DEF PayloadInv, GoneInv
<1>3. \A x \in Tokens : cub[x] \in Tokens \cup {None, Plain}
  BY DEF TypeOK, StoreOK
<1>4. \A x \in Tokens : Holds(x)' => Holds(x) /\ cub'[x] = cub[x]
  BY DEF Holds
<1>5. \A x \in Tokens : /\ minted'[x] = None => cub'[x] = None /\ revealed'[x] = 0
                        /\ revealed'[x] <= 1
  BY <1>1, <1>2, <1>3 DEF PayloadInv, UnwrapOnce
<1>6. \A x, y \in Tokens : Holds(x)' /\ cub'[x] = cub'[y] => x = y
  <2> SUFFICES ASSUME NEW x \in Tokens, NEW y \in Tokens, Holds(x)', cub'[x] = cub'[y]
               PROVE  x = y
    OBVIOUS
  <2>1. Holds(y)'
    BY DEF Holds
  <2> QED BY <1>4, <2>1 DEF PayloadInv
<1>7. \A x \in Tokens : Holds(x)' => revealed'[cub'[x]] = 0 /\ minted'[cub'[x]] # None
  BY <1>1, <1>2, <1>3, <1>4 DEF PayloadInv, Holds
<1>8. \A x \in Tokens : tok'[x] # None => Wrapped(x)' \/ Clean(x)'
  BY <1>1, <1>2, NoneAssumption DEF PayloadInv, Wrapped, Clean
<1> QED BY <1>5, <1>6, <1>7, <1>8 DEF PayloadInv, UnwrapOnce

\* Storing payload p under t, when at most t holds it; a token it is named by
\* other than t cannot store it any more.
LEMMA PayloadStore ==
  ASSUME TypeOK, PayloadInv, NEW t \in Tokens, NEW p \in Tokens,
         minted[t] # None, minted[p] # None,
         revealed[p] = 0, \A x \in Tokens : cub[x] = p => x = t,
         p = t \/ Wrapped(p) \/ tok[p] = None,
         cub' = [cub EXCEPT ![t] = p], UNCHANGED <<tok, revealed, minted>>
  PROVE  PayloadInv'
<1>1. \A x \in Tokens : cub'[x] = IF x = t THEN p ELSE cub[x]
  BY DEF TypeOK, StoreOK
<1>2. \A x, y \in Tokens : Holds(x)' /\ cub'[x] = cub'[y] => x = y
  BY <1>1 DEF PayloadInv, Holds
<1>3. \A x \in Tokens : Holds(x)' => revealed'[cub'[x]] = 0 /\ minted'[cub'[x]] # None
  BY <1>1 DEF PayloadInv, Holds
<1>4. \A x \in Tokens : /\ minted'[x] = None => cub'[x] = None /\ revealed'[x] = 0
                        /\ revealed'[x] <= 1
  BY <1>1 DEF PayloadInv, UnwrapOnce
<1>5. \A x \in Tokens : tok'[x] # None => Wrapped(x)' \/ Clean(x)'
  BY <1>1 DEF PayloadInv, Wrapped, Clean
<1> QED BY <1>2, <1>3, <1>4, <1>5 DEF PayloadInv, UnwrapOnce

\* A write under another key: nobody's payload moves.
LEMMA PayloadPlain ==
  ASSUME TypeOK, PayloadInv, NEW t \in Tokens, minted[t] # None,
         cub' = [cub EXCEPT ![t] = IF @ = None THEN Plain ELSE @],
         UNCHANGED <<tok, revealed, minted>>
  PROVE  PayloadInv'
<1>1. \A x \in Tokens : cub'[x] = IF x = t /\ cub[x] = None THEN Plain ELSE cub[x]
  BY DEF TypeOK, StoreOK
<1> QED BY <1>1, NoneAssumption DEF PayloadInv, Wrapped, Holds, Clean, UnwrapOnce

LEMMA MintPay ==
  ASSUME TypeOK, PayloadInv, GoneInv, NEW w \in Workers, PayOf(w), BeginMint(w)
  PROVE  PayloadInv' /\ PayOf(w)'
<1>1. PICK o \in MintOps, t \in Tokens, e \in Entry :
         /\ Begin(w, o, t, "mk_tok")
         /\ te' = [te EXCEPT ![w] = e]
         /\ Mint(t, e)
         /\ o = "wrap" => e = WrapEntry
  BY MintEntryType DEF BeginMint
<1>2. UNCHANGED <<cub, tok, revealed>>
  BY <1>1 DEF Begin, store, Mint
<1>3. PayloadInv'
  BY <1>1, <1>2, PayloadMint
<1>4. /\ pc'[w] = "mk_tok" /\ op'[w] = o /\ tgt'[w] = t /\ pay'[w] = None /\ mu' # w
  BY <1>1 DEF Begin, Goto, TypeOK, LocalOK, PayOf, Revoking, Minting
<1>5. revealed[t] = 0 /\ \A x \in Tokens : cub[x] # t
  BY <1>1, NoneAssumption DEF Mint, PayloadInv, Holds
<1>6. o = "wrap" => Wrapped(t)'
  BY <1>1, NoneAssumption DEF Mint, WrapEntry, NewEntry, Wrapped, TypeOK, HistOK
<1> QED BY <1>2, <1>3, <1>4, <1>5, <1>6 DEF PayOf, Revoking, Loose, MintOps

LEMMA PurgePay ==
  ASSUME TypeOK, TargetInv, PayloadInv, GoneInv, NEW w \in Workers, RetOf(w), PayOf(w), Purge(w)
  PROVE  PayloadInv' /\ PayOf(w)'
<1>1. /\ pc[w] = "purge" /\ tgt[w] \in Tokens /\ cub' = [cub EXCEPT ![tgt[w]] = None]
      /\ tok' = tok /\ tok[tgt[w]] = None
  BY DEF Purge, TargetInv, PayOf
<1>2. ret[w] = "purge"
  BY <1>1 DEF RetOf, Revoking
<1>3. CASE mu = w /\ On(w, "rm_lease") /\ UNCHANGED hist
  <2>1. PayloadInv'
    BY <1>1, <1>3, PayloadDrop DEF hist
  <2>2. pay[w] = None
    BY <1>1, <1>3 DEF PayOf, Unwraps, LeaseOps, BulkOps, Minting
  <2> QED BY <1>1, <1>3, <2>1, <2>2
          DEF PayOf, On, Goto, TypeOK, LocalOK, Revoking, Minting, LeaseOps, BulkOps
<1>4. CASE Finish(w) /\ UNCHANGED hist
  BY <1>1, <1>4, PayloadDrop, FinishPay DEF hist
<1>5. op[w] \in Unwraps =>
         /\ cub[tgt[w]] = pay[w] /\ pay[w] \in Tokens /\ Holds(tgt[w])
         /\ minted[pay[w]] # None /\ revealed[pay[w]] = 0
         /\ Wrapped(pay[w]) \/ tok[pay[w]] = None
  <2> SUFFICES ASSUME op[w] \in Unwraps
               PROVE  /\ cub[tgt[w]] = pay[w] /\ pay[w] \in Tokens /\ Holds(tgt[w])
                      /\ minted[pay[w]] # None /\ revealed[pay[w]] = 0
                      /\ Wrapped(pay[w]) \/ tok[pay[w]] = None
    OBVIOUS
  <2>1. cub[tgt[w]] = pay[w] /\ pay[w] \in Tokens /\ Holds(tgt[w])
    BY <1>1, <1>2, NoneAssumption DEF PayOf, Minting, Holds, TypeOK, LocalOK
  <2>2. minted[pay[w]] # None /\ revealed[pay[w]] = 0
    BY <1>1, <2>1 DEF PayloadInv
  <2>3. Clean(pay[w]) => tok[pay[w]] = None
    BY <1>1, <2>1 DEF Clean
  <2> QED BY <2>1, <2>2, <2>3 DEF PayloadInv
<1>6. CASE /\ op[w] \in Unwraps /\ Finish(w) /\ Reveal(pay[w])
           /\ UNCHANGED <<minted, known, dead, served>>
  BY <1>1, <1>5, <1>6, PayloadReveal, FinishPay
<1>7. CASE /\ op[w] = "rewrap" /\ mu # w
           /\ \E t \in Tokens : Mint(t, WrapEntry) /\ Keep(w, t, WrapEntry)
           /\ Goto(w, "mk_tok") /\ UNCHANGED <<op, pay, ret, todo, mu>>
  <2>1. PICK t \in Tokens : Mint(t, WrapEntry) /\ Keep(w, t, WrapEntry)
    BY <1>7
  <2>2. op[w] \in Unwraps /\ WrapEntry \in Entry
    BY <1>7, MintEntryType DEF Unwraps
  <2>3. PayloadInv'
    BY <1>1, <2>1, <2>2, PayloadMint DEF TypeOK, StoreOK
  <2>4. revealed'[pay[w]] = 0 /\ minted'[pay[w]] = minted[pay[w]]
    BY <1>5, <2>1, <2>2 DEF Mint, TypeOK, HistOK
  <2>5. \A x \in Tokens : cub'[x] # pay[w]
    <3>1. \A x \in Tokens : cub'[x] = IF x = tgt[w] THEN None ELSE cub[x]
      BY <1>1 DEF TypeOK, StoreOK
    <3> QED BY <1>1, <1>5, <2>2, <3>1, NoneAssumption DEF PayloadInv
  <2>6. /\ pc'[w] = "mk_tok" /\ op'[w] = "rewrap" /\ pay'[w] = pay[w] /\ mu' # w /\ tgt'[w] = t
    BY <1>7, <2>1 DEF Goto, Keep, TypeOK, LocalOK
  <2>7. Wrapped(t)'
    BY <2>1, <2>2, NoneAssumption DEF Mint, WrapEntry, NewEntry, Wrapped, TypeOK, HistOK
  <2>8. Loose(pay[w])' /\ (Wrapped(pay[w])' \/ tok'[pay[w]] = None)
    BY <1>1, <1>5, <2>2, <2>4, <2>5, <2>6 DEF Loose, Wrapped
  <2>9. pay[w] \in Tokens /\ minted'[pay[w]] # None /\ pay[w] # None
    BY <1>5, <2>2, <2>4, NoneAssumption
  <2> QED BY <2>3, <2>4, <2>5, <2>6, <2>7, <2>8, <2>9, <1>5, <2>2, <1>1
          DEF PayOf, Revoking, Minting, Loose, Wrapped
<1> QED BY <1>1, <1>3, <1>4, <1>6, <1>7 DEF Purge, Unwraps

LEMMA MkCubPay ==
  ASSUME TypeOK, TargetInv, PayloadInv, NEW w \in Workers, PayOf(w), MkCub(w)
  PROVE  PayloadInv' /\ PayOf(w)'
<1>1. pc[w] = "mk_cub" /\ tgt[w] \in Tokens /\ minted[tgt[w]] # None
  BY DEF MkCub, TargetInv
<1>2. UNCHANGED <<tok, revealed, minted>> /\ PayOf(w)'
  BY FinishPay DEF MkCub, Deliver
<1>3. CASE op[w] = "wrap"
  <2>1. Loose(tgt[w]) /\ cub' = [cub EXCEPT ![tgt[w]] = tgt[w]]
    BY <1>1, <1>3 DEF MkCub, PayOf, Minting
  <2> QED BY <1>1, <1>2, <2>1, PayloadStore DEF Loose
<1>4. CASE op[w] = "rewrap"
  <2>1. /\ Loose(pay[w]) /\ cub' = [cub EXCEPT ![tgt[w]] = pay[w]]
        /\ pay[w] \in Tokens /\ minted[pay[w]] # None
        /\ Wrapped(pay[w]) \/ tok[pay[w]] = None
    BY <1>1, <1>4 DEF MkCub, PayOf, Minting, TypeOK, LocalOK
  <2> QED BY <1>1, <1>2, <2>1, PayloadStore DEF Loose
<1> QED BY <1>1, <1>2, <1>3, <1>4 DEF PayOf

LEMMA CbPutPay ==
  ASSUME TypeOK, TargetInv, PayloadInv, NEW w \in Workers, PayOf(w), CbPut(w)
  PROVE  PayloadInv' /\ PayOf(w)'
<1>1. pc[w] = "cb_put" /\ tgt[w] \in Tokens /\ minted[tgt[w]] # None /\ Clean(tgt[w])
  BY DEF CbPut, TargetInv, PayOf
<1>2. UNCHANGED <<tok, revealed, minted>> /\ PayOf(w)'
  BY FinishPay DEF CbPut, hist
<1>3. CASE cub' = [cub EXCEPT ![tgt[w]] = tgt[w]]
  BY <1>1, <1>2, <1>3, PayloadStore DEF Clean
<1>4. CASE cub' = [cub EXCEPT ![tgt[w]] = IF @ = None THEN Plain ELSE @]
  BY <1>1, <1>2, <1>4, PayloadPlain
<1> QED BY <1>2, <1>3, <1>4 DEF CbPut

LEMMA UnwrapNext ==
  ASSUME IInv, OneAtATime, SerialInv, UnwrapInv, [Next \/ Crash]_vars
  PROVE  UnwrapInv'
<1> USE DEF IInv
<1>1. CASE Tick \/ UNCHANGED vars
  BY <1>1
  DEF Tick, vars, local, hist, store, UnwrapInv, PayloadInv, PayOf, Loose, Clean, Holds, Wrapped,
      UnwrapOnce
<1>2. CASE Crash
  BY <1>2, NoneAssumption
  DEF Crash, hist, store, UnwrapInv, PayloadInv, PayOf, Clean, Holds, Wrapped, UnwrapOnce,
      Revoking, Minting
<1>3. ASSUME NEW w \in Workers, Arrive(w) \/ Step(w)
      PROVE  UnwrapInv'
  <2>1. PayloadInv /\ PayOf(w) /\ RetOf(w) /\ CopyOf(w) /\ GoneInv
    BY DEF UnwrapInv, SerialInv
  <2>2. CASE BeginMint(w) \/ Purge(w) \/ MkCub(w) \/ CbPut(w)
    BY <2>1, <2>2, MintPay, PurgePay, MkCubPay, CbPutPay DEF UnwrapInv, OneAtATime
  <2>3. CASE ~(BeginMint(w) \/ Purge(w) \/ MkCub(w) \/ CbPut(w))
    <3>1. Still
      <4>1. CASE Arrive(w)
        BY <2>3, <4>1
        DEF Arrive, BeginSelf, BeginAdmin, BeginLease, BeginBulk, Begin, Still, store, hist
      <4>2. CASE Use(w) \/ UsePut(w) \/ RvServe(w)
        BY <4>2 DEF Use, UsePut, RvServe, DeleteToken, Serve, RevokeInUse, Still, store, hist
      <4>3. CASE RvGet(w) \/ RvAcc(w) \/ RvReject(w) \/ RvPurge(w) \/ AcGet(w)
        BY <4>3 DEF RvGet, RvAcc, RvReject, RvPurge, DeleteToken, AcGet, Still, store, hist
      <4>4. CASE Lock(w) \/ Pick(w) \/ RmLease(w) \/ RnGet(w) \/ RnPut(w) \/ RnLease(w)
        BY <4>4 DEF Lock, Pick, RmLease, RnGet, RnPut, RnLease, Still, store, hist
      <4>5. CASE MkTok(w) \/ MkAcc(w) \/ MkLease(w)
        BY <4>5 DEF MkTok, MkAcc, MkLease, Deliver, Still, hist
      <4>6. CASE UnGet(w) \/ UnRead(w) \/ RwRead(w)
        BY <4>6 DEF UnGet, UnRead, RwRead, ReadPayload, Still, store, hist
      <4> QED BY <1>3, <2>3, <4>1, <4>2, <4>3, <4>4, <4>5, <4>6 DEF Step
    <3>2. PayloadInv' /\ PayOf(w)'
      BY <1>3, <2>1, <2>3, <3>1, TokKept, PayloadStill, PayArrive, PayStep
    <3> QED BY <3>2 DEF UnwrapInv, OneAtATime
  <2> QED BY <2>2, <2>3
<1> QED BY <1>1, <1>2, <1>3 DEF Next

\* One request at a time, and across crashes, no payload is returned by unwrap
\* twice, through however many rewraps it went.
THEOREM UnwrapsOnce ==
  ASSUME OneAtATime
  PROVE  CrashSpec => []UnwrapOnce
<1>1. Init => SerialInv /\ UnwrapInv
  BY LifeInitially, NoneAssumption
  DEF Init, UnwrapInv, PayloadInv, PayOf, Holds, UnwrapOnce, Revoking, Minting
<1>2. IInv /\ IInv' /\ SerialInv /\ [Next \/ Crash]_vars => SerialInv'
  BY SerialNext
<1>3. IInv /\ SerialInv /\ UnwrapInv /\ [Next \/ Crash]_vars => UnwrapInv'
  BY UnwrapNext
<1>4. UnwrapInv => UnwrapOnce
  BY DEF UnwrapInv, PayloadInv
<1> QED BY <1>1, <1>2, <1>3, <1>4, Inductive, PTL DEF CrashSpec
------------------------------------------------------------------------------
(* A stored token has its accessor, except in the middle of a handler. *)

RecordsInv ==
  /\ \A t \in Tokens : tok[t] # None =>
       \/ t \in acc
       \/ \E w \in Workers : tgt[w] = t /\ pc[w] \in {"mk_acc", "rv_tok"}
  /\ \A t \in Tokens : tok[t] # None /\ tok[t].expire # 0 => minted[t].expire # 0
  /\ \A w \in Workers : pc[w] \in Writing /\ te[w].expire # 0 => minted[tgt[w]].expire # 0

\* These labels allow one operation each.
LEMMA AtLabel ==
  ASSUME NEW w \in Workers, Arrive(w) \/ Step(w)
  PROVE  /\ pc[w] = "mk_tok" => MkTok(w)
         /\ pc[w] = "mk_acc" => MkAcc(w)
         /\ pc[w] = "rv_acc" => RvAcc(w)
         /\ pc[w] = "rv_tok" => DeleteToken(w)
  BY DEF Arrive, BeginSelf, BeginAdmin, BeginLease, BeginBulk, BeginMint, Begin,
         Step, Use, UsePut, RvGet, RvAcc, RvReject, RvServe, RvPurge, AcGet, Purge, Lock,
         Pick, RmLease, RnGet, RnPut, RnLease, MkTok, MkAcc, MkLease, MkCub, CbPut, UnGet,
         UnRead, RwRead, DeleteToken

LEMMA RecordsNext ==
  ASSUME IInv, IInv', OneAtATime, SerialInv, RecordsInv, [Next]_vars
  PROVE  RecordsInv'
<1> USE DEF IInv
<1>1. CASE Tick \/ UNCHANGED vars
  BY <1>1 DEF Tick, vars, local, hist, store, RecordsInv
<1>2. ASSUME NEW w \in Workers, Arrive(w) \/ Step(w)
      PROVE  RecordsInv'
  <2>1. Effect(w) /\ WayTo(w)
    BY <1>2, EffectArrive, EffectStep, WayArrive, WayStep
  <2>2. \A t \in Tokens : minted[t] # None => minted'[t] = minted[t]
    BY <1>2, MintedGrows
  <2>3. pc[w] \notin {"idle", "lock", "pick"} => tgt[w] \in Tokens /\ minted[tgt[w]] # None
    BY DEF TargetInv
  <2>4. ASSUME NEW t \in Tokens, tok'[t] # None
        PROVE  t \in acc' \/ (tgt'[w] = t /\ pc'[w] \in {"mk_acc", "rv_tok"})
    <3>1. CASE pc[w] = "mk_acc"
      <4>1. acc' = acc \cup {tgt[w]} /\ tok' = tok
        BY <1>2, <3>1, AtLabel DEF MkAcc
      <4> QED BY <2>4, <3>1, <4>1 DEF RecordsInv, OneAtATime
    <3>2. CASE pc[w] = "rv_tok"
      <4>1. tok' = [tok EXCEPT ![tgt[w]] = None] /\ acc' = acc
        BY <1>2, <3>2, AtLabel DEF DeleteToken
      <4> QED BY <2>3, <2>4, <3>2, <4>1 DEF RecordsInv, OneAtATime, TypeOK, StoreOK
    <3>3. CASE pc[w] = "rv_acc"
      <4>1. tok[t] # None /\ (acc' = acc \/ acc' = acc \ {tgt[w]})
        BY <2>1, <2>4, <3>3 DEF Effect, TokEffect, AccEffect, Writing
      <4>2. t \in acc
        BY <3>3, <4>1 DEF RecordsInv, OneAtATime
      <4>3. tgt'[w] = tgt[w] /\ pc'[w] = "rv_tok"
        BY <1>2, <3>3, AtLabel DEF RvAcc, On, Goto, TypeOK, LocalOK
      <4> QED BY <4>1, <4>2, <4>3
    <3>4. CASE pc[w] = "mk_tok"
      <4>1. tgt'[w] = tgt[w] /\ pc'[w] = "mk_acc" /\ tok' = [tok EXCEPT ![tgt[w]] = te[w]]
            /\ acc' = acc
        BY <1>2, <3>4, AtLabel DEF MkTok, On, Goto, TypeOK, LocalOK
      <4> QED BY <2>4, <3>4, <4>1 DEF RecordsInv, OneAtATime, TypeOK, StoreOK
    <3>5. CASE pc[w] \notin {"mk_acc", "rv_tok", "rv_acc", "mk_tok"}
      <4>1. acc' = acc
        BY <2>1, <3>5 DEF Effect, AccEffect
      <4>2. tok[t] # None
        BY <2>1, <2>4, <3>5 DEF Effect, TokEffect, SerialInv, CopyOf, Writing, TypeOK, StoreOK
      <4> QED BY <3>5, <4>1, <4>2 DEF RecordsInv, OneAtATime
    <3> QED BY <3>1, <3>2, <3>3, <3>4, <3>5
  <2>5. ASSUME NEW t \in Tokens, tok'[t] # None, tok'[t].expire # 0
        PROVE  minted'[t].expire # 0
    <3>1. minted[t] # None /\ minted[t].expire # 0
      <4>1. tok'[t] = tok[t] \/ (pc[w] \in Writing \cup {"mk_tok"} /\ t = tgt[w] /\ tok'[t] = te[w])
        BY <2>1, <2>5 DEF Effect, TokEffect, TypeOK, StoreOK
      <4>2. CASE tok'[t] = tok[t]
        BY <2>5, <4>2 DEF RecordsInv, SerialInv, GoneInv
      <4>3. CASE pc[w] \in Writing \cup {"mk_tok"} /\ t = tgt[w] /\ tok'[t] = te[w]
        BY <2>3, <2>5, <4>3 DEF RecordsInv, MintedInv, Minting, Writing
      <4> QED BY <4>1, <4>2, <4>3
    <3> QED BY <2>2, <3>1
  <2>6. ASSUME pc'[w] \in Writing, te'[w].expire # 0
        PROVE  minted'[tgt'[w]].expire # 0
    <3>1. tgt'[w] = tgt[w] /\ tok[tgt[w]] # None /\ tgt[w] \in Tokens
      BY <2>1, <2>6 DEF WayTo, Writing, TargetInv
    <3>2. tok[tgt[w]].expire # 0
      <4>1. CASE pc'[w] = "use_put"
        BY <2>1, <2>6, <3>1, <4>1 DEF WayTo, Spend, TypeOK, StoreOK, Entry
      <4>2. CASE pc'[w] = "rn_put"
        BY <2>1, <4>2 DEF WayTo
      <4> QED BY <2>6, <4>1, <4>2 DEF Writing
    <3> QED BY <2>2, <3>1, <3>2 DEF RecordsInv, SerialInv, GoneInv
  <2> QED BY <2>4, <2>5, <2>6 DEF RecordsInv, OneAtATime
<1> QED BY <1>1, <1>2 DEF Next

\* One request at a time and without a crash, the token, its accessor and its
\* lease agree between requests.
THEOREM RecordsSafe ==
  ASSUME OneAtATime
  PROVE  Spec => []RecordsAgree
<1>1. Init => SerialInv /\ RecordsInv
  BY LifeInitially, NoneAssumption DEF Init, RecordsInv, Writing
<1>2. IInv /\ IInv' /\ SerialInv /\ [Next]_vars => SerialInv'
  BY SerialNext
<1>3. IInv /\ IInv' /\ SerialInv /\ RecordsInv /\ [Next]_vars => RecordsInv'
  BY RecordsNext
<1>4. IInv /\ SerialInv /\ RecordsInv => RecordsAgree
  BY DEF IInv, TypeOK, HistOK, AccessorInv, AccessorHasToken, KeptInv, LiveTokenKept,
         SerialInv, GoneInv, RecordsInv, RecordsAgree, Quiet
<1>5. Spec => CrashSpec
  BY PTL DEF Spec, CrashSpec
<1> QED BY <1>1, <1>2, <1>3, <1>4, <1>5, Inductive, PTL DEF Spec
------------------------------------------------------------------------------
(* Any number of clients, revokers and crashes: a revocation that catches   *)
(* nobody with a copy of the entry is final.                                *)

\* Only a token that was minted is ever revoked.
DeadMinted == \A t \in dead : minted[t] # None

LEMMA DeadMintedNext ==
  ASSUME TypeOK, TargetInv, DeadMinted, [Next \/ Crash]_vars
  PROVE  DeadMinted'
<1>1. CASE Tick \/ Crash \/ UNCHANGED vars
  BY <1>1 DEF Tick, Crash, vars, hist, DeadMinted
<1>2. ASSUME NEW w \in Workers, Arrive(w) \/ Step(w)
      PROVE  DeadMinted'
  <2>1. \A t \in Tokens : minted[t] # None => minted'[t] = minted[t]
    BY <1>2, MintedGrows
  <2>2. dead' = dead \/ (pc[w] = "rv_tok" /\ dead' = dead \cup {tgt[w]})
    BY <1>2, EffectArrive, EffectStep DEF Effect, TokEffect
  <2>3. pc[w] = "rv_tok" => tgt[w] \in Tokens /\ minted[tgt[w]] # None
    BY DEF TargetInv
  <2> QED BY <2>1, <2>2, <2>3 DEF DeadMinted, TypeOK, HistOK
<1> QED BY <1>1, <1>2 DEF Next

\* No step of anybody stores a revoked token again, and none takes a copy of
\* its entry: use and renew find nothing to copy, and create takes a new id.
LEMMA GoneStays ==
  ASSUME TypeOK, DeadMinted, NEW t \in Tokens, Gone(t), [Next \/ Crash]_vars
  PROVE  Gone(t)'
<1>1. CASE Tick \/ UNCHANGED vars
  BY <1>1 DEF Tick, vars, store, local, hist, Gone, Unheld
<1>2. CASE Crash
  BY <1>2 DEF Crash, store, hist, Gone, Unheld
<1>3. ASSUME NEW w \in Workers, Arrive(w) \/ Step(w)
      PROVE  Gone(t)'
  <2>1. Effect(w) /\ WayTo(w)
    BY <1>3, EffectArrive, EffectStep, WayArrive, WayStep
  <2>2. \A v \in Workers \ {w} : pc'[v] = pc[v] /\ tgt'[v] = tgt[v]
    BY <1>3, Others
  <2>3. t \in dead'
    BY <2>1 DEF Gone, Effect, TokEffect
  <2>4. tok'[t] = None
    BY <2>1 DEF Gone, Unheld, Effect, TokEffect, Writing, TypeOK, StoreOK
  <2>5. ASSUME pc'[w] \in {"mk_tok", "use_put", "rn_put"}
        PROVE  tgt'[w] # t
    BY <2>1, <2>5 DEF WayTo, Gone, DeadMinted
  <2>6. ASSUME NEW v \in Workers \ {w}, pc'[v] \in {"mk_tok", "use_put", "rn_put"}
        PROVE  tgt'[v] # t
    BY <2>2, <2>6 DEF Gone, Unheld
  <2> QED BY <2>3, <2>4, <2>5, <2>6 DEF Gone, Unheld
<1> QED BY <1>1, <1>2, <1>3 DEF Next

\* For any number of clients, revokers and tokens, across crashes: once a
\* token is deleted and no request holds a copy of its entry to store, it is
\* never stored again.
THEOREM RevocationFinal == CrashSpec => RevokedStaysGone
<1>1. Init => DeadMinted
  BY DEF Init, DeadMinted
<1>2. IInv /\ DeadMinted /\ [Next \/ Crash]_vars => DeadMinted'
  BY DeadMintedNext DEF IInv
<1>3. IInv /\ DeadMinted /\ [Next \/ Crash]_vars
        => [\A t \in Tokens : Gone(t) => Gone(t)']_vars
  BY GoneStays DEF IInv
<1> QED BY <1>1, <1>2, <1>3, Inductive, PTL DEF CrashSpec, RevokedStaysGone
==============================================================================
