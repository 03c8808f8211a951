--------------------------- MODULE TokenStoreProofs ---------------------------
(***************************************************************************)
(* Invariants of TokenStore for any number of workers and tokens, under    *)
(* every interleaving and crash (CrashSpec).                               *)
(***************************************************************************)
EXTENDS TokenStore, TLAPS

Minting  == {"mk_tok", "mk_acc", "mk_lease", "mk_cub"}
Private  == {"mk_tok", "mk_acc"}
Writing  == {"use_put", "rn_put"}

\* A worker in the middle of a handler has a token, one that was minted.
TargetInv ==
  \A w \in Workers :
    /\ pc[w] \notin {"idle", "lock", "pick"} => tgt[w] \in Tokens
    /\ pc[w] = "lock" /\ op[w] \in LeaseOps => tgt[w] \in Tokens
    /\ tgt[w] \in Tokens => minted[tgt[w]] # None
    /\ \A t \in todo[w] : minted[t] # None

\* Every id in circulation was minted; entries about to be written exist.
MintedInv ==
  /\ \A t \in known \cup lease : minted[t] # None
  /\ \A w \in Workers : pc[w] \in Writing => te[w] # None
  /\ \A w \in Workers : pc[w] \in Minting => te[w] # None /\ te[w] = minted[tgt[w]]

\* While create has not stored the accessor, nobody else can name the token.
PrivateInv ==
  \A w \in Workers : pc[w] \in Private =>
    /\ tgt[w] \notin known \cup lease
    /\ \A v \in Workers \ {w} : tgt[v] # tgt[w] /\ tgt[w] \notin todo[v]

\* The accessor is written after the token and deleted before it.
AccessorInv ==
  /\ AccessorHasToken
  /\ \A w \in Workers : pc[w] = "rv_tok" => tgt[w] \notin acc \ lost
  /\ \A w \in Workers : pc[w] = "mk_acc" => tok[tgt[w]] # None

\* A token whose creation has stored it is still stored, or a revocation has
\* deleted it; its lease is removed only in the second case.
Settled(t) == tok[t] # None \/ t \in dead

KeptInv ==
  /\ LiveTokenKept
  /\ \A t \in known \cup lease : Settled(t)
  /\ \A w \in Workers : pc[w] # "mk_tok" /\ tgt[w] \in Tokens => Settled(tgt[w])
  /\ \A w \in Workers : \A t \in todo[w] : Settled(t)
  /\ \A w \in Workers : pc[w] = "mk_cub" => tgt[w] \in lease \cup dead
  /\ \A w \in Workers : pc[w] \in {"purge", "rm_lease"} => tgt[w] \in dead

IInv == TypeOK /\ TargetInv /\ MintedInv /\ PrivateInv /\ AccessorInv /\ KeptInv

------------------------------------------------------------------------------
(* Entries. *)

LEMMA NewEntryType ==
  ASSUME NEW p \in Param, NEW b \in BOOLEAN, now \in Nat
  PROVE  NewEntry(p, b) \in Entry
  BY DEF Param, Entry, NewEntry

LEMMA WrapEntryType ==
  ASSUME now \in Nat
  PROVE  WrapEntry \in Entry
<1>1. [numUses |-> 0, ttl |-> WrapTTL, maxTTL |-> 0, renewable |-> FALSE] \in Param
  BY WrapTTLAssumption DEF Param
<1>2. QED
  BY <1>1, NewEntryType DEF WrapEntry

\* The entry BeginMint makes is an Entry.
LEMMA MintEntryType ==
  ASSUME TypeOK
  PROVE  /\ WrapEntry \in Entry
         /\ \A p \in Params : NewEntry(p, FALSE) \in Entry
<1>1. now \in Nat
  BY DEF TypeOK, StoreOK
<1> QED BY <1>1, WrapEntryType, NewEntryType, ParamsAssumption

LEMMA MintStep ==
  ASSUME TypeOK, NEW w \in Workers, BeginMint(w)
  PROVE  \E o \in MintOps, t \in Tokens, e \in Entry :
           /\ Begin(w, o, t, "mk_tok")
           /\ te' = [te EXCEPT ![w] = e]
           /\ Mint(t, e)
  BY MintEntryType DEF BeginMint

LEMMA SpendType ==
  ASSUME NEW e \in Entry, e.numUses > 1
  PROVE  Spend(e) \in Entry
  BY DEF Entry, Spend

LEMMA RenewedType ==
  ASSUME NEW e \in Entry, NEW inc \in Nat, now \in Nat
  PROVE  Renewed(e, inc) \in Entry
  BY DEF Entry, Renewed

------------------------------------------------------------------------------
LEMMA TypeInit == Init => TypeOK
  BY NoneAssumption, BoundsAssumption
  DEF Init, TypeOK, StoreOK, LocalOK, HistOK, Labels

LEMMA FirstType == ASSUME NEW o PROVE First(o) \in Labels
  BY DEF First, Labels

LEMMA FinishType ==
  ASSUME LocalOK, NEW w \in Workers, Finish(w)
  PROVE  LocalOK'
  BY DEF LocalOK, Finish, Goto, Keep, Labels

LEMMA OnType ==
  ASSUME LocalOK, NEW w \in Workers, NEW l \in Labels, On(w, l)
  PROVE  LocalOK'
  BY DEF LocalOK, On, Goto

LEMMA ServeType ==
  ASSUME TypeOK, NEW w \in Workers, tgt[w] \in Tokens, Serve(w)
  PROVE  LocalOK' /\ HistOK'
<1>1. LocalOK'
  <2>1. CASE First(op[w]) = "idle"
    BY <2>1, FinishType DEF Serve, TypeOK
  <2>2. CASE First(op[w]) # "idle"
    BY <2>2, FirstType DEF Serve, TypeOK, LocalOK, Goto, Keep
  <2> QED BY <2>1, <2>2
<1>2. /\ served' = [served EXCEPT ![tgt[w]] = IF @ < MaxServed THEN @ + 1 ELSE @]
      /\ UNCHANGED <<minted, known, dead, revealed>>
  BY DEF Serve
<1>3. HistOK'
  BY <1>2, BoundsAssumption DEF TypeOK, HistOK
<1> QED BY <1>1, <1>3

LEMMA VisitType ==
  ASSUME LocalOK, NEW w \in Workers, NEW t \in todo[w], NEW l \in Labels, Visit(w, t, l)
  PROVE  LocalOK'
  BY DEF LocalOK, Visit, Goto

LEMMA DeleteTokenType ==
  ASSUME TypeOK, NEW w \in Workers, DeleteToken(w)
  PROVE  StoreOK'
  BY DEF DeleteToken, TypeOK, StoreOK

LEMMA BeginType ==
  ASSUME TypeOK, NEW w \in Workers, NEW o \in Ops, NEW t \in Tokens \cup {None},
         NEW l \in Labels, Begin(w, o, t, l), te' \in [Workers -> Entry \cup {None}]
  PROVE  StoreOK' /\ LocalOK'
  BY DEF Begin, TypeOK, StoreOK, LocalOK, Goto, store

LEMMA TypeArrive ==
  ASSUME TypeOK, NEW w \in Workers, Arrive(w)
  PROVE  TypeOK'
<1> USE DEF TypeOK
<1>1. CASE BeginSelf(w)
  <2>1. PICK o \in SelfOps, t \in known : Begin(w, o, t, "use")
    BY <1>1 DEF BeginSelf
  <2>2. o \in Ops /\ t \in Tokens /\ "use" \in Labels
    BY DEF Ops, HistOK, Labels
  <2>3. te' \in [Workers -> Entry \cup {None}] /\ HistOK'
    BY <1>1 DEF BeginSelf, LocalOK, HistOK, hist
  <2> QED BY <2>1, <2>2, <2>3, BeginType
<1>2. CASE BeginAdmin(w)
  <2>1. PICK o \in AdminOps, t \in known : Begin(w, o, t, First(o))
    BY <1>2 DEF BeginAdmin
  <2>2. o \in Ops /\ t \in Tokens /\ First(o) \in Labels
    BY FirstType DEF Ops, HistOK
  <2>3. te' \in [Workers -> Entry \cup {None}] /\ HistOK'
    BY <1>2 DEF BeginAdmin, LocalOK, HistOK, hist
  <2> QED BY <2>1, <2>2, <2>3, BeginType
<1>3. CASE BeginLease(w)
  <2>1. PICK o \in LeaseOps, t \in lease : Begin(w, o, t, "lock")
    BY <1>3 DEF BeginLease
  <2>2. o \in Ops /\ t \in Tokens /\ "lock" \in Labels
    BY DEF Ops, StoreOK, Labels
  <2>3. te' \in [Workers -> Entry \cup {None}] /\ HistOK'
    BY <1>3 DEF BeginLease, LocalOK, HistOK, hist
  <2> QED BY <2>1, <2>2, <2>3, BeginType
<1>4. CASE BeginBulk(w)
  <2>1. PICK o \in BulkOps : Begin(w, o, None, "lock")
    BY <1>4 DEF BeginBulk
  <2>2. o \in Ops /\ "lock" \in Labels
    BY DEF Ops, Labels
  <2>3. te' \in [Workers -> Entry \cup {None}] /\ HistOK'
    BY <1>4 DEF BeginBulk, LocalOK, HistOK, hist
  <2> QED BY <2>1, <2>2, <2>3, BeginType
<1>5. CASE BeginMint(w)
  <2>1. PICK o \in MintOps, t \in Tokens, e \in Entry :
           /\ Begin(w, o, t, "mk_tok")
           /\ te' = [te EXCEPT ![w] = e]
           /\ Mint(t, e)
    BY <1>5, MintStep
  <2>2. o \in Ops /\ "mk_tok" \in Labels
    BY DEF Ops, Labels
  <2>3. te' \in [Workers -> Entry \cup {None}] /\ HistOK'
    BY <2>1 DEF Mint, LocalOK, HistOK
  <2> QED BY <2>1, <2>2, <2>3, BeginType
<1> QED BY <1>1, <1>2, <1>3, <1>4, <1>5 DEF Arrive

LEMMA TypeStep ==
  ASSUME TypeOK, TargetInv, NEW w \in Workers, Step(w)
  PROVE  TypeOK'
<1> USE DEF TypeOK
<1>1. CASE Use(w)
  <2>1. tgt[w] \in Tokens
    BY <1>1 DEF Use, TargetInv
  <2>2. StoreOK'
    BY <1>1 DEF Use, StoreOK, store
  <2> DEFINE e == tok[tgt[w]]
  <2>3. CASE Finish(w) /\ UNCHANGED hist
    BY <2>2, <2>3, FinishType DEF HistOK, hist
  <2>4. CASE \E r \in {"reject", "serve"} : RevokeInUse(w, r)
    BY <2>2, <2>4 DEF RevokeInUse, Goto, LocalOK, HistOK, hist, Labels
  <2>5. CASE Serve(w)
    BY <2>1, <2>2, <2>5, ServeType
  <2>6. CASE /\ e # None /\ e.numUses > 1
             /\ te' = [te EXCEPT ![w] = Spend(e)]
             /\ Goto(w, "use_put") /\ UNCHANGED <<op, tgt, pay, ret, todo, mu, hist>>
    <3>1. Spend(e) \in Entry
      BY <2>1, <2>6, SpendType DEF StoreOK
    <3> QED BY <2>2, <2>6, <3>1 DEF Goto, LocalOK, HistOK, hist, Labels
  <2> QED BY <1>1, <2>3, <2>4, <2>5, <2>6 DEF Use
<1>2. CASE UsePut(w)
  <2>1. StoreOK' /\ tgt[w] \in Tokens
    BY <1>2 DEF UsePut, StoreOK, LocalOK, TargetInv
  <2> QED BY <1>2, <2>1, ServeType DEF UsePut
<1>3. CASE RvGet(w)
  BY <1>3, OnType DEF RvGet, Labels, StoreOK, HistOK, store, hist
<1>4. CASE RvAcc(w)
  BY <1>4, OnType DEF RvAcc, Labels, StoreOK, HistOK, TargetInv, hist
<1>5. CASE RvReject(w)
  BY <1>5, DeleteTokenType, FinishType DEF RvReject, DeleteToken, HistOK, TargetInv
<1>6. CASE RvServe(w)
  <2>1. StoreOK' /\ tgt[w] \in Tokens
    BY <1>6, DeleteTokenType DEF RvServe, DeleteToken, TargetInv
  <2>2. HistOK'
    <3>1. /\ served' = [served EXCEPT ![tgt[w]] = IF @ < MaxServed THEN @ + 1 ELSE @]
          /\ dead' = dead \cup {tgt[w]}
          /\ UNCHANGED <<minted, known, revealed>>
      BY <1>6 DEF RvServe, DeleteToken
    <3> QED BY <2>1, <3>1, BoundsAssumption DEF HistOK
  <2>3. LocalOK'
    <3>1. CASE First(op[w]) = "idle"
      BY <1>6, <3>1, FinishType DEF RvServe
    <3>2. CASE First(op[w]) # "idle"
      BY <1>6, <3>2, FirstType DEF RvServe, LocalOK, Goto
    <3> QED BY <3>1, <3>2
  <2> QED BY <2>1, <2>2, <2>3
<1>7. CASE RvPurge(w)
  BY <1>7, DeleteTokenType, OnType DEF RvPurge, DeleteToken, Labels, HistOK, TargetInv
<1>8. CASE AcGet(w)
  BY <1>8, OnType, FinishType DEF AcGet, Labels, StoreOK, HistOK, store, hist
<1>9. CASE Purge(w)
  <2>1. StoreOK'
    BY <1>9 DEF Purge, StoreOK
  <2>2. CASE On(w, "rm_lease") /\ UNCHANGED hist
    BY <2>1, <2>2, OnType DEF Labels, HistOK, hist
  <2>3. CASE Finish(w) /\ UNCHANGED hist
    BY <2>1, <2>3, FinishType DEF HistOK, hist
  <2>4. CASE /\ Finish(w) /\ Reveal(pay[w])
             /\ UNCHANGED <<minted, known, dead, served>>
    <3>1. HistOK'
      <4>1. CASE pay[w] \in Tokens
        BY <2>4, <4>1 DEF Reveal, HistOK
      <4>2. CASE pay[w] \notin Tokens
        BY <2>4, <4>2 DEF Reveal, HistOK
      <4> QED BY <4>1, <4>2
    <3> QED BY <2>1, <2>4, <3>1, FinishType
  <2>5. CASE /\ \E t \in Tokens : Mint(t, WrapEntry) /\ Keep(w, t, WrapEntry)
             /\ Goto(w, "mk_tok") /\ UNCHANGED <<op, pay, ret, todo, mu>>
    <3>1. WrapEntry \in Entry
      BY WrapEntryType DEF StoreOK
    <3> QED BY <2>1, <2>5, <3>1 DEF Mint, Keep, Goto, LocalOK, HistOK, Labels
  <2> QED BY <1>9, <2>2, <2>3, <2>4, <2>5 DEF Purge
<1>10. CASE Lock(w)
  <2>1. StoreOK' /\ HistOK'
    BY <1>10 DEF Lock, StoreOK, HistOK, store, hist
  <2>2. CASE Finish(w)
    BY <2>1, <2>2, FinishType
  <2>3. CASE /\ mu' = w /\ Goto(w, "pick")
             /\ todo' = [todo EXCEPT ![w] = lease]
             /\ UNCHANGED <<op, tgt, te, pay, ret>>
    BY <2>1, <2>3 DEF StoreOK, LocalOK, Goto, Labels
  <2>4. CASE /\ mu' = w /\ \E l \in {"rv_get", "rn_get"} : Goto(w, l)
             /\ UNCHANGED <<op, tgt, te, pay, ret, todo>>
    BY <2>1, <2>4 DEF LocalOK, Goto, Labels
  <2> QED BY <1>10, <2>2, <2>3, <2>4 DEF Lock
<1>11. CASE Pick(w)
  <2>1. StoreOK' /\ HistOK'
    BY <1>11 DEF Pick, StoreOK, HistOK, store, hist
  <2>2. CASE Finish(w)
    BY <2>1, <2>2, FinishType
  <2>3. CASE \E t \in todo[w], l \in {"pick", "rv_get", "rm_lease"} : Visit(w, t, l)
    BY <2>1, <2>3, VisitType DEF Labels
  <2> QED BY <1>11, <2>2, <2>3 DEF Pick, ScanLease
<1>12. CASE RmLease(w)
  <2>1. StoreOK' /\ HistOK'
    BY <1>12 DEF RmLease, StoreOK, HistOK, hist
  <2>2. CASE op[w] \in BulkOps
    BY <1>12, <2>1, <2>2 DEF RmLease, NextLease, Goto, Keep, LocalOK, Labels
  <2>3. CASE op[w] \notin BulkOps
    BY <1>12, <2>1, <2>3, FinishType DEF RmLease, NextLease
  <2> QED BY <2>2, <2>3
<1>13. CASE RnGet(w)
  <2>1. tgt[w] \in Tokens /\ StoreOK' /\ HistOK'
    BY <1>13 DEF RnGet, TargetInv, StoreOK, HistOK, store, hist
  <2> DEFINE e == tok[tgt[w]]
  <2>2. CASE Finish(w)
    BY <2>1, <2>2, FinishType
  <2>3. CASE On(w, "rm_lease")
    BY <2>1, <2>3, OnType DEF Labels
  <2>4. CASE /\ e # None
             /\ \E inc \in Incs : te' = [te EXCEPT ![w] = Renewed(e, inc)]
             /\ Goto(w, "rn_put") /\ UNCHANGED <<op, tgt, pay, ret, todo, mu>>
    <3>1. \A inc \in Incs : Renewed(e, inc) \in Entry
      BY <2>1, <2>4, IncsAssumption, RenewedType DEF StoreOK
    <3> QED BY <2>1, <2>4, <3>1 DEF LocalOK, Goto, Labels
  <2> QED BY <1>13, <2>2, <2>3, <2>4 DEF RnGet
<1>14. CASE RnPut(w)
  <2>1. StoreOK' /\ HistOK'
    BY <1>14 DEF RnPut, StoreOK, LocalOK, HistOK, hist
  <2> QED BY <1>14, <2>1, OnType, FinishType DEF RnPut, Labels
<1>15. CASE RnLease(w)
  BY <1>15, FinishType DEF RnLease, TargetInv, StoreOK, HistOK, hist
<1>16. CASE MkTok(w)
  <2>1. StoreOK' /\ HistOK'
    BY <1>16 DEF MkTok, StoreOK, LocalOK, HistOK, hist
  <2> QED BY <1>16, <2>1, OnType DEF MkTok, Labels
<1>17. CASE MkAcc(w)
  <2>1. StoreOK'
    BY <1>17 DEF MkAcc, TargetInv, StoreOK
  <2>2. HistOK'
    BY <1>17 DEF MkAcc, Deliver, TargetInv, HistOK, hist
  <2> QED BY <1>17, <2>1, <2>2, OnType, FinishType DEF MkAcc, Deliver, Labels
<1>18. CASE MkLease(w)
  <2>1. StoreOK'
    BY <1>18 DEF MkLease, TargetInv, StoreOK
  <2>2. HistOK'
    BY <1>18 DEF MkLease, Deliver, TargetInv, HistOK, hist
  <2> QED BY <1>18, <2>1, <2>2, OnType, FinishType DEF MkLease, Deliver, Labels
<1>19. CASE MkCub(w)
  <2>1. StoreOK'
    BY <1>19 DEF MkCub, LocalOK, StoreOK
  <2>2. HistOK'
    BY <1>19 DEF MkCub, Deliver, TargetInv, HistOK
  <2> QED BY <1>19, <2>1, <2>2, FinishType DEF MkCub, Deliver
<1>20. CASE CbPut(w)
  BY <1>20, FinishType DEF CbPut, LocalOK, StoreOK, HistOK, hist
<1>21. CASE UnGet(w)
  BY <1>21, OnType, FinishType DEF UnGet, Labels, StoreOK, HistOK, store, hist
<1>22. CASE UnRead(w) \/ RwRead(w)
  <2>1. ReadPayload(w) /\ tgt[w] \in Tokens
    BY <1>22 DEF UnRead, RwRead, TargetInv
  <2>2. StoreOK' /\ HistOK'
    BY <2>1 DEF ReadPayload, StoreOK, HistOK, store, hist
  <2>3. CASE Finish(w)
    BY <2>2, <2>3, FinishType
  <2>4. CASE /\ cub[tgt[w]] \notin {None, Plain}
             /\ pay' = [pay EXCEPT ![w] = cub[tgt[w]]]
             /\ Goto(w, "rv_get")
             /\ UNCHANGED <<op, tgt, te, ret, todo, mu>>
    <3>1. cub[tgt[w]] \in Tokens \cup {None}
      BY <2>1, <2>4 DEF StoreOK
    <3> QED BY <2>1, <2>2, <2>4, <3>1 DEF StoreOK, LocalOK, Goto, Labels
  <2> QED BY <2>1, <2>3, <2>4 DEF ReadPayload
<1> QED
  BY <1>1, <1>2, <1>3, <1>4, <1>5, <1>6, <1>7, <1>8, <1>9, <1>10, <1>11,
     <1>12, <1>13, <1>14, <1>15, <1>16, <1>17, <1>18, <1>19, <1>20, <1>21,
     <1>22 DEF Step

LEMMA TypeNext ==
  ASSUME TypeOK, TargetInv, [Next \/ Crash]_vars
  PROVE  TypeOK'
<1>1. CASE Tick
  BY <1>1, BoundsAssumption
  DEF Tick, TypeOK, StoreOK, LocalOK, HistOK, store, local, hist
<1>2. CASE Crash
  BY <1>2 DEF Crash, TypeOK, StoreOK, LocalOK, HistOK, store, hist, Labels
<1>3. CASE UNCHANGED vars
  BY <1>3 DEF vars, TypeOK, StoreOK, LocalOK, HistOK
<1> QED BY <1>1, <1>2, <1>3, TypeArrive, TypeStep DEF Next

------------------------------------------------------------------------------
(* Another worker's locals do not change. *)

LEMMA Others ==
  ASSUME TypeOK, NEW w \in Workers, Arrive(w) \/ Step(w), NEW v \in Workers \ {w}
  PROVE  pc'[v] = pc[v] /\ op'[v] = op[v] /\ tgt'[v] = tgt[v] /\ te'[v] = te[v]
         /\ todo'[v] = todo[v]
<1> USE DEF TypeOK, LocalOK, Goto, Keep, Finish, On
<1>1. CASE Arrive(w)
  BY <1>1 DEF Arrive, BeginSelf, BeginAdmin, BeginLease, BeginBulk, BeginMint, Begin
<1>2. CASE Use(w) \/ UsePut(w) \/ RvServe(w)
  BY <1>2 DEF Use, UsePut, RvServe, RevokeInUse, Serve
<1>3. CASE RvGet(w) \/ RvAcc(w) \/ RvReject(w) \/ RvPurge(w) \/ AcGet(w)
  BY <1>3 DEF RvGet, RvAcc, RvReject, RvPurge, AcGet
<1>4. CASE Purge(w)
  BY <1>4 DEF Purge
<1>5. CASE Lock(w) \/ Pick(w) \/ RmLease(w)
  BY <1>5 DEF Lock, Pick, ScanLease, Visit, RmLease, NextLease
<1>6. CASE RnGet(w) \/ RnPut(w) \/ RnLease(w)
  BY <1>6 DEF RnGet, RnPut, RnLease
<1>7. CASE MkTok(w) \/ MkAcc(w) \/ MkLease(w) \/ MkCub(w)
  BY <1>7 DEF MkTok, MkAcc, MkLease, MkCub, Deliver
<1>8. CASE CbPut(w) \/ UnGet(w) \/ UnRead(w) \/ RwRead(w)
  BY <1>8 DEF CbPut, UnGet, UnRead, RwRead, ReadPayload
<1> QED BY <1>1, <1>2, <1>3, <1>4, <1>5, <1>6, <1>7, <1>8 DEF Step

\* minted only grows.
LEMMA MintedGrows ==
  ASSUME TypeOK, NEW w \in Workers, Arrive(w) \/ Step(w)
  PROVE  \A t \in Tokens : minted[t] # None => minted'[t] = minted[t]
<1> USE DEF TypeOK, HistOK, hist
<1>1. CASE Arrive(w)
  BY <1>1 DEF Arrive, BeginSelf, BeginAdmin, BeginLease, BeginBulk, BeginMint, Mint
<1>2. CASE Use(w) \/ UsePut(w) \/ RvServe(w)
  BY <1>2 DEF Use, UsePut, RvServe, RevokeInUse, Serve
<1>3. CASE RvGet(w) \/ RvAcc(w) \/ RvReject(w) \/ RvPurge(w) \/ AcGet(w)
  BY <1>3 DEF RvGet, RvAcc, RvReject, RvPurge, AcGet
<1>4. CASE Purge(w)
  BY <1>4 DEF Purge, Mint
<1>5. CASE Lock(w) \/ Pick(w) \/ RmLease(w)
  BY <1>5 DEF Lock, Pick, RmLease
<1>6. CASE RnGet(w) \/ RnPut(w) \/ RnLease(w)
  BY <1>6 DEF RnGet, RnPut, RnLease
<1>7. CASE MkTok(w) \/ MkAcc(w) \/ MkLease(w) \/ MkCub(w)
  BY <1>7 DEF MkTok, MkAcc, MkLease, MkCub, Deliver
<1>8. CASE CbPut(w) \/ UnGet(w) \/ UnRead(w) \/ RwRead(w)
  BY <1>8 DEF CbPut, UnGet, UnRead, RwRead, ReadPayload
<1> QED BY <1>1, <1>2, <1>3, <1>4, <1>5, <1>6, <1>7, <1>8 DEF Step

\* The part of TargetInv about one worker.
TargetOf(w) ==
  /\ pc[w] \notin {"idle", "lock", "pick"} => tgt[w] \in Tokens
  /\ pc[w] = "lock" /\ op[w] \in LeaseOps => tgt[w] \in Tokens
  /\ tgt[w] \in Tokens => minted[tgt[w]] # None
  /\ \A t \in todo[w] : minted[t] # None

LEMMA FinishTarget ==
  ASSUME TypeOK, NEW w \in Workers, Finish(w)
  PROVE  TargetOf(w)'
  BY NoneAssumption DEF TypeOK, LocalOK, Finish, Goto, Keep, TargetOf

LEMMA StayTarget ==
  ASSUME TypeOK, TargetInv, NEW w \in Workers, pc[w] \notin {"idle", "lock", "pick"},
         tgt'[w] = tgt[w], todo'[w] = todo[w],
         \A t \in Tokens : minted[t] # None => minted'[t] = minted[t]
  PROVE  TargetOf(w)'
  BY DEF TypeOK, LocalOK, TargetInv, TargetOf

LEMMA TargetArrive ==
  ASSUME TypeOK, TargetInv, MintedInv, NEW w \in Workers, Arrive(w)
  PROVE  TargetOf(w)'
<1> USE DEF TypeOK, LocalOK, HistOK, StoreOK, Goto, Begin, TargetOf, TargetInv, MintedInv
<1>0. \A t \in Tokens : minted[t] # None => minted'[t] = minted[t]
  BY MintedGrows
<1>1. CASE BeginSelf(w)
  BY <1>0, <1>1 DEF BeginSelf
<1>2. CASE BeginAdmin(w)
  BY <1>0, <1>2 DEF BeginAdmin
<1>3. CASE BeginLease(w)
  BY <1>0, <1>3 DEF BeginLease
<1>4. CASE BeginBulk(w)
  BY <1>0, <1>4, NoneAssumption DEF BeginBulk, LeaseOps, BulkOps
<1>5. CASE BeginMint(w)
  <2>1. PICK o \in MintOps, t \in Tokens, e \in Entry :
           /\ Begin(w, o, t, "mk_tok")
           /\ te' = [te EXCEPT ![w] = e]
           /\ Mint(t, e)
    BY <1>5, MintStep
  <2> QED BY <1>0, <2>1, NoneAssumption DEF Mint
<1> QED BY <1>1, <1>2, <1>3, <1>4, <1>5 DEF Arrive

LEMMA TargetStep ==
  ASSUME TypeOK, TargetInv, MintedInv, NEW w \in Workers, Step(w)
  PROVE  TargetOf(w)'
<1> USE DEF TypeOK, LocalOK
<1>0. \A t \in Tokens : minted[t] # None => minted'[t] = minted[t]
  BY MintedGrows
<1>1. CASE Use(w) \/ UsePut(w) \/ RvServe(w)
  <2>1. \/ Finish(w)
        \/ /\ pc[w] \notin {"idle", "lock", "pick"}
           /\ tgt'[w] = tgt[w] /\ todo'[w] = todo[w]
    BY <1>1 DEF Use, UsePut, RvServe, DeleteToken, RevokeInUse, Serve, Keep
  <2> QED BY <1>0, <2>1, FinishTarget, StayTarget
<1>2. CASE RvGet(w) \/ RvAcc(w) \/ RvReject(w) \/ RvPurge(w) \/ AcGet(w)
  <2>1. \/ Finish(w)
        \/ /\ pc[w] \notin {"idle", "lock", "pick"}
           /\ tgt'[w] = tgt[w] /\ todo'[w] = todo[w]
    BY <1>2 DEF RvGet, RvAcc, RvReject, RvPurge, DeleteToken, AcGet, On
  <2> QED BY <1>0, <2>1, FinishTarget, StayTarget
<1>3. CASE Purge(w)
  BY <1>0, <1>3, NoneAssumption, WrapEntryType
  DEF Purge, Mint, Keep, Goto, On, Finish, HistOK, StoreOK, TargetOf, TargetInv
<1>4. CASE Lock(w)
  BY <1>0, <1>4, NoneAssumption
  DEF Lock, Keep, Goto, Finish, HistOK, StoreOK, TargetOf, TargetInv, MintedInv
<1>5. CASE Pick(w)
  BY <1>0, <1>5, NoneAssumption
  DEF Pick, ScanLease, Visit, Keep, Goto, Finish, TargetOf, TargetInv
<1>6. CASE RmLease(w)
  BY <1>0, <1>6, NoneAssumption
  DEF RmLease, NextLease, Keep, Goto, Finish, TargetOf, TargetInv
<1>7. CASE RnGet(w) \/ RnPut(w) \/ RnLease(w)
  <2>1. \/ Finish(w)
        \/ /\ pc[w] \notin {"idle", "lock", "pick"}
           /\ tgt'[w] = tgt[w] /\ todo'[w] = todo[w]
    BY <1>7 DEF RnGet, RnPut, RnLease, On
  <2> QED BY <1>0, <2>1, FinishTarget, StayTarget
<1>8. CASE MkTok(w) \/ MkAcc(w) \/ MkLease(w) \/ MkCub(w)
  <2>1. \/ Finish(w)
        \/ /\ pc[w] \notin {"idle", "lock", "pick"}
           /\ tgt'[w] = tgt[w] /\ todo'[w] = todo[w]
    BY <1>8 DEF MkTok, MkAcc, MkLease, MkCub, Deliver, On
  <2> QED BY <1>0, <2>1, FinishTarget, StayTarget
<1>9. CASE CbPut(w) \/ UnGet(w) \/ UnRead(w) \/ RwRead(w)
  <2>1. \/ Finish(w)
        \/ /\ pc[w] \notin {"idle", "lock", "pick"}
           /\ tgt'[w] = tgt[w] /\ todo'[w] = todo[w]
    BY <1>9 DEF CbPut, UnGet, UnRead, RwRead, ReadPayload, On
  <2> QED BY <1>0, <2>1, FinishTarget, StayTarget
<1> QED BY <1>1, <1>2, <1>3, <1>4, <1>5, <1>6, <1>7, <1>8, <1>9 DEF Step

LEMMA TargetNext ==
  ASSUME TypeOK, TargetInv, MintedInv, [Next \/ Crash]_vars
  PROVE  TargetInv'
<1>1. CASE Tick \/ UNCHANGED vars
  BY <1>1 DEF Tick, vars, TargetInv, local, hist
<1>2. CASE Crash
  BY <1>2, NoneAssumption DEF Crash, TargetInv
<1>3. ASSUME NEW w \in Workers, Arrive(w) \/ Step(w)
      PROVE  TargetInv'
  <2>1. TargetOf(w)'
    BY <1>3, TargetArrive, TargetStep
  <2>2. \A v \in Workers \ {w} : TargetOf(v)'
    BY <1>3, Others, MintedGrows DEF TypeOK, LocalOK, TargetInv, TargetOf
  <2> QED BY <2>1, <2>2 DEF TargetInv, TargetOf
<1> QED BY <1>1, <1>2, <1>3 DEF Next

------------------------------------------------------------------------------
(* Where a worker can take a token from. *)

Reachable(w) ==
  /\ tgt'[w] \in {None, tgt[w]} \cup known \cup lease \cup todo[w]
                  \cup {t \in Tokens : minted[t] = None}
  /\ todo'[w] \subseteq todo[w] \cup lease
  /\ known' \subseteq known \cup {tgt[w]}
  /\ lease' \subseteq lease \cup {tgt[w]}

LEMMA ReachArrive ==
  ASSUME TypeOK, NEW w \in Workers, Arrive(w)
  PROVE  Reachable(w)
<1> USE DEF TypeOK, LocalOK, Reachable, Begin, store, hist
<1>1. CASE BeginSelf(w) \/ BeginAdmin(w)
  BY <1>1 DEF BeginSelf, BeginAdmin
<1>2. CASE BeginLease(w) \/ BeginBulk(w)
  BY <1>2 DEF BeginLease, BeginBulk
<1>3. CASE BeginMint(w)
  <2>1. PICK o \in MintOps, t \in Tokens, e \in Entry :
           /\ Begin(w, o, t, "mk_tok")
           /\ te' = [te EXCEPT ![w] = e]
           /\ Mint(t, e)
    BY <1>3, MintStep
  <2> QED BY <2>1 DEF Mint
<1> QED BY <1>1, <1>2, <1>3 DEF Arrive

LEMMA ReachStep ==
  ASSUME TypeOK, NEW w \in Workers, Step(w)
  PROVE  Reachable(w)
<1> USE DEF TypeOK, LocalOK, Reachable, Finish, Keep, On, store, hist
<1>1. CASE Use(w) \/ UsePut(w) \/ RvServe(w)
  BY <1>1 DEF Use, UsePut, RvServe, DeleteToken, RevokeInUse, Serve
<1>2. CASE RvGet(w) \/ RvAcc(w) \/ RvReject(w) \/ RvPurge(w) \/ AcGet(w)
  BY <1>2 DEF RvGet, RvAcc, RvReject, RvPurge, DeleteToken, AcGet
<1>3. CASE Purge(w)
  BY <1>3 DEF Purge, Mint
<1>4. CASE Lock(w)
  BY <1>4 DEF Lock
<1>5. CASE Pick(w)
  BY <1>5 DEF Pick, ScanLease, Visit
<1>6. CASE RmLease(w)
  BY <1>6 DEF RmLease, NextLease
<1>7. CASE RnGet(w) \/ RnPut(w) \/ RnLease(w)
  BY <1>7 DEF RnGet, RnPut, RnLease
<1>8. CASE MkTok(w) \/ MkAcc(w) \/ MkLease(w) \/ MkCub(w)
  BY <1>8 DEF MkTok, MkAcc, MkLease, MkCub, Deliver
<1>9. CASE CbPut(w) \/ UnGet(w) \/ UnRead(w) \/ RwRead(w)
  BY <1>9 DEF CbPut, UnGet, UnRead, RwRead, ReadPayload
<1> QED BY <1>1, <1>2, <1>3, <1>4, <1>5, <1>6, <1>7, <1>8, <1>9 DEF Step

------------------------------------------------------------------------------
(* The entry a worker is about to write. *)

EntryOf(w) ==
  /\ pc[w] \in Writing => te[w] # None
  /\ pc[w] \in Minting => te[w] # None /\ te[w] = minted[tgt[w]]

LEMMA FirstLabels ==
  ASSUME NEW o
  PROVE  First(o) \in Labels \ (Writing \cup Minting \cup {"rv_tok", "purge", "rm_lease"})
  BY DEF First, Labels, Writing, Minting

LEMMA EntryArrive ==
  ASSUME TypeOK, NEW w \in Workers, Arrive(w)
  PROVE  EntryOf(w)'
<1> USE DEF TypeOK, LocalOK, EntryOf, Begin, Goto, Writing, Minting
<1>1. CASE BeginSelf(w)
  BY <1>1 DEF BeginSelf
<1>2. CASE BeginAdmin(w)
  <2>1. PICK o \in AdminOps : pc'[w] = First(o)
    BY <1>2 DEF BeginAdmin
  <2> QED BY <2>1, FirstLabels
<1>3. CASE BeginLease(w) \/ BeginBulk(w)
  BY <1>3 DEF BeginLease, BeginBulk
<1>4. CASE BeginMint(w)
  <2>1. PICK o \in MintOps, t \in Tokens, e \in Entry :
           /\ Begin(w, o, t, "mk_tok")
           /\ te' = [te EXCEPT ![w] = e]
           /\ Mint(t, e)
    BY <1>4, MintStep
  <2> QED BY <2>1, NoneAssumption DEF Mint, HistOK
<1> QED BY <1>1, <1>2, <1>3, <1>4 DEF Arrive

LEMMA FinishEntry ==
  ASSUME TypeOK, NEW w \in Workers, Finish(w)
  PROVE  EntryOf(w)'
  BY DEF TypeOK, LocalOK, Finish, Goto, EntryOf, Writing, Minting

LEMMA EntryStep ==
  ASSUME TypeOK, TargetInv, MintedInv, NEW w \in Workers, Step(w)
  PROVE  EntryOf(w)'
<1> USE DEF TypeOK, LocalOK, Goto, On
<1>1. CASE Use(w)
  <2>1. CASE Finish(w) \/ pc'[w] = "rv_get"
    BY <2>1, FinishEntry DEF EntryOf, Writing, Minting
  <2>2. CASE Serve(w)
    BY <2>2, FinishEntry, FirstLabels DEF Serve, EntryOf
  <2>3. CASE /\ tok[tgt[w]] # None /\ tok[tgt[w]].numUses > 1
             /\ te' = [te EXCEPT ![w] = Spend(tok[tgt[w]])]
             /\ Goto(w, "use_put")
    <3>1. Spend(tok[tgt[w]]) \in Entry
      BY <1>1, <2>3, SpendType DEF Use, TargetInv, StoreOK
    <3> QED BY <2>3, <3>1, NoneAssumption DEF EntryOf, Writing, Minting
  <2> QED BY <1>1, <2>1, <2>2, <2>3 DEF Use, RevokeInUse
<1>2. CASE UsePut(w)
  BY <1>2, FinishEntry, FirstLabels DEF UsePut, Serve, EntryOf
<1>3. CASE RvServe(w)
  BY <1>3, FinishEntry, FirstLabels DEF RvServe, EntryOf
<1>4. CASE RvGet(w) \/ RvAcc(w) \/ RvReject(w) \/ RvPurge(w) \/ AcGet(w)
  BY <1>4, FinishEntry DEF RvGet, RvAcc, RvReject, RvPurge, AcGet, EntryOf, Writing, Minting
<1>5. CASE Purge(w)
  <2>1. CASE Finish(w) \/ pc'[w] = "rm_lease"
    BY <2>1, FinishEntry DEF EntryOf, Writing, Minting
  <2>2. CASE /\ \E t \in Tokens : Mint(t, WrapEntry) /\ Keep(w, t, WrapEntry)
             /\ Goto(w, "mk_tok")
    <3>1. PICK t \in Tokens, e \in Entry : Mint(t, e) /\ Keep(w, t, e)
      BY <2>2, MintEntryType
    <3>2. pc'[w] = "mk_tok" /\ te'[w] # None /\ te'[w] = minted'[tgt'[w]]
      BY <2>2, <3>1, NoneAssumption DEF Mint, Keep, HistOK
    <3> QED BY <3>2 DEF EntryOf, Writing
  <2> QED BY <1>5, <2>1, <2>2 DEF Purge
<1>6. CASE Lock(w) \/ Pick(w) \/ RmLease(w)
  BY <1>6, FinishEntry DEF Lock, Pick, ScanLease, Visit, RmLease, NextLease, EntryOf, Writing,
      Minting
<1>7. CASE RnGet(w)
  <2>1. CASE Finish(w) \/ pc'[w] = "rm_lease"
    BY <2>1, FinishEntry DEF EntryOf, Writing, Minting
  <2>2. CASE /\ tok[tgt[w]] # None
             /\ \E inc \in Incs : te' = [te EXCEPT ![w] = Renewed(tok[tgt[w]], inc)]
             /\ Goto(w, "rn_put")
    <3>1. \A inc \in Incs : Renewed(tok[tgt[w]], inc) \in Entry
      BY <1>7, <2>2, IncsAssumption, RenewedType DEF RnGet, TargetInv, StoreOK
    <3> QED BY <2>2, <3>1, NoneAssumption DEF EntryOf, Writing, Minting
  <2> QED BY <1>7, <2>1, <2>2 DEF RnGet
<1>8. CASE RnPut(w) \/ RnLease(w)
  BY <1>8, FinishEntry DEF RnPut, RnLease, EntryOf, Writing, Minting
<1>9. CASE MkTok(w) \/ MkAcc(w) \/ MkLease(w) \/ MkCub(w)
  BY <1>9, FinishEntry DEF MkTok, MkAcc, MkLease, MkCub, Deliver, MintedInv, hist, EntryOf,
      Writing, Minting
<1>10. CASE CbPut(w) \/ UnGet(w) \/ UnRead(w) \/ RwRead(w)
  BY <1>10, FinishEntry DEF CbPut, UnGet, UnRead, RwRead, ReadPayload, EntryOf, Writing, Minting
<1> QED BY <1>1, <1>2, <1>3, <1>4, <1>5, <1>6, <1>7, <1>8, <1>9, <1>10 DEF Step

LEMMA MintedNext ==
  ASSUME TypeOK, TypeOK', TargetInv, MintedInv, [Next \/ Crash]_vars
  PROVE  MintedInv'
<1>1. CASE Tick \/ UNCHANGED vars
  BY <1>1 DEF Tick, vars, MintedInv, local, hist, store
<1>2. CASE Crash
  BY <1>2 DEF Crash, MintedInv, Writing, Minting, hist, store
<1>3. ASSUME NEW w \in Workers, Arrive(w) \/ Step(w)
      PROVE  MintedInv'
  <2>1. \A t \in Tokens : minted[t] # None => minted'[t] = minted[t]
    BY <1>3, MintedGrows
  <2>2. \A t \in known' \cup lease' : minted'[t] # None
    BY <1>3, <2>1, ReachArrive, ReachStep
    DEF Reachable, TypeOK, StoreOK, HistOK, TargetInv, MintedInv
  <2>3. EntryOf(w)'
    BY <1>3, EntryArrive, EntryStep
  <2>4. \A v \in Workers \ {w} : EntryOf(v)'
    BY <1>3, <2>1, Others DEF TargetInv, MintedInv, EntryOf, Minting
  <2> QED BY <2>2, <2>3, <2>4 DEF MintedInv, EntryOf
<1> QED BY <1>1, <1>2, <1>3 DEF Next

------------------------------------------------------------------------------
(* Until its accessor is stored, a token is its creator's alone. *)

PrivateOf(w) ==
  pc[w] \in Private =>
    /\ tgt[w] \notin known \cup lease
    /\ \A v \in Workers \ {w} : tgt[v] # tgt[w] /\ tgt[w] \notin todo[v]

\* A worker is at a private step only if it has just minted the token or was
\* at one already.
FreshOrSame(w) ==
  pc'[w] \in Private =>
    \/ /\ tgt'[w] \in Tokens /\ minted[tgt'[w]] = None
       /\ known' = known /\ lease' = lease
    \/ /\ pc[w] \in Private /\ tgt'[w] = tgt[w]
       /\ known' = known /\ lease' = lease

LEMMA FreshArrive ==
  ASSUME TypeOK, NEW w \in Workers, Arrive(w)
  PROVE  FreshOrSame(w)
<1> USE DEF TypeOK, LocalOK, FreshOrSame, Begin, Goto, Private
<1>1. CASE BeginSelf(w)
  BY <1>1 DEF BeginSelf
<1>2. CASE BeginAdmin(w)
  <2>1. PICK o \in AdminOps : pc'[w] = First(o)
    BY <1>2 DEF BeginAdmin
  <2> QED BY <2>1, FirstLabels DEF Minting
<1>3. CASE BeginLease(w) \/ BeginBulk(w)
  BY <1>3 DEF BeginLease, BeginBulk
<1>4. CASE BeginMint(w)
  <2>1. PICK o \in MintOps, t \in Tokens, e \in Entry :
           /\ Begin(w, o, t, "mk_tok")
           /\ te' = [te EXCEPT ![w] = e]
           /\ Mint(t, e)
    BY <1>4, MintStep
  <2> QED BY <2>1 DEF Mint, store
<1> QED BY <1>1, <1>2, <1>3, <1>4 DEF Arrive

LEMMA FinishFresh ==
  ASSUME TypeOK, NEW w \in Workers, Finish(w)
  PROVE  FreshOrSame(w)
  BY DEF TypeOK, LocalOK, Finish, Goto, FreshOrSame, Private

LEMMA FreshStep ==
  ASSUME TypeOK, NEW w \in Workers, Step(w)
  PROVE  FreshOrSame(w)
<1> USE DEF TypeOK, LocalOK, Goto, On
<1>1. CASE Use(w) \/ UsePut(w) \/ RvServe(w)
  BY <1>1, FinishFresh, FirstLabels
  DEF Use, UsePut, RvServe, RevokeInUse, Serve, FreshOrSame, Private, Minting
<1>2. CASE RvGet(w) \/ RvAcc(w) \/ RvReject(w) \/ RvPurge(w) \/ AcGet(w)
  BY <1>2, FinishFresh DEF RvGet, RvAcc, RvReject, RvPurge, AcGet, FreshOrSame, Private
<1>3. CASE Purge(w)
  BY <1>3, FinishFresh DEF Purge, Mint, Keep, FreshOrSame, Private
<1>4. CASE Lock(w) \/ Pick(w) \/ RmLease(w)
  BY <1>4, FinishFresh DEF Lock, Pick, ScanLease, Visit, RmLease, NextLease, FreshOrSame, Private
<1>5. CASE RnGet(w) \/ RnPut(w) \/ RnLease(w)
  BY <1>5, FinishFresh DEF RnGet, RnPut, RnLease, FreshOrSame, Private
<1>6. CASE MkTok(w) \/ MkAcc(w) \/ MkLease(w) \/ MkCub(w)
  BY <1>6, FinishFresh DEF MkTok, MkAcc, MkLease, MkCub, Deliver, hist, FreshOrSame, Private
<1>7. CASE CbPut(w) \/ UnGet(w) \/ UnRead(w) \/ RwRead(w)
  BY <1>7, FinishFresh DEF CbPut, UnGet, UnRead, RwRead, ReadPayload, FreshOrSame, Private
<1> QED BY <1>1, <1>2, <1>3, <1>4, <1>5, <1>6, <1>7 DEF Step

LEMMA PrivateNext ==
  ASSUME TypeOK, TypeOK', TargetInv, MintedInv, PrivateInv, [Next \/ Crash]_vars
  PROVE  PrivateInv'
<1>1. CASE Tick \/ UNCHANGED vars
  BY <1>1 DEF Tick, vars, PrivateInv, local, hist, store
<1>2. CASE Crash
  BY <1>2 DEF Crash, PrivateInv, Private
<1>3. ASSUME NEW w \in Workers, Arrive(w) \/ Step(w)
      PROVE  PrivateInv'
  <2>1. \A v \in Workers \ {w} : pc'[v] = pc[v] /\ tgt'[v] = tgt[v] /\ todo'[v] = todo[v]
    BY <1>3, Others
  <2>2. PrivateOf(w)'
    <3>1. FreshOrSame(w)
      BY <1>3, FreshArrive, FreshStep
    <3> QED BY <2>1, <3>1 DEF FreshOrSame, PrivateOf, PrivateInv, TargetInv, MintedInv, TypeOK,
        LocalOK
  <2>3. \A v \in Workers \ {w} : PrivateOf(v)'
    <3> SUFFICES ASSUME NEW v \in Workers \ {w}, pc[v] \in Private
                 PROVE  PrivateOf(v)'
      BY <2>1 DEF PrivateOf
    <3>1. /\ tgt[v] \in Tokens /\ minted[tgt[v]] # None
          /\ tgt[v] \notin known \cup lease /\ tgt[v] # tgt[w] /\ tgt[v] \notin todo[w]
      BY DEF TargetInv, PrivateInv, Private
    <3>2. /\ tgt'[w] # tgt[v] /\ tgt[v] \notin todo'[w]
          /\ tgt[v] \notin known' \cup lease'
      BY <1>3, <3>1, ReachArrive, ReachStep, NoneAssumption DEF Reachable
    <3> QED BY <2>1, <3>2 DEF PrivateOf, PrivateInv
  <2> QED BY <2>2, <2>3 DEF PrivateInv, PrivateOf
<1> QED BY <1>1, <1>2, <1>3 DEF Next

------------------------------------------------------------------------------
(* What a step does to the token and accessor records. *)

TokEffect(w) ==
  \/ tok' = tok /\ dead' = dead
  \/ /\ pc[w] \in Writing \cup {"mk_tok"} /\ dead' = dead
     /\ tok' = [tok EXCEPT ![tgt[w]] = te[w]]
  \/ /\ pc[w] = "rv_tok" /\ dead' = dead \cup {tgt[w]}
     /\ tok' = [tok EXCEPT ![tgt[w]] = None]

AccEffect(w) ==
  /\ lost \subseteq lost'
  /\ \/ acc' = acc
     \/ pc[w] = "rv_acc" /\ acc' = acc \ {tgt[w]} /\ tok' = tok
     \/ pc[w] = "mk_acc" /\ acc' = acc \cup {tgt[w]} /\ tok' = tok

\* How a worker gets to the two steps that must find the other record right.
PcEffect(w) ==
  /\ pc'[w] = "rv_tok" =>
       /\ tgt'[w] = tgt[w] /\ tok' = tok
       /\ \/ pc[w] = "rv_get" /\ tok[tgt[w]] = None /\ acc' = acc
          \/ pc[w] = "rv_acc" /\ acc' = acc \ {tgt[w]}
          \/ pc[w] = "rv_acc" /\ tgt[w] \in lost'
  /\ pc'[w] = "mk_acc" =>
       /\ tgt'[w] = tgt[w] /\ pc[w] = "mk_tok" /\ acc' = acc
       /\ tok' = [tok EXCEPT ![tgt[w]] = te[w]]

Effect(w) == TokEffect(w) /\ AccEffect(w) /\ PcEffect(w)

LEMMA EffectArrive ==
  ASSUME TypeOK, NEW w \in Workers, Arrive(w)
  PROVE  Effect(w)
<1> USE DEF TypeOK, LocalOK, Effect, TokEffect, AccEffect, PcEffect, Begin, Goto, store, hist
<1>1. CASE BeginSelf(w)
  BY <1>1 DEF BeginSelf
<1>2. CASE BeginAdmin(w)
  BY <1>2, FirstLabels DEF BeginAdmin, Minting
<1>3. CASE BeginLease(w) \/ BeginBulk(w)
  BY <1>3 DEF BeginLease, BeginBulk
<1>4. CASE BeginMint(w)
  <2>1. PICK o \in MintOps, t \in Tokens, e \in Entry :
           /\ Begin(w, o, t, "mk_tok")
           /\ te' = [te EXCEPT ![w] = e]
           /\ Mint(t, e)
    BY <1>4, MintStep
  <2> QED BY <2>1 DEF Mint
<1> QED BY <1>1, <1>2, <1>3, <1>4 DEF Arrive

LEMMA EffectStep ==
  ASSUME TypeOK, NEW w \in Workers, Step(w)
  PROVE  Effect(w)
<1> USE DEF TypeOK, LocalOK, Effect, TokEffect, AccEffect, PcEffect, Goto, Keep, On, Finish,
            store, hist, Writing
<1>1. CASE Use(w) \/ UsePut(w)
  BY <1>1, FirstLabels DEF Use, UsePut, RevokeInUse, Serve, Minting
<1>2. CASE RvServe(w)
  BY <1>2, FirstLabels DEF RvServe, DeleteToken, Minting
<1>3. CASE RvGet(w) \/ RvAcc(w) \/ RvReject(w) \/ RvPurge(w) \/ AcGet(w)
  BY <1>3 DEF RvGet, RvAcc, RvReject, RvPurge, DeleteToken, AcGet
<1>4. CASE Purge(w)
  BY <1>4 DEF Purge, Mint
<1>5. CASE Lock(w) \/ Pick(w) \/ RmLease(w)
  BY <1>5 DEF Lock, Pick, ScanLease, Visit, RmLease, NextLease
<1>6. CASE RnGet(w) \/ RnPut(w) \/ RnLease(w)
  BY <1>6 DEF RnGet, RnPut, RnLease
<1>7. CASE MkTok(w) \/ MkAcc(w) \/ MkLease(w) \/ MkCub(w)
  BY <1>7 DEF MkTok, MkAcc, MkLease, MkCub, Deliver
<1>8. CASE CbPut(w) \/ UnGet(w) \/ UnRead(w) \/ RwRead(w)
  BY <1>8 DEF CbPut, UnGet, UnRead, RwRead, ReadPayload
<1> QED BY <1>1, <1>2, <1>3, <1>4, <1>5, <1>6, <1>7, <1>8 DEF Step

LEMMA AccessorNext ==
  ASSUME TypeOK, TargetInv, MintedInv, PrivateInv, AccessorInv, [Next \/ Crash]_vars
  PROVE  AccessorInv'
<1> USE DEF AccessorInv, AccessorHasToken
<1>1. CASE Tick \/ UNCHANGED vars
  BY <1>1 DEF Tick, vars, local, hist, store
<1>2. CASE Crash
  BY <1>2 DEF Crash, store
<1>3. ASSUME NEW w \in Workers, Arrive(w) \/ Step(w)
      PROVE  AccessorInv'
  <2> USE DEF TypeOK, StoreOK
  <2>1. Effect(w)
    BY <1>3, EffectArrive, EffectStep
  <2>2. \A v \in Workers \ {w} : pc'[v] = pc[v] /\ tgt'[v] = tgt[v]
    BY <1>3, Others
  <2>3. pc[w] \in Writing \cup {"mk_tok"} => te[w] # None
    BY DEF MintedInv, Writing, Minting
  <2>4. pc[w] = "mk_acc" \/ pc[w] = "rv_tok" \/ pc[w] = "mk_tok" => tgt[w] \in Tokens
    BY DEF TargetInv
  <2>5. AccessorHasToken'
    BY <2>1, <2>3, <2>4 DEF Effect, TokEffect, AccEffect
  <2>6. \A v \in Workers : pc'[v] = "rv_tok" => tgt'[v] \notin acc' \ lost'
    <3>1. pc'[w] = "rv_tok" => tgt'[w] \notin acc' \ lost'
      BY <2>1 DEF Effect, PcEffect, AccEffect
    <3>2. ASSUME NEW v \in Workers \ {w}, pc[v] = "rv_tok"
          PROVE  tgt[v] \notin acc' \ lost'
      BY <2>1, <3>2 DEF Effect, AccEffect, PrivateInv, Private
    <3> QED BY <2>2, <3>1, <3>2
  <2>7. \A v \in Workers : pc'[v] = "mk_acc" => tok'[tgt'[v]] # None
    <3>1. pc'[w] = "mk_acc" => tok'[tgt'[w]] # None
      BY <2>1, <2>3, <2>4 DEF Effect, PcEffect
    <3>2. ASSUME NEW v \in Workers \ {w}, pc[v] = "mk_acc"
          PROVE  tok'[tgt[v]] # None
      BY <2>1, <3>2 DEF Effect, TokEffect, PrivateInv, Private, TargetInv
    <3> QED BY <2>2, <3>1, <3>2
  <2> QED BY <2>5, <2>6, <2>7
<1> QED BY <1>1, <1>2, <1>3 DEF Next
------------------------------------------------------------------------------
(* What a step does to leases and to the ids clients hold, and how a worker *)
(* gets to the steps that presume a deleted or a stored token.              *)

LeaseEffect(w) ==
  \/ lease' = lease
  \/ pc[w] = "rm_lease" /\ lease' = lease \ {tgt[w]}
  \/ pc[w] \in {"rn_lease", "mk_lease"} /\ lease' = lease \cup {tgt[w]}

KnownEffect(w) ==
  \/ known' = known
  \/ /\ known' = known \cup {tgt[w]}
     /\ \/ pc[w] = "mk_acc" /\ te[w].expire = 0
        \/ pc[w] = "mk_lease" /\ lease' = lease \cup {tgt[w]}
        \/ pc[w] = "mk_cub"

PathEffect(w) ==
  /\ pc'[w] # "mk_tok" /\ tgt'[w] # None =>
       \/ tgt'[w] \in known \cup lease \cup todo[w]
       \/ tgt'[w] = tgt[w] /\ pc[w] # "mk_tok"
       \/ tgt'[w] = tgt[w] /\ tok' = [tok EXCEPT ![tgt[w]] = te[w]]
  /\ pc'[w] = "mk_cub" => /\ tgt'[w] = tgt[w]
                          /\ lease' = lease \cup {tgt[w]}
  /\ pc'[w] = "purge" => tgt'[w] = tgt[w] /\ dead' = dead \cup {tgt[w]}
  /\ pc'[w] = "rm_lease" =>
       \/ pc[w] = "purge" /\ tgt'[w] = tgt[w]
       \/ pc[w] = "rn_get" /\ tgt'[w] = tgt[w] /\ tok[tgt[w]] = None
       \/ tgt'[w] \in todo[w] /\ tok[tgt'[w]] = None

Trace(w) == LeaseEffect(w) /\ KnownEffect(w) /\ PathEffect(w)

LEMMA TraceArrive ==
  ASSUME TypeOK, NEW w \in Workers, Arrive(w)
  PROVE  Trace(w)
<1> USE DEF TypeOK, LocalOK, Trace, LeaseEffect, KnownEffect, PathEffect, Begin, Goto, store, hist
<1>1. CASE BeginSelf(w)
  BY <1>1 DEF BeginSelf
<1>2. CASE BeginAdmin(w)
  BY <1>2, FirstLabels DEF BeginAdmin, Minting
<1>3. CASE BeginLease(w) \/ BeginBulk(w)
  BY <1>3 DEF BeginLease, BeginBulk
<1>4. CASE BeginMint(w)
  <2>1. PICK o \in MintOps, t \in Tokens, e \in Entry :
           /\ Begin(w, o, t, "mk_tok")
           /\ te' = [te EXCEPT ![w] = e]
           /\ Mint(t, e)
    BY <1>4, MintStep
  <2> QED BY <2>1 DEF Mint
<1> QED BY <1>1, <1>2, <1>3, <1>4 DEF Arrive

LEMMA TraceStep ==
  ASSUME TypeOK, NEW w \in Workers, Step(w)
  PROVE  Trace(w)
<1> USE DEF TypeOK, LocalOK, Trace, LeaseEffect, KnownEffect, PathEffect, Goto, Keep, On, Finish,
            store, hist
<1>1. CASE Use(w) \/ UsePut(w)
  BY <1>1, FirstLabels DEF Use, UsePut, RevokeInUse, Serve, Minting
<1>2. CASE RvServe(w)
  BY <1>2, FirstLabels DEF RvServe, DeleteToken, Minting
<1>3. CASE RvGet(w) \/ RvAcc(w) \/ RvReject(w) \/ RvPurge(w) \/ AcGet(w)
  BY <1>3 DEF RvGet, RvAcc, RvReject, RvPurge, DeleteToken, AcGet
<1>4. CASE Purge(w)
  BY <1>4 DEF Purge, Mint
<1>5. CASE Lock(w) \/ Pick(w) \/ RmLease(w)
  BY <1>5 DEF Lock, Pick, ScanLease, Visit, RmLease, NextLease
<1>6. CASE RnGet(w) \/ RnPut(w) \/ RnLease(w)
  BY <1>6 DEF RnGet, RnPut, RnLease
<1>7. CASE MkTok(w) \/ MkAcc(w) \/ MkLease(w) \/ MkCub(w)
  BY <1>7 DEF MkTok, MkAcc, MkLease, MkCub, Deliver
<1>8. CASE CbPut(w) \/ UnGet(w) \/ UnRead(w) \/ RwRead(w)
  BY <1>8 DEF CbPut, UnGet, UnRead, RwRead, ReadPayload
<1> QED BY <1>1, <1>2, <1>3, <1>4, <1>5, <1>6, <1>7, <1>8 DEF Step

SettledNext(t) == tok'[t] # None \/ t \in dead'

\* A token once settled stays so: only a revocation makes a record go away.
LEMMA SettledStays ==
  ASSUME TypeOK, TargetInv, MintedInv, NEW w \in Workers, Effect(w)
  PROVE  /\ \A t \in Tokens : Settled(t) => SettledNext(t)
         /\ dead \subseteq dead'
<1>1. pc[w] \in Writing \cup {"mk_tok"} => te[w] # None
  BY DEF MintedInv, Writing, Minting
<1> QED BY <1>1 DEF Effect, TokEffect, Settled, SettledNext, TypeOK, StoreOK

LEMMA KeptNext ==
  ASSUME TypeOK, TypeOK', TargetInv, MintedInv, KeptInv, [Next \/ Crash]_vars
  PROVE  KeptInv'
<1>1. CASE Tick \/ UNCHANGED vars
  BY <1>1 DEF Tick, vars, local, hist, store, KeptInv, LiveTokenKept, Settled
<1>2. CASE Crash
  BY <1>2, NoneAssumption DEF Crash, hist, store, KeptInv, LiveTokenKept, Settled
<1>3. ASSUME NEW w \in Workers, Arrive(w) \/ Step(w)
      PROVE  KeptInv'
  <2>1. Effect(w) /\ Trace(w) /\ Reachable(w)
    BY <1>3, EffectArrive, EffectStep, TraceArrive, TraceStep, ReachArrive, ReachStep
  <2>2. \A v \in Workers \ {w} : pc'[v] = pc[v] /\ tgt'[v] = tgt[v] /\ todo'[v] = todo[v]
    BY <1>3, Others
  <2>3. /\ \A t \in Tokens : Settled(t) => SettledNext(t)
        /\ dead \subseteq dead'
    BY <2>1, SettledStays
  <2>4. lease \ dead \subseteq lease'
    BY <2>1 DEF Trace, LeaseEffect, KeptInv
  <2>5. pc[w] \in {"mk_acc", "mk_lease", "rn_lease", "mk_cub"} =>
          tgt[w] \in Tokens /\ Settled(tgt[w])
    BY DEF TargetInv, KeptInv
  <2>6. known \cup lease \cup todo[w] \subseteq Tokens
    BY DEF TypeOK, StoreOK, LocalOK, HistOK
  <2>7. \A t \in known' \cup lease' : SettledNext(t)
    BY <2>1, <2>3, <2>5, <2>6 DEF Trace, LeaseEffect, KnownEffect, KeptInv
  <2>8. \A v \in Workers : pc'[v] # "mk_tok" /\ tgt'[v] \in Tokens => SettledNext(tgt'[v])
    <3>1. ASSUME pc'[w] # "mk_tok", tgt'[w] \in Tokens
          PROVE  SettledNext(tgt'[w])
      <4>1. CASE tgt'[w] \in known \cup lease \cup todo[w]
        BY <2>3, <2>6, <4>1 DEF KeptInv
      <4>2. CASE tgt'[w] = tgt[w] /\ pc[w] # "mk_tok"
        BY <2>3, <3>1, <4>2 DEF KeptInv
      <4>3. CASE tgt'[w] = tgt[w] /\ pc[w] = "mk_tok" /\ tok' = [tok EXCEPT ![tgt[w]] = te[w]]
        BY <3>1, <4>3 DEF MintedInv, Minting, SettledNext, TypeOK, StoreOK
      <4> QED BY <2>1, <3>1, <4>1, <4>2, <4>3, NoneAssumption DEF Trace, PathEffect
    <3>2. ASSUME NEW v \in Workers \ {w}, pc[v] # "mk_tok", tgt[v] \in Tokens
          PROVE  SettledNext(tgt[v])
      BY <2>3, <3>2 DEF KeptInv
    <3> QED BY <2>2, <3>1, <3>2
  <2>9. \A v \in Workers : \A t \in todo'[v] : SettledNext(t)
    <3>1. \A v \in Workers : todo'[v] \subseteq todo[v] \cup lease
      BY <2>1, <2>2 DEF Reachable
    <3>2. \A v \in Workers : todo[v] \subseteq Tokens
      BY DEF TypeOK, LocalOK
    <3> QED BY <2>3, <2>6, <3>1, <3>2 DEF KeptInv
  <2>10. \A v \in Workers : pc'[v] = "mk_cub" => tgt'[v] \in lease' \cup dead'
    BY <2>1, <2>2, <2>3, <2>4 DEF Trace, PathEffect, KeptInv
  <2>11. \A v \in Workers : pc'[v] \in {"purge", "rm_lease"} => tgt'[v] \in dead'
    <3>1. pc'[w] = "purge" => tgt'[w] \in dead'
      BY <2>1 DEF Trace, PathEffect
    <3>2. pc'[w] = "rm_lease" => tgt'[w] \in dead
      <4>1. pc[w] = "purge" => tgt[w] \in dead
        BY DEF KeptInv
      <4>2. pc[w] = "rn_get" /\ tok[tgt[w]] = None => tgt[w] \in dead
        BY DEF KeptInv, TargetInv, Settled
      <4>3. \A t \in todo[w] : tok[t] = None => t \in dead
        BY DEF KeptInv, Settled
      <4> QED BY <2>1, <4>1, <4>2, <4>3 DEF Trace, PathEffect
    <3>3. \A v \in Workers \ {w} : pc[v] \in {"purge", "rm_lease"} => tgt[v] \in dead
      BY DEF KeptInv
    <3> QED BY <2>2, <2>3, <3>1, <3>2, <3>3
  <2>12. LiveTokenKept'
    <3> SUFFICES ASSUME NEW t \in known', t \notin dead'
                 PROVE  tok'[t] # None /\ (minted'[t].expire # 0 => t \in lease')
      BY DEF LiveTokenKept
    <3>1. tok'[t] # None
      BY <2>7 DEF SettledNext
    <3>2. t \in Tokens /\ \A u \in Tokens : minted[u] # None => minted'[u] = minted[u]
      BY <1>3, MintedGrows DEF TypeOK, HistOK
    <3>3. CASE t \in known
      BY <2>3, <2>4, <3>1, <3>2, <3>3 DEF KeptInv, LiveTokenKept, MintedInv
    <3>4. CASE t = tgt[w] /\ pc[w] = "mk_acc" /\ te[w].expire = 0
      BY <3>1, <3>2, <3>4 DEF MintedInv, Minting
    <3>5. CASE t = tgt[w] /\ pc[w] = "mk_lease" /\ lease' = lease \cup {tgt[w]}
      BY <3>1, <3>5
    <3>6. CASE t = tgt[w] /\ pc[w] = "mk_cub"
      BY <2>3, <2>4, <3>1, <3>6 DEF KeptInv
    <3> QED BY <2>1, <3>3, <3>4, <3>5, <3>6 DEF Trace, KnownEffect
  <2> QED BY <2>7, <2>8, <2>9, <2>10, <2>11, <2>12 DEF KeptInv, Settled, SettledNext
<1> QED BY <1>1, <1>2, <1>3 DEF Next
------------------------------------------------------------------------------
(* Every copy of a token's entry, stored or about to be, is capped.        *)

Capped(t, e) ==
  /\ e.maxExpire = minted[t].maxExpire
  /\ minted[t].maxExpire > 0 /\ e.expire > minted[t].maxExpire
       => e.expire = minted[t].expire

CappedInv ==
  /\ \A t \in Tokens : tok[t] # None => minted[t] # None /\ Capped(t, tok[t])
  /\ \A w \in Workers : pc[w] \in Writing => Capped(tgt[w], te[w])

\* Where the entry of a use or of a renewal comes from.
CopyEffect(w) ==
  pc'[w] \in Writing =>
    /\ tgt'[w] = tgt[w] /\ tgt[w] \in Tokens /\ tok[tgt[w]] # None
    /\ \/ te'[w] = Spend(tok[tgt[w]])
       \/ \E inc \in Incs : te'[w] = Renewed(tok[tgt[w]], inc)

LEMMA CopyArrive ==
  ASSUME TypeOK, NEW w \in Workers, Arrive(w)
  PROVE  CopyEffect(w)
<1> USE DEF TypeOK, LocalOK, CopyEffect, Begin, Goto, Writing
<1>1. CASE BeginAdmin(w)
  BY <1>1, FirstLabels DEF BeginAdmin
<1>2. CASE BeginSelf(w) \/ BeginLease(w) \/ BeginBulk(w)
  BY <1>2 DEF BeginSelf, BeginLease, BeginBulk
<1>3. CASE BeginMint(w)
  BY <1>3 DEF BeginMint
<1> QED BY <1>1, <1>2, <1>3 DEF Arrive

LEMMA CopyStep ==
  ASSUME TypeOK, TargetInv, NEW w \in Workers, Step(w)
  PROVE  CopyEffect(w)
<1> USE DEF TypeOK, LocalOK, CopyEffect, Goto, Keep, On, Finish, Writing
<1>1. CASE Use(w)
  BY <1>1, FirstLabels DEF Use, RevokeInUse, Serve, TargetInv
<1>2. CASE UsePut(w) \/ RvServe(w)
  BY <1>2, FirstLabels DEF UsePut, RvServe, Serve
<1>3. CASE RvGet(w) \/ RvAcc(w) \/ RvReject(w) \/ RvPurge(w) \/ AcGet(w) \/ Purge(w)
  BY <1>3 DEF RvGet, RvAcc, RvReject, RvPurge, AcGet, Purge
<1>4. CASE Lock(w) \/ Pick(w) \/ RmLease(w)
  BY <1>4 DEF Lock, Pick, ScanLease, Visit, RmLease, NextLease
<1>5. CASE RnGet(w)
  BY <1>5 DEF RnGet, TargetInv
<1>6. CASE RnPut(w) \/ RnLease(w)
  BY <1>6 DEF RnPut, RnLease
<1>7. CASE MkTok(w) \/ MkAcc(w) \/ MkLease(w) \/ MkCub(w)
  BY <1>7 DEF MkTok, MkAcc, MkLease, MkCub, Deliver
<1>8. CASE CbPut(w) \/ UnGet(w) \/ UnRead(w) \/ RwRead(w)
  BY <1>8 DEF CbPut, UnGet, UnRead, RwRead, ReadPayload
<1> QED BY <1>1, <1>2, <1>3, <1>4, <1>5, <1>6, <1>7, <1>8 DEF Step

\* Neither a use nor a renewal makes an uncapped entry of a capped one.
LEMMA CopyCapped ==
  ASSUME TypeOK, NEW t \in Tokens, NEW e \in Entry, Capped(t, e), minted[t] \in Entry
  PROVE  /\ Capped(t, Spend(e))
         /\ \A inc \in Incs : Capped(t, Renewed(e, inc))
<1>1. Capped(t, Spend(e))
  BY DEF Capped, Spend, Entry
<1>2. ASSUME NEW inc \in Incs
      PROVE  Capped(t, Renewed(e, inc))
  BY IncsAssumption DEF Capped, Renewed, Entry, TypeOK, StoreOK
<1> QED BY <1>1, <1>2

LEMMA CappedNext ==
  ASSUME TypeOK, TypeOK', TargetInv, MintedInv, CappedInv, [Next \/ Crash]_vars
  PROVE  CappedInv'
<1>1. CASE Tick \/ UNCHANGED vars
  BY <1>1 DEF Tick, vars, local, hist, store, CappedInv, Capped
<1>2. CASE Crash
  BY <1>2 DEF Crash, hist, store, CappedInv, Capped, Writing
<1>3. ASSUME NEW w \in Workers, Arrive(w) \/ Step(w)
      PROVE  CappedInv'
  <2>1. Effect(w) /\ CopyEffect(w)
    BY <1>3, EffectArrive, EffectStep, CopyArrive, CopyStep
  <2>2. \A v \in Workers \ {w} : pc'[v] = pc[v] /\ tgt'[v] = tgt[v] /\ te'[v] = te[v]
    BY <1>3, Others
  <2>3. \A t \in Tokens : minted[t] # None => minted'[t] = minted[t]
    BY <1>3, MintedGrows
  <2>4. ASSUME NEW v \in Workers, pc[v] \in Writing \cup {"mk_tok"}
        PROVE  /\ tgt[v] \in Tokens /\ minted[tgt[v]] # None
               /\ Capped(tgt[v], te[v])
    BY <2>4 DEF TargetInv, MintedInv, CappedInv, Capped, Writing, Minting
  <2>5. ASSUME NEW t \in Tokens, tok'[t] # None
        PROVE  minted'[t] # None /\ Capped(t, tok[t])'
    <3>1. tok'[t] = tok[t] \/ (pc[w] \in Writing \cup {"mk_tok"} /\ t = tgt[w] /\ tok'[t] = te[w])
      BY <2>1, <2>5 DEF Effect, TokEffect, TypeOK, StoreOK
    <3>2. minted[t] # None /\ Capped(t, tok'[t])
      BY <2>4, <2>5, <3>1 DEF CappedInv
    <3>3. minted'[t] = minted[t]
      BY <2>3, <3>2
    <3> QED BY <3>2, <3>3 DEF Capped
  <2>6. ASSUME NEW v \in Workers, pc'[v] \in Writing
        PROVE  Capped(tgt[v], te[v])'
    <3>1. CASE v # w
      <4>1. /\ minted[tgt[v]] # None /\ Capped(tgt[v], te[v]) /\ tgt[v] \in Tokens
            /\ tgt'[v] = tgt[v] /\ te'[v] = te[v]
        BY <2>2, <2>4, <2>6, <3>1
      <4> QED BY <2>3, <4>1 DEF Capped
    <3>2. CASE v = w
      <4> DEFINE t == tgt[w]
      <4>1. tgt'[w] = t /\ t \in Tokens /\ tok[t] # None
        BY <2>1, <2>6, <3>2 DEF CopyEffect
      <4>2. Capped(t, tok[t]) /\ minted[t] # None /\ tok[t] \in Entry /\ minted[t] \in Entry
        BY <4>1 DEF CappedInv, TypeOK, StoreOK, HistOK
      <4>3. \/ te'[w] = Spend(tok[t])
            \/ \E inc \in Incs : te'[w] = Renewed(tok[t], inc)
        BY <2>1, <2>6, <3>2 DEF CopyEffect
      <4>4. Capped(t, te'[w])
        BY <4>1, <4>2, <4>3, CopyCapped
      <4> QED BY <2>3, <3>2, <4>1, <4>2, <4>4 DEF Capped
    <3> QED BY <3>1, <3>2
  <2> QED BY <2>5, <2>6 DEF CappedInv
<1> QED BY <1>1, <1>2, <1>3 DEF Next

------------------------------------------------------------------------------
(* The theorems. *)

LEMMA InitIInv == Init => IInv
<1> SUFFICES ASSUME Init PROVE IInv
  OBVIOUS
<1>1. TypeOK
  BY TypeInit
<1>2. TargetInv /\ MintedInv /\ PrivateInv
  BY NoneAssumption DEF Init, TargetInv, MintedInv, PrivateInv, Private, Writing, Minting
<1>3. AccessorInv /\ KeptInv
  BY NoneAssumption DEF Init, AccessorInv, AccessorHasToken, KeptInv, LiveTokenKept
<1> QED BY <1>1, <1>2, <1>3 DEF IInv

LEMMA NextIInv == IInv /\ [Next \/ Crash]_vars => IInv'
<1> SUFFICES ASSUME IInv, [Next \/ Crash]_vars PROVE IInv'
  OBVIOUS
<1>1. TypeOK'
  BY TypeNext DEF IInv
<1> QED BY <1>1, TargetNext, MintedNext, PrivateNext, AccessorNext, KeptNext DEF IInv

\* The inductive invariant holds under every interleaving and crash.
THEOREM Inductive == CrashSpec => []IInv
  BY InitIInv, NextIInv, PTL DEF CrashSpec

\* The records, the workers' locals and em.mu keep their types.
THEOREM TypeCorrect == CrashSpec => []TypeOK
<1>1. IInv => TypeOK
  BY DEF IInv
<1> QED BY <1>1, Inductive, PTL

\* tokenStore.create and revoke order their writes so that no accessor
\* record outlives its token.
THEOREM AccessorSafe == CrashSpec => []AccessorHasToken
<1>1. IInv => AccessorHasToken
  BY DEF IInv, AccessorInv
<1> QED BY <1>1, Inductive, PTL

\* A token handed out is stored, and leased if it expires, until a
\* revocation has deleted it.
THEOREM LiveTokenSafe == CrashSpec => []LiveTokenKept
<1>1. IInv => LiveTokenKept
  BY DEF IInv, KeptInv
<1> QED BY <1>1, Inductive, PTL

\* No step drops the lease of a token whose entry was never deleted.
THEOREM LeaseOrder == CrashSpec => LeaseGoesLast
<1>1. IInv /\ [Next \/ Crash]_vars => [lease \ lease' \subseteq dead]_vars
  <2> SUFFICES ASSUME IInv, Next \/ Crash
               PROVE  lease \ lease' \subseteq dead
    BY DEF vars
  <2>1. CASE Tick \/ Crash
    BY <2>1 DEF Tick, Crash, store
  <2>2. ASSUME NEW w \in Workers, Arrive(w) \/ Step(w)
        PROVE  lease \ lease' \subseteq dead
    BY <2>2, TraceArrive, TraceStep DEF IInv, Trace, LeaseEffect, KeptInv
  <2> QED BY <2>1, <2>2 DEF Next
<1> QED BY <1>1, Inductive, PTL DEF CrashSpec, LeaseGoesLast

\* Renewals, also those that write a stale copy back, respect the explicit
\* max TTL.
THEOREM ExplicitMaxSafe == CrashSpec => []ExplicitMaxHolds
<1>1. Init => CappedInv
  BY NoneAssumption DEF Init, CappedInv, Writing
<1>2. IInv /\ IInv' /\ CappedInv /\ [Next \/ Crash]_vars => CappedInv'
  BY CappedNext DEF IInv
<1>3. CappedInv => ExplicitMaxHolds
  BY DEF CappedInv, Capped, ExplicitMaxHolds
<1> QED BY <1>1, <1>2, <1>3, Inductive, PTL DEF CrashSpec
==============================================================================
