-------------------------- MODULE SealLifecycleProofs --------------------------
(***************************************************************************)
(* The safety properties of SealLifecycle for any workers, loops, seals    *)
(* and requested shares, any number of storage errors, and crashes.        *)
(***************************************************************************)
EXTENDS SealLifecycle, FiniteSetTheorems, TLAPS

BuildSteps == {"st_mounts", "st_audit", "st_devs", "st_auth", "st_start"}
InitSteps  == {"in_ring", "in_save", "in_open", "in_root", "in_wrap", "in_seal"}
Owned      == InitSteps \cup {"un_cfg", "un_open"} \cup BuildSteps

\* Which call a step belongs to, where the step reads its argument.
CallOf(w) ==
  /\ pc[w] \in InitSteps \cup {"in_lock"} => op[w] = "init"
  /\ pc[w] \in {"un_lock", "un_cfg", "un_open"} => op[w] = "unseal"
  /\ pc[w] \in {"rq_gate", "rq_audit", "rq_match", "rq_use"} => op[w] \in Requests
  /\ pc[w] \in {"sl_stop", "sl_wait", "sl_lock"} => op[w] = "seal"
  /\ pc[w] = "au_get" => op[w] = "auto"

\* Before the server listens there is at most one call, AutoUnseal.
AutoInv ==
  /\ ~booted => \A v, w \in Workers : pc[v] # "idle" /\ pc[w] # "idle" => v = w
  /\ \A w \in Workers : pc[w] = "au_get" => ~booted
  /\ ~booted => \A w \in Workers : pc[w] \in {"idle", "au_get"} \cup BuildSteps

\* Exactly the worker at a step under c.mu holds it.
LockInv == \A w \in Workers : pc[w] \in Owned <=> cmu = w

RevokerInv ==
  /\ running => cur \in Loops
  /\ \A g \in Loops : loop[g] # "off" /\ g \notin stopped <=> running /\ g = cur
  /\ \A g \in stopped : loop[g] # "off"

\* Shares are kept only by a sealed, initialized server between two calls; those
\* that will open the barrier are genuine, different and enough.
ShareInv ==
  /\ config = None => sealed /\ ~autoKey
  /\ IsFiniteSet(progress) /\ IsFiniteSet(given)
  /\ progress \ {0} \subseteq given
  /\ ~sealed \/ config = None \/ ~booted => progress = {}
  /\ \A w \in Workers :
       /\ pc[w] \in Owned \ {"un_cfg"} => progress = {}
       /\ pc[w] \in InitSteps => (config = None <=> pc[w] \in {"in_ring", "in_save"})
       /\ pc[w] \in {"un_cfg", "un_open"} => sealed
       /\ pc[w] = "un_open" => config # None /\ Cardinality(given) >= config.t

\* Shares and the root token exist once the seal config does.
HandedInv == /\ handed => config # None
             /\ \A w \in Workers : pc[w] \in BuildSteps /\ op[w] = "init"
                                  => config # None

Building == {"st_audit", "st_devs", "st_auth"}

\* While nobody holds c.mu, an open barrier has its mounts and devices, and a
\* revoker or a Seal that stopped it.
ServeInv == faults = 0 =>
  /\ router = "building" => \E w \in Workers : pc[w] \in Building
  /\ \A w \in Workers : pc[w] = "st_start" => router = "built"
  /\ \A w \in Workers : pc[w] \in {"st_auth", "st_start"} /\ devices => broker = "on"
  /\ ~sealed => \/ \E w \in Workers : pc[w] \in Owned
                \/ /\ router = "built" /\ (devices => broker = "on")
                   /\ running \/ \E w \in Workers : pc[w] \in {"sl_wait", "sl_lock"}

Calling == \A w \in Workers : CallOf(w)

IInv == TypeOK /\ Calling /\ AutoInv /\ LockInv /\ RevokerInv /\ ShareInv
        /\ HandedInv /\ ServeInv

------------------------------------------------------------------------------
(* Types. *)

USE NoneAssumption, MayAssumption, SealsAssumption, ParamsAssumption, FaultsAssumption

\* The two halves of TypeOK.
StateTypes ==
  /\ ring \in BOOLEAN /\ config \in InitParams \cup {None}
  /\ autoKey \in BOOLEAN /\ devices \in BOOLEAN
  /\ sealed \in BOOLEAN /\ progress \subseteq Nat
  /\ router \in {"none", "building", "built"} /\ broker \in {"nil", "empty", "on"}
  /\ running \in BOOLEAN
  /\ cur \in Loops \cup {None} /\ loop \in [Loops -> {"off", "wait", "scan"}]
  /\ stopped \subseteq Loops /\ emu \in Loops \cup {None}
  /\ kind \in Seals /\ booted \in BOOLEAN
  /\ handed \in BOOLEAN /\ given \subseteq Nat \ {0}
  /\ faults \in Nat

WorkerTypes ==
  /\ cmu \in Workers \cup {None}
  /\ pc \in [Workers -> Labels]
  /\ op \in [Workers -> Calls \cup {None}]
  /\ DOMAIN arg = Workers
  /\ \A w \in Workers : CASE op[w] = "unseal" -> arg[w] \in Nat
                          [] op[w] = "init"   -> arg[w] \in InitParams
                          [] op[w] = "seal"   -> arg[w] \in Loops \cup {None}
                          [] OTHER            -> arg[w] = None
  /\ owed \in [Workers -> SUBSET {"request", "response"}]

\* A step of a call keeps the types and calls the right steps.
LEMMA StepTypes ==
  ASSUME TypeOK, Calling, HandedInv, ShareInv, RevokerInv, NEW w \in Workers, Step(w)
  PROVE  StateTypes' /\ WorkerTypes' /\ Calling'
<1> USE DEF TypeOK, Calling, CallOf, InitSteps, Finish, On, LockOn, Goto, disk, mem,
     rev, hist, Labels, Calls, Requests
<1>1. CASE InLock(w)
  <2>1. StateTypes'
    BY <1>1, SMTT(20) DEF InLock, Valid, StateTypes
  <2>2. WorkerTypes'
    BY <1>1, SMTT(20) DEF InLock, Valid, WorkerTypes
  <2>3. Calling'
    BY <1>1, SMTT(20) DEF InLock, Valid
  <2> QED BY <2>1, <2>2, <2>3
<1>2. CASE InRing(w)
  <2>1. StateTypes'
    BY <1>2, SMTT(20) DEF InRing, StateTypes
  <2>2. WorkerTypes'
    BY <1>2, SMTT(20) DEF InRing, WorkerTypes
  <2>3. Calling'
    BY <1>2, SMTT(20) DEF InRing
  <2> QED BY <2>1, <2>2, <2>3
<1>3. CASE InSave(w)
  <2>1. StateTypes'
    BY <1>3, SMTT(20) DEF InSave, StateTypes
  <2>2. WorkerTypes'
    BY <1>3, SMTT(20) DEF InSave, WorkerTypes
  <2>3. Calling'
    BY <1>3, SMTT(20) DEF InSave
  <2> QED BY <2>1, <2>2, <2>3
<1>4. CASE InOpen(w)
  <2>1. StateTypes'
    <3>1. sealed' = FALSE /\ UNCHANGED <<ring, config, autoKey, devices, progress,
                                         router, broker, kind, booted, running, cur,
                                         loop, stopped, emu, handed, faults>>
          /\ given' = given
      BY <1>4 DEF InOpen
    <3>2. sealed' \in BOOLEAN
      BY <3>1, Zenon
    <3> QED BY <3>1, <3>2 DEF StateTypes
  <2>2. WorkerTypes'
    BY <1>4, SMTT(20) DEF InOpen, WorkerTypes
  <2>3. Calling'
    BY <1>4, SMTT(20) DEF InOpen
  <2> QED BY <2>1, <2>2, <2>3
<1>5. CASE InRoot(w)
  <2>1. StateTypes'
    BY <1>5, SMTT(20) DEF InRoot, StateTypes
  <2>2. WorkerTypes'
    BY <1>5, SMTT(20) DEF InRoot, WorkerTypes
  <2>3. Calling'
    BY <1>5, SMTT(20) DEF InRoot
  <2> QED BY <2>1, <2>2, <2>3
<1>6. CASE InSeal(w)
  <2>1. StateTypes'
    BY <1>6, SMTT(20) DEF InSeal, StateTypes
  <2>2. WorkerTypes'
    BY <1>6, SMTT(20) DEF InSeal, WorkerTypes
  <2>3. Calling'
    BY <1>6, SMTT(20) DEF InSeal
  <2> QED BY <2>1, <2>2, <2>3
<1>7. CASE InWrap(w)
  <2>1. StateTypes'
    BY <1>7, SMTT(20) DEF InWrap, StateTypes
  <2>2. WorkerTypes'
    BY <1>7, SMTT(20) DEF InWrap, WorkerTypes
  <2>3. Calling'
    BY <1>7, SMTT(20) DEF InWrap
  <2> QED BY <2>1, <2>2, <2>3
<1>8. CASE UnLock(w)
  <2>1. StateTypes'
    BY <1>8, SMTT(20) DEF UnLock, StateTypes
  <2>2. WorkerTypes'
    BY <1>8, SMTT(20) DEF UnLock, WorkerTypes
  <2>3. Calling'
    BY <1>8, SMTT(20) DEF UnLock
  <2> QED BY <2>1, <2>2, <2>3
<1>9. CASE UnShare(w)
  <2>1. StateTypes'
    BY <1>9, SMTT(20) DEF UnShare, Submit, Combines, StateTypes
  <2>2. WorkerTypes'
    BY <1>9, SMTT(20) DEF UnShare, Submit, Combines, WorkerTypes
  <2>3. Calling'
    BY <1>9, SMTT(20) DEF UnShare, Submit, Combines
  <2> QED BY <2>1, <2>2, <2>3
<1>10. CASE UnOpen(w)
  <2>1. StateTypes'
    <3>1. sealed' = FALSE /\ UNCHANGED <<ring, config, autoKey, devices, progress,
                                         router, broker, kind, booted, running, cur,
                                         loop, stopped, emu, handed, faults>>
          /\ given' = {}
      BY <1>10 DEF UnOpen
    <3>2. sealed' \in BOOLEAN
      BY <3>1, Zenon
    <3> QED BY <3>1, <3>2 DEF StateTypes
  <2>2. WorkerTypes'
    BY <1>10, SMTT(20) DEF UnOpen, WorkerTypes
  <2>3. Calling'
    BY <1>10, SMTT(20) DEF UnOpen
  <2> QED BY <2>1, <2>2, <2>3
<1>11. CASE AuGet(w)
  <2>1. StateTypes'
    <3>1. sealed' \in {sealed, FALSE} /\ booted' \in {booted, TRUE}
      BY <1>11, Zenon DEF AuGet
    <3>2. sealed' \in BOOLEAN /\ booted' \in BOOLEAN
      BY <3>1, Zenon
    <3>3. UNCHANGED <<ring, config, autoKey, devices, progress, router, broker,
                      kind, running, cur, loop, stopped, emu, handed, given,
                      faults>>
      BY <1>11 DEF AuGet
    <3> QED BY <3>2, <3>3 DEF StateTypes
  <2>2. WorkerTypes'
    BY <1>11, SMTT(20) DEF AuGet, WorkerTypes
  <2>3. Calling'
    BY <1>11, SMTT(20) DEF AuGet
  <2> QED BY <2>1, <2>2, <2>3
<1>12. CASE StMounts(w)
  <2>1. StateTypes'
    BY <1>12, SMTT(20) DEF StMounts, StateTypes
  <2>2. WorkerTypes'
    BY <1>12, SMTT(20) DEF StMounts, WorkerTypes
  <2>3. Calling'
    BY <1>12, SMTT(20) DEF StMounts
  <2> QED BY <2>1, <2>2, <2>3
<1>13. CASE StAudit(w)
  <2>1. StateTypes'
    BY <1>13, SMTT(20) DEF StAudit, StateTypes
  <2>2. WorkerTypes'
    BY <1>13, SMTT(20) DEF StAudit, WorkerTypes
  <2>3. Calling'
    BY <1>13, SMTT(20) DEF StAudit
  <2> QED BY <2>1, <2>2, <2>3
<1>14. CASE StDevs(w)
  <2>1. StateTypes'
    BY <1>14, SMTT(20) DEF StDevs, StateTypes
  <2>2. WorkerTypes'
    BY <1>14, SMTT(20) DEF StDevs, WorkerTypes
  <2>3. Calling'
    BY <1>14, SMTT(20) DEF StDevs
  <2> QED BY <2>1, <2>2, <2>3
<1>15. CASE StAuth(w)
  <2>1. StateTypes'
    BY <1>15, SMTT(20) DEF StAuth, StateTypes
  <2>2. WorkerTypes'
    BY <1>15, SMTT(20) DEF StAuth, WorkerTypes
  <2>3. Calling'
    BY <1>15, SMTT(20) DEF StAuth
  <2> QED BY <2>1, <2>2, <2>3
<1>16. CASE StStart(w)
  <2>1. StateTypes'
    <3>1. handed' \in BOOLEAN /\ booted' \in BOOLEAN
      BY <1>16, Zenon DEF StStart
    <3>2. running' \in BOOLEAN
      BY <1>16, Zenon DEF StStart, Start
    <3>3. cur' \in Loops \cup {None} /\ loop' \in [Loops -> {"off", "wait", "scan"}]
          /\ stopped' = stopped /\ emu' = emu
      BY <1>16 DEF StStart, Start
    <3>4. UNCHANGED <<ring, config, autoKey, devices, sealed, progress, router,
                      broker, kind, given, faults>>
      BY <1>16 DEF StStart
    <3> QED BY <3>1, <3>2, <3>3, <3>4 DEF StateTypes
  <2>2. WorkerTypes'
    BY <1>16, SMTT(20) DEF StStart, Start, WorkerTypes
  <2>3. Calling'
    BY <1>16, SMTT(20) DEF StStart, Start
  <2> QED BY <2>1, <2>2, <2>3
<1>17. CASE SlStop(w)
  <2>1. StateTypes'
    <3>1. running' \in BOOLEAN
      BY <1>17, Zenon DEF SlStop
    <3>2. cur' \in Loops \cup {None} /\ stopped' \subseteq Loops
      BY <1>17 DEF SlStop, RevokerInv
    <3>3. UNCHANGED <<ring, config, autoKey, devices, sealed, progress, router,
                      broker, kind, booted, loop, emu, handed, given, faults>>
      BY <1>17 DEF SlStop
    <3> QED BY <3>1, <3>2, <3>3 DEF StateTypes
  <2>2. WorkerTypes'
    BY <1>17, SMTT(20) DEF SlStop, WorkerTypes
  <2>3. Calling'
    BY <1>17, SMTT(20) DEF SlStop
  <2> QED BY <2>1, <2>2, <2>3
<1>18. CASE SlWait(w)
  <2>1. StateTypes'
    BY <1>18, SMTT(20) DEF SlWait, StateTypes
  <2>2. WorkerTypes'
    BY <1>18, SMTT(20) DEF SlWait, WorkerTypes
  <2>3. Calling'
    BY <1>18, SMTT(20) DEF SlWait
  <2> QED BY <2>1, <2>2, <2>3
<1>19. CASE SlSeal(w)
  <2>1. StateTypes'
    BY <1>19, SMTT(20) DEF SlSeal, StateTypes
  <2>2. WorkerTypes'
    BY <1>19, SMTT(20) DEF SlSeal, WorkerTypes
  <2>3. Calling'
    BY <1>19, SMTT(20) DEF SlSeal
  <2> QED BY <2>1, <2>2, <2>3
<1>20. CASE RsReset(w)
  <2>1. StateTypes'
    BY <1>20, SMTT(20) DEF RsReset, StateTypes
  <2>2. WorkerTypes'
    BY <1>20, SMTT(20) DEF RsReset, WorkerTypes
  <2>3. Calling'
    BY <1>20, SMTT(20) DEF RsReset
  <2> QED BY <2>1, <2>2, <2>3
<1>21. CASE RqGate(w)
  <2>1. StateTypes'
    BY <1>21, SMTT(20) DEF RqGate, StateTypes
  <2>2. WorkerTypes'
    BY <1>21, SMTT(20) DEF RqGate, WorkerTypes
  <2>3. Calling'
    BY <1>21, SMTT(20) DEF RqGate
  <2> QED BY <2>1, <2>2, <2>3
<1>22. CASE RqAudit(w)
  <2>1. StateTypes'
    BY <1>22, SMTT(20) DEF RqAudit, Owe, StateTypes
  <2>2. WorkerTypes'
    BY <1>22, SMTT(20) DEF RqAudit, Owe, WorkerTypes
  <2>3. Calling'
    BY <1>22, SMTT(20) DEF RqAudit, Owe
  <2> QED BY <2>1, <2>2, <2>3
<1>23. CASE RqMatch(w)
  <2>1. StateTypes'
    BY <1>23, SMTT(20) DEF RqMatch, StateTypes
  <2>2. WorkerTypes'
    BY <1>23, SMTT(20) DEF RqMatch, WorkerTypes
  <2>3. Calling'
    BY <1>23, SMTT(20) DEF RqMatch
  <2> QED BY <2>1, <2>2, <2>3
<1>24. CASE RqUse(w)
  <2>1. StateTypes'
    BY <1>24, SMTT(20) DEF RqUse, StateTypes
  <2>2. WorkerTypes'
    BY <1>24, SMTT(20) DEF RqUse, WorkerTypes
  <2>3. Calling'
    BY <1>24, SMTT(20) DEF RqUse
  <2> QED BY <2>1, <2>2, <2>3
<1>25. CASE RqRoute(w)
  <2>1. StateTypes'
    BY <1>25, SMTT(20) DEF RqRoute, StateTypes
  <2>2. WorkerTypes'
    BY <1>25, SMTT(20) DEF RqRoute, WorkerTypes
  <2>3. Calling'
    BY <1>25, SMTT(20) DEF RqRoute
  <2> QED BY <2>1, <2>2, <2>3
<1>26. CASE RqPut(w)
  <2>1. StateTypes'
    BY <1>26, SMTT(20) DEF RqPut, StateTypes
  <2>2. WorkerTypes'
    BY <1>26, SMTT(20) DEF RqPut, WorkerTypes
  <2>3. Calling'
    BY <1>26, SMTT(20) DEF RqPut
  <2> QED BY <2>1, <2>2, <2>3
<1>27. CASE EaLock(w)
  <2>1. StateTypes'
    <3>1. devices' \in BOOLEAN
      BY <1>27, Zenon DEF EaLock
    <3>2. broker' \in {"nil", "empty", "on"}
      BY <1>27 DEF EaLock
    <3>3. UNCHANGED <<ring, config, autoKey, sealed, progress, router, kind, booted,
                      running, cur, loop, stopped, emu, handed, given, faults>>
      BY <1>27 DEF EaLock
    <3> QED BY <3>1, <3>2, <3>3 DEF StateTypes
  <2>2. WorkerTypes'
    BY <1>27, SMTT(20) DEF EaLock, WorkerTypes
  <2>3. Calling'
    BY <1>27, SMTT(20) DEF EaLock
  <2> QED BY <2>1, <2>2, <2>3
<1>28. CASE RqResp(w)
  <2>1. StateTypes'
    BY <1>28, SMTT(20) DEF RqResp, Owe, StateTypes
  <2>2. WorkerTypes'
    BY <1>28, SMTT(20) DEF RqResp, Owe, WorkerTypes
  <2>3. Calling'
    BY <1>28, SMTT(20) DEF RqResp, Owe
  <2> QED BY <2>1, <2>2, <2>3
<1>29. CASE RqSend(w)
  <2>1. StateTypes'
    BY <1>29, SMTT(20) DEF RqSend, StateTypes
  <2>2. WorkerTypes'
    BY <1>29, SMTT(20) DEF RqSend, WorkerTypes
  <2>3. Calling'
    BY <1>29, SMTT(20) DEF RqSend
  <2> QED BY <2>1, <2>2, <2>3
<1> QED BY <1>1, <1>2, <1>3, <1>4, <1>5, <1>6, <1>7, <1>8, <1>9, <1>10, <1>11,
     <1>12, <1>13, <1>14, <1>15, <1>16, <1>17, <1>18, <1>19, <1>20, <1>21, <1>22,
     <1>23, <1>24, <1>25, <1>26, <1>27, <1>28, <1>29 DEF Step

\* So does the arrival of a call, ...
LEMMA ArriveTypes ==
  ASSUME TypeOK, Calling, HandedInv, NEW w \in Workers, Arrive(w)
  PROVE  TypeOK' /\ Calling'
<1> USE DEF TypeOK, Calling, CallOf, InitSteps, Begin, Goto, disk, mem, rev, hist,
     Labels, Calls, Requests
<1>1. CASE BeginAuto(w)
  BY <1>1, SMTT(30) DEF BeginAuto
<1>2. CASE BeginInit(w)
  BY <1>2, SMTT(30) DEF BeginInit
<1>3. CASE BeginUnseal(w)
  <2>1. PICK s \in {0} \cup (IF handed THEN 1..config.n ELSE {}) :
           Begin(w, "unseal", s, "un_lock")
    BY <1>3 DEF BeginUnseal
  <2>2. s \in Nat
    BY SMTT(30) DEF HandedInv
  <2> QED BY <2>1, <2>2, SMTT(30)
<1>4. CASE BeginReset(w)
  BY <1>4, SMTT(30) DEF BeginReset
<1>5. CASE BeginRequest(w)
  BY <1>5, SMTT(30) DEF BeginRequest
<1> QED BY <1>1, <1>2, <1>3, <1>4, <1>5 DEF Arrive

\* ... a storage error, ...
LEMMA FailTypes ==
  ASSUME TypeOK, Calling, NEW w \in Workers, Fail(w)
  PROVE  TypeOK' /\ Calling'
<1> USE DEF TypeOK, Calling, CallOf, InitSteps, Finish, Goto, disk, mem, rev, hist,
     Labels, Calls, Requests
<1>1. WorkerTypes'
  BY SMTT(30) DEF Fail, WorkerTypes
<1>2. StateTypes'
  <2>1. booted' \in BOOLEAN
    BY Zenon DEF Fail
  <2>2. faults' \in Nat
    BY DEF Fail
  <2>3. UNCHANGED <<ring, config, autoKey, devices, sealed, progress, router,
                    broker, kind, running, cur, loop, stopped, emu, handed, given>>
    BY DEF Fail
  <2> QED BY <2>1, <2>2, <2>3 DEF StateTypes
<1>3. Calling'
  BY SMTT(30) DEF Fail
<1> QED BY <1>1, <1>2, <1>3 DEF StateTypes, WorkerTypes

\* ... a step of the revoker ...
LEMMA LoopTypes ==
  ASSUME TypeOK, Calling, NEW g \in Loops, ScanBegin(g) \/ ScanEnd(g) \/ Exit(g)
  PROVE  TypeOK' /\ Calling'
BY SMTT(30) DEF TypeOK, Calling, CallOf, ScanBegin, ScanEnd, Exit, disk, mem, local,
     hist

\* ... and a crash.
LEMMA CrashTypes ==
  ASSUME TypeOK, Calling, Crash
  PROVE  TypeOK' /\ Calling'
<1> USE DEF TypeOK, Crash, disk
<1>1. WorkerTypes'
  BY SMTT(30) DEF WorkerTypes, Labels, Calls, Requests
<1>2. StateTypes'
  <2>1. booted' \in BOOLEAN
    BY Zenon
  <2>2. sealed' \in BOOLEAN
    BY Zenon
  <2>3. running' \in BOOLEAN
    BY Zenon
  <2>4. UNCHANGED <<ring, config, autoKey, devices, kind, handed, faults>>
    OBVIOUS
  <2> QED BY <2>1, <2>2, <2>3, <2>4 DEF StateTypes
<1>3. Calling'
  BY DEF Calling, CallOf, InitSteps, Requests
<1> QED BY <1>1, <1>2, <1>3 DEF StateTypes, WorkerTypes

------------------------------------------------------------------------------
(* Who holds c.mu. *)

\* A step takes c.mu exactly when it is free, and releases it when its call returns.
LEMMA StepControl ==
  ASSUME TypeOK, Calling, AutoInv, LockInv, NEW w \in Workers, Step(w)
  PROVE  AutoInv' /\ LockInv'
<1> USE DEF TypeOK, Labels, Finish, On, LockOn, Goto, disk, mem, rev, hist,
     InitSteps, BuildSteps, Owned
<1>1. CASE InLock(w)
  <2>1. LockInv'
    BY <1>1, SMTT(20) DEF InLock, Valid, LockInv
  <2>2. AutoInv'
    BY <1>1, SMTT(20) DEF InLock, Valid, LockInv, AutoInv
  <2> QED BY <2>1, <2>2
<1>2. CASE InRing(w)
  <2>1. LockInv'
    BY <1>2, SMTT(20) DEF InRing, LockInv
  <2>2. AutoInv'
    BY <1>2, SMTT(20) DEF InRing, LockInv, AutoInv
  <2> QED BY <2>1, <2>2
<1>3. CASE InSave(w)
  <2>1. LockInv'
    BY <1>3, SMTT(20) DEF InSave, LockInv
  <2>2. AutoInv'
    BY <1>3, SMTT(20) DEF InSave, LockInv, AutoInv
  <2> QED BY <2>1, <2>2
<1>4. CASE InOpen(w)
  <2>1. LockInv'
    BY <1>4, SMTT(20) DEF InOpen, LockInv
  <2>2. AutoInv'
    BY <1>4, SMTT(20) DEF InOpen, LockInv, AutoInv
  <2> QED BY <2>1, <2>2
<1>5. CASE InRoot(w)
  <2>1. LockInv'
    BY <1>5, SMTT(20) DEF InRoot, LockInv
  <2>2. AutoInv'
    BY <1>5, SMTT(20) DEF InRoot, LockInv, AutoInv
  <2> QED BY <2>1, <2>2
<1>6. CASE InSeal(w)
  <2>1. LockInv'
    BY <1>6, SMTT(20) DEF InSeal, LockInv
  <2>2. AutoInv'
    BY <1>6, SMTT(20) DEF InSeal, LockInv, AutoInv
  <2> QED BY <2>1, <2>2
<1>7. CASE InWrap(w)
  <2>1. LockInv'
    BY <1>7, SMTT(20) DEF InWrap, LockInv
  <2>2. AutoInv'
    BY <1>7, SMTT(20) DEF InWrap, LockInv, AutoInv
  <2> QED BY <2>1, <2>2
<1>8. CASE UnLock(w)
  <2>1. LockInv'
    BY <1>8, SMTT(20) DEF UnLock, LockInv
  <2>2. AutoInv'
    BY <1>8, SMTT(20) DEF UnLock, LockInv, AutoInv
  <2> QED BY <2>1, <2>2
<1>9. CASE UnShare(w)
  <2>1. LockInv'
    BY <1>9, SMTT(20) DEF UnShare, LockInv
  <2>2. AutoInv'
    BY <1>9, SMTT(20) DEF UnShare, LockInv, AutoInv
  <2> QED BY <2>1, <2>2
<1>10. CASE UnOpen(w)
  <2>1. LockInv'
    BY <1>10, SMTT(20) DEF UnOpen, LockInv
  <2>2. AutoInv'
    BY <1>10, SMTT(20) DEF UnOpen, LockInv, AutoInv
  <2> QED BY <2>1, <2>2
<1>11. CASE AuGet(w)
  <2>a. cmu = None
    BY <1>11, SMTT(20) DEF AuGet, LockInv, AutoInv
  <2>1. LockInv'
    BY <1>11, <2>a, SMTT(20) DEF AuGet, LockInv
  <2>2. AutoInv'
    BY <1>11, SMTT(20) DEF AuGet, LockInv, AutoInv
  <2> QED BY <2>1, <2>2
<1>12. CASE StMounts(w)
  <2>1. LockInv'
    BY <1>12, SMTT(20) DEF StMounts, LockInv
  <2>2. AutoInv'
    BY <1>12, SMTT(20) DEF StMounts, LockInv, AutoInv
  <2> QED BY <2>1, <2>2
<1>13. CASE StAudit(w)
  <2>1. LockInv'
    BY <1>13, SMTT(20) DEF StAudit, LockInv
  <2>2. AutoInv'
    BY <1>13, SMTT(20) DEF StAudit, LockInv, AutoInv
  <2> QED BY <2>1, <2>2
<1>14. CASE StDevs(w)
  <2>1. LockInv'
    BY <1>14, SMTT(20) DEF StDevs, LockInv
  <2>2. AutoInv'
    BY <1>14, SMTT(20) DEF StDevs, LockInv, AutoInv
  <2> QED BY <2>1, <2>2
<1>15. CASE StAuth(w)
  <2>1. LockInv'
    BY <1>15, SMTT(20) DEF StAuth, LockInv
  <2>2. AutoInv'
    BY <1>15, SMTT(20) DEF StAuth, LockInv, AutoInv
  <2> QED BY <2>1, <2>2
<1>16. CASE StStart(w)
  <2>1. LockInv'
    BY <1>16, SMTT(20) DEF StStart, LockInv
  <2>2. AutoInv'
    BY <1>16, SMTT(20) DEF StStart, LockInv, AutoInv
  <2> QED BY <2>1, <2>2
<1>17. CASE SlStop(w)
  <2>1. LockInv'
    BY <1>17, SMTT(20) DEF SlStop, LockInv
  <2>2. AutoInv'
    BY <1>17, SMTT(20) DEF SlStop, LockInv, AutoInv
  <2> QED BY <2>1, <2>2
<1>18. CASE SlWait(w)
  <2>1. LockInv'
    BY <1>18, SMTT(20) DEF SlWait, LockInv
  <2>2. AutoInv'
    BY <1>18, SMTT(20) DEF SlWait, LockInv, AutoInv
  <2> QED BY <2>1, <2>2
<1>19. CASE SlSeal(w)
  <2>1. LockInv'
    BY <1>19, SMTT(20) DEF SlSeal, LockInv
  <2>2. AutoInv'
    BY <1>19, SMTT(20) DEF SlSeal, LockInv, AutoInv
  <2> QED BY <2>1, <2>2
<1>20. CASE RsReset(w)
  <2>1. LockInv'
    BY <1>20, SMTT(20) DEF RsReset, LockInv
  <2>2. AutoInv'
    BY <1>20, SMTT(20) DEF RsReset, LockInv, AutoInv
  <2> QED BY <2>1, <2>2
<1>21. CASE RqGate(w)
  <2>1. LockInv'
    BY <1>21, SMTT(20) DEF RqGate, LockInv
  <2>2. AutoInv'
    BY <1>21, SMTT(20) DEF RqGate, LockInv, AutoInv
  <2> QED BY <2>1, <2>2
<1>22. CASE RqAudit(w)
  <2>1. LockInv'
    BY <1>22, SMTT(20) DEF RqAudit, Owe, LockInv
  <2>2. AutoInv'
    BY <1>22, SMTT(20) DEF RqAudit, Owe, LockInv, AutoInv
  <2> QED BY <2>1, <2>2
<1>23. CASE RqMatch(w)
  <2>1. LockInv'
    BY <1>23, SMTT(20) DEF RqMatch, LockInv
  <2>2. AutoInv'
    BY <1>23, SMTT(20) DEF RqMatch, LockInv, AutoInv
  <2> QED BY <2>1, <2>2
<1>24. CASE RqUse(w)
  <2>a. op[w] \in Requests
    BY <1>24 DEF RqUse, Calling, CallOf
  <2>b. \E l \in {"rq_resp", "rq_route", "sl_stop", "ea_lock"} : On(w, l)
    BY <1>24, <2>a, SMTT(20) DEF RqUse, Requests
  <2>c. pc[w] = "rq_use" /\ UNCHANGED booted
    BY <1>24 DEF RqUse
  <2>1. LockInv'
    BY <2>b, <2>c, SMTT(20) DEF LockInv
  <2>2. AutoInv'
    BY <2>b, <2>c, SMTT(20) DEF AutoInv
  <2> QED BY <2>1, <2>2
<1>25. CASE RqRoute(w)
  <2>1. LockInv'
    BY <1>25, SMTT(20) DEF RqRoute, LockInv
  <2>2. AutoInv'
    BY <1>25, SMTT(20) DEF RqRoute, LockInv, AutoInv
  <2> QED BY <2>1, <2>2
<1>26. CASE RqPut(w)
  <2>1. LockInv'
    BY <1>26, SMTT(20) DEF RqPut, LockInv
  <2>2. AutoInv'
    BY <1>26, SMTT(20) DEF RqPut, LockInv, AutoInv
  <2> QED BY <2>1, <2>2
<1>27. CASE EaLock(w)
  <2>1. LockInv'
    BY <1>27, SMTT(20) DEF EaLock, LockInv
  <2>2. AutoInv'
    BY <1>27, SMTT(20) DEF EaLock, LockInv, AutoInv
  <2> QED BY <2>1, <2>2
<1>28. CASE RqResp(w)
  <2>1. LockInv'
    BY <1>28, SMTT(20) DEF RqResp, Owe, LockInv
  <2>2. AutoInv'
    BY <1>28, SMTT(20) DEF RqResp, Owe, LockInv, AutoInv
  <2> QED BY <2>1, <2>2
<1>29. CASE RqSend(w)
  <2>1. LockInv'
    BY <1>29, SMTT(20) DEF RqSend, LockInv
  <2>2. AutoInv'
    BY <1>29, SMTT(20) DEF RqSend, LockInv, AutoInv
  <2> QED BY <2>1, <2>2
<1> QED BY <1>1, <1>2, <1>3, <1>4, <1>5, <1>6, <1>7, <1>8, <1>9, <1>10, <1>11,
     <1>12, <1>13, <1>14, <1>15, <1>16, <1>17, <1>18, <1>19, <1>20, <1>21, <1>22,
     <1>23, <1>24, <1>25, <1>26, <1>27, <1>28, <1>29 DEF Step

\* The steps of nobody's call.
Background == Crash \/ \E g \in Loops : ScanBegin(g) \/ ScanEnd(g) \/ Exit(g)

\* What else happens does not disturb c.mu.
LEMMA OtherControl ==
  ASSUME TypeOK, AutoInv, LockInv,
         Background \/ \E w \in Workers : Arrive(w) \/ Fail(w)
  PROVE  AutoInv' /\ LockInv'
<1> USE DEF TypeOK, Labels, disk, mem, rev, hist, InitSteps, BuildSteps, Owned
<1>1. CASE Crash
  <2>1. pc' = [w \in Workers |-> "idle"] /\ cmu' = None
    BY <1>1 DEF Crash
  <2> QED BY <2>1, SMTT(20) DEF LockInv, AutoInv
<1>2. CASE \E g \in Loops : ScanBegin(g) \/ ScanEnd(g) \/ Exit(g)
  <2>1. UNCHANGED <<pc, cmu, booted>>
    BY <1>2 DEF ScanBegin, ScanEnd, Exit, local
  <2> QED BY <2>1 DEF LockInv, AutoInv
<1>3. ASSUME NEW w \in Workers, Fail(w)
      PROVE  AutoInv' /\ LockInv'
  <2>1. LockInv'
    BY <1>3, SMTT(20) DEF LockInv, Fail, Finish, Goto
  <2>2. AutoInv'
    BY <1>3, SMTT(20) DEF AutoInv, Fail, StorageSteps, Finish, Goto
  <2> QED BY <2>1, <2>2
<1>4. ASSUME NEW w \in Workers, Arrive(w)
      PROVE  AutoInv' /\ LockInv'
  <2>1. \E l \in {"au_get", "in_lock", "un_lock", "rs_lock", "rq_gate"} :
           /\ pc[w] = "idle" /\ Goto(w, l) /\ UNCHANGED <<cmu, booted>>
           /\ IF l = "au_get" THEN ~booted /\ \A v \in Workers : pc[v] = "idle"
              ELSE booted
    BY <1>4, SMTT(20) DEF Arrive, BeginAuto, BeginInit, BeginUnseal, BeginReset,
       BeginRequest, Begin, Requests
  <2>2. LockInv'
    BY <2>1, SMTT(20) DEF LockInv, Goto
  <2>3. AutoInv'
    BY <2>1, SMTT(20) DEF AutoInv, Goto
  <2> QED BY <2>2, <2>3
<1> QED BY <1>1, <1>2, <1>3, <1>4 DEF Background

------------------------------------------------------------------------------
(* The revoker. *)

\* Only Start, em.stop, the loops and a crash touch the revoker.
LEMMA RevokerStep ==
  ASSUME TypeOK, RevokerInv, [Next]_vars
  PROVE  RevokerInv'
<1> USE DEF TypeOK, rev
<1>1. CASE UNCHANGED rev
  BY <1>1 DEF RevokerInv
<1>2. ASSUME NEW w \in Workers, StStart(w)
      PROVE  RevokerInv'
  <2>1. CASE UNCHANGED rev
    BY <1>1, <2>1
  <2>2. ASSUME NEW g \in Loops, loop[g] = "off", ~running, running', cur' = g,
               loop' = [loop EXCEPT ![g] = "wait"], stopped' = stopped
        PROVE  RevokerInv'
    BY <2>2, SMTT(20) DEF RevokerInv
  <2> QED BY <1>2, <2>1, <2>2 DEF StStart, Start
<1>3. ASSUME NEW w \in Workers, SlStop(w)
      PROVE  RevokerInv'
  <2>1. CASE running
    <3>1. ~running' /\ stopped' = stopped \cup {cur} /\ loop' = loop
      BY <1>3, <2>1 DEF SlStop
    <3> QED BY <2>1, <3>1, SMTT(20) DEF RevokerInv
  <2>2. CASE ~running
    BY <1>3, <2>2, <1>1 DEF SlStop
  <2> QED BY <2>1, <2>2
<1>4. ASSUME NEW g \in Loops, ScanBegin(g) \/ ScanEnd(g)
      PROVE  RevokerInv'
  <2>1. /\ UNCHANGED <<running, cur, stopped>> /\ loop[g] # "off"
        /\ \E s \in {"wait", "scan"} : loop' = [loop EXCEPT ![g] = s]
    BY <1>4 DEF ScanBegin, ScanEnd
  <2> QED BY <2>1, SMTT(20) DEF RevokerInv
<1>5. ASSUME NEW g \in Loops, Exit(g)
      PROVE  RevokerInv'
  <2>1. /\ UNCHANGED <<running, cur>> /\ g \in stopped
        /\ loop' = [loop EXCEPT ![g] = "off"] /\ stopped' = stopped \ {g}
    BY <1>5 DEF Exit
  <2> QED BY <2>1, SMTT(20) DEF RevokerInv
<1>6. CASE Crash
  <2>1. ~running' /\ stopped' = {} /\ loop' = [g \in Loops |-> "off"]
    BY <1>6 DEF Crash
  <2> QED BY <2>1, SMTT(20) DEF RevokerInv
<1>7. ASSUME NEW w \in Workers, Step(w), ~StStart(w), ~SlStop(w)
      PROVE  UNCHANGED rev
  BY <1>7 DEF Step, InLock, InRing, InSave, InOpen, InRoot, InSeal, InWrap, UnLock,
     UnShare, UnOpen, AuGet, StMounts, StAudit, StDevs, StAuth, SlWait, SlSeal,
     RsReset, RqGate, RqAudit, RqMatch, RqUse, RqRoute, RqPut, EaLock,
     RqResp, RqSend
<1>8. ASSUME NEW w \in Workers, Arrive(w) \/ Fail(w)
      PROVE  UNCHANGED rev
  BY <1>8 DEF Arrive, BeginAuto, BeginInit, BeginUnseal, BeginReset, BeginRequest,
     Begin, Fail
<1>9. CASE UNCHANGED vars
  BY <1>1, <1>9 DEF vars
<1> QED BY <1>1, <1>2, <1>3, <1>4, <1>5, <1>6, <1>7, <1>8, <1>9 DEF Next

------------------------------------------------------------------------------
(* The shares. *)

\* Initialize returns shares only after the seal config is saved.
LEMMA StepHanded ==
  ASSUME TypeOK, Calling, ShareInv, HandedInv, NEW w \in Workers, Step(w)
  PROVE  HandedInv'
<1> USE DEF TypeOK, Calling, CallOf, Labels, Calls, Requests, Finish, On, LockOn,
     Goto, disk, mem, rev, hist, InitSteps, BuildSteps, HandedInv
<1>1. CASE InLock(w)
  BY <1>1, SMTT(20) DEF InLock, Valid, ShareInv, Owned
<1>2. CASE InRing(w)
  BY <1>2, SMTT(20) DEF InRing, ShareInv, Owned
<1>3. CASE InSave(w)
  BY <1>3, SMTT(20) DEF InSave, ShareInv, Owned
<1>4. CASE InOpen(w)
  BY <1>4, SMTT(20) DEF InOpen, ShareInv, Owned
<1>5. CASE InRoot(w)
  BY <1>5, SMTT(20) DEF InRoot, ShareInv, Owned
<1>6. CASE InSeal(w)
  BY <1>6, SMTT(20) DEF InSeal, ShareInv, Owned
<1>7. CASE InWrap(w)
  BY <1>7, SMTT(20) DEF InWrap, ShareInv, Owned
<1>8. CASE UnLock(w)
  BY <1>8, SMTT(20) DEF UnLock
<1>9. CASE UnShare(w)
  BY <1>9, SMTT(20) DEF UnShare
<1>10. CASE UnOpen(w)
  BY <1>10, SMTT(20) DEF UnOpen
<1>11. CASE AuGet(w)
  BY <1>11, SMTT(20) DEF AuGet
<1>12. CASE StMounts(w)
  BY <1>12, SMTT(20) DEF StMounts
<1>13. CASE StAudit(w)
  BY <1>13, SMTT(20) DEF StAudit
<1>14. CASE StDevs(w)
  BY <1>14, SMTT(20) DEF StDevs
<1>15. CASE StAuth(w)
  BY <1>15, SMTT(20) DEF StAuth
<1>16. CASE StStart(w)
  BY <1>16, SMTT(20) DEF StStart
<1>17. CASE SlStop(w)
  BY <1>17, SMTT(20) DEF SlStop
<1>18. CASE SlWait(w)
  BY <1>18, SMTT(20) DEF SlWait
<1>19. CASE SlSeal(w)
  BY <1>19, SMTT(20) DEF SlSeal
<1>20. CASE RsReset(w)
  BY <1>20, SMTT(20) DEF RsReset
<1>21. CASE RqGate(w)
  BY <1>21, SMTT(20) DEF RqGate
<1>22. CASE RqAudit(w)
  BY <1>22, SMTT(20) DEF RqAudit, Owe
<1>23. CASE RqMatch(w)
  BY <1>23, SMTT(20) DEF RqMatch
<1>24. CASE RqUse(w)
  BY <1>24, SMTT(20) DEF RqUse
<1>25. CASE RqRoute(w)
  BY <1>25, SMTT(20) DEF RqRoute
<1>26. CASE RqPut(w)
  BY <1>26, SMTT(20) DEF RqPut
<1>27. CASE EaLock(w)
  BY <1>27, SMTT(20) DEF EaLock
<1>28. CASE RqResp(w)
  BY <1>28, SMTT(20) DEF RqResp, Owe
<1>29. CASE RqSend(w)
  BY <1>29, SMTT(20) DEF RqSend
<1> QED BY <1>1, <1>2, <1>3, <1>4, <1>5, <1>6, <1>7, <1>8, <1>9, <1>10, <1>11,
     <1>12, <1>13, <1>14, <1>15, <1>16, <1>17, <1>18, <1>19, <1>20, <1>21, <1>22,
     <1>23, <1>24, <1>25, <1>26, <1>27, <1>28, <1>29 DEF Step

\* The seal config is never removed.
LEMMA OtherHanded ==
  ASSUME TypeOK, HandedInv, Background \/ \E w \in Workers : Arrive(w) \/ Fail(w)
  PROVE  HandedInv'
<1> USE DEF TypeOK, disk, hist, HandedInv, BuildSteps
<1>1. CASE Crash
  BY <1>1, SMTT(20) DEF Crash
<1>2. CASE \E g \in Loops : ScanBegin(g) \/ ScanEnd(g) \/ Exit(g)
  BY <1>2, SMTT(20) DEF ScanBegin, ScanEnd, Exit, local
<1>3. ASSUME NEW w \in Workers, Fail(w)
      PROVE  HandedInv'
  BY <1>3, SMTT(20) DEF Fail, Finish, Goto
<1>4. ASSUME NEW w \in Workers, Arrive(w)
      PROVE  HandedInv'
  <2>1. \E l \in {"au_get", "in_lock", "un_lock", "rs_lock", "rq_gate"} : Goto(w, l)
    BY <1>4, SMTT(20) DEF Arrive, BeginAuto, BeginInit, BeginUnseal, BeginReset,
       BeginRequest, Begin
  <2>2. UNCHANGED <<handed, config>> /\ \A v \in Workers \ {w} : op'[v] = op[v]
    BY <1>4, SMTT(20) DEF Arrive, BeginAuto, BeginInit, BeginUnseal, BeginReset,
       BeginRequest, Begin
  <2> QED BY <2>1, <2>2, SMTT(20) DEF Goto
<1> QED BY <1>1, <1>2, <1>3, <1>4 DEF Background

\* The shares that are kept are genuine or foreign, and forgotten when combined.
LEMMA StepShares ==
  ASSUME TypeOK, Calling, AutoInv, LockInv, ShareInv, NEW w \in Workers, Step(w)
  PROVE  ShareInv'
<1> USE DEF TypeOK, Labels, Finish, On, LockOn, Goto, disk, mem, rev, hist,
     InitSteps, BuildSteps, Owned
<1> USE FS_EmptySet DEF LockInv, ShareInv
<1>1. CASE InLock(w)
  BY <1>1, SMTT(20) DEF InLock
<1>2. CASE InRing(w)
  BY <1>2, SMTT(20) DEF InRing
<1>3. CASE InSave(w)
  BY <1>3, SMTT(20) DEF InSave, Calling, CallOf
<1>4. CASE InOpen(w)
  BY <1>4, SMTT(20) DEF InOpen
<1>5. CASE InRoot(w)
  BY <1>5, SMTT(20) DEF InRoot
<1>6. CASE InSeal(w)
  BY <1>6, SMTT(20) DEF InSeal
<1>7. CASE InWrap(w)
  BY <1>7, SMTT(20) DEF InWrap
<1>8. CASE UnLock(w)
  BY <1>8, SMTT(20) DEF UnLock, AutoInv
<1>9. CASE UnShare(w)
  <2> DEFINE s == arg[w]
  <2>1. s \in Nat /\ pc[w] = "un_cfg" /\ cmu = w /\ sealed /\ booted
    BY <1>9, SMTT(20) DEF UnShare, Calling, CallOf, AutoInv
  <2>2. CASE config = None
    BY <1>9, <2>1, <2>2, SMTT(20) DEF UnShare
  <2>3. CASE config # None /\ ~Combines(s)
    <3>1. Submit(s) /\ Finish(w)
          /\ UNCHANGED <<config, autoKey, sealed, booted>>
      BY <1>9, <2>3, SMTT(20) DEF UnShare
    <3>2. IsFiniteSet(progress') /\ IsFiniteSet(given')
      <4>1. IsFiniteSet(progress \cup {s}) /\ IsFiniteSet(given \cup {s})
        BY FS_AddElement
      <4>2. progress' \in {progress, {}, progress \cup {s}}
        BY <3>1 DEF Submit
      <4>3. given' \in {given, given \cup {s}}
        BY <3>1 DEF Submit
      <4> QED BY <4>1, <4>2, <4>3
    <3>3. progress' \ {0} \subseteq given'
      BY <3>1 DEF Submit
    <3> QED BY <2>1, <2>3, <3>1, <3>2, <3>3, SMTT(20)
  <2>4. CASE config # None /\ Combines(s)
    <3>1. Submit(s) /\ On(w, "un_open")
          /\ UNCHANGED <<config, autoKey, sealed, booted>>
      BY <1>9, <2>4, SMTT(20) DEF UnShare
    <3>2. progress' = {} /\ given' = given \cup {s}
      BY <2>1, <2>4, <3>1 DEF Submit, Combines
    <3>3. IsFiniteSet(given') /\ progress \cup {s} \subseteq given'
      <4>1. IsFiniteSet(given \cup {s})
        BY FS_AddElement
      <4>2. progress \subseteq given
        BY <2>4 DEF Combines
      <4> QED BY <3>2, <4>1, <4>2
    <3>4. Cardinality(given') >= config.t
      <4>1. Cardinality(progress \cup {s}) = Cardinality(progress) + 1
        BY <2>4, FS_AddElement DEF Combines
      <4>2. Cardinality(progress \cup {s}) <= Cardinality(given')
        BY <3>3, FS_Subset
      <4>3. config.t \in Nat
        BY <2>4
      <4> QED BY <2>4, <3>3, <4>1, <4>2, <4>3, FS_CardinalityType,
           FS_AddElement DEF Combines
    <3>5. pc' = [pc EXCEPT ![w] = "un_open"] /\ cmu' = w
      BY <2>1, <3>1
    <3>6. \A v \in Workers \ {w} : pc'[v] \notin Owned
      BY <2>1, <3>5
    <3> HIDE DEF Owned
    <3>7. /\ pc'[w] = "un_open" /\ UNCHANGED <<config, autoKey, sealed, booted>>
          /\ IsFiniteSet(progress')
      BY <3>1, <3>2, <3>5
    <3> HIDE DEF s
    <3>8. ASSUME NEW v \in Workers
          PROVE  /\ pc'[v] \in Owned \ {"un_cfg"} => progress' = {}
                 /\ pc'[v] \notin InitSteps
                 /\ pc'[v] \in {"un_cfg", "un_open"} => sealed'
                 /\ pc'[v] = "un_open"
                      => config' # None /\ Cardinality(given') >= config'.t
      <4>1. /\ config' # None /\ Cardinality(given') >= config'.t
            /\ sealed' /\ progress' = {}
        BY <2>1, <2>4, <3>2, <3>4, <3>7
      <4>2. CASE v = w
        BY <3>7, <4>1, <4>2
      <4>3. CASE v # w
        BY <3>6, <4>1, <4>3 DEF Owned
      <4> QED BY <4>2, <4>3
    <3>9. (config' = None => sealed' /\ ~autoKey')
      BY <2>4, <3>7
    <3> QED BY <3>2, <3>3, <3>7, <3>8, <3>9
  <2> QED BY <2>2, <2>3, <2>4
<1>10. CASE UnOpen(w)
  BY <1>10, SMTT(20) DEF UnOpen
<1>11. CASE AuGet(w)
  BY <1>11, SMTT(20) DEF AuGet, AutoInv
<1>12. CASE StMounts(w)
  BY <1>12, SMTT(20) DEF StMounts
<1>13. CASE StAudit(w)
  BY <1>13, SMTT(20) DEF StAudit
<1>14. CASE StDevs(w)
  BY <1>14, SMTT(20) DEF StDevs
<1>15. CASE StAuth(w)
  BY <1>15, SMTT(20) DEF StAuth
<1>16. CASE StStart(w)
  BY <1>16, SMTT(20) DEF StStart
<1>17. CASE SlStop(w)
  BY <1>17, SMTT(20) DEF SlStop
<1>18. CASE SlWait(w)
  BY <1>18, SMTT(20) DEF SlWait
<1>19. CASE SlSeal(w)
  BY <1>19, SMTT(20) DEF SlSeal
<1>20. CASE RsReset(w)
  BY <1>20, SMTT(20) DEF RsReset
<1>21. CASE RqGate(w)
  BY <1>21, SMTT(20) DEF RqGate
<1>22. CASE RqAudit(w)
  BY <1>22, SMTT(20) DEF RqAudit, Owe
<1>23. CASE RqMatch(w)
  BY <1>23, SMTT(20) DEF RqMatch
<1>24. CASE RqUse(w)
  BY <1>24, SMTT(20) DEF RqUse, Calling, CallOf, Requests
<1>25. CASE RqRoute(w)
  BY <1>25, SMTT(20) DEF RqRoute
<1>26. CASE RqPut(w)
  BY <1>26, SMTT(20) DEF RqPut
<1>27. CASE EaLock(w)
  BY <1>27, SMTT(20) DEF EaLock
<1>28. CASE RqResp(w)
  BY <1>28, SMTT(20) DEF RqResp, Owe
<1>29. CASE RqSend(w)
  BY <1>29, SMTT(20) DEF RqSend
<1> QED BY <1>1, <1>2, <1>3, <1>4, <1>5, <1>6, <1>7, <1>8, <1>9, <1>10, <1>11,
     <1>12, <1>13, <1>14, <1>15, <1>16, <1>17, <1>18, <1>19, <1>20, <1>21, <1>22,
     <1>23, <1>24, <1>25, <1>26, <1>27, <1>28, <1>29 DEF Step

\* No other step submits a share.
LEMMA OtherShares ==
  ASSUME TypeOK, ShareInv, Background \/ \E w \in Workers : Arrive(w) \/ Fail(w)
  PROVE  ShareInv'
<1> USE FS_EmptySet DEF TypeOK, disk, mem, rev, hist, ShareInv, InitSteps,
     BuildSteps, Owned
<1>1. CASE Crash
  BY <1>1, SMTT(20) DEF Crash
<1>2. CASE \E g \in Loops : ScanBegin(g) \/ ScanEnd(g) \/ Exit(g)
  BY <1>2, SMTT(20) DEF ScanBegin, ScanEnd, Exit, local
<1>3. ASSUME NEW w \in Workers, Fail(w)
      PROVE  ShareInv'
  BY <1>3, SMTT(20) DEF Fail, Finish, Goto
<1>4. ASSUME NEW w \in Workers, Arrive(w)
      PROVE  ShareInv'
  <2>1. \E l \in {"au_get", "in_lock", "un_lock", "rs_lock", "rq_gate"} :
           pc[w] = "idle" /\ Goto(w, l)
    BY <1>4, SMTT(20) DEF Arrive, BeginAuto, BeginInit, BeginUnseal, BeginReset,
       BeginRequest, Begin
  <2>2. UNCHANGED <<disk, mem, rev, hist>>
    BY <1>4, SMTT(20) DEF Arrive, BeginAuto, BeginInit, BeginUnseal, BeginReset,
       BeginRequest, Begin
  <2> QED BY <2>1, <2>2, SMTT(20) DEF Goto
<1> QED BY <1>1, <1>2, <1>3, <1>4 DEF Background

------------------------------------------------------------------------------
(* The mounts, the devices and the revoker of an open barrier. *)

\* finishUnseal ends with the mounts, the devices and the revoker.
LEMMA StepServes ==
  ASSUME TypeOK, Calling, LockInv, ShareInv, ServeInv, NEW w \in Workers, Step(w)
  PROVE  ServeInv'
<1> USE DEF TypeOK, Labels, Finish, On, LockOn, Goto, disk, mem, rev, hist,
     InitSteps, BuildSteps, Building, Owned
<1> USE DEF LockInv, ServeInv
<1>1. CASE InLock(w)
  BY <1>1, SMTT(20) DEF InLock
<1>2. CASE InRing(w)
  BY <1>2, SMTT(20) DEF InRing, ShareInv
<1>3. CASE InSave(w)
  BY <1>3, SMTT(20) DEF InSave
<1>4. CASE InOpen(w)
  BY <1>4, SMTT(20) DEF InOpen
<1>5. CASE InRoot(w)
  BY <1>5, SMTT(20) DEF InRoot
<1>6. CASE InSeal(w)
  BY <1>6, SMTT(20) DEF InSeal
<1>7. CASE InWrap(w)
  BY <1>7, SMTT(20) DEF InWrap
<1>8. CASE UnLock(w)
  BY <1>8, SMTT(20) DEF UnLock
<1>9. CASE UnShare(w)
  BY <1>9, SMTT(20) DEF UnShare, ShareInv
<1>10. CASE UnOpen(w)
  BY <1>10, SMTT(20) DEF UnOpen
<1>11. CASE AuGet(w)
  BY <1>11, SMTT(20) DEF AuGet
<1>12. CASE StMounts(w)
  BY <1>12, SMTT(20) DEF StMounts
<1>13. CASE StAudit(w)
  BY <1>13, SMTT(20) DEF StAudit
<1>14. CASE StDevs(w)
  BY <1>14, SMTT(20) DEF StDevs
<1>15. CASE StAuth(w)
  BY <1>15, SMTT(20) DEF StAuth
<1>16. CASE StStart(w)
  BY <1>16, SMTT(20) DEF StStart, Start
<1>17. CASE SlStop(w)
  BY <1>17, SMTT(20) DEF SlStop
<1>18. CASE SlWait(w)
  BY <1>18, SMTT(20) DEF SlWait
<1>19. CASE SlSeal(w)
  BY <1>19, SMTT(20) DEF SlSeal
<1>20. CASE RsReset(w)
  BY <1>20, SMTT(20) DEF RsReset
<1>21. CASE RqGate(w)
  BY <1>21, SMTT(20) DEF RqGate
<1>22. CASE RqAudit(w)
  BY <1>22, SMTT(20) DEF RqAudit, Owe
<1>23. CASE RqMatch(w)
  BY <1>23, SMTT(20) DEF RqMatch
<1>24. CASE RqUse(w)
  BY <1>24, SMTT(20) DEF RqUse, Calling, CallOf, Requests
<1>25. CASE RqRoute(w)
  BY <1>25, SMTT(20) DEF RqRoute
<1>26. CASE RqPut(w)
  BY <1>26, SMTT(20) DEF RqPut
<1>27. CASE EaLock(w)
  BY <1>27, SMTT(20) DEF EaLock
<1>28. CASE RqResp(w)
  BY <1>28, SMTT(20) DEF RqResp, Owe
<1>29. CASE RqSend(w)
  BY <1>29, SMTT(20) DEF RqSend
<1> QED BY <1>1, <1>2, <1>3, <1>4, <1>5, <1>6, <1>7, <1>8, <1>9, <1>10, <1>11,
     <1>12, <1>13, <1>14, <1>15, <1>16, <1>17, <1>18, <1>19, <1>20, <1>21, <1>22,
     <1>23, <1>24, <1>25, <1>26, <1>27, <1>28, <1>29 DEF Step

\* A storage error ends the promise, a crash seals the barrier.
LEMMA OtherServes ==
  ASSUME TypeOK, ServeInv, Background \/ \E w \in Workers : Arrive(w) \/ Fail(w)
  PROVE  ServeInv'
<1> USE DEF TypeOK, disk, mem, rev, hist, ServeInv, InitSteps, BuildSteps, Building,
     Owned
<1>1. CASE Crash
  BY <1>1, SMTT(20) DEF Crash
<1>2. CASE \E g \in Loops : ScanBegin(g) \/ ScanEnd(g) \/ Exit(g)
  BY <1>2, SMTT(20) DEF ScanBegin, ScanEnd, Exit, local
<1>3. ASSUME NEW w \in Workers, Fail(w)
      PROVE  ServeInv'
  BY <1>3, SMTT(20) DEF Fail
<1>4. ASSUME NEW w \in Workers, Arrive(w)
      PROVE  ServeInv'
  <2>1. \E l \in {"au_get", "in_lock", "un_lock", "rs_lock", "rq_gate"} :
           pc[w] = "idle" /\ Goto(w, l)
    BY <1>4, SMTT(20) DEF Arrive, BeginAuto, BeginInit, BeginUnseal, BeginReset,
       BeginRequest, Begin
  <2>2. UNCHANGED <<disk, mem, rev, hist>>
    BY <1>4, SMTT(20) DEF Arrive, BeginAuto, BeginInit, BeginUnseal, BeginReset,
       BeginRequest, Begin
  <2> QED BY <2>1, <2>2, SMTT(20) DEF Goto
<1> QED BY <1>1, <1>2, <1>3, <1>4 DEF Background

------------------------------------------------------------------------------
(* The theorems. *)

\* The invariant holds when the process starts first.
LEMMA Initially == Init => IInv
<1> SUFFICES ASSUME Init
             PROVE  IInv
  OBVIOUS
<1> USE DEF Init, Boot
<1>1. WorkerTypes
  BY SMTT(20) DEF WorkerTypes, Labels, Calls, Requests
<1>2. StateTypes
  <2>1. sealed \in BOOLEAN /\ running \in BOOLEAN /\ booted \in BOOLEAN
    BY Zenon
  <2>2. /\ ring \in BOOLEAN /\ autoKey \in BOOLEAN
        /\ devices \in BOOLEAN /\ handed \in BOOLEAN
    BY Zenon
  <2>3. /\ config = None /\ progress = {} /\ router = "none" /\ broker = "nil"
        /\ cur = None /\ loop = [g \in Loops |-> "off"] /\ stopped = {}
        /\ emu = None /\ kind \in Seals /\ given = {} /\ faults = 0
    OBVIOUS
  <2> HIDE DEF Init, Boot
  <2> QED BY <2>1, <2>2, <2>3 DEF StateTypes
<1>3. TypeOK
  BY <1>1, <1>2 DEF TypeOK, StateTypes, WorkerTypes
<1>4. Calling
  BY DEF Calling, CallOf, InitSteps, Requests
<1>5. AutoInv /\ LockInv
  BY DEF AutoInv, LockInv, InitSteps, BuildSteps, Owned
<1>6. RevokerInv /\ HandedInv
  BY DEF RevokerInv, HandedInv, BuildSteps
<1>7. ShareInv
  BY FS_EmptySet DEF ShareInv, InitSteps, BuildSteps, Owned
<1>8. ServeInv
  BY DEF ServeInv, Building
<1> QED BY <1>3, <1>4, <1>5, <1>6, <1>7, <1>8 DEF IInv

\* Every step preserves it.
LEMMA Inductive == IInv /\ [Next]_vars => IInv'
<1> SUFFICES ASSUME IInv, [Next]_vars
             PROVE  IInv'
  OBVIOUS
<1> USE DEF IInv
<1>1. RevokerInv'
  BY RevokerStep
<1>2. ASSUME NEW w \in Workers, Step(w)
      PROVE  IInv'
  <2>1. TypeOK' /\ Calling'
    BY <1>2, StepTypes, SMTT(20) DEF TypeOK, StateTypes, WorkerTypes
  <2> QED BY <1>1, <1>2, <2>1, StepControl, StepHanded, StepShares, StepServes
<1>3. ASSUME Background \/ \E w \in Workers : Arrive(w) \/ Fail(w)
      PROVE  IInv'
  <2>1. TypeOK' /\ Calling'
    BY <1>3, ArriveTypes, FailTypes, LoopTypes, CrashTypes DEF Background
  <2> QED BY <1>1, <1>3, <2>1, OtherControl, OtherHanded, OtherShares, OtherServes
<1>4. CASE UNCHANGED vars
  BY <1>4 DEF vars, TypeOK, Calling, CallOf, AutoInv, LockInv, RevokerInv, ShareInv,
     HandedInv, ServeInv
<1> QED BY <1>2, <1>3, <1>4 DEF Next, Background

\* The invariant the others follow from: who holds c.mu, what the revoker and
\* the submitted shares are worth, and what an open barrier comes with.
THEOREM Invariant == Spec => []IInv
BY Initially, Inductive, PTL DEF Spec

\* Every variable keeps its type, through every call, storage error and crash.
THEOREM TypeOKHolds == Spec => []TypeOK
<1>1. IInv => TypeOK
  BY DEF IInv
<1> QED BY <1>1, Invariant, PTL

\* A server whose barrier is open and that serves no call has built its mounts,
\* put on its audit devices and runs its revoker, unless storage failed.
THEOREM UnsealedServesHolds == Spec => []UnsealedServes
<1>1. IInv => UnsealedServes
  BY DEF IInv, ServeInv, UnsealedServes, Quiet, Owned, InitSteps, BuildSteps, Building
<1> QED BY <1>1, Invariant, PTL

\* Only a threshold of different genuine shares opens the barrier, for any
\* number of shares and any threshold Initialize accepts.
THEOREM QuorumOpensHolds == Spec => []QuorumOpens
<1>1. IInv => QuorumOpens
  BY DEF IInv, ShareInv, QuorumOpens
<1> QED BY <1>1, Invariant, PTL

\* An open barrier leaves no share in memory.
THEOREM SharesForgottenHolds == Spec => []SharesForgotten
<1>1. IInv => SharesForgotten
  BY DEF IInv, ShareInv, SharesForgotten
<1> QED BY <1>1, Invariant, PTL

\* However Seal and Unseal race, one revoker loop is alive that was not told to
\* stop, or none, as em.running says.
THEOREM OneRevokerHolds == Spec => []OneRevoker
<1>1. IInv => OneRevoker
  <2> SUFFICES ASSUME IInv
               PROVE  OneRevoker
    OBVIOUS
  <2> DEFINE Alive == {g \in Loops : loop[g] # "off" /\ g \notin stopped}
  <2>1. CASE running
    <3>1. Alive = {cur}
      BY <2>1 DEF IInv, RevokerInv
    <3> QED BY <2>1, <3>1, FS_Singleton DEF OneRevoker
  <2>2. CASE ~running
    <3>1. Alive = {}
      BY <2>2 DEF IInv, RevokerInv
    <3> QED BY <2>2, <3>1, FS_EmptySet DEF OneRevoker
  <2> QED BY <2>1, <2>2
<1> QED BY <1>1, Invariant, PTL

\* No request is routed by a half-built mount table: dispatchLogical takes c.mu
\* for reading, and whoever builds the table holds it.
THEOREM RoutedWhenBuiltHolds == Spec => RoutedWhenBuilt
<1> DEFINE R == \A w \in Workers :
       pc[w] = "rq_route" /\ pc'[w] = "rq_put" /\ faults = 0 => router = "built"
<1>1. ASSUME IInv, [Next]_vars
      PROVE  R
  <2> SUFFICES ASSUME NEW w \in Workers, pc[w] = "rq_route", pc'[w] = "rq_put",
                      faults = 0
               PROVE  router = "built"
    OBVIOUS
  <2> USE <1>1 DEF IInv, TypeOK
  <2>1. cmu = None /\ router # "none"
    <3>1. ASSUME NEW v \in Workers, Step(v), v # w
          PROVE  pc'[w] = pc[w]
      BY <3>1 DEF Step, InLock, InRing, InSave, InOpen, InRoot, InSeal, InWrap, UnLock,
         UnShare, UnOpen, AuGet, StMounts, StAudit, StDevs, StAuth, StStart, SlStop,
         SlWait, SlSeal, RsReset, RqGate, RqAudit, RqMatch, RqUse, RqRoute, RqPut,
         EaLock, RqResp, RqSend, Finish, On, LockOn, Goto
    <3>2. ASSUME Step(w)
          PROVE  RqRoute(w)
      BY <3>2 DEF Step, InLock, InRing, InSave, InOpen, InRoot, InSeal, InWrap, UnLock,
         UnShare, UnOpen, AuGet, StMounts, StAudit, StDevs, StAuth, StStart, SlStop,
         SlWait, SlSeal, RsReset, RqGate, RqAudit, RqMatch, RqUse, RqPut, EaLock,
         RqResp, RqSend, On, Finish, Goto
    <3>3. RqRoute(w) => cmu = None /\ router # "none"
      BY DEF RqRoute, On, Goto
    <3>4. ASSUME NEW v \in Workers, Fail(v)
          PROVE  pc'[w] # "rq_put"
      BY <3>4 DEF Fail, Finish, Goto
    <3>5. ASSUME NEW v \in Workers, Arrive(v)
          PROVE  pc'[w] # "rq_put"
      BY <3>5 DEF Arrive, BeginAuto, BeginInit, BeginUnseal, BeginReset, BeginRequest,
         Begin, Goto
    <3>6. ASSUME Background
          PROVE  pc'[w] # "rq_put"
      BY <3>6 DEF Background, Crash, ScanBegin, ScanEnd, Exit, local
    <3>7. CASE UNCHANGED vars
      BY <3>7 DEF vars
    <3> QED BY <3>1, <3>2, <3>3, <3>4, <3>5, <3>6, <3>7 DEF Next, Background
  <2>2. router # "building"
    BY <2>1, NoneAssumption DEF ServeInv, LockInv, Building, BuildSteps, Owned
  <2> QED BY <2>1, <2>2
<1>2. IInv /\ [Next]_vars => [R]_vars
  BY <1>1
<1>3. [][R]_vars => RoutedWhenBuilt
  BY PTL DEF RoutedWhenBuilt
<1> QED BY <1>2, <1>3, Invariant, PTL DEF Spec
==============================================================================
