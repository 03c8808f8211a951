---------------------------- MODULE SealLifecycle ----------------------------
(***************************************************************************)
(* Initialization, unsealing and sealing of a server, the background       *)
(* revoker that unsealing starts and sealing stops, and the gate a request *)
(* passes on its way to a backend while any of that happens.               *)
(*                                                                         *)
(* c.mu is held by the lifecycle operations and, for reading, only while a *)
(* request is matched to a mount; the sealed check, the audit log and the  *)
(* barrier operations of a request run outside it.  A worker is a          *)
(* goroutine serving one call; a loop is a goroutine of the revoker.       *)
(***************************************************************************)
EXTENDS Naturals, FiniteSets

CONSTANTS Workers,    \* goroutines that serve calls
          May,        \* May[w]: the calls worker w serves
          Loops,      \* bound: revoker goroutines alive at a time
          Seals,      \* subset of {"shamir", "transit"}: seals the server may
                      \* be configured with
          InitParams, \* requested [n |-> shares, t |-> threshold]
          MaxFaults,  \* bound: storage errors
          None        \* no value

Requests == {"write", "seal", "audit"}
Calls    == {"auto", "init", "unseal", "reset"} \cup Requests

ASSUME MayAssumption    == May \in [Workers -> SUBSET Calls]
ASSUME NoneAssumption   == /\ None \notin Loops /\ None \notin Workers
                           /\ None \notin Calls /\ None \notin InitParams
ASSUME SealsAssumption  == Seals \subseteq {"shamir", "transit"} /\ Seals # {}
ASSUME ParamsAssumption == InitParams \subseteq [n : Nat, t : Nat]
ASSUME FaultsAssumption == MaxFaults \in Nat

VARIABLES
  ring,     \* disk, core/keyring: the barrier key, wrapped by the root key
  config,   \* disk, core/seal-config: [n, t], or None
  autoKey,  \* disk, core/auto-unseal-key: the root key, wrapped by the KMS
  devices,  \* disk, core/audit-devices: an audit device is enabled
  sealed,   \* barrier.sealed
  progress, \* shares submitted so far (0 is no share of this root key)
  router,   \* the mount tables: "none", "building" or "built"
  broker,   \* the audit broker: "nil", "empty" or "on" (has the device)
  cmu,      \* the worker that holds c.mu for writing
  running,  \* em.running
  cur,      \* the loop em.stopCh and em.doneCh belong to
  loop,     \* a revoker goroutine: "off", "wait" or "scan"
  stopped,  \* loops whose stopCh is closed
  emu,      \* the loop that holds em.mu
  kind,     \* the seal the server is configured with
  booted,   \* AutoUnseal has returned and the server listens
  pc,       \* next step of a worker
  op,       \* the call it serves
  arg,      \* its share, its InitParams or the loop it waits for
  owed,     \* records of its request, "request" or "response", that were not
            \* written although a device is enabled
  handed,   \* the shares and the root token have been returned
  given,    \* history: genuine shares submitted since the barrier was last
            \* opened or sealed
  faults    \* storage errors so far

disk  == <<ring, config, autoKey, devices>>
mem   == <<sealed, progress, router, broker, kind, booted>>
rev   == <<running, cur, loop, stopped, emu>>
local == <<pc, op, arg, owed>>
hist  == <<handed, given, faults>>
vars  == <<ring, config, autoKey, devices, sealed, progress, router, broker,
           cmu, running, cur, loop, stopped, emu, kind, booted, pc, op, arg,
           owed, handed, given, faults>>

\* What a process starts with.
Boot == /\ sealed = TRUE /\ progress = {} /\ router = "none" /\ broker = "nil"
        /\ cmu = None /\ running = FALSE /\ cur = None
        /\ loop = [g \in Loops |-> "off"] /\ stopped = {} /\ emu = None
        /\ kind \in Seals /\ booted = (kind = "shamir")
        /\ pc  = [w \in Workers |-> "idle"] /\ op  = [w \in Workers |-> None]
        /\ arg = [w \in Workers |-> None]   /\ owed = [w \in Workers |-> {}]
        /\ given = {}

Init == /\ Boot
        /\ ring = FALSE /\ config = None /\ autoKey = FALSE /\ devices = FALSE
        /\ handed = FALSE /\ faults = 0

------------------------------------------------------------------------------
(* Control of a worker. *)

Goto(w, l) == pc' = [pc EXCEPT ![w] = l]

\* (Here and below, a definition named Op_Mistake is Op with a mistake in it,
\* which a property must notice.)  The argument outlives the call.
Finish_KeepsArg(w) == /\ Goto(w, "idle")
                      /\ op'  = [op EXCEPT ![w] = None]
                      /\ owed' = [owed EXCEPT ![w] = {}]
                      /\ cmu' = IF cmu = w THEN None ELSE cmu
                      /\ UNCHANGED arg

\* The call returns; a deferred Unlock releases c.mu.
Finish(w) == /\ Goto(w, "idle")
             /\ op'  = [op EXCEPT ![w] = None]
             /\ arg' = [arg EXCEPT ![w] = None]
             /\ owed' = [owed EXCEPT ![w] = {}]
             /\ cmu' = IF cmu = w THEN None ELSE cmu

On(w, l) == Goto(w, l) /\ UNCHANGED <<op, arg, owed, cmu>>

LockOn(w, l) == /\ cmu' = w /\ Goto(w, l) /\ UNCHANGED <<op, arg, owed>>

\* A call arrives.  Only AutoUnseal runs before the server listens; shares
\* and the root token are sent only once Initialize has returned them.
Begin(w, o, a, l) == /\ pc[w] = "idle" /\ o \in May[w]
                     /\ booted = (o # "auto")
                     /\ Goto(w, l)
                     /\ op'  = [op EXCEPT ![w] = o]
                     /\ arg' = [arg EXCEPT ![w] = a]
                     /\ UNCHANGED <<disk, mem, rev, hist, cmu, owed>>

BeginAuto(w)    == /\ \A v \in Workers : pc[v] = "idle"
                   /\ Begin(w, "auto", None, "au_get")
BeginInit(w)    == \E p \in InitParams : Begin(w, "init", p, "in_lock")
BeginUnseal(w)  == \E s \in {0} \cup (IF handed THEN 1..config.n ELSE {}) :
                      Begin(w, "unseal", s, "un_lock")
BeginReset(w)   == Begin(w, "reset", None, "rs_lock")
BeginRequest(w) == /\ handed
                   /\ \E o \in Requests :
                         Begin(w, o, None, "rq_gate")

------------------------------------------------------------------------------
(* Initialize. *)

Valid(p) == /\ p.n \in 1..255
            /\ IF p.n = 1 THEN p.t = 1 ELSE p.t \in 2..p.n

InLock(w) == /\ pc[w] = "in_lock" /\ cmu = None
             /\ IF config # None \/ ~Valid(arg[w]) THEN Finish(w)
                ELSE LockOn(w, "in_ring")
             /\ UNCHANGED <<disk, mem, rev, hist>>

\* barrier.Initialize
InRing(w) == /\ pc[w] = "in_ring"
             /\ IF ring THEN Finish(w) ELSE On(w, "in_save")
             /\ ring' = TRUE
             /\ UNCHANGED <<config, autoKey, devices, mem, rev, hist>>

\* Split, saveSealConfig
InSave(w) == /\ pc[w] = "in_save"
             /\ config' = arg[w]
             /\ On(w, "in_open")
             /\ UNCHANGED <<ring, autoKey, devices, mem, rev, hist>>

InOpen(w) == /\ pc[w] = "in_open"
             /\ sealed' = FALSE
             /\ On(w, "in_root")
             /\ UNCHANGED <<disk, progress, router, broker, kind, booted, rev, hist>>

\* The root token and the default policy are stored.
InRoot(w) == /\ pc[w] = "in_root"
             /\ On(w, IF kind = "transit" THEN "in_wrap" ELSE "in_seal")
             /\ UNCHANGED <<disk, mem, rev, hist>>

InSeal(w) == /\ pc[w] = "in_seal"
             /\ sealed' = TRUE /\ handed' = TRUE
             /\ Finish(w)
             /\ UNCHANGED <<disk, progress, router, broker, kind, booted, rev,
                            given, faults>>

\* The KMS wraps the root key; the server then stays unsealed.
InWrap(w) == /\ pc[w] = "in_wrap"
             /\ autoKey' = TRUE
             /\ On(w, "st_mounts")
             /\ UNCHANGED <<ring, config, devices, mem, rev, hist>>

------------------------------------------------------------------------------
(* Unseal, AutoUnseal and finishUnseal. *)

UnLock(w) == /\ pc[w] = "un_lock" /\ cmu = None
             /\ IF ~sealed THEN Finish(w) ELSE LockOn(w, "un_cfg")
             /\ UNCHANGED <<disk, mem, rev, hist>>

\* The shares that opened the barrier are kept.
Submit_Keeps(s) ==
  /\ given' = given \cup ({s} \ {0})
  /\ progress' = progress \cup {s}

\* seal.SubmitShare: a known share is ignored; at the threshold the shares
\* are combined and forgotten, whether or not they yield the root key.
Submit(s) ==
  /\ given' = given \cup ({s} \ {0})
  /\ progress' = IF s \in progress THEN progress
                 ELSE IF Cardinality(progress) + 1 >= config.t THEN {}
                 ELSE progress \cup {s}

\* A share submitted twice counts twice.
Combines_Twice(s) == /\ Cardinality(progress) + 1 >= config.t
                     /\ 0 \notin progress \cup {s}

\* The submitted share completes a set, and none of the set is foreign.
Combines(s) == /\ s \notin progress
               /\ Cardinality(progress) + 1 >= config.t
               /\ 0 \notin progress \cup {s}

UnShare(w) ==
  /\ pc[w] = "un_cfg"
  /\ IF config = None
     THEN Finish(w) /\ UNCHANGED <<progress, given>>
     ELSE /\ Submit(arg[w])
          /\ IF Combines(arg[w]) THEN On(w, "un_open") ELSE Finish(w)
  /\ UNCHANGED <<disk, sealed, router, broker, kind, booted, rev, handed, faults>>

\* barrier.Unseal
UnOpen(w) == /\ pc[w] = "un_open"
             /\ sealed' = FALSE /\ given' = {}
             /\ On(w, "st_mounts")
             /\ UNCHANGED <<disk, progress, router, broker, kind, booted, rev,
                            handed, faults>>

\* No wrapped key yet, or the KMS cannot be reached; else open the barrier.
AuGet(w) == /\ pc[w] = "au_get"
            /\ \/ Finish(w) /\ booted' = TRUE /\ UNCHANGED sealed
               \/ /\ autoKey /\ LockOn(w, "st_mounts")
                  /\ sealed' = FALSE /\ UNCHANGED booted
            /\ UNCHANGED <<disk, progress, router, broker, kind, rev, hist>>

\* setupMounts: the secret mounts and the cubbyhole, ...
StMounts(w) == /\ pc[w] = "st_mounts"
               /\ router' = "building"
               /\ On(w, "st_audit")
               /\ UNCHANGED <<disk, sealed, progress, broker, kind, booted, rev, hist>>

\* ... a new audit broker, ...
StAudit(w) == /\ pc[w] = "st_audit"
              /\ broker' = "empty"
              /\ On(w, "st_devs")
              /\ UNCHANGED <<disk, sealed, progress, router, kind, booted, rev, hist>>

\* ... its devices, ...
StDevs(w) == /\ pc[w] = "st_devs"
             /\ broker' = IF devices THEN "on" ELSE "empty"
             /\ On(w, "st_auth")
             /\ UNCHANGED <<disk, sealed, progress, router, kind, booted, rev, hist>>

\* The revoker is not started.
StAuth_NoRevoker(w) == /\ pc[w] = "st_auth"
                       /\ router' = "built"
                       /\ Finish(w)
                       /\ handed' = (handed \/ op[w] = "init") /\ booted' = TRUE
                       /\ UNCHANGED <<disk, sealed, progress, broker, kind, rev,
                                      given, faults>>

\* ... and the auth methods.
StAuth(w) == /\ pc[w] = "st_auth"
             /\ router' = "built"
             /\ On(w, "st_start")
             /\ UNCHANGED <<disk, sealed, progress, broker, kind, booted, rev, hist>>

\* A loop is started whether or not one runs.
Start_Again == \E g \in Loops :
                 /\ loop[g] = "off" /\ \A v \in Workers : arg[v] # g
                 /\ running' = TRUE /\ cur' = g
                 /\ loop' = [loop EXCEPT ![g] = "wait"]
                 /\ UNCHANGED <<stopped, emu>>

\* em.start  (The bound on loops: one is free that nobody waits for.)
Start == \/ running /\ UNCHANGED rev
         \/ /\ ~running
            /\ \E g \in Loops :
                 /\ loop[g] = "off" /\ \A v \in Workers : arg[v] # g
                 /\ running' = TRUE /\ cur' = g
                 /\ loop' = [loop EXCEPT ![g] = "wait"]
                 /\ UNCHANGED <<stopped, emu>>

StStart(w) == /\ pc[w] = "st_start" /\ emu = None
              /\ Start
              /\ Finish(w)
              /\ handed' = (handed \/ op[w] = "init") /\ booted' = TRUE
              /\ UNCHANGED <<disk, sealed, progress, router, broker, kind,
                             given, faults>>

------------------------------------------------------------------------------
(* Seal and ResetUnseal. *)

\* The channel of the running loop is not closed.
SlStop_LeavesOpen(w) ==
  /\ pc[w] = "sl_stop" /\ emu = None
  /\ IF running THEN /\ running' = FALSE /\ cur' = None
                     /\ arg' = [arg EXCEPT ![w] = cur]
                     /\ Goto(w, "sl_wait")
                     /\ UNCHANGED <<op, owed, cmu>>
     ELSE On(w, "sl_lock") /\ UNCHANGED <<running, cur>>
  /\ UNCHANGED <<disk, mem, loop, stopped, emu, hist>>

\* em.stop closes the channel of the running loop ...
SlStop(w) == /\ pc[w] = "sl_stop" /\ emu = None
             /\ IF running
                THEN /\ running' = FALSE /\ cur' = None
                     /\ stopped' = stopped \cup {cur}
                     /\ arg' = [arg EXCEPT ![w] = cur]
                     /\ Goto(w, "sl_wait")
                     /\ UNCHANGED <<op, owed, cmu>>
                ELSE On(w, "sl_lock") /\ UNCHANGED <<running, cur, stopped>>
             /\ UNCHANGED <<disk, mem, loop, emu, hist>>

\* ... and waits until it has returned.
SlWait(w) == /\ pc[w] = "sl_wait" /\ loop[arg[w]] = "off"
             /\ Goto(w, "sl_lock")
             /\ arg' = [arg EXCEPT ![w] = None]
             /\ UNCHANGED <<disk, mem, rev, op, owed, cmu, hist>>

SlSeal(w) == /\ pc[w] = "sl_lock" /\ cmu = None
             /\ sealed' = TRUE /\ progress' = {} /\ given' = {}
             /\ On(w, "rq_resp")
             /\ UNCHANGED <<disk, router, broker, kind, booted, rev, handed,
                            faults>>

RsReset(w) == /\ pc[w] = "rs_lock" /\ cmu = None
              /\ progress' = {}
              /\ Finish(w)
              /\ UNCHANGED <<disk, sealed, router, broker, kind, booted, rev, hist>>

------------------------------------------------------------------------------
(* HandleRequest with the root token. *)

RqGate(w) == /\ pc[w] = "rq_gate"
             /\ IF sealed THEN Finish(w) ELSE On(w, "rq_audit")
             /\ UNCHANGED <<disk, mem, rev, hist>>

\* Without a broker that has the device, a record of the request is skipped.
Owe(w, record) ==
  owed' = [owed EXCEPT ![w] = @ \cup IF devices /\ broker # "on" THEN {record} ELSE {}]

\* auditRequest; a device that cannot write refuses the request.
RqAudit(w) == /\ pc[w] = "rq_audit"
              /\ \/ Owe(w, "request") /\ Goto(w, "rq_match") /\ UNCHANGED <<op, arg, cmu>>
                 \/ broker = "on" /\ Finish(w)
              /\ UNCHANGED <<disk, mem, rev, hist>>

\* matchAuth, under c.mu.RLock
RqMatch(w) == /\ pc[w] = "rq_match" /\ cmu = None
              /\ On(w, "rq_use")
              /\ UNCHANGED <<disk, mem, rev, hist>>

\* tokens.use finds the root token unless the barrier was sealed meanwhile.
RqUse(w) == /\ pc[w] = "rq_use"
            /\ IF sealed THEN On(w, "rq_resp")
               ELSE On(w, CASE op[w] = "write" -> "rq_route"
                            [] op[w] = "seal"  -> "sl_stop"
                            [] op[w] = "audit" -> "ea_lock")
            /\ UNCHANGED <<disk, mem, rev, hist>>

\* The mount table is read without the lock.
RqRoute_Unlocked(w) == /\ pc[w] = "rq_route"
                       /\ \/ router # "none" /\ On(w, "rq_put")
                          \/ router # "built" /\ On(w, "rq_resp")
                       /\ UNCHANGED <<disk, mem, rev, hist>>

\* dispatchLogical, under c.mu.RLock: a path resolves if its mount is there.
RqRoute(w) == /\ pc[w] = "rq_route" /\ cmu = None
              /\ \/ router # "none" /\ On(w, "rq_put")
                 \/ router # "built" /\ On(w, "rq_resp")
              /\ UNCHANGED <<disk, mem, rev, hist>>

\* The backend's barrier operation, refused if the barrier is sealed.
RqPut(w) == /\ pc[w] = "rq_put"
            /\ On(w, "rq_resp")
            /\ UNCHANGED <<disk, mem, rev, hist>>

\* EnableAudit: refused, or undone because the device or storage failed; or
\* done.  If setupMounts failed there may be no device table: the handler
\* panics, which the HTTP server recovers from.
EaLock(w) == /\ pc[w] = "ea_lock" /\ cmu = None
             /\ \/ On(w, "rq_resp") /\ UNCHANGED <<devices, broker>>
                \/ /\ router # "built"
                   /\ Finish(w) /\ UNCHANGED <<devices, broker>>
                \/ /\ ~sealed /\ ~devices /\ broker # "nil"
                   /\ devices' = TRUE /\ broker' = "on"
                   /\ On(w, "rq_resp")
             /\ UNCHANGED <<ring, config, autoKey, sealed, progress, router, kind,
                            booted, rev, hist>>

\* auditResponse, of an error too; a device that cannot write withholds the
\* response.
RqResp(w) == /\ pc[w] = "rq_resp"
             /\ \/ Owe(w, "response") /\ Goto(w, "rq_send") /\ UNCHANGED <<op, arg, cmu>>
                \/ broker = "on" /\ Finish(w)
             /\ UNCHANGED <<disk, mem, rev, hist>>

RqSend(w) == /\ pc[w] = "rq_send"
             /\ Finish(w)
             /\ UNCHANGED <<disk, mem, rev, hist>>

------------------------------------------------------------------------------
(* The revoker's goroutines, storage errors and crashes. *)

\* scanOnce locks em.mu; it fails at once if the barrier is sealed.
ScanBegin(g) == /\ loop[g] = "wait" /\ emu = None
                /\ loop' = [loop EXCEPT ![g] = "scan"] /\ emu' = g
                /\ UNCHANGED <<disk, mem, running, cur, stopped, cmu, local, hist>>

ScanEnd(g) == /\ loop[g] = "scan"
              /\ loop' = [loop EXCEPT ![g] = "wait"] /\ emu' = None
              /\ UNCHANGED <<disk, mem, running, cur, stopped, cmu, local, hist>>

Exit(g) == /\ loop[g] = "wait" /\ g \in stopped
           /\ loop' = [loop EXCEPT ![g] = "off"] /\ stopped' = stopped \ {g}
           /\ UNCHANGED <<disk, mem, running, cur, emu, cmu, local, hist>>

StorageSteps == {"in_ring", "in_save", "in_open", "in_root", "in_wrap", "un_cfg",
                 "un_open", "st_mounts", "st_audit", "st_devs", "st_auth"}

\* A storage operation fails; the call returns the error, and no step that
\* was done is undone.
Fail(w) == /\ pc[w] \in StorageSteps /\ faults < MaxFaults
           /\ faults' = faults + 1
           /\ Finish(w) /\ booted' = TRUE
           /\ UNCHANGED <<disk, sealed, progress, router, broker, kind, rev,
                          handed, given>>

\* The process dies and is started again with the same configuration.
Crash == /\ sealed' = TRUE /\ progress' = {} /\ router' = "none" /\ broker' = "nil"
         /\ cmu' = None /\ running' = FALSE /\ cur' = None
         /\ loop' = [g \in Loops |-> "off"] /\ stopped' = {} /\ emu' = None
         /\ booted' = (kind = "shamir")
         /\ pc'  = [w \in Workers |-> "idle"] /\ op'  = [w \in Workers |-> None]
         /\ arg' = [w \in Workers |-> None]   /\ owed' = [w \in Workers |-> {}]
         /\ given' = {}
         /\ UNCHANGED <<disk, kind, handed, faults>>

Arrive(w) == \/ BeginAuto(w) \/ BeginInit(w) \/ BeginUnseal(w)
             \/ BeginReset(w) \/ BeginRequest(w)

Step(w) == \/ InLock(w) \/ InRing(w) \/ InSave(w) \/ InOpen(w) \/ InRoot(w)
           \/ InSeal(w) \/ InWrap(w)
           \/ UnLock(w) \/ UnShare(w) \/ UnOpen(w) \/ AuGet(w)
           \/ StMounts(w) \/ StAudit(w) \/ StDevs(w) \/ StAuth(w) \/ StStart(w)
           \/ SlStop(w) \/ SlWait(w) \/ SlSeal(w) \/ RsReset(w)
           \/ RqGate(w) \/ RqAudit(w) \/ RqMatch(w) \/ RqUse(w) \/ RqRoute(w)
           \/ RqPut(w) \/ EaLock(w) \/ RqResp(w) \/ RqSend(w)

Next == \/ \E w \in Workers : Arrive(w) \/ Step(w) \/ Fail(w)
        \/ \E g \in Loops : ScanBegin(g) \/ ScanEnd(g) \/ Exit(g)
        \/ Crash

Spec == Init /\ [][Next]_vars

\* Goroutines keep running, mutexes do not starve their waiters, and a select
\* with a closed stopCh takes that case in the end (Go picks at random).
FairSpec == /\ Spec
            /\ \A w \in Workers : SF_vars(Step(w))
            /\ \A g \in Loops : WF_vars(ScanEnd(g)) /\ SF_vars(Exit(g))
------------------------------------------------------------------------------
(* Properties. *)

Labels == {"idle", "in_lock", "in_ring", "in_save", "in_open", "in_root",
           "in_wrap", "in_seal", "un_lock", "un_cfg", "un_open", "au_get",
           "st_mounts", "st_audit", "st_devs", "st_auth", "st_start",
           "sl_stop", "sl_wait", "sl_lock", "rs_lock", "rq_gate", "rq_audit",
           "rq_match", "rq_use", "rq_route", "rq_put", "ea_lock",
           "rq_resp", "rq_send"}

\* Every variable keeps its type.
TypeOK ==
  /\ ring \in BOOLEAN /\ config \in InitParams \cup {None}
  /\ autoKey \in BOOLEAN /\ devices \in BOOLEAN
  /\ sealed \in BOOLEAN /\ progress \subseteq Nat
  /\ router \in {"none", "building", "built"} /\ broker \in {"nil", "empty", "on"}
  /\ cmu \in Workers \cup {None} /\ running \in BOOLEAN
  /\ cur \in Loops \cup {None} /\ loop \in [Loops -> {"off", "wait", "scan"}]
  /\ stopped \subseteq Loops /\ emu \in Loops \cup {None}
  /\ kind \in Seals /\ booted \in BOOLEAN
  /\ pc \in [Workers -> Labels]
  /\ op \in [Workers -> Calls \cup {None}]
  /\ DOMAIN arg = Workers
  /\ \A w \in Workers : CASE op[w] = "unseal" -> arg[w] \in Nat
                          [] op[w] = "init"   -> arg[w] \in InitParams
                          [] op[w] = "seal"   -> arg[w] \in Loops \cup {None}
                          [] OTHER            -> arg[w] = None
  /\ owed \in [Workers -> SUBSET {"request", "response"}]
  /\ handed \in BOOLEAN /\ given \subseteq Nat \ {0}
  /\ faults \in Nat

\* No call is being served.
Quiet == \A w \in Workers : pc[w] = "idle"

\* Unless storage failed, an open barrier means a server that works between
\* calls: its mounts are built, its audit devices on and its revoker
\* running, whatever Seal, Unseal, AutoUnseal and Initialize raced before.
UnsealedServes ==
  Quiet /\ ~sealed /\ faults = 0 =>
    router = "built" /\ running /\ (devices => broker = "on")

\* The barrier is opened by shares only after a threshold of different
\* genuine ones was submitted since it was sealed, in whatever order foreign
\* shares, repeated ones and resets came between.
QuorumOpens == \A w \in Workers : pc[w] = "un_open" => Cardinality(given) >= config.t

\* No share stays in memory once the barrier is open.
SharesForgotten == Quiet /\ ~sealed => progress = {}

\* Exactly one loop that was not told to stop is there while em.running says
\* so, and none when it does not, also when a Seal that was overtaken by an
\* Unseal leaves the revoker running on a sealed barrier.
OneRevoker ==
  Cardinality({g \in Loops : loop[g] # "off" /\ g \notin stopped})
    = IF running THEN 1 ELSE 0

\* A request is never routed by a mount table that setupMounts is building,
\* though it passed the sealed check before a Seal and an Unseal.
RoutedWhenBuilt ==
  [][\A w \in Workers :
       pc[w] = "rq_route" /\ pc'[w] = "rq_put" /\ faults = 0 => router = "built"]_vars

\* Every call returns: a Seal that waits for the revoker, the revoker that
\* waits for em.mu and an Unseal that holds c.mu do not wait in a circle.
CallsReturn == \A w \in Workers : (pc[w] # "idle") ~> (pc[w] = "idle")

\* "Audit-before-response, fail-closed" (SECURITY.md), "Audit the request before
\* doing any work" (request.go): while an audit device is enabled, no response
\* leaves with neither the record of its request nor its own.
Audited == \A w \in Workers : pc[w] = "rq_send" => owed[w] # {"request", "response"}
==============================================================================
