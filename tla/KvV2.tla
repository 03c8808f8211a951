--------------------------------- MODULE KvV2 ---------------------------------
(***************************************************************************)
(* The KV version 2 engine for one key: version history, check-and-set,    *)
(* soft deletion, destruction, pruning to a number of versions and hard    *)
(* deletion.  The engine has no lock.  One action is one storage operation *)
(* and the computation that follows it; between two of them other requests *)
(* run, unless one goroutine serves them all, one at a time, or the        *)
(* process dies.                                                           *)
(***************************************************************************)
EXTENDS Naturals, FiniteSets

CONSTANTS Workers,    \* goroutines serving requests
          May,        \* May[w]: the operations worker w serves
          MaxWrites,  \* bound: write requests
          FreeWrites, \* bound: write requests when several workers serve them
          CasValues,  \* cas parameters of writes; None when there is none
          Lists,      \* version lists of delete, undelete and destroy
          Tunings,    \* [cap, cas] fields of a metadata or config write;
                      \* None stands for an absent field
          MountCap,   \* max_versions of the mount's options, 0 for no limit
          MountCAS,   \* cas_required of the mount's options
          Crews,      \* the sets of workers that may be serving
          MaxStuck,   \* bound: failed deletions of data
          None        \* no value

Ops      == {"write", "delete", "undelete", "destroy", "purge", "tune", "config"}
Versions == 1..MaxWrites
Payloads == 1..MaxWrites     \* the n-th write request carries payload n
States   == {"none", "live", "deleted", "destroyed"}

\* keyMetadata and mountConfig
Meta   == [cur : Nat, oldest : Nat, cap : Nat, cas : BOOLEAN,
           vers : [Versions -> States]]
Config == [cap : Nat, cas : BOOLEAN]

ASSUME BoundsAssumption  == /\ MaxWrites \in Nat /\ FreeWrites \in 0..MaxWrites
                            /\ MountCap \in Nat /\ MountCAS \in BOOLEAN
                            /\ MaxStuck \in Nat
                            /\ CasValues \subseteq Nat \cup {None}
ASSUME MayAssumption     == May \in [Workers -> SUBSET Ops]
ASSUME ListsAssumption   == Lists \subseteq SUBSET Versions
ASSUME TuningsAssumption == Tunings \subseteq [cap : Nat \cup {None},
                                               cas : BOOLEAN \cup {None}]
ASSUME CrewsAssumption   == Crews \subseteq SUBSET Workers
ASSUME NoneAssumption    == None \notin Nat /\ None \notin BOOLEAN
                            /\ None \notin Meta /\ None \notin Config
                            /\ None \notin Ops

VARIABLES
  md,      \* metadata/<path>
  data,    \* versions/<path>/<n>
  cfg,     \* config
  pc,      \* a worker's next storage operation
  op,      \* the operation it serves
  arg,     \* the cas parameter, version list or tuning of the request
  pay,     \* the payload of a write
  loc,     \* the metadata (or config) it loaded and has changed since
  cap,     \* the max_versions it has resolved
  todo,    \* versions whose data it still has to delete
  writes,  \* write requests so far
  crew,    \* the workers that are serving
  keep,    \* history: the payload a read of a version must return, if known
  trash,   \* history: the payload an undelete of a version must restore
  acked,   \* history: payloads of acknowledged writes (these three only while
           \* requests come one at a time)
  gone,    \* history: payloads that were deleted from storage
  stuck,   \* history: payloads whose deletion has failed
  wins     \* history: acknowledged check-and-set writes of a version

store == <<md, data, cfg>>
local == <<pc, op, arg, pay, loc, cap, todo>>
hist  == <<keep, trash, acked, gone, stuck, wins>>
vars  == <<md, data, cfg, pc, op, arg, pay, loc, cap, todo, writes, crew,
           keep, trash, acked, gone, stuck, wins>>

\* One worker serves: requests come one at a time.
Serial == \E w \in Workers : crew = {w}

Nothing == [v \in Versions |-> None]

Init == /\ md = None /\ data = Nothing /\ cfg = None
        /\ pc   = [w \in Workers |-> "idle"] /\ op  = [w \in Workers |-> None]
        /\ arg  = [w \in Workers |-> None]   /\ pay = [w \in Workers |-> None]
        /\ loc  = [w \in Workers |-> None]   /\ cap = [w \in Workers |-> 0]
        /\ todo = [w \in Workers |-> {}]
        /\ writes = 0 /\ crew \in Crews
        /\ keep = Nothing /\ trash = Nothing /\ acked = {} /\ gone = {} /\ stuck = {}
        /\ wins = [v \in Versions |-> 0]

------------------------------------------------------------------------------
(* Metadata. *)

NewMeta == [cur |-> 0, oldest |-> 0, cap |-> 0, cas |-> FALSE,
            vers |-> [v \in Versions |-> "none"]]

Loaded == IF md = None THEN NewMeta ELSE md

Listed(m) == {v \in Versions : m.vers[v] # "none"}

\* An empty list means the current version; unknown versions are skipped.
Targets(m, list) == (IF list = {} THEN {m.cur} ELSE list) \cap Listed(m)

\* A destroyed version is neither deleted nor undeleted.
Marked(m, vs, s) ==
  [m EXCEPT !.vers = [v \in Versions |->
     IF v \in vs /\ m.vers[v] # "destroyed" THEN s ELSE m.vers[v]]]

\* The fields present in the request replace those of metadata or config.
Tuned(m, t) == [m EXCEPT !.cap = IF t.cap = None THEN @ ELSE t.cap,
                         !.cas = IF t.cas = None THEN @ ELSE t.cas]

\* A new version is the current one.
Extended(m) == [m EXCEPT !.cur = @ + 1, !.vers[m.cur + 1] = "live",
                         !.oldest = IF @ = 0 THEN 1 ELSE @]

\* (Here and below, a definition named Op_Mistake is Op with a mistake in it,
\* which a property must notice.)  The slot of a pruned version stays.
Dropped_SlotStays(m) == [m EXCEPT !.oldest = @ + 1]

Dropped(m) == [m EXCEPT !.vers[m.oldest] = "none", !.oldest = @ + 1]

\* What a read of version v returns, if that is a payload.
Readable(v) == IF md # None /\ md.vers[v] = "live" THEN data[v] ELSE None

------------------------------------------------------------------------------
(* Control of a worker. *)

On(w, l) == /\ pc' = [pc EXCEPT ![w] = l]
            /\ UNCHANGED <<op, arg, pay>>

\* The loaded metadata survives the request.
Finish_KeepsLoaded(w) == /\ pc'   = [pc EXCEPT ![w] = "idle"]
                         /\ op'   = [op EXCEPT ![w] = None]
                         /\ arg'  = [arg EXCEPT ![w] = None]
                         /\ pay'  = [pay EXCEPT ![w] = None]
                         /\ cap'  = [cap EXCEPT ![w] = 0]
                         /\ todo' = [todo EXCEPT ![w] = {}]
                         /\ UNCHANGED loc

Finish(w) == /\ pc'   = [pc EXCEPT ![w] = "idle"]
             /\ op'   = [op EXCEPT ![w] = None]
             /\ arg'  = [arg EXCEPT ![w] = None]
             /\ pay'  = [pay EXCEPT ![w] = None]
             /\ loc'  = [loc EXCEPT ![w] = None]
             /\ cap'  = [cap EXCEPT ![w] = 0]
             /\ todo' = [todo EXCEPT ![w] = {}]

\* History: from now on a read of these versions may return nothing.
Forget(vs) == keep' = [v \in Versions |-> IF v \in vs THEN None ELSE keep[v]]

ForgetFully(vs) ==
  Forget(vs) /\ trash' = [v \in Versions |-> IF v \in vs THEN None ELSE trash[v]]

Begin(w, o, a) == /\ w \in crew /\ pc[w] = "idle" /\ o \in May[w]
                  /\ pc'  = [pc EXCEPT ![w] = IF o = "config" THEN "cf_get" ELSE "get"]
                  /\ op'  = [op EXCEPT ![w] = o]
                  /\ arg' = [arg EXCEPT ![w] = a]
                  /\ UNCHANGED <<store, loc, cap, todo, crew, hist>>

BeginWrite(w) == /\ writes < (IF Serial THEN MaxWrites ELSE FreeWrites)
                 /\ \E cas \in CasValues : Begin(w, "write", cas)
                 /\ writes' = writes + 1
                 /\ pay' = [pay EXCEPT ![w] = writes + 1]

BeginOther(w) == /\ \/ \E o \in {"delete", "undelete", "destroy"}, l \in Lists :
                          Begin(w, o, l)
                    \/ \E o \in {"tune", "config"}, t \in Tunings : Begin(w, o, t)
                    \/ Begin(w, "purge", None)
                 /\ UNCHANGED <<writes, pay>>

------------------------------------------------------------------------------
(* Pruning to max_versions. *)

\* One version too many is dropped.
Trim_OffByOne(w, m, c) ==
  /\ loc' = [loc EXCEPT ![w] = m]
  /\ cap' = [cap EXCEPT ![w] = c]
  /\ On(w, IF c > 0 /\ m.cur - m.oldest + 1 >= c /\ m.oldest < m.cur
           THEN "evict" ELSE "save")

\* Prune m to c versions, then save it.
Trim(w, m, c) ==
  /\ loc' = [loc EXCEPT ![w] = m]
  /\ cap' = [cap EXCEPT ![w] = c]
  /\ On(w, IF c > 0 /\ m.cur + 1 > c + m.oldest THEN "evict" ELSE "save")

\* The limit of the key, else the one of the config, else the mount's.
Resolve(w, m) == IF m.cap > 0 THEN Trim(w, m, m.cap)
                 ELSE /\ loc' = [loc EXCEPT ![w] = m]
                      /\ On(w, "cap") /\ UNCHANGED cap

Cap(w) == /\ pc[w] = "cap"
          /\ Trim(w, loc[w], IF cfg # None /\ cfg.cap > 0 THEN cfg.cap ELSE MountCap)
          /\ UNCHANGED <<store, todo, writes, crew, hist>>

\* The data stays, though nothing failed.
Delete_Forgotten(v) == gone' = gone \cup ({data[v]} \ {None}) /\ UNCHANGED <<data, stuck>>

\* Delete the data of version v; an error is ignored.
Delete(v) == \/ /\ data' = [data EXCEPT ![v] = None]
                /\ gone' = gone \cup ({data[v]} \ {None})
                /\ UNCHANGED stuck
             \/ /\ data[v] # None /\ Cardinality(stuck) < MaxStuck
                /\ stuck' = stuck \cup {data[v]}
                /\ UNCHANGED <<data, gone>>

\* The slot goes and its data stays.
Evict_SlotOnly(w) == /\ pc[w] = "evict"
                     /\ ForgetFully({v \in Versions : v + cap[w] <= loc[w].cur})
                     /\ Delete_Forgotten(loc[w].oldest)
                     /\ Trim(w, Dropped(loc[w]), cap[w])
                     /\ UNCHANGED <<md, cfg, todo, writes, crew, acked, wins>>

Evict(w) == /\ pc[w] = "evict"
            /\ Delete(loc[w].oldest)
            /\ ForgetFully({v \in Versions : v + cap[w] <= loc[w].cur})
            /\ Trim(w, Dropped(loc[w]), cap[w])
            /\ UNCHANGED <<md, cfg, todo, writes, crew, acked, wins>>

------------------------------------------------------------------------------
(* The requests. *)

GetWrite(w) == /\ pc[w] = "get" /\ op[w] = "write"
               /\ loc' = [loc EXCEPT ![w] = Loaded]
               /\ On(w, "cas")
               /\ UNCHANGED <<store, cap, todo, writes, crew, hist>>

\* Check-and-set, once the config is read.
Cas(w) ==
  /\ pc[w] = "cas"
  /\ LET required == MountCAS \/ loc[w].cas \/ (cfg # None /\ cfg.cas)
     IN \/ /\ IF arg[w] = None THEN ~required ELSE arg[w] = loc[w].cur
           /\ On(w, "put") /\ UNCHANGED <<loc, cap, todo>>
        \/ /\ IF arg[w] = None THEN required ELSE arg[w] # loc[w].cur
           /\ Finish(w)
  /\ UNCHANGED <<store, writes, crew, hist>>

Put(w) == /\ pc[w] = "put"
          /\ data' = [data EXCEPT ![loc[w].cur + 1] = pay[w]]
          /\ Resolve(w, Extended(loc[w]))
          /\ UNCHANGED <<md, cfg, todo, writes, crew, hist>>

GetTune(w) == /\ pc[w] = "get" /\ op[w] = "tune"
              /\ Resolve(w, Tuned(Loaded, arg[w]))
              /\ UNCHANGED <<store, todo, writes, crew, hist>>

GetMissing(w) == /\ pc[w] = "get" /\ md = None
                 /\ op[w] \in {"delete", "undelete", "destroy"}
                 /\ Finish(w)
                 /\ UNCHANGED <<store, writes, crew, hist>>

GetDelete(w) ==
  /\ pc[w] = "get" /\ op[w] = "delete" /\ md # None
  /\ LET vs == Targets(md, arg[w])
     IN /\ loc' = [loc EXCEPT ![w] = Marked(md, vs, "deleted")]
        /\ Forget(vs)
        /\ trash' = [v \in Versions |-> IF v \in vs /\ keep[v] # None
                                        THEN keep[v] ELSE trash[v]]
  /\ On(w, "save")
  /\ UNCHANGED <<store, cap, todo, writes, crew, acked, gone, stuck, wins>>

GetUndelete(w) ==
  /\ pc[w] = "get" /\ op[w] = "undelete" /\ md # None
  /\ loc' = [loc EXCEPT ![w] = Marked(md, Targets(md, arg[w]), "live")]
  /\ todo' = [todo EXCEPT ![w] = Targets(md, arg[w])]
  /\ On(w, "save")
  /\ UNCHANGED <<store, cap, writes, crew, hist>>

GetDestroy(w) ==
  /\ pc[w] = "get" /\ op[w] = "destroy" /\ md # None
  /\ LET vs == Targets(md, arg[w])
     IN /\ todo' = [todo EXCEPT ![w] = vs]
        /\ ForgetFully(vs)
        /\ On(w, IF vs = {} THEN "save" ELSE "wipe")
  /\ loc' = [loc EXCEPT ![w] = md]
  /\ UNCHANGED <<store, cap, writes, crew, acked, gone, stuck, wins>>

GetPurge(w) ==
  /\ pc[w] = "get" /\ op[w] = "purge"
  /\ LET vs == Listed(Loaded)
     IN /\ todo' = [todo EXCEPT ![w] = vs]
        /\ ForgetFully(vs)
        /\ On(w, IF vs = {} THEN "drop" ELSE "wipe")
  /\ UNCHANGED <<store, loc, cap, writes, crew, acked, gone, stuck, wins>>

\* After the data of version v: the next one, else the metadata.
Wiped(w, v) ==
  /\ todo' = [todo EXCEPT ![w] = @ \ {v}]
  /\ IF op[w] = "destroy"
     THEN loc' = [loc EXCEPT ![w].vers[v] = "destroyed"] ELSE UNCHANGED loc
  /\ On(w, IF todo[w] # {v} THEN "wipe" ELSE IF op[w] = "destroy" THEN "save" ELSE "drop")
  /\ UNCHANGED <<md, cfg, cap, writes, crew, keep, trash, acked, wins>>

\* The data is left to the flag in the metadata.
Wipe_FlagOnly(w) == /\ pc[w] = "wipe"
                    /\ \E v \in todo[w] : Wiped(w, v) /\ Delete_Forgotten(v)

Wipe(w) == /\ pc[w] = "wipe"
           /\ \E v \in todo[w] : Wiped(w, v) /\ Delete(v)

\* The metadata is saved and the request acknowledged.
Save(w) ==
  /\ pc[w] = "save"
  /\ md' = loc[w]
  /\ LET ver == loc[w].cur
     IN \/ /\ op[w] = "write"
           /\ keep'  = [keep EXCEPT ![ver] = IF Serial THEN pay[w] ELSE None]
           /\ trash' = [trash EXCEPT ![ver] = None]
           /\ acked' = acked \cup (IF Serial THEN {pay[w]} ELSE {})
           /\ wins'  = [wins EXCEPT ![ver] = IF arg[w] # None /\ @ < 2 THEN @ + 1 ELSE @]
        \/ /\ op[w] = "undelete"
           /\ keep' = [v \in Versions |-> IF v \in todo[w] /\ trash[v] # None
                                          THEN trash[v] ELSE keep[v]]
           /\ UNCHANGED <<trash, acked, wins>>
        \/ op[w] \notin {"write", "undelete"} /\ UNCHANGED <<keep, trash, acked, wins>>
  /\ Finish(w)
  /\ UNCHANGED <<data, cfg, writes, crew, gone, stuck>>

Drop(w) == /\ pc[w] = "drop"
           /\ md' = None
           /\ wins' = [v \in Versions |-> 0]
           /\ Finish(w)
           /\ UNCHANGED <<data, cfg, writes, crew, keep, trash, acked, gone, stuck>>

CfGet(w) == /\ pc[w] = "cf_get"
            /\ loc' = [loc EXCEPT ![w] =
                 Tuned(IF cfg = None THEN [cap |-> MountCap, cas |-> MountCAS] ELSE cfg,
                       arg[w])]
            /\ On(w, "cf_put")
            /\ UNCHANGED <<store, cap, todo, writes, crew, hist>>

CfPut(w) == /\ pc[w] = "cf_put"
            /\ cfg' = loc[w]
            /\ Finish(w)
            /\ UNCHANGED <<md, data, writes, crew, hist>>

\* The process dies: storage survives, the requests do not.
Crash == /\ \E w \in Workers : pc[w] # "idle"
         /\ pc'   = [w \in Workers |-> "idle"] /\ op'  = [w \in Workers |-> None]
         /\ arg'  = [w \in Workers |-> None]   /\ pay' = [w \in Workers |-> None]
         /\ loc'  = [w \in Workers |-> None]   /\ cap' = [w \in Workers |-> 0]
         /\ todo' = [w \in Workers |-> {}]
         /\ UNCHANGED <<store, writes, crew, hist>>

Step(w) == \/ GetWrite(w) \/ GetTune(w) \/ GetMissing(w) \/ GetDelete(w)
           \/ GetUndelete(w) \/ GetDestroy(w) \/ GetPurge(w)
           \/ Cas(w) \/ Put(w) \/ Cap(w) \/ Evict(w) \/ Wipe(w) \/ Save(w) \/ Drop(w)
           \/ CfGet(w) \/ CfPut(w)

Next == \/ \E w \in Workers : BeginWrite(w) \/ BeginOther(w) \/ Step(w)
        \/ Crash

Spec == Init /\ [][Next]_vars

------------------------------------------------------------------------------
(* Properties. *)

Labels == {"idle", "get", "cas", "put", "cap", "evict", "wipe", "save", "drop",
           "cf_get", "cf_put"}

\* Every variable keeps its type, and no request's locals outlive it.
TypeOK ==
  /\ md \in Meta \cup {None} /\ cfg \in Config \cup {None}
  /\ data \in [Versions -> Payloads \cup {None}]
  /\ pc \in [Workers -> Labels] /\ op \in [Workers -> Ops \cup {None}]
  /\ pay \in [Workers -> Payloads \cup {None}]
  /\ cap \in [Workers -> Nat] /\ todo \in [Workers -> SUBSET Versions]
  /\ \A w \in Workers : CASE pc[w] \in {"idle", "get", "cf_get"} -> loc[w] = None
                          [] pc[w] = "cf_put" -> loc[w] \in Config
                          [] OTHER -> loc[w] \in Meta \cup {None}
  /\ writes \in 0..MaxWrites /\ crew \subseteq Workers
  /\ keep \in [Versions -> Payloads \cup {None}]
  /\ trash \in [Versions -> Payloads \cup {None}]
  /\ acked \subseteq Payloads /\ gone \subseteq Payloads /\ stuck \subseteq Payloads
  /\ wins \in [Versions -> 0..2]

\* The listed versions are those from the oldest to the current one, however
\* stale the copy that was written back.
WindowHolds ==
  md # None => Listed(md) = {v \in Versions : md.oldest <= v /\ v <= md.cur}

\* Requests one at a time: an acknowledged write stays readable, with its own
\* payload, until a request to delete, destroy, purge or prune it is started,
\* and again after an undelete is acknowledged, whatever crashes came between.
AckedReadable ==
  Serial => \A v \in Versions : keep[v] # None => Readable(v) = keep[v]

\* Requests one at a time: the data of an acknowledged write is never left in
\* storage once its version is destroyed, pruned or purged, although a crash
\* may come between the deletions and the metadata; only a Delete that failed
\* leaves it there.
NothingLeftBehind ==
  Serial => \A v \in Versions :
              data[v] \in acked \ stuck => md # None /\ md.vers[v] \in {"live", "deleted"}

\* A payload that was destroyed, purged or pruned is never read again, though
\* a concurrent request may save older metadata that lists its version as live.
DestroyedIsGone == \A v \in Versions : Readable(v) \notin gone

\* "only write if the current version matches" (USER_GUIDE, kv put -cas): one
\* version is made by one check-and-set write.
CasExclusive == \A v \in Versions : wins[v] <= 1
==============================================================================
