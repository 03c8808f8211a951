------------------------------ MODULE MountTable ------------------------------
(***************************************************************************)
(* The mount table of the secrets engines and the one of the auth methods: *)
(* enable, disable, remount and tune, the routing of requests by longest   *)
(* prefix, and what survives a seal, a crash or a failed write.  The       *)
(* commands hold c.mu throughout; a request holds it to find its mount and *)
(* no longer, and reaches storage through a mount that may be gone by then.*)
(***************************************************************************)
EXTENDS Naturals, FiniteSets, Sequences, SequencesExt

CONSTANTS Workers,    \* goroutines serving requests
          Ids,        \* mount uuids that newUUID may return
          Cubbyhole,  \* the built-in mount, which no table holds
          Names,      \* what paths are made of
          CubPath,    \* its path
          TokenPath,  \* the path of the built-in auth method
          Where,      \* Where[k]: paths the commands on table k name
          Asked,      \* Asked[k]: paths of the writes that table k routes
          MaxWrites,  \* bound: writes of secrets
          MaxErrors,  \* bound: storage errors
          None        \* no value

Tables   == {"logical", "auth"}
Versions == {1, 2}            \* options.version; an auth method has 1
Values   == 1..MaxWrites      \* the n-th write carries value n

\* A MountEntry; a mountedBackend: the entry's id, the path it is routed at, its
\* storage view, and the version its backend was made for.
Paths   == Where["logical"] \cup Where["auth"] \cup {CubPath}
Entry   == [id : Ids, path : Paths, opt : Versions]
Backend == [id : Ids \cup {Cubbyhole}, view : Ids \cup {Cubbyhole}, ver : Versions]

\* The storage operation of a write: the view, the layout, the path relative to the
\* mount, and the value.
Request == [view : Ids \cup {Cubbyhole}, ver : Versions, rel : Seq(Names), val : Values]

ASSUME IdsAssumption   == /\ Cubbyhole \notin Ids
                          /\ None \notin Workers /\ None \notin Request
ASSUME PathsAssumption == /\ DOMAIN Where = Tables /\ DOMAIN Asked = Tables
                          /\ \A k \in Tables : Where[k] \cup Asked[k] \subseteq Seq(Names)
                          /\ CubPath \in Seq(Names) /\ CubPath # << >>
ASSUME BoundAssumption == MaxWrites \in Nat /\ MaxErrors \in Nat

VARIABLES
  disk,    \* disk[k]: core/mounts and core/auth
  data,    \* the secrets: which view, which layout, which relative path, value
  up,      \* the barrier is unsealed
  table,   \* c.mounts and c.authMounts
  loaded,  \* those of the two that are not nil
  router,  \* c.router and c.authRouter: a function from paths to backends
  mu,      \* who holds c.mu
  pc,      \* a worker's next step
  req,     \* the storage operation of the request it serves
  todo,    \* secrets it still has to clear
  minted,  \* ids given out
  writes, errors,
  via      \* history: the mount that served the request of each write

memory == <<up, table, loaded, router>>
local  == <<pc, req, todo>>
counts == <<minted, writes, errors>>
vars   == <<disk, data, up, table, loaded, router, mu, pc, req, todo, minted,
            writes, errors, via>>

Empty == [k \in Tables |-> {}]
NoRoutes == [k \in Tables |-> << >>]

Init == /\ disk = Empty /\ data = {} /\ up = FALSE /\ table = Empty
        /\ loaded = {} /\ router = NoRoutes /\ mu = None
        /\ pc = [w \in Workers |-> "idle"]
        /\ req = [w \in Workers |-> None] /\ todo = [w \in Workers |-> {}]
        /\ minted = {} /\ writes = 0 /\ errors = 0
        /\ via = [v \in Values |-> None]

------------------------------------------------------------------------------
(* Backends and routing. *)

\* (Here and below, a definition named Op_Mistake is Op with a mistake in it,
\* which a property must notice.)  Storage is keyed by the path.
View_ByPath(e) == e.path

View(e) == e.id

Mounted(e) == [id |-> e.id, view |-> View(e), ver |-> e.opt]

BuiltIn == [id |-> Cubbyhole, view |-> Cubbyhole, ver |-> 1]

Routes(entries) ==
  [p \in {e.path : e \in entries} |-> Mounted(CHOOSE e \in entries : e.path = p)]

With(f, p, b)  == [q \in DOMAIN f \cup {p} |-> IF q = p THEN b ELSE f[q]]
Without(f, p)  == [q \in DOMAIN f \ {p} |-> f[q]]

\* The mount paths that are a prefix of path q, and the longest of them.
Covering(k, q) == {p \in DOMAIN router[k] : IsPrefix(p, q)}
Longest(k, q)  == CHOOSE p \in Covering(k, q) :
                    \A r \in Covering(k, q) : Len(r) <= Len(p)
Relative(p, q) == SubSeq(q, Len(p) + 1, Len(q))

\* What a read of path q would return now.
Answers(k, q) ==
  IF Covering(k, q) = {} THEN {}
  ELSE LET p == Longest(k, q)
           b == router[k][p]
       IN {d.val : d \in {x \in data : x.view = b.view /\ x.ver = b.ver
                                       /\ x.rel = Relative(p, q)}}

------------------------------------------------------------------------------
(* The commands.  Each is one step but for the clearing of a disabled mount: *)
(* it holds c.mu, and its one write decides what a crash leaves.             *)

Ready(w) == pc[w] = "idle" /\ mu = None /\ up

\* The table is saved, or the write fails.
Saved(k, t) == disk' = [disk EXCEPT ![k] = t] /\ UNCHANGED errors
SaveFails   == errors < MaxErrors /\ errors' = errors + 1 /\ UNCHANGED disk

Route(k, f) == router' = [router EXCEPT ![k] = f]
List(k, t)  == table' = [table EXCEPT ![k] = t]

\* Secrets are refused a path in use, auth methods one in the table; a table that
\* was never loaded is nil, and the handler panics.
Free(k, p) == IF k = "logical" THEN p \notin DOMAIN router[k]
              ELSE p # TokenPath /\ \A e \in table[k] : e.path # p

Enable(w, k, p, o) ==
  /\ Ready(w) /\ k \in loaded /\ p # << >> /\ Free(k, p)
  /\ \E i \in Ids \ minted :
       LET e == [id |-> i, path |-> p, opt |-> o]
       IN /\ minted' = minted \cup {i}
          /\ \/ /\ Saved(k, table[k] \cup {e})
                /\ List(k, table[k] \cup {e})
                /\ Route(k, With(router[k], p, Mounted(e)))
             \/ SaveFails /\ UNCHANGED <<table, router>>
  /\ UNCHANGED <<data, up, loaded, mu, local, writes, via>>

\* The view that is cleared: of the routed mount, or of the table's entry.
Doomed(k, p) == IF k = "logical" THEN router[k][p].id
                ELSE (CHOOSE e \in table[k] : e.path = p).id

Present(k, p) == IF k = "logical" THEN p \in DOMAIN router[k]
                 ELSE p # TokenPath /\ \E e \in table[k] : e.path = p

\* The built-in mount has no uuid: nothing is stored under "logical//".
Disable(w, k, p) ==
  /\ Ready(w) /\ Present(k, p)
  /\ LET kept == {e \in table[k] : e.path # p}
         old  == {d \in data : d.view = Doomed(k, p) /\ d.view # Cubbyhole}
     IN \/ /\ Saved(k, kept) /\ List(k, kept) /\ Route(k, Without(router[k], p))
           /\ IF old = {} THEN UNCHANGED <<mu, local>>
              ELSE /\ mu' = w
                   /\ pc' = [pc EXCEPT ![w] = "clear"]
                   /\ todo' = [todo EXCEPT ![w] = old]
                   /\ UNCHANGED req
        \/ SaveFails /\ UNCHANGED <<table, router, mu, local>>
  /\ UNCHANGED <<data, up, loaded, minted, writes, via>>

\* clearPrefix deletes what it listed, one key after the other, and stops at the
\* first error, which DisableMount ignores.
Clear(w) ==
  /\ pc[w] = "clear"
  /\ \E d \in todo[w] :
       \/ /\ data' = IF up THEN {x \in data : <<x.view, x.ver, x.rel>>
                                              # <<d.view, d.ver, d.rel>>} ELSE data
          /\ todo' = [todo EXCEPT ![w] = @ \ {d}]
          /\ IF todo[w] = {d} THEN mu' = None /\ pc' = [pc EXCEPT ![w] = "idle"]
             ELSE UNCHANGED <<mu, pc>>
          /\ UNCHANGED errors
       \/ /\ errors < MaxErrors /\ errors' = errors + 1
          /\ todo' = [todo EXCEPT ![w] = {}]
          /\ mu' = None /\ pc' = [pc EXCEPT ![w] = "idle"]
          /\ UNCHANGED data
  /\ UNCHANGED <<disk, memory, req, minted, writes, via>>

\* The entry of the mount routed at a path moves, if the table has it.
MovedEntries(id, to) ==
  {IF e.id = id THEN [e EXCEPT !.path = to] ELSE e : e \in table["logical"]}

\* After a failed save the entry keeps its new path.
Remount_NoRollback(w, from, to) ==
  LET r == router["logical"]
  IN /\ Ready(w) /\ to # << >> /\ from \in DOMAIN r /\ to \notin DOMAIN r
     /\ List("logical", MovedEntries(r[from].id, to))
     /\ \/ /\ Saved("logical", MovedEntries(r[from].id, to))
           /\ Route("logical", With(Without(r, from), to, r[from]))
        \/ SaveFails /\ UNCHANGED router
     /\ UNCHANGED <<data, up, loaded, mu, local, minted, writes, via>>

\* The old route stays.
Remount_BothRoutes(w, from, to) ==
  LET r == router["logical"]
  IN /\ Ready(w) /\ to # << >> /\ from \in DOMAIN r /\ to \notin DOMAIN r
     /\ Saved("logical", MovedEntries(r[from].id, to))
     /\ List("logical", MovedEntries(r[from].id, to))
     /\ Route("logical", With(r, to, r[from]))
     /\ UNCHANGED <<data, up, loaded, mu, local, minted, writes, via>>

Remount(w, from, to) ==
  LET r     == router["logical"]
      moved == MovedEntries(r[from].id, to)
  IN /\ Ready(w) /\ to # << >> /\ from \in DOMAIN r /\ to \notin DOMAIN r
     /\ \/ /\ Saved("logical", moved) /\ List("logical", moved)
           /\ Route("logical", With(Without(r, from), to, r[from]))
        \/ SaveFails /\ UNCHANGED <<table, router>>
     /\ UNCHANGED <<data, up, loaded, mu, local, minted, writes, via>>

\* The options in memory change even if the save fails; the backend does not.
Tune(w, p, o) ==
  /\ Ready(w) /\ p \in DOMAIN router["logical"]
  /\ LET tuned == {IF e.id = router["logical"][p].id THEN [e EXCEPT !.opt = o] ELSE e :
                     e \in table["logical"]}
     IN /\ List("logical", tuned)
        /\ Saved("logical", tuned) \/ SaveFails
  /\ UNCHANGED <<data, up, loaded, router, mu, local, minted, writes, via>>

------------------------------------------------------------------------------
(* A request: the mount is found under the lock, storage reached without it. *)

Match(w, k, q) ==
  /\ Ready(w) /\ Covering(k, q) # {}
  /\ writes < MaxWrites /\ writes' = writes + 1
  /\ LET p == Longest(k, q)
         b == router[k][p]
     IN /\ req' = [req EXCEPT ![w] = [view |-> b.view, ver |-> b.ver,
                                      rel |-> Relative(p, q), val |-> writes + 1]]
        /\ via' = [via EXCEPT ![writes + 1] = b.id]
  /\ pc' = [pc EXCEPT ![w] = "put"]
  /\ UNCHANGED <<disk, data, memory, mu, todo, minted, errors>>

\* The worker keeps its request.
Put_Again(w) ==
  /\ pc[w] = "put"
  /\ data' = IF up THEN {d \in data : <<d.view, d.ver, d.rel>>
                           # <<req[w].view, req[w].ver, req[w].rel>>} \cup {req[w]}
             ELSE data
  /\ pc' = [pc EXCEPT ![w] = "idle"]
  /\ UNCHANGED <<disk, memory, mu, req, todo, counts, via>>

\* While the barrier is sealed the write is refused.
Put(w) ==
  /\ pc[w] = "put"
  /\ data' = IF up THEN {d \in data : <<d.view, d.ver, d.rel>>
                           # <<req[w].view, req[w].ver, req[w].rel>>} \cup {req[w]}
             ELSE data
  /\ pc' = [pc EXCEPT ![w] = "idle"] /\ req' = [req EXCEPT ![w] = None]
  /\ UNCHANGED <<disk, memory, mu, todo, counts, via>>

------------------------------------------------------------------------------
(* Seal, unseal, crash. *)

Seal == /\ up /\ mu = None
        /\ up' = FALSE
        /\ UNCHANGED <<disk, data, table, loaded, router, mu, local, counts, via>>

\* What setupMounts makes of a stored table: the built-in cubbyhole takes its path
\* whatever the table has there.
Stored(k) == IF k = "logical" THEN With(Routes(disk[k]), CubPath, BuiltIn)
             ELSE Routes(disk[k])

\* The tables of ks are read and their routes built; the other table, which an error
\* kept from being read, stays as it was.
SetUp(ks) ==
  /\ table'  = [k \in Tables |-> IF k \in ks THEN disk[k] ELSE table[k]]
  /\ router' = [k \in Tables |-> IF k \in ks THEN Stored(k) ELSE router[k]]
  /\ loaded' = loaded \cup ks

\* The barrier stays open when setupMounts fails: at the first read, or at one
\* after the mounts were built.
Unseal == /\ ~up /\ mu = None
          /\ up' = TRUE
          /\ \/ SetUp(Tables) /\ UNCHANGED errors
             \/ /\ SetUp({}) \/ SetUp({"logical"})
                /\ errors < MaxErrors /\ errors' = errors + 1
          /\ UNCHANGED <<disk, data, mu, local, minted, writes, via>>

Crash == /\ up \/ \E w \in Workers : pc[w] # "idle"
         /\ up' = FALSE /\ table' = Empty /\ loaded' = {} /\ router' = NoRoutes
         /\ mu' = None
         /\ pc' = [w \in Workers |-> "idle"]
         /\ req' = [w \in Workers |-> None] /\ todo' = [w \in Workers |-> {}]
         /\ UNCHANGED <<disk, data, counts, via>>

Next == \/ \E w \in Workers :
             \/ \E p \in Where["logical"], o \in Versions :
                  Enable(w, "logical", p, o) \/ Tune(w, p, o)
             \/ \E p \in Where["auth"] : Enable(w, "auth", p, 1)
             \/ \E k \in Tables : \E p \in Where[k] : Disable(w, k, p)
             \/ \E from, to \in Where["logical"] : Remount(w, from, to)
             \/ \E k \in Tables : \E q \in Asked[k] : Match(w, k, q)
             \/ Clear(w) \/ Put(w)
        \/ Seal \/ Unseal \/ Crash

Spec == Init /\ [][Next]_vars

------------------------------------------------------------------------------
(* Properties. *)

\* Every variable keeps its type; a request's operation lasts as long as it.
TypeOK ==
  /\ disk \in [Tables -> SUBSET Entry] /\ table \in [Tables -> SUBSET Entry]
  /\ loaded \subseteq Tables /\ DOMAIN router = Tables
  /\ \A k \in Tables : \A p \in DOMAIN router[k] :
       p \in Paths /\ router[k][p] \in Backend
  /\ data \subseteq Request /\ up \in BOOLEAN /\ mu \in Workers \cup {None}
  /\ pc \in [Workers -> {"idle", "put", "clear"}]
  /\ req \in [Workers -> Request \cup {None}] /\ todo \in [Workers -> SUBSET Request]
  /\ \A w \in Workers : /\ (req[w] # None) = (pc[w] = "put")
                         /\ (todo[w] # {}) = (pc[w] = "clear")
                         /\ (pc[w] = "clear") = (mu = w)
  /\ minted \subseteq Ids /\ writes \in 0..MaxWrites /\ errors \in 0..MaxErrors
  /\ via \in [Values -> Ids \cup {Cubbyhole, None}]

\* "routes by longest-prefix match against the mount table" (ARCHITECTURE.md),
\* the built-in cubbyhole apart: whatever commands, failures and restarts came
\* before, an unseal that failed half way too, a mount is routed at the path its
\* entry has, and nothing else is.
\* (A mount enabled at or moved to the cubbyhole's path, once the cubbyhole was
\* disabled or moved, is hidden by it after the next unseal.)
TableRouted ==
  \A k \in Tables :
    /\ \A e \in table[k] : \/ e.path \in DOMAIN router[k] /\ router[k][e.path].id = e.id
                           \/ k = "logical" /\ e.path = CubPath
    /\ \A p \in DOMAIN router[k] :
         \/ \E e \in table[k] : e.path = p /\ e.id = router[k][p].id
         \/ k = "logical" /\ router[k][p] = BuiltIn

\* A restart brings back the mounts there were, at the same paths, after any
\* failed write too: what a loaded table lists is what is stored.
RestartKeepsMounts ==
  \A k \in Tables : k \in loaded => {<<e.id, e.path>> : e \in table[k]}
                                    = {<<e.id, e.path>> : e \in disk[k]}

\* "isolating each mount's data" (barrierView): a read is answered with what was
\* written through the mount that serves it and never with what a mount left
\* behind that was at this path before, or that has moved away.
OwnDataOnly ==
  up => \A k \in Tables : \A q \in Asked[k] : \A v \in Answers(k, q) :
          via[v] = router[k][Longest(k, q)].id
==============================================================================
