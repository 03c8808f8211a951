--------------------------- MODULE MountTableProofs ---------------------------
(***************************************************************************)
(* The safety properties of MountTable for any paths, ids, workers and     *)
(* bounds, with failed writes, seals and crashes.                          *)
(***************************************************************************)
EXTENDS MountTable, WellFoundedInduction, TLAPS

\* An id is one mount's.
IdInv == \A k \in Tables :
  /\ \A e \in table[k] \cup disk[k] : e.id \in minted
  /\ \A e, f \in table[k] : e.id = f.id => e = f
  /\ \A e, f \in disk[k] : e.id = f.id => e = f

\* A path is one mount's, the cubbyhole's apart.
OnePath(k, entries) ==
  \A e, f \in entries : e.path = f.path => e = f \/ (k = "logical" /\ e.path = CubPath)
PathInv == \A k \in Tables : OnePath(k, disk[k])

\* A table that was not loaded lists nothing.
NilInv == \A k \in Tables : k \notin loaded => table[k] = {}

\* A mount has its own view of storage.
ViewInv == \A k \in Tables : \A p \in DOMAIN router[k] : router[k][p].id = router[k][p].view

\* A secret is in the view of the mount that served its write.
Placed(d) == d.val \in 1..writes /\ via[d.val] = d.view
DataInv == /\ \A d \in data : Placed(d)
           /\ \A w \in Workers : pc[w] = "put" => Placed(req[w])

IInv == TypeOK /\ IdInv /\ PathInv /\ NilInv /\ RestartKeepsMounts /\ TableRouted
        /\ ViewInv /\ DataInv

USE IdsAssumption, PathsAssumption, BoundAssumption

------------------------------------------------------------------------------
(* Routing. *)

\* A nonempty set of naturals has a least element.
LEMMA Least ==
  ASSUME NEW S \in SUBSET Nat, S # {}
  PROVE  \E x \in S : \A y \in S : x <= y
<1> DEFINE R == OpToRel(<, Nat)
<1>1. IsWellFoundedOn(R, Nat)
  BY NatLessThanWellFounded
<1>2. \A x, y \in Nat : <<y, x>> \in R <=> y < x
  BY DEF OpToRel
<1> HIDE DEF R
<1>3. PICK x \in S : \A y \in S : <<y, x>> \notin R
  BY <1>1, WFMin
<1>4. ASSUME NEW y \in S
      PROVE  x <= y
  <2>1. ~(y < x) /\ x \in Nat /\ y \in Nat
    BY <1>2, <1>3
  <2> QED BY <2>1
<1> QED BY <1>4

\* Of the mounts that cover a path, one has the longest prefix of it.
LEMMA LongestCovers ==
  ASSUME TypeOK, NEW k \in Tables, NEW q \in Asked[k], Covering(k, q) # {}
  PROVE  Longest(k, q) \in Covering(k, q)
<1> DEFINE S == {Len(q) - Len(p) : p \in Covering(k, q)}
<1>1. \A p \in Covering(k, q) : Len(p) \in Nat /\ Len(p) <= Len(q)
  BY DEF Covering, TypeOK, Paths, IsPrefix, Tables
<1>2. Len(q) \in Nat
  BY DEF Tables
<1>3. S \in SUBSET Nat /\ S # {}
  BY <1>1, <1>2
<1>4. PICK x \in S : \A y \in S : x <= y
  BY <1>3, Least
<1>5. PICK p \in Covering(k, q) : x = Len(q) - Len(p)
  BY <1>4
<1>6. ASSUME NEW r \in Covering(k, q)
      PROVE  Len(r) <= Len(p)
  <2>1. Len(q) - Len(p) <= Len(q) - Len(r)
    BY <1>4, <1>5
  <2> QED BY <1>1, <1>2, <2>1
<1> QED BY <1>5, <1>6 DEF Longest

\* What a mount at a prefix of a path gets of it is a path.
LEMMA RelativePath ==
  ASSUME NEW p \in Seq(Names), NEW q \in Seq(Names), IsPrefix(p, q)
  PROVE  Relative(p, q) \in Seq(Names)
BY DEF Relative, IsPrefix

\* A request goes to the view of the mount that serves it.
LEMMA MatchedRequest ==
  ASSUME TypeOK, ViewInv, NEW k \in Tables, NEW q \in Asked[k], NEW w \in Workers,
         Match(w, k, q)
  PROVE  LET b == router[k][Longest(k, q)]
         IN /\ req' = [req EXCEPT ![w] = [view |-> b.id, ver |-> b.ver,
                                          rel |-> Relative(Longest(k, q), q),
                                          val |-> writes + 1]]
            /\ req'[w] \in Request
<1> DEFINE p == Longest(k, q)
           b == router[k][p]
<1>1. p \in DOMAIN router[k] /\ IsPrefix(p, q)
  BY LongestCovers DEF Match, Covering
<1>2. b \in Backend /\ b.id = b.view /\ p \in Paths
  BY <1>1 DEF TypeOK, ViewInv
<1>3. p \in Seq(Names) /\ q \in Seq(Names)
  BY <1>2 DEF Paths, Tables
<1>4. Relative(p, q) \in Seq(Names)
  BY <1>1, <1>3, RelativePath
<1>5. req' = [req EXCEPT ![w] = [view |-> b.view, ver |-> b.ver,
                                 rel |-> Relative(p, q), val |-> writes + 1]]
  BY DEF Match
<1>6. writes + 1 \in Values
  BY DEF Match, TypeOK, Values
<1>7. DOMAIN req = Workers
  BY DEF TypeOK
<1> HIDE DEF p, b
<1>8. [view |-> b.id, ver |-> b.ver, rel |-> Relative(p, q), val |-> writes + 1] \in Request
  BY <1>2, <1>4, <1>6 DEF Request, Backend
<1> QED BY <1>2, <1>5, <1>7, <1>8 DEF p, b

------------------------------------------------------------------------------
(* Entries. *)

\* What a remount leaves of an entry.
LEMMA MovedEntry ==
  ASSUME TypeOK, IdInv, NEW id, NEW to \in Paths
  PROVE  /\ MovedEntries(id, to) \subseteq Entry
         /\ \A x \in MovedEntries(id, to) : \E e \in table["logical"] :
              x.id = e.id /\ x.path = IF e.id = id THEN to ELSE e.path
         /\ \A e \in table["logical"] : \E x \in MovedEntries(id, to) :
              x.id = e.id /\ x.path = IF e.id = id THEN to ELSE e.path
         /\ \A x, y \in MovedEntries(id, to) : x.id = y.id => x = y
         /\ \A x \in MovedEntries(id, to) : x.id \in minted
<1>1. \A e \in table["logical"] : e \in Entry
  BY DEF TypeOK, Tables
<1>2. \A e \in Entry : [e EXCEPT !.path = to] \in Entry
                       /\ [e EXCEPT !.path = to].id = e.id
                       /\ [e EXCEPT !.path = to].path = to
  BY DEF Entry
<1>3. \A e, f \in table["logical"] : e.id = f.id => e = f
  BY DEF IdInv, Tables
<1>4. \A e \in table["logical"] : e.id \in minted
  BY DEF IdInv, Tables
<1> DEFINE m(e) == IF e.id = id THEN [e EXCEPT !.path = to] ELSE e
<1>5. \A e \in table["logical"] : /\ m(e) \in Entry /\ m(e).id = e.id
                                  /\ m(e).path = (IF e.id = id THEN to ELSE e.path)
  BY <1>1, <1>2
<1>6. MovedEntries(id, to) = {m(e) : e \in table["logical"]}
  BY DEF MovedEntries
<1> HIDE DEF m
<1>7. \A x \in MovedEntries(id, to) : \E e \in table["logical"] : x = m(e)
  BY <1>6
<1>8. \A e \in table["logical"] : m(e) \in MovedEntries(id, to)
  BY <1>6
<1> QED BY <1>3, <1>4, <1>5, <1>7, <1>8

Tuned(id, o) == {IF e.id = id THEN [e EXCEPT !.opt = o] ELSE e : e \in table["logical"]}

\* What a tune leaves of an entry.
LEMMA TunedEntry ==
  ASSUME TypeOK, IdInv, NEW id, NEW o \in Versions
  PROVE  /\ Tuned(id, o) \subseteq Entry
         /\ \A x \in Tuned(id, o) : \E e \in table["logical"] :
              x.id = e.id /\ x.path = e.path
         /\ \A e \in table["logical"] : \E x \in Tuned(id, o) :
              x.id = e.id /\ x.path = e.path
         /\ \A x, y \in Tuned(id, o) : x.id = y.id => x = y
         /\ \A x \in Tuned(id, o) : x.id \in minted
<1>1. \A e \in table["logical"] : e \in Entry
  BY DEF TypeOK, Tables
<1>2. \A e \in Entry : [e EXCEPT !.opt = o] \in Entry
                       /\ [e EXCEPT !.opt = o].id = e.id
                       /\ [e EXCEPT !.opt = o].path = e.path
  BY DEF Entry
<1>3. \A e, f \in table["logical"] : e.id = f.id => e = f
  BY DEF IdInv, Tables
<1>4. \A e \in table["logical"] : e.id \in minted
  BY DEF IdInv, Tables
<1> DEFINE m(e) == IF e.id = id THEN [e EXCEPT !.opt = o] ELSE e
<1>5. \A e \in table["logical"] : /\ m(e) \in Entry /\ m(e).id = e.id
                                  /\ m(e).path = e.path
  BY <1>1, <1>2
<1>6. Tuned(id, o) = {m(e) : e \in table["logical"]}
  BY DEF Tuned
<1> HIDE DEF m
<1>7. \A x \in Tuned(id, o) : \E e \in table["logical"] : x = m(e)
  BY <1>6
<1>8. \A e \in table["logical"] : m(e) \in Tuned(id, o)
  BY <1>6
<1> QED BY <1>3, <1>4, <1>5, <1>7, <1>8

\* No two entries in memory share a path either, the cubbyhole's apart.
LEMMA OnePathInMemory ==
  ASSUME TypeOK, IdInv, PathInv, NilInv, RestartKeepsMounts, NEW k \in Tables
  PROVE  OnePath(k, table[k])
<1>1. ASSUME NEW e \in table[k], NEW f \in table[k], e.path = f.path
      PROVE  e = f \/ (k = "logical" /\ e.path = CubPath)
  <2>0. {<<g.id, g.path>> : g \in table[k]} = {<<g.id, g.path>> : g \in disk[k]}
    BY <1>1 DEF NilInv, RestartKeepsMounts
  <2>1. PICK x \in disk[k] : <<x.id, x.path>> = <<e.id, e.path>>
    BY <2>0
  <2>2. PICK y \in disk[k] : <<y.id, y.path>> = <<f.id, f.path>>
    BY <2>0
  <2>3. x = y \/ (k = "logical" /\ x.path = CubPath)
    BY <1>1, <2>1, <2>2 DEF PathInv, OnePath
  <2> QED BY <2>1, <2>2, <2>3 DEF IdInv
<1> QED BY <1>1 DEF OnePath

------------------------------------------------------------------------------
(* Types. *)

TableTypes ==
  /\ disk \in [Tables -> SUBSET Entry] /\ table \in [Tables -> SUBSET Entry]
  /\ DOMAIN router = Tables
  /\ \A k \in Tables : \A p \in DOMAIN router[k] :
       p \in Paths /\ router[k][p] \in Backend

WorkerTypes ==
  /\ mu \in Workers \cup {None}
  /\ pc \in [Workers -> {"idle", "put", "clear"}]
  /\ req \in [Workers -> Request \cup {None}] /\ todo \in [Workers -> SUBSET Request]
  /\ \A w \in Workers : /\ (req[w] # None) = (pc[w] = "put")
                        /\ (todo[w] # {}) = (pc[w] = "clear")
                        /\ (pc[w] = "clear") = (mu = w)

CountTypes ==
  /\ data \subseteq Request /\ up \in BOOLEAN /\ loaded \subseteq Tables
  /\ minted \subseteq Ids /\ writes \in 0..MaxWrites /\ errors \in 0..MaxErrors
  /\ via \in [Values -> Ids \cup {Cubbyhole, None}]

\* The parts of TypeOK together.
LEMMA TypeParts == TypeOK <=> TableTypes /\ WorkerTypes /\ CountTypes
BY DEF TypeOK, TableTypes, WorkerTypes, CountTypes

\* The tables keep their types ...
LEMMA TableTypesKept ==
  ASSUME IInv, Next
  PROVE  TableTypes'
<1> USE DEF IInv
<1>0. TableTypes
  BY TypeParts
<1>1. ASSUME NEW k \in Tables, NEW d \in SUBSET Entry, NEW t \in SUBSET Entry, NEW r,
             \A p \in DOMAIN r : p \in Paths /\ r[p] \in Backend,
             disk' = [disk EXCEPT ![k] = d] \/ UNCHANGED disk,
             table' = [table EXCEPT ![k] = t] \/ UNCHANGED table,
             router' = [router EXCEPT ![k] = r] \/ UNCHANGED router
      PROVE  TableTypes'
  <2>1. disk' \in [Tables -> SUBSET Entry]
    BY <1>0, <1>1 DEF TableTypes
  <2>2. table' \in [Tables -> SUBSET Entry]
    BY <1>0, <1>1 DEF TableTypes
  <2>3. DOMAIN router' = Tables
    BY <1>0, <1>1 DEF TableTypes
  <2>4. \A j \in Tables : router'[j] = router[j] \/ (j = k /\ router'[j] = r)
    BY <1>0, <1>1 DEF TableTypes
  <2>5. \A j \in Tables : \A p \in DOMAIN router'[j] :
          p \in Paths /\ router'[j][p] \in Backend
    BY <1>0, <1>1, <2>4 DEF TableTypes
  <2> QED BY <2>1, <2>2, <2>3, <2>5 DEF TableTypes
<1>2. ASSUME NEW k \in Tables
      PROVE  /\ table[k] \in SUBSET Entry
             /\ \A p \in DOMAIN router[k] : p \in Paths /\ router[k][p] \in Backend
  BY <1>0 DEF TableTypes
<1>3. ASSUME NEW w \in Workers, NEW k \in Tables, NEW p \in Where[k], NEW o \in Versions,
             Enable(w, k, p, o)
      PROVE  TableTypes'
  <2>1. PICK i \in Ids \ minted :
          LET e == [id |-> i, path |-> p, opt |-> o]
          IN \/ /\ Saved(k, table[k] \cup {e}) /\ List(k, table[k] \cup {e})
                /\ Route(k, With(router[k], p, Mounted(e)))
             \/ SaveFails /\ UNCHANGED <<table, router>>
    BY <1>3 DEF Enable
  <2> DEFINE e == [id |-> i, path |-> p, opt |-> o]
             r == With(router[k], p, Mounted(e))
  <2>2. p \in Paths
    BY DEF Paths, Tables
  <2>3. e \in Entry /\ Mounted(e) \in Backend
    BY <2>2 DEF Entry, Backend, Mounted, View
  <2>4. \A q \in DOMAIN r : q \in Paths /\ r[q] \in Backend
    BY <1>2, <2>2, <2>3 DEF With
  <2>5. table[k] \cup {e} \in SUBSET Entry
    BY <1>2, <2>3
  <2> HIDE DEF e
  <2>6. \/ disk' = [disk EXCEPT ![k] = table[k] \cup {e}] /\ List(k, table[k] \cup {e})
           /\ Route(k, r)
        \/ UNCHANGED <<disk, table, router>>
    BY <2>1 DEF Saved, SaveFails, e
  <2> HIDE DEF r
  <2> QED BY <1>1, <2>4, <2>5, <2>6 DEF List, Route
<1>4. ASSUME NEW w \in Workers, NEW k \in Tables, NEW p \in Where[k], Disable(w, k, p)
      PROVE  TableTypes'
  <2> DEFINE t == {e \in table[k] : e.path # p}
             r == Without(router[k], p)
  <2>1. t \in SUBSET Entry
    BY <1>2
  <2>2. \A q \in DOMAIN r : q \in Paths /\ r[q] \in Backend
    BY <1>2 DEF Without
  <2>3. \/ disk' = [disk EXCEPT ![k] = t] /\ List(k, t) /\ Route(k, r)
        \/ UNCHANGED <<disk, table, router>>
    BY <1>4 DEF Disable, Saved, SaveFails
  <2> HIDE DEF t, r
  <2> QED BY <1>1, <2>1, <2>2, <2>3 DEF List, Route
<1>5. ASSUME NEW w \in Workers, NEW from \in Where["logical"], NEW to \in Where["logical"],
             Remount(w, from, to)
      PROVE  TableTypes'
  <2> DEFINE k == "logical"
             t == MovedEntries(router[k][from].id, to)
             r == With(Without(router[k], from), to, router[k][from])
  <2>1. to \in Paths
    BY DEF Paths
  <2>2. t \in SUBSET Entry
    BY <2>1, MovedEntry
  <2>3. k \in Tables /\ from \in DOMAIN router[k]
    BY <1>5 DEF Remount, Tables
  <2>4. \A q \in DOMAIN r : q \in Paths /\ r[q] \in Backend
    BY <1>2, <2>1, <2>3 DEF With, Without
  <2>5. \/ disk' = [disk EXCEPT ![k] = t] /\ List(k, t) /\ Route(k, r)
        \/ UNCHANGED <<disk, table, router>>
    BY <1>5 DEF Remount, Saved, SaveFails
  <2> HIDE DEF t, r, k
  <2> QED BY <1>1, <2>2, <2>3, <2>4, <2>5 DEF List, Route
<1>6. ASSUME NEW w \in Workers, NEW p \in Where["logical"], NEW o \in Versions, Tune(w, p, o)
      PROVE  TableTypes'
  <2> DEFINE k == "logical"
             t == Tuned(router[k][p].id, o)
  <2>1. t \in SUBSET Entry
    BY TunedEntry
  <2>2. /\ disk' = [disk EXCEPT ![k] = t] \/ UNCHANGED disk
        /\ List(k, t) /\ UNCHANGED router
    BY <1>6 DEF Tune, Tuned, Saved, SaveFails
  <2>3. k \in Tables
    BY DEF Tables
  <2> HIDE DEF t, k
  <2> QED BY <1>1, <1>2, <2>1, <2>2, <2>3 DEF List
<1>7. CASE Unseal
  <2>1. \A k \in Tables : disk[k] \in SUBSET Entry
    BY <1>0 DEF TableTypes
  <2>2. ASSUME NEW k \in Tables, NEW p \in DOMAIN Routes(disk[k])
        PROVE  p \in Paths /\ Routes(disk[k])[p] \in Backend
    <3>1. PICK e \in disk[k] : e.path = p
      BY <2>2 DEF Routes
    <3> DEFINE f == CHOOSE f \in disk[k] : f.path = p
    <3>2. f \in disk[k] /\ Routes(disk[k])[p] = Mounted(f)
      BY <3>1 DEF Routes
    <3> HIDE DEF f
    <3>3. e \in Entry /\ f \in Entry
      BY <2>1, <3>1, <3>2
    <3> QED BY <3>1, <3>2, <3>3 DEF Mounted, View, Entry, Backend
  <2>3. BuiltIn \in Backend /\ CubPath \in Paths
    BY DEF BuiltIn, Backend, Versions, Paths
  <2>4. \A k \in Tables : \A p \in DOMAIN Stored(k) : p \in Paths /\ Stored(k)[p] \in Backend
    <3>1. ASSUME NEW k \in Tables, NEW p \in DOMAIN Stored(k), k = "logical"
          PROVE  p \in Paths /\ Stored(k)[p] \in Backend
      BY <2>2, <2>3, <3>1 DEF Stored, With, Tables
    <3>2. ASSUME NEW k \in Tables, NEW p \in DOMAIN Stored(k), k # "logical"
          PROVE  p \in Paths /\ Stored(k)[p] \in Backend
      BY <2>2, <3>2 DEF Stored
    <3> QED BY <3>1, <3>2
  <2>5. PICK ks \in SUBSET Tables : SetUp(ks)
    BY <1>7 DEF Unseal, Tables
  <2>6. /\ DOMAIN router' = Tables
        /\ \A k \in Tables : router'[k] \in {Stored(k), router[k]}
    BY <2>5 DEF SetUp
  <2>7. table' \in [Tables -> SUBSET Entry]
    BY <1>0, <2>1, <2>5 DEF SetUp, TableTypes
  <2>8. ASSUME NEW k \in Tables, NEW p \in DOMAIN router'[k]
        PROVE  p \in Paths /\ router'[k][p] \in Backend
    BY <1>2, <2>4, <2>6
  <2>9. disk' \in [Tables -> SUBSET Entry]
    BY <1>0, <1>7 DEF Unseal, TableTypes
  <2> QED BY <2>6, <2>7, <2>8, <2>9 DEF TableTypes
<1>8. CASE Crash
  BY <1>0, <1>8 DEF Crash, TableTypes, Empty, NoRoutes
<1>9. CASE UNCHANGED <<disk, table, router>>
  BY <1>0, <1>9 DEF TableTypes
<1>10. ASSUME NEW w \in Workers, \/ \E k \in Tables : \E q \in Asked[k] : Match(w, k, q)
                                 \/ Clear(w) \/ Put(w) \/ Seal
       PROVE  TableTypes'
  BY <1>9, <1>10 DEF Match, Clear, Put, Seal, memory
<1>11. CASE Seal
  BY <1>9, <1>11 DEF Seal
<1> QED BY <1>3, <1>4, <1>5, <1>6, <1>7, <1>8, <1>10, <1>11 DEF Next, Tables, Versions

\* ... and so do the workers, ...
LEMMA WorkerTypesKept ==
  ASSUME IInv, Next
  PROVE  WorkerTypes'
<1> USE DEF IInv
<1>0. WorkerTypes /\ data \subseteq Request
  BY TypeParts DEF CountTypes
<1>1. ASSUME UNCHANGED <<mu, local>>
      PROVE  WorkerTypes'
  BY <1>0, <1>1 DEF WorkerTypes, local
<1>2. ASSUME NEW w \in Workers, NEW k \in Tables, NEW p \in Where[k], Disable(w, k, p)
      PROVE  WorkerTypes'
  <2> DEFINE old == {d \in data : d.view = Doomed(k, p) /\ d.view # Cubbyhole}
  <2>1. CASE UNCHANGED <<mu, local>>
    BY <1>1, <2>1
  <2>2. CASE ~UNCHANGED <<mu, local>>
    <3>1. /\ old # {} /\ mu = None /\ pc[w] = "idle" /\ mu' = w
          /\ pc' = [pc EXCEPT ![w] = "clear"] /\ todo' = [todo EXCEPT ![w] = old]
          /\ UNCHANGED req
      BY <1>2, <2>2 DEF Disable, Ready
    <3>2. old \in SUBSET Request
      BY <1>0
    <3> HIDE DEF old
    <3>3. /\ mu' \in Workers \cup {None} /\ req' \in [Workers -> Request \cup {None}]
          /\ pc' \in [Workers -> {"idle", "put", "clear"}]
          /\ todo' \in [Workers -> SUBSET Request]
      BY <1>0, <3>1, <3>2 DEF WorkerTypes
    <3>4. ASSUME NEW v \in Workers
          PROVE  /\ (req'[v] # None) = (pc'[v] = "put")
                 /\ (todo'[v] # {}) = (pc'[v] = "clear")
                 /\ (pc'[v] = "clear") = (mu' = v)
      BY <1>0, <3>1 DEF WorkerTypes
    <3> QED BY <3>3, <3>4 DEF WorkerTypes
  <2> QED BY <2>1, <2>2
<1>3. ASSUME NEW w \in Workers, Clear(w)
      PROVE  WorkerTypes'
  <2>1. PICK d \in todo[w] :
          \/ /\ todo' = [todo EXCEPT ![w] = @ \ {d}]
             /\ IF todo[w] = {d} THEN mu' = None /\ pc' = [pc EXCEPT ![w] = "idle"]
                ELSE UNCHANGED <<mu, pc>>
          \/ /\ todo' = [todo EXCEPT ![w] = {}]
             /\ mu' = None /\ pc' = [pc EXCEPT ![w] = "idle"]
    BY <1>3 DEF Clear
  <2>2. \/ /\ todo' = [todo EXCEPT ![w] = {}]
           /\ mu' = None /\ pc' = [pc EXCEPT ![w] = "idle"]
        \/ /\ todo' = [todo EXCEPT ![w] = @ \ {d}] /\ todo[w] \ {d} # {}
           /\ UNCHANGED <<mu, pc>>
    <3>1. CASE todo[w] = {d}
      <4>1. todo[w] \ {d} = {}
        BY <3>1
      <4> QED BY <2>1, <3>1, <4>1
    <3>2. CASE todo[w] # {d}
      <4>1. todo[w] \ {d} # {}
        BY <3>2
      <4> QED BY <2>1, <3>2, <4>1
    <3> QED BY <3>1, <3>2
  <2>3. UNCHANGED req /\ pc[w] = "clear"
    BY <1>3 DEF Clear
  <2>4. /\ mu' \in Workers \cup {None} /\ req' \in [Workers -> Request \cup {None}]
        /\ pc' \in [Workers -> {"idle", "put", "clear"}]
        /\ todo' \in [Workers -> SUBSET Request]
    BY <1>0, <2>2, <2>3 DEF WorkerTypes
  <2>5. ASSUME NEW v \in Workers
        PROVE  /\ (req'[v] # None) = (pc'[v] = "put")
               /\ (todo'[v] # {}) = (pc'[v] = "clear")
               /\ (pc'[v] = "clear") = (mu' = v)
    BY <1>0, <2>2, <2>3 DEF WorkerTypes
  <2> QED BY <2>4, <2>5 DEF WorkerTypes
<1>4. ASSUME NEW w \in Workers, NEW k \in Tables, NEW q \in Asked[k], Match(w, k, q)
      PROVE  WorkerTypes'
  <2>1. \E x : /\ req' = [req EXCEPT ![w] = x]
               /\ req'[w] \in Request
    BY <1>4, MatchedRequest
  <2>2. req' \in [Workers -> Request \cup {None}]
    BY <1>0, <2>1 DEF WorkerTypes
  <2>3. /\ req'[w] # None /\ \A v \in Workers \ {w} : req'[v] = req[v]
    BY <1>0, <2>1 DEF WorkerTypes
  <2>4. pc' = [pc EXCEPT ![w] = "put"] /\ pc[w] = "idle" /\ UNCHANGED <<mu, todo>>
    BY <1>4 DEF Match, Ready
  <2>5. ASSUME NEW v \in Workers
        PROVE  /\ (req'[v] # None) = (pc'[v] = "put")
               /\ (todo'[v] # {}) = (pc'[v] = "clear")
               /\ (pc'[v] = "clear") = (mu' = v)
    BY <1>0, <2>3, <2>4 DEF WorkerTypes
  <2> QED BY <1>0, <2>2, <2>4, <2>5 DEF WorkerTypes
<1>5. ASSUME NEW w \in Workers, Put(w)
      PROVE  WorkerTypes'
  <2>1. /\ pc' = [pc EXCEPT ![w] = "idle"] /\ req' = [req EXCEPT ![w] = None]
        /\ pc[w] = "put" /\ UNCHANGED <<mu, todo>>
    BY <1>5 DEF Put
  <2>2. ASSUME NEW v \in Workers
        PROVE  /\ (req'[v] # None) = (pc'[v] = "put")
               /\ (todo'[v] # {}) = (pc'[v] = "clear")
               /\ (pc'[v] = "clear") = (mu' = v)
    BY <1>0, <2>1 DEF WorkerTypes
  <2> QED BY <1>0, <2>1, <2>2 DEF WorkerTypes
<1>6. CASE Crash
  BY <1>6 DEF Crash, WorkerTypes
<1>7. ASSUME NEW w \in Workers, NEW k \in Tables, NEW p \in Where[k], NEW o \in Versions,
             Enable(w, k, p, o) \/ Tune(w, p, o)
      PROVE  WorkerTypes'
  BY <1>1, <1>7 DEF Enable, Tune
<1>8. ASSUME NEW w \in Workers, NEW from, NEW to, Remount(w, from, to)
      PROVE  WorkerTypes'
  BY <1>1, <1>8 DEF Remount
<1>9. CASE Seal \/ Unseal
  BY <1>1, <1>9 DEF Seal, Unseal
<1> QED BY <1>2, <1>3, <1>4, <1>5, <1>6, <1>7, <1>8, <1>9 DEF Next, Tables, Versions

\* ... storage and the counters.
LEMMA CountTypesKept ==
  ASSUME IInv, Next
  PROVE  CountTypes'
<1> USE DEF IInv
<1>0. CountTypes /\ WorkerTypes
  BY TypeParts
<1>1. ASSUME UNCHANGED <<data, up, loaded, writes, via>>, minted' \subseteq Ids,
             UNCHANGED errors \/ SaveFails
      PROVE  CountTypes'
  BY <1>0, <1>1 DEF CountTypes, SaveFails
<1>2. ASSUME NEW w \in Workers, NEW k \in Tables, NEW p \in Where[k], NEW o \in Versions,
             Enable(w, k, p, o)
      PROVE  CountTypes'
  <2>1. minted' \subseteq Ids /\ (UNCHANGED errors \/ SaveFails)
    BY <1>0, <1>2 DEF Enable, CountTypes, Saved
  <2> QED BY <1>1, <1>2, <2>1 DEF Enable
<1>3. ASSUME NEW w \in Workers, NEW k \in Tables, NEW p \in Where[k], Disable(w, k, p)
      PROVE  CountTypes'
  BY <1>0, <1>1, <1>3 DEF Disable, CountTypes, Saved
<1>4. ASSUME NEW w \in Workers, NEW from, NEW to, Remount(w, from, to)
      PROVE  CountTypes'
  BY <1>0, <1>1, <1>4 DEF Remount, CountTypes, Saved
<1>5. ASSUME NEW w \in Workers, NEW p, NEW o \in Versions, Tune(w, p, o)
      PROVE  CountTypes'
  BY <1>0, <1>1, <1>5 DEF Tune, CountTypes, Saved
<1>6. ASSUME NEW w \in Workers, NEW k \in Tables, NEW q \in Asked[k], Match(w, k, q)
      PROVE  CountTypes'
  <2>1. router[k][Longest(k, q)].id \in Ids \cup {Cubbyhole}
    <3>1. Longest(k, q) \in DOMAIN router[k]
      BY <1>6, LongestCovers DEF Match, Covering
    <3> QED BY <3>1 DEF TypeOK, Backend
  <2>2. /\ via' = [via EXCEPT ![writes + 1] = router[k][Longest(k, q)].id]
        /\ writes < MaxWrites /\ writes' = writes + 1
        /\ UNCHANGED <<data, up, loaded, minted, errors>>
    BY <1>6 DEF Match, memory
  <2>3. via' \in [Values -> Ids \cup {Cubbyhole, None}]
    BY <1>0, <2>1, <2>2 DEF CountTypes
  <2> QED BY <1>0, <2>2, <2>3 DEF CountTypes
<1>7. ASSUME NEW w \in Workers, Put(w)
      PROVE  CountTypes'
  <2>1. req[w] \in Request
    BY <1>0, <1>7 DEF Put, WorkerTypes
  <2>2. data' \subseteq data \cup {req[w]}
    BY <1>7 DEF Put
  <2>3. UNCHANGED <<up, loaded, minted, writes, errors, via>>
    BY <1>7 DEF Put, memory, counts
  <2> QED BY <1>0, <2>1, <2>2, <2>3 DEF CountTypes
<1>8. ASSUME NEW w \in Workers, Clear(w)
      PROVE  CountTypes'
  <2>1. data' \subseteq data
    BY <1>8 DEF Clear
  <2>2. UNCHANGED <<up, loaded, minted, writes, via>> /\ errors' \in 0..MaxErrors
    BY <1>0, <1>8 DEF Clear, memory, CountTypes
  <2> QED BY <1>0, <2>1, <2>2 DEF CountTypes
<1>9. CASE Seal \/ Crash
  BY <1>0, <1>9 DEF Seal, Crash, counts, CountTypes
<1>10. CASE Unseal
  <2>1. loaded' \subseteq Tables
    BY <1>0, <1>10 DEF Unseal, SetUp, CountTypes, Tables
  <2>2. up' = TRUE /\ errors' \in 0..MaxErrors /\ UNCHANGED <<data, minted, writes, via>>
    BY <1>0, <1>10 DEF Unseal, CountTypes
  <2>3. up' \in BOOLEAN
    BY <2>2, Zenon
  <2> QED BY <1>0, <2>1, <2>2, <2>3 DEF CountTypes
<1> QED BY <1>2, <1>3, <1>4, <1>5, <1>6, <1>7, <1>8, <1>9, <1>10 DEF Next, Tables, Versions

------------------------------------------------------------------------------
(* The tables and the routes. *)

\* What a step must keep of one table.
TableInv(k) ==
  /\ \A e \in table[k] \cup disk[k] : e.id \in minted
  /\ \A e, f \in table[k] : e.id = f.id => e = f
  /\ \A e, f \in disk[k] : e.id = f.id => e = f
  /\ OnePath(k, disk[k])
  /\ \A p \in DOMAIN router[k] : router[k][p].id = router[k][p].view
  /\ k \notin loaded => table[k] = {}
  /\ k \in loaded => {<<e.id, e.path>> : e \in table[k]}
                      = {<<e.id, e.path>> : e \in disk[k]}
  /\ \A e \in table[k] : \/ e.path \in DOMAIN router[k] /\ router[k][e.path].id = e.id
                         \/ k = "logical" /\ e.path = CubPath
  /\ \A p \in DOMAIN router[k] :
       \/ \E e \in table[k] : e.path = p /\ e.id = router[k][p].id
       \/ k = "logical" /\ router[k][p] = BuiltIn

\* These are the parts about the tables together.
LEMMA TableParts ==
  IdInv /\ PathInv /\ NilInv /\ RestartKeepsMounts /\ TableRouted /\ ViewInv
    <=> \A k \in Tables : TableInv(k)
BY DEF IdInv, PathInv, NilInv, RestartKeepsMounts, TableRouted, ViewInv, TableInv

\* A command on one table leaves the other as it is.
LEMMA OtherTable ==
  ASSUME NEW k \in Tables, TableInv(k), minted \subseteq minted', loaded' = loaded,
         UNCHANGED <<disk[k], table[k], router[k]>>
  PROVE  TableInv(k)'
BY DEF TableInv, OnePath

\* Enabling gives a fresh id a path that is free.
LEMMA EnableKeepsTable ==
  ASSUME IInv, NEW w \in Workers, NEW k \in Tables, NEW p \in Where[k],
         NEW o \in Versions, Enable(w, k, p, o)
  PROVE  \A j \in Tables : TableInv(j)'
<1> USE DEF IInv
<1>1. PICK i \in Ids \ minted :
        LET e == [id |-> i, path |-> p, opt |-> o]
        IN /\ minted' = minted \cup {i}
           /\ \/ /\ Saved(k, table[k] \cup {e}) /\ List(k, table[k] \cup {e})
                 /\ Route(k, With(router[k], p, Mounted(e)))
              \/ SaveFails /\ UNCHANGED <<table, router>>
  BY DEF Enable
<1> DEFINE e == [id |-> i, path |-> p, opt |-> o]
           r == With(router[k], p, Mounted(e))
<1>2. \A j \in Tables : TableInv(j)
  BY TableParts
<1>3. /\ loaded' = loaded /\ k \in loaded /\ minted \subseteq minted'
      /\ i \in minted' /\ Free(k, p)
  BY <1>1 DEF Enable, Ready
<1>4. CASE UNCHANGED <<disk, table, router>>
  BY <1>2, <1>3, <1>4, OtherTable
<1>5. CASE /\ disk' = [disk EXCEPT ![k] = table[k] \cup {e}]
           /\ table' = [table EXCEPT ![k] = table[k] \cup {e}]
           /\ router' = [router EXCEPT ![k] = r]
  <2>1. \A j \in Tables \ {k} : TableInv(j)'
    <3>1. \A j \in Tables \ {k} : UNCHANGED <<disk[j], table[j], router[j]>>
      BY <1>5 DEF TypeOK
    <3> QED BY <1>2, <1>3, <3>1, OtherTable
  <2>2. /\ disk'[k] = table[k] \cup {e} /\ table'[k] = table[k] \cup {e}
        /\ router'[k] = r
    BY <1>5 DEF TypeOK
  <2>3. e.id = i /\ e.path = p /\ Mounted(e).id = i /\ Mounted(e).view = i
    BY DEF Mounted, View
  <2>4. /\ DOMAIN r = DOMAIN router[k] \cup {p} /\ r[p] = Mounted(e)
        /\ \A q \in DOMAIN router[k] \ {p} : r[q] = router[k][q]
    BY DEF With
  <2> HIDE DEF e, r
  <2>5. TableInv(k) /\ i \notin minted
    BY <1>2
  <2>6. /\ \A f \in table[k] : f.id \in minted
        /\ \A f, g \in table[k] : f.id = g.id => f = g
    BY <2>5 DEF TableInv
  <2>7. \A f \in table[k] : f.path = p => k = "logical" /\ p = CubPath
    BY <1>3, <2>5 DEF Free, TableInv
  <2>8. OnePath(k, table[k])
    BY <1>3, OnePathInMemory
  <2>9. OnePath(k, disk'[k])
    BY <2>2, <2>3, <2>7, <2>8 DEF OnePath
  <2>10. /\ \A f \in disk'[k] \cup table'[k] : f.id \in minted'
         /\ \A f, g \in table'[k] : f.id = g.id => f = g
         /\ \A f, g \in disk'[k] : f.id = g.id => f = g
    BY <1>3, <2>2, <2>3, <2>5, <2>6
  <2>11. \A q \in DOMAIN router'[k] : router'[k][q].id = router'[k][q].view
    BY <2>2, <2>3, <2>4, <2>5 DEF TableInv
  <2>12. \A f \in table'[k] :
           \/ f.path \in DOMAIN router'[k] /\ router'[k][f.path].id = f.id
           \/ k = "logical" /\ f.path = CubPath
    BY <1>3, <2>2, <2>3, <2>4, <2>5, <2>7 DEF TableInv
  <2>13. \A q \in DOMAIN router'[k] :
           \/ \E f \in table'[k] : f.path = q /\ f.id = router'[k][q].id
           \/ k = "logical" /\ router'[k][q] = BuiltIn
    BY <1>3, <2>2, <2>3, <2>4, <2>5 DEF TableInv
  <2>14. TableInv(k)'
    BY <1>3, <2>2, <2>9, <2>10, <2>11, <2>12, <2>13 DEF TableInv, OnePath
  <2> QED BY <2>1, <2>14
<1> HIDE DEF e, r
<1> QED BY <1>1, <1>4, <1>5 DEF Saved, SaveFails, List, Route, e, r

\* Disabling takes an entry and its route away.
LEMMA DisableKeepsTable ==
  ASSUME IInv, NEW w \in Workers, NEW k \in Tables, NEW p \in Where[k], Disable(w, k, p)
  PROVE  \A j \in Tables : TableInv(j)'
<1> USE DEF IInv
<1> DEFINE t == {e \in table[k] : e.path # p}
           r == Without(router[k], p)
<1>1. \/ disk' = [disk EXCEPT ![k] = t] /\ List(k, t) /\ Route(k, r)
      \/ UNCHANGED <<disk, table, router>>
  BY DEF Disable, Saved, SaveFails
<1>2. \A j \in Tables : TableInv(j)
  BY TableParts
<1>3. loaded' = loaded /\ minted \subseteq minted'
  BY DEF Disable, Ready
<1>4. CASE UNCHANGED <<disk, table, router>>
  BY <1>2, <1>3, <1>4, OtherTable
<1>5. CASE disk' = [disk EXCEPT ![k] = t] /\ List(k, t) /\ Route(k, r)
  <2>1. \A j \in Tables \ {k} : TableInv(j)'
    <3>1. \A j \in Tables \ {k} : UNCHANGED <<disk[j], table[j], router[j]>>
      BY <1>5 DEF TypeOK, List, Route
    <3> QED BY <1>2, <1>3, <3>1, OtherTable
  <2>2. disk'[k] = t /\ table'[k] = t /\ router'[k] = r
    BY <1>5 DEF TypeOK, List, Route
  <2>3. /\ DOMAIN r = DOMAIN router[k] \ {p}
        /\ \A q \in DOMAIN r : r[q] = router[k][q]
    BY DEF Without
  <2>4. \A e : e \in t <=> e \in table[k] /\ e.path # p
    OBVIOUS
  <2> HIDE DEF t, r
  <2>5. TableInv(k)
    BY <1>2
  <2>6. OnePath(k, table[k])
    BY <1>3, OnePathInMemory
  <2>7. OnePath(k, disk'[k])
    BY <2>2, <2>4, <2>6 DEF OnePath
  <2>8. /\ \A f \in disk'[k] \cup table'[k] : f.id \in minted'
        /\ \A f, g \in table'[k] : f.id = g.id => f = g
        /\ \A f, g \in disk'[k] : f.id = g.id => f = g
    BY <1>3, <2>2, <2>4, <2>5 DEF TableInv
  <2>9. \A q \in DOMAIN router'[k] : router'[k][q].id = router'[k][q].view
    BY <2>2, <2>3, <2>5 DEF TableInv
  <2>10. \A f \in table'[k] :
           \/ f.path \in DOMAIN router'[k] /\ router'[k][f.path].id = f.id
           \/ k = "logical" /\ f.path = CubPath
    BY <1>3, <2>2, <2>3, <2>4, <2>5 DEF TableInv
  <2>11. \A q \in DOMAIN router'[k] :
           \/ \E f \in table'[k] : f.path = q /\ f.id = router'[k][q].id
           \/ k = "logical" /\ router'[k][q] = BuiltIn
    BY <1>3, <2>2, <2>3, <2>4, <2>5 DEF TableInv
  <2>12. TableInv(k)'
    <3>1. k \notin loaded' => table'[k] = {}
      BY <1>3, <2>2, <2>4, <2>5 DEF TableInv
    <3> QED BY <3>1, <2>2, <2>7, <2>8, <2>9, <2>10, <2>11 DEF TableInv, OnePath
  <2> QED BY <2>1, <2>12
<1> HIDE DEF t, r
<1> QED BY <1>1, <1>4, <1>5

\* A remount moves one entry and its route, or nothing.
LEMMA RemountKeepsTable ==
  ASSUME IInv, NEW w \in Workers, NEW from \in Where["logical"],
         NEW to \in Where["logical"], Remount(w, from, to)
  PROVE  \A j \in Tables : TableInv(j)'
<1> USE DEF IInv
<1> DEFINE k == "logical"
           b == router[k][from]
           t == MovedEntries(b.id, to)
           r == With(Without(router[k], from), to, b)
<1>1. \/ disk' = [disk EXCEPT ![k] = t] /\ List(k, t) /\ Route(k, r)
      \/ UNCHANGED <<disk, table, router>>
  BY DEF Remount, Saved, SaveFails
<1>2. \A j \in Tables : TableInv(j)
  BY TableParts
<1>3. /\ loaded' = loaded /\ minted \subseteq minted' /\ k \in Tables
      /\ from \in DOMAIN router[k] /\ to \notin DOMAIN router[k]
  BY DEF Remount, Ready, Tables
<1>4. CASE UNCHANGED <<disk, table, router>>
  BY <1>2, <1>3, <1>4, OtherTable
<1>5. CASE disk' = [disk EXCEPT ![k] = t] /\ List(k, t) /\ Route(k, r)
  <2>1. \A j \in Tables \ {k} : TableInv(j)'
    <3>1. \A j \in Tables \ {k} : UNCHANGED <<disk[j], table[j], router[j]>>
      BY <1>5 DEF TypeOK, List, Route
    <3> QED BY <1>2, <1>3, <3>1, OtherTable
  <2>2. disk'[k] = t /\ table'[k] = t /\ router'[k] = r
    BY <1>3, <1>5 DEF TypeOK, List, Route
  <2>3. /\ DOMAIN r = (DOMAIN router[k] \ {from}) \cup {to} /\ r[to] = b
        /\ \A q \in DOMAIN r \ {to} : r[q] = router[k][q]
    BY DEF With, Without
  <2>4. to \in Paths
    BY DEF Paths
  <2>5. /\ \A x \in t : \E e \in table[k] :
             x.id = e.id /\ x.path = IF e.id = b.id THEN to ELSE e.path
        /\ \A e \in table[k] : \E x \in t :
             x.id = e.id /\ x.path = IF e.id = b.id THEN to ELSE e.path
        /\ \A x, y \in t : x.id = y.id => x = y
        /\ \A x \in t : x.id \in minted
    BY <2>4, MovedEntry
  <2> HIDE DEF t, r
  <2>6. /\ OnePath(k, table[k])
        /\ \A p \in DOMAIN router[k] : router[k][p].id = router[k][p].view
        /\ \A e, f \in table[k] : e.id = f.id => e = f
        /\ \A e \in table[k] : \/ e.path \in DOMAIN router[k]
                                  /\ router[k][e.path].id = e.id
                               \/ e.path = CubPath
        /\ \A p \in DOMAIN router[k] :
             \/ \E e \in table[k] : e.path = p /\ e.id = router[k][p].id
             \/ router[k][p] = BuiltIn
    BY <1>2, <1>3, OnePathInMemory DEF TableInv
  <2>7. \A e \in table[k] : e.id # Cubbyhole
    BY <1>3 DEF TypeOK, Entry
  <2>8. BuiltIn.id = Cubbyhole
    BY DEF BuiltIn
  <2>9. \A e \in table[k] : e.path = to => e.path = CubPath
    BY <1>3, <2>6
  <2>10. ASSUME NEW x \in t, NEW y \in t, x.path = y.path
         PROVE  x = y \/ x.path = CubPath
    <3>1. PICK e \in table[k] :
            x.id = e.id /\ x.path = IF e.id = b.id THEN to ELSE e.path
      BY <2>5
    <3>2. PICK f \in table[k] :
            y.id = f.id /\ y.path = IF f.id = b.id THEN to ELSE f.path
      BY <2>5
    <3>3. CASE e.id = b.id /\ f.id = b.id
      BY <2>5, <3>1, <3>2, <3>3
    <3>4. CASE e.id # b.id /\ f.id # b.id
      <4>1. x.path = e.path /\ y.path = f.path /\ e.path = f.path
        BY <2>10, <3>1, <3>2, <3>4
      <4>2. e = f \/ e.path = CubPath
        BY <2>6, <4>1 DEF OnePath
      <4> QED BY <2>5, <3>1, <3>2, <4>1, <4>2
    <3>5. CASE e.id = b.id /\ f.id # b.id
      BY <2>9, <2>10, <3>1, <3>2, <3>5
    <3>6. CASE e.id # b.id /\ f.id = b.id
      BY <2>9, <2>10, <3>1, <3>2, <3>6
    <3> QED BY <3>3, <3>4, <3>5, <3>6
  <2>11. OnePath(k, disk'[k])
    BY <2>2, <2>10 DEF OnePath
  <2>12. /\ \A f \in disk'[k] \cup table'[k] : f.id \in minted'
         /\ \A f, g \in table'[k] : f.id = g.id => f = g
         /\ \A f, g \in disk'[k] : f.id = g.id => f = g
    BY <1>3, <2>2, <2>5
  <2>13. \A q \in DOMAIN router'[k] : router'[k][q].id = router'[k][q].view
    BY <1>3, <2>2, <2>3, <2>6
  <2>14. ASSUME NEW x \in table'[k]
         PROVE  \/ x.path \in DOMAIN router'[k] /\ router'[k][x.path].id = x.id
                \/ x.path = CubPath
    <3>1. PICK e \in table[k] :
            x.id = e.id /\ x.path = IF e.id = b.id THEN to ELSE e.path
      BY <2>2, <2>5
    <3>2. CASE e.id = b.id
      BY <2>2, <2>3, <3>1, <3>2
    <3>3. CASE e.id # b.id
      BY <1>3, <2>2, <2>3, <2>6, <3>1, <3>3
    <3> QED BY <3>2, <3>3
  <2>15. ASSUME NEW q \in DOMAIN router'[k]
         PROVE  \/ \E x \in table'[k] : x.path = q /\ x.id = router'[k][q].id
                \/ router'[k][q] = BuiltIn
    <3>1. CASE q = to
      <4>1. b = BuiltIn \/ \E e \in table[k] : e.path = from /\ e.id = b.id
        BY <1>3, <2>6
      <4> QED BY <2>2, <2>3, <2>5, <3>1, <4>1
    <3>2. CASE q # to
      <4>1. q \in DOMAIN router[k] /\ q # from /\ router'[k][q] = router[k][q]
        BY <2>2, <2>3, <3>2
      <4>2. CASE router[k][q] = BuiltIn
        BY <4>1, <4>2
      <4>3. ASSUME NEW e \in table[k], e.path = q, e.id = router[k][q].id
            PROVE  \E x \in table'[k] : x.path = q /\ x.id = router'[k][q].id
        <5>1. e.id # b.id
          BY <1>3, <2>6, <2>7, <2>8, <4>1, <4>3
        <5> QED BY <2>2, <2>5, <4>1, <4>3, <5>1
      <4> QED BY <2>6, <4>1, <4>2, <4>3
    <3> QED BY <3>1, <3>2
  <2>16. TableInv(k)'
    <3>1. k \notin loaded' => table'[k] = {}
      <4>1. k \notin loaded => table[k] = {}
        BY <1>2, <1>3 DEF TableInv
      <4> QED BY <1>3, <2>2, <2>5, <4>1
    <3> QED BY <3>1, <2>2, <2>11, <2>12, <2>13, <2>14, <2>15 DEF TableInv, OnePath
  <2> QED BY <2>1, <2>16
<1> HIDE DEF t, r
<1> QED BY <1>1, <1>4, <1>5

\* A tune moves no entry.
LEMMA TuneKeepsTable ==
  ASSUME IInv, NEW w \in Workers, NEW p \in Where["logical"], NEW o \in Versions,
         Tune(w, p, o)
  PROVE  \A j \in Tables : TableInv(j)'
<1> USE DEF IInv
<1> DEFINE k == "logical"
           t == Tuned(router[k][p].id, o)
<1>1. /\ disk' = [disk EXCEPT ![k] = t] \/ UNCHANGED disk
      /\ table' = [table EXCEPT ![k] = t]
      /\ loaded' = loaded /\ minted \subseteq minted' /\ UNCHANGED router /\ k \in Tables
  BY DEF Tune, Tuned, List, Saved, SaveFails, Ready, Tables, counts
<1>2. \A j \in Tables : TableInv(j)
  BY TableParts
<1>3. \A j \in Tables \ {k} : TableInv(j)'
  <2>1. \A j \in Tables \ {k} : UNCHANGED <<disk[j], table[j], router[j]>>
    BY <1>1 DEF TypeOK
  <2> QED BY <1>1, <1>2, <2>1, OtherTable
<1>4. /\ table'[k] = t /\ router'[k] = router[k]
      /\ disk'[k] = t \/ disk'[k] = disk[k]
  BY <1>1 DEF TypeOK
<1>5. /\ \A x \in t : \E e \in table[k] : x.id = e.id /\ x.path = e.path
      /\ \A e \in table[k] : \E x \in t : x.id = e.id /\ x.path = e.path
      /\ \A x, y \in t : x.id = y.id => x = y
      /\ \A x \in t : x.id \in minted
  BY TunedEntry
<1> HIDE DEF t
<1>6. TableInv(k) /\ OnePath(k, table[k])
  BY <1>1, <1>2, OnePathInMemory
<1>7. OnePath(k, disk'[k])
  BY <1>4, <1>5, <1>6 DEF OnePath, TableInv
<1>8. /\ \A f \in disk'[k] \cup table'[k] : f.id \in minted'
      /\ \A f, g \in table'[k] : f.id = g.id => f = g
      /\ \A f, g \in disk'[k] : f.id = g.id => f = g
  BY <1>1, <1>4, <1>5, <1>6 DEF TableInv
<1>9. k \in loaded =>
        {<<e.id, e.path>> : e \in table'[k]} = {<<e.id, e.path>> : e \in disk'[k]}
  <2>1. {<<e.id, e.path>> : e \in t} = {<<e.id, e.path>> : e \in table[k]}
    BY <1>5
  <2> QED BY <1>1, <1>4, <1>6, <2>1 DEF TableInv
<1>10. \A f \in table'[k] :
         \/ f.path \in DOMAIN router'[k] /\ router'[k][f.path].id = f.id
         \/ k = "logical" /\ f.path = CubPath
  BY <1>1, <1>4, <1>5, <1>6 DEF TableInv
<1>11. \A q \in DOMAIN router'[k] :
         \/ \E f \in table'[k] : f.path = q /\ f.id = router'[k][q].id
         \/ k = "logical" /\ router'[k][q] = BuiltIn
  BY <1>1, <1>4, <1>5, <1>6 DEF TableInv
<1>12. TableInv(k)'
  <2>1. k \notin loaded' => table'[k] = {}
    BY <1>1, <1>4, <1>5, <1>6 DEF TableInv
  <2> QED BY <1>1, <1>4, <1>6, <1>7, <1>8, <1>9, <1>10, <1>11, <2>1 DEF TableInv, OnePath
<1> QED BY <1>3, <1>12

\* The routes are made from what is stored.
LEMMA UnsealKeepsTable ==
  ASSUME IInv, Unseal
  PROVE  \A k \in Tables : TableInv(k)'
<1> USE DEF IInv
<1>1. ASSUME NEW k \in Tables, NEW p \in DOMAIN Routes(disk[k])
      PROVE  /\ \E e \in disk[k] : e.path = p /\ e.id = Routes(disk[k])[p].id
             /\ Routes(disk[k])[p].id = Routes(disk[k])[p].view
  <2>1. PICK e \in disk[k] : e.path = p
    BY <1>1 DEF Routes
  <2> DEFINE f == CHOOSE f \in disk[k] : f.path = p
  <2>2. f \in disk[k] /\ f.path = p /\ Routes(disk[k])[p] = Mounted(f)
    BY <2>1 DEF Routes
  <2> HIDE DEF f
  <2>3. Mounted(f).id = f.id /\ Mounted(f).view = f.id
    BY DEF Mounted, View
  <2> QED BY <2>2, <2>3
<1>2. ASSUME NEW k \in Tables, NEW e \in disk[k], ~(k = "logical" /\ e.path = CubPath)
      PROVE  e.path \in DOMAIN Routes(disk[k]) /\ Routes(disk[k])[e.path].id = e.id
  <2>1. e.path \in DOMAIN Routes(disk[k])
    BY DEF Routes
  <2>2. PICK f \in disk[k] : f.path = e.path /\ f.id = Routes(disk[k])[e.path].id
    BY <1>1, <2>1
  <2>3. f = e
    BY <1>2, <2>2 DEF PathInv, OnePath
  <2> QED BY <2>1, <2>2, <2>3
<1>3. PICK ks \in SUBSET Tables : SetUp(ks)
  BY DEF Unseal, Tables
<1>4. BuiltIn.id = BuiltIn.view
  BY DEF BuiltIn
<1>5. ASSUME NEW k \in Tables
      PROVE  /\ \A p \in DOMAIN Stored(k) : Stored(k)[p].id = Stored(k)[p].view
             /\ \A e \in disk[k] :
                  \/ e.path \in DOMAIN Stored(k) /\ Stored(k)[e.path].id = e.id
                  \/ k = "logical" /\ e.path = CubPath
             /\ \A p \in DOMAIN Stored(k) :
                  \/ \E e \in disk[k] : e.path = p /\ e.id = Stored(k)[p].id
                  \/ k = "logical" /\ Stored(k)[p] = BuiltIn
  <2>1. CASE k = "logical"
    <3>1. /\ DOMAIN Stored(k) = DOMAIN Routes(disk[k]) \cup {CubPath}
          /\ Stored(k)[CubPath] = BuiltIn
          /\ \A p \in DOMAIN Routes(disk[k]) \ {CubPath} :
               Stored(k)[p] = Routes(disk[k])[p]
      BY <2>1 DEF With, Stored
    <3>2. ASSUME NEW p \in DOMAIN Stored(k), p # CubPath
          PROVE  p \in DOMAIN Routes(disk[k]) /\ Stored(k)[p] = Routes(disk[k])[p]
      BY <3>1, <3>2
    <3>3. ASSUME NEW p \in DOMAIN Stored(k)
          PROVE  Stored(k)[p].id = Stored(k)[p].view
      <4>1. CASE p = CubPath
        BY <1>4, <3>1, <4>1
      <4>2. CASE p # CubPath
        <5>1. p \in DOMAIN Routes(disk[k]) /\ Stored(k)[p] = Routes(disk[k])[p]
          BY <3>2, <4>2
        <5> QED BY <1>1, <5>1
      <4> QED BY <4>1, <4>2
    <3>4. \A e \in disk[k] :
            \/ e.path \in DOMAIN Stored(k) /\ Stored(k)[e.path].id = e.id
            \/ e.path = CubPath
      BY <1>2, <3>1
    <3>5. \A p \in DOMAIN Stored(k) :
            \/ \E e \in disk[k] : e.path = p /\ e.id = Stored(k)[p].id
            \/ Stored(k)[p] = BuiltIn
      BY <1>1, <3>1, <3>2
    <3> QED BY <2>1, <3>3, <3>4, <3>5
  <2>2. CASE k # "logical"
    <3>1. Stored(k) = Routes(disk[k])
      BY <2>2 DEF Stored
    <3>2. \A e \in disk[k] : e.path \in DOMAIN Stored(k) /\ Stored(k)[e.path].id = e.id
      BY <1>2, <2>2, <3>1
    <3>3. ASSUME NEW p \in DOMAIN Stored(k)
          PROVE  /\ \E e \in disk[k] : e.path = p /\ e.id = Stored(k)[p].id
                 /\ Stored(k)[p].id = Stored(k)[p].view
      <4>1. p \in DOMAIN Routes(disk[k]) /\ Stored(k)[p] = Routes(disk[k])[p]
        BY <3>1
      <4> QED BY <1>1, <4>1
    <3> QED BY <3>2, <3>3
  <2> QED BY <2>1, <2>2
<1>6. disk' = disk /\ minted' = minted
  BY DEF Unseal
<1>7. ASSUME NEW k \in Tables
      PROVE  TableInv(k)'
  <2>1. TableInv(k)
    BY TableParts
  <2>2. CASE k \in ks
    <3>1. table'[k] = disk[k] /\ router'[k] = Stored(k) /\ k \in loaded'
      BY <1>3, <2>2 DEF SetUp
    <3>2. /\ \A e \in disk[k] : e.id \in minted
          /\ \A e, f \in disk[k] : e.id = f.id => e = f
          /\ OnePath(k, disk[k])
      BY <2>1 DEF TableInv
    <3> QED BY <1>5, <1>6, <3>1, <3>2 DEF TableInv, OnePath
  <2>3. CASE k \notin ks
    <3>1. table'[k] = table[k] /\ router'[k] = router[k]
          /\ (k \in loaded' <=> k \in loaded)
      BY <1>3, <2>3 DEF SetUp
    <3> QED BY <1>6, <2>1, <3>1 DEF TableInv, OnePath
  <2> QED BY <2>2, <2>3
<1> QED BY <1>7

\* Every step keeps the tables in order.
LEMMA TablesKept ==
  ASSUME IInv, Next
  PROVE  (IdInv /\ PathInv /\ NilInv /\ RestartKeepsMounts /\ TableRouted /\ ViewInv)'
<1> USE DEF IInv
<1>1. \A k \in Tables : TableInv(k)
  BY TableParts
<1>2. ASSUME UNCHANGED <<disk, table, router, minted>>, loaded' = loaded
      PROVE  \A k \in Tables : TableInv(k)'
  BY <1>1, <1>2, OtherTable
<1>3. ASSUME NEW w \in Workers, \/ \E k \in Tables : \E q \in Asked[k] : Match(w, k, q)
                                \/ Clear(w) \/ Put(w)
      PROVE  \A k \in Tables : TableInv(k)'
  BY <1>2, <1>3 DEF Match, Clear, Put, memory, counts
<1>4. ASSUME Seal
      PROVE  \A k \in Tables : TableInv(k)'
  <2>1. UNCHANGED <<disk, table, loaded, router, minted>>
    BY <1>4 DEF Seal, counts
  <2> QED BY <1>2, <2>1
<1>5. ASSUME Crash
      PROVE  \A k \in Tables : TableInv(k)'
  <2>1. /\ disk' = disk /\ minted' = minted /\ loaded' = {}
        /\ \A k \in Tables : table'[k] = {} /\ router'[k] = << >>
    BY <1>5 DEF Crash, Empty, NoRoutes, counts
  <2>2. ASSUME NEW k \in Tables
        PROVE  TableInv(k)'
    <3>1. /\ \A e \in disk'[k] : e.id \in minted'
          /\ \A e, f \in disk'[k] : e.id = f.id => e = f
          /\ OnePath(k, disk'[k])
      BY <2>1 DEF IdInv, PathInv
    <3>2. table'[k] = {} /\ DOMAIN router'[k] = {}
      BY <2>1
    <3> QED BY <2>1, <3>1, <3>2 DEF TableInv, OnePath
  <2> QED BY <2>2
<1>6. \A k \in Tables : TableInv(k)'
  <2>1. "logical" \in Tables /\ "auth" \in Tables /\ 1 \in Versions
    BY DEF Tables, Versions
  <2>2. ASSUME NEW w \in Workers, NEW p \in Where["logical"], NEW o \in Versions,
               Enable(w, "logical", p, o) \/ Tune(w, p, o)
        PROVE  \A k \in Tables : TableInv(k)'
    BY <2>1, <2>2, EnableKeepsTable, TuneKeepsTable
  <2>3. ASSUME NEW w \in Workers, NEW p \in Where["auth"], Enable(w, "auth", p, 1)
        PROVE  \A k \in Tables : TableInv(k)'
    BY <2>1, <2>3, EnableKeepsTable
  <2>4. ASSUME NEW w \in Workers, NEW k \in Tables, NEW p \in Where[k], Disable(w, k, p)
        PROVE  \A j \in Tables : TableInv(j)'
    BY <2>4, DisableKeepsTable
  <2>5. ASSUME NEW w \in Workers, NEW from \in Where["logical"],
               NEW to \in Where["logical"], Remount(w, from, to)
        PROVE  \A k \in Tables : TableInv(k)'
    BY <2>5, RemountKeepsTable
  <2> QED BY <1>3, <1>4, <1>5, <2>2, <2>3, <2>4, <2>5, UnsealKeepsTable DEF Next
<1>7. (\A k \in Tables : TableInv(k))'
      <=> (IdInv /\ PathInv /\ NilInv /\ RestartKeepsMounts /\ TableRouted /\ ViewInv)'
  BY DEF IdInv, PathInv, NilInv, RestartKeepsMounts, TableRouted, ViewInv, TableInv
<1> QED BY <1>6, <1>7

------------------------------------------------------------------------------
(* The data. *)

\* Every step keeps each secret in the view of the mount that served its write.
LEMMA DataKept ==
  ASSUME IInv, Next
  PROVE  DataInv'
<1> USE DEF IInv
<1>1. ASSUME UNCHANGED <<via, writes>>, data' \subseteq data,
             \A w \in Workers : pc'[w] = "put" => pc[w] = "put" /\ req'[w] = req[w]
      PROVE  DataInv'
  BY <1>1 DEF DataInv, Placed
<1>2. ASSUME NEW w \in Workers, NEW k \in Tables, NEW p \in Where[k], Disable(w, k, p)
      PROVE  DataInv'
  BY <1>1, <1>2 DEF Disable, local, TypeOK
<1>3. ASSUME NEW w \in Workers, NEW k \in Tables, NEW p, NEW q, NEW o \in Versions,
             Enable(w, k, p, o) \/ Remount(w, p, q) \/ Tune(w, p, o)
      PROVE  DataInv'
  BY <1>1, <1>3 DEF Enable, Remount, Tune, local
<1>4. ASSUME NEW w \in Workers, Clear(w)
      PROVE  DataInv'
  BY <1>1, <1>4 DEF Clear, TypeOK
<1>5. ASSUME NEW w \in Workers, NEW k \in Tables, NEW q \in Asked[k], Match(w, k, q)
      PROVE  DataInv'
  <2> DEFINE b == router[k][Longest(k, q)]
             x == [view |-> b.id, ver |-> b.ver, rel |-> Relative(Longest(k, q), q),
                   val |-> writes + 1]
  <2>1. req' = [req EXCEPT ![w] = x]
    BY <1>5, MatchedRequest
  <2>2. /\ via' = [via EXCEPT ![writes + 1] = b.id] /\ writes' = writes + 1
        /\ pc' = [pc EXCEPT ![w] = "put"] /\ UNCHANGED data
        /\ writes < MaxWrites
    BY <1>5 DEF Match
  <2>3. x.val = writes + 1 /\ x.view = b.id
    OBVIOUS
  <2> HIDE DEF b, x
  <2>4. writes \in Nat /\ writes + 1 \in Values
    BY <2>2 DEF TypeOK, Values
  <2>5. \A v \in 1..writes : v \in Values /\ v # writes + 1
    BY <2>4 DEF TypeOK, Values
  <2>6. via'[writes + 1] = b.id /\ \A v \in 1..writes : via'[v] = via[v]
    BY <2>2, <2>4, <2>5 DEF TypeOK
  <2>7. \A d : Placed(d) => d.val \in 1..writes' /\ via'[d.val] = d.view
    BY <2>2, <2>4, <2>6 DEF Placed
  <2>8. x.val \in 1..writes' /\ via'[x.val] = x.view
    BY <2>2, <2>3, <2>4, <2>6
  <2>9. /\ req'[w] = x
        /\ \A v \in Workers \ {w} : req'[v] = req[v] /\ pc'[v] = pc[v]
    BY <2>1, <2>2 DEF TypeOK
  <2>10. \A d \in data' : d.val \in 1..writes' /\ via'[d.val] = d.view
    BY <2>2, <2>7 DEF DataInv
  <2>11. ASSUME NEW v \in Workers, pc'[v] = "put"
         PROVE  req'[v].val \in 1..writes' /\ via'[req'[v].val] = req'[v].view
    BY <2>7, <2>8, <2>9, <2>11 DEF DataInv
  <2> QED BY <2>10, <2>11 DEF DataInv, Placed
<1>6. ASSUME NEW w \in Workers, Put(w)
      PROVE  DataInv'
  <2>1. /\ UNCHANGED <<via, writes>> /\ data' \subseteq data \cup {req[w]}
        /\ pc[w] = "put"
        /\ \A v \in Workers : pc'[v] = "put" => pc[v] = "put" /\ req'[v] = req[v]
    BY <1>6 DEF Put, counts, TypeOK
  <2> QED BY <2>1 DEF DataInv, Placed
<1>7. CASE Crash
  BY <1>1, <1>7 DEF Crash, counts
<1>8. CASE Seal \/ Unseal
  BY <1>1, <1>8 DEF Seal, Unseal, counts, local
<1> QED BY <1>2, <1>3, <1>4, <1>5, <1>6, <1>7, <1>8 DEF Next, Tables, Versions

------------------------------------------------------------------------------
(* The theorems. *)

\* The invariant holds at first ...
LEMMA Initially == Init => IInv
<1> SUFFICES ASSUME Init PROVE IInv
  OBVIOUS
<1>1. TypeOK
  <2>1. TableTypes
    BY DEF Init, TableTypes, Empty, NoRoutes
  <2>2. WorkerTypes
    BY DEF Init, WorkerTypes
  <2>3. CountTypes
    <3>1. up \in BOOLEAN
      BY Zenon DEF Init
    <3> QED BY <3>1 DEF Init, CountTypes
  <2> QED BY <2>1, <2>2, <2>3, TypeParts
<1>2. \A k \in Tables : TableInv(k)
  <2>1. ~up /\ \A k \in Tables : table[k] = {} /\ disk[k] = {} /\ router[k] = << >>
    BY DEF Init, Empty, NoRoutes
  <2> QED BY <2>1 DEF TableInv, OnePath
<1>3. DataInv
  BY DEF Init, DataInv
<1> QED BY <1>1, <1>2, <1>3, TableParts DEF IInv

\* ... and through every step.
LEMMA Inductive == IInv /\ [Next]_vars => IInv'
<1> SUFFICES ASSUME IInv, [Next]_vars PROVE IInv'
  OBVIOUS
<1>1. CASE Next
  <2>1. TypeOK'
    BY <1>1, TableTypesKept, WorkerTypesKept, CountTypesKept
       DEF TypeOK, TableTypes, WorkerTypes, CountTypes
  <2> QED BY <1>1, <2>1, TablesKept, DataKept DEF IInv
<1>2. CASE UNCHANGED vars
  <2>1. TypeOK'
    BY <1>2 DEF vars, IInv, TypeOK
  <2>2. (IdInv /\ PathInv /\ NilInv /\ RestartKeepsMounts)'
    BY <1>2 DEF vars, IInv, IdInv, PathInv, NilInv, OnePath, RestartKeepsMounts
  <2>3. (TableRouted /\ ViewInv /\ DataInv)'
    BY <1>2 DEF vars, IInv, TableRouted, ViewInv, DataInv, Placed
  <2> QED BY <2>1, <2>2, <2>3 DEF IInv
<1> QED BY <1>1, <1>2

\* What holds of the tables, the routes, the requests and the data.
THEOREM Invariant == Spec => []IInv
BY Initially, Inductive, PTL DEF Spec

\* Every variable keeps its type, and no request's operation outlives it.
THEOREM TypeOKHolds == Spec => []TypeOK
<1>1. IInv => TypeOK
  BY DEF IInv
<1> QED BY <1>1, Invariant, PTL

\* While unsealed, a mount is routed at its entry's path and nothing else is, the
\* built-in cubbyhole apart, after any commands, failed writes and restarts.
THEOREM TableRoutedHolds == Spec => []TableRouted
<1>1. IInv => TableRouted
  BY DEF IInv
<1> QED BY <1>1, Invariant, PTL

\* What is listed in memory while unsealed is what a restart brings back.
THEOREM RestartKeepsMountsHolds == Spec => []RestartKeepsMounts
<1>1. IInv => RestartKeepsMounts
  BY DEF IInv
<1> QED BY <1>1, Invariant, PTL

\* A read is answered only with what was written through the mount that serves it,
\* whichever mounts were at its path before.
THEOREM OwnDataOnlyHolds == Spec => []OwnDataOnly
<1>1. IInv => OwnDataOnly
  <2> SUFFICES ASSUME IInv, NEW k \in Tables, NEW q \in Asked[k],
                      NEW v \in Answers(k, q)
               PROVE  via[v] = router[k][Longest(k, q)].id
    BY DEF OwnDataOnly
  <2> USE DEF IInv
  <2>1. Covering(k, q) # {}
    BY DEF Answers
  <2>2. Longest(k, q) \in DOMAIN router[k]
    BY <2>1, LongestCovers DEF Covering
  <2>3. PICK d \in data : d.view = router[k][Longest(k, q)].view /\ d.val = v
    BY <2>1 DEF Answers
  <2>4. via[d.val] = d.view
    BY DEF DataInv, Placed
  <2> QED BY <2>2, <2>3, <2>4 DEF ViewInv
<1> QED BY <1>1, Invariant, PTL
==============================================================================
