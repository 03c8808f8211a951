------------------------------ MODULE KvV2Proofs ------------------------------
(***************************************************************************)
(* The version window of KvV2 and the finality of its deletions, for any   *)
(* workers, operations, limits and number of writes, and with crashes.     *)
(* When one worker serves, also what the histories promise: acknowledged   *)
(* writes stay readable, and what is taken away leaves nothing behind.     *)
(***************************************************************************)
EXTENDS KvV2, FiniteSets, FiniteSetTheorems, TLAPS

\* Writes that have not stored their payload yet.
Pending == {w \in Workers : pc[w] \in {"get", "cas", "put"} /\ op[w] = "write"}

\* No metadata counts more versions than there are writes past that point.
Room == writes - Cardinality(Pending)

PendingInv == IsFiniteSet(Pending) /\ Room \in Nat

Window(m) ==
  /\ m \in Meta
  /\ Listed(m) = {v \in Versions : m.oldest <= v /\ v <= m.cur}
  /\ \/ m.cur = 0 /\ m.oldest = 0
     \/ 1 <= m.oldest /\ m.oldest <= m.cur

Good(m) == Window(m) /\ m.cur <= Room

\* The worker has a copy of the metadata that it will write back.
Holds(w) == \/ pc[w] \in {"cas", "put", "cap", "evict", "save"}
            \/ pc[w] = "wipe" /\ op[w] = "destroy"

\* What a worker's next step relies on.
LocalOK(w) ==
  /\ pc[w] \in {"cas", "put"} => op[w] = "write"
  /\ pc[w] = "wipe" => op[w] \in {"destroy", "purge"}
  /\ pc[w] = "drop" => op[w] = "purge"
  /\ (pc[w] = "get" /\ op[w] = "tune") \/ pc[w] = "cf_get" => arg[w] \in Tunings
  /\ Holds(w) => Good(loc[w])
  /\ pc[w] = "evict" => cap[w] > 0 /\ loc[w].cur + 1 > cap[w] + loc[w].oldest
  /\ pc[w] = "wipe" /\ op[w] = "destroy" => todo[w] \subseteq Listed(loc[w])

LocalInv == /\ DOMAIN loc = Workers /\ DOMAIN arg = Workers
            /\ \A w \in Workers : LocalOK(w)

MetaInv == md # None => Good(md)

\* Every payload is in one place: with its writer, in the data of one version, or
\* gone.
PayloadInv ==
  /\ \A w \in Workers : op[w] = "write" => pay[w] \in 1..writes
  /\ \A v, w \in Workers : op[v] = "write" /\ op[w] = "write" /\ v # w => pay[v] # pay[w]
  /\ \A w \in Pending : /\ pay[w] \notin gone
                         /\ \A v \in Versions : data[v] # pay[w]
  /\ \A u, v \in Versions : data[u] # None /\ u # v => data[u] # data[v]
  /\ \A v \in Versions : data[v] \notin gone /\ data[v] \in 1..writes \cup {None}
  /\ gone \subseteq 1..writes

IInv == TypeOK /\ PendingInv /\ MetaInv /\ LocalInv /\ PayloadInv

USE BoundsAssumption, MayAssumption, ListsAssumption, TuningsAssumption,
    CrewsAssumption, NoneAssumption

------------------------------------------------------------------------------
(* Metadata: what the operators keep. *)

\* A key without metadata has an empty window.
LEMMA NewWindow == Window(NewMeta) /\ NewMeta.cur = 0
BY DEF Window, NewMeta, Meta, States, Listed, Versions

\* A new version extends the window.
LEMMA ExtendedWindow ==
  ASSUME NEW m, Window(m), m.cur + 1 \in Versions
  PROVE  Window(Extended(m)) /\ Extended(m).cur = m.cur + 1
<1> DEFINE x == Extended(m)
<1>1. x \in Meta
  <2>1. m \in Meta
    BY DEF Window
  <2>2. [m.vers EXCEPT ![m.cur + 1] = "live"] \in [Versions -> States]
    BY <2>1 DEF Meta, States
  <2>3. (IF m.oldest = 0 THEN 1 ELSE m.oldest) \in Nat /\ m.cur + 1 \in Nat
    BY <2>1 DEF Meta
  <2>4. x = [m EXCEPT !.cur = m.cur + 1,
                      !.vers = [m.vers EXCEPT ![m.cur + 1] = "live"],
                      !.oldest = IF m.oldest = 0 THEN 1 ELSE m.oldest]
    BY <2>1 DEF Extended, Meta
  <2> HIDE DEF x
  <2> QED BY <2>1, <2>2, <2>3, <2>4 DEF Meta
<1>2. /\ x.cur = m.cur + 1 /\ x.oldest = (IF m.oldest = 0 THEN 1 ELSE m.oldest)
      /\ \A v \in Versions : x.vers[v] = IF v = m.cur + 1 THEN "live" ELSE m.vers[v]
  BY DEF Window, Extended, Meta, States
<1> HIDE DEF x
<1>3. m.cur \in Nat /\ m.oldest \in Nat
  BY DEF Window, Meta
<1>4. Listed(x) = {v \in Versions : x.oldest <= v /\ v <= x.cur}
  <2>1. Listed(x) = Listed(m) \cup {m.cur + 1}
    BY <1>2 DEF Listed
  <2>2. \A v \in Versions : v \in Listed(m) <=> m.oldest <= v /\ v <= m.cur
    BY DEF Window
  <2> QED BY <1>2, <1>3, <2>1, <2>2 DEF Window, Versions
<1> QED BY <1>1, <1>2, <1>3, <1>4 DEF Window, x

\* Dropping the oldest of several versions shortens it.
LEMMA DroppedWindow ==
  ASSUME NEW m, Window(m), 1 <= m.oldest, m.oldest < m.cur
  PROVE  Window(Dropped(m)) /\ Dropped(m).cur = m.cur /\ Dropped(m).oldest = m.oldest + 1
<1> DEFINE x == Dropped(m)
<1>1. x \in Meta
  <2>1. m \in Meta
    BY DEF Window
  <2>2. [m.vers EXCEPT ![m.oldest] = "none"] \in [Versions -> States]
    BY <2>1 DEF Meta, States
  <2>3. m.oldest + 1 \in Nat
    BY <2>1 DEF Meta
  <2>4. x = [m EXCEPT !.vers = [m.vers EXCEPT ![m.oldest] = "none"],
                      !.oldest = m.oldest + 1]
    BY <2>1 DEF Dropped, Meta
  <2> HIDE DEF x
  <2> QED BY <2>1, <2>2, <2>3, <2>4 DEF Meta
<1>2. /\ x.cur = m.cur /\ x.oldest = m.oldest + 1
      /\ \A v \in Versions : x.vers[v] = IF v = m.oldest THEN "none" ELSE m.vers[v]
  BY DEF Window, Dropped, Meta, States
<1> HIDE DEF x
<1>3. m.cur \in Nat /\ m.oldest \in Nat
  BY DEF Window, Meta
<1>4. Listed(x) = {v \in Versions : x.oldest <= v /\ v <= x.cur}
  <2>1. Listed(x) = Listed(m) \ {m.oldest}
    BY <1>2 DEF Listed
  <2>2. \A v \in Versions : v \in Listed(m) <=> m.oldest <= v /\ v <= m.cur
    BY DEF Window
  <2>3. Listed(x) \subseteq Versions
    BY DEF Listed
  <2> QED BY <1>2, <1>3, <2>1, <2>2, <2>3 DEF Versions
<1> QED BY <1>1, <1>2, <1>3, <1>4 DEF Window, x

\* Deleting, undeleting and destroying listed versions changes no window.
LEMMA MarkedWindow ==
  ASSUME NEW m, Window(m), NEW vs \in SUBSET Listed(m), NEW s \in {"live", "deleted"}
  PROVE  Window(Marked(m, vs, s)) /\ Marked(m, vs, s).cur = m.cur
<1> DEFINE x == Marked(m, vs, s)
<1>1. x \in Meta
  BY DEF Window, Marked, Meta, States
<1>2. /\ x.cur = m.cur /\ x.oldest = m.oldest
      /\ \A v \in Versions : x.vers[v] = IF v \in vs /\ m.vers[v] # "destroyed" THEN s
                                         ELSE m.vers[v]
  BY DEF Window, Marked, Meta, States
<1> HIDE DEF x
<1>3. Listed(x) = Listed(m)
  BY <1>2 DEF Listed
<1> QED BY <1>1, <1>2, <1>3 DEF Window, x

\* Nor does destroying one.
LEMMA DestroyedWindow ==
  ASSUME NEW m, Window(m), NEW u \in Listed(m)
  PROVE  LET x == [m EXCEPT !.vers[u] = "destroyed"]
         IN Window(x) /\ x.cur = m.cur /\ Listed(x) = Listed(m)
<1> DEFINE x == [m EXCEPT !.vers[u] = "destroyed"]
<1>1. x \in Meta
  BY DEF Window, Meta, States
<1>2. /\ x.cur = m.cur /\ x.oldest = m.oldest
      /\ \A v \in Versions : x.vers[v] = IF v = u THEN "destroyed" ELSE m.vers[v]
  BY DEF Window, Meta, States
<1> HIDE DEF x
<1>3. Listed(x) = Listed(m)
  BY <1>2 DEF Listed
<1>4. Window(x) /\ x.cur = m.cur
  BY <1>1, <1>2, <1>3 DEF Window
<1> QED BY <1>3, <1>4 DEF x

\* Neither does tuning.
LEMMA TunedWindow ==
  ASSUME NEW m, Window(m), NEW t \in Tunings
  PROVE  Window(Tuned(m, t)) /\ Tuned(m, t).cur = m.cur
<1> DEFINE x == Tuned(m, t)
<1>1. t.cap \in Nat \cup {None} /\ t.cas \in BOOLEAN \cup {None}
  OBVIOUS
<1>2. x = [m EXCEPT !.cap = IF t.cap = None THEN m.cap ELSE t.cap,
                    !.cas = IF t.cas = None THEN m.cas ELSE t.cas]
  BY DEF Tuned, Window, Meta
<1>3. (IF t.cap = None THEN m.cap ELSE t.cap) \in Nat
  BY <1>1 DEF Window, Meta
<1>4. (IF t.cas = None THEN m.cas ELSE t.cas) \in BOOLEAN
  BY <1>1, Zenon DEF Window, Meta
<1>5. x \in Meta
  BY <1>2, <1>3, <1>4 DEF Window, Meta
<1>6. x.cur = m.cur /\ x.oldest = m.oldest /\ x.vers = m.vers
  BY <1>2 DEF Window, Meta
<1> QED BY <1>5, <1>6 DEF Window, Listed

------------------------------------------------------------------------------
(* Types. *)

\* The two halves of TypeOK.
StoreTypes ==
  /\ md \in Meta \cup {None} /\ cfg \in Config \cup {None}
  /\ data \in [Versions -> Payloads \cup {None}]
  /\ writes \in 0..MaxWrites /\ crew \subseteq Workers
  /\ keep \in [Versions -> Payloads \cup {None}]
  /\ trash \in [Versions -> Payloads \cup {None}]
  /\ acked \subseteq Payloads /\ gone \subseteq Payloads /\ stuck \subseteq Payloads
  /\ wins \in [Versions -> 0..2]

WorkTypes ==
  /\ pc \in [Workers -> Labels] /\ op \in [Workers -> Ops \cup {None}]
  /\ pay \in [Workers -> Payloads \cup {None}]
  /\ cap \in [Workers -> Nat] /\ todo \in [Workers -> SUBSET Versions]
  /\ DOMAIN loc = Workers /\ DOMAIN arg = Workers

\* A request runs in one worker.
LEMMA OthersKeep ==
  ASSUME WorkTypes, NEW w \in Workers, BeginWrite(w) \/ BeginOther(w) \/ Step(w)
  PROVE  /\ DOMAIN loc' = Workers /\ DOMAIN arg' = Workers
         /\ \A v \in Workers \ {w} :
              UNCHANGED <<pc[v], op[v], arg[v], pay[v], loc[v], cap[v], todo[v]>>
<1> USE DEF WorkTypes, On, Finish, Trim, Resolve, store, hist
<1>1. CASE BeginWrite(w)
  BY <1>1, SMTT(20) DEF BeginWrite, Begin
<1>2. CASE BeginOther(w)
  BY <1>2, SMTT(20) DEF BeginOther, Begin
<1>3. CASE GetWrite(w)
  BY <1>3, SMTT(20) DEF GetWrite
<1>4. CASE GetTune(w)
  BY <1>4, SMTT(20) DEF GetTune
<1>5. CASE GetMissing(w)
  BY <1>5, SMTT(20) DEF GetMissing
<1>6. CASE GetDelete(w)
  BY <1>6, SMTT(20) DEF GetDelete
<1>7. CASE GetUndelete(w)
  BY <1>7, SMTT(20) DEF GetUndelete
<1>8. CASE GetDestroy(w)
  BY <1>8, SMTT(20) DEF GetDestroy
<1>9. CASE GetPurge(w)
  BY <1>9, SMTT(20) DEF GetPurge
<1>10. CASE Cas(w)
  BY <1>10, SMTT(20) DEF Cas
<1>11. CASE Put(w)
  BY <1>11, SMTT(20) DEF Put
<1>12. CASE Cap(w)
  BY <1>12, SMTT(20) DEF Cap
<1>13. CASE Evict(w)
  BY <1>13, SMTT(20) DEF Evict
<1>14. CASE Wipe(w)
  BY <1>14, SMTT(20) DEF Wipe, Wiped
<1>15. CASE Save(w)
  BY <1>15, SMTT(20) DEF Save
<1>16. CASE Drop(w)
  BY <1>16, SMTT(20) DEF Drop
<1>17. CASE CfGet(w)
  BY <1>17, SMTT(20) DEF CfGet
<1>18. CASE CfPut(w)
  BY <1>18, SMTT(20) DEF CfPut
<1> QED BY <1>1, <1>2, <1>3, <1>4, <1>5, <1>6, <1>7, <1>8, <1>9, <1>10, <1>11,
           <1>12, <1>13, <1>14, <1>15, <1>16, <1>17, <1>18 DEF Step

\* A step of a request begins no write.
LEMMA StepPends ==
  ASSUME WorkTypes, LocalInv, NEW w \in Workers, Step(w)
  PROVE  /\ writes' = writes
         /\ w \in Pending' => w \in Pending
<1> USE DEF WorkTypes, LocalInv, LocalOK, Pending, On, Finish, Trim, Resolve, store, hist
<1>1. CASE GetWrite(w)
  BY <1>1, SMTT(20) DEF GetWrite
<1>2. CASE GetTune(w)
  BY <1>2, SMTT(20) DEF GetTune
<1>3. CASE GetMissing(w)
  BY <1>3, SMTT(20) DEF GetMissing
<1>4. CASE GetDelete(w)
  BY <1>4, SMTT(20) DEF GetDelete
<1>5. CASE GetUndelete(w)
  BY <1>5, SMTT(20) DEF GetUndelete
<1>6. CASE GetDestroy(w)
  BY <1>6, SMTT(20) DEF GetDestroy
<1>7. CASE GetPurge(w)
  BY <1>7, SMTT(20) DEF GetPurge
<1>8. CASE Cas(w)
  BY <1>8, SMTT(20) DEF Cas
<1>9. CASE Put(w)
  BY <1>9, SMTT(20) DEF Put
<1>10. CASE Cap(w)
  BY <1>10, SMTT(20) DEF Cap
<1>11. CASE Evict(w)
  BY <1>11, SMTT(20) DEF Evict
<1>12. CASE Wipe(w)
  BY <1>12, SMTT(20) DEF Wipe, Wiped
<1>13. CASE Save(w)
  BY <1>13, SMTT(20) DEF Save
<1>14. CASE Drop(w)
  BY <1>14, SMTT(20) DEF Drop
<1>15. CASE CfGet(w)
  BY <1>15, SMTT(20) DEF CfGet
<1>16. CASE CfPut(w)
  BY <1>16, SMTT(20) DEF CfPut
<1> QED BY <1>1, <1>2, <1>3, <1>4, <1>5, <1>6, <1>7, <1>8, <1>9, <1>10, <1>11,
           <1>12, <1>13, <1>14, <1>15, <1>16 DEF Step

LEMMA RoomGrows ==
  ASSUME TypeOK, WorkTypes, PendingInv, LocalInv, [Next]_vars
  PROVE  PendingInv' /\ Room' >= Room
<1>1. Cardinality(Pending) \in Nat /\ writes \in Nat
  BY FS_CardinalityType DEF PendingInv, TypeOK
<1>2. CASE UNCHANGED vars
  <2>1. Pending' = Pending /\ writes' = writes
    BY <1>2 DEF vars, Pending
  <2> QED BY <2>1, <1>1 DEF PendingInv, Room
<1>3. ASSUME NEW w \in Workers, BeginWrite(w)
      PROVE  PendingInv' /\ Room' = Room
  <2>1. writes' = writes + 1 /\ w \notin Pending /\ w \in Pending'
    BY <1>3 DEF BeginWrite, Begin, Pending, WorkTypes
  <2>2. Pending' = Pending \cup {w}
    BY <1>3, <2>1, OthersKeep DEF Pending
  <2>3. IsFiniteSet(Pending') /\ Cardinality(Pending') = Cardinality(Pending) + 1
    BY <2>1, <2>2, FS_AddElement DEF PendingInv
  <2> QED BY <1>1, <2>1, <2>3 DEF PendingInv, Room
<1>4. ASSUME NEW w \in Workers, BeginOther(w)
      PROVE  PendingInv' /\ Room' = Room
  <2>1. writes' = writes /\ w \notin Pending /\ w \notin Pending'
    BY <1>4 DEF BeginOther, Begin, Pending, WorkTypes
  <2>2. Pending' = Pending
    BY <1>4, <2>1, OthersKeep DEF Pending
  <2> QED BY <1>1, <2>1, <2>2 DEF PendingInv, Room
<1>5. ASSUME NEW w \in Workers, Step(w)
      PROVE  PendingInv' /\ Room' >= Room
  <2>1. Pending' \in {Pending, Pending \ {w}} /\ writes' = writes
    BY <1>5, OthersKeep, StepPends DEF Pending
  <2>2. CASE Pending' = Pending
    BY <1>1, <1>5, <2>1, <2>2, StepPends DEF PendingInv, Room
  <2>3. CASE Pending' = Pending \ {w} /\ w \in Pending
    <3>1. IsFiniteSet(Pending') /\ Cardinality(Pending') = Cardinality(Pending) - 1
      BY <2>3, FS_RemoveElement DEF PendingInv
    <3> QED BY <1>1, <2>1, <3>1, FS_CardinalityType DEF PendingInv, Room
  <2>4. CASE Pending' = Pending \ {w} /\ w \notin Pending
    BY <2>2, <2>4
  <2> QED BY <2>1, <2>2, <2>3, <2>4
<1>6. CASE Crash
  <2>1. Pending' = {} /\ writes' = writes
    BY <1>6 DEF Crash, Pending
  <2> QED BY <1>1, <2>1, FS_EmptySet DEF PendingInv, Room
<1> QED BY <1>2, <1>3, <1>4, <1>5, <1>6 DEF Next, PendingInv

\* A write that stores its payload makes room for its version.
LEMMA PutMakesRoom ==
  ASSUME TypeOK, WorkTypes, PendingInv, LocalInv, NEW w \in Workers, Put(w)
  PROVE  Room >= 0 /\ Room + 1 <= writes /\ Room' = Room + 1
<1>1. w \in Pending /\ w \notin Pending' /\ writes' = writes
  BY DEF Put, Pending, LocalInv, LocalOK, WorkTypes, Resolve, Trim, On
<1>2. Pending' = Pending \ {w}
  BY <1>1, OthersKeep DEF Pending, Step
<1>3. Cardinality(Pending) \in Nat /\ writes \in Nat
  BY FS_CardinalityType DEF PendingInv, TypeOK
<1>4. Cardinality(Pending') = Cardinality(Pending) - 1 /\ Cardinality(Pending) >= 1
  BY <1>1, <1>2, <1>3, FS_RemoveElement, FS_EmptySet DEF PendingInv
<1> QED BY <1>1, <1>3, <1>4 DEF PendingInv, Room

------------------------------------------------------------------------------
(* The copies of the metadata that will be written back. *)

\* What pruning leaves is good.
LEMMA TrimLocal ==
  ASSUME WorkTypes, NEW w \in Workers, NEW m, Window(m), m.cur <= Room',
         NEW c \in Nat, Trim(w, m, c)
  PROVE  LocalOK(w)'
<1>1. /\ loc'[w] = m /\ cap'[w] = c
      /\ pc'[w] = IF c > 0 /\ m.cur + 1 > c + m.oldest THEN "evict" ELSE "save"
  BY DEF Trim, On, WorkTypes
<1>2. Good(loc[w])'
  BY <1>1 DEF Good
<1> QED BY <1>1, <1>2 DEF LocalOK, Holds

\* Looking up the cap keeps the copy good.
LEMMA ResolveLocal ==
  ASSUME WorkTypes, NEW w \in Workers, NEW m, Window(m), m.cur <= Room',
         Resolve(w, m)
  PROVE  LocalOK(w)'
<1>1. CASE m.cap > 0
  <2>1. m.cap \in Nat
    BY DEF Window, Meta
  <2> QED BY <1>1, <2>1, TrimLocal DEF Resolve
<1>2. CASE ~(m.cap > 0)
  <2>1. loc'[w] = m /\ pc'[w] = "cap"
    BY <1>2 DEF Resolve, On, WorkTypes
  <2>2. Good(loc[w])'
    BY <2>1 DEF Good
  <2> QED BY <2>1, <2>2 DEF LocalOK, Holds
<1> QED BY <1>1, <1>2

\* Nor does a request that is over hold a copy.
LEMMA FinishLocal ==
  ASSUME WorkTypes, NEW w \in Workers, Finish(w)
  PROVE  LocalOK(w)'
<1>1. pc'[w] = "idle"
  BY DEF Finish, WorkTypes
<1> QED BY <1>1 DEF LocalOK, Holds

\* Metadata is loaded good, ...
LEMMA LoadedGood ==
  ASSUME MetaInv, PendingInv
  PROVE  Good(Loaded)
BY NewWindow DEF Loaded, MetaInv, Good, PendingInv

\* ... and stays good in every step of its worker.
LEMMA StepLocal ==
  ASSUME TypeOK, WorkTypes, PendingInv, MetaInv, LocalInv, NEW w \in Workers, Step(w),
         PendingInv', Room' >= Room
  PROVE  LocalOK(w)'
<1> USE DEF WorkTypes, PendingInv
<1>a. LocalOK(w)
  BY DEF LocalInv
<1>b. Good(Loaded)
  BY LoadedGood
<1>c. md # None => Good(md)
  BY DEF MetaInv
<1>d. \A m : Good(m) => Window(m) /\ m.cur \in Nat /\ m.cur <= Room'
  BY DEF Good, Window, Meta
<1>1. CASE GetWrite(w)
  <2>1. loc'[w] = Loaded /\ pc'[w] = "cas" /\ op'[w] = "write"
    BY <1>1 DEF GetWrite, On
  <2>2. Good(loc[w])'
    BY <1>b, <1>d, <2>1 DEF Good
  <2> QED BY <2>1, <2>2 DEF LocalOK, Holds
<1>2. CASE GetTune(w)
  <2>1. arg[w] \in Tunings
    BY <1>a, <1>2 DEF GetTune, LocalOK
  <2>2. Window(Tuned(Loaded, arg[w])) /\ Tuned(Loaded, arg[w]).cur <= Room'
    BY <1>b, <1>d, <2>1, TunedWindow
  <2> QED BY <1>2, <2>2, ResolveLocal DEF GetTune
<1>3. CASE GetMissing(w)
  BY <1>3, FinishLocal DEF GetMissing
<1>4. CASE GetDelete(w)
  <2> DEFINE vs == Targets(md, arg[w])
  <2>1. vs \in SUBSET Listed(md)
    BY DEF Targets
  <2>2. loc'[w] = Marked(md, vs, "deleted") /\ pc'[w] = "save"
    BY <1>4 DEF GetDelete, On
  <2>3. Good(md)
    BY <1>c, <1>4 DEF GetDelete
  <2>4. Good(loc[w])'
    BY <1>d, <2>1, <2>2, <2>3, MarkedWindow DEF Good
  <2> QED BY <2>2, <2>4 DEF LocalOK, Holds
<1>5. CASE GetUndelete(w)
  <2> DEFINE vs == Targets(md, arg[w])
  <2>1. vs \in SUBSET Listed(md)
    BY DEF Targets
  <2>2. loc'[w] = Marked(md, vs, "live") /\ pc'[w] = "save"
    BY <1>5 DEF GetUndelete, On
  <2>3. Good(md)
    BY <1>c, <1>5 DEF GetUndelete
  <2>4. Good(loc[w])'
    BY <1>d, <2>1, <2>2, <2>3, MarkedWindow DEF Good
  <2> QED BY <2>2, <2>4 DEF LocalOK, Holds
<1>6. CASE GetDestroy(w)
  <2>1. /\ loc'[w] = md /\ op'[w] = "destroy" /\ pc'[w] \in {"save", "wipe"}
        /\ todo'[w] = Targets(md, arg[w])
    BY <1>6 DEF GetDestroy, On
  <2>2. Good(md)
    BY <1>c, <1>6 DEF GetDestroy
  <2>3. Good(loc[w])'
    BY <1>d, <2>1, <2>2 DEF Good
  <2>4. todo'[w] \subseteq Listed(loc'[w])
    BY <2>1 DEF Targets
  <2> QED BY <2>1, <2>3, <2>4 DEF LocalOK, Holds
<1>7. CASE GetPurge(w)
  <2>1. op'[w] = "purge" /\ pc'[w] \in {"drop", "wipe"}
    BY <1>7 DEF GetPurge, On
  <2> QED BY <2>1 DEF LocalOK, Holds
<1>8. CASE Cas(w)
  <2>1. CASE Finish(w)
    BY <2>1, FinishLocal
  <2>2. CASE On(w, "put") /\ UNCHANGED loc
    <3>1. Good(loc[w]) /\ op[w] = "write"
      BY <1>a, <1>8 DEF Cas, LocalOK, Holds
    <3>2. loc'[w] = loc[w] /\ op'[w] = "write" /\ pc'[w] = "put"
      BY <2>2, <3>1 DEF On
    <3>3. Good(loc[w])'
      BY <1>d, <3>1, <3>2 DEF Good
    <3> QED BY <3>2, <3>3 DEF LocalOK, Holds
  <2> QED BY <1>8, <2>1, <2>2 DEF Cas
<1>9. CASE Put(w)
  <2>1. Good(loc[w])
    BY <1>a, <1>9 DEF Put, LocalOK, Holds
  <2>2. Room + 1 <= writes /\ Room' = Room + 1
    BY <1>9, PutMakesRoom
  <2>3. loc[w].cur \in Nat /\ loc[w].cur <= Room /\ writes <= MaxWrites /\ writes \in Nat
    BY <2>1, BoundsAssumption DEF Good, Window, Meta, TypeOK
  <2>4. loc[w].cur + 1 \in Versions
    BY <2>2, <2>3, BoundsAssumption DEF Versions
  <2>5. Window(Extended(loc[w])) /\ Extended(loc[w]).cur <= Room'
    BY <2>1, <2>2, <2>3, <2>4, ExtendedWindow DEF Good
  <2> QED BY <1>9, <2>5, ResolveLocal DEF Put
<1>10. CASE Cap(w)
  <2>1. Good(loc[w])
    BY <1>a, <1>10 DEF Cap, LocalOK, Holds
  <2>2. (IF cfg # None /\ cfg.cap > 0 THEN cfg.cap ELSE MountCap) \in Nat
    BY BoundsAssumption DEF TypeOK, Config
  <2> QED BY <1>d, <1>10, <2>1, <2>2, TrimLocal DEF Cap
<1>11. CASE Evict(w)
  <2>1. Good(loc[w]) /\ cap[w] > 0 /\ loc[w].cur + 1 > cap[w] + loc[w].oldest
    BY <1>a, <1>11 DEF Evict, LocalOK, Holds
  <2>2. 1 <= loc[w].oldest /\ loc[w].oldest < loc[w].cur
    BY <2>1 DEF Good, Window, Meta
  <2>3. Window(Dropped(loc[w])) /\ Dropped(loc[w]).cur <= Room'
    BY <1>d, <2>1, <2>2, DroppedWindow
  <2> QED BY <1>11, <2>3, TrimLocal DEF Evict
<1>12. CASE Wipe(w)
  <2>1. PICK v \in todo[w] : Wiped(w, v)
    BY <1>12 DEF Wipe
  <2>2. CASE op[w] = "destroy"
    <3>1. Good(loc[w]) /\ todo[w] \subseteq Listed(loc[w])
      BY <1>a, <1>12, <2>2 DEF Wipe, LocalOK, Holds
    <3> DEFINE x == [loc[w] EXCEPT !.vers[v] = "destroyed"]
    <3>2. loc'[w] = x
      BY <2>1, <2>2 DEF Wiped
    <3>3. Window(x) /\ x.cur = loc[w].cur /\ Listed(x) = Listed(loc[w])
      BY <3>1, DestroyedWindow DEF Good
    <3>4. /\ todo'[w] \subseteq todo[w] /\ pc'[w] \in {"wipe", "save"}
          /\ op'[w] = "destroy"
      BY <2>1, <2>2 DEF Wiped, On
    <3>5. Good(loc[w])'
      BY <1>d, <3>1, <3>2, <3>3 DEF Good
    <3> QED BY <3>1, <3>2, <3>3, <3>4, <3>5 DEF LocalOK, Holds
  <2>3. CASE op[w] # "destroy"
    <3>1. op[w] = "purge"
      BY <1>a, <1>12, <2>3 DEF Wipe, LocalOK
    <3>2. pc'[w] \in {"wipe", "drop"} /\ op'[w] = "purge"
      BY <2>1, <3>1 DEF Wiped, On
    <3> QED BY <3>2 DEF LocalOK, Holds
  <2> QED BY <2>2, <2>3
<1>13. CASE Save(w)
  BY <1>13, FinishLocal DEF Save
<1>14. CASE Drop(w)
  BY <1>14, FinishLocal DEF Drop
<1>15. CASE CfGet(w)
  <2>1. pc'[w] = "cf_put"
    BY <1>15 DEF CfGet, On
  <2> QED BY <2>1 DEF LocalOK, Holds
<1>16. CASE CfPut(w)
  BY <1>16, FinishLocal DEF CfPut
<1> QED BY <1>1, <1>2, <1>3, <1>4, <1>5, <1>6, <1>7, <1>8, <1>9, <1>10, <1>11,
           <1>12, <1>13, <1>14, <1>15, <1>16 DEF Step

\* No step disturbs another worker's copy, and the stored metadata stays good.
LEMMA LocalsKept ==
  ASSUME TypeOK, WorkTypes, PendingInv, MetaInv, LocalInv, [Next]_vars
  PROVE  LocalInv' /\ MetaInv'
<1>1. PendingInv' /\ Room' >= Room
  BY RoomGrows
<1>2. \A m : Good(m) => Window(m) /\ m.cur <= Room'
  BY <1>1 DEF Good, Window, Meta, PendingInv
<1>3. ASSUME NEW v \in Workers,
             UNCHANGED <<pc[v], op[v], arg[v], loc[v], cap[v], todo[v]>>
      PROVE  LocalOK(v)'
  <2>1. LocalOK(v)
    BY DEF LocalInv
  <2>2. Good(loc[v]) => Good(loc[v])'
    BY <1>2, <1>3 DEF Good
  <2> QED BY <1>3, <2>1, <2>2 DEF LocalOK, Holds
<1>4. UNCHANGED md => MetaInv'
  BY <1>2 DEF MetaInv, Good
<1>5. ASSUME NEW w \in Workers, Step(w)
      PROVE  LocalInv' /\ MetaInv'
  <2>1. LocalInv'
    BY <1>1, <1>3, <1>5, StepLocal, OthersKeep DEF LocalInv
  <2>2. MetaInv'
    <3>1. CASE Save(w)
      <4>1. Good(loc[w]) /\ md' = loc[w]
        BY <3>1 DEF Save, LocalInv, LocalOK, Holds
      <4> QED BY <1>2, <4>1 DEF MetaInv, Good
    <3>2. CASE Drop(w)
      BY <3>2 DEF Drop, MetaInv
    <3>3. CASE ~Save(w) /\ ~Drop(w)
      <4>1. UNCHANGED md
        BY <1>5, <3>3 DEF Step, store, GetWrite, GetTune, GetMissing, GetDelete,
           GetUndelete, GetDestroy, GetPurge, Cas, Put, Cap, Evict, Wipe, Wiped,
           CfGet, CfPut
      <4> QED BY <1>4, <4>1
    <3> QED BY <3>1, <3>2, <3>3
  <2> QED BY <2>1, <2>2
<1>6. ASSUME NEW w \in Workers, BeginWrite(w) \/ BeginOther(w)
      PROVE  LocalInv' /\ MetaInv'
  <2>1. ASSUME NEW o \in Ops, NEW a, Begin(w, o, a),
               o \in {"tune", "config"} => a \in Tunings
        PROVE  LocalInv' /\ MetaInv'
    <3>1. /\ pc'[w] = (IF o = "config" THEN "cf_get" ELSE "get")
          /\ op'[w] = o /\ arg'[w] = a
      BY <2>1 DEF Begin, WorkTypes, LocalInv
    <3>2. LocalOK(w)'
      BY <2>1, <3>1 DEF LocalOK, Holds
    <3>3. UNCHANGED md
      BY <2>1 DEF Begin, store
    <3> QED BY <1>3, <1>4, <1>6, <3>2, <3>3, OthersKeep DEF LocalInv
  <2>2. CASE BeginWrite(w)
    BY <2>1, <2>2 DEF BeginWrite, Ops
  <2>3. ASSUME NEW o \in {"delete", "undelete", "destroy"}, NEW l \in Lists,
               Begin(w, o, l)
        PROVE  LocalInv' /\ MetaInv'
    BY <2>1, <2>3 DEF Ops
  <2>4. ASSUME NEW o \in {"tune", "config"}, NEW t \in Tunings, Begin(w, o, t)
        PROVE  LocalInv' /\ MetaInv'
    BY <2>1, <2>4 DEF Ops
  <2>5. CASE Begin(w, "purge", None)
    BY <2>1, <2>5 DEF Ops
  <2> QED BY <1>6, <2>2, <2>3, <2>4, <2>5 DEF BeginOther
<1>7. CASE Crash
  <2>1. /\ DOMAIN loc' = Workers /\ DOMAIN arg' = Workers
        /\ \A w \in Workers : pc'[w] = "idle"
    BY <1>7 DEF Crash
  <2>2. LocalInv'
    BY <2>1 DEF LocalInv, LocalOK, Holds
  <2>3. UNCHANGED md
    BY <1>7 DEF Crash, store
  <2> QED BY <1>4, <2>2, <2>3
<1>8. CASE UNCHANGED vars
  <2>1. UNCHANGED <<md, pc, op, arg, loc, cap, todo>>
    BY <1>8 DEF vars
  <2> QED BY <1>3, <1>4, <2>1 DEF LocalInv
<1> QED BY <1>5, <1>6, <1>7, <1>8 DEF Next

------------------------------------------------------------------------------
(* Types, continued. *)

\* What a worker has loaded.
LocTypes(w) == CASE pc[w] \in {"idle", "get", "cf_get"} -> loc[w] = None
                 [] pc[w] = "cf_put" -> loc[w] \in Config
                 [] OTHER -> loc[w] \in Meta \cup {None}

\* The parts of TypeOK together.
LEMMA TypeParts ==
  TypeOK <=> /\ StoreTypes
             /\ pc \in [Workers -> Labels] /\ op \in [Workers -> Ops \cup {None}]
             /\ pay \in [Workers -> Payloads \cup {None}]
             /\ cap \in [Workers -> Nat] /\ todo \in [Workers -> SUBSET Versions]
             /\ \A w \in Workers : LocTypes(w)
BY Zenon DEF TypeOK, StoreTypes, LocTypes

\* A step of a request keeps the types of its locals, ...
LEMMA StepWorkTypes ==
  ASSUME TypeOK, WorkTypes, PendingInv, MetaInv, LocalInv, NEW w \in Workers, Step(w)
  PROVE  WorkTypes'
<1> USE DEF WorkTypes, Labels
<1>a. LocalOK(w)
  BY DEF LocalInv
<1>b. ASSUME NEW m, m.cap \in Nat, Resolve(w, m)
      PROVE  /\ pc' \in [Workers -> Labels] /\ cap' \in [Workers -> Nat]
             /\ DOMAIN loc' = Workers
  BY <1>b DEF Resolve, Trim, On
<1>c. \A m : Good(m) => m \in Meta
  BY DEF Good, Window
<1>1. CASE GetWrite(w)
  BY <1>1, SMTT(20) DEF GetWrite, On, Finish, Trim, Targets, Listed
<1>2. CASE GetTune(w)
  <2>1. Tuned(Loaded, arg[w]).cap \in Nat
    BY <1>a, <1>2, LoadedGood, TunedWindow DEF GetTune, LocalOK, Good, Window, Meta
  <2> QED BY <1>b, <1>2, <2>1 DEF GetTune, Resolve, Trim, On
<1>3. CASE GetMissing(w)
  BY <1>3, SMTT(20) DEF GetMissing, On, Finish, Trim, Targets, Listed
<1>4. CASE GetDelete(w)
  BY <1>4, SMTT(20) DEF GetDelete, On, Finish, Trim, Targets, Listed
<1>5. CASE GetUndelete(w)
  BY <1>5, SMTT(20) DEF GetUndelete, On, Finish, Trim, Targets, Listed
<1>6. CASE GetDestroy(w)
  BY <1>6, SMTT(20) DEF GetDestroy, On, Finish, Trim, Targets, Listed
<1>7. CASE GetPurge(w)
  BY <1>7, SMTT(20) DEF GetPurge, On, Finish, Trim, Targets, Listed
<1>8. CASE Cas(w)
  BY <1>8, SMTT(20) DEF Cas, On, Finish, Trim, Targets, Listed
<1>9. CASE Put(w)
  <2>1. Extended(loc[w]).cap \in Nat
    BY <1>a, <1>c, <1>9 DEF Put, LocalOK, Holds, Extended, Meta
  <2> QED BY <1>b, <1>9, <2>1 DEF Put, Resolve, Trim, On
<1>10. CASE Cap(w)
  <2>1. (IF cfg # None /\ cfg.cap > 0 THEN cfg.cap ELSE MountCap) \in Nat
    BY BoundsAssumption DEF TypeOK, Config
  <2> QED BY <1>10, <2>1 DEF Cap, Trim, On
<1>11. CASE Evict(w)
  BY <1>11, SMTT(20) DEF Evict, On, Finish, Trim, Targets, Listed
<1>12. CASE Wipe(w)
  BY <1>12, SMTT(20) DEF Wipe, Wiped, On, Finish, Trim, Targets, Listed
<1>13. CASE Save(w)
  BY <1>13, SMTT(20) DEF Save, On, Finish, Trim, Targets, Listed
<1>14. CASE Drop(w)
  BY <1>14, SMTT(20) DEF Drop, On, Finish, Trim, Targets, Listed
<1>15. CASE CfGet(w)
  BY <1>15, SMTT(20) DEF CfGet, On, Finish, Trim, Targets, Listed
<1>16. CASE CfPut(w)
  BY <1>16, SMTT(20) DEF CfPut, On, Finish, Trim, Targets, Listed
<1> QED BY <1>1, <1>2, <1>3, <1>4, <1>5, <1>6, <1>7, <1>8, <1>9, <1>10, <1>11,
           <1>12, <1>13, <1>14, <1>15, <1>16 DEF Step

\* ... what it has loaded, ...
LEMMA StepLocTypes ==
  ASSUME TypeOK, WorkTypes, LocalInv, NEW w \in Workers, Step(w), LocalOK(w)'
  PROVE  LocTypes(w)'
<1> USE DEF WorkTypes
<1>a. LocTypes(w) /\ LocalOK(w)
  BY DEF TypeOK, LocTypes, LocalInv
<1>b. ASSUME Holds(w)'
      PROVE  LocTypes(w)'
  BY <1>b DEF LocalOK, Holds, Good, Window, LocTypes
<1>c. ASSUME Finish(w)
      PROVE  LocTypes(w)'
  BY <1>c DEF Finish, LocTypes
<1>1. CASE GetWrite(w)
  BY <1>b, <1>1, SMTT(20) DEF GetWrite, On, Trim, Resolve, Holds
<1>2. CASE GetTune(w)
  BY <1>b, <1>2, SMTT(20) DEF GetTune, On, Trim, Resolve, Holds
<1>3. CASE GetMissing(w)
  BY <1>c, <1>3 DEF GetMissing
<1>4. CASE GetDelete(w)
  BY <1>b, <1>4, SMTT(20) DEF GetDelete, On, Trim, Resolve, Holds
<1>5. CASE GetUndelete(w)
  BY <1>b, <1>5, SMTT(20) DEF GetUndelete, On, Trim, Resolve, Holds
<1>6. CASE GetDestroy(w)
  BY <1>b, <1>6, SMTT(20) DEF GetDestroy, On, Trim, Resolve, Holds
<1>7. CASE GetPurge(w)
  BY <1>a, <1>7 DEF GetPurge, On, LocTypes
<1>8. CASE Cas(w)
  BY <1>b, <1>c, <1>8 DEF Cas, On, Holds
<1>9. CASE Put(w)
  BY <1>b, <1>9, SMTT(20) DEF Put, On, Trim, Resolve, Holds
<1>10. CASE Cap(w)
  BY <1>b, <1>10, SMTT(20) DEF Cap, On, Trim, Resolve, Holds
<1>11. CASE Evict(w)
  BY <1>b, <1>11, SMTT(20) DEF Evict, On, Trim, Resolve, Holds
<1>12. CASE Wipe(w)
  <2>1. PICK v \in todo[w] : Wiped(w, v)
    BY <1>12 DEF Wipe
  <2>2. CASE op[w] = "destroy"
    BY <1>b, <2>1, <2>2 DEF Wiped, On, Holds
  <2>3. CASE op[w] # "destroy"
    BY <1>a, <1>12, <2>1, <2>3 DEF Wipe, Wiped, On, LocTypes
  <2> QED BY <2>2, <2>3
<1>13. CASE Save(w)
  BY <1>c, <1>13 DEF Save
<1>14. CASE Drop(w)
  BY <1>c, <1>14 DEF Drop
<1>15. CASE CfGet(w)
  <2>1. arg[w] \in Tunings
    BY <1>a, <1>15 DEF CfGet, LocalOK
  <2> DEFINE t == arg[w]
             c == IF cfg = None THEN [cap |-> MountCap, cas |-> MountCAS] ELSE cfg
  <2>2. c.cap \in Nat
    BY BoundsAssumption DEF TypeOK, Config
  <2>3. c.cas \in BOOLEAN
    BY BoundsAssumption, Zenon DEF TypeOK, Config
  <2>x. c \in Config
    BY BoundsAssumption DEF TypeOK, Config
  <2>4. t.cap \in Nat \cup {None} /\ t.cas \in BOOLEAN \cup {None}
    BY <2>1
  <2>5. Tuned(c, t) = [c EXCEPT !.cap = IF t.cap = None THEN c.cap ELSE t.cap,
                                !.cas = IF t.cas = None THEN c.cas ELSE t.cas]
    BY <2>x DEF Tuned, Config
  <2>6. (IF t.cap = None THEN c.cap ELSE t.cap) \in Nat
    BY <2>2, <2>4
  <2>7. (IF t.cas = None THEN c.cas ELSE t.cas) \in BOOLEAN
    BY <2>3, <2>4, Zenon
  <2>8. loc'[w] = Tuned(c, t) /\ pc'[w] = "cf_put"
    BY <1>15 DEF CfGet, On
  <2> HIDE DEF c, t
  <2>9. Tuned(c, t) \in Config
    BY <2>x, <2>5, <2>6, <2>7 DEF Config
  <2> QED BY <2>8, <2>9 DEF LocTypes
<1>16. CASE CfPut(w)
  BY <1>c, <1>16 DEF CfPut
<1> QED BY <1>1, <1>2, <1>3, <1>4, <1>5, <1>6, <1>7, <1>8, <1>9, <1>10, <1>11,
           <1>12, <1>13, <1>14, <1>15, <1>16 DEF Step

\* Pruning deletes the data of a version there is.
LEMMA EvictsVersion ==
  ASSUME TypeOK, WorkTypes, PendingInv, LocalInv, NEW w \in Workers, Evict(w)
  PROVE  loc[w].oldest \in Versions
<1>1. /\ Good(loc[w]) /\ cap[w] \in Nat /\ cap[w] > 0
      /\ loc[w].cur + 1 > cap[w] + loc[w].oldest
  BY DEF Evict, LocalInv, LocalOK, Holds, WorkTypes
<1>2. Cardinality(Pending) \in Nat
  BY FS_CardinalityType DEF PendingInv
<1>3. Room <= writes /\ Room \in Nat /\ writes <= MaxWrites /\ writes \in Nat
  BY <1>2, BoundsAssumption DEF PendingInv, Room, TypeOK
<1>4. /\ loc[w].cur <= Room /\ loc[w].cur \in Nat /\ loc[w].oldest \in Nat
      /\ \/ loc[w].cur = 0 /\ loc[w].oldest = 0
         \/ 1 <= loc[w].oldest /\ loc[w].oldest <= loc[w].cur
  BY <1>1 DEF Good, Window, Meta
<1> QED BY <1>1, <1>3, <1>4, BoundsAssumption DEF Versions

\* ... and those of storage and the histories.
LEMMA StepStoreTypes ==
  ASSUME TypeOK, WorkTypes, PendingInv, MetaInv, LocalInv, PayloadInv,
         NEW w \in Workers, Step(w)
  PROVE  StoreTypes'
<1> USE DEF StoreTypes, WorkTypes
<1>t. StoreTypes
  BY TypeParts
<1>a. LocalOK(w)
  BY DEF LocalInv
<1>b. \A m : Good(m) => m \in Meta
  BY DEF Good, Window
<1>c. UNCHANGED <<md, data, cfg, writes, crew, keep, trash, acked, gone, stuck,
                   wins>>
        => StoreTypes'
  BY <1>t
<1>d. \A vs : Forget(vs) => keep' \in [Versions -> Payloads \cup {None}]
  BY <1>t DEF Forget
<1>e. \A vs : ForgetFully(vs) => /\ keep' \in [Versions -> Payloads \cup {None}]
                                 /\ trash' \in [Versions -> Payloads \cup {None}]
  BY <1>t DEF Forget, ForgetFully
<1>1. CASE GetWrite(w) \/ GetTune(w) \/ GetMissing(w) \/ GetUndelete(w) \/ Cas(w)
           \/ Cap(w) \/ CfGet(w)
  BY <1>c, <1>1 DEF GetWrite, GetTune, GetMissing, GetUndelete, Cas, Cap, CfGet, store,
     hist
<1>2. CASE GetDelete(w)
  <2>1. trash' \in [Versions -> Payloads \cup {None}]
    BY <1>t, <1>2 DEF GetDelete
  <2> QED BY <1>t, <1>d, <1>2, <2>1 DEF GetDelete, store
<1>3. CASE GetDestroy(w)
  BY <1>t, <1>e, <1>3 DEF GetDestroy, store
<1>4. CASE GetPurge(w)
  BY <1>t, <1>e, <1>4 DEF GetPurge, store
<1>5. CASE Put(w)
  <2>1. pay[w] \in Payloads
    BY <1>a, <1>t, <1>5, BoundsAssumption
       DEF Put, LocalOK, PayloadInv, Payloads
  <2>2. data' \in [Versions -> Payloads \cup {None}]
    BY <1>t, <1>5, <2>1 DEF Put
  <2> QED BY <1>t, <1>5, <2>2 DEF Put, hist
<1>6. CASE Evict(w)
  <2>2. loc[w].oldest \in Versions
    BY <1>6, EvictsVersion
  <2>3. /\ data' \in [Versions -> Payloads \cup {None}]
        /\ gone' \subseteq Payloads /\ stuck' \subseteq Payloads
    BY <1>t, <1>6, <2>2 DEF Evict, Delete
  <2> QED BY <1>t, <1>e, <1>6, <2>3 DEF Evict
<1>7. CASE Wipe(w)
  <2>1. PICK v \in todo[w] : Wiped(w, v) /\ Delete(v)
    BY <1>7 DEF Wipe
  <2>2. /\ data' \in [Versions -> Payloads \cup {None}]
        /\ gone' \subseteq Payloads /\ stuck' \subseteq Payloads
    BY <1>t, <2>1 DEF Delete
  <2> QED BY <1>t, <2>1, <2>2 DEF Wiped
<1>8. CASE Save(w)
  <2>1. md' \in Meta
    BY <1>a, <1>b, <1>8 DEF Save, LocalOK, Holds
  <2>2. /\ keep' \in [Versions -> Payloads \cup {None}]
        /\ trash' \in [Versions -> Payloads \cup {None}]
    BY <1>t, <1>8 DEF Save
  <2>3. acked' \subseteq Payloads
    <3>1. acked' \subseteq acked \cup {pay[w]}
          /\ (op[w] # "write" => acked' = acked)
      BY <1>8 DEF Save
    <3>2. op[w] = "write" => pay[w] \in Payloads
      BY <1>t, BoundsAssumption DEF PayloadInv, Payloads
    <3> QED BY <1>t, <3>1, <3>2
  <2>4. wins' \in [Versions -> 0..2]
    BY <1>t, <1>8, SMTT(20) DEF Save
  <2> QED BY <1>t, <1>8, <2>1, <2>2, <2>3, <2>4 DEF Save
<1>9. CASE Drop(w)
  BY <1>t, <1>9 DEF Drop
<1>10. CASE CfPut(w)
  <2>1. loc[w] \in Config
    BY <1>10 DEF CfPut, TypeOK
  <2> QED BY <1>t, <1>10, <2>1 DEF CfPut, hist
<1> QED BY <1>1, <1>2, <1>3, <1>4, <1>5, <1>6, <1>7, <1>8, <1>9, <1>10 DEF Step

\* Every step keeps the types.
LEMMA TypesKept ==
  ASSUME TypeOK, WorkTypes, PendingInv, MetaInv, LocalInv, PayloadInv, [Next]_vars
  PROVE  TypeOK' /\ WorkTypes'
<1>a. LocalInv'
  BY LocalsKept
<1>b. StoreTypes /\ \A w \in Workers : LocTypes(w)
  BY TypeParts
<1>1. ASSUME NEW w \in Workers, Step(w)
      PROVE  TypeOK' /\ WorkTypes'
  <2>1. StoreTypes' /\ WorkTypes'
    BY <1>1, StepStoreTypes, StepWorkTypes
  <2>2. \A v \in Workers : LocTypes(v)'
    BY <1>a, <1>b, <1>1, OthersKeep, StepLocTypes DEF LocalInv, LocTypes
  <2> QED BY <2>1, <2>2, Zenon DEF TypeOK, StoreTypes, LocTypes, WorkTypes
<1>2. ASSUME NEW w \in Workers, BeginWrite(w)
      PROVE  TypeOK' /\ WorkTypes'
  <2>1. writes + 1 \in Payloads
    BY <1>b, <1>2, BoundsAssumption DEF BeginWrite, StoreTypes, Payloads
  <2>2. StoreTypes'
    BY <1>b, <1>2, <2>1, BoundsAssumption DEF BeginWrite, Begin, StoreTypes, store, hist,
       Payloads
  <2>3. WorkTypes'
    BY <1>2, <2>1, SMTT(20) DEF BeginWrite, Begin, WorkTypes, Labels, Ops
  <2>4. loc'[w] = loc[w] /\ pc[w] = "idle" /\ pc'[w] \in {"get", "cf_get"}
    BY <1>2 DEF BeginWrite, Begin, WorkTypes
  <2>5. \A v \in Workers : LocTypes(v)'
    BY <1>b, <1>2, <2>4, OthersKeep DEF LocTypes
  <2> QED BY <2>2, <2>3, <2>5, Zenon DEF TypeOK, StoreTypes, LocTypes, WorkTypes
<1>3. ASSUME NEW w \in Workers, BeginOther(w)
      PROVE  TypeOK' /\ WorkTypes'
  <2>2. StoreTypes'
    BY <1>b, <1>3 DEF BeginOther, Begin, StoreTypes, store, hist
  <2>3. WorkTypes'
    BY <1>3, SMTT(20) DEF BeginOther, Begin, WorkTypes, Labels, Ops
  <2>4. loc'[w] = loc[w] /\ pc[w] = "idle" /\ pc'[w] \in {"get", "cf_get"}
    BY <1>3 DEF BeginOther, Begin, WorkTypes
  <2>5. \A v \in Workers : LocTypes(v)'
    BY <1>b, <1>3, <2>4, OthersKeep DEF LocTypes
  <2> QED BY <2>2, <2>3, <2>5, Zenon DEF TypeOK, StoreTypes, LocTypes, WorkTypes
<1>4. CASE Crash
  <2>1. StoreTypes'
    BY <1>b, <1>4 DEF Crash, StoreTypes, store, hist
  <2>2. WorkTypes'
    BY <1>4 DEF Crash, WorkTypes, Labels
  <2>3. \A v \in Workers : LocTypes(v)'
    BY <1>4 DEF Crash, LocTypes
  <2> QED BY <2>1, <2>2, <2>3, Zenon DEF TypeOK, StoreTypes, LocTypes, WorkTypes
<1>5. CASE UNCHANGED vars
  BY <1>5 DEF vars, TypeOK, WorkTypes
<1> QED BY <1>1, <1>2, <1>3, <1>4, <1>5 DEF Next

------------------------------------------------------------------------------
(* Where the payloads are. *)

\* A step leaves the payload of a write with its worker.
LEMMA StepKeepsPay ==
  ASSUME WorkTypes, NEW w \in Workers, Step(w)
  PROVE  op'[w] = "write" => op[w] = "write" /\ pay'[w] = pay[w]
<1>1. (op'[w] = op[w] /\ pay'[w] = pay[w]) \/ op'[w] = None
  BY DEF WorkTypes, Step, On, Finish, Trim, Resolve, GetWrite, GetTune, GetMissing,
     GetDelete, GetUndelete, GetDestroy, GetPurge, Cas, Put, Cap, Evict, Wipe, Wiped,
     Save, Drop, CfGet, CfPut
<1> QED BY <1>1 DEF Ops

\* Deleting the data of a version makes its payload gone.
LEMMA RemovalKeeps ==
  ASSUME TypeOK, PayloadInv, writes' = writes, Pending' \subseteq Pending,
         \A v \in Workers : op'[v] = "write" => op[v] = "write" /\ pay'[v] = pay[v],
         \/ data' = data /\ gone' = gone
         \/ \E u \in Versions : /\ data' = [data EXCEPT ![u] = None]
                                /\ gone' = gone \cup ({data[u]} \ {None})
  PROVE  PayloadInv'
<1>1. \A w \in Pending' : w \in Workers /\ op'[w] = "write" /\ pay'[w] = pay[w]
  BY DEF Pending
<1>2. \A p : p \in gone' => p \in gone \/ (p # None /\ \E u \in Versions : p = data[u])
  OBVIOUS
<1>3. \A v \in Versions : data'[v] \in {data[v], None}
  BY DEF TypeOK
<1>4. \A v \in Versions : data'[v] \notin gone'
  <2>1. None \notin gone
    BY BoundsAssumption, NoneAssumption DEF TypeOK, Payloads
  <2>2. CASE data' = data /\ gone' = gone
    BY <2>2 DEF PayloadInv
  <2>3. ASSUME NEW u \in Versions, data' = [data EXCEPT ![u] = None],
               gone' = gone \cup ({data[u]} \ {None})
        PROVE  \A v \in Versions : data'[v] \notin gone'
    <3>1. data'[u] = None /\ \A v \in Versions \ {u} : data'[v] = data[v]
      BY <2>3 DEF TypeOK
    <3> QED BY <2>1, <2>3, <3>1 DEF PayloadInv
  <2> QED BY <2>2, <2>3
<1>5. \A w \in Pending' : /\ pay'[w] \notin gone'
                          /\ \A v \in Versions : data'[v] # pay'[w]
  <2> SUFFICES ASSUME NEW w \in Pending'
               PROVE  /\ pay'[w] \notin gone'
                      /\ \A v \in Versions : data'[v] # pay'[w]
    OBVIOUS
  <2>1. w \in Pending /\ w \in Workers /\ pay'[w] = pay[w] /\ op[w] = "write"
    BY <1>1
  <2>2. pay[w] # None
    BY <2>1, NoneAssumption, BoundsAssumption DEF PayloadInv, TypeOK
  <2> QED BY <1>2, <1>3, <2>1, <2>2 DEF PayloadInv
<1>6. \A u, v \in Versions : data'[u] # None /\ u # v => data'[u] # data'[v]
  BY <1>3 DEF PayloadInv
<1>7. /\ gone' \subseteq 1..writes'
      /\ \A v \in Versions : data'[v] \in 1..writes' \cup {None}
  BY <1>2, <1>3 DEF PayloadInv
<1>8. /\ \A w \in Workers : op'[w] = "write" => pay'[w] \in 1..writes'
      /\ \A v, w \in Workers : op'[v] = "write" /\ op'[w] = "write" /\ v # w
                                => pay'[v] # pay'[w]
  BY DEF PayloadInv
<1> QED BY <1>4, <1>5, <1>6, <1>7, <1>8 DEF PayloadInv

\* Every step keeps each payload in one place.
LEMMA PayloadsKept ==
  ASSUME TypeOK, WorkTypes, PendingInv, MetaInv, LocalInv, PayloadInv, [Next]_vars
  PROVE  PayloadInv'
<1>1. ASSUME NEW w \in Workers, Step(w)
      PROVE  PayloadInv'
  <2>1. /\ writes' = writes /\ Pending' \subseteq Pending
        /\ \A v \in Workers : op'[v] = "write" => op[v] = "write" /\ pay'[v] = pay[v]
    BY <1>1, StepPends, StepKeepsPay, OthersKeep DEF Pending
  <2>2. CASE Put(w)
    <3> DEFINE n == loc[w].cur + 1
    <3>1. data' = [data EXCEPT ![n] = pay[w]] /\ gone' = gone
      BY <2>2 DEF Put, hist
    <3>2. w \in Pending /\ w \notin Pending' /\ op[w] = "write"
      BY <2>2 DEF Put, Pending, LocalInv, LocalOK, WorkTypes, Resolve, Trim, On
    <3>3. \A v \in Versions : data'[v] = IF v = n THEN pay[w] ELSE data[v]
      BY <3>1 DEF TypeOK
    <3>4. pay[w] \notin gone /\ pay[w] \in 1..writes
          /\ \A v \in Versions : data[v] # pay[w]
      BY <3>2 DEF PayloadInv
    <3>5. \A v \in Pending' : pay'[v] = pay[v] /\ v \in Pending /\ pay[v] # pay[w]
      BY <2>1, <3>2 DEF PayloadInv, Pending
    <3> HIDE DEF n
    <3> QED BY <2>1, <3>1, <3>3, <3>4, <3>5 DEF PayloadInv
  <2>3. CASE Evict(w)
    <3>1. loc[w].oldest \in Versions
      BY <2>3, EvictsVersion
    <3> QED BY <2>1, <2>3, <3>1, RemovalKeeps DEF Evict, Delete
  <2>4. CASE Wipe(w)
    <3>1. PICK v \in todo[w] : Wiped(w, v) /\ Delete(v)
      BY <2>4 DEF Wipe
    <3>2. v \in Versions
      BY <3>1 DEF WorkTypes
    <3> QED BY <2>1, <3>1, <3>2, RemovalKeeps DEF Delete
  <2>5. CASE ~Put(w) /\ ~Evict(w) /\ ~Wipe(w)
    <3>1. UNCHANGED <<data, gone>>
      BY <1>1, <2>5 DEF Step, store, hist, GetWrite, GetTune, GetMissing, GetDelete,
         GetUndelete, GetDestroy, GetPurge, Cas, Cap, Save, Drop, CfGet, CfPut
    <3> QED BY <2>1, <3>1, RemovalKeeps
  <2> QED BY <2>2, <2>3, <2>4, <2>5
<1>2. ASSUME NEW w \in Workers, BeginWrite(w)
      PROVE  PayloadInv'
  <2>1. /\ writes' = writes + 1 /\ pay'[w] = writes + 1 /\ op'[w] = "write"
        /\ UNCHANGED <<data, gone>> /\ w \notin Pending /\ writes \in Nat
    BY <1>2 DEF BeginWrite, Begin, WorkTypes, TypeOK, store, hist, Pending
  <2>2. \A v \in Workers \ {w} : UNCHANGED <<op[v], pay[v], pc[v]>>
    BY <1>2, OthersKeep
  <2>3. \A v \in Pending' \ {w} : v \in Pending
    BY <2>2 DEF Pending
  <2>4. \A p \in 1..writes : p \in 1..(writes + 1) /\ p # writes + 1
    BY <2>1
  <2>5. writes + 1 \notin gone /\ \A v \in Versions : data[v] # writes + 1
    BY <2>1, <2>4, NoneAssumption DEF PayloadInv
  <2>6. \A v \in Workers : op'[v] = "write" => pay'[v] \in 1..writes'
    BY <2>1, <2>2, <2>4 DEF PayloadInv
  <2>7. \A u, v \in Workers : op'[u] = "write" /\ op'[v] = "write" /\ u # v
                                => pay'[u] # pay'[v]
    BY <2>1, <2>2, <2>4 DEF PayloadInv
  <2>8. \A v \in Pending' : /\ pay'[v] \notin gone'
                            /\ \A u \in Versions : data'[u] # pay'[v]
    BY <2>1, <2>2, <2>3, <2>5 DEF PayloadInv, Pending
  <2> QED BY <2>1, <2>4, <2>6, <2>7, <2>8 DEF PayloadInv
<1>3. ASSUME NEW w \in Workers, BeginOther(w)
      PROVE  PayloadInv'
  <2>1. /\ writes' = writes /\ op'[w] # "write" /\ UNCHANGED <<data, gone>>
    BY <1>3 DEF BeginOther, Begin, WorkTypes, store, hist
  <2>2. \A v \in Workers \ {w} : UNCHANGED <<op[v], pay[v], pc[v]>>
    BY <1>3, OthersKeep
  <2> QED BY <2>1, <2>2, RemovalKeeps DEF Pending
<1>4. CASE Crash
  <2>1. /\ UNCHANGED <<data, gone, writes>>
        /\ \A w \in Workers : op'[w] # "write"
    BY <1>4 DEF Crash, store, hist, Ops
  <2> QED BY <2>1, RemovalKeeps DEF Pending
<1>5. CASE UNCHANGED vars
  BY <1>5 DEF vars, PayloadInv, Pending
<1> QED BY <1>1, <1>2, <1>3, <1>4, <1>5 DEF Next

------------------------------------------------------------------------------
(* The theorems. *)

\* The invariant holds at first ...
LEMMA Initially == Init => IInv
<1> SUFFICES ASSUME Init
             PROVE  IInv
  OBVIOUS
<1> USE DEF Init, Nothing
<1>1. StoreTypes
  BY CrewsAssumption, BoundsAssumption DEF StoreTypes
<1>2. WorkTypes /\ \A w \in Workers : LocTypes(w)
  BY DEF WorkTypes, Labels, LocTypes
<1>3. TypeOK
  BY <1>1, <1>2, Zenon DEF TypeOK, StoreTypes, WorkTypes, LocTypes
<1>4. Pending = {} /\ PendingInv
  <2>1. Pending = {} /\ writes = 0
    BY DEF Pending
  <2> QED BY <2>1, FS_EmptySet DEF PendingInv, Room
<1>5. MetaInv /\ LocalInv
  BY <1>2 DEF MetaInv, LocalInv, LocalOK, Holds, WorkTypes
<1>6. PayloadInv
  BY <1>4 DEF PayloadInv, Ops
<1> QED BY <1>3, <1>4, <1>5, <1>6 DEF IInv

\* ... and through every step.
LEMMA Inductive == IInv /\ [Next]_vars => IInv'
<1> SUFFICES ASSUME IInv, [Next]_vars
             PROVE  IInv'
  OBVIOUS
<1>1. WorkTypes
  BY DEF IInv, TypeOK, LocalInv, WorkTypes
<1> QED BY <1>1, RoomGrows, LocalsKept, TypesKept, PayloadsKept DEF IInv

\* The invariant the others follow from: what a worker may write back, and where
\* the payloads are.
THEOREM Invariant == Spec => []IInv
BY Initially, Inductive, PTL DEF Spec

\* Every variable keeps its type, and no request's locals outlive it.
THEOREM TypeOKHolds == Spec => []TypeOK
<1>1. IInv => TypeOK
  BY DEF IInv
<1> QED BY <1>1, Invariant, PTL

\* The metadata lists the versions from the oldest to the current one, whoever
\* wrote it back and however old the copy was it was made from.
THEOREM WindowHoldsAlways == Spec => []WindowHolds
<1>1. IInv => WindowHolds
  BY DEF IInv, MetaInv, Good, Window, WindowHolds
<1> QED BY <1>1, Invariant, PTL

\* What was destroyed, purged or pruned is never read again, even if old metadata
\* comes back: its data does not.
THEOREM DestroyedIsGoneHolds == Spec => []DestroyedIsGone
<1>1. IInv => DestroyedIsGone
  <2> SUFFICES ASSUME IInv, NEW v \in Versions
               PROVE  Readable(v) \notin gone
    BY DEF DestroyedIsGone
  <2>1. None \notin Payloads
    BY BoundsAssumption, NoneAssumption DEF Payloads
  <2>2. None \notin gone /\ data[v] \notin gone
    BY <2>1 DEF IInv, TypeOK, PayloadInv
  <2> QED BY <2>2 DEF Readable
<1> QED BY <1>1, Invariant, PTL

------------------------------------------------------------------------------
(* Requests one at a time: what the histories promise, storage holds. *)

Stored == {"live", "deleted"}

\* The acknowledged payloads that no failed deletion explains.
Owed == acked \ stuck

\* What may be read is live, what may be undeleted has its data, and no
\* acknowledged data lies outside the metadata.
KeepInv ==
  /\ \A v \in Versions : keep[v] # None =>
       md # None /\ md.vers[v] = "live" /\ data[v] = keep[v]
  /\ \A v \in Versions : trash[v] # None =>
       md # None /\ md.vers[v] \in Stored /\ data[v] = trash[v]
  /\ \A v \in Versions : data[v] \in Owed => md # None /\ md.vers[v] \in Stored
  /\ acked \subseteq 1..writes

\* The metadata m may replace the stored one.
Agrees(m) ==
  \A v \in Versions : /\ keep[v] # None => m.vers[v] = "live"
                      /\ trash[v] # None => m.vers[v] \in Stored
                      /\ data[v] \in Owed => m.vers[v] \in Stored

\* So may the copy of the one request, once it is through.
CopyInv(w) ==
  /\ Holds(w) => Agrees(loc[w])
  /\ pc[w] # "idle" /\ op[w] = "write" => pay[w] \notin acked
  /\ op[w] = "write" /\ pc[w] \in {"cap", "evict", "save"} =>
       /\ loc[w].cur \in Versions
       /\ data[loc[w].cur] = pay[w] /\ loc[w].vers[loc[w].cur] = "live"
  /\ pc[w] \in {"cap", "evict"} => op[w] \in {"write", "tune"}
  /\ op[w] = "undelete" /\ pc[w] = "save" =>
       \A v \in todo[w] : loc[w].vers[v] \in {"live", "destroyed"}
  /\ pc[w] = "wipe" => \A v \in todo[w] : keep[v] = None /\ trash[v] = None
  /\ pc[w] \in {"wipe", "drop"} /\ op[w] = "purge" =>
       \A v \in Versions : /\ keep[v] = None /\ trash[v] = None
                           /\ data[v] \in Owed => pc[w] = "wipe" /\ v \in todo[w]

\* Only the workers of the crew serve.
CrewInv == \A w \in Workers : pc[w] # "idle" => w \in crew

SerialInv == CrewInv /\ (Serial => KeepInv /\ \A w \in Workers : CopyInv(w))

\* What the steps below start from.
Before(w) == /\ TypeOK /\ WorkTypes /\ PendingInv /\ MetaInv /\ LocalInv /\ PayloadInv
             /\ Serial /\ KeepInv /\ CopyInv(w)

\* No value is not a payload.
LEMMA NoneNotAcked ==
  ASSUME TypeOK
  PROVE  None \notin acked /\ None \notin 1..writes
<1>1. None \notin Payloads
  BY BoundsAssumption, NoneAssumption DEF Payloads
<1>2. acked \subseteq Payloads /\ 1..writes \subseteq Payloads
  BY BoundsAssumption DEF TypeOK, Payloads
<1> QED BY <1>1, <1>2

\* A copy that is no longer than there is room has a next version.
LEMMA NextVersion ==
  ASSUME TypeOK, NEW r \in Nat, r + 1 <= writes, NEW c \in Nat, c <= r
  PROVE  c + 1 \in Versions
<1>1. writes \in Nat /\ writes <= MaxWrites /\ MaxWrites \in Nat
  BY BoundsAssumption DEF TypeOK
<1> QED BY <1>1 DEF Versions

LEMMA LoadedAgrees ==
  ASSUME TypeOK, KeepInv
  PROVE  Agrees(Loaded)
  BY DEF Owed, KeepInv, Agrees, Loaded

LEMMA FinishCopy ==
  ASSUME WorkTypes, NEW w \in Workers, Finish(w)
  PROVE  CopyInv(w)'
  BY DEF WorkTypes, Finish, CopyInv, Holds

\* Where Resolve and Trim lead.
LEMMA ResolveShape ==
  ASSUME WorkTypes, NEW w \in Workers, NEW m, Resolve(w, m) \/ \E c \in Nat : Trim(w, m, c)
  PROVE  /\ loc'[w] = m /\ pc'[w] \in {"cap", "evict", "save"}
         /\ op'[w] = op[w] /\ pay'[w] = pay[w]
  BY DEF WorkTypes, Resolve, Trim, On

LEMMA ExtendedVers ==
  ASSUME NEW m, m \in Meta, m.cur + 1 \in Versions
  PROVE  /\ Extended(m).cur = m.cur + 1
         /\ \A v \in Versions : Extended(m).vers[v] = IF v = m.cur + 1 THEN "live" ELSE m.vers[v]
  BY DEF Extended, Meta, States

LEMMA DroppedVers ==
  ASSUME NEW m, m \in Meta, m.oldest \in Versions
  PROVE  /\ Dropped(m).cur = m.cur
         /\ \A v \in Versions : Dropped(m).vers[v] = IF v = m.oldest THEN "none" ELSE m.vers[v]
  BY DEF Owed, Dropped, Meta, States

LEMMA MarkedVers ==
  ASSUME NEW m, m \in Meta, NEW vs, NEW s
  PROVE  \A v \in Versions : Marked(m, vs, s).vers[v] =
           IF v \in vs /\ m.vers[v] # "destroyed" THEN s ELSE m.vers[v]
  BY DEF Marked, Meta, States

\* Steps that change neither storage nor the histories.
Same == UNCHANGED <<md, data, keep, trash, acked, stuck, writes>>

LEMMA KeepSame ==
  ASSUME KeepInv, Same
  PROVE  KeepInv'
  BY DEF Owed, KeepInv, Same

LEMMA QuietSteps ==
  ASSUME NEW w \in Workers, Before(w),
         \/ GetWrite(w) \/ GetTune(w) \/ GetMissing(w) \/ GetUndelete(w)
         \/ Cas(w) \/ Cap(w) \/ CfGet(w) \/ CfPut(w)
  PROVE  KeepInv' /\ CopyInv(w)'
<1> USE DEF Before
<1>1. Same
  BY DEF Owed, Same, GetWrite, GetTune, GetMissing, GetUndelete, Cas, Cap, CfGet, CfPut, store, hist
<1>2. KeepInv'
  BY <1>1, KeepSame
<1>3. \A m : Agrees(m) <=> \A v \in Versions :
                             /\ keep'[v] # None => m.vers[v] = "live"
                             /\ trash'[v] # None => m.vers[v] \in Stored
                             /\ data'[v] \in Owed' => m.vers[v] \in Stored
  BY <1>1 DEF Owed, Same, Agrees
<1>4. CASE GetWrite(w)
  <2>1. pc'[w] = "cas" /\ loc'[w] = Loaded /\ op'[w] = "write" /\ pay'[w] = pay[w]
    BY <1>4 DEF GetWrite, On, WorkTypes
  <2>2. CopyInv(w)'
    BY <1>1, <1>3, <1>4, <2>1, LoadedAgrees DEF Owed, CopyInv, Agrees, Holds, Same, GetWrite
  <2> QED BY <1>2, <2>2
<1>5. CASE GetTune(w)
  <2>1. /\ loc'[w] = Tuned(Loaded, arg[w]) /\ pc'[w] \in {"cap", "evict", "save"}
        /\ op'[w] = "tune"
    BY <1>5, ResolveShape DEF GetTune
  <2>2. Loaded \in Meta
    BY NewWindow DEF Loaded, TypeOK, Window
  <2>3. Tuned(Loaded, arg[w]).vers = Loaded.vers
    BY <2>2 DEF Tuned, Meta
  <2>4. CopyInv(w)'
    BY <1>3, <2>1, <2>3, LoadedAgrees DEF Owed, CopyInv, Agrees, Holds
  <2> QED BY <1>2, <2>4
<1>6. CASE GetUndelete(w)
  <2>1. /\ pc'[w] = "save" /\ op'[w] = "undelete" /\ md # None
        /\ loc'[w] = Marked(md, Targets(md, arg[w]), "live") /\ todo'[w] = Targets(md, arg[w])
    BY <1>6 DEF GetUndelete, On, WorkTypes
  <2>2. md \in Meta /\ Targets(md, arg[w]) \subseteq Versions
    BY <2>1 DEF TypeOK, Targets, Listed
  <2>3. \A v \in Versions : loc'[w].vers[v] =
          IF v \in Targets(md, arg[w]) /\ md.vers[v] # "destroyed" THEN "live" ELSE md.vers[v]
    BY <2>1, <2>2, MarkedVers
  <2>4. \A v \in Versions : /\ keep'[v] # None => loc'[w].vers[v] = "live"
                            /\ trash'[v] # None => loc'[w].vers[v] \in Stored
                            /\ data'[v] \in Owed' => loc'[w].vers[v] \in Stored
    BY <1>1, <2>3 DEF Owed, Same, KeepInv, Stored
  <2>5. \A v \in todo'[w] : loc'[w].vers[v] \in {"live", "destroyed"}
    BY <2>1, <2>2, <2>3
  <2>6. CopyInv(w)'
    BY <2>1, <2>4, <2>5 DEF Owed, CopyInv, Agrees, Holds
  <2> QED BY <1>2, <2>6
<1>7. CASE Cas(w)
  <2>1. CASE Finish(w)
    BY <1>2, <2>1, FinishCopy
  <2>2. CASE On(w, "put") /\ UNCHANGED <<loc, cap, todo>>
    <3>1. /\ pc'[w] = "put" /\ loc'[w] = loc[w] /\ op'[w] = op[w] /\ pay'[w] = pay[w]
          /\ pc[w] = "cas"
      BY <1>7, <2>2 DEF On, WorkTypes, Cas
    <3>2. CopyInv(w)'
      BY <1>1, <1>3, <3>1 DEF Owed, CopyInv, Agrees, Holds, Same
    <3> QED BY <1>2, <3>2
  <2> QED BY <1>7, <2>1, <2>2 DEF Cas
<1>8. CASE Cap(w)
  <2>1. /\ loc'[w] = loc[w] /\ pc'[w] \in {"evict", "save"} /\ pc[w] = "cap"
        /\ op'[w] = op[w] /\ pay'[w] = pay[w]
    BY <1>8 DEF Cap, Trim, On, WorkTypes
  <2>2. CopyInv(w)'
    BY <1>1, <1>3, <2>1 DEF Owed, CopyInv, Agrees, Holds, Same
  <2> QED BY <1>2, <2>2
<1>9. CASE CfGet(w)
  <2>1. pc'[w] = "cf_put" /\ pc[w] = "cf_get" /\ op'[w] = op[w] /\ pay'[w] = pay[w]
    BY <1>9 DEF CfGet, On, WorkTypes
  <2>2. CopyInv(w)'
    BY <1>1, <2>1 DEF Owed, CopyInv, Holds, Same
  <2> QED BY <1>2, <2>2
<1> QED BY <1>2, <1>4, <1>5, <1>6, <1>7, <1>8, <1>9, FinishCopy DEF GetMissing, CfPut
\* The steps that change data.
LEMMA PutStep ==
  ASSUME NEW w \in Workers, Before(w), Put(w)
  PROVE  KeepInv' /\ CopyInv(w)'
<1> USE DEF Before
<1> DEFINE n == loc[w].cur + 1
<1>1. op[w] = "write" /\ pc[w] = "put" /\ Window(loc[w]) /\ loc[w].cur <= Room
      /\ loc[w] \in Meta /\ Agrees(loc[w])
  BY DEF Put, LocalInv, LocalOK, Holds, Good, Window, CopyInv
<1>2. n \in Versions
  <2>1. Room + 1 <= writes
    BY PutMakesRoom
  <2>2. Room \in Nat
    BY DEF PendingInv
  <2>3. loc[w].cur \in Nat
    BY <1>1 DEF Meta
  <2> QED BY <1>1, <2>1, <2>2, <2>3, NextVersion
<1>3. loc[w].vers[n] = "none"
  <2>1. loc[w].cur \in Nat
    BY <1>1 DEF Meta
  <2>2. n \notin Listed(loc[w])
    BY <1>1, <2>1 DEF Window
  <2> QED BY <1>2, <2>2 DEF Listed
<1>4. keep[n] = None /\ trash[n] = None
  BY <1>1, <1>2, <1>3 DEF Owed, Agrees, Stored
<1>5. pay[w] \notin acked
  BY <1>1 DEF Owed, CopyInv
<1>6. /\ UNCHANGED <<md, keep, trash, acked, stuck, writes>>
      /\ \A v \in Versions : data'[v] = IF v = n THEN pay[w] ELSE data[v]
  BY <1>2 DEF Put, hist, TypeOK
<1>7. /\ loc'[w] = Extended(loc[w]) /\ pc'[w] \in {"cap", "evict", "save"}
      /\ op'[w] = op[w] /\ pay'[w] = pay[w]
  BY ResolveShape DEF Put
<1>8. /\ Extended(loc[w]).cur = n
      /\ \A v \in Versions : Extended(loc[w]).vers[v] = IF v = n THEN "live" ELSE loc[w].vers[v]
  BY <1>1, <1>2, ExtendedVers
<1> HIDE DEF n
<1>9. KeepInv'
  BY <1>4, <1>5, <1>6 DEF Owed, KeepInv
<1>10. Agrees(loc[w])'
  BY <1>1, <1>4, <1>5, <1>6, <1>7, <1>8 DEF Owed, Agrees
<1>11. CopyInv(w)'
  BY <1>1, <1>2, <1>5, <1>6, <1>7, <1>8, <1>10 DEF Owed, CopyInv
<1> QED BY <1>9, <1>11

LEMMA EvictStep ==
  ASSUME NEW w \in Workers, Before(w), Evict(w)
  PROVE  KeepInv' /\ CopyInv(w)'
<1> USE DEF Before
<1> DEFINE o == loc[w].oldest
<1>1. /\ o \in Versions /\ o + cap[w] <= loc[w].cur /\ o < loc[w].cur
      /\ loc[w] \in Meta /\ Agrees(loc[w]) /\ pc[w] = "evict"
  <2>1. /\ Good(loc[w]) /\ cap[w] \in Nat /\ cap[w] > 0
        /\ loc[w].cur + 1 > cap[w] + o /\ Agrees(loc[w]) /\ pc[w] = "evict"
    BY DEF Evict, LocalInv, LocalOK, Holds, WorkTypes, CopyInv
  <2>2. o \in Versions
    BY EvictsVersion
  <2>3. loc[w].cur \in Nat /\ o \in Nat /\ loc[w] \in Meta
    BY <2>1 DEF Good, Window, Meta
  <2> QED BY <2>1, <2>2, <2>3
<1>2. /\ UNCHANGED <<md, acked, writes>> /\ data'[o] \notin Owed'
      /\ \A v \in Versions : v # o => data'[v] = data[v]
      /\ \A v \in Versions : data[v] \notin Owed => data[v] \notin Owed'
      /\ \A v \in Versions : keep'[v] \in {keep[v], None} /\ trash'[v] \in {trash[v], None}
      /\ keep'[o] = None /\ trash'[o] = None
  BY <1>1, NoneNotAcked DEF Owed, Evict, Delete, Forget, ForgetFully, TypeOK
<1>3. /\ loc'[w] = Dropped(loc[w]) /\ pc'[w] \in {"cap", "evict", "save"}
      /\ op'[w] = op[w] /\ pay'[w] = pay[w]
  BY ResolveShape DEF Evict, WorkTypes
<1>4. /\ Dropped(loc[w]).cur = loc[w].cur
      /\ \A v \in Versions : Dropped(loc[w]).vers[v] = IF v = o THEN "none" ELSE loc[w].vers[v]
  BY <1>1, DroppedVers
<1>5. None \notin acked
  BY NoneNotAcked
<1>6. o # loc[w].cur
  BY <1>1 DEF Meta
<1> HIDE DEF o
<1>7. KeepInv'
  BY <1>2, <1>5 DEF Owed, KeepInv
<1>8. Agrees(loc[w])'
  BY <1>1, <1>2, <1>3, <1>4, <1>5 DEF Owed, Agrees
<1>9. CopyInv(w)'
  BY <1>1, <1>2, <1>3, <1>4, <1>6, <1>8 DEF Owed, CopyInv
<1> QED BY <1>7, <1>9

LEMMA WipeStep ==
  ASSUME NEW w \in Workers, Before(w), Wipe(w)
  PROVE  KeepInv' /\ CopyInv(w)'
<1> USE DEF Before
<1>1. PICK u \in todo[w] : Wiped(w, u) /\ Delete(u)
  BY DEF Wipe
<1>2. /\ u \in Versions /\ pc[w] = "wipe" /\ keep[u] = None /\ trash[u] = None
      /\ None \notin acked
  BY <1>1, NoneNotAcked DEF Wipe, WorkTypes, CopyInv
<1>3. /\ UNCHANGED <<md, keep, trash, acked, writes>>
      /\ data'[u] \notin Owed' /\ \A v \in Versions : v # u => data'[v] = data[v]
      /\ \A v \in Versions : data[v] \notin Owed => data[v] \notin Owed'
  BY <1>1, <1>2 DEF Owed, Wiped, Delete, TypeOK
<1>4. /\ todo'[w] = todo[w] \ {u} /\ op'[w] = op[w] /\ pay'[w] = pay[w]
      /\ pc'[w] = IF todo[w] # {u} THEN "wipe" ELSE IF op[w] = "destroy" THEN "save" ELSE "drop"
  BY <1>1 DEF Wiped, On, WorkTypes
<1>5. KeepInv'
  BY <1>2, <1>3 DEF Owed, KeepInv
<1>6. CASE op[w] = "destroy"
  <2>1. loc[w] \in Meta /\ Agrees(loc[w])
    BY <1>2, <1>6 DEF LocalInv, LocalOK, Holds, Good, Window, CopyInv
  <2>2. \A v \in Versions : loc'[w].vers[v] = IF v = u THEN "destroyed" ELSE loc[w].vers[v]
    BY <1>1, <1>2, <1>6, <2>1 DEF Wiped, WorkTypes, Meta
  <2>3. Agrees(loc[w])'
    BY <1>2, <1>3, <2>1, <2>2 DEF Owed, Agrees
  <2>4. CopyInv(w)'
    BY <1>2, <1>3, <1>4, <1>6, <2>3 DEF Owed, CopyInv
  <2> QED BY <1>5, <2>4
<1>7. CASE op[w] = "purge"
  BY <1>2, <1>3, <1>4, <1>5, <1>7 DEF Owed, CopyInv, Holds
<1> QED BY <1>2, <1>6, <1>7 DEF LocalInv, LocalOK

\* The steps that change what the histories promise.
LEMMA DeleteStep ==
  ASSUME NEW w \in Workers, Before(w), GetDelete(w)
  PROVE  KeepInv' /\ CopyInv(w)'
<1> USE DEF Before
<1> DEFINE vs == Targets(md, arg[w])
<1>1. /\ UNCHANGED <<md, data, acked, stuck, writes>> /\ md # None
      /\ \A v \in Versions : keep'[v] = IF v \in vs THEN None ELSE keep[v]
      /\ \A v \in Versions : trash'[v] = IF v \in vs /\ keep[v] # None THEN keep[v] ELSE trash[v]
  BY DEF GetDelete, Forget, store
<1>2. /\ loc'[w] = Marked(md, vs, "deleted") /\ pc'[w] = "save" /\ op'[w] = "delete"
  BY DEF GetDelete, On, WorkTypes
<1>3. \A v \in Versions : loc'[w].vers[v] =
        IF v \in vs /\ md.vers[v] # "destroyed" THEN "deleted" ELSE md.vers[v]
  BY <1>1, <1>2, MarkedVers DEF TypeOK
<1> HIDE DEF vs
<1>4. KeepInv'
  BY <1>1 DEF Owed, KeepInv, Stored
<1>5. Agrees(loc[w])'
  BY <1>1, <1>3 DEF Owed, Agrees, KeepInv, Stored
<1>6. CopyInv(w)'
  BY <1>2, <1>5 DEF Owed, CopyInv
<1> QED BY <1>4, <1>6

LEMMA DestroyStep ==
  ASSUME NEW w \in Workers, Before(w), GetDestroy(w)
  PROVE  KeepInv' /\ CopyInv(w)'
<1> USE DEF Before
<1> DEFINE vs == Targets(md, arg[w])
<1>1. /\ UNCHANGED <<md, data, acked, stuck, writes>> /\ md # None
      /\ \A v \in Versions : keep'[v] = IF v \in vs THEN None ELSE keep[v]
      /\ \A v \in Versions : trash'[v] = IF v \in vs THEN None ELSE trash[v]
  BY DEF GetDestroy, Forget, ForgetFully, store
<1>2. /\ loc'[w] = md /\ todo'[w] = vs /\ op'[w] = "destroy" /\ vs \subseteq Versions
      /\ pc'[w] = IF vs = {} THEN "save" ELSE "wipe"
  BY DEF GetDestroy, On, WorkTypes, Targets, Listed
<1> HIDE DEF vs
<1>3. KeepInv'
  BY <1>1 DEF Owed, KeepInv
<1>4. Agrees(loc[w])'
  BY <1>1, <1>2 DEF Owed, Agrees, KeepInv, Stored
<1>5. CopyInv(w)'
  BY <1>1, <1>2, <1>4 DEF Owed, CopyInv
<1> QED BY <1>3, <1>5

LEMMA PurgeStep ==
  ASSUME NEW w \in Workers, Before(w), GetPurge(w)
  PROVE  KeepInv' /\ CopyInv(w)'
<1> USE DEF Before
<1> DEFINE vs == Listed(Loaded)
<1>1. /\ UNCHANGED <<md, data, acked, stuck, writes>>
      /\ \A v \in Versions : keep'[v] = IF v \in vs THEN None ELSE keep[v]
      /\ \A v \in Versions : trash'[v] = IF v \in vs THEN None ELSE trash[v]
  BY DEF GetPurge, Forget, ForgetFully, store
<1>2. /\ todo'[w] = vs /\ op'[w] = "purge" /\ vs \subseteq Versions
      /\ pc'[w] = IF vs = {} THEN "drop" ELSE "wipe"
  BY DEF GetPurge, On, WorkTypes, Listed
<1>3. \A v \in Versions : keep[v] # None \/ trash[v] # None \/ data[v] \in Owed => v \in vs
  BY DEF Owed, KeepInv, Stored, Listed, Loaded
<1> HIDE DEF vs
<1>4. KeepInv'
  BY <1>1 DEF Owed, KeepInv
<1>5. CopyInv(w)'
  BY <1>1, <1>2, <1>3 DEF Owed, CopyInv, Holds
<1> QED BY <1>4, <1>5

LEMMA SaveStep ==
  ASSUME NEW w \in Workers, Before(w), Save(w)
  PROVE  KeepInv' /\ CopyInv(w)'
<1> USE DEF Before
<1>1. /\ pc[w] = "save" /\ md' = loc[w] /\ UNCHANGED <<data, writes, stuck>>
      /\ loc[w] \in Meta /\ loc[w] # None /\ Agrees(loc[w])
  <2>1. pc[w] = "save" /\ md' = loc[w] /\ UNCHANGED <<data, writes, stuck>>
    BY DEF Save
  <2>2. Good(loc[w]) /\ Agrees(loc[w])
    BY <2>1 DEF LocalInv, LocalOK, Holds, CopyInv
  <2>3. loc[w] \in Meta
    BY <2>2 DEF Good, Window
  <2>4. loc[w] # None
    BY <2>3, NoneAssumption
  <2> QED BY <2>1, <2>2, <2>3, <2>4
<1>2. CopyInv(w)'
  BY FinishCopy DEF Save
<1>3. CASE op[w] = "write"
  <2> DEFINE n == loc[w].cur
  <2>1. n \in Versions /\ data[n] = pay[w] /\ loc[w].vers[n] = "live" /\ pay[w] \in 1..writes
    BY <1>1, <1>3 DEF Owed, CopyInv, PayloadInv
  <2>2. /\ \A v \in Versions : keep'[v] = IF v = n THEN pay[w] ELSE keep[v]
        /\ \A v \in Versions : trash'[v] = IF v = n THEN None ELSE trash[v]
        /\ acked' = acked \cup {pay[w]}
    BY <1>3 DEF Save, TypeOK
  <2>3. \A v \in Versions : data[v] = pay[w] => v = n
    BY <2>1, NoneNotAcked DEF PayloadInv
  <2> HIDE DEF n
  <2>4. KeepInv'
    BY <1>1, <2>1, <2>2, <2>3 DEF Owed, KeepInv, Agrees, Stored
  <2> QED BY <1>2, <2>4
<1>4. CASE op[w] = "undelete"
  <2>1. /\ \A v \in Versions : keep'[v] = IF v \in todo[w] /\ trash[v] # None THEN trash[v]
                                          ELSE keep[v]
        /\ UNCHANGED <<trash, acked, stuck>>
    BY <1>4 DEF Save
  <2>2. \A v \in todo[w] : loc[w].vers[v] \in {"live", "destroyed"}
    BY <1>1, <1>4 DEF Owed, CopyInv
  <2>3. KeepInv'
    BY <1>1, <2>1, <2>2 DEF Owed, KeepInv, Agrees, Stored
  <2> QED BY <1>2, <2>3
<1>5. CASE op[w] \notin {"write", "undelete"}
  <2>1. UNCHANGED <<keep, trash, acked, stuck>>
    BY <1>5 DEF Save
  <2>2. KeepInv'
    BY <1>1, <2>1 DEF Owed, KeepInv, Agrees
  <2> QED BY <1>2, <2>2
<1> QED BY <1>3, <1>4, <1>5

LEMMA DropStep ==
  ASSUME NEW w \in Workers, Before(w), Drop(w)
  PROVE  KeepInv' /\ CopyInv(w)'
<1> USE DEF Before
<1>1. pc[w] = "drop" /\ op[w] = "purge"
  BY DEF Owed, Drop, LocalInv, LocalOK
<1>2. \A v \in Versions : keep[v] = None /\ trash[v] = None /\ data[v] \notin Owed
  BY <1>1 DEF Owed, CopyInv
<1>3. KeepInv'
  BY <1>2 DEF Owed, Drop, KeepInv
<1> QED BY <1>3, FinishCopy DEF Owed, Drop

\* No step changes who serves, and only a serving worker begins.
LEMMA CrewKept ==
  ASSUME WorkTypes, CrewInv, [Next]_vars
  PROVE  CrewInv' /\ crew' = crew
<1>1. CASE Crash \/ UNCHANGED vars
  BY <1>1 DEF Owed, Crash, vars, CrewInv
<1>2. ASSUME NEW w \in Workers, BeginWrite(w) \/ BeginOther(w)
      PROVE  CrewInv' /\ crew' = crew
  <2>1. w \in crew /\ crew' = crew
    BY <1>2 DEF BeginWrite, BeginOther, Begin
  <2> QED BY <1>2, <2>1, OthersKeep DEF CrewInv
<1>3. ASSUME NEW w \in Workers, Step(w)
      PROVE  CrewInv' /\ crew' = crew
  <2>1. pc[w] # "idle" /\ crew' = crew
    BY <1>3 DEF Step, GetWrite, GetTune, GetMissing, GetDelete, GetUndelete, GetDestroy,
       GetPurge, Cas, Put, Cap, Evict, Wipe, Wiped, Save, Drop, CfGet, CfPut
  <2> QED BY <1>3, <2>1, OthersKeep DEF CrewInv
<1> QED BY <1>1, <1>2, <1>3 DEF Next

LEMMA SerialKept ==
  ASSUME IInv, SerialInv, [Next]_vars
  PROVE  SerialInv'
<1>w. WorkTypes
  BY DEF IInv, TypeOK, LocalInv, WorkTypes
<1>c. CrewInv' /\ crew' = crew
  BY <1>w, CrewKept DEF Owed, SerialInv
<1> SUFFICES ASSUME Serial
             PROVE  KeepInv' /\ \A w \in Workers : CopyInv(w)'
  BY <1>c DEF Owed, SerialInv, Serial
<1>i. KeepInv /\ \A w \in Workers : CopyInv(w)
  BY DEF Owed, SerialInv
<1>1. CASE UNCHANGED vars
  BY <1>i, <1>1 DEF Owed, vars, KeepInv, CopyInv, Agrees, Holds
<1>2. CASE Crash
  BY <1>i, <1>2 DEF Owed, Crash, store, hist, KeepInv, CopyInv, Holds
<1>o. ASSUME NEW w \in Workers, w \in crew', BeginWrite(w) \/ BeginOther(w) \/ Step(w),
             NEW v \in Workers \ {w}
      PROVE  CopyInv(v)'
  <2>1. pc'[v] = "idle"
    BY <1>c, <1>o DEF Serial, CrewInv
  <2> QED BY <2>1 DEF Owed, CopyInv, Holds
<1>3. ASSUME NEW w \in Workers, BeginWrite(w)
      PROVE  KeepInv' /\ \A v \in Workers : CopyInv(v)'
  <2>1. /\ UNCHANGED <<md, data, keep, trash, acked, stuck>> /\ writes' = writes + 1
        /\ pay'[w] = writes + 1 /\ pc'[w] \in {"get", "cf_get"} /\ w \in crew
        /\ writes \in Nat
    BY <1>3, <1>w DEF BeginWrite, Begin, WorkTypes, store, hist, IInv, TypeOK
  <2>2. KeepInv' /\ writes + 1 \notin acked
    BY <1>i, <2>1 DEF Owed, KeepInv
  <2>3. CopyInv(w)'
    BY <2>1, <2>2 DEF Owed, CopyInv, Holds
  <2> QED BY <1>c, <1>o, <1>3, <2>1, <2>2, <2>3
<1>4. ASSUME NEW w \in Workers, BeginOther(w)
      PROVE  KeepInv' /\ \A v \in Workers : CopyInv(v)'
  <2>1. /\ Same /\ pc'[w] \in {"get", "cf_get"} /\ op'[w] # "write" /\ w \in crew
    BY <1>4, <1>w DEF BeginOther, Begin, WorkTypes, store, hist, Same
  <2>2. CopyInv(w)'
    BY <2>1 DEF Owed, CopyInv, Holds
  <2> QED BY <1>c, <1>i, <1>o, <1>4, <2>1, <2>2, KeepSame
<1>5. ASSUME NEW w \in Workers, Step(w)
      PROVE  KeepInv' /\ \A v \in Workers : CopyInv(v)'
  <2>1. Before(w)
    BY <1>i, <1>w DEF Before, IInv
  <2>2. KeepInv' /\ CopyInv(w)'
    BY <1>5, <2>1, QuietSteps, PutStep, EvictStep, WipeStep, DeleteStep, DestroyStep,
       PurgeStep, SaveStep, DropStep DEF Step
  <2>3. w \in crew'
    <3>1. pc[w] # "idle"
      BY <1>5 DEF Step, GetWrite, GetTune, GetMissing, GetDelete, GetUndelete, GetDestroy,
         GetPurge, Cas, Put, Cap, Evict, Wipe, Save, Drop, CfGet, CfPut
    <3> QED BY <1>c, <3>1 DEF Owed, SerialInv, CrewInv
  <2> QED BY <1>o, <1>5, <2>2, <2>3
<1> QED BY <1>1, <1>2, <1>3, <1>4, <1>5 DEF Next

\* The invariant of the histories holds throughout.
LEMMA SerialAlways == Spec => []SerialInv
<1>1. Init => SerialInv
  BY DEF Owed, Init, Nothing, SerialInv, CrewInv, KeepInv, CopyInv, Holds
<1>2. IInv /\ SerialInv /\ [Next]_vars => SerialInv'
  BY SerialKept
<1> QED BY <1>1, <1>2, Invariant, PTL DEF Spec

\* Requests one at a time: what was acknowledged can be read back, and again
\* after an undelete, until a request takes it away; crashes change nothing.
THEOREM AckedReadableHolds == Spec => []AckedReadable
<1>1. SerialInv => AckedReadable
  BY DEF Owed, SerialInv, KeepInv, AckedReadable, Readable
<1> QED BY <1>1, SerialAlways, PTL

\* Requests one at a time: no acknowledged payload stays in storage under a
\* version that is destroyed, pruned or purged, wherever a crash came.
THEOREM NothingLeftBehindHolds == Spec => []NothingLeftBehind
<1>1. SerialInv => NothingLeftBehind
  BY DEF Owed, SerialInv, KeepInv, Stored, NothingLeftBehind
<1> QED BY <1>1, SerialAlways, PTL
==============================================================================
