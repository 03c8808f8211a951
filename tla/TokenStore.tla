------------------------------ MODULE TokenStore ------------------------------
(***************************************************************************)
(* The token store, the lease (expiration) manager, the per-token          *)
(* cubbyhole and response wrapping, which share the records one token owns *)
(* in the barrier: the token entry, its accessor index, its lease and its  *)
(* cubbyhole.                                                              *)
(*                                                                         *)
(* A worker is a goroutine: a request in HandleRequest (which holds no     *)
(* core lock) or the background revoker.  One action is one barrier        *)
(* operation together with the local computation that follows it; between  *)
(* two actions any other worker may run.  em.mu is the lease manager's     *)
(* mutex; it does not cover the token store.                               *)
(***************************************************************************)
EXTENDS Naturals, FiniteSets

CONSTANTS Tokens,     \* token ids randToken may return; an id names its
                      \* accessor, lease and cubbyhole too
          Workers,    \* goroutines
          May,        \* May[w]: the operations worker w issues
          Params,     \* CreateTokenParams of "create" (ttl after defaulting)
          WrapTTL,    \* lifetime of a wrapping token
          Incs,       \* renewal increments
          MaxNow,     \* bound: the clock stops here
          MaxServed,  \* bound: accepted requests are counted up to this
          MaxLost,    \* bound: failed deletions of an accessor
          Plain,      \* a cubbyhole with no entry under "response"
          None        \* no value

SelfOps  == {"read", "write", "renewSelf", "revokeSelf", "unwrapSelf"}
AdminOps == {"renew", "revoke", "revokeAcc", "unwrap", "rewrap"}
LeaseOps == {"leaseRenew", "leaseRevoke"}
BulkOps  == {"revokePrefix", "scan"}
MintOps  == {"create", "wrap"}
Ops      == SelfOps \cup AdminOps \cup LeaseOps \cup BulkOps \cup MintOps

Labels == {"idle", "use", "use_put", "rv_get", "rv_acc", "rv_tok", "purge",
           "lock", "pick", "rm_lease", "rn_get", "rn_put", "rn_lease",
           "mk_tok", "mk_acc", "mk_lease", "mk_cub", "cb_put", "ac_get",
           "un_get", "un_read", "rw_read"}

Param == [numUses : Nat, ttl : Nat, maxTTL : Nat, renewable : BOOLEAN]
Entry == [numUses : Nat, expire : Nat, maxExpire : Nat,
          renewable : BOOLEAN, wrap : BOOLEAN]

ASSUME ParamsAssumption  == Params \subseteq Param
ASSUME WrapTTLAssumption == WrapTTL \in Nat \ {0}
ASSUME IncsAssumption    == Incs \subseteq Nat
ASSUME BoundsAssumption  == MaxNow \in Nat /\ MaxServed \in Nat /\ MaxLost \in Nat
ASSUME MayAssumption     == May \in [Workers -> SUBSET Ops]
ASSUME NoneAssumption    == /\ None \notin Tokens
                            /\ None \notin Workers
                            /\ None \notin Entry
                            /\ Plain \notin Tokens \cup {None}

VARIABLES
  tok,      \* core/tokens/: the stored TokenEntry of a token
  acc,      \* core/accessors/: tokens whose accessor record is stored
  lease,    \* core/leases/: tokens whose lease is stored
  cub,      \* a token's cubbyhole: the payload under "response", or Plain
            \* when it only has entries under other keys
  now,      \* unix time
  mu,       \* holder of em.mu
  pc,       \* the next barrier operation of a worker
  op,       \* the operation a worker is handling
  tgt,      \* the token it is handling it for
  te,       \* its in-memory copy of a TokenEntry
  pay,      \* the cubbyhole payload it has read
  ret,      \* what follows the tokens.revoke it is in
  todo,     \* leases a revokePrefix or a scan still has to visit
  minted,   \* history: the entry a token was created with
  known,    \* tokens whose id has been handed to a client
  dead,     \* history: tokens whose entry a revocation has deleted
  lost,     \* history: tokens whose accessor a revocation failed to delete
  served,   \* history: requests accepted with a token
  revealed  \* history: times a wrapped payload was returned by unwrap

store == <<tok, acc, lost, lease, cub>>
local == <<pc, op, tgt, te, pay, ret, todo>>
hist  == <<minted, known, dead, served, revealed>>
vars  == <<tok, acc, lost, lease, cub, now, mu, pc, op, tgt, te, pay, ret, todo,
           minted, known, dead, served, revealed>>

Init == /\ tok = [t \in Tokens |-> None] /\ acc = {} /\ lost = {} /\ lease = {}
        /\ cub = [t \in Tokens |-> None]
        /\ now = 0 /\ mu = None
        /\ pc   = [w \in Workers |-> "idle"] /\ op  = [w \in Workers |-> None]
        /\ tgt  = [w \in Workers |-> None]   /\ te  = [w \in Workers |-> None]
        /\ pay  = [w \in Workers |-> None]
        /\ ret  = [w \in Workers |-> "purge"]
        /\ todo = [w \in Workers |-> {}]
        /\ minted = [t \in Tokens |-> None] /\ known = {} /\ dead = {}
        /\ served = [t \in Tokens |-> 0] /\ revealed = [t \in Tokens |-> 0]

------------------------------------------------------------------------------
(* Token entries. *)

Expired(e) == e.expire # 0 /\ now > e.expire

NewEntry(p, wrapping) ==
  [numUses   |-> p.numUses,
   expire    |-> IF p.ttl > 0 THEN now + p.ttl ELSE 0,
   maxExpire |-> IF p.maxTTL > 0 THEN now + p.maxTTL ELSE 0,
   renewable |-> p.renewable /\ p.ttl > 0,
   wrap      |-> wrapping]

WrapEntry == NewEntry([numUses |-> 0, ttl |-> WrapTTL, maxTTL |-> 0,
                       renewable |-> FALSE], TRUE)

Spend(e) == [e EXCEPT !.numUses = @ - 1]

\* A seeded mistake (here and below, a definition named Op_Mistake is Op with
\* a mistake in it, which a property must notice): explicit_max_ttl is ignored.
Renewed_Uncapped(e, inc) == [e EXCEPT !.expire = now + inc]

Renewed(e, inc) ==
  [e EXCEPT !.expire = IF e.maxExpire > 0 /\ now + inc > e.maxExpire
                       THEN e.maxExpire ELSE now + inc]

------------------------------------------------------------------------------
(* Control of a worker. *)

Goto(w, l) == pc' = [pc EXCEPT ![w] = l]

Keep(w, t, e) == /\ tgt' = [tgt EXCEPT ![w] = t]
                 /\ te'  = [te EXCEPT ![w] = e]

Finish_KeepsMutex(w) == /\ Goto(w, "idle") /\ Keep(w, None, None)
                        /\ op'   = [op EXCEPT ![w] = None]
                        /\ pay'  = [pay EXCEPT ![w] = None]
                        /\ ret'  = [ret EXCEPT ![w] = "purge"]
                        /\ todo' = [todo EXCEPT ![w] = {}]
                        /\ UNCHANGED mu

\* The worker is done: its locals go, and em.mu with them (deferred Unlock).
Finish(w) == /\ Goto(w, "idle") /\ Keep(w, None, None)
             /\ op'   = [op EXCEPT ![w] = None]
             /\ pay'  = [pay EXCEPT ![w] = None]
             /\ ret'  = [ret EXCEPT ![w] = "purge"]
             /\ todo' = [todo EXCEPT ![w] = {}]
             /\ mu'   = IF mu = w THEN None ELSE mu

\* On to barrier operation l with nothing else changed.
On(w, l) == Goto(w, l) /\ UNCHANGED <<op, tgt, te, pay, ret, todo, mu>>

\* The first barrier operation of the handler of o.
First(o) == CASE o \in {"renew", "renewSelf"}   -> "rn_get"
              [] o \in {"revoke", "revokeSelf"} -> "rv_get"
              [] o = "revokeAcc"                -> "ac_get"
              [] o \in {"unwrap", "unwrapSelf"} -> "un_get"
              [] o = "rewrap"                   -> "rw_read"
              [] o = "write"                    -> "cb_put"
              [] OTHER                          -> "idle"

\* One lease of a bulk operation is dealt with, or the whole operation is.
NextLease(w) == IF op[w] \in BulkOps
                THEN /\ Goto(w, "pick") /\ Keep(w, None, None)
                     /\ UNCHANGED <<op, pay, ret, todo, mu>>
                ELSE Finish(w)

------------------------------------------------------------------------------
(* A request arrives.  A self request authenticates with the token it is   *)
(* about; the others come from an administrator whose own (root) token     *)
(* neither expires nor counts uses, so that its use() changes nothing.     *)

Begin(w, o, t, l) == /\ pc[w] = "idle" /\ o \in May[w]
                     /\ Goto(w, l) /\ op' = [op EXCEPT ![w] = o]
                     /\ tgt' = [tgt EXCEPT ![w] = t]
                     /\ UNCHANGED <<store, now, mu, pay, ret, todo>>

\* (The policy of a wrapping token grants no cubbyhole path: its write is
\* refused after use(), as a "read" is served.)
BeginSelf(w) == /\ \E o \in SelfOps, t \in known :
                      /\ o = "write" => ~minted[t].wrap
                      /\ Begin(w, o, t, "use")
                /\ UNCHANGED <<te, hist>>

\* (The bound on ids: rewrap starts only while an id is left for its token.)
BeginAdmin(w) == /\ \E o \in AdminOps, t \in known :
                      /\ o = "rewrap" => \E u \in Tokens : minted[u] = None
                      /\ Begin(w, o, t, First(o))
                 /\ UNCHANGED <<te, hist>>

BeginLease(w) == /\ \E o \in LeaseOps, t \in lease : Begin(w, o, t, "lock")
                 /\ UNCHANGED <<te, hist>>

BeginBulk(w) == /\ \E o \in BulkOps : Begin(w, o, None, "lock")
                /\ UNCHANGED <<te, hist>>

\* randToken never returns an id twice.
Mint(t, e) == /\ minted[t] = None
              /\ minted' = [minted EXCEPT ![t] = e]
              /\ UNCHANGED <<known, dead, served, revealed>>

BeginMint(w) ==
  \E o \in MintOps, t \in Tokens :
    \E e \in IF o = "wrap" THEN {WrapEntry}
                           ELSE {NewEntry(p, FALSE) : p \in Params} :
       /\ Begin(w, o, t, "mk_tok")
       /\ te' = [te EXCEPT ![w] = e]
       /\ Mint(t, e)

------------------------------------------------------------------------------
(* tokenStore.use: expiry and num_uses of the client token. *)

\* use() accepts the request and its handler starts.
Serve(w) ==
  /\ served' = [served EXCEPT ![tgt[w]] = IF @ < MaxServed THEN @ + 1 ELSE @]
  /\ IF First(op[w]) = "idle" THEN Finish(w)
     ELSE /\ Goto(w, First(op[w])) /\ Keep(w, tgt[w], None)
          /\ ret' = [ret EXCEPT ![w] = "purge"]
          /\ UNCHANGED <<op, pay, todo, mu>>
  /\ UNCHANGED <<minted, known, dead, revealed>>

\* revoke() from inside use(); r is what use() does afterwards.
RevokeInUse(w, r) == /\ Goto(w, "rv_get")
                     /\ ret' = [ret EXCEPT ![w] = r]
                     /\ UNCHANGED <<op, tgt, te, pay, todo, mu, hist>>

\* The last use is persisted as num_uses = 0, which means unlimited.
Use_LastPersisted(w) ==
  /\ pc[w] = "use"
  /\ LET e == tok[tgt[w]]
     IN \/ e = None /\ Finish(w) /\ UNCHANGED hist
        \/ e # None /\ Expired(e) /\ RevokeInUse(w, "reject")
        \/ e # None /\ ~Expired(e) /\ e.numUses = 0 /\ Serve(w)
        \/ /\ e # None /\ ~Expired(e) /\ e.numUses > 0
           /\ te' = [te EXCEPT ![w] = Spend(e)]
           /\ Goto(w, "use_put") /\ UNCHANGED <<op, tgt, pay, ret, todo, mu, hist>>
  /\ UNCHANGED <<store, now>>

Use(w) ==
  /\ pc[w] = "use"
  /\ LET e == tok[tgt[w]]
     IN \/ e = None /\ Finish(w) /\ UNCHANGED hist
        \/ e # None /\ Expired(e) /\ RevokeInUse(w, "reject")
        \/ e # None /\ ~Expired(e) /\ e.numUses = 0 /\ Serve(w)
        \/ e # None /\ ~Expired(e) /\ e.numUses = 1 /\ RevokeInUse(w, "serve")
        \/ /\ e # None /\ ~Expired(e) /\ e.numUses > 1
           /\ te' = [te EXCEPT ![w] = Spend(e)]
           /\ Goto(w, "use_put") /\ UNCHANGED <<op, tgt, pay, ret, todo, mu, hist>>
  /\ UNCHANGED <<store, now>>

UsePut(w) == /\ pc[w] = "use_put"
             /\ tok' = [tok EXCEPT ![tgt[w]] = te[w]]
             /\ Serve(w)
             /\ UNCHANGED <<acc, lost, lease, cub, now>>

------------------------------------------------------------------------------
(* tokenStore.revoke, then what its caller does. *)

RvGet_TokenFirst(w) == /\ pc[w] = "rv_get"
                       /\ On(w, "rv_tok")
                       /\ UNCHANGED <<store, now, hist>>

RvGet(w) == /\ pc[w] = "rv_get"
            /\ On(w, IF tok[tgt[w]] = None THEN "rv_tok" ELSE "rv_acc")
            /\ UNCHANGED <<store, now, hist>>

\* revoke ignores the error of the accessor's Delete and goes on to the token.
RvAcc(w) == /\ pc[w] = "rv_acc"
            /\ \/ acc' = acc \ {tgt[w]} /\ UNCHANGED lost
               \/ /\ Cardinality(lost) < MaxLost
                  /\ lost' = lost \cup {tgt[w]} /\ UNCHANGED acc
            /\ On(w, "rv_tok")
            /\ UNCHANGED <<tok, lease, cub, now, hist>>

DeleteToken(w) == /\ pc[w] = "rv_tok"
                  /\ tok' = [tok EXCEPT ![tgt[w]] = None]
                  /\ dead' = dead \cup {tgt[w]}
                  /\ UNCHANGED <<acc, lost, lease, cub, now>>

\* The token had expired: use() returns (nil, nil), the request is refused.
RvReject(w) == /\ ret[w] = "reject" /\ DeleteToken(w) /\ Finish(w)
               /\ UNCHANGED <<minted, known, served, revealed>>

\* That was the last use: it is allowed.
RvServe(w) ==
  /\ ret[w] = "serve" /\ DeleteToken(w)
  /\ served' = [served EXCEPT ![tgt[w]] = IF @ < MaxServed THEN @ + 1 ELSE @]
  /\ IF First(op[w]) = "idle" THEN Finish(w)
     ELSE /\ Goto(w, First(op[w])) /\ ret' = [ret EXCEPT ![w] = "purge"]
          /\ UNCHANGED <<op, tgt, te, pay, todo, mu>>
  /\ UNCHANGED <<minted, known, revealed>>

\* Core.revokeToken and revokeLocked go on to purge the cubbyhole.
RvPurge(w) == /\ ret[w] = "purge" /\ DeleteToken(w) /\ On(w, "purge")
              /\ UNCHANGED <<minted, known, served, revealed>>

AcGet(w) == /\ pc[w] = "ac_get"
            /\ IF tgt[w] \in acc /\ tok[tgt[w]] # None
               THEN On(w, "rv_get") ELSE Finish(w)
            /\ UNCHANGED <<store, now, hist>>

Reveal(p) == revealed' = [revealed EXCEPT ![p] = IF @ < 2 THEN @ + 1 ELSE @]

\* cubby.Purge; then revokeLocked removes the lease, unwrap returns the
\* payload, rewrap mints the token that replaces the old one.
Purge(w) ==
  /\ pc[w] = "purge"
  /\ cub' = [cub EXCEPT ![tgt[w]] = None]
  /\ \/ /\ mu = w /\ On(w, "rm_lease") /\ UNCHANGED hist
     \/ /\ mu # w /\ op[w] \in {"revoke", "revokeSelf", "revokeAcc"}
        /\ Finish(w) /\ UNCHANGED hist
     \/ /\ mu # w /\ op[w] \in {"unwrap", "unwrapSelf"}
        /\ Finish(w) /\ Reveal(pay[w])
        /\ UNCHANGED <<minted, known, dead, served>>
     \/ /\ mu # w /\ op[w] = "rewrap"
        /\ \E t \in Tokens : Mint(t, WrapEntry) /\ Keep(w, t, WrapEntry)
        /\ Goto(w, "mk_tok") /\ UNCHANGED <<op, pay, ret, todo, mu>>
  /\ UNCHANGED <<tok, acc, lost, lease, now>>

------------------------------------------------------------------------------
(* The lease manager, under em.mu. *)

\* Lock em.mu, then load the lease or list them all.
Lock(w) ==
  /\ pc[w] = "lock" /\ mu = None
  /\ \/ /\ op[w] \in BulkOps
        /\ mu' = w /\ Goto(w, "pick")
        /\ todo' = [todo EXCEPT ![w] = lease]
        /\ UNCHANGED <<op, tgt, te, pay, ret>>
     \/ /\ op[w] = "leaseRevoke" /\ tgt[w] \in lease
        /\ mu' = w /\ Goto(w, "rv_get")
        /\ UNCHANGED <<op, tgt, te, pay, ret, todo>>
     \/ /\ op[w] = "leaseRenew" /\ tgt[w] \in lease /\ minted[tgt[w]].renewable
        /\ mu' = w /\ Goto(w, "rn_get")
        /\ UNCHANGED <<op, tgt, te, pay, ret, todo>>
     \/ /\ op[w] \in LeaseOps /\ tgt[w] \notin lease
        /\ Finish(w)
     \/ /\ op[w] = "leaseRenew" /\ tgt[w] \in lease /\ ~minted[tgt[w]].renewable
        /\ Finish(w)
  /\ UNCHANGED <<store, now, hist>>

\* Lease t of a bulk operation: go to barrier operation l for it.
Visit(w, t, l) == /\ todo' = [todo EXCEPT ![w] = @ \ {t}]
                  /\ Goto(w, l)
                  /\ tgt' = [tgt EXCEPT ![w] = IF l = "pick" THEN None ELSE t]
                  /\ UNCHANGED <<op, te, pay, ret, mu>>

\* An expired token's lease is dropped without revoking the token.
ScanLease_DropsLease(w, t) ==
  \/ tok[t] # None /\ ~Expired(tok[t]) /\ Visit(w, t, "pick")
  \/ tok[t] # None /\ Expired(tok[t]) /\ Visit(w, t, "rm_lease")
  \/ tok[t] = None /\ Visit(w, t, "rm_lease")

\* The scan stops at the first token that has not expired.
ScanLease_StopsEarly(w, t) ==
  \/ tok[t] # None /\ ~Expired(tok[t]) /\ Finish(w)
  \/ tok[t] # None /\ Expired(tok[t]) /\ Visit(w, t, "rv_get")
  \/ tok[t] = None /\ Visit(w, t, "rm_lease")

\* scanOnce looks the token up: it revokes an expired one and drops the
\* dangling lease of one that is gone.
ScanLease(w, t) ==
  \/ tok[t] # None /\ ~Expired(tok[t]) /\ Visit(w, t, "pick")
  \/ tok[t] # None /\ Expired(tok[t]) /\ Visit(w, t, "rv_get")
  \/ tok[t] = None /\ Visit(w, t, "rm_lease")

\* The next lease of revokePrefix (every lease id starts with
\* auth/token/create/, so they all match) or of scanOnce.
Pick(w) ==
  /\ pc[w] = "pick"
  /\ \/ todo[w] = {} /\ Finish(w)
     \/ \E t \in todo[w] : \/ op[w] = "scan" /\ ScanLease(w, t)
                           \/ op[w] = "revokePrefix" /\ Visit(w, t, "rv_get")
  /\ UNCHANGED <<store, now, hist>>

RmLease(w) == /\ pc[w] = "rm_lease"
              /\ lease' = lease \ {tgt[w]}
              /\ NextLease(w)
              /\ UNCHANGED <<tok, acc, lost, cub, now, hist>>

------------------------------------------------------------------------------
(* tokenStore.renew, from auth/token/renew(-self) or, under em.mu, from    *)
(* sys/leases/renew.                                                       *)

\* A token that is missing is made again from what its lease says.
RnGet_FromLease(w) ==
  /\ pc[w] = "rn_get"
  /\ LET e == IF mu = w THEN minted[tgt[w]] ELSE tok[tgt[w]]
     IN \/ e = None /\ Finish(w)
        \/ e # None /\ (e.expire = 0 \/ ~e.renewable) /\ Finish(w)
        \/ /\ e # None /\ e.expire # 0 /\ e.renewable
           /\ \E inc \in Incs : te' = [te EXCEPT ![w] = Renewed(e, inc)]
           /\ Goto(w, "rn_put") /\ UNCHANGED <<op, tgt, pay, ret, todo, mu>>
  /\ UNCHANGED <<store, now, hist>>

RnGet(w) ==
  /\ pc[w] = "rn_get"
  /\ LET e == tok[tgt[w]]
     IN \/ e = None /\ mu = w /\ On(w, "rm_lease")
        \/ e = None /\ mu # w /\ Finish(w)
        \/ e # None /\ (e.expire = 0 \/ ~e.renewable) /\ Finish(w)
        \/ /\ e # None /\ e.expire # 0 /\ e.renewable
           /\ \E inc \in Incs : te' = [te EXCEPT ![w] = Renewed(e, inc)]
           /\ Goto(w, "rn_put") /\ UNCHANGED <<op, tgt, pay, ret, todo, mu>>
  /\ UNCHANGED <<store, now, hist>>

RnPut(w) == /\ pc[w] = "rn_put"
            /\ tok' = [tok EXCEPT ![tgt[w]] = te[w]]
            /\ IF mu = w THEN On(w, "rn_lease") ELSE Finish(w)
            /\ UNCHANGED <<acc, lost, lease, cub, now, hist>>

RnLease(w) == /\ pc[w] = "rn_lease"
              /\ lease' = lease \cup {tgt[w]}
              /\ Finish(w)
              /\ UNCHANGED <<tok, acc, lost, cub, now, hist>>

------------------------------------------------------------------------------
(* tokenStore.create, registerToken and, for a wrapping token, the writes  *)
(* of the payload and its wrapinfo.  The id reaches the client last.       *)

\* The id is read after the request's locals are gone.
Deliver_AfterFinish(w) == /\ Finish(w)
                          /\ known' = known \cup {tgt'[w]}
                          /\ UNCHANGED <<minted, dead, served, revealed>>

Deliver(w) == /\ known' = known \cup {tgt[w]}
              /\ Finish(w)
              /\ UNCHANGED <<minted, dead, served, revealed>>

MkTok(w) == /\ pc[w] = "mk_tok"
            /\ tok' = [tok EXCEPT ![tgt[w]] = te[w]]
            /\ On(w, "mk_acc")
            /\ UNCHANGED <<acc, lost, lease, cub, now, hist>>

\* Only renewable tokens are leased.
MkAcc_RenewableOnly(w) == /\ pc[w] = "mk_acc"
                          /\ acc' = acc \cup {tgt[w]}
                          /\ IF te[w].expire = 0 \/ ~te[w].renewable
                             THEN Deliver(w)
                             ELSE On(w, "mk_lease") /\ UNCHANGED hist
                          /\ UNCHANGED <<tok, lost, lease, cub, now>>

MkAcc(w) == /\ pc[w] = "mk_acc"
            /\ acc' = acc \cup {tgt[w]}
            /\ IF te[w].expire = 0 THEN Deliver(w)
               ELSE On(w, "mk_lease") /\ UNCHANGED hist
            /\ UNCHANGED <<tok, lost, lease, cub, now>>

MkLease(w) == /\ pc[w] = "mk_lease"
              /\ lease' = lease \cup {tgt[w]}
              /\ IF op[w] \in {"wrap", "rewrap"}
                 THEN On(w, "mk_cub") /\ UNCHANGED hist
                 ELSE Deliver(w)
              /\ UNCHANGED <<tok, acc, lost, cub, now>>

\* A payload is named by the wrapping token it was first stored under.
MkCub(w) == /\ pc[w] = "mk_cub"
            /\ cub' = [cub EXCEPT ![tgt[w]] = IF op[w] = "wrap" THEN tgt[w]
                                              ELSE pay[w]]
            /\ Deliver(w)
            /\ UNCHANGED <<tok, acc, lost, lease, now>>

------------------------------------------------------------------------------
(* cubbyhole/ writes, unwrap and rewrap. *)

\* The client writes its cubbyhole, under "response" or under another key.
CbPut(w) == /\ pc[w] = "cb_put"
            /\ \/ cub' = [cub EXCEPT ![tgt[w]] = tgt[w]]
               \/ cub' = [cub EXCEPT ![tgt[w]] = IF @ = None THEN Plain ELSE @]
            /\ Finish(w)
            /\ UNCHANGED <<tok, acc, lost, lease, now, hist>>

UnGet(w) == /\ pc[w] = "un_get"
            /\ LET e == tok[tgt[w]]
               IN \/ e # None /\ e.wrap /\ On(w, "un_read")
                  \/ e # None /\ ~e.wrap /\ Finish(w)
                  \/ e = None /\ Finish(w)
            /\ UNCHANGED <<store, now, hist>>

\* unwrap returns the payload and leaves the wrapping token in place.
ReadPayload_Peek(w) ==
  /\ Finish(w)
  /\ IF cub[tgt[w]] \notin {None, Plain}
     THEN Reveal(cub[tgt[w]]) /\ UNCHANGED <<minted, known, dead, served>>
     ELSE UNCHANGED hist
  /\ UNCHANGED <<store, now>>

\* Read cubbyhole/response of the token.  unwrap has looked the token up and
\* refused one without the wrapping policy; rewrap has looked at nothing, so
\* that it wraps what a client stored under "response" itself.
ReadPayload(w) ==
  /\ IF cub[tgt[w]] \notin {None, Plain}
     THEN /\ pay' = [pay EXCEPT ![w] = cub[tgt[w]]]
          /\ Goto(w, "rv_get")
          /\ UNCHANGED <<op, tgt, te, ret, todo, mu>>
     ELSE Finish(w)
  /\ UNCHANGED <<store, now, hist>>

UnRead(w) == pc[w] = "un_read" /\ ReadPayload(w)

RwRead(w) == pc[w] = "rw_read" /\ ReadPayload(w)

------------------------------------------------------------------------------
Tick == /\ now < MaxNow
        /\ now' = now + 1
        /\ UNCHANGED <<store, mu, local, hist>>

\* The process dies and is started and unsealed again: the barrier's
\* contents survive, the goroutines and em.mu do not.
Crash == /\ pc' = [w \in Workers |-> "idle"] /\ op' = [w \in Workers |-> None]
         /\ tgt' = [w \in Workers |-> None]  /\ te' = [w \in Workers |-> None]
         /\ pay' = [w \in Workers |-> None]
         /\ ret' = [w \in Workers |-> "purge"]
         /\ todo' = [w \in Workers |-> {}]
         /\ mu' = None
         /\ UNCHANGED <<store, now, hist>>

Arrive(w) == \/ BeginSelf(w) \/ BeginAdmin(w) \/ BeginLease(w)
             \/ BeginBulk(w) \/ BeginMint(w)

Step(w) == \/ Use(w) \/ UsePut(w)
           \/ RvGet(w) \/ RvAcc(w) \/ RvReject(w) \/ RvServe(w) \/ RvPurge(w)
           \/ AcGet(w) \/ Purge(w) \/ Lock(w) \/ Pick(w) \/ RmLease(w)
           \/ RnGet(w) \/ RnPut(w) \/ RnLease(w)
           \/ MkTok(w) \/ MkAcc(w) \/ MkLease(w) \/ MkCub(w)
           \/ CbPut(w) \/ UnGet(w) \/ UnRead(w) \/ RwRead(w)

Next == Tick \/ \E w \in Workers : Arrive(w) \/ Step(w)

Spec == Init /\ [][Next]_vars

CrashSpec == Init /\ [][Next \/ Crash]_vars

\* Goroutines keep running, a waiter gets em.mu in the end (sync.Mutex does
\* not starve), and the ticker of the background revoker keeps firing.
Revokers == {w \in Workers : May[w] = {"scan"}}

FairSpec == /\ Spec
            /\ \A w \in Workers : SF_vars(Step(w))
            /\ \A w \in Revokers : WF_vars(BeginBulk(w))

------------------------------------------------------------------------------
(* Properties. *)

StoreOK == /\ tok \in [Tokens -> Entry \cup {None}]
           /\ acc \subseteq Tokens /\ lost \subseteq Tokens /\ lease \subseteq Tokens
           /\ cub \in [Tokens -> Tokens \cup {None, Plain}]
           /\ now \in Nat

LocalOK == /\ mu \in Workers \cup {None}
           /\ pc \in [Workers -> Labels] /\ op \in [Workers -> Ops \cup {None}]
           /\ tgt \in [Workers -> Tokens \cup {None}]
           /\ te \in [Workers -> Entry \cup {None}]
           /\ pay \in [Workers -> Tokens \cup {None}]
           /\ ret \in [Workers -> {"reject", "serve", "purge"}]
           /\ todo \in [Workers -> SUBSET Tokens]

HistOK == /\ minted \in [Tokens -> Entry \cup {None}]
          /\ known \subseteq Tokens /\ dead \subseteq Tokens
          /\ served \in [Tokens -> Nat] /\ revealed \in [Tokens -> Nat]

\* Every variable keeps its type.
TypeOK == StoreOK /\ LocalOK /\ HistOK

\* An accessor record never outlives its token, unless its own Delete failed:
\* create writes it after the token and revoke deletes it before, however
\* requests, the revoker and crashes interleave, so that lookup by accessor
\* meets no other dangling id.
AccessorHasToken == \A t \in acc \ lost : tok[t] # None

\* Renewal never takes a token past its explicit max TTL, even when the
\* entry written back is a stale copy (only the ttl asked for at creation,
\* which create does not cap, may).
ExplicitMaxHolds ==
  \A t \in Tokens :
    tok[t] # None /\ minted[t].maxExpire > 0 /\ tok[t].expire > minted[t].maxExpire
      => tok[t].expire = minted[t].expire

\* A token handed to a client that no revocation has deleted is still
\* stored, and is still indexed by a lease when it expires: no interleaving,
\* scan or crash loses a token the revoker would then never find.
LiveTokenKept ==
  \A t \in known \ dead :
    tok[t] # None /\ (minted[t].expire # 0 => t \in lease)

\* A lease goes only after its token was deleted: dropping the lease first
\* would leave a token no scan ever revokes.
LeaseGoesLast == [][lease \ lease' \subseteq dead]_vars

\* No worker is between two barrier operations.
Quiet == \A w \in Workers : pc[w] = "idle"

\* Between requests the three records of a token agree: a stored token has
\* its accessor, a missing one does not (its Delete having worked), and a
\* token that expires has a lease.
RecordsAgree ==
  Quiet => /\ \A t \in known \ lost : tok[t] # None <=> t \in acc
           /\ \A t \in known : tok[t] # None /\ tok[t].expire # 0 => t \in lease

\* unwrap reveals a payload exactly once, also through rewraps
\* (USER_GUIDE, keephippo unwrap).
UnwrapOnce == \A t \in Tokens : revealed[t] <= 1

\* "destroyed on token revoke" (API_COMPAT): a token that is gone leaves no
\* cubbyhole behind between requests.
CubbyholeDies == Quiet => \A t \in dead : tok[t] = None => cub[t] = None

\* No worker is about to store an entry of t that it holds in memory.
Unheld(t) == \A w \in Workers :
               pc[w] \in {"mk_tok", "use_put", "rn_put"} => tgt[w] # t

Gone(t) == t \in dead /\ tok[t] = None /\ Unheld(t)

\* A revocation that catches no use or renewal of the token between its read
\* and its write is final: no request, lease renewal or scan that starts
\* later, no crash, stores the token again ("destroying it", USER_GUIDE,
\* keephippo token revoke; one that does catch such a request is not final).
RevokedStaysGone == [][\A t \in Tokens : Gone(t) => Gone(t)']_vars

\* The revoker removes every record of an expired token it has a lease for,
\* unless a renewal extends it.  (A use-limited token is excepted: a request
\* that loaded it before the scan writes it back after, and no lease is left.)
ExpiredIsSwept ==
  \A t \in Tokens :
    (t \in lease /\ tok[t] # None /\ Expired(tok[t]) /\ tok[t].numUses = 0)
      ~> \/ tok[t] = None /\ t \notin acc \ lost /\ t \notin lease
         \/ tok[t] # None /\ ~Expired(tok[t])

\* Every request ends: no worker waits for em.mu for ever.
RequestsEnd == \A w \in Workers : (pc[w] # "idle") ~> (pc[w] = "idle")

\* One request at a time, the store behaves like the atomic token of TokenLife.
Life == INSTANCE TokenLife WITH
          Limits <- {p.numUses : p \in Params} \cup {0},
          status <- [t \in Tokens |-> IF tok[t] # None THEN "live"
                                      ELSE IF t \in dead THEN "gone" ELSE "unborn"],
          left   <- [t \in Tokens |-> IF tok[t] # None THEN tok[t].numUses ELSE 0]
ImplementsTokenLife == Life!LifeSpec
==============================================================================
