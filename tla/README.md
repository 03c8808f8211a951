# keephippo in TLA+

This directory models keephippo, a Vault-compatible secrets manager, in TLA+:
the server (`src/src/`, Go), its web console (`src/src/web/app.js`) and the
public website with the scripts that build it (`src/scripts`, `src/website`).
The modules say what each part does between two storage operations or two
requests, what may happen when steps interleave, crash, fail half-way or are
answered out of order, and what stays true even so.  TLC checks the modules on
small instances; TLAPS proves their safety properties, and that the token
store implements its abstract specification, for every instance.

Paths below are relative to `src/src/`, those of the website to `src/`;
documents are in `src/docs/`.

## Inventory

| Part | State it keeps | Operations | Touches |
|---|---|---|---|
| token store (`internal/core/tokens.go`, `auth_token.go`) | `core/tokens/*`, `core/accessors/*` in the barrier | create, use, renew, revoke, revoke by accessor, lookups | barrier |
| lease manager (`internal/core/expiration.go`) | `core/leases/*`; `em.mu`, `running`, `stopCh`, `doneCh` | register, lookup, list, renew, revoke, revoke-prefix, scan, start, stop | token store, cubbyhole |
| cubbyhole (`internal/core/cubbyhole.go`, `builtin/logical/cubbyhole`) | `cubbyhole/<token>/*` | get, put, delete, list, purge | barrier |
| wrapping (`internal/core/wrapping.go`) | nothing of its own: a token and its cubbyhole | wrap, unwrap, lookup, rewrap | token store, leases, cubbyhole |
| core lifecycle (`internal/core/core.go`) | `c.mu`, `core/seal-config`, `core/auto-unseal-key` | Initialize, Unseal, AutoUnseal, Seal, ResetUnseal, status | barrier, seal, mounts, audit, leases |
| seal (`internal/seal`) | shares submitted so far | split, submit, reset; wrap and unwrap by a KMS | - |
| barrier (`internal/barrier`) | keyring on disk, key in memory, `sealed` | initialize, unseal, seal, get, put, delete, list | physical storage |
| request gate (`internal/core/request.go`, `system.go`) | none | sealed check, audit, login, use, authorize, dispatch | everything |
| mounts and auth methods (`internal/core/mounts.go`, `auth.go`) | persisted tables, routers in memory | enable, disable, remount, tune, match | barrier |
| audit (`internal/core/audit.go`, `internal/audit`) | salt, device table, broker | enable, disable, log request, log response | barrier, files |
| policies (`internal/policy`, `internal/core/policy_store.go`) | policy texts | parse, compile, decide | barrier |
| KV, transit, TOTP engines (`builtin/logical`) | their mount's storage view | versions, check-and-set, key rotation | storage view |
| AppRole, userpass, cert (`builtin/credential`) | roles, secret ids, users | login | storage view |
| identity (`internal/core/identity.go`) | entities, aliases, groups | resolve on login, CRUD | barrier |
| HTTP layer, CLI, API client, doc generator | none | translate | core |
| web console (`web/app.js`) | a tab: `token`, `version`, the page; the browser: `localStorage` | load, unseal, sign in and out, seven screens | HTTP API, other tabs through `localStorage` |
| website (`scripts/*.mjs`, `website/downloads.js`, `.github/workflows`) | committed pages, `versions.json`, what is published | commit, release, build, deploy, draw the downloads page | GitHub |

What makes it hard.  `HandleRequest` holds no lock (`request.go:21-27`): every
barrier operation is atomic, and nothing larger is, except what `em.mu` (lease
operations) and `c.mu` (mount tables and lifecycle) cover.  A handler is a
chain of reads and writes that any other request, the background revoker, a
seal or a crash may cut.

The console's page is single-threaded, and yet every handler stops at its
`await`: the user goes on clicking, other answers come first, another tab
changes `localStorage`, and the handler then finds its elements by id in
whatever is on the page.  The website is built by a workflow that may fail at any
step, for a commit that may no longer be the last, from a release list that may
not be available, on top of the pages that are committed.

`PROJECT.json` lists under `hazards` where that bites, line by line.

## Modules

| Module | Models |
|---|---|
| `TokenLife` | Abstract: a token id is issued once, spends its uses, retires for ever. |
| `TokenStore` | Token store, lease manager, cubbyhole, wrapping: one action per barrier operation, any number of workers, crashes. |
| `TokenStoreProofs` | The theorems about `TokenStore` under any interleaving. |
| `TokenSerialProofs` | The theorems about `TokenStore` when requests come one at a time, and the finality of revocations. |
| `MCTokenStore` | Instances: serial, concurrent, sweep, and two disagreements. |
| `SealLifecycle` | Initialize, Unseal, AutoUnseal, Seal, reset; the revoker's goroutines; the gate a request passes and the audit records it leaves; storage errors; crashes. |
| `SealLifecycleProofs` | The theorems about `SealLifecycle`. |
| `MCSealLifecycle` | Its instance. |
| `KvV2` | One key of the KV v2 engine: versions, check-and-set, pruning, soft and hard deletion; one action per storage operation, crashes. |
| `KvV2Proofs` | The theorems about `KvV2`. |
| `MCKvV2` | Its instances. |
| `MountTable` | Secret and auth mount tables, routers and storage views under commands, failed writes, seals, crashes. |
| `MountTableProofs` | The theorems about `MountTable`. |
| `MCMountTable` | Its instance. |
| `WebSession` | A browser's tabs: page load, unsealing, signing in and out; requests, their answers in any order, and the server behind them. |
| `WebConsole` | Extends it by the screens and what is on the page; the whole console. |
| `MCWebConsole` | Eleven situations of one or two tabs. |
| `WebConsoleProofs` | The theorems about the console's session. |
| `WebScreenProofs` | The theorems about its screens. |
| `Website` | Commits, releases, the deploy and release workflows, both build scripts, the downloads page. |
| `MCWebsite` | Its instance. |
| `WebsiteProofs` | The theorems about the site. |

### TokenStore

`tok`, `acc`, `lease`, `cub` are the four records a token owns in storage.
They are keyed by the token: an accessor, a lease id and a storage key are
random or hashed, and one to one with it.  `pc`, `op`, `tgt`, `te`, `pay`,
`ret`, `todo` are a goroutine's position and locals; `te` is the entry it
loaded and will write back, perhaps too late.  `mu` is `em.mu`.

A handler becomes a path through the labels.  `Use`/`UsePut` is
`tokenStore.use`; `RvGet`, `RvAcc` and `RvReject`/`RvServe`/`RvPurge` are the
three storage operations of `tokenStore.revoke`, the last named for what the
caller does next (refuse the expired token's request, serve the last use, go on
to purge the cubbyhole); `Lock`, `Pick`, `RmLease` are the lease manager;
`RnGet`, `RnPut`, `RnLease` renewal; `MkTok`, `MkAcc`, `MkLease`, `MkCub`
creation, whose id reaches a client (`known`) only at the end; `UnGet`,
`UnRead`, `RwRead` unwrap and rewrap.  Rewrap reads `cubbyhole/response` of any
token, looking nothing up, so it wraps what a client itself stored under that
key; `Plain` is a cubbyhole that only has entries under other keys.  `RvAcc` may
fail: `revoke` ignores the error and deletes the token (`tokens.go:209`).
`minted`, `known`, `dead`, `served`, `revealed`, `lost` (accessors whose deletion
failed, at most `MaxLost`) are history: no guard of a handler reads them but for
`minted`, where it stands for fields that never change (a lease's `renewable`) or
for the freshness of `randToken`, and for the bound.

Abstractions: the administrator's own token is a root token, whose `use()`
changes nothing; the two entries of a wrapping cubbyhole (payload and wrapinfo)
are one; the listing and deleting of a cubbyhole is one step; a policy is only
"wrapping or not"; `revoke-accessor`'s two reads are one.  Other storage errors
are left out here (they are in `SealLifecycle`), among them the one at which a
scan gives up (`expiration.go:275`); lookups too.

### SealLifecycle

`ring`, `config`, `autoKey`, `devices` are on disk; `sealed`, `progress`,
`router`, `broker` in memory; `cmu` is `c.mu`; `running`, `cur`, `stopped`,
`loop`, `emu` are the revoker: each start makes a goroutine with a channel of
its own, and a stop closes that channel and waits for that goroutine.  Share
`0` is a share of no root key; `1..n` are the genuine ones.  `kind` chooses
between a Shamir and an auto-unsealed server.  A request runs with the root
token and is a write to a mount, `sys/seal` or the enabling of an audit device.
`Fail` lets a storage operation fail at any step of the lifecycle handlers: the
call returns, and what was done stays.  `EaLock` may also be refused, or undone
because its device or its write failed, and may panic where the device table was
never loaded; the HTTP server recovers, and the deferred unlock runs.

A request ends as `HandleRequest` does: its answer, an error's too, goes through
`auditResponse` (`RqResp`), which either has a device that records it, or one that
cannot and withholds it, or no broker with the device and skips it; then it is
sent (`RqSend`).  `owed` is the records skipped although a device is enabled.  (A
panic goes around `auditResponse`.)

### KvV2

`md`, `data`, `cfg` are `metadata/<path>`, `versions/<path>/<n>` and `config` in
the engine's storage view; a version is `"none"`, `"live"`, `"deleted"`
(`DeletionTime` set) or `"destroyed"`.  Keys share nothing but the config, which
any worker may change, so there is one key.  `loc` is the metadata a worker
loaded and will save, perhaps over somebody else's.  A write goes `GetWrite`,
`Cas` (the config read and the comparison), `Put`, `Cap` (the second config
read), `Evict` once per pruned version, `Save`; a metadata write joins at `Cap`.
Delete and undelete are a read and a save; destroy deletes the data in between,
purge does so and then drops the metadata.  The code deletes in the order of the
list, or of a Go map; the model takes any order.  `keep`, `trash`, `acked`,
`gone`, `wins` are history.  The workers that serve are chosen at the start
(`crew`): one, and requests come one at a time, or two.  `Delete` may fail: the
code ignores its errors in all three places (`kv_v2.go:201`, `276`, `324`); `stuck`
is the payloads that stayed, at most `MaxStuck`.  Left out: custom metadata,
timestamps, listing, other storage errors.

### MountTable

`disk` is `core/mounts` and `core/auth`; `table`, `router` what is in memory;
`data` every secret with its view, layout and relative path; `mu` is `c.mu`.
A command is one step, because it holds the lock and does one write; clearing a
disabled mount is one step per key, since requests that matched the mount earlier
run on (`Match` under the lock, `Put` without it), and a crash or an error may
cut it.  `Unseal` may fail at a read before or after the mounts are built: the
barrier stays open with what was read (`SetUp`), and `loaded` says which tables are
not nil.  A secret is one storage entry; what an engine does with several is in
`KvV2`.  A path is a sequence of segments, so a prefix of it is what
`longestPrefixMount` takes for one.  Of the options only `version` is kept; the
`kv` type stands for the other engines, which have none.  Authorization and the
split of `auth/` from other paths come before (`k` says which router).

### WebSession and WebConsole

`flight[t]` is the requests tab `t` has under way, each with the token it was sent
with and, once it is there, its answer; a slot is a JavaScript activation that
waits at an `await`.  An event handler up to its first request is one action
(`SubmitToken`, `LoadPolicy`), what it does with the answer another (`TokenAccepted`,
`LoginFailed`, `PolicyLoaded`), and the server's answer a third (`ServeLookup`).
`stored` is `localStorage`, `token` the page's copy, `screen` the section that is
not hidden.  `dom` is what is on the page: the cards with what their lists show,
the policy editor's two fields and whether the user typed the name (`EditPolicy`
types in either), the number of listeners on Create, the result shown, and how many
console lines were asked and answered.  A handler writes into
the first element that has its id, or fails where there is none, as
`$("#id")` does; the console alone keeps its element (`Detached`).

`world`, chosen at the start, is the situation: how many tabs, what the user
waits for ("patient": every answer; "browsing": every answer, but changes
screens; "hasty": nothing), and what goes wrong (the server starts sealed, gets
sealed, revokes tokens, refuses requests, lookup-self among them, or answers get
lost).  `accepted`, `signedOut`, `refused` and `renamed` (policies saved under a
typed name) are history.

A token that a login makes has a lease (`ServeLogin`), of the token's own name, and
so may one that was there before; the Leases screen lists them beside those of the
tokens made on the screens (`Leases`).  Revoking a lease revokes its token
(`ServeRevoke`), the session's own too, from any screen on which a late answer has
drawn the list (`RevokeLease`); a token that others revoke loses its lease at once
or later (`LoseToken`).

Abstractions: a policy text, a secret and a listing are single values; requests go
with a token that has every capability or none (`Works`); HTML, escaping, form
fields other than the policy editor's, and the login methods' differences are left
out.  A typed policy name is one of the names there are; a new one would only make
the list longer.  The two handlers of one click on Create send their requests in one step.

### Website

`main` is the commits, each with a guide and with the pages and `versions.json`
that were committed; `pending` is the one deployment that GitHub keeps waiting,
`run` the one under way with its working tree, `site` what is published; `due` is
the releases whose workflow has yet to dispatch the deployment.  A guide is a
sequence of headings and a heading a sequence of words, so that `Slugify` can map
two headings to one page; a file name is a sequence of words, so that `ParseAsset`
can find a system and a processor in it.  A page records the commit it was built
from, and its navigation; links in the text of a section are left out.  `Built`
never removes a page, as `build-docs.mjs` does not.  Triggers come in the order of
the commits, and nobody runs an old deployment again.  `flaky`
chooses whether workflow steps may fail.

## Runs

| Run | Question | Bounds |
|---|---|---|
| `token_serial` | One request at a time, does the store behave like `TokenLife`, and do its records agree? | 2 tokens (rewrap needs two), clock 0..2, 1 worker that also scans, 1 failed accessor deletion |
| `token_concurrent` | What holds however requests, the revoker and crashes interleave? | 1 token, 2 requests and the revoker, clock 0..2, 1 failed accessor deletion; no client writes its cubbyhole |
| `token_sweep` | Does everything of an expired token go, does every request end? | 2 tokens, 1 client and the revoker, 1 failed accessor deletion |
| `unwrap_race`, `cubbyhole_leak` | Documented promises the code breaks. | 1 token |
| `seal_lifecycle` | Does a server whose lifecycle calls race end up sealed or serving, with one revoker, opened by a quorum? | 2 workers, 2 shares of 2, 2 revoker goroutines, both seals, 1 storage error, crashes |
| `audit_gap` | A documented promise the code breaks. | the same, Shamir only, no storage error |
| `kv_v2` | Do versions, their data and crashes agree; does destroyed data stay gone under concurrency? | 3 writes one at a time, 2 with two workers; limit 2, tuned to 1; version lists {}, {1}, {1,2}; 1 failed deletion |
| `kv_cas_race` | A documented promise the code breaks. | 2 writes |
| `mount_table` | Do table, disk and router agree after any commands, failed writes and restarts; does a mount only see its own data? | 3 secret paths (the cubbyhole's, one nested in it, one beside), 1 auth path, 2 uuids, 2 writes, 1 storage error |
| `web_console` | Does the session survive answers in any order, reloads, other tabs and a server that fails; do the screens tell the truth? | 2 tabs of 1 token or 1 tab of 2, 2 requests under way, 2 shares, 2 policies, 2 leases, 2 console lines; eleven worlds |
| `website` | Do deployments publish everything, in order, with whole guides and live links? | 2 commits, 3 guides, 2 releases |

Why the bounds are enough.  Tokens share nothing but `em.mu`, so one token
shows every interleaving on its records; two are needed where a rewrap moves a
payload, and where a scan that fails on one lease would miss another.  Clock
values 0..2 give a token (ttl 1) a time when it is valid, a time when it has
expired and, renewed by 2 with an explicit max of 2, a time when the cap bites.
`num_uses` 2 has a use that persists and a use that revokes.  `MaxServed` (3)
is one more than a token may serve.  Two workers suffice for races on `c.mu`
and for two Seals; a third revoker goroutine would need a third worker that
waits.  Two of two shares has a state below the threshold, one at it, and room
for a repeated and for a foreign share.  Three KV versions under a limit of 2
prune one version by a write, and a limit tuned to 1 prunes two in one request.
Two uuids allow a mount to be replaced at its path, and two mounts one within the
other; a third mount would be beside them.  Two requests of one page under way
show every pair of answers out of order; the eleven worlds combine what a property
tells apart (for each fault the screens or session steps it can hurt), since all
faults on all screens at once are beyond TLC.  A console line is a well-formed
`kv put` or a malformed `write`.  The three guides lose a section, have a heading
without text, and have two headings of one slug; the second release spells system
and processor the other way.  Two commits and two releases put a deployment under
way, one waiting and a newer trigger.

Fairness (`FairSpec`).  Goroutines keep running and Go's mutexes do not starve
(strong fairness of each worker's steps, which wait for a mutex others take and
release); the ticker fires again and again (weak fairness of the revoker's
start); a `select` between a closed channel and a tick takes the closed channel
in the end (strong fairness of `Exit`).  No fairness for arrivals, crashes,
errors and the clock.  The console: a request is answered and an answer handled
(weak fairness of `Proceed` per tab: fetch and the event loop; a lost answer is
an answer, a rejected promise), and a page that was told to reload does.  The
website: a published release's workflow gets to its last step, and deployments
start and go on (weak fairness, GitHub's runners); failures are no obstacle to
fairness, since they end the deployment, and the property is about worlds without.

Deadlock is checked in every run but `website`, where commits and releases are
bounded and nothing is left to do when all are published.

### What the violations show

- `cubbyhole_leak`: a token that `use()` itself revokes keeps its cubbyhole for
  ever (`tokens.go:162`, `168`; `expiration.go:280`).
- `unwrap_race`: two unwraps read the payload before either revokes the token
  (`wrapping.go:100`).
- `audit_gap`: a request that arrives while `finishUnseal` builds the broker is
  worked on without its record (`core.go:222`, `audit.go:174`), against
  `request.go:31`; as a rule its response is recorded then, the broker being there.
  In the trace it is not: the request seals the server, a new Unseal is building
  another broker when `auditResponse` looks (`audit.go:193`), and the response
  leaves with neither record, against `SECURITY.md:39`.
- `kv_cas_race`: two writes with one `cas` both pass (`kv_v2.go:162`) and both
  are acknowledged as the same version.

What the passing runs show beside this.  Data written through a mount that is
being disabled may stay in storage for ever (a late write, a crash, an ignored
error of `clearPrefix`), and `OwnDataOnly` says that no request is answered with
it.  The built-in cubbyhole can be disabled or moved like a mount, until the next
unseal brings it back over whatever is at its path then; `TableRouted` excepts
that path and no other.  A tune of `version` changes the entry, which the
preflight reports, and not the backend, until the next unseal (`Tune`,
`mounts.go:115`).  Concurrent uses of one token may lose a decrement
(`tokens.go:165`): `ImplementsTokenLife` holds of serial requests.

A revocation is final only if it catches no use or renewal between its read and
its write (`tokens.go:171`, `201`): one that it does catch stores the token again,
unexpired, without accessor, although `docs/USER_GUIDE.md:1124` says of `token revoke`
"Revokes a token immediately, destroying it and its cubbyhole."
`RevokedStaysGone` says that nothing else does: once the token is deleted and no
request holds a copy of it to store, no request, renewal, scan or crash brings it
back.  A failed deletion of an accessor leaves it dangling for ever, and one of KV
data leaves the payload under a version that is destroyed, pruned or purged;
`AccessorHasToken`, `RecordsAgree`, `ExpiredIsSwept` and `NothingLeftBehind` except
exactly those.  `UnwrapOnce` and `RecordsAgree` are checked of serial requests
without a crash, and a payload that a crash in a rewrap loses is lost.

The console.  `SignedInAs`, `SignOutSticks` and `PolicyKeepsText` except a "hasty"
user, rightly: with two logins under way the last answer wins, and a user who
loads one policy, then another, and saves before the second text is there stores
the first text under the second name (`app.js:284-291`).  A user who types a name
stores under it whatever the editor shows, another policy's text too
(`app.js:269`, `289`), so `PolicyKeepsText` is about names that Load put there.  No
user is patient enough for the editor's empty text: a Load that the server refuses,
because it errs or has been sealed, empties it (`app.js:287`), and a Save after the
unsealing stores the empty policy; the last part of `PolicyKeepsText` excepts such
servers, and the world with an unsealing and a seal under way is there to show the
case.  Leaving Tokens and
coming back before its answer attaches two listeners to Create, and one click
makes two tokens; the model takes these steps.  After a revocation the Leases
screen has a second card that loads for ever, below the first, which is right.
Revoking the session's own lease ends the session's token: the listing is refused
then, and the screen shows "No active token leases." (`app.js:328-329`) while the
server has others.  `ShownIsTrue` is about a session whose token is valid.
If boot's first request is lost the page stays blank (`boot` has no `catch`).  A
server sealed between boot's two requests costs the browser its token.

The website.  Two sections with one slug, or one named Index, overwrite each other's
page (`GuideIsWhole` is about guides without); pages of sections that were removed
stay published, and their links stay alive (`LinksResolve`).  While GitHub does
not answer, a deployment publishes an empty release list.

## Proofs

`TokenStoreProofs` proves, for every set of tokens, workers and parameters, and
with crashes (`CrashSpec`):

| Theorem | States |
|---|---|
| `TypeCorrect` | `TypeOK` |
| `AccessorSafe` | `AccessorHasToken` |
| `LiveTokenSafe` | `LiveTokenKept` |
| `LeaseOrder` | `LeaseGoesLast` |
| `ExplicitMaxSafe` | `ExplicitMaxHolds` |

Assumptions: only the `ASSUME`s of `TokenStore` (types of the constants, `None`
is no token, worker or entry), which TLC evaluates in the token runs.

The argument.  `IInv` is the inductive invariant:

- `TypeOK`;
- `TargetInv`: a worker inside a handler has a target, and holds a loaded entry
  where it is about to write one;
- `MintedInv`: what is stored, indexed, leased or handed out was minted;
- `PrivateInv`: an id being created belongs to one worker and nobody else has
  it; this is why a creation needs no lock;
- `AccessorInv`: an accessor's token is stored, unless the accessor's deletion
  failed; a worker about to delete a token has deleted the accessor, or failed to,
  or the token will not come back with it;
- `KeptInv`: a token known and not dead is stored and leased, and a worker that
  will drop its lease has already seen it dead.

Types come first: each later part is proved action by action from the typing of
the state before.  `CappedInv`, for `ExplicitMaxSafe`, also says that every
loaded copy of an entry respects the cap, since a stale copy may be written back.

`TokenSerialProofs` proves, for every set of tokens and parameters:

| Theorem | States | Requests |
|---|---|---|
| `RefinesTokenLife` | `ImplementsTokenLife` | one at a time, crashes |
| `UnwrapsOnce` | `UnwrapOnce` | one at a time, crashes |
| `RecordsSafe` | `RecordsAgree` | one at a time, no crash |
| `UsesSafe` | `UsesBounded`: a token created for `n` uses serves no more | one at a time, crashes |
| `RevocationFinal` | `RevokedStaysGone` | any number of clients and revokers, crashes |

`UsesBounded` follows from the refinement's steps and is stated with its proof; no run
checks it beside the refinement.  `OneAtATime` (there is one worker, which also
scans) is stated about the constants, and the run that checks these has such a
worker.  Without it TLC shows the opposite: two uses of one token lose a decrement,
two unwraps race (`unwrap_race`), and a use or renewal that read before a revocation
writes the token back.  `RevocationFinal` needs no such condition.

The refinement goes step by step (`Outcome`): a creation's `MkTok` is `TokenLife`'s
`Issue`; a `Use` of an unlimited token is `ServeUnlimited`; the write of `UsePut` and the
deletion of `RvServe` are `ServeLimited`, before and at the last use; any other
deletion is `Retire`, or nothing if the id was gone; every other step and a crash is
a stutter.  `SerialInv` carries it: the entry a worker is about
to write is the stored one, spent or renewed, and a creation's token has no record
and is not dead (`CopyOf`); a use is inside a revoke only for an expired token or for
the last use (`RetOf`); and a revoked id has no record (`GoneInv`).
`UnwrapInv` adds that a payload is in one cubbyhole at most, or with the request that
unwraps it, or revealed; `RecordsInv` that a token without its accessor belongs to
the request that is making or deleting it.
For `RevocationFinal` each step is reduced to what it does to the stored entries
(`Effect`): only `mk_tok`, `use_put` and `rn_put` store one, of the worker's own target.
A worker gets there with an entry that it has just read, which a deleted token has not,
or with an id that nobody had (`DeadMinted`: what is dead was minted), so a token that
is gone stays so (`GoneStays`).

`SealLifecycleProofs` proves, for any workers and calls they serve, any number of
revoker loops, shares and thresholds, any number of storage errors, and crashes:

| Theorem | States |
|---|---|
| `TypeOKHolds` | `TypeOK` |
| `UnsealedServesHolds` | `UnsealedServes` |
| `QuorumOpensHolds` | `QuorumOpens` |
| `SharesForgottenHolds` | `SharesForgotten` |
| `OneRevokerHolds` | `OneRevoker` |
| `RoutedWhenBuiltHolds` | `RoutedWhenBuilt` |

Assumptions: the `ASSUME`s of `SealLifecycle` (types of the constants; `None` is no
loop, worker, call or parameter), which TLC evaluates in the run.  The invariant:

- `LockInv`: the worker at a step under `c.mu` is the one that holds it; `AutoInv`:
  AutoUnseal, which opens the barrier without a look at the lock's waiters, is
  alone because the server does not listen yet;
- `RevokerInv`: a live loop that was not told to stop is the one `em.stopCh`
  belongs to, and `em.running` says whether there is one;
- `ShareInv`: kept shares are foreign or were submitted since the last opening,
  and are kept only by a sealed, initialized, listening server; combining `t`
  different genuine ones therefore means that `t` were submitted;
- `HandedInv`: nobody has shares before the seal config is saved;
- `ServeInv`: while storage has not failed, a table under construction has its
  builder, who holds `c.mu`, and an open barrier whose `c.mu` is not held for
  building has its mounts, its device, and a revoker or a Seal that stopped it.

`QuorumOpens`, `SharesForgotten` and `OneRevoker` are read off these;
`UnsealedServes` is `ServeInv` when no call is under way; for `RoutedWhenBuilt`,
dispatchLogical needs `c.mu` free, and a builder holds it.

`KvV2Proofs` proves, for any workers and operations, any limits and number of
writes, and with crashes between any two storage operations:

| Theorem | States |
|---|---|
| `TypeOKHolds` | `TypeOK` |
| `WindowHoldsAlways` | `WindowHolds` |
| `DestroyedIsGoneHolds` | `DestroyedIsGone` |
| `AckedReadableHolds` | `AckedReadable` |
| `NothingLeftBehindHolds` | `NothingLeftBehind` |

Assumptions: the `ASSUME`s of `KvV2`, which TLC evaluates in its runs.  A request
writes back a copy of the metadata that may be stale, so the invariant speaks of
every copy and not only of the stored one:

- `Room` is the number of writes that are past storing their payload, or over;
  `PendingInv` says it is a natural number.  No metadata counts more versions than that, which
  is why a new version's number is at most the number of writes;
- `MetaInv` and `LocalInv`: the stored metadata, and each copy a worker will write
  back, lists exactly the versions from its oldest to its current one, within
  `Room`; a worker about to prune or destroy is about to delete a version it lists;
- `PayloadInv`: a payload is with the write that has not stored it yet, in the data
  of one version, or gone, and never in two of these.

`WindowHolds` is `MetaInv`; `DestroyedIsGone` follows from `PayloadInv` alone: what
stale metadata lists again has no data to show.

The last two are about a crew of one.  `KeepInv` says of the storage that a version
known to be readable is live with its own data, and that acknowledged data has a
version that is live or deleted; `CopyInv` that the copy the one request will save
may replace the stored metadata: what is known to be readable is live in the copy
too, and a version the copy drops or destroys had its data removed first, or its
removal failed.  That order (`Evict` and `Wipe` before `Save`) is what
a crash between the two needs, and `CrewInv` that the other workers stay idle.

`MountTableProofs` proves, for any paths and mounts, any number of workers, writes
and storage errors, with seals and crashes:

| Theorem | States |
|---|---|
| `TypeOKHolds` | `TypeOK` |
| `TableRoutedHolds` | `TableRouted` |
| `RestartKeepsMountsHolds` | `RestartKeepsMounts` |
| `OwnDataOnlyHolds` | `OwnDataOnly` |

Assumptions: the `ASSUME`s of `MountTable` (paths are sequences of names, the
cubbyhole's id is no mount's, `None` is no worker and no request).  The invariant
adds to these that an id belongs to one entry (`IdInv`), and so does a stored path,
the cubbyhole's apart (`PathInv`, needed because Unseal makes the routes from what
is stored); that a table that was not loaded lists nothing (`NilInv`); that a mount's
view is its own (`ViewInv`); and that a secret, stored or still on its way, is in the
view of the mount that served its write (`DataInv`).
`LongestCovers` shows that the longest prefix exists: the lengths of the mount paths
that cover a path are bounded by its own.

`WebConsoleProofs` proves, for any tabs, tokens, screens and worlds, all of `World`
and not only the eleven of the run, and for any value of the bounds:

| Theorem | States |
|---|---|
| `SignedInAsHolds` | `SignedInAs` |
| `SignOutSticksHolds` | `SignOutSticks` |
| `BootKeepsTokenHolds` | `BootKeepsToken` |

Assumptions: the `ASSUME`s of `WebSession` and `WebConsole` (worlds are worlds, and
`None`, `Lost`, `Refused` and the server's words are no tokens), which TLC evaluates
in the run.  The invariant `IInv`: `Shape` and `Types` say what a request and the
session's variables are; `Placed` that boot's request is alone on a page that
shows nothing and that a screen's requests are only under way in the app;
`Orderly` that, for a user who waits, a request belongs to the section shown, a
lookup is of the page's token, and a tab whose user signed out has no login under
way; `Kept` that the only tab of a calm server holds the browser's token and that
a lookup during boot is answered by an unsealed server.  `SignOutSticks` is part
of it.  `Placed` is needed because `Orderly` excepts the hasty user and `Kept`
does not.  The proof reduces a step to the slot it changes (`CallStep`, `DoneStep`,
`AnswerStep`), and only the session's own handlers need more.

`WebScreenProofs` proves, under the same assumptions and in the same generality:

| Theorem | States |
|---|---|
| `TypeOKHolds` | `TypeOK` |
| `EveryLineAnsweredHolds` | `EveryLineAnswered` |
| `PolicyKeepsTextHolds` | `PolicyKeepsText` |
| `ShownIsTrueHolds` | `ShownIsTrue` |

Two `ASSUME`s of `WebConsole` are there for it: no policy is called `""` and no answer
is one of the marks of a failed request (`AnswersAssumption`), and a free slot is no
request (`FreeAssumption`).  Each theorem adds a part to `IInv`:

- `TypeInv`: what a page shows, and that an answer is one that its kind of request
  gets (`RequestOK`); the later parts depend on it in every handler;
- `LinesInv`: lines asked are lines told plus the requests under way that belong to
  the console on the page.  A new page starts both counts at 0 and turns what is
  under way into requests of an old console (`Detached`), so a late answer cannot be
  counted for it;
- `TextsInv`: for the user who waits, the stored text of a policy not in `renamed`
  (saved under a typed name) is its own or edited,
  the editor holds the text of the policy it names or that text is on its way, and a
  text about to be saved was in the editor with that name.  The text may also be
  empty, but only if the token that asked for it is dead, and then the save is
  refused (`Held`): this is where a server that seals had to be excepted, because
  a sealed server refuses a live token;
- `ShowsInv`: a single user who waits has one request under way at most; the first
  card on the page has the server's list of the screen selected, or the request
  brings it (`Renews`); and what is printed is the secret, unless a write is about
  to be read back (`Printed`).  All of that holds while the server accepts the token;
  once it does not (`Refusing`), for good, nothing is said but that the page still
  has at most one request under way.

The proofs treat a handler as a change of one slot, of the page and of the server
(`RenderSlots`, `BootSlots`, `LoginSlots`), so that each handler only has to say what
it asks for and what it draws.

`WebsiteProofs` proves, for any guides, releases and number of commits:

| Theorem | States |
|---|---|
| `SiteNeverGoesBack` | `NeverGoesBack` |
| `NoDeadLinks` | `LinksResolve` |
| `GuideIsWholeHolds` | `GuideIsWhole` |
| `EveryArchiveShownHolds` | `EveryArchiveShown` |

Assumptions: the `ASSUME`s of `Website` (release files and guides are sequences of
words), which TLC evaluates in the run.  `Ordered`
proves that the site's commit, the deployment's, the waiting one and the head of
`main` are in that order, and likewise the releases; that gives
`SiteNeverGoesBack`.  For the links, every set of pages there is (committed, in the
working tree, published) must be closed under the links of its pages: building on
top of such a set keeps it closed because pages are added and never removed.
`WholeInv` says that a tree about to be deployed, and the site, has all the pages of
its commit, whatever older pages it has too (`BuiltWhole`); that a section's page is
then its own is a pigeonhole (`OwnPage`): as many files as sections and an overview
leave no two sections one file.  `ListsInv` says that a release list is always what
the script makes of some release; by `Grouped` such a list has an archive in the
group of its system and in no other.  Both proofs look sections and words up by
their positions (`Sections`, `Match`), the first or the last where the code takes it.

Only model-checked: liveness (`ExpiredIsSwept`, `RequestsEnd`, `CallsReturn`,
`LoadsInTheEnd`, `PublishedInTheEnd`) and the absence of deadlock, since the prover
does not handle `ENABLED`.  All invariants and action properties that the passing
runs check are proved.

## Not modelled

Ciphers and Shamir arithmetic (taken to work), JSON, HCL, Markdown and HTML texts,
HTTP status codes, the CLI and the documentation generator; `website/features.js`,
a static catalogue; the vendored Swagger UI.  TOTP, userpass and certificate login
keep one record and compare: a step-wise model would say what a unit test says.
KV version 1 is one storage operation per request.  The ACL decision is a pure
function of policy texts and a path.  Transit, AppRole and identity read, change
and write back single records without a lock, the pattern `KvV2` and `TokenStore`
show; they, and an audit broker with several devices, would be the next modules.
Storage is a map with atomic operations that survive a crash, as
`internal/physical` makes it.

## Plan

The modules were written in this order: `TokenLife` and `TokenStore`,
`SealLifecycle`, `KvV2`, `MountTable`, then `WebSession`, `WebConsole` and
`Website`, each with its proofs where it has any.  What is left, by weight:

1. `Transit` (key versions under rotate, config and trim), `AppRole` with
   `Identity`, `Audit` (several devices), `PolicyAcl` against a reference.
2. Proofs: that `KvV2`, one request at a time, implements the register of item 3;
   the safety part of what liveness needs (who is always able to move).
3. A versioned register as the abstract specification of one KV key.
