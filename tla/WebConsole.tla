------------------------------ MODULE WebConsole ------------------------------
(***************************************************************************)
(* The web console: WebSession and the screens a signed-in user works      *)
(* with.  A screen is drawn empty and filled when its listing arrives; a   *)
(* handler finds the elements it writes to by their ids at the time it     *)
(* runs, in whatever is on the page then.                                  *)
(***************************************************************************)
EXTENDS WebSession, Sequences, FiniteSets, FiniteSetsExt

CONSTANTS Paths,     \* mount paths
          Names,     \* policy names; at first policy n has the text n
          Leases,    \* leases of the tokens made on the screens
          Lines,     \* console lines, sequences of words
          Pairs,     \* the words of the form key=value
          MaxCards,  \* bound: cards on a page
          MaxLines,  \* bound: console lines of one visit
          Refused    \* the answer of a request that the server refused

ASSUME RefusedAssumption == Refused \notin Tokens \cup {None, Lost}

\* The lease of a token that a session works with has that token's name.
ASSUME LeasesAssumption == Leases \cap Tokens = {}

VARIABLES
  dom,       \* what is on a tab's page (see Rendered)
  mounts,    \* the server's mounts,
  policies,  \* ... policy texts,
  secret,    \* ... one secret,
  leases,    \* ... and token leases
  granted,   \* leases ever granted
  renamed    \* history: policies saved under a name that the user typed

vault == <<mounts, policies, secret, leases, granted, renamed>>
vars  == <<sealed, progress, valid, issued, stored, token, screen, shell,
           leaving, flight, world, accepted, signedOut, refused, dom, mounts,
           policies, secret, leases, granted, renamed>>

Texts == Names \cup {"edited", ""}

\* What the lists of the screens may show.
Contents == {Names, {"self"}, {"devices"}, {"version"}}
              \cup (SUBSET Paths) \cup (SUBSET (Leases \cup Tokens))

\* Policies have names, and what marks a failed request is no answer to one.
ASSUME AnswersAssumption ==
  /\ "" \notin Names
  /\ \A a \in Texts \cup Contents \cup {"old", "new", "absent", "done"} :
       a \notin {None, Lost, Refused}

\* The requests of a page, what they may ask for, and the answers to them.
Kinds   == {"bootStatus", "bootLookup", "appStatus", "loginLookup", "loginCreds", "unseal",
            "list", "enable", "read", "write", "load", "save", "create", "revoke", "line",
            "oldLine"}
Args    == {None, "GET", "PUT", "LIST", "DELETE"} \cup Views \cup Paths \cup Names \cup Nat
             \cup (UNION Contents)
             \cup [name : Names, text : Texts, typed : BOOLEAN]
Replies == {None, Lost, Refused, "sealed", "open", "error", "ok", "no", "more", "old",
            "new", "absent", "done"} \cup Texts \cup Contents \cup Tokens

\* A free slot holds no request.
ASSUME FreeAssumption ==
  None \notin [kind : Kinds, tok : Tokens \cup {None}, arg : Args, ans : Replies]

Loading == None   \* an element that still says "loading..."

------------------------------------------------------------------------------
(* The page. *)

\* A card says what its list shows.
Card(v, known) == [id |-> v,
                   shown |-> IF v = "console" THEN {}
                             ELSE IF v = "about" /\ known THEN {"version"}
                             ELSE Loading]

\* main holds one card and fresh elements: the policy editor's name (typed by the
\* user or put there by Load) and body, the listeners on Create, the answer shown,
\* console lines asked and answered.
Rendered(nav, v, known) ==
  [nav |-> nav, view |-> v, cards |-> <<Card(v, known)>>, name |-> "",
   typed |-> FALSE, body |-> "", hooks |-> 0, out |-> None, asked |-> 0, told |-> 0]

NoPage == [nav |-> "secrets", view |-> "none", cards |-> <<>>, name |-> "",
           typed |-> FALSE, body |-> "", hooks |-> 0, out |-> None, asked |-> 0, told |-> 0]

\* The screens that ask for something when they are drawn.
Asks(v, known) == v # "console" /\ (v = "about" => ~known)

\* An old line's answer is printed into the new console.
Detached_Mistake(calls) == calls

\* What the console prints into left the page; its answers are lost.
Detached(calls) == [r \in Slots |->
  IF calls[r] # None /\ calls[r].kind = "line"
  THEN [calls[r] EXCEPT !.kind = "oldLine"] ELSE calls[r]]

RenderView(t, s, nav, v, known) ==
  /\ dom' = [dom EXCEPT ![t] = Rendered(nav, v, known)]
  /\ flight' = [flight EXCEPT ![t] = [Detached(@) EXCEPT ![s] =
       IF Asks(v, known) THEN Sent("list", token[t], v) ELSE None]]

\* $("#id") is the first of several elements with an id, null without one.
First(d, v) == Min({i \in DOMAIN d.cards : d.cards[i].id = v})

Has(d, v) == \E i \in DOMAIN d.cards : d.cards[i].id = v

\* The tokens screen attaches Create's listener only now.
Filled(d, v, a) ==
  [d EXCEPT !.cards[First(d, v)].shown = a,
            !.hooks = IF v = "tokens" THEN @ + 1 ELSE @]

\* What the first list of screen v shows.
Options(t, v) == IF Has(dom[t], v)
                 THEN LET a == dom[t].cards[First(dom[t], v)].shown
                      IN IF a = Loading THEN {} ELSE a
                 ELSE {}

\* The user of tab t works on screen v.
On(t, v) == /\ screen[t] = "app" /\ dom[t].view = v /\ Ready(t)
            /\ v \in world.visits

Init == /\ InitSession
        /\ dom = [t \in Tabs |-> NoPage]
        /\ mounts = {} /\ policies = [n \in Names |-> n] /\ secret = "old"
        /\ leases \in (IF "leases" \in world.visits THEN SUBSET issued ELSE {{}})
        /\ granted = leases
        /\ renamed = {}

------------------------------------------------------------------------------
(* The session's steps on this page. *)

Reload(t) == /\ UserReload(t) \/ Leave(t)
             /\ dom' = [dom EXCEPT ![t] = NoPage]
             /\ UNCHANGED vault

\* showApp ends with the secrets screen, wherever the user has gone meanwhile.
OpenApp(t, s) == /\ AppOpened(t, s)
                 /\ RenderView(t, s, dom[t].nav, "secrets", shell'[t].version)
                 /\ UNCHANGED vault

\* The session's handlers, user and server.
HandleSession(t, s) ==
  /\ \/ BootSealed(t, s) \/ BootOpen(t, s) \/ BootAccepted(t, s)
     \/ BootRefused(t, s) \/ Unsealed(t, s) \/ ShareTaken(t, s)
     \/ TokenAccepted(t, s) \/ CredentialsAccepted(t, s) \/ LoginFailed(t, s)
     \/ SessionLost(t, s)
  /\ UNCHANGED <<dom, vault>>

UseSession(t, s) ==
  /\ SubmitShare(t, s) \/ SubmitToken(t, s) \/ SubmitCredentials(t, s)
  /\ UNCHANGED <<dom, vault>>

\* A login's token gets a lease.
ServeLogin(t, s) == LET new == issued' \ issued IN
  /\ ServeCredentials(t, s)
  /\ leases' = leases \cup new /\ granted' = granted \cup new
  /\ UNCHANGED <<dom, mounts, policies, secret, renamed>>

ServeSession(t, s) ==
  \/ ServeLogin(t, s)
  \/ /\ \/ ServeStatus(t, s) \/ ServeLookup(t, s)
        \/ ServeShare(t, s) \/ LoseAnswer(t, s)
     /\ UNCHANGED <<dom, vault>>

\* Others revoke a token, and its lease at once or later.
LoseToken == /\ RevokeToken
             /\ leases' \in {leases, leases \cap (Leases \cup valid')}
             /\ UNCHANGED <<dom, mounts, policies, secret, granted, renamed>>

Environment ==
  \/ LoseToken
  \/ /\ OpenServer \/ SealServer \/ \E t \in Tabs : SignOut(t)
     /\ UNCHANGED <<dom, vault>>

------------------------------------------------------------------------------
(* What the user does on the screens. *)

Navigate(t, s, v) ==
  /\ t \in world.tabs /\ ~leaving[t] /\ screen[t] = "app"
  /\ world.manner = "patient" => Quiet(t)
  /\ v \in world.visits /\ Free(t, s)
  /\ RenderView(t, s, v, v, shell[t].version)
  /\ UNCHANGED <<session, server, refused, world, vault>>

\* A click or a line that sends one request with the page's token.
Ask(t, s, v, kind, arg) ==
  /\ On(t, v) /\ Free(t, s)
  /\ Call(t, s, kind, token[t], arg)
  /\ UNCHANGED <<session, server, refused, world, vault>>

EnableMount(t, s) == \E p \in Paths :
  Ask(t, s, "secrets", "enable", p) /\ UNCHANGED dom

ReadSecret(t, s) ==
  Ask(t, s, "secrets", "read", "GET") /\ UNCHANGED dom

WriteSecret(t, s) ==
  Ask(t, s, "secrets", "write", "PUT") /\ UNCHANGED dom

\* Only an empty name field takes the name.
LoadPolicy_Mistake(t, s) == \E n \in Options(t, "policies") :
  /\ Ask(t, s, "policies", "load", n)
  /\ dom' = [dom EXCEPT ![t].name = IF @ = "" THEN n ELSE @, ![t].typed = FALSE]

\* The name field changes at once, the body when the text arrives.
LoadPolicy(t, s) == \E n \in Options(t, "policies") :
  /\ Ask(t, s, "policies", "load", n)
  /\ dom' = [dom EXCEPT ![t].name = n, ![t].typed = FALSE]

\* The user types in the body or in the name field.
EditPolicy(t) ==
  /\ On(t, "policies")
  /\ \/ dom' = [dom EXCEPT ![t].body = "edited"]
     \/ \E n \in Names : dom' = [dom EXCEPT ![t].name = n, ![t].typed = TRUE]
  /\ UNCHANGED <<session, server, flight, refused, world, vault>>

SavePolicy(t, s) ==
  /\ dom[t].name # ""
  /\ Ask(t, s, "policies", "save", [name |-> dom[t].name, text |-> dom[t].body,
                                    typed |-> dom[t].typed])
  /\ UNCHANGED dom

\* Every listener sends a request of its own; they are one step here.
CreateToken(t, s) ==
  /\ \A r \in Slots : ~Is(t, r, "create")
  /\ dom[t].hooks > 0
  /\ Cardinality(granted \cap Leases) + dom[t].hooks <= Cardinality(Leases)
  /\ Ask(t, s, "tokens", "create", dom[t].hooks)
  /\ UNCHANGED dom

\* A late answer may have put the leases on another screen.
RevokeLease(t, s) == \E l \in Options(t, "leases") :
  /\ Len(dom[t].cards) < MaxCards
  /\ Ask(t, s, dom[t].view, "revoke", l)
  /\ UNCHANGED dom

\* "kv get" and "kv put" are read and write; another "kv" is an error.
KvVerbs == [get |-> "read", put |-> "write"]

Plain(line) ==
  IF line[1] # "kv" THEN line
  ELSE IF Len(line) > 1 /\ line[2] \in DOMAIN KvVerbs
       THEN <<KvVerbs[line[2]]>> \o Tail(Tail(line))
       ELSE <<>>

Methods == [read |-> "GET", list |-> "LIST", delete |-> "DELETE", write |-> "PUT"]

\* runCommand: the method of the request, None for a line that is an error.
RunCommand(line) ==
  LET parts == Plain(line)
  IN  IF /\ Len(parts) > 1 /\ parts[1] \in DOMAIN Methods
         /\ parts[1] = "write" => \A i \in 3..Len(parts) : parts[i] \in Pairs
      THEN Methods[parts[1]] ELSE None

\* The line is echoed; an error is printed at once.
EnterLine(t, s) == \E line \in Lines :
  /\ dom[t].asked < MaxLines
  /\ \/ /\ RunCommand(line) # None
        /\ Ask(t, s, "console", "line", RunCommand(line))
        /\ dom' = [dom EXCEPT ![t].asked = @ + 1]
     \/ /\ RunCommand(line) = None
        /\ On(t, "console") /\ Free(t, s)
        /\ dom' = [dom EXCEPT ![t].asked = @ + 1, ![t].told = @ + 1]
        /\ UNCHANGED <<session, server, flight, refused, world, vault>>

------------------------------------------------------------------------------
(* Answers on the screens. *)

\* The request in slot s was answered with a, and what is not the page's
\* content stays.
Took(t, s, kind, a) ==
  /\ Is(t, s, kind)
  /\ a = flight[t][s].ans /\ a \notin {None, Lost}
  /\ UNCHANGED <<stored, token, screen, leaving, accepted, signedOut, server,
                 refused, world, vault>>

\* A refused listing shows nothing.  A list that left the page stays away (the
\* handler fails).  About learns the version.
ListArrived(t, s) == LET a == flight[t][s].ans
                         v == flight[t][s].arg IN
  /\ Took(t, s, "list", a)
  /\ dom' = IF Has(dom[t], v)
            THEN [dom EXCEPT ![t] = Filled(@, v, IF a = Refused THEN {} ELSE a)]
            ELSE dom
  /\ shell' = IF v = "about" THEN [shell EXCEPT ![t].version = (a # Refused)]
              ELSE shell
  /\ Done(t, s)

\* The list is not refreshed.
MountEnabled_Mistake(t, s) == /\ Took(t, s, "enable", flight[t][s].ans)
                              /\ Done(t, s)
                              /\ UNCHANGED <<shell, dom>>

\* refreshMounts, unless the request was refused.
MountEnabled(t, s) == LET a == flight[t][s].ans IN
  /\ Took(t, s, "enable", a)
  /\ IF a = Refused THEN Done(t, s) ELSE Call(t, s, "list", token[t], "secrets")
  /\ UNCHANGED <<shell, dom>>

\* showOut, on the element of the screen and not of the request.
SecretShown(t, s) == \E kind \in {"read", "write"} :
  LET a == flight[t][s].ans IN
  /\ Took(t, s, kind, a)
  /\ dom' = IF dom[t].view = "secrets" THEN [dom EXCEPT ![t].out = a] ELSE dom
  /\ Done(t, s)
  /\ UNCHANGED shell

\* The text goes into the editor whatever name is in the name field by now.
PolicyLoaded(t, s) == LET a == flight[t][s].ans IN
  /\ Took(t, s, "load", a)
  /\ dom' = IF dom[t].view = "policies"
            THEN [dom EXCEPT ![t].body = IF a = Refused THEN "" ELSE a] ELSE dom
  /\ Done(t, s)
  /\ UNCHANGED shell

\* "saved" and a new list, unless refused or the message's element is gone.
PolicySaved(t, s) == LET a == flight[t][s].ans IN
  /\ Took(t, s, "save", a)
  /\ IF a # Refused /\ dom[t].view = "policies"
     THEN Call(t, s, "list", token[t], "policies") ELSE Done(t, s)
  /\ UNCHANGED <<shell, dom>>

TokenCreated(t, s) == LET a == flight[t][s].ans IN
  /\ Took(t, s, "create", a)
  /\ dom' = IF dom[t].view = "tokens" THEN [dom EXCEPT ![t].out = a] ELSE dom
  /\ Done(t, s)
  /\ UNCHANGED shell

\* viewLeases(main) again, even if refused: a second card, whose list keeps
\* loading, since the answer goes to the first.
LeaseRevoked(t, s) == LET a == flight[t][s].ans IN
  /\ Took(t, s, "revoke", a)
  /\ dom' = [dom EXCEPT ![t].cards = Append(@, Card("leases", FALSE))]
  /\ Call(t, s, "list", token[t], "leases")
  /\ UNCHANGED shell

\* The handler holds on to the console it was typed in; an error is printed too.
LineAnswered(t, s) ==
  /\ Is(t, s, "line") \/ Is(t, s, "oldLine")
  /\ flight[t][s].ans # None
  /\ dom' = IF Is(t, s, "line") THEN [dom EXCEPT ![t].told = @ + 1] ELSE dom
  /\ Done(t, s)
  /\ UNCHANGED <<session, server, refused, world, vault>>

ScreenKinds == {"list", "enable", "read", "write", "load", "save", "create",
                "revoke"}

\* A rejected fetch ends its handler.
ScreenLost(t, s) ==
  /\ \E kind \in ScreenKinds : Arrived(t, s, kind, Lost)
  /\ Done(t, s)
  /\ UNCHANGED <<session, server, refused, world, dom, vault>>

------------------------------------------------------------------------------
(* The server. *)

Listing(v) == CASE v = "secrets"  -> mounts
                [] v = "policies" -> Names
                [] v = "tokens"   -> {"self"}
                [] v = "leases"   -> leases
                [] v = "audit"    -> {"devices"}
                [] v = "about"    -> {"version"}

\* The seal status needs no token.
Public(q) == q.kind = "list" /\ q.arg = "about"

RefuseRequest(t, s) ==
  /\ \E kind \in ScreenKinds \cup {"line", "oldLine"} : Waiting(t, s, kind)
  /\ \/ "refuse" \in world.faults
     \/ ~Public(flight[t][s]) /\ ~Works(flight[t][s].tok)
  /\ Answer(t, s, Refused)
  /\ UNCHANGED <<session, server, refused, world, dom, vault>>

Granted(t, s, kind) ==
  /\ Waiting(t, s, kind)
  /\ Public(flight[t][s]) \/ Works(flight[t][s].tok)
  /\ UNCHANGED <<session, server, refused, world, dom>>

ServeList(t, s) == /\ Granted(t, s, "list")
                   /\ Answer(t, s, Listing(flight[t][s].arg))
                   /\ UNCHANGED vault

\* A second mount at a path is refused.
ServeEnable(t, s) ==
  /\ Granted(t, s, "enable")
  /\ Answer(t, s, IF flight[t][s].arg \in mounts THEN Refused ELSE "done")
  /\ mounts' = mounts \cup {flight[t][s].arg}
  /\ UNCHANGED <<policies, secret, leases, granted, renamed>>

\* The secret, from its form and from the console.
ServeSecret(t, s) == \E kind \in {"read", "write", "line", "oldLine"} :
  LET method == flight[t][s].arg IN
  /\ Granted(t, s, kind)
  /\ Answer(t, s, IF method = "GET" THEN secret ELSE "done")
  /\ secret' = CASE method = "PUT"    -> "new"
                 [] method = "DELETE" -> "absent"
                 [] OTHER             -> secret
  /\ UNCHANGED <<mounts, policies, leases, granted, renamed>>

ServeLoad(t, s) == /\ Granted(t, s, "load")
                   /\ Answer(t, s, policies[flight[t][s].arg])
                   /\ UNCHANGED vault

ServeSave(t, s) ==
  /\ Granted(t, s, "save")
  /\ Answer(t, s, "done")
  /\ LET a == flight[t][s].arg IN
       /\ policies' = [policies EXCEPT ![a.name] = a.text]
       /\ renamed'  = IF a.typed THEN renamed \cup {a.name} ELSE renamed
  /\ UNCHANGED <<mounts, secret, leases, granted>>

ServeCreate(t, s) ==
  /\ Granted(t, s, "create")
  /\ Answer(t, s, "done")
  /\ \E new \in SUBSET (Leases \ granted) :
       /\ Cardinality(new) = flight[t][s].arg
       /\ leases' = leases \cup new /\ granted' = granted \cup new
  /\ UNCHANGED <<mounts, policies, secret, renamed>>

\* The token is revoked with its lease, the page's own token included.
ServeRevoke(t, s) == LET l == flight[t][s].arg IN
  /\ Waiting(t, s, "revoke") /\ Works(flight[t][s].tok)
  /\ Answer(t, s, "done")
  /\ leases' = leases \ {l} /\ valid' = valid \ {l}
  /\ UNCHANGED <<session, sealed, progress, issued, refused, world, dom,
                 mounts, policies, secret, granted, renamed>>

------------------------------------------------------------------------------
(* Behaviours. *)

UseScreen(t, s) ==
  \/ \E v \in Views : Navigate(t, s, v)
  \/ EnableMount(t, s) \/ ReadSecret(t, s) \/ WriteSecret(t, s)
  \/ LoadPolicy(t, s) \/ SavePolicy(t, s) \/ CreateToken(t, s)
  \/ RevokeLease(t, s) \/ EnterLine(t, s)

HandleScreen(t, s) ==
  \/ ListArrived(t, s) \/ MountEnabled(t, s) \/ SecretShown(t, s)
  \/ PolicyLoaded(t, s) \/ PolicySaved(t, s) \/ TokenCreated(t, s)
  \/ LeaseRevoked(t, s) \/ LineAnswered(t, s) \/ ScreenLost(t, s)

ServeScreen(t, s) ==
  \/ RefuseRequest(t, s) \/ ServeList(t, s) \/ ServeEnable(t, s)
  \/ ServeSecret(t, s) \/ ServeLoad(t, s) \/ ServeSave(t, s)
  \/ ServeCreate(t, s) \/ ServeRevoke(t, s)

\* A request is answered, or its answer handled.
Proceed(t, s) ==
  /\ flight[t][s] # None
  /\ \/ /\ flight[t][s].ans = None
        /\ ServeSession(t, s) \/ ServeScreen(t, s)
     \/ /\ flight[t][s].ans # None
        /\ HandleSession(t, s) \/ OpenApp(t, s) \/ HandleScreen(t, s)

Next == \/ \E t \in world.tabs, s \in Slots :
             \/ Proceed(t, s)
             \/ Free(t, s) /\ (UseSession(t, s) \/ UseScreen(t, s))
        \/ \E t \in world.tabs : Reload(t) \/ EditPolicy(t)
        \/ Environment

Spec == Init /\ [][Next]_vars

\* The server answers, the page handles answers and reloads.
FairSpec == /\ Spec
            /\ \A t \in Tabs : /\ WF_vars(\E s \in Slots : Proceed(t, s))
                               /\ WF_vars(leaving[t] /\ Reload(t))

------------------------------------------------------------------------------
(* Properties. *)

Answers(q) ==
  CASE q.kind \in {"bootStatus", "appStatus"}   -> {"sealed", "open", "error"}
    [] q.kind \in {"bootLookup", "loginLookup"} -> {"ok", "no"}
    [] q.kind = "loginCreds"                    -> Tokens \cup {"no"}
    [] q.kind = "unseal"                        -> {"open", "more", "no"}
    [] q.kind = "list"                          -> {Refused, Listing(q.arg)}
    [] q.kind = "load"                          -> Texts \cup {Refused}
    [] OTHER -> {"old", "new", "absent", "done", Refused}

\* Every variable has its type.
TypeOK ==
  /\ sealed \in BOOLEAN /\ progress \in 0..(Threshold - 1)
  /\ issued \subseteq Tokens /\ valid \subseteq issued
  /\ stored \in Tokens \cup {None} /\ refused \subseteq Tokens \cup {None}
  /\ token \in [Tabs -> Tokens \cup {None}]
  /\ accepted \in [Tabs -> Tokens \cup {None}]
  /\ screen \in [Tabs -> {"none", "login", "app"}]
  /\ shell \in [Tabs -> Shell] /\ leaving \in [Tabs -> BOOLEAN]
  /\ world \in Worlds /\ signedOut \subseteq Tabs
  /\ \A t \in Tabs, s \in Slots : flight[t][s] # None =>
       /\ flight[t][s].tok \in Tokens \cup {None}
       /\ flight[t][s].ans \in {None, Lost}
          \/ flight[t][s].kind = "list" \/ flight[t][s].ans \in Answers(flight[t][s])
  /\ mounts \subseteq Paths /\ policies \in [Names -> Texts]
  /\ secret \in {"old", "new", "absent"}
  /\ granted \subseteq Leases \cup Tokens /\ leases \subseteq granted
  /\ renamed \subseteq Names

\* While the app is shown the page works with the token the server accepted
\* when the user signed in, unless the user does not wait for answers.
SignedInAs ==
  world.manner # "hasty" => \A t \in Tabs :
    screen[t] = "app" /\ ~leaving[t] => token[t] = accepted[t] /\ token[t] # None

\* Once the user has signed out of every tab, no handler that was still under
\* way brings a token back into the browser.
SignOutSticks ==
  world.manner # "hasty" /\ world.tabs \subseteq signedOut => stored = None

\* A page that loads gives up the browser's token only if an unsealed server
\* refused that token: it survives an unsealing.  (A server that gets sealed or
\* errs between the page's two requests, or a second tab, may lose it.)
BootKeepsToken == [][\A t \in Tabs :
  world.tabs = {t} /\ {"seal", "refuse"} \cap world.faults = {}
    /\ screen[t] = "none" /\ stored' # stored => stored \in refused]_vars

\* Saving in the policy editor under the name that Load put there never stores
\* the text of another policy.  (Under a name the user typed it stores whatever
\* is in the editor.)
PolicyTextKept == \A n \in Names \ renamed : policies[n] \in {n, "edited", ""}

\* That is so if the user waits for answers and none gets lost; and if the server
\* neither errs nor gets sealed, no empty text is stored either, although the
\* page's token may be revoked.
PolicyKeepsText ==
  world.manner # "hasty" /\ "lose" \notin world.faults
    => /\ PolicyTextKept
       /\ {"refuse", "seal"} \cap world.faults = {}
            => \A n \in Names \ renamed : policies[n] # ""

\* A single user who waits sees the server's state: the list on the screen is
\* up to date after whatever was done there, and the screen is the one selected.
\* (A user who revokes the session's own lease is refused from then on, and the
\* page shows a refused list as an empty one.)
ShownIsTrue == \A t \in Tabs :
  /\ world = [world EXCEPT !.tabs = {t}, !.manner = "patient", !.faults = {}]
  /\ screen[t] = "app" /\ ~leaving[t] /\ Quiet(t) /\ token[t] \in valid
  => /\ dom[t].view = "console"
        \/ dom[t].cards[1].shown = Listing(dom[t].view)
     /\ dom[t].out \in {None, Refused, "done", secret}
     /\ dom[t].nav = dom[t].view

\* Every console line is answered on the console it was typed in, once.
EveryLineAnswered == \A t \in Tabs :
  dom[t].asked = dom[t].told + Cardinality({s \in Slots : Is(t, s, "line")})

\* If no answer gets lost, a page that loads shows the login form or the app in
\* the end, and, to a user who waits, every screen its list.
Waits(t) ==
  \/ screen[t] = "none"
  \/ /\ world.manner = "patient" /\ dom[t].cards # <<>>
     /\ dom[t].cards[1].shown = Loading

LoadsInTheEnd == \A t \in Tabs :
  (t \in world.tabs /\ "lose" \notin world.faults /\ Waits(t)) ~> ~Waits(t)
==============================================================================
