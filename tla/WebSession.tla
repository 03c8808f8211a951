------------------------------ MODULE WebSession ------------------------------
(***************************************************************************)
(* The web console's session: page load, unsealing, signing in and out.    *)
(* A page is single-threaded, so an event handler runs undisturbed up to   *)
(* its next request; it goes on when that request's answer arrives, which  *)
(* need not be in the order of the requests.  Tabs share the token kept in *)
(* the browser's storage, each has a copy of its own, and the server       *)
(* changes between the page's requests.  WebConsole adds the screens.      *)
(***************************************************************************)
EXTENDS Naturals

CONSTANTS Tabs,       \* tabs of one browser
          Tokens,     \* token values
          Threshold,  \* shares that unseal the server
          MaxFlight,  \* bound: requests of a tab that are under way at once
          Worlds,     \* the situations to look at (see World)
          None,       \* no value
          Lost        \* the answer of a request that failed on its way

Views   == {"secrets", "policies", "tokens", "leases", "audit", "console",
            "about"}
Manners == {"patient", "browsing", "hasty"}
Faults  == {"sealed", "seal", "revoke", "lose", "refuse"}

\* The tabs that are open; how their user acts: waiting for every answer, waiting
\* except for changing the screen, or never waiting; the tokens there are; the
\* screens used; what may happen: the server starts sealed, gets sealed, revokes
\* tokens, refuses requests, or answers get lost.
World == [tabs : (SUBSET Tabs) \ {{}}, manner : Manners, tokens : SUBSET Tokens,
          visits : SUBSET Views, faults : SUBSET Faults]

ASSUME WorldsAssumption == Worlds \subseteq World
ASSUME BoundAssumption  == MaxFlight \in Nat \ {0} /\ Threshold \in Nat \ {0}
ASSUME NoneAssumption   == None \notin Tokens /\ Lost \notin Tokens \cup {None}
ASSUME WordsAssumption  == {"ok", "no", "open", "sealed", "more",
                            "error"}
                             \cap (Tokens \cup {None, Lost}) = {}

VARIABLES
  sealed,    \* the server is sealed,
  progress,  \* ... with so many shares submitted
  valid,     \* tokens it accepts
  issued,    \* tokens it has issued
  stored,    \* localStorage "kh_token"
  token,     \* a tab's token
  screen,    \* the section a tab shows: "none" (page load), "login" or "app"
  shell,     \* [version known, unseal box shown, login error shown, pill]
  leaving,   \* location.reload() was called and the page is still there
  flight,    \* requests under way
  world,     \* the situation; never changes
  accepted,  \* history: the token the server accepted last from a page
  signedOut, \* history: tabs whose user signed out and has not tried since
  refused    \* history: tokens the server has refused while it was unsealed

server  == <<sealed, progress, valid, issued>>
session == <<stored, token, screen, shell, leaving, accepted, signedOut>>

Slots  == 1..MaxFlight
Shell  == [version : BOOLEAN, box : BOOLEAN, error : BOOLEAN,
           pill : {"", "sealed", "unsealed"}]
Blank  == [version |-> FALSE, box |-> FALSE, error |-> FALSE, pill |-> ""]

------------------------------------------------------------------------------
(* Requests. *)

\* What api sends: the token the page holds at that moment goes with it.
Sent(kind, tok, arg) == [kind |-> kind, tok |-> tok, arg |-> arg, ans |-> None]

Quiet(t) == \A s \in Slots : flight[t][s] = None

\* The slot of a new request.
Free(t, s) == flight[t][s] = None /\ \A r \in 1..(s - 1) : flight[t][r] # None

Is(t, s, kind) == flight[t][s] # None /\ flight[t][s].kind = kind

Arrived(t, s, kind, ans) == Is(t, s, kind) /\ flight[t][s].ans = ans

Call(t, s, kind, tok, arg) ==
  flight' = [flight EXCEPT ![t][s] = Sent(kind, tok, arg)]

\* A handler ends without another request.
Done(t, s) == flight' = [flight EXCEPT ![t][s] = None]

SetToken(t, v) == token' = [token EXCEPT ![t] = v] /\ stored' = v

\* The user of tab t acts.
Ready(t) == /\ t \in world.tabs /\ ~leaving[t]
            /\ world.manner = "hasty" \/ Quiet(t)

------------------------------------------------------------------------------
(* Page load. *)

\* The script runs from the start and asks for the seal status.
Boot(v) == [s \in Slots |-> IF s = 1 THEN Sent("bootStatus", v, None) ELSE None]

LoadPage(t) == /\ token'    = [token EXCEPT ![t] = stored]
               /\ screen'   = [screen EXCEPT ![t] = "none"]
               /\ shell'    = [shell EXCEPT ![t] = Blank]
               /\ leaving'  = [leaving EXCEPT ![t] = FALSE]
               /\ flight'   = [flight EXCEPT ![t] = Boot(stored)]
               /\ accepted' = [accepted EXCEPT ![t] = None]
               /\ UNCHANGED <<stored, signedOut, server, refused, world>>

InitSession ==
  /\ world \in Worlds
  /\ issued \in SUBSET world.tokens /\ valid = issued
  /\ sealed \in (IF "sealed" \in world.faults THEN BOOLEAN ELSE {FALSE})
  /\ progress = 0
  /\ stored \in world.tokens \cup {None}
  /\ token    = [t \in Tabs |-> stored]
  /\ screen   = [t \in Tabs |-> "none"]
  /\ shell    = [t \in Tabs |-> Blank]
  /\ leaving  = [t \in Tabs |-> FALSE]
  /\ flight   = [t \in Tabs |-> IF t \in world.tabs THEN Boot(stored)
                                ELSE [s \in Slots |-> None]]
  /\ accepted = [t \in Tabs |-> None]
  /\ signedOut = {} /\ refused = {}

\* The user reloads a page, one that is still loading only if it got stuck.
UserReload(t) == /\ t \in world.tabs /\ ~leaving[t]
                 /\ screen[t] # "none" \/ Quiet(t)
                 /\ LoadPage(t)

\* The reload that location.reload() asked for.  Until then the page's handlers
\* still run.
Leave(t) == leaving[t] /\ LoadPage(t)

\* (Here and below, a definition named Op_Mistake is Op with a mistake in it,
\* which a property must notice.)  A sealed server costs the page its token.
BootSealed_Mistake(t, s) ==
  /\ Arrived(t, s, "bootStatus", "sealed")
  /\ shell'  = [shell EXCEPT ![t].version = TRUE, ![t].box = TRUE]
  /\ screen' = [screen EXCEPT ![t] = "login"]
  /\ SetToken(t, None)
  /\ Done(t, s)
  /\ UNCHANGED <<leaving, accepted, signedOut, server, refused, world>>

\* loadSealStatus learns the version; a sealed server keeps the page from
\* trying its token.
BootSealed(t, s) ==
  /\ Arrived(t, s, "bootStatus", "sealed")
  /\ shell'  = [shell EXCEPT ![t].version = TRUE, ![t].box = TRUE]
  /\ screen' = [screen EXCEPT ![t] = "login"]
  /\ Done(t, s)
  /\ UNCHANGED <<stored, token, leaving, accepted, signedOut, server, refused,
                 world>>

\* An error has no "sealed" field and counts as unsealed, and no version.
BootOpen(t, s) == \E a \in {"open", "error"} :
  /\ Arrived(t, s, "bootStatus", a)
  /\ shell' = [shell EXCEPT ![t].version = (a = "open")]
  /\ \/ /\ token[t] # None
        /\ Call(t, s, "bootLookup", token[t], None) /\ UNCHANGED screen
     \/ /\ token[t] = None
        /\ Done(t, s) /\ screen' = [screen EXCEPT ![t] = "login"]
  /\ UNCHANGED <<stored, token, leaving, accepted, signedOut, server, refused,
                 world>>

\* showApp up to its await.  The server has accepted token v; the page goes on
\* with the token it holds.
ShowApp(t, s, v) == /\ screen'   = [screen EXCEPT ![t] = "app"]
                    /\ accepted' = [accepted EXCEPT ![t] = v]
                    /\ Call(t, s, "appStatus", token'[t], None)

BootAccepted(t, s) ==
  /\ Arrived(t, s, "bootLookup", "ok")
  /\ UNCHANGED token
  /\ ShowApp(t, s, flight[t][s].tok)
  /\ UNCHANGED <<stored, shell, leaving, signedOut, server, refused, world>>

\* The login form stays hidden.
BootRefused_Mistake(t, s) ==
  /\ Arrived(t, s, "bootLookup", "no")
  /\ SetToken(t, None)
  /\ Done(t, s)
  /\ UNCHANGED <<screen, shell, leaving, accepted, signedOut, server, refused,
                 world>>

BootRefused(t, s) ==
  /\ Arrived(t, s, "bootLookup", "no")
  /\ SetToken(t, None)
  /\ screen' = [screen EXCEPT ![t] = "login"]
  /\ Done(t, s)
  /\ UNCHANGED <<shell, leaving, accepted, signedOut, server, refused, world>>

------------------------------------------------------------------------------
(* Unsealing. *)

SubmitShare(t, s) ==
  /\ Ready(t) /\ Free(t, s)
  /\ screen[t] = "login" /\ shell[t].box
  /\ Call(t, s, "unseal", token[t], None)
  /\ UNCHANGED <<session, server, refused, world>>

\* The server is open now: load the page again.
Unsealed(t, s) ==
  /\ Arrived(t, s, "unseal", "open")
  /\ leaving' = [leaving EXCEPT ![t] = TRUE]
  /\ Done(t, s)
  /\ UNCHANGED <<stored, token, screen, shell, accepted, signedOut, server,
                 refused, world>>

\* More shares are needed, or this one was refused: the progress text says so.
ShareTaken(t, s) ==
  /\ \E a \in {"more", "no"} : Arrived(t, s, "unseal", a)
  /\ Done(t, s)
  /\ UNCHANGED <<session, server, refused, world>>

------------------------------------------------------------------------------
(* Signing in and out. *)

\* A typed token becomes the session's before the server has seen it.
SubmitToken(t, s) == \E v \in world.tokens \cup {None} :
  /\ Ready(t) /\ Free(t, s) /\ screen[t] = "login"
  /\ SetToken(t, v)
  /\ shell' = [shell EXCEPT ![t].error = FALSE]
  /\ Call(t, s, "loginLookup", v, None)
  /\ signedOut' = signedOut \ {t}
  /\ UNCHANGED <<screen, leaving, accepted, server, refused, world>>

\* The userpass and approle methods.  The old token still goes with the request.
SubmitCredentials(t, s) ==
  /\ Ready(t) /\ Free(t, s) /\ screen[t] = "login"
  /\ shell' = [shell EXCEPT ![t].error = FALSE]
  /\ Call(t, s, "loginCreds", token[t], None)
  /\ signedOut' = signedOut \ {t}
  /\ UNCHANGED <<stored, token, screen, leaving, accepted, server, refused, world>>

TokenAccepted(t, s) ==
  /\ Arrived(t, s, "loginLookup", "ok")
  /\ UNCHANGED token
  /\ ShowApp(t, s, flight[t][s].tok)
  /\ UNCHANGED <<stored, shell, leaving, signedOut, server, refused, world>>

\* The token of the login is not taken over.
CredentialsAccepted_Mistake(t, s) == \E v \in Tokens :
  /\ Arrived(t, s, "loginCreds", v)
  /\ UNCHANGED <<token, stored>>
  /\ ShowApp(t, s, v)
  /\ UNCHANGED <<shell, leaving, signedOut, server, refused, world>>

CredentialsAccepted(t, s) == \E v \in Tokens :
  /\ Arrived(t, s, "loginCreds", v)
  /\ SetToken(t, v)
  /\ ShowApp(t, s, v)
  /\ UNCHANGED <<shell, leaving, signedOut, server, refused, world>>

\* The catch clause: also for a request that got lost.
LoginFailed(t, s) ==
  /\ \E kind \in {"loginLookup", "loginCreds"}, a \in {"no", Lost} :
       Arrived(t, s, kind, a)
  /\ SetToken(t, None)
  /\ shell' = [shell EXCEPT ![t].error = TRUE]
  /\ Done(t, s)
  /\ UNCHANGED <<screen, leaving, accepted, signedOut, server, refused, world>>

\* The pill takes the answer as it is.
AppOpened_Mistake(t, s) == \E a \in {"sealed", "open", "error"} :
  /\ Arrived(t, s, "appStatus", a)
  /\ shell' = [shell EXCEPT ![t].version = (a # "error"), ![t].pill = a]
  /\ UNCHANGED <<stored, token, screen, leaving, accepted, signedOut, server,
                 refused, world>>

\* showApp goes on: the pill.  (WebConsole draws the first screen with it.)
AppOpened(t, s) == \E a \in {"sealed", "open", "error"} :
  /\ Arrived(t, s, "appStatus", a)
  /\ shell' = [shell EXCEPT ![t].version = (a # "error"),
                 ![t].pill = IF a = "sealed" THEN "sealed" ELSE "unsealed"]
  /\ UNCHANGED <<stored, token, screen, leaving, accepted, signedOut, server,
                 refused, world>>

\* Only the page forgets the token.
SignOut_Mistake(t) ==
  /\ Ready(t) /\ screen[t] = "app"
  /\ token'     = [token EXCEPT ![t] = None]
  /\ leaving'   = [leaving EXCEPT ![t] = TRUE]
  /\ signedOut' = signedOut \cup {t}
  /\ UNCHANGED <<stored, screen, shell, accepted, flight, server, refused, world>>

SignOut(t) ==
  /\ Ready(t) /\ screen[t] = "app"
  /\ SetToken(t, None)
  /\ leaving'   = [leaving EXCEPT ![t] = TRUE]
  /\ signedOut' = signedOut \cup {t}
  /\ UNCHANGED <<screen, shell, accepted, flight, server, refused, world>>

\* A rejected fetch outside of the login handler: its handler ends there.
SessionLost(t, s) ==
  /\ \E kind \in {"bootStatus", "bootLookup", "unseal", "appStatus"} :
       Arrived(t, s, kind, Lost)
  /\ Done(t, s)
  /\ UNCHANGED <<session, server, refused, world>>

------------------------------------------------------------------------------
(* The server, and what else happens to it. *)

Answer(t, s, a) == flight' = [flight EXCEPT ![t][s].ans = a]

Waiting(t, s, kind) == Is(t, s, kind) /\ flight[t][s].ans = None

Works(tok) == ~sealed /\ tok \in valid

ServeStatus(t, s) ==
  /\ Waiting(t, s, "bootStatus") \/ Waiting(t, s, "appStatus")
  /\ \/ Answer(t, s, IF sealed THEN "sealed" ELSE "open")
     \/ "refuse" \in world.faults /\ Answer(t, s, "error")
  /\ UNCHANGED <<session, server, refused, world>>

ServeLookup(t, s) ==
  /\ Waiting(t, s, "bootLookup") \/ Waiting(t, s, "loginLookup")
  /\ LET tok == flight[t][s].tok IN
       \/ /\ Answer(t, s, IF Works(tok) THEN "ok" ELSE "no")
          /\ refused' = IF sealed \/ tok \in valid THEN refused
                        ELSE refused \cup {tok}
       \/ /\ "refuse" \in world.faults
          /\ Answer(t, s, "no") /\ UNCHANGED refused
  /\ UNCHANGED <<session, server, world>>

\* The credentials are right or wrong.  (WebConsole gives the token its lease.)
ServeCredentials(t, s) ==
  /\ Waiting(t, s, "loginCreds")
  /\ \/ Answer(t, s, "no") /\ UNCHANGED <<valid, issued>>
     \/ /\ ~sealed
        /\ \E v \in world.tokens \ issued : /\ Answer(t, s, v)
                                      /\ issued' = issued \cup {v}
                                      /\ valid'  = valid \cup {v}
  /\ UNCHANGED <<session, sealed, progress, refused, world>>

\* A share counts once; the one that reaches the threshold opens the server.
ServeShare(t, s) ==
  /\ Waiting(t, s, "unseal")
  /\ \/ /\ ~sealed
        /\ Answer(t, s, "open") /\ UNCHANGED <<sealed, progress>>
     \/ /\ sealed
        /\ Answer(t, s, "more") \/ Answer(t, s, "no")
        /\ UNCHANGED <<sealed, progress>>
     \/ /\ sealed /\ progress + 1 < Threshold
        /\ Answer(t, s, "more")
        /\ progress' = progress + 1 /\ UNCHANGED sealed
     \/ /\ sealed /\ progress + 1 = Threshold
        /\ Answer(t, s, "open")
        /\ progress' = 0 /\ sealed' = FALSE
  /\ UNCHANGED <<session, valid, issued, refused, world>>

LoseAnswer(t, s) ==
  /\ "lose" \in world.faults
  /\ flight[t][s] # None
  /\ flight[t][s].ans = None
  /\ Answer(t, s, Lost)
  /\ UNCHANGED <<session, server, refused, world>>

\* Other operators unseal and seal it.
OpenServer ==
  /\ "sealed" \in world.faults /\ sealed
  /\ sealed' = FALSE /\ progress' = 0
  /\ UNCHANGED <<session, valid, issued, flight, refused, world>>

SealServer ==
  /\ "seal" \in world.faults /\ ~sealed
  /\ sealed' = TRUE
  /\ UNCHANGED <<session, progress, valid, issued, flight, refused, world>>

RevokeToken == \E v \in valid :
  /\ "revoke" \in world.faults
  /\ valid' = valid \ {v}
  /\ UNCHANGED <<session, sealed, progress, issued, flight, refused, world>>
==============================================================================
