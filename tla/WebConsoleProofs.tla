---------------------------- MODULE WebConsoleProofs ----------------------------
(***************************************************************************)
(* The session properties of WebConsole for any number of tabs, tokens and *)
(* requests, in every situation (World), whatever fails.                   *)
(***************************************************************************)
EXTENDS WebConsole, TLAPS

BootKinds   == {"bootStatus", "bootLookup"}
LoginKinds  == {"loginLookup", "loginCreds"}
LookupKinds == {"bootLookup", "loginLookup"}
AppKinds    == ScreenKinds \cup {"line", "oldLine", "appStatus"}
KindsOn     == [none |-> BootKinds, login |-> LoginKinds \cup {"unseal"},
                app |-> AppKinds]

\* Every request is a record with a token.
Shape ==
  /\ flight = [t \in Tabs |-> [s \in Slots |-> flight[t][s]]]
  /\ \A t \in Tabs, s \in Slots : flight[t][s] # None =>
       LET q == flight[t][s] IN
         /\ q = [kind |-> q.kind, tok |-> q.tok, arg |-> q.arg, ans |-> q.ans]
         /\ q.tok \in Tokens \cup {None}

Types == /\ world \in Worlds
         /\ valid \subseteq issued /\ issued \subseteq Tokens
         /\ stored \in Tokens \cup {None}
         /\ token \in [Tabs -> Tokens \cup {None}]
         /\ accepted \in [Tabs -> Tokens \cup {None}]
         /\ screen \in [Tabs -> {"none", "login", "app"}]
         /\ leaving \in [Tabs -> BOOLEAN]

\* Which requests go with which section of the page, for every user: while the
\* page loads there is one, and only then a request of boot.
Placed(t) ==
  /\ \A s \in Slots : flight[t][s] # None =>
       /\ flight[t][s].kind \in AppKinds => screen[t] = "app"
       /\ flight[t][s].kind \in BootKinds <=> screen[t] = "none"
  /\ screen[t] = "none" => \A r, s \in Slots :
       flight[t][r] # None /\ flight[t][s] # None => r = s

\* A user who waits has one request under way at the login form, too; a lookup is
\* of the page's token.
Orderly(t) == world.manner # "hasty" =>
  /\ \A s \in Slots : flight[t][s] # None =>
       /\ flight[t][s].kind \in KindsOn[screen[t]]
       /\ flight[t][s].kind \in LookupKinds =>
            /\ flight[t][s].tok = token[t]
            /\ flight[t][s].ans = "ok" => token[t] # None
       /\ t \in signedOut => flight[t][s].kind \notin LoginKinds
  /\ screen[t] # "app" => \A r, s \in Slots :
       flight[t][r] # None /\ flight[t][s] # None => r = s
  /\ screen[t] = "app" /\ ~leaving[t] => token[t] = accepted[t] /\ token[t] # None

\* A calm server does not get sealed and answers.
Calm == {"seal", "refuse"} \cap world.faults = {}

\* The only tab of a calm server has the browser's token, and what refuses it
\* while the page loads is an unsealed server.
Kept(t) == world.tabs = {t} /\ Calm =>
  /\ token[t] = stored
  /\ \A s \in Slots : flight[t][s] # None =>
       /\ flight[t][s].kind = "bootStatus" /\ flight[t][s].ans \in {"open", "error"}
            => ~sealed
       /\ flight[t][s].kind = "bootLookup" =>
            /\ ~sealed /\ flight[t][s].tok = token[t]
            /\ flight[t][s].ans = "no" => token[t] \in refused

Good(t) == Placed(t) /\ Orderly(t) /\ Kept(t)

IInv == Shape /\ Types /\ (\A t \in Tabs : Good(t)) /\ SignOutSticks

------------------------------------------------------------------------------
(* What the operators on requests do. *)

\* Slot s of tab t is the only one that changes.
Put(t, s, q) == \A u \in Tabs, r \in Slots :
  flight'[u][r] = IF u = t /\ r = s THEN q ELSE flight[u][r]

\* The requests of every tab are a function on the slots.
Rows == flight = [t \in Tabs |-> [s \in Slots |-> flight[t][s]]]

LEMMA ExceptPuts ==
  ASSUME Rows, NEW t \in Tabs, NEW s \in Slots, NEW q,
         flight' = [flight EXCEPT ![t][s] = q]
  PROVE  Rows' /\ Put(t, s, q)
<1> DEFINE row == [r \in Slots |-> IF r = s THEN q ELSE flight[t][r]]
<1>1. DOMAIN flight = Tabs /\ \A u \in Tabs : flight[u] = [r \in Slots |-> flight[u][r]]
  BY DEF Rows
<1>2. [flight[t] EXCEPT ![s] = q] = row
  BY <1>1
<1>3. flight' = [u \in Tabs |-> IF u = t THEN row ELSE flight[u]]
  <2>1. flight' = [flight EXCEPT ![t] = [flight[t] EXCEPT ![s] = q]]
    OBVIOUS
  <2>2. flight = [u \in Tabs |-> flight[u]]
    BY <1>1 DEF Rows
  <2> HIDE DEF row
  <2>3. flight' = [flight EXCEPT ![t] = row]
    BY <1>2, <2>1
  <2> QED BY <2>2, <2>3
<1>4. \A u \in Tabs : flight'[u] = [r \in Slots |-> flight'[u][r]]
  BY <1>1, <1>3
<1>5. Rows'
  <2>1. DOMAIN flight' = Tabs /\ flight' = [u \in Tabs |-> flight'[u]]
    BY <1>3
  <2> QED BY <1>4, <2>1 DEF Rows
<1>6. Put(t, s, q)
  BY <1>3 DEF Put
<1> QED BY <1>5, <1>6

LEMMA CallPuts ==
  ASSUME Shape, NEW t \in Tabs, NEW s \in Slots, NEW kind, NEW arg,
         NEW tok \in Tokens \cup {None}, Call(t, s, kind, tok, arg)
  PROVE  Shape' /\ Put(t, s, Sent(kind, tok, arg))
<1>1. Rows' /\ Put(t, s, Sent(kind, tok, arg))
  BY ExceptPuts DEF Shape, Rows, Call
<1> QED BY <1>1 DEF Shape, Rows, Put, Sent

LEMMA DonePuts ==
  ASSUME Shape, NEW t \in Tabs, NEW s \in Slots, Done(t, s)
  PROVE  Shape' /\ Put(t, s, None)
<1>1. Rows' /\ Put(t, s, None)
  BY ExceptPuts DEF Shape, Rows, Done
<1> QED BY <1>1 DEF Shape, Rows, Put

\* The request with its answer.
Answered(q, a) == [kind |-> q.kind, tok |-> q.tok, arg |-> q.arg, ans |-> a]

LEMMA AnswerPuts ==
  ASSUME Shape, NEW t \in Tabs, NEW s \in Slots, flight[t][s] # None,
         NEW a, Answer(t, s, a)
  PROVE  Shape' /\ Put(t, s, Answered(flight[t][s], a))
<1> DEFINE q == flight[t][s]
<1>1. q = [kind |-> q.kind, tok |-> q.tok, arg |-> q.arg, ans |-> q.ans]
  BY DEF Shape
<1>2. [q EXCEPT !.ans = a] = Answered(q, a)
  BY <1>1 DEF Answered
<1>3. flight' = [flight EXCEPT ![t][s] = Answered(q, a)]
  <2>1. flight' = [flight EXCEPT ![t] = [flight[t] EXCEPT ![s] = [q EXCEPT !.ans = a]]]
    BY DEF Answer
  <2>2. flight' = [flight EXCEPT ![t] = [flight[t] EXCEPT ![s] = Answered(q, a)]]
    BY <1>2, <2>1
  <2> QED BY <2>2
<1>4. Rows' /\ Put(t, s, Answered(q, a))
  BY <1>3, ExceptPuts DEF Shape, Rows
<1> DEFINE p == Answered(q, a)
<1>5. p = [kind |-> p.kind, tok |-> p.tok, arg |-> p.arg, ans |-> p.ans]
  BY DEF Answered
<1>6. p.tok \in Tokens \cup {None}
  BY DEF Answered, Shape
<1> HIDE DEF p
<1> QED BY <1>4, <1>5, <1>6 DEF Shape, Rows, Put, p

------------------------------------------------------------------------------
(* What steps keep. *)

\* The server stays open when it must, and does not forget whom it refused.
ServerGoesOn == /\ valid' \subseteq issued' /\ issued' \subseteq Tokens
                /\ refused \subseteq refused'
                /\ sealed' => sealed \/ "seal" \in world.faults

LEMMA TabsOfWorld ==
  ASSUME Types
  PROVE  world.tabs \subseteq Tabs /\ world.tabs # {} /\ world.tokens \subseteq Tokens
<1>1. world \in World
  BY WorldsAssumption DEF Types
<1> QED BY <1>1 DEF World

\* A tab that has no part in a step of tab t.
LEMMA OtherTab ==
  ASSUME NEW t \in world.tabs, NEW u \in Tabs, u # t, Good(u), ServerGoesOn,
         world' = world, u \in signedOut' <=> u \in signedOut,
         screen'[u] = screen[u], token'[u] = token[u],
         leaving'[u] = leaving[u], accepted'[u] = accepted[u],
         \A r \in Slots : flight'[u][r] = flight[u][r]
  PROVE  Good(u)'
<1>1. Placed(u)'
  BY DEF Good, Placed
<1>2. Orderly(u)'
  BY DEF Good, Orderly
<1>3. Kept(u)'
  BY DEF Kept
<1> QED BY <1>1, <1>2, <1>3 DEF Good

\* What an answer may say.
Faithful(q) ==
  /\ q.kind \in LookupKinds /\ q.ans = "ok" => q.tok # None
  /\ Calm /\ q.kind = "bootStatus" /\ q.ans \in {"open", "error"} => ~sealed
  /\ Calm /\ q.kind = "bootLookup" /\ q.ans = "no" /\ ~sealed => q.tok \in refused'

SessionStays == UNCHANGED <<stored, token, screen, leaving, accepted, signedOut, world>>

LEMMA TypesStay ==
  ASSUME Types, SessionStays, ServerGoesOn
  PROVE  Types'
BY DEF Types, SessionStays, ServerGoesOn

\* A request goes, is answered, or makes place for one of the app.
LEMMA SlotStep ==
  ASSUME IInv, NEW t \in world.tabs, NEW s \in Slots, NEW q, Put(t, s, q), Shape',
         SessionStays, ServerGoesOn,
         \/ q = None
         \/ q.kind \in AppKinds /\ screen[t] = "app"
         \/ /\ flight[t][s] # None /\ q.kind = flight[t][s].kind
            /\ q.tok = flight[t][s].tok /\ Faithful(q)
  PROVE  IInv'
<1>0. t \in Tabs /\ \A u \in Tabs : Good(u)
  BY TabsOfWorld DEF IInv
<1>1. \A r \in Slots \ {s} : flight'[t][r] = flight[t][r]
  BY <1>0 DEF Put
<1>2. flight'[t][s] = q
  BY <1>0 DEF Put
<1>3. AppKinds \cap (BootKinds \cup LoginKinds \cup LookupKinds) = {}
  BY DEF AppKinds, ScreenKinds, BootKinds, LoginKinds, LookupKinds
<1>4. Placed(t)'
  BY <1>0, <1>1, <1>2, <1>3 DEF Good, Placed, SessionStays
<1>5. Orderly(t)'
  <2>1. screen'[t] = screen[t] /\ KindsOn["app"] = AppKinds
    BY DEF SessionStays, KindsOn
  <2> QED BY <1>0, <1>1, <1>2, <1>3, <2>1 DEF Good, Orderly, SessionStays, Faithful
<1>6. Kept(t)'
  <2>1. "bootStatus" \notin AppKinds /\ "bootLookup" \notin AppKinds
    BY DEF AppKinds, ScreenKinds
  <2> QED BY <1>0, <1>1, <1>2, <2>1 DEF Good, Kept, SessionStays, ServerGoesOn, Faithful, Calm
<1>7. \A u \in Tabs : Good(u)'
  <2> SUFFICES ASSUME NEW u \in Tabs, u # t PROVE Good(u)'
    BY <1>4, <1>5, <1>6 DEF Good
  <2>1. \A r \in Slots : flight'[u][r] = flight[u][r]
    BY DEF Put
  <2> QED BY <1>0, <2>1, OtherTab DEF SessionStays
<1>8. SignOutSticks'
  BY DEF IInv, SignOutSticks, SessionStays
<1> QED BY <1>7, <1>8, TypesStay DEF IInv

\* A step without a request.
LEMMA StillStep ==
  ASSUME IInv, SessionStays, ServerGoesOn, UNCHANGED flight
  PROVE  IInv'
<1>1. \A u \in Tabs : Placed(u)' /\ Orderly(u)'
  BY DEF IInv, Good, Placed, Orderly, SessionStays
<1>2. \A u \in Tabs : Kept(u)'
  BY DEF IInv, Good, Kept, SessionStays, ServerGoesOn, Calm
<1>3. Shape' /\ SignOutSticks'
  BY DEF IInv, Shape, SignOutSticks, SessionStays
<1> QED BY <1>1, <1>2, <1>3, TypesStay DEF IInv, Good

LEMMA AnswerStep ==
  ASSUME IInv, NEW t \in world.tabs, NEW s \in Slots, flight[t][s] # None,
         NEW a, Answer(t, s, a), SessionStays, ServerGoesOn,
         Faithful(Answered(flight[t][s], a))
  PROVE  IInv'
<1>1. t \in Tabs /\ Shape
  BY TabsOfWorld DEF IInv
<1>2. Shape' /\ Put(t, s, Answered(flight[t][s], a))
  BY <1>1, AnswerPuts
<1>3. /\ Answered(flight[t][s], a).kind = flight[t][s].kind
      /\ Answered(flight[t][s], a).tok = flight[t][s].tok
  BY DEF Answered
<1> QED BY <1>2, <1>3, SlotStep

LEMMA DoneStep ==
  ASSUME IInv, NEW t \in world.tabs, NEW s \in Slots, Done(t, s), SessionStays,
         ServerGoesOn
  PROVE  IInv'
<1>1. t \in Tabs /\ Shape
  BY TabsOfWorld DEF IInv
<1>2. Shape' /\ Put(t, s, None)
  BY <1>1, DonePuts
<1> QED BY <1>2, SlotStep

LEMMA CallStep ==
  ASSUME IInv, NEW t \in world.tabs, NEW s \in Slots, NEW kind \in AppKinds,
         NEW arg, Call(t, s, kind, token[t], arg), screen[t] = "app",
         SessionStays, ServerGoesOn
  PROVE  IInv'
<1>1. t \in Tabs /\ Shape /\ token[t] \in Tokens \cup {None}
  BY TabsOfWorld DEF IInv, Types
<1>2. Shape' /\ Put(t, s, Sent(kind, token[t], arg))
  BY <1>1, CallPuts
<1>3. Sent(kind, token[t], arg).kind = kind
  BY DEF Sent
<1> QED BY <1>2, <1>3, SlotStep

\* A request of a screen is only under way while the app is shown.
LEMMA OnApp ==
  ASSUME IInv, NEW t \in world.tabs, NEW s \in Slots, flight[t][s] # None,
         flight[t][s].kind \in AppKinds
  PROVE  screen[t] = "app"
BY TabsOfWorld DEF IInv, Good, Placed

\* The server stays as it is.
LEMMA SameServer ==
  ASSUME IInv, UNCHANGED <<server, refused>>
  PROVE  ServerGoesOn
BY DEF IInv, Types, server, ServerGoesOn

------------------------------------------------------------------------------
(* Steps of the server. *)

LEMMA LostIsNoWord == Lost \notin {"ok", "no", "open", "error"}
BY WordsAssumption

LEMMA SessionServed ==
  ASSUME IInv, NEW t \in world.tabs, NEW s \in Slots, ServeSession(t, s)
  PROVE  IInv'
<1> USE DEF Waiting, Is
<1>1. CASE ServeStatus(t, s)
  <2>1. SessionStays /\ ServerGoesOn
    BY <1>1, SameServer DEF ServeStatus, session, SessionStays
  <2>2. PICK a : /\ Answer(t, s, a)
                 /\ \/ a = IF sealed THEN "sealed" ELSE "open"
                    \/ a = "error" /\ "refuse" \in world.faults
    BY <1>1 DEF ServeStatus
  <2>3. flight[t][s] # None /\ flight[t][s].kind \in {"bootStatus", "appStatus"}
    BY <1>1 DEF ServeStatus
  <2>4. Faithful(Answered(flight[t][s], a))
    BY <2>2, <2>3 DEF Faithful, Answered, LookupKinds, Calm
  <2> QED BY <2>1, <2>2, <2>3, <2>4, AnswerStep
<1>2. CASE ServeLookup(t, s)
  <2> DEFINE tok == flight[t][s].tok
  <2>0. PICK a :
          /\ Answer(t, s, a)
          /\ \/ /\ a = IF Works(tok) THEN "ok" ELSE "no"
                /\ refused' = IF sealed \/ tok \in valid THEN refused
                              ELSE refused \cup {tok}
             \/ "refuse" \in world.faults /\ a = "no" /\ refused' = refused
    BY <1>2 DEF ServeLookup
  <2>1. flight[t][s] # None /\ flight[t][s].kind \in LookupKinds
    BY <1>2 DEF ServeLookup, LookupKinds
  <2>2. SessionStays /\ ServerGoesOn
    BY <1>2, <2>0 DEF ServeLookup, session, server, SessionStays, ServerGoesOn, IInv, Types
  <2>3. Faithful(Answered(flight[t][s], a))
    <3>1. Works(tok) => tok # None
      BY NoneAssumption DEF Works, IInv, Types
    <3> QED BY <2>0, <2>1, <3>1 DEF Faithful, Answered, Works, LookupKinds, Calm
  <2> QED BY <2>0, <2>1, <2>2, <2>3, AnswerStep
<1>3. CASE ServeCredentials(t, s)
  <2>1. PICK a : /\ Answer(t, s, a)
                 /\ \/ UNCHANGED <<valid, issued>>
                    \/ /\ a \in world.tokens
                       /\ issued' = issued \cup {a} /\ valid' = valid \cup {a}
    BY <1>3 DEF ServeCredentials
  <2>2. SessionStays /\ flight[t][s] # None /\ flight[t][s].kind = "loginCreds"
    BY <1>3 DEF ServeCredentials, session, SessionStays
  <2>3. ServerGoesOn
    BY <1>3, <2>1, TabsOfWorld DEF ServeCredentials, ServerGoesOn, IInv, Types
  <2>4. Faithful(Answered(flight[t][s], a))
    BY <2>2 DEF Faithful, Answered, LookupKinds
  <2> QED BY <2>1, <2>2, <2>3, <2>4, AnswerStep
<1>4. CASE ServeShare(t, s)
  <2>1. PICK a : Answer(t, s, a)
    BY <1>4 DEF ServeShare
  <2>2. SessionStays /\ flight[t][s] # None /\ flight[t][s].kind = "unseal"
    BY <1>4 DEF ServeShare, session, SessionStays
  <2>3. ServerGoesOn
    BY <1>4 DEF ServeShare, ServerGoesOn, IInv, Types
  <2>4. Faithful(Answered(flight[t][s], a))
    BY <2>2 DEF Faithful, Answered, LookupKinds
  <2> QED BY <2>1, <2>2, <2>3, <2>4, AnswerStep
<1>5. CASE LoseAnswer(t, s)
  <2>1. SessionStays /\ ServerGoesOn /\ flight[t][s] # None /\ Answer(t, s, Lost)
    BY <1>5, SameServer DEF LoseAnswer, session, SessionStays
  <2>2. Faithful(Answered(flight[t][s], Lost))
    BY LostIsNoWord DEF Faithful, Answered
  <2> QED BY <2>1, <2>2, AnswerStep
<1> QED BY <1>1, <1>2, <1>3, <1>4, <1>5 DEF ServeSession, ServeLogin

LEMMA ScreenServed ==
  ASSUME IInv, NEW t \in world.tabs, NEW s \in Slots, ServeScreen(t, s)
  PROVE  IInv'
<1>1. /\ SessionStays /\ UNCHANGED <<sealed, issued, refused>> /\ valid' \subseteq valid
      /\ flight[t][s] # None /\ flight[t][s].kind \in AppKinds
      /\ \E a : Answer(t, s, a)
  BY DEF ServeScreen, RefuseRequest, ServeList, ServeEnable, ServeSecret, ServeLoad,
         ServeSave, ServeCreate, ServeRevoke, Granted, Waiting, Is, AppKinds, ScreenKinds,
         session, server, SessionStays
<1>2. PICK a : Answer(t, s, a)
  BY <1>1
<1>3. Faithful(Answered(flight[t][s], a))
  BY <1>1 DEF Faithful, Answered, LookupKinds, AppKinds, ScreenKinds
<1>4. ServerGoesOn
  BY <1>1 DEF ServerGoesOn, IInv, Types
<1> QED BY <1>1, <1>2, <1>3, <1>4, AnswerStep

LEMMA EnvironmentKeeps ==
  ASSUME IInv, OpenServer \/ SealServer \/ RevokeToken
  PROVE  IInv'
<1>1. SessionStays /\ UNCHANGED flight
  BY DEF OpenServer, SealServer, RevokeToken, session, SessionStays
<1>2. ServerGoesOn
  BY DEF OpenServer, SealServer, RevokeToken, ServerGoesOn, IInv, Types
<1> QED BY <1>1, <1>2, StillStep

------------------------------------------------------------------------------
(* Steps of the screens. *)

\* Drawing a screen detaches console lines and takes one slot.
LEMMA RenderPuts ==
  ASSUME Shape, NEW t \in Tabs, NEW s \in Slots, NEW nav, NEW v, NEW known,
         token[t] \in Tokens \cup {None}, RenderView(t, s, nav, v, known)
  PROVE  /\ Shape'
         /\ \A u \in Tabs \ {t}, r \in Slots : flight'[u][r] = flight[u][r]
         /\ \A r \in Slots : flight'[t][r] # None =>
              \/ flight'[t][r].kind \in {"list", "oldLine"}
              \/ flight'[t][r] = flight[t][r]
<1> DEFINE new == IF Asks(v, known) THEN Sent("list", token[t], v) ELSE None
           row == [r \in Slots |-> IF r = s THEN new ELSE Detached(flight[t])[r]]
<1>1. flight' = [flight EXCEPT ![t] = [Detached(flight[t]) EXCEPT ![s] = new]]
  BY DEF RenderView
<1>2. [Detached(flight[t]) EXCEPT ![s] = new] = row
  BY DEF Detached
<1>3. DOMAIN flight = Tabs /\ \A u \in Tabs : flight[u] = [r \in Slots |-> flight[u][r]]
  BY DEF Shape
<1>4. flight' = [u \in Tabs |-> IF u = t THEN row ELSE flight[u]]
  <2>1. flight = [u \in Tabs |-> flight[u]]
    BY <1>3 DEF Shape
  <2> HIDE DEF row
  <2>2. flight' = [flight EXCEPT ![t] = row]
    BY <1>1, <1>2
  <2> QED BY <2>1, <2>2
<1>5. \A r \in Slots : row[r] # None =>
        /\ row[r].tok \in Tokens \cup {None}
        /\ row[r] = [kind |-> row[r].kind, tok |-> row[r].tok, arg |-> row[r].arg,
                     ans |-> row[r].ans]
        /\ row[r].kind \in {"list", "oldLine"} \/ row[r] = flight[t][r]
  <2> SUFFICES ASSUME NEW r \in Slots, row[r] # None
               PROVE  /\ row[r].tok \in Tokens \cup {None}
                      /\ row[r] = [kind |-> row[r].kind, tok |-> row[r].tok,
                                   arg |-> row[r].arg, ans |-> row[r].ans]
                      /\ \/ row[r].kind \in {"list", "oldLine"}
                         \/ row[r] = flight[t][r]
    OBVIOUS
  <2>1. CASE r = s
    BY <2>1 DEF Sent
  <2>2. CASE r # s /\ flight[t][r] # None /\ flight[t][r].kind = "line"
    <3>1. row[r] = [flight[t][r] EXCEPT !.kind = "oldLine"]
      BY <2>2 DEF Detached
    <3>2. flight[t][r] = [kind |-> flight[t][r].kind, tok |-> flight[t][r].tok,
                          arg |-> flight[t][r].arg, ans |-> flight[t][r].ans]
      BY <2>2 DEF Shape
    <3>3. flight[t][r].tok \in Tokens \cup {None}
      BY <2>2 DEF Shape
    <3>4. row[r] = [kind |-> "oldLine", tok |-> flight[t][r].tok,
                    arg |-> flight[t][r].arg, ans |-> flight[t][r].ans]
      BY <3>1, <3>2
    <3> QED BY <3>3, <3>4
  <2>3. CASE r # s /\ ~(flight[t][r] # None /\ flight[t][r].kind = "line")
    <3>1. row[r] = flight[t][r]
      BY <2>3 DEF Detached
    <3> QED BY <3>1 DEF Shape
  <2> QED BY <2>1, <2>2, <2>3
<1>6. flight' = [u \in Tabs |-> [r \in Slots |-> flight'[u][r]]]
  <2>1. \A u \in Tabs : flight'[u] = [r \in Slots |-> flight'[u][r]]
    BY <1>3, <1>4
  <2>2. DOMAIN flight' = Tabs /\ flight' = [u \in Tabs |-> flight'[u]]
    BY <1>4
  <2> QED BY <2>1, <2>2
<1>7. flight'[t] = row /\ \A u \in Tabs \ {t} : flight'[u] = flight[u]
  BY <1>4
<1> HIDE DEF row
<1>8. Shape'
  BY <1>5, <1>6, <1>7 DEF Shape
<1> QED BY <1>5, <1>7, <1>8

LEMMA RenderStep ==
  ASSUME IInv, NEW t \in world.tabs, NEW s \in Slots, NEW nav, NEW v, NEW known,
         RenderView(t, s, nav, v, known), screen[t] = "app", SessionStays, ServerGoesOn
  PROVE  IInv'
<1>0. t \in Tabs /\ (\A u \in Tabs : Good(u)) /\ token[t] \in Tokens \cup {None}
  BY TabsOfWorld DEF IInv, Types
<1>1. /\ Shape'
      /\ \A u \in Tabs \ {t}, r \in Slots : flight'[u][r] = flight[u][r]
      /\ \A r \in Slots : flight'[t][r] # None =>
           \/ flight'[t][r].kind \in {"list", "oldLine"}
           \/ flight'[t][r] = flight[t][r]
  BY <1>0, RenderPuts DEF IInv
<1>2. {"list", "oldLine"} \subseteq AppKinds
      /\ AppKinds \cap (BootKinds \cup LoginKinds \cup LookupKinds) = {}
  BY DEF AppKinds, ScreenKinds, BootKinds, LoginKinds, LookupKinds
<1>3. Placed(t)'
  BY <1>0, <1>1, <1>2 DEF Good, Placed, SessionStays
<1>4. Orderly(t)'
  <2>1. screen'[t] = "app" /\ KindsOn["app"] = AppKinds
    BY DEF SessionStays, KindsOn
  <2> QED BY <1>0, <1>1, <1>2, <2>1 DEF Good, Orderly, SessionStays
<1>5. Kept(t)'
  BY <1>0, <1>1 DEF Good, Kept, SessionStays, ServerGoesOn, Calm
<1>6. \A u \in Tabs : Good(u)'
  <2> SUFFICES ASSUME NEW u \in Tabs, u # t PROVE Good(u)'
    BY <1>3, <1>4, <1>5 DEF Good
  <2> QED BY <1>0, <1>1, OtherTab DEF SessionStays
<1>7. SignOutSticks'
  BY DEF IInv, SignOutSticks, SessionStays
<1> QED BY <1>1, <1>6, <1>7, TypesStay DEF IInv

LEMMA ScreenHandled ==
  ASSUME IInv, NEW t \in world.tabs, NEW s \in Slots, HandleScreen(t, s)
  PROVE  IInv'
<1>1. SessionStays /\ UNCHANGED <<server, refused>>
  BY DEF HandleScreen, ListArrived, MountEnabled, SecretShown, PolicyLoaded, PolicySaved,
         TokenCreated, LeaseRevoked, LineAnswered, ScreenLost, Took, session, SessionStays
<1>2. ServerGoesOn
  BY <1>1, SameServer
<1>3. flight[t][s] # None /\ flight[t][s].kind \in AppKinds
  BY DEF HandleScreen, ListArrived, MountEnabled, SecretShown, PolicyLoaded, PolicySaved,
         TokenCreated, LeaseRevoked, LineAnswered, ScreenLost, Took, Arrived, Is,
         AppKinds, ScreenKinds
<1>4. Done(t, s) \/ \E v : Call(t, s, "list", token[t], v)
  BY DEF HandleScreen, ListArrived, MountEnabled, SecretShown, PolicyLoaded, PolicySaved,
         TokenCreated, LeaseRevoked, LineAnswered, ScreenLost
<1>5. CASE Done(t, s)
  BY <1>1, <1>2, <1>5, DoneStep
<1>6. CASE \E v : Call(t, s, "list", token[t], v)
  <2>1. PICK v : Call(t, s, "list", token[t], v)
    BY <1>6
  <2>2. screen[t] = "app" /\ "list" \in AppKinds
    BY <1>3, OnApp DEF AppKinds, ScreenKinds
  <2> QED BY <1>1, <1>2, <2>1, <2>2, CallStep
<1> QED BY <1>4, <1>5, <1>6

LEMMA AskStep ==
  ASSUME IInv, NEW t \in world.tabs, NEW s \in Slots, NEW v, NEW kind \in AppKinds,
         NEW arg, Ask(t, s, v, kind, arg)
  PROVE  IInv'
<1>1. Call(t, s, kind, token[t], arg) /\ screen[t] = "app"
  BY DEF Ask, On
<1>2. SessionStays /\ ServerGoesOn
  BY SameServer DEF Ask, session, SessionStays
<1> QED BY <1>1, <1>2, CallStep

LEMMA ScreenUsed ==
  ASSUME IInv, NEW t \in world.tabs, NEW s \in Slots, UseScreen(t, s)
  PROVE  IInv'
<1> USE DEF AppKinds, ScreenKinds
<1>1. ASSUME NEW v \in Views, Navigate(t, s, v) PROVE IInv'
  <2>1. SessionStays /\ ServerGoesOn
    BY <1>1, SameServer DEF Navigate, session, SessionStays
  <2>2. RenderView(t, s, v, v, shell[t].version) /\ screen[t] = "app"
    BY <1>1 DEF Navigate
  <2> QED BY <2>1, <2>2, RenderStep
<1>2. CASE EnableMount(t, s)
  BY <1>2, AskStep DEF EnableMount
<1>3. CASE ReadSecret(t, s)
  BY <1>3, AskStep DEF ReadSecret
<1>4. CASE WriteSecret(t, s)
  BY <1>4, AskStep DEF WriteSecret
<1>5. CASE LoadPolicy(t, s)
  BY <1>5, AskStep DEF LoadPolicy
<1>6. CASE SavePolicy(t, s)
  BY <1>6, AskStep DEF SavePolicy
<1>7. CASE CreateToken(t, s)
  BY <1>7, AskStep DEF CreateToken
<1>8. CASE RevokeLease(t, s)
  BY <1>8, AskStep DEF RevokeLease
<1>9. CASE EnterLine(t, s)
  <2>1. PICK line \in Lines :
          \/ Ask(t, s, "console", "line", RunCommand(line))
          \/ UNCHANGED <<session, server, flight, refused, world>>
    BY <1>9 DEF EnterLine
  <2>2. CASE Ask(t, s, "console", "line", RunCommand(line))
    BY <2>2, AskStep
  <2>3. CASE UNCHANGED <<session, server, flight, refused, world>>
    BY <2>3, StillStep, SameServer DEF session, SessionStays
  <2> QED BY <2>1, <2>2, <2>3
<1> QED
  BY <1>1, <1>2, <1>3, <1>4, <1>5, <1>6, <1>7, <1>8, <1>9 DEF UseScreen

LEMMA PolicyEdited ==
  ASSUME IInv, NEW t \in world.tabs, EditPolicy(t)
  PROVE  IInv'
BY StillStep, SameServer DEF EditPolicy, session, SessionStays

LEMMA AppDrawn ==
  ASSUME IInv, NEW t \in world.tabs, NEW s \in Slots, OpenApp(t, s)
  PROVE  IInv'
<1>1. /\ SessionStays /\ UNCHANGED <<server, refused>>
      /\ flight[t][s] # None /\ flight[t][s].kind = "appStatus"
  BY DEF OpenApp, AppOpened, Arrived, Is, SessionStays
<1>2. screen[t] = "app"
  BY <1>1, OnApp DEF AppKinds
<1>3. RenderView(t, s, dom[t].nav, "secrets", shell'[t].version)
  BY DEF OpenApp
<1> QED BY <1>1, <1>2, <1>3, SameServer, RenderStep

------------------------------------------------------------------------------
(* Steps of the session. *)

\* A step of tab t.
LEMMA TabStep ==
  ASSUME IInv, NEW t \in world.tabs, Shape', Types', Good(t)', SignOutSticks',
         ServerGoesOn, world' = world,
         \A u \in Tabs \ {t} :
           /\ u \in signedOut' <=> u \in signedOut
           /\ screen'[u] = screen[u] /\ token'[u] = token[u]
           /\ leaving'[u] = leaving[u] /\ accepted'[u] = accepted[u]
           /\ \A r \in Slots : flight'[u][r] = flight[u][r]
  PROVE  IInv'
<1>1. \A u \in Tabs \ {t} : Good(u)'
  BY OtherTab DEF IInv
<1> QED BY <1>1 DEF IInv

\* A request of boot is a loading page's only one; a request that is neither of
\* boot nor of the app comes from the login form, or from a hasty user.
LEMMA WhichPage ==
  ASSUME IInv, NEW t \in world.tabs, NEW s \in Slots, flight[t][s] # None
  PROVE  /\ flight[t][s].kind \in BootKinds =>
              /\ screen[t] = "none"
              /\ \A r \in Slots : flight[t][r] # None => r = s
         /\ flight[t][s].kind \notin BootKinds => screen[t] # "none"
         /\ flight[t][s].kind \in LoginKinds \cup {"unseal"} /\ world.manner # "hasty" =>
              /\ screen[t] = "login"
              /\ \A r \in Slots : flight[t][r] # None => r = s
<1>1. t \in Tabs /\ Good(t) /\ screen[t] \in {"none", "login", "app"}
  BY TabsOfWorld DEF IInv, Types
<1>2. (LoginKinds \cup {"unseal"}) \cap (AppKinds \cup BootKinds) = {}
  BY DEF LoginKinds, AppKinds, ScreenKinds, BootKinds
<1>3. KindsOn["none"] = BootKinds /\ KindsOn["app"] = AppKinds
  BY DEF KindsOn
<1>4. screen[t] # "app" /\ world.manner # "hasty" =>
        \A r \in Slots : flight[t][r] # None => r = s
  BY <1>1 DEF Good, Orderly
<1>5. flight[t][s].kind \in LoginKinds \cup {"unseal"} /\ world.manner # "hasty"
        => screen[t] = "login"
  BY <1>1, <1>2, <1>3 DEF Good, Orderly
<1> QED BY <1>1, <1>4, <1>5 DEF Good, Placed

LEMMA BootSealedKeeps ==
  ASSUME IInv, NEW t \in world.tabs, NEW s \in Slots, BootSealed(t, s)
  PROVE  IInv'
<1>0. t \in Tabs /\ Shape /\ Types /\ Good(t)
  BY TabsOfWorld DEF IInv
<1>1. Shape' /\ Put(t, s, None)
  BY <1>0, DonePuts DEF BootSealed
<1>2. \A r \in Slots : flight'[t][r] = None
  BY <1>0, <1>1, WhichPage DEF BootSealed, Arrived, Is, Put, BootKinds
<1>3. /\ screen' = [screen EXCEPT ![t] = "login"] /\ ServerGoesOn
      /\ UNCHANGED <<stored, token, leaving, accepted, signedOut, world>>
  BY SameServer DEF BootSealed
<1>4. Types'
  BY <1>0, <1>3 DEF Types, ServerGoesOn
<1>5. Placed(t)' /\ Orderly(t)' /\ Kept(t)'
  <2>1. screen'[t] = "login"
    BY <1>0, <1>3 DEF Types
  <2>2. Placed(t)' /\ Orderly(t)'
    BY <1>2, <2>1 DEF Placed, Orderly
  <2>3. Kept(t)'
    BY <1>0, <1>2, <1>3 DEF Good, Kept, Calm
  <2> QED BY <2>2, <2>3
<1>6. SignOutSticks'
  BY <1>3 DEF IInv, SignOutSticks
<1> QED BY <1>0, <1>1, <1>3, <1>4, <1>5, <1>6, TabStep DEF Good, Put, Types

LEMMA BootOpenKeeps ==
  ASSUME IInv, NEW t \in world.tabs, NEW s \in Slots, BootOpen(t, s)
  PROVE  IInv'
<1>0. t \in Tabs /\ Shape /\ Types /\ Good(t)
  BY TabsOfWorld DEF IInv
<1>1. /\ flight[t][s] # None /\ flight[t][s].kind = "bootStatus"
      /\ flight[t][s].ans \in {"open", "error"}
  BY DEF BootOpen, Arrived, Is
<1>2. screen[t] = "none" /\ \A r \in Slots : flight[t][r] # None => r = s
  BY <1>1, WhichPage DEF BootKinds
<1>3. /\ UNCHANGED <<stored, token, leaving, accepted, signedOut, world>> /\ ServerGoesOn
      /\ UNCHANGED <<sealed, refused>>
  BY SameServer DEF BootOpen, server
<1>4. SignOutSticks'
  BY <1>3 DEF IInv, SignOutSticks
<1>5. CASE Call(t, s, "bootLookup", token[t], None) /\ UNCHANGED screen
  <2>1. Shape' /\ Put(t, s, Sent("bootLookup", token[t], None))
    BY <1>0, <1>5, CallPuts DEF Types
  <2>2. \A r \in Slots : flight'[t][r] # None =>
          /\ r = s /\ flight'[t][r].kind = "bootLookup"
          /\ flight'[t][r].tok = token[t] /\ flight'[t][r].ans = None
    BY <1>0, <1>2, <2>1 DEF Put, Sent
  <2>3. None \notin {"ok", "no"}
    BY WordsAssumption
  <2>4. Placed(t)'
    BY <1>2, <1>5, <2>2 DEF Placed, AppKinds, ScreenKinds, BootKinds
  <2>5. Orderly(t)'
    BY <1>0, <1>2, <1>3, <1>5, <2>2, <2>3
       DEF Orderly, KindsOn, BootKinds, LoginKinds, LookupKinds
  <2>6. Kept(t)'
    <3>1. world.tabs = {t} /\ Calm => ~sealed /\ token[t] = stored
      BY <1>0, <1>1 DEF Good, Kept
    <3> QED BY <1>3, <2>2, <2>3, <3>1 DEF Kept, Calm
  <2>7. Types'
    BY <1>0, <1>3, <1>5 DEF Types, ServerGoesOn
  <2> QED BY <1>0, <1>3, <1>4, <1>5, <2>1, <2>4, <2>5, <2>6, <2>7, TabStep DEF Good, Put
<1>6. CASE Done(t, s) /\ screen' = [screen EXCEPT ![t] = "login"]
  <2>1. Shape' /\ Put(t, s, None)
    BY <1>0, <1>6, DonePuts
  <2>2. (\A r \in Slots : flight'[t][r] = None) /\ screen'[t] = "login"
    BY <1>0, <1>2, <1>6, <2>1 DEF Put, Types
  <2>3. Placed(t)' /\ Orderly(t)'
    BY <2>2 DEF Placed, Orderly
  <2>4. Kept(t)'
    BY <1>0, <1>3, <2>2 DEF Good, Kept, Calm
  <2>5. Types'
    BY <1>0, <1>3, <1>6 DEF Types, ServerGoesOn
  <2> QED BY <1>0, <1>3, <1>4, <1>6, <2>1, <2>3, <2>4, <2>5, TabStep DEF Good, Put, Types
<1> QED BY <1>5, <1>6 DEF BootOpen

\* Signing in, and a stored token's acceptance: v is the token accepted.
LEMMA ShowAppKeeps ==
  ASSUME IInv, NEW t \in world.tabs, NEW s \in Slots, NEW v \in Tokens \cup {None},
         flight[t][s] # None, flight[t][s].kind \in BootKinds \cup LoginKinds,
         \/ UNCHANGED <<token, stored>>
         \/ SetToken(t, v) /\ flight[t][s].kind \in LoginKinds,
         world.manner # "hasty" => token'[t] = v /\ v # None,
         ShowApp(t, s, v), ServerGoesOn, UNCHANGED <<leaving, signedOut, world>>
  PROVE  IInv'
<1>0. t \in Tabs /\ Shape /\ Types /\ Good(t)
  BY TabsOfWorld DEF IInv
<1>1. /\ token' \in [Tabs -> Tokens \cup {None}] /\ stored' \in Tokens \cup {None}
      /\ \A u \in Tabs \ {t} : token'[u] = token[u]
  BY <1>0 DEF SetToken, Types
<1>2. /\ screen' = [screen EXCEPT ![t] = "app"]
      /\ accepted' = [accepted EXCEPT ![t] = v]
  BY DEF ShowApp
<1>3. Shape' /\ Put(t, s, Sent("appStatus", token'[t], None))
  BY <1>0, <1>1, CallPuts DEF ShowApp
<1>4. screen'[t] = "app" /\ accepted'[t] = v /\ Types'
  BY <1>0, <1>1, <1>2 DEF Types, ServerGoesOn
<1>5. /\ flight'[t][s].kind = "appStatus"
      /\ \A r \in Slots \ {s} : flight'[t][r] = flight[t][r]
  BY <1>0, <1>3 DEF Put, Sent
<1>6. \A r \in Slots \ {s} : flight[t][r] # None =>
        flight[t][r].kind \notin BootKinds /\ world.manner = "hasty"
  BY WhichPage
<1>7. "appStatus" \in AppKinds /\ "appStatus" \notin BootKinds \cup LoginKinds \cup LookupKinds
  BY DEF AppKinds, BootKinds, LoginKinds, LookupKinds
<1>8. Placed(t)'
  BY <1>4, <1>5, <1>6, <1>7 DEF Placed
<1>9. Orderly(t)'
  <2>1. KindsOn["app"] = AppKinds
    BY DEF KindsOn
  <2> QED BY <1>4, <1>5, <1>6, <1>7, <2>1 DEF Orderly
<1>10. Kept(t)'
  <2>1. "bootStatus" \in BootKinds /\ "bootLookup" \in BootKinds
    BY DEF BootKinds
  <2>2. \A r \in Slots : flight'[t][r] # None => flight'[t][r].kind \notin BootKinds
    BY <1>5, <1>6, <1>7
  <2>3. world.tabs = {t} /\ Calm => token'[t] = stored'
    BY <1>0 DEF Good, Kept, SetToken, Types
  <2> QED BY <2>1, <2>2, <2>3 DEF Kept, Calm
<1>11. SignOutSticks'
  <2>1. CASE UNCHANGED <<token, stored>>
    BY <2>1 DEF IInv, SignOutSticks
  <2>2. CASE flight[t][s].kind \in LoginKinds
    <3>1. world.manner # "hasty" => t \notin signedOut
      BY <1>0, <2>2 DEF Good, Orderly
    <3> QED BY <3>1 DEF SignOutSticks
  <2> QED BY <2>1, <2>2
<1>12. Good(t)'
  BY <1>8, <1>9, <1>10 DEF Good
<1> QED BY <1>0, <1>1, <1>2, <1>3, <1>4, <1>11, <1>12, TabStep DEF Put, Types

LEMMA LookupAccepted ==
  ASSUME IInv, NEW t \in world.tabs, NEW s \in Slots,
         BootAccepted(t, s) \/ TokenAccepted(t, s)
  PROVE  IInv'
<1> DEFINE v == flight[t][s].tok
<1>1. /\ flight[t][s] # None /\ flight[t][s].ans = "ok"
      /\ flight[t][s].kind \in LookupKinds
  BY DEF BootAccepted, TokenAccepted, Arrived, Is, LookupKinds
<1>2. /\ UNCHANGED <<token, stored, leaving, signedOut, world>> /\ ShowApp(t, s, v)
      /\ ServerGoesOn
  BY SameServer DEF BootAccepted, TokenAccepted
<1>3. t \in Tabs /\ Shape /\ Good(t)
  BY TabsOfWorld DEF IInv
<1>4. v \in Tokens \cup {None}
  BY <1>1, <1>3 DEF Shape
<1>5. world.manner # "hasty" => token'[t] = v /\ v # None
  BY <1>1, <1>2, <1>3 DEF Good, Orderly
<1>6. flight[t][s].kind \in BootKinds \cup LoginKinds
  BY <1>1 DEF LookupKinds, BootKinds, LoginKinds
<1> QED BY <1>1, <1>2, <1>4, <1>5, <1>6, ShowAppKeeps

LEMMA CredentialsAcceptedKeeps ==
  ASSUME IInv, NEW t \in world.tabs, NEW s \in Slots, CredentialsAccepted(t, s)
  PROVE  IInv'
<1>1. PICK v \in Tokens :
        /\ flight[t][s] # None /\ flight[t][s].kind = "loginCreds"
        /\ SetToken(t, v) /\ ShowApp(t, s, v)
        /\ UNCHANGED <<leaving, signedOut, server, refused, world>>
  BY DEF CredentialsAccepted, Arrived, Is
<1>2. token'[t] = v /\ v # None
  BY <1>1, TabsOfWorld, NoneAssumption DEF SetToken, IInv, Types
<1>3. flight[t][s].kind \in LoginKinds
  BY <1>1 DEF LoginKinds
<1> QED BY <1>1, <1>2, <1>3, SameServer, ShowAppKeeps

\* A refused token is given up, and the login form shown.
LEMMA TokenGivenUp ==
  ASSUME IInv, NEW t \in world.tabs, NEW s \in Slots,
         BootRefused(t, s) \/ LoginFailed(t, s)
  PROVE  IInv'
<1>0. t \in Tabs /\ Shape /\ Types /\ Good(t)
  BY TabsOfWorld DEF IInv
<1>1. /\ SetToken(t, None) /\ Done(t, s)
      /\ UNCHANGED <<leaving, accepted, signedOut, world>> /\ ServerGoesOn
      /\ screen' = [screen EXCEPT ![t] = "login"] \/ UNCHANGED screen
  BY SameServer DEF BootRefused, LoginFailed
<1>2. Shape' /\ Put(t, s, None)
  BY <1>0, <1>1, DonePuts
<1>3. /\ token'[t] = None /\ stored' = None
      /\ \A u \in Tabs \ {t} : token'[u] = token[u] /\ screen'[u] = screen[u]
  BY <1>0, <1>1 DEF SetToken, Types
<1>4. Types'
  BY <1>0, <1>1 DEF Types, SetToken, ServerGoesOn
<1>5. /\ flight'[t][s] = None
      /\ \A r \in Slots \ {s} : flight'[t][r] = flight[t][r]
  BY <1>0, <1>2 DEF Put
<1>6. screen'[t] # "none" /\ \A r \in Slots \ {s} : flight[t][r] # None =>
        /\ flight[t][r].kind \notin BootKinds /\ world.manner = "hasty"
        /\ flight[t][r].kind \in AppKinds => screen'[t] = "app"
  <2>1. CASE BootRefused(t, s)
    <3>1. \A r \in Slots \ {s} : flight[t][r] = None
      BY <2>1, WhichPage DEF BootRefused, Arrived, Is, BootKinds
    <3> QED BY <1>0, <2>1, <3>1 DEF BootRefused, Types
  <2>2. CASE LoginFailed(t, s)
    <3>1. flight[t][s] # None /\ flight[t][s].kind \in LoginKinds
      BY <2>2 DEF LoginFailed, Arrived, Is, LoginKinds
    <3>2. flight[t][s].kind \notin BootKinds
      BY <3>1 DEF LoginKinds, BootKinds
    <3> QED BY <1>0, <2>2, <3>1, <3>2, WhichPage DEF LoginFailed, Good, Placed
  <2> QED BY <2>1, <2>2
<1>7. world.manner # "hasty" => screen'[t] = "login"
  <2>1. CASE BootRefused(t, s)
    BY <1>0, <2>1 DEF BootRefused, Types
  <2>2. CASE LoginFailed(t, s)
    <3>1. flight[t][s] # None /\ flight[t][s].kind \in LoginKinds
      BY <2>2 DEF LoginFailed, Arrived, Is, LoginKinds
    <3> QED BY <2>2, <3>1, WhichPage DEF LoginFailed
  <2> QED BY <2>1, <2>2
<1>8. Placed(t)' /\ Orderly(t)'
  <2>1. Placed(t)'
    BY <1>5, <1>6 DEF Placed
  <2>2. Orderly(t)'
    BY <1>1, <1>5, <1>6, <1>7 DEF Orderly
  <2> QED BY <2>1, <2>2
<1>9. Kept(t)'
  BY <1>3, <1>5, <1>6 DEF Kept, BootKinds
<1>10. SignOutSticks'
  BY <1>3 DEF SignOutSticks
<1>11. Good(t)'
  BY <1>8, <1>9 DEF Good
<1> QED BY <1>0, <1>1, <1>2, <1>3, <1>4, <1>5, <1>10, <1>11, TabStep DEF Put

LEMMA UnsealedKeeps ==
  ASSUME IInv, NEW t \in world.tabs, NEW s \in Slots, Unsealed(t, s)
  PROVE  IInv'
<1>0. t \in Tabs /\ Shape /\ Types /\ Good(t)
  BY TabsOfWorld DEF IInv
<1>1. /\ leaving' = [leaving EXCEPT ![t] = TRUE] /\ Done(t, s) /\ ServerGoesOn
      /\ UNCHANGED <<stored, token, screen, accepted, signedOut, world, sealed, refused>>
  BY SameServer DEF Unsealed, server
<1>2. Shape' /\ Put(t, s, None)
  BY <1>0, <1>1, DonePuts
<1>3. /\ flight'[t][s] = None
      /\ \A r \in Slots \ {s} : flight'[t][r] = flight[t][r]
  BY <1>0, <1>2 DEF Put
<1>4. Types' /\ leaving'[t] = TRUE
  BY <1>0, <1>1 DEF Types, ServerGoesOn
<1>5. Placed(t)' /\ Orderly(t)' /\ Kept(t)'
  <2>1. Placed(t)'
    BY <1>0, <1>1, <1>3 DEF Good, Placed
  <2>2. Orderly(t)'
    BY <1>0, <1>1, <1>3, <1>4 DEF Good, Orderly
  <2>3. Kept(t)'
    BY <1>0, <1>1, <1>3 DEF Good, Kept, Calm
  <2> QED BY <2>1, <2>2, <2>3
<1>6. SignOutSticks' /\ Good(t)'
  BY <1>1, <1>5 DEF IInv, SignOutSticks, Good
<1>7. \A u \in Tabs \ {t} :
        leaving'[u] = leaving[u] /\ \A r \in Slots : flight'[u][r] = flight[u][r]
  BY <1>0, <1>1, <1>2 DEF Put, Types
<1> QED BY <1>0, <1>1, <1>2, <1>4, <1>6, <1>7, TabStep

LEMMA SessionHandled ==
  ASSUME IInv, NEW t \in world.tabs, NEW s \in Slots, HandleSession(t, s)
  PROVE  IInv'
<1>1. CASE ShareTaken(t, s) \/ SessionLost(t, s)
  <2>1. SessionStays /\ UNCHANGED <<server, refused>> /\ Done(t, s)
    BY <1>1 DEF ShareTaken, SessionLost, session, SessionStays
  <2> QED BY <2>1, SameServer, DoneStep
<1> QED
  BY <1>1, BootSealedKeeps, BootOpenKeeps, LookupAccepted, CredentialsAcceptedKeeps,
     TokenGivenUp, UnsealedKeeps DEF HandleSession

------------------------------------------------------------------------------
\* A request from the login form.
LEMMA SubmitKeeps ==
  ASSUME IInv, NEW t \in world.tabs, NEW s \in Slots,
         NEW kind \in LoginKinds \cup {"unseal"}, NEW v \in Tokens \cup {None},
         screen[t] = "login", flight[t][s] = None,
         world.manner # "hasty" => \A r \in Slots : flight[t][r] = None,
         Call(t, s, kind, v, None), token'[t] = v,
         SetToken(t, v) \/ UNCHANGED <<token, stored>>,
         \/ signedOut' = signedOut \ {t}
         \/ kind = "unseal" /\ UNCHANGED <<token, stored, signedOut>>,
         UNCHANGED <<screen, leaving, accepted, world>>, ServerGoesOn
  PROVE  IInv'
<1>0. t \in Tabs /\ Shape /\ Types /\ Good(t)
  BY TabsOfWorld DEF IInv
<1>1. Shape' /\ Put(t, s, Sent(kind, v, None))
  BY <1>0, CallPuts
<1>2. /\ flight'[t][s].kind = kind /\ flight'[t][s].tok = v /\ flight'[t][s].ans = None
      /\ \A r \in Slots \ {s} : flight'[t][r] = flight[t][r]
  BY <1>0, <1>1 DEF Put, Sent
<1>3. /\ Types'
      /\ \A u \in Tabs \ {t} : token'[u] = token[u]
  BY <1>0 DEF Types, SetToken, ServerGoesOn
<1>4. kind \notin AppKinds /\ kind \notin BootKinds
  BY DEF LoginKinds, AppKinds, ScreenKinds, BootKinds
<1>5. Placed(t)'
  BY <1>0, <1>2, <1>4 DEF Good, Placed
<1>6. Orderly(t)'
  <2>1. KindsOn["login"] = LoginKinds \cup {"unseal"} /\ "unseal" \notin LoginKinds
    BY DEF KindsOn, LoginKinds
  <2>2. None # "ok"
    BY WordsAssumption
  <2>3. \A r \in Slots : flight'[t][r] # None /\ world.manner # "hasty" => r = s
    BY <1>2
  <2> QED BY <1>2, <2>1, <2>2, <2>3 DEF Orderly
<1>7. Kept(t)'
  <2>1. world.tabs = {t} /\ Calm => token'[t] = stored'
    BY <1>0 DEF Good, Kept, SetToken, Types
  <2>2. \A r \in Slots : flight'[t][r] # None => flight'[t][r].kind \notin BootKinds
    BY <1>0, <1>2, <1>4 DEF Good, Placed
  <2> QED BY <2>1, <2>2 DEF Kept, BootKinds, Calm
<1>8. SignOutSticks'
  BY DEF IInv, SignOutSticks
<1>9. Good(t)'
  BY <1>5, <1>6, <1>7 DEF Good
<1> QED BY <1>0, <1>1, <1>3, <1>8, <1>9, TabStep DEF Put

LEMMA SessionUsed ==
  ASSUME IInv, NEW t \in world.tabs, NEW s \in Slots, UseSession(t, s)
  PROVE  IInv'
<1>0. t \in Tabs /\ Types /\ ServerGoesOn
  BY TabsOfWorld, SameServer
     DEF IInv, UseSession, SubmitShare, SubmitToken, SubmitCredentials
<1>1. /\ screen[t] = "login" /\ flight[t][s] = None
      /\ world.manner # "hasty" => \A r \in Slots : flight[t][r] = None
      /\ UNCHANGED <<screen, leaving, accepted, world>>
  BY DEF UseSession, SubmitShare, SubmitToken, SubmitCredentials, Ready, Free, Quiet, session
<1>2. token[t] \in Tokens \cup {None}
  BY <1>0 DEF Types
<1>3. CASE SubmitShare(t, s)
  BY <1>0, <1>1, <1>2, <1>3, SubmitKeeps DEF SubmitShare, session
<1>4. CASE SubmitToken(t, s)
  <2>1. PICK v \in Tokens \cup {None} :
          /\ SetToken(t, v) /\ Call(t, s, "loginLookup", v, None)
          /\ signedOut' = signedOut \ {t}
    BY <1>0, <1>4, TabsOfWorld DEF SubmitToken
  <2>2. token'[t] = v /\ "loginLookup" \in LoginKinds
    BY <1>0, <2>1 DEF SetToken, Types, LoginKinds
  <2> QED BY <1>0, <1>1, <2>1, <2>2, SubmitKeeps
<1>5. CASE SubmitCredentials(t, s)
  BY <1>0, <1>1, <1>2, <1>5, SubmitKeeps DEF SubmitCredentials, LoginKinds
<1> QED BY <1>3, <1>4, <1>5 DEF UseSession

LEMMA SignedOut ==
  ASSUME IInv, NEW t \in Tabs, SignOut(t)
  PROVE  IInv'
<1>0. t \in world.tabs /\ Shape /\ Types /\ Good(t) /\ screen[t] = "app"
  BY DEF IInv, SignOut, Ready
<1>1. /\ SetToken(t, None) /\ leaving' = [leaving EXCEPT ![t] = TRUE]
      /\ signedOut' = signedOut \cup {t} /\ ServerGoesOn
      /\ UNCHANGED <<screen, accepted, flight, world>>
  BY SameServer DEF SignOut
<1>2. /\ Types' /\ Shape' /\ leaving'[t] = TRUE /\ token'[t] = None /\ stored' = None
      /\ \A u \in Tabs \ {t} : token'[u] = token[u] /\ leaving'[u] = leaving[u]
  BY <1>0, <1>1 DEF Types, Shape, SetToken, ServerGoesOn
<1>3. \A s \in Slots : flight[t][s] # None => flight[t][s].kind \notin BootKinds
  BY <1>0 DEF Good, Placed
<1>4. Placed(t)'
  BY <1>0, <1>1 DEF Good, Placed
<1>5. Orderly(t)'
  <2>1. KindsOn["app"] = AppKinds /\ AppKinds \cap (LoginKinds \cup LookupKinds) = {}
    BY DEF KindsOn, AppKinds, ScreenKinds, LoginKinds, LookupKinds
  <2> QED BY <1>0, <1>1, <1>2, <2>1 DEF Good, Orderly
<1>6. Kept(t)'
  BY <1>1, <1>2, <1>3 DEF Kept, BootKinds
<1>7. SignOutSticks' /\ Good(t)'
  BY <1>2, <1>4, <1>5, <1>6 DEF SignOutSticks, Good
<1> QED BY <1>0, <1>1, <1>2, <1>7, TabStep

\* A page that is loaded asks for the seal status.
LEMMA BootSlots ==
  ASSUME NEW v \in Tokens \cup {None}
  PROVE  /\ Boot(v) = [s \in Slots |-> Boot(v)[s]]
         /\ \A s \in Slots : Boot(v)[s] # None =>
              /\ s = 1 /\ Boot(v)[s].kind = "bootStatus" /\ Boot(v)[s].tok = v
              /\ Boot(v)[s].arg = None /\ Boot(v)[s].ans = None
              /\ Boot(v)[s] = [kind |-> Boot(v)[s].kind, tok |-> Boot(v)[s].tok,
                               arg |-> Boot(v)[s].arg, ans |-> Boot(v)[s].ans]
BY DEF Boot, Sent

\* A tab that has just been loaded.
LEMMA Loaded ==
  ASSUME NEW t \in Tabs,
         screen[t] = "none", world.tabs = {t} => token[t] = stored,
         \A s \in Slots : flight[t][s] # None =>
           s = 1 /\ flight[t][s].kind = "bootStatus" /\ flight[t][s].ans = None
  PROVE  Good(t)
<1>1. None \notin {"open", "error"}
  BY WordsAssumption
<1>2. /\ "bootStatus" \in BootKinds
      /\ "bootStatus" \notin AppKinds \cup LookupKinds \cup LoginKinds
      /\ KindsOn["none"] = BootKinds
  BY DEF BootKinds, AppKinds, ScreenKinds, LookupKinds, LoginKinds, KindsOn
<1>3. Placed(t)
  BY <1>2 DEF Placed
<1>4. Orderly(t)
  BY <1>2 DEF Orderly
<1>5. Kept(t)
  BY <1>1 DEF Kept
<1> QED BY <1>3, <1>4, <1>5 DEF Good

LEMMA PageLoaded ==
  ASSUME IInv, NEW t \in world.tabs, LoadPage(t)
  PROVE  IInv'
<1>0. t \in Tabs /\ Shape /\ Types
  BY TabsOfWorld DEF IInv
<1>1. /\ token'  = [token EXCEPT ![t] = stored]
      /\ screen' = [screen EXCEPT ![t] = "none"]
      /\ leaving' = [leaving EXCEPT ![t] = FALSE]
      /\ accepted' = [accepted EXCEPT ![t] = None]
      /\ UNCHANGED <<stored, signedOut, world>> /\ ServerGoesOn
  BY SameServer DEF LoadPage
<1>2. flight' = [flight EXCEPT ![t] = Boot(stored)]
  BY DEF LoadPage
<1>3. Types'
  BY <1>0, <1>1 DEF Types, ServerGoesOn
<1>4. flight'[t] = Boot(stored) /\ \A u \in Tabs \ {t} : flight'[u] = flight[u]
  BY <1>0, <1>2 DEF Shape
<1>5. Shape'
  <2>1. flight' = [u \in Tabs |-> flight'[u]]
    BY <1>0, <1>2 DEF Shape
  <2>2. \A u \in Tabs : flight'[u] = [s \in Slots |-> flight'[u][s]]
    <3>1. \A u \in Tabs : flight[u] = [s \in Slots |-> flight[u][s]]
      BY <1>0 DEF Shape
    <3>2. flight'[t] = [s \in Slots |-> flight'[t][s]]
      BY <1>0, <1>4, BootSlots DEF Types
    <3> QED BY <1>4, <3>1, <3>2
  <2>3. flight' = [u \in Tabs |-> [s \in Slots |-> flight'[u][s]]]
    BY <2>1, <2>2
  <2>4. stored \in Tokens \cup {None}
    BY <1>0 DEF Types
  <2> QED BY <1>0, <1>4, <2>3, <2>4, BootSlots DEF Shape
<1>6. Good(t)'
  <2>1. /\ screen'[t] = "none" /\ token'[t] = stored' /\ stored \in Tokens \cup {None}
    BY <1>0, <1>1 DEF Types
  <2>2. \A s \in Slots : flight'[t][s] # None =>
          s = 1 /\ flight'[t][s].kind = "bootStatus" /\ flight'[t][s].ans = None
    <3>1. \A s \in Slots : flight'[t][s] = Boot(stored)[s]
      BY <1>4
    <3>2. \A s \in Slots : Boot(stored)[s] # None =>
            s = 1 /\ Boot(stored)[s].kind = "bootStatus" /\ Boot(stored)[s].ans = None
      BY <2>1, BootSlots
    <3> QED BY <3>1, <3>2
  <2>3. None \notin {"open", "error"}
    BY WordsAssumption
  <2>4. /\ "bootStatus" \in BootKinds
        /\ "bootStatus" \notin AppKinds \cup LookupKinds \cup LoginKinds
        /\ KindsOn["none"] = BootKinds
    BY DEF BootKinds, AppKinds, ScreenKinds, LookupKinds, LoginKinds, KindsOn
  <2>5. Placed(t)'
    BY <2>1, <2>2, <2>4 DEF Placed
  <2>6. Orderly(t)'
    BY <2>1, <2>2, <2>4 DEF Orderly
  <2>7. Kept(t)'
    BY <2>1, <2>2, <2>3 DEF Kept
  <2> QED BY <2>5, <2>6, <2>7 DEF Good
<1>7. SignOutSticks'
  BY <1>1 DEF IInv, SignOutSticks
<1> QED BY <1>0, <1>1, <1>3, <1>4, <1>5, <1>6, <1>7, TabStep DEF Types

------------------------------------------------------------------------------
\* At first a page that loads has asked for the seal status.
LEMMA FirstRequests ==
  ASSUME Init
  PROVE  /\ \A t \in Tabs : flight[t] = [s \in Slots |-> flight[t][s]]
         /\ \A t \in Tabs, s \in Slots : flight[t][s] # None =>
              /\ s = 1 /\ flight[t][s].kind = "bootStatus"
              /\ flight[t][s].arg = None /\ flight[t][s].ans = None
              /\ flight[t][s].tok \in Tokens \cup {None}
              /\ flight[t][s] = [kind |-> flight[t][s].kind, tok |-> flight[t][s].tok,
                                 arg |-> flight[t][s].arg, ans |-> flight[t][s].ans]
<1>1. world \in Worlds /\ InitSession
  BY DEF Init, InitSession
<1>2. stored \in Tokens \cup {None}
  <2>1. world \in World
    BY <1>1, WorldsAssumption
  <2> QED BY <1>1, <2>1 DEF World, InitSession
<1>3. \A t \in Tabs : flight[t] = Boot(stored) \/ flight[t] = [s \in Slots |-> None]
  BY <1>1 DEF InitSession
<1>4. \A t \in Tabs : flight[t] = [s \in Slots |-> flight[t][s]]
  <2>1. Boot(stored) = [s \in Slots |-> Boot(stored)[s]]
    BY <1>2, BootSlots
  <2> SUFFICES ASSUME NEW t \in Tabs PROVE flight[t] = [s \in Slots |-> flight[t][s]]
    OBVIOUS
  <2>2. CASE flight[t] = Boot(stored)
    BY <2>1, <2>2
  <2>3. CASE flight[t] = [s \in Slots |-> None]
    BY <2>3
  <2> QED BY <1>3, <2>2, <2>3
<1>5. ASSUME NEW t \in Tabs, NEW s \in Slots, flight[t][s] # None
      PROVE  /\ s = 1 /\ flight[t][s].kind = "bootStatus"
             /\ flight[t][s].arg = None /\ flight[t][s].ans = None
             /\ flight[t][s].tok \in Tokens \cup {None}
             /\ flight[t][s] = [kind |-> flight[t][s].kind, tok |-> flight[t][s].tok,
                                arg |-> flight[t][s].arg, ans |-> flight[t][s].ans]
  <2>1. flight[t] = Boot(stored)
    BY <1>3, <1>5
  <2>2. flight[t][s] = Boot(stored)[s]
    BY <2>1
  <2>3. Boot(stored)[s] # None
    BY <1>5, <2>2
  <2>4. /\ s = 1 /\ Boot(stored)[s].kind = "bootStatus" /\ Boot(stored)[s].tok = stored
        /\ Boot(stored)[s].arg = None /\ Boot(stored)[s].ans = None
        /\ Boot(stored)[s] =
             [kind |-> Boot(stored)[s].kind, tok |-> Boot(stored)[s].tok,
              arg |-> Boot(stored)[s].arg, ans |-> Boot(stored)[s].ans]
    BY <1>2, <2>3, BootSlots
  <2> QED BY <1>2, <2>2, <2>4
<1> QED BY <1>4, <1>5

\* The invariant holds at first.
THEOREM InitIInv == Init => IInv
<1> SUFFICES ASSUME Init PROVE IInv
  OBVIOUS
<1>1. world \in Worlds /\ InitSession
  BY DEF Init, InitSession
<1>2. /\ world.tokens \subseteq Tokens /\ world.tabs \subseteq Tabs /\ world.tabs # {}
  <2>1. world \in World
    BY <1>1, WorldsAssumption
  <2> QED BY <2>1 DEF World
<1>3. Types
  BY <1>1, <1>2 DEF InitSession, Types
<1>4. \A t \in Tabs, s \in Slots : flight[t][s] # None =>
        /\ s = 1 /\ flight[t][s].kind = "bootStatus" /\ flight[t][s].ans = None
        /\ flight[t][s].tok \in Tokens \cup {None}
        /\ flight[t][s] = [kind |-> flight[t][s].kind, tok |-> flight[t][s].tok,
                           arg |-> flight[t][s].arg, ans |-> flight[t][s].ans]
  BY FirstRequests
<1>5. Shape
  <2>1. flight = [t \in Tabs |-> flight[t]]
    BY <1>1 DEF InitSession
  <2>2. flight = [t \in Tabs |-> [s \in Slots |-> flight[t][s]]]
    BY <2>1, FirstRequests
  <2> QED BY <1>4, <2>2 DEF Shape
<1>6. \A t \in Tabs : Good(t)
  <2>1. \A t \in Tabs : screen[t] = "none" /\ token[t] = stored
    BY <1>1 DEF InitSession
  <2> QED BY <1>4, <2>1, Loaded
<1>7. SignOutSticks
  BY <1>1, <1>2 DEF InitSession, SignOutSticks
<1> QED BY <1>3, <1>5, <1>6, <1>7 DEF IInv

THEOREM NextIInv == IInv /\ [Next]_vars => IInv'
<1> SUFFICES ASSUME IInv, [Next]_vars PROVE IInv'
  OBVIOUS
<1>1. ASSUME NEW t \in world.tabs, NEW s \in Slots, Proceed(t, s) PROVE IInv'
  BY <1>1, SessionServed, ScreenServed, SessionHandled, AppDrawn, ScreenHandled
     DEF Proceed
<1>2. ASSUME NEW t \in world.tabs, NEW s \in Slots,
             UseSession(t, s) \/ UseScreen(t, s)
      PROVE  IInv'
  BY <1>2, SessionUsed, ScreenUsed
<1>3. ASSUME NEW t \in world.tabs, Reload(t) \/ EditPolicy(t) PROVE IInv'
  BY <1>3, PageLoaded, PolicyEdited DEF Reload, UserReload, Leave
<1>4. CASE Environment
  BY <1>4, EnvironmentKeeps, SignedOut DEF Environment, LoseToken
<1>5. CASE UNCHANGED vars
  <2>1. SessionStays /\ UNCHANGED <<flight, server, refused>>
    BY <1>5 DEF vars, SessionStays, server
  <2> QED BY <2>1, SameServer, StillStep
<1> QED BY <1>1, <1>2, <1>3, <1>4, <1>5 DEF Next

\* Tabs, tokens and requests are as IInv says.
THEOREM Inductive == Spec => []IInv
BY InitIInv, NextIInv, PTL DEF Spec

\* Spec has the invariant SignedInAs: in every situation, a user who waits for
\* answers works in the app with the very token the server accepted.
THEOREM SignedInAsHolds == Spec => []SignedInAs
<1>1. IInv => SignedInAs
  BY DEF IInv, Good, Orderly, SignedInAs
<1> QED BY <1>1, Inductive, PTL

\* Spec has the invariant SignOutSticks: after the sign-out of the last tab no
\* handler still under way brings a token back into the browser's storage.
THEOREM SignOutSticksHolds == Spec => []SignOutSticks
<1>1. IInv => SignOutSticks
  BY DEF IInv
<1> QED BY <1>1, Inductive, PTL

------------------------------------------------------------------------------
(* The token in the browser's storage. *)

\* The steps that change it.
LEMMA StoredChanges ==
  ASSUME [Next]_vars, stored' # stored
  PROVE  \/ \E t \in world.tabs, s \in Slots :
              \/ BootRefused(t, s) \/ LoginFailed(t, s) \/ CredentialsAccepted(t, s)
              \/ SubmitToken(t, s)
         \/ \E t \in Tabs : SignOut(t)
<1>1. Next
  BY DEF vars
<1>2. ASSUME NEW t \in world.tabs, NEW s \in Slots, Proceed(t, s)
      PROVE  BootRefused(t, s) \/ LoginFailed(t, s) \/ CredentialsAccepted(t, s)
  <2>1. ~ServeSession(t, s)
    BY DEF ServeSession, ServeLogin, ServeStatus, ServeLookup, ServeCredentials,
           ServeShare, LoseAnswer, session
  <2>2. ~ServeScreen(t, s)
    BY DEF ServeScreen, RefuseRequest, ServeList, ServeEnable, ServeSecret, ServeLoad,
           ServeSave, ServeCreate, ServeRevoke, Granted, session
  <2>3. ~OpenApp(t, s)
    BY DEF OpenApp, AppOpened
  <2>4. ~HandleScreen(t, s)
    BY DEF HandleScreen, ListArrived, MountEnabled, SecretShown, PolicyLoaded,
           PolicySaved, TokenCreated, LeaseRevoked, LineAnswered, ScreenLost, Took, session
  <2>5. HandleSession(t, s)
    BY <1>2, <2>1, <2>2, <2>3, <2>4 DEF Proceed
  <2> QED
    BY <2>5 DEF HandleSession, BootSealed, BootOpen, BootAccepted, Unsealed, ShareTaken,
                TokenAccepted, SessionLost, session
<1>3. ASSUME NEW t \in world.tabs, NEW s \in Slots, UseSession(t, s) \/ UseScreen(t, s)
      PROVE  SubmitToken(t, s)
  <2>1. ~UseScreen(t, s)
    BY DEF UseScreen, Navigate, EnableMount, ReadSecret, WriteSecret, LoadPolicy,
           SavePolicy, CreateToken, RevokeLease, EnterLine, Ask, session
  <2> QED BY <1>3, <2>1 DEF UseSession, SubmitShare, SubmitCredentials, session
<1>4. ~\E t \in world.tabs : Reload(t) \/ EditPolicy(t)
  BY DEF Reload, UserReload, Leave, LoadPage, EditPolicy, session
<1>5. Environment => \E t \in Tabs : SignOut(t)
  BY DEF Environment, LoseToken, OpenServer, SealServer, RevokeToken, session
<1> QED BY <1>1, <1>2, <1>3, <1>4, <1>5 DEF Next

\* Spec has the property BootKeepsToken: loading the page costs a single tab its
\* token only if a server that was unsealed refused that token.
THEOREM BootKeepsTokenHolds == Spec => BootKeepsToken
<1> DEFINE Keeps == \A t \in Tabs :
      world.tabs = {t} /\ {"seal", "refuse"} \cap world.faults = {}
        /\ screen[t] = "none" /\ stored' # stored => stored \in refused
<1>1. IInv /\ [Next]_vars => [Keeps]_vars
  <2> SUFFICES ASSUME IInv, Next, NEW t \in Tabs, world.tabs = {t}, Calm,
                      screen[t] = "none", stored' # stored
               PROVE  stored \in refused
    BY DEF Calm
  <2>1. Good(t)
    BY DEF IInv
  <2>2. \A s \in Slots : BootRefused(t, s) => stored \in refused
    BY <2>1 DEF BootRefused, Arrived, Is, Good, Kept
  <2>3. \A s \in Slots : ~LoginFailed(t, s) /\ ~CredentialsAccepted(t, s)
    BY <2>1 DEF LoginFailed, CredentialsAccepted, Arrived, Is, Good, Placed, BootKinds
  <2>4. \A s \in Slots : ~SubmitToken(t, s)
    BY DEF SubmitToken
  <2>5. ~\E u \in Tabs : SignOut(u)
    BY DEF SignOut, Ready
  <2> QED BY <2>2, <2>3, <2>4, <2>5, StoredChanges
<1> QED BY <1>1, Inductive, PTL DEF Spec, BootKeepsToken
==============================================================================
