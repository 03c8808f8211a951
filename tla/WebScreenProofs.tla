---------------------------- MODULE WebScreenProofs ----------------------------
(***************************************************************************)
(* The screens of WebConsole in every situation (World): what is on a page *)
(* and in its requests has its type, every console line is answered once,  *)
(* the policy editor keeps the texts apart, and a single user who waits    *)
(* sees the server's state.                                                *)
(***************************************************************************)
EXTENDS WebConsoleProofs, FiniteSetTheorems, SequenceTheorems, WellFoundedInduction

ScreenLists == Views \ {"console"}

CardType == [id : Views, shown : Contents \cup {Loading, {}}]

PageType == [nav : Views, view : Views \cup {"none"}, cards : Seq(CardType),
             name : Names \cup {""}, typed : BOOLEAN, body : Texts, hooks : Nat,
             out : {None, "old", "new", "absent", "done", Refused},
             asked : Nat, told : Nat]

\* A list of policies shows all of them once it is loaded, if it is not refused.
PoliciesShown(d) == \A i \in 1..Len(d.cards) :
  d.cards[i].id = "policies" => d.cards[i].shown \in {Loading, {}, Names}

PagesInv == /\ dom \in [Tabs -> PageType]
            /\ \A t \in Tabs : PoliciesShown(dom[t])

VaultInv == /\ mounts \subseteq Paths /\ policies \in [Names -> Texts]
            /\ secret \in {"old", "new", "absent"}
            /\ granted \subseteq Leases \cup Tokens /\ leases \subseteq granted
            /\ renamed \subseteq Names

ServerInv == /\ sealed \in BOOLEAN /\ progress \in 0..(Threshold - 1)
             /\ shell \in [Tabs -> Shell] /\ signedOut \subseteq Tabs
             /\ refused \subseteq Tokens \cup {None}

\* What a request asks for is there, and its answer is one of that kind.
StatusKinds == {"bootStatus", "appStatus"}
WriteKinds  == {"enable", "read", "write", "save", "create", "revoke", "line", "oldLine"}

RequestOK(q) ==
  /\ q.kind \in AppKinds \cup BootKinds \cup LoginKinds \cup {"unseal"} /\ q.arg \in Args
  /\ q.kind \in StatusKinds => q.ans \in {None, Lost, "sealed", "open", "error"}
  /\ q.kind \in LookupKinds => q.ans \in {None, Lost, "ok", "no"}
  /\ q.kind = "loginCreds" => q.ans \in {None, Lost, "no"} \cup Tokens
  /\ q.kind = "unseal" => q.ans \in {None, Lost, "open", "more", "no"}
  /\ q.kind = "list" => /\ q.arg \in ScreenLists
                        /\ q.ans \in {None, Lost, Refused} \cup Contents
                        /\ q.arg = "policies" => q.ans \in {None, Lost, Refused, Names}
  /\ q.kind = "load" => q.arg \in Names /\ q.ans \in {None, Lost, Refused} \cup Texts
  /\ q.kind = "save" => q.arg \in [name : Names, text : Texts, typed : BOOLEAN]
  /\ q.kind = "enable" => q.arg \in Paths
  /\ q.kind \in WriteKinds =>
       q.ans \in {None, Lost, "old", "new", "absent", "done", Refused}

RequestsInv == \A t \in Tabs, s \in Slots :
                 flight[t][s] # None => RequestOK(flight[t][s])

TypeInv == PagesInv /\ VaultInv /\ ServerInv /\ RequestsInv

------------------------------------------------------------------------------
(* Pages. *)

LEMMA PageFields ==
  ASSUME NEW d \in PageType
  PROVE  /\ d.nav \in Views /\ d.view \in Views \cup {"none"} /\ d.cards \in Seq(CardType)
         /\ d.name \in Names \cup {""} /\ d.typed \in BOOLEAN /\ d.body \in Texts
         /\ d.hooks \in Nat /\ d.asked \in Nat /\ d.told \in Nat
         /\ d.out \in {None, "old", "new", "absent", "done", Refused}
         /\ d = [nav |-> d.nav, view |-> d.view, cards |-> d.cards, name |-> d.name,
                 typed |-> d.typed, body |-> d.body, hooks |-> d.hooks, out |-> d.out,
                 asked |-> d.asked, told |-> d.told]
BY DEF PageType

\* What $("#id") finds has that id.
LEMMA FirstFound ==
  ASSUME NEW d \in PageType, NEW v, Has(d, v)
  PROVE  First(d, v) \in 1..Len(d.cards) /\ d.cards[First(d, v)].id = v
<1> DEFINE T == {i \in DOMAIN d.cards : d.cards[i].id = v}
<1>1. d.cards \in Seq(CardType)
  BY DEF PageType
<1>2. DOMAIN d.cards = 1..Len(d.cards) /\ Len(d.cards) \in Nat
  BY <1>1, LenProperties
<1>3. T \subseteq Nat /\ T # {}
  BY <1>2 DEF Has
<1> HIDE DEF T
<1>4. PICK x \in T : \A y \in T : ~(<<y, x>> \in OpToRel(<, Nat))
  BY <1>3, NatLessThanWellFounded, WFMin
<1>5. \A y \in T : x <= y
  <2>1. \A i, j \in Nat : i < j => <<i, j>> \in OpToRel(<, Nat)
    BY DEF OpToRel
  <2>2. x \in Nat /\ \A y \in T : y \in Nat /\ ~(y < x)
    BY <1>3, <1>4, <2>1
  <2> QED BY <2>2
<1>6. Min(T) \in T
  BY <1>5 DEF Min
<1> QED BY <1>2, <1>6 DEF First, T

\* A screen that has just been drawn.
LEMMA RenderedPage ==
  ASSUME NEW nav \in Views, NEW v \in Views, NEW known
  PROVE  Rendered(nav, v, known) \in PageType /\ PoliciesShown(Rendered(nav, v, known))
<1> DEFINE c  == Card(v, known)
           cs == <<c>>
<1>1. c \in CardType /\ c.id = v /\ (v = "policies" => c.shown = Loading)
  BY DEF Card, CardType, Contents
<1> HIDE DEF c
<1>2. cs \in Seq(CardType) /\ Len(cs) = 1 /\ cs[1] = c
  BY <1>1
<1>4. Rendered(nav, v, known) =
        [nav |-> nav, view |-> v, cards |-> cs, name |-> "", typed |-> FALSE, body |-> "",
         hooks |-> 0, out |-> None, asked |-> 0, told |-> 0]
  BY DEF Rendered, c
<1> HIDE DEF cs
<1> DEFINE d == [nav |-> nav, view |-> v, cards |-> cs, name |-> "", typed |-> FALSE, body |-> "",
                 hooks |-> 0, out |-> None, asked |-> 0, told |-> 0]
<1>5. d \in PageType
  BY <1>2 DEF PageType, Texts
<1>6. PoliciesShown(d)
  <2>1. d.cards = cs
    OBVIOUS
  <2> HIDE DEF d
  <2>2. Len(d.cards) = 1 /\ d.cards[1] = c
    BY <1>2, <2>1
  <2>3. \A i \in 1..1 : i = 1
    OBVIOUS
  <2>4. \A i \in 1..Len(d.cards) : d.cards[i] = c
    BY <2>2, <2>3
  <2> QED BY <1>1, <2>4 DEF PoliciesShown
<1> QED BY <1>4, <1>5, <1>6

LEMMA NoPageTyped == NoPage \in PageType /\ PoliciesShown(NoPage)
<1>1. << >> \in Seq(CardType) /\ Len(<< >>) = 0
  BY EmptySeq
<1> QED BY <1>1 DEF NoPage, PageType, PoliciesShown, Texts, Views

\* Only cards and listeners change when a list is filled.
LEMMA FilledFields ==
  ASSUME NEW d \in PageType, NEW v, NEW a
  PROVE  /\ Filled(d, v, a).nav = d.nav /\ Filled(d, v, a).view = d.view
         /\ Filled(d, v, a).name = d.name /\ Filled(d, v, a).typed = d.typed
         /\ Filled(d, v, a).body = d.body
         /\ Filled(d, v, a).out = d.out
         /\ Filled(d, v, a).asked = d.asked /\ Filled(d, v, a).told = d.told
<1> DEFINE i  == First(d, v)
           cs == [d.cards EXCEPT ![i] = [d.cards[i] EXCEPT !.shown = a]]
           h  == IF v = "tokens" THEN d.hooks + 1 ELSE d.hooks
<1>1. Filled(d, v, a) = [d EXCEPT !.cards = cs, !.hooks = h]
  BY DEF Filled
<1> HIDE DEF cs, h
<1>2. d = [nav |-> d.nav, view |-> d.view, cards |-> d.cards, name |-> d.name,
           typed |-> d.typed, body |-> d.body, hooks |-> d.hooks, out |-> d.out, asked |-> d.asked,
           told |-> d.told]
  BY PageFields
<1> QED BY <1>1, <1>2

\* The first list of screen v shows a from now on.
LEMMA FilledPage ==
  ASSUME NEW d \in PageType, NEW v, Has(d, v), NEW a \in Contents \cup {{}}
  PROVE  /\ Filled(d, v, a) \in PageType
         /\ Len(Filled(d, v, a).cards) = Len(d.cards)
         /\ \A i \in 1..Len(d.cards) : Filled(d, v, a).cards[i] =
              IF i = First(d, v) THEN [id |-> v, shown |-> a] ELSE d.cards[i]
<1> DEFINE i == First(d, v)
           cs == [d.cards EXCEPT ![i] = [id |-> v, shown |-> a]]
           h  == IF v = "tokens" THEN d.hooks + 1 ELSE d.hooks
<1>1. i \in 1..Len(d.cards) /\ d.cards[i].id = v
  BY FirstFound
<1>2. d.cards \in Seq(CardType) /\ d.cards[i] \in CardType
  BY <1>1, ElementOfSeq DEF PageType
<1>3. [d.cards[i] EXCEPT !.shown = a] = [id |-> v, shown |-> a]
  BY <1>1, <1>2 DEF CardType
<1>4. [id |-> v, shown |-> a] \in CardType
  BY <1>1, <1>2 DEF CardType
<1>5. /\ cs \in Seq(CardType) /\ Len(cs) = Len(d.cards)
      /\ \A j \in 1..Len(d.cards) : cs[j] = IF j = i THEN [id |-> v, shown |-> a] ELSE d.cards[j]
  BY <1>1, <1>2, <1>4, ExceptSeq
<1>6. Filled(d, v, a) = [d EXCEPT !.cards = [d.cards EXCEPT ![i] = [d.cards[i] EXCEPT !.shown = a]],
                                  !.hooks = h]
  BY DEF Filled
<1>7. Filled(d, v, a) = [d EXCEPT !.cards = cs, !.hooks = h]
  BY <1>3, <1>6
<1> HIDE DEF cs
<1>8. Filled(d, v, a) = [nav |-> d.nav, view |-> d.view, cards |-> cs, name |-> d.name,
        typed |-> d.typed, body |-> d.body, hooks |-> h, out |-> d.out, asked |-> d.asked,
        told |-> d.told]
  BY <1>7 DEF PageType
<1>h. h \in Nat
  <2>1. d.hooks \in Nat
    BY PageFields
  <2> QED BY <2>1
<1> HIDE DEF h
<1>9. Filled(d, v, a) \in PageType
  <2>1. cs \in Seq(CardType)
    BY <1>5
  <2>2. [d EXCEPT !.cards = cs, !.hooks = h] \in PageType
    BY <1>h, <2>1 DEF PageType
  <2> QED BY <1>7, <2>2
<1> QED BY <1>5, <1>8, <1>9

\* A card is added below the others.
LEMMA AddedCard ==
  ASSUME NEW d \in PageType, NEW c \in CardType
  PROVE  LET e == [d EXCEPT !.cards = Append(d.cards, c)] IN
         /\ e \in PageType /\ Len(e.cards) = Len(d.cards) + 1
         /\ \A i \in 1..Len(d.cards) : e.cards[i] = d.cards[i]
         /\ e.cards[Len(d.cards) + 1] = c
         /\ e = [nav |-> d.nav, view |-> d.view, cards |-> Append(d.cards, c),
                 name |-> d.name, typed |-> d.typed, body |-> d.body,
                 hooks |-> d.hooks, out |-> d.out,
                 asked |-> d.asked, told |-> d.told]
<1>1. d.cards \in Seq(CardType)
  BY DEF PageType
<1> DEFINE cs == Append(d.cards, c)
<1>2. /\ cs \in Seq(CardType) /\ Len(cs) = Len(d.cards) + 1
      /\ \A i \in 1..Len(d.cards) : cs[i] = d.cards[i]
      /\ cs[Len(d.cards) + 1] = c
  BY <1>1, AppendProperties
<1> HIDE DEF cs
<1>3. [d EXCEPT !.cards = cs] =
        [nav |-> d.nav, view |-> d.view, cards |-> cs, name |-> d.name,
         typed |-> d.typed, body |-> d.body,
         hooks |-> d.hooks, out |-> d.out, asked |-> d.asked, told |-> d.told]
  <2>1. d = [nav |-> d.nav, view |-> d.view, cards |-> d.cards, name |-> d.name,
             typed |-> d.typed, body |-> d.body, hooks |-> d.hooks, out |-> d.out,
             asked |-> d.asked, told |-> d.told]
    BY PageFields
  <2> QED BY <2>1
<1>4. [d EXCEPT !.cards = cs] \in PageType
  BY <1>2 DEF PageType
<1> QED BY <1>2, <1>3, <1>4 DEF cs

\* What a policy list offers are policies.
LEMMA PolicyOptions ==
  ASSUME PagesInv, NEW t \in Tabs
  PROVE  Options(t, "policies") \subseteq Names
<1>1. CASE Has(dom[t], "policies")
  <2>1. dom[t] \in PageType
    BY DEF PagesInv
  <2>2. dom[t].cards[First(dom[t], "policies")].shown \in {Loading, {}, Names}
    BY <1>1, <2>1, FirstFound DEF PagesInv, PoliciesShown
  <2> QED BY <1>1, <2>2 DEF Options
<1>2. CASE ~Has(dom[t], "policies")
  BY <1>2 DEF Options
<1> QED BY <1>1, <1>2

\* The page of one tab changes.
LEMMA PutPage ==
  ASSUME PagesInv, NEW t \in Tabs, NEW d \in PageType, PoliciesShown(d),
         dom' = [dom EXCEPT ![t] = d]
  PROVE  PagesInv'
<1>1. dom' \in [Tabs -> PageType] /\ \A u \in Tabs : dom'[u] = IF u = t THEN d ELSE dom[u]
  BY DEF PagesInv
<1>2. \A u \in Tabs : PoliciesShown(dom'[u])
  BY <1>1 DEF PagesInv
<1> QED BY <1>1, <1>2 DEF PagesInv, PoliciesShown

\* One field of it changes.
LEMMA PutName ==
  ASSUME PagesInv, NEW t \in Tabs, NEW n \in Names, NEW b \in BOOLEAN,
         dom' = [dom EXCEPT ![t].name = n, ![t].typed = b]
  PROVE  PagesInv'
<1> DEFINE d == [dom[t] EXCEPT !.name = n, !.typed = b]
<1>1. d \in PageType /\ d.cards = dom[t].cards /\ PoliciesShown(dom[t])
  BY DEF PagesInv, PageType
<1>2. dom' = [dom EXCEPT ![t] = d]
  BY DEF PagesInv, PageType
<1> QED BY <1>1, <1>2, PutPage DEF PoliciesShown

LEMMA PutBody ==
  ASSUME PagesInv, NEW t \in Tabs, NEW x \in Texts, dom' = [dom EXCEPT ![t].body = x]
  PROVE  PagesInv'
<1> DEFINE d == [dom[t] EXCEPT !.body = x]
<1>1. d \in PageType /\ d.cards = dom[t].cards /\ PoliciesShown(dom[t])
  BY DEF PagesInv, PageType
<1> QED BY <1>1, PutPage DEF PoliciesShown

LEMMA PutOut ==
  ASSUME PagesInv, NEW t \in Tabs, NEW o \in {None, "old", "new", "absent", "done", Refused},
         dom' = [dom EXCEPT ![t].out = o]
  PROVE  PagesInv'
<1> DEFINE d == [dom[t] EXCEPT !.out = o]
<1>1. d \in PageType /\ d.cards = dom[t].cards /\ PoliciesShown(dom[t])
  BY DEF PagesInv, PageType
<1> QED BY <1>1, PutPage DEF PoliciesShown

LEMMA PutCounts ==
  ASSUME PagesInv, NEW t \in Tabs,
         \/ dom' = [dom EXCEPT ![t].asked = @ + 1]
         \/ dom' = [dom EXCEPT ![t].told = @ + 1]
         \/ dom' = [dom EXCEPT ![t].asked = @ + 1, ![t].told = @ + 1]
  PROVE  PagesInv'
<1>1. dom[t] \in PageType /\ DOMAIN dom = Tabs /\ PoliciesShown(dom[t])
  BY DEF PagesInv
<1>2. dom[t].asked \in Nat /\ dom[t].told \in Nat
  BY <1>1, PageFields
<1> DEFINE a == dom[t].asked + 1
           b == dom[t].told + 1
<1>3. a \in Nat /\ b \in Nat
  BY <1>2
<1>4. PICK d : /\ dom' = [dom EXCEPT ![t] = d]
               /\ d \in {[dom[t] EXCEPT !.asked = a], [dom[t] EXCEPT !.told = b],
                         [dom[t] EXCEPT !.asked = a, !.told = b]}
  <2>1. CASE dom' = [dom EXCEPT ![t].asked = @ + 1, ![t].told = @ + 1]
    <3>1. dom' = [dom EXCEPT ![t] = [dom[t] EXCEPT !.asked = a, !.told = b]]
      BY <1>1, <2>1 DEF PageType
    <3> QED BY <3>1
  <2> QED BY <2>1
<1> HIDE DEF a, b
<1>5. d \in PageType /\ d.cards = dom[t].cards
  BY <1>1, <1>3, <1>4 DEF PageType
<1>6. PoliciesShown(d)
  BY <1>1, <1>5 DEF PoliciesShown
<1> QED BY <1>4, <1>5, <1>6, PutPage

LEMMA PageDrawn ==
  ASSUME PagesInv, NEW t \in Tabs, NEW s, NEW nav \in Views, NEW v \in Views, NEW known,
         RenderView(t, s, nav, v, known)
  PROVE  PagesInv'
BY PutPage, RenderedPage DEF RenderView

------------------------------------------------------------------------------
(* Types. *)

\* An answer that arrived and is not lost.
LEMMA TookAnswer ==
  ASSUME Shape, RequestsInv, NEW t \in Tabs, NEW s \in Slots, NEW kind, NEW a,
         Took(t, s, kind, a)
  PROVE  /\ flight[t][s] # None /\ RequestOK(flight[t][s]) /\ flight[t][s].kind = kind
         /\ a = flight[t][s].ans /\ a \notin {None, Lost}
BY DEF Took, Is, RequestsInv

LEMMA HandledPages ==
  ASSUME TypeInv, Shape, NEW t \in Tabs, NEW s \in Slots, HandleScreen(t, s)
  PROVE  PagesInv'
<1>p. PagesInv /\ dom[t] \in PageType /\ PoliciesShown(dom[t]) /\ RequestsInv
  BY DEF TypeInv, PagesInv
<1>0. CASE UNCHANGED dom
  BY <1>p, <1>0 DEF PagesInv, PoliciesShown
<1>1. CASE ListArrived(t, s) /\ dom' # dom
  <2> DEFINE a == flight[t][s].ans
             v == flight[t][s].arg
             b == IF a = Refused THEN {} ELSE a
  <2>1. /\ Took(t, s, "list", a) /\ Has(dom[t], v)
        /\ dom' = [dom EXCEPT ![t] = Filled(dom[t], v, b)]
    BY <1>1 DEF ListArrived
  <2>2. b \in Contents \cup {{}} /\ (v = "policies" => b \in {{}, Names})
    BY <1>p, <2>1, TookAnswer DEF RequestOK
  <2> HIDE DEF a, v, b
  <2>3. Filled(dom[t], v, b) \in PageType
    BY <1>p, <2>1, <2>2, FilledPage
  <2>4. PoliciesShown(Filled(dom[t], v, b))
    <3>1. /\ Len(Filled(dom[t], v, b).cards) = Len(dom[t].cards)
          /\ \A i \in 1..Len(dom[t].cards) : Filled(dom[t], v, b).cards[i] =
               IF i = First(dom[t], v) THEN [id |-> v, shown |-> b] ELSE dom[t].cards[i]
      BY <1>p, <2>1, <2>2, FilledPage
    <3> QED BY <1>p, <2>2, <3>1 DEF PoliciesShown
  <2> QED BY <1>p, <2>1, <2>3, <2>4, PutPage
<1>2. CASE (SecretShown(t, s) \/ TokenCreated(t, s)) /\ dom' # dom
  <2> DEFINE o == flight[t][s].ans
  <2>1. dom' = [dom EXCEPT ![t].out = o]
    BY <1>2 DEF SecretShown, TokenCreated
  <2>2. o \in {None, "old", "new", "absent", "done", Refused}
    BY <1>2, <1>p, TookAnswer DEF SecretShown, TokenCreated, RequestOK, WriteKinds
  <2> QED BY <1>p, <2>1, <2>2, PutOut
<1>3. CASE PolicyLoaded(t, s) /\ dom' # dom
  <2> DEFINE x == IF flight[t][s].ans = Refused THEN "" ELSE flight[t][s].ans
  <2>1. dom' = [dom EXCEPT ![t].body = x]
    BY <1>3 DEF PolicyLoaded
  <2>2. x \in Texts
    <3>1. flight[t][s].ans \in {Refused} \cup Texts
      <4>1. Took(t, s, "load", flight[t][s].ans)
        BY <1>3 DEF PolicyLoaded
      <4> QED BY <1>p, <4>1, TookAnswer DEF RequestOK
    <3> QED BY <3>1 DEF Texts
  <2> QED BY <1>p, <2>1, <2>2, PutBody
<1>4. CASE LeaseRevoked(t, s)
  <2> DEFINE d == [dom[t] EXCEPT !.cards = Append(dom[t].cards, Card("leases", FALSE))]
  <2>1. dom' = [dom EXCEPT ![t] = d]
    BY <1>4 DEF LeaseRevoked
  <2>2. Card("leases", FALSE) \in CardType /\ Card("leases", FALSE).id = "leases"
    BY DEF Card, CardType, Views
  <2>3. d \in PageType /\ PoliciesShown(d)
    <3>1. /\ d \in PageType /\ Len(d.cards) = Len(dom[t].cards) + 1
          /\ \A i \in 1..Len(dom[t].cards) : d.cards[i] = dom[t].cards[i]
          /\ d.cards[Len(dom[t].cards) + 1] = Card("leases", FALSE)
      BY <1>p, <2>2, AddedCard
    <3> HIDE DEF d
    <3>2. Len(dom[t].cards) \in Nat
      BY <1>p, PageFields, LenProperties
    <3>3. \A i \in 1..Len(d.cards) : i \in 1..Len(dom[t].cards) \/ i = Len(dom[t].cards) + 1
      BY <3>1, <3>2
    <3>4. \A i \in 1..Len(dom[t].cards) : d.cards[i].id = "policies" =>
            d.cards[i].shown \in {Loading, {}, Names}
      BY <1>p, <3>1 DEF PoliciesShown
    <3>5. d.cards[Len(dom[t].cards) + 1].id # "policies"
      BY <2>2, <3>1
    <3>6. PoliciesShown(d)
      BY <3>3, <3>4, <3>5 DEF PoliciesShown
    <3> QED BY <3>1, <3>6
  <2> QED BY <1>p, <2>1, <2>3, PutPage
<1>5. CASE LineAnswered(t, s) /\ dom' # dom
  BY <1>5, <1>p, PutCounts DEF LineAnswered
<1> QED
  BY <1>0, <1>1, <1>2, <1>3, <1>4, <1>5 DEF HandleScreen, MountEnabled, PolicySaved, ScreenLost

LEMMA UsedPages ==
  ASSUME TypeInv, NEW t \in Tabs, NEW s \in Slots, UseScreen(t, s) \/ EditPolicy(t)
  PROVE  PagesInv'
<1>p. PagesInv
  BY DEF TypeInv
<1>0. CASE UNCHANGED dom
  BY <1>p, <1>0 DEF PagesInv, PoliciesShown
<1>1. ASSUME NEW v \in Views, Navigate(t, s, v) PROVE PagesInv'
  BY <1>p, <1>1, PageDrawn DEF Navigate
<1>2. CASE LoadPolicy(t, s)
  BY <1>p, <1>2, PolicyOptions, PutName DEF LoadPolicy
<1>3. CASE EnterLine(t, s)
  BY <1>p, <1>3, PutCounts DEF EnterLine
<1>4. CASE EditPolicy(t)
  <2>1. "edited" \in Texts
    BY DEF Texts
  <2>2. \/ dom' = [dom EXCEPT ![t].body = "edited"]
        \/ \E n \in Names : dom' = [dom EXCEPT ![t].name = n, ![t].typed = TRUE]
    BY <1>4 DEF EditPolicy
  <2> QED BY <1>p, <2>1, <2>2, PutBody, PutName
<1> QED
  BY <1>0, <1>1, <1>2, <1>3, <1>4 DEF UseScreen, EnableMount, ReadSecret, WriteSecret,
     SavePolicy, CreateToken, RevokeLease

LEMMA PagesKept ==
  ASSUME IInv, TypeInv, [Next]_vars
  PROVE  PagesInv'
<1>p. PagesInv /\ Shape
  BY DEF TypeInv, IInv
<1>0. CASE UNCHANGED dom
  BY <1>p, <1>0 DEF PagesInv, PoliciesShown
<1>1. ASSUME NEW t \in world.tabs, NEW s \in Slots, Proceed(t, s)
      PROVE  PagesInv'
  <2>0. t \in Tabs
    BY TabsOfWorld DEF IInv
  <2>1. CASE HandleScreen(t, s)
    BY <1>p, <2>0, <2>1, HandledPages
  <2>2. CASE OpenApp(t, s)
    <3>1. dom[t].nav \in Views /\ "secrets" \in Views
      BY <1>p, <2>0, PageFields DEF PagesInv, Views
    <3> QED BY <1>p, <2>0, <2>2, <3>1, PageDrawn DEF OpenApp
  <2>3. CASE ServeSession(t, s) \/ HandleSession(t, s)
    BY <1>0, <2>3 DEF ServeSession, ServeLogin, HandleSession
  <2>4. CASE ServeScreen(t, s)
    BY <1>0, <2>4 DEF ServeScreen, RefuseRequest, ServeList, ServeEnable, ServeSecret,
       ServeLoad, ServeSave, ServeCreate, ServeRevoke, Granted
  <2> QED BY <1>1, <2>1, <2>2, <2>3, <2>4 DEF Proceed
<1>2. ASSUME NEW t \in world.tabs, NEW s \in Slots,
             UseSession(t, s) \/ UseScreen(t, s) \/ EditPolicy(t)
      PROVE  PagesInv'
  BY <1>0, <1>2, TabsOfWorld, UsedPages DEF UseSession, IInv
<1>3. ASSUME NEW t \in world.tabs, Reload(t) PROVE PagesInv'
  BY <1>p, <1>3, TabsOfWorld, NoPageTyped, PutPage DEF Reload, IInv
<1>4. CASE Environment \/ UNCHANGED vars
  BY <1>0, <1>4 DEF Environment, LoseToken, vars
<1>5. 1 \in Slots
  BY BoundAssumption DEF Slots
<1> QED BY <1>1, <1>2, <1>3, <1>4, <1>5 DEF Next

\* The server's content.
LEMMA ScreenVault ==
  ASSUME TypeInv, NEW t \in Tabs, NEW s \in Slots, ServeScreen(t, s)
  PROVE  VaultInv'
<1>1. VaultInv /\ RequestsInv
  BY DEF TypeInv
<1>2. CASE ServeEnable(t, s)
  <2>1. flight[t][s].arg \in Paths
    BY <1>1, <1>2 DEF ServeEnable, Granted, Waiting, Is, RequestsInv, RequestOK
  <2> QED BY <1>1, <1>2, <2>1 DEF ServeEnable, VaultInv
<1>3. CASE ServeSave(t, s)
  <2>1. flight[t][s].arg \in [name : Names, text : Texts, typed : BOOLEAN]
    BY <1>1, <1>3 DEF ServeSave, Granted, Waiting, Is, RequestsInv, RequestOK
  <2>2. PICK x \in [name : Names, text : Texts, typed : BOOLEAN] :
          /\ policies' = [policies EXCEPT ![x.name] = x.text]
          /\ renamed' \in {renamed, renamed \cup {x.name}}
          /\ UNCHANGED <<mounts, secret, leases, granted>>
    BY <1>3, <2>1 DEF ServeSave
  <2> QED BY <1>1, <2>2 DEF VaultInv
<1>4. CASE ServeSecret(t, s)
  BY <1>1, <1>4 DEF ServeSecret, VaultInv
<1>5. CASE ServeCreate(t, s) \/ ServeRevoke(t, s)
  BY <1>1, <1>5 DEF ServeCreate, ServeRevoke, VaultInv
<1>6. CASE RefuseRequest(t, s) \/ ServeList(t, s) \/ ServeLoad(t, s)
  BY <1>1, <1>6 DEF RefuseRequest, ServeList, ServeLoad, vault, VaultInv
<1> QED BY <1>2, <1>3, <1>4, <1>5, <1>6 DEF ServeScreen

LEMMA VaultStays ==
  ASSUME NEW t, NEW s,
         \/ ServeSession(t, s) /\ ~ServeLogin(t, s)
         \/ HandleSession(t, s) \/ OpenApp(t, s) \/ HandleScreen(t, s)
         \/ UseSession(t, s) \/ UseScreen(t, s) \/ Reload(t) \/ EditPolicy(t)
         \/ Environment /\ ~LoseToken
         \/ UNCHANGED vars
  PROVE  UNCHANGED vault
BY DEF ServeSession, HandleSession, OpenApp, HandleScreen, ListArrived, MountEnabled,
       SecretShown, PolicyLoaded, PolicySaved, TokenCreated, LeaseRevoked, LineAnswered,
       ScreenLost, Took, UseSession, UseScreen, Navigate, EnableMount, ReadSecret, WriteSecret,
       LoadPolicy, SavePolicy, CreateToken, RevokeLease, EnterLine, Ask, Reload, EditPolicy,
       Environment, vars, vault

\* A login's token gets its lease, and loses it with others' revocation.
LEMMA VaultOfTokens ==
  ASSUME IInv, VaultInv, NEW t \in world.tabs, NEW s \in Slots,
         ServeLogin(t, s) \/ LoseToken
  PROVE  VaultInv'
<1>1. CASE ServeLogin(t, s)
  <2>1. issued' \subseteq Tokens
    BY <1>1, TabsOfWorld DEF ServeLogin, ServeCredentials, IInv, Types
  <2> QED BY <1>1, <2>1 DEF ServeLogin, VaultInv
<1>2. CASE LoseToken
  BY <1>2 DEF LoseToken, VaultInv
<1> QED BY <1>1, <1>2

LEMMA VaultKept ==
  ASSUME IInv, TypeInv, [Next]_vars
  PROVE  VaultInv'
<1>1. CASE UNCHANGED vault
  BY <1>1 DEF TypeInv, VaultInv, vault
<1>2. ASSUME NEW t \in world.tabs, NEW s \in Slots, ServeScreen(t, s) PROVE VaultInv'
  BY <1>2, TabsOfWorld, ScreenVault DEF IInv
<1>3. 1 \in Slots /\ world.tabs # {}
  BY BoundAssumption, TabsOfWorld DEF Slots, IInv
<1>4. ASSUME NEW t \in world.tabs, NEW s \in Slots, ServeLogin(t, s) \/ LoseToken
      PROVE  VaultInv'
  BY <1>4, VaultOfTokens DEF TypeInv
<1>5. ASSUME NEW t \in world.tabs, NEW s \in Slots, Proceed(t, s) PROVE VaultInv'
  BY <1>1, <1>2, <1>4, <1>5, VaultStays DEF Proceed
<1>6. CASE Environment \/ UNCHANGED vars
  BY <1>1, <1>3, <1>4, <1>6, VaultStays
<1> QED BY <1>1, <1>3, <1>5, <1>6, VaultStays DEF Next

\* The server's state and what each tab shows around the screens.
LEMMA ServerKept ==
  ASSUME IInv, TypeInv, [Next]_vars
  PROVE  ServerInv'
<1>t. ServerInv /\ RequestsInv /\ Types /\ world.tabs \subseteq Tabs
  BY TabsOfWorld DEF TypeInv, IInv
<1>h. Threshold \in Nat \ {0} /\ progress \in 0..(Threshold - 1)
  BY <1>t, BoundAssumption DEF ServerInv
<1>0. ASSUME UNCHANGED <<sealed, progress, shell, signedOut, refused>> PROVE ServerInv'
  BY <1>t, <1>0 DEF ServerInv
<1>1. ASSUME NEW t \in world.tabs, NEW s \in Slots, ServeSession(t, s)
      PROVE  ServerInv'
  <2>1. CASE ServeLookup(t, s)
    <3>1. flight[t][s].tok \in Tokens \cup {None}
      BY <1>t, <2>1 DEF ServeLookup, Waiting, Is, IInv, Shape
    <3>2. refused' \in {refused, refused \cup {flight[t][s].tok}}
      BY <2>1 DEF ServeLookup
    <3> QED BY <1>t, <2>1, <3>1, <3>2 DEF ServeLookup, ServerInv, session, server
  <2>2. CASE ServeShare(t, s)
    <3>1. sealed' \in BOOLEAN /\ progress' \in 0..(Threshold - 1)
      <4>1. sealed' \in {sealed, FALSE}
        BY <2>2 DEF ServeShare
      <4>2. \/ progress' \in {progress, 0}
            \/ progress' = progress + 1 /\ progress + 1 < Threshold
        BY <2>2 DEF ServeShare
      <4>3. sealed' \in BOOLEAN
        BY <1>t, <4>1 DEF ServerInv
      <4> QED BY <1>h, <4>2, <4>3
    <3> QED BY <1>t, <2>2, <3>1 DEF ServeShare, ServerInv, session
  <2> QED BY <1>0, <1>1, <2>1, <2>2 DEF ServeSession, ServeLogin, ServeStatus,
             ServeCredentials, LoseAnswer, session, server
<1>2. ASSUME NEW t \in world.tabs, NEW s \in Slots, HandleSession(t, s) \/ OpenApp(t, s)
      PROVE  ServerInv'
  <2>1. UNCHANGED <<sealed, progress, signedOut, refused>>
    BY <1>2 DEF HandleSession, OpenApp, AppOpened, BootSealed, BootOpen, BootAccepted,
       BootRefused, Unsealed, ShareTaken, TokenAccepted, CredentialsAccepted, LoginFailed,
       SessionLost, session, server
  <2>2. \/ UNCHANGED shell
        \/ \E b \in BOOLEAN : shell' = [shell EXCEPT ![t].version = b]
        \/ shell' = [shell EXCEPT ![t].version = TRUE, ![t].box = TRUE]
        \/ shell' = [shell EXCEPT ![t].error = TRUE]
        \/ \E b \in BOOLEAN, p \in {"sealed", "unsealed"} :
             shell' = [shell EXCEPT ![t].version = b, ![t].pill = p]
    BY <1>2 DEF HandleSession, OpenApp, AppOpened, BootSealed, BootOpen, BootAccepted,
       BootRefused, Unsealed, ShareTaken, TokenAccepted, CredentialsAccepted, LoginFailed,
       SessionLost, session
  <2>3. shell' \in [Tabs -> Shell]
    <3>1. shell \in [Tabs -> Shell] /\ TRUE \in BOOLEAN
      BY <1>t DEF ServerInv
    <3>2. ASSUME NEW b \in BOOLEAN
          PROVE  /\ [shell EXCEPT ![t].version = b] \in [Tabs -> Shell]
                 /\ [shell EXCEPT ![t].version = b, ![t].box = TRUE] \in [Tabs -> Shell]
                 /\ [shell EXCEPT ![t].error = TRUE] \in [Tabs -> Shell]
      BY <3>1 DEF Shell
    <3>3. CASE UNCHANGED shell
      BY <3>1, <3>3
    <3>4. CASE \E b \in BOOLEAN : shell' = [shell EXCEPT ![t].version = b]
      BY <3>2, <3>4
    <3>5. CASE shell' = [shell EXCEPT ![t].version = TRUE, ![t].box = TRUE]
      BY <3>2, <3>5
    <3>6. CASE shell' = [shell EXCEPT ![t].error = TRUE]
      BY <3>2, <3>6
    <3>7. CASE \E b \in BOOLEAN, p \in {"sealed", "unsealed"} :
                 shell' = [shell EXCEPT ![t].version = b, ![t].pill = p]
      <4>1. PICK b \in BOOLEAN, p \in {"", "sealed", "unsealed"} :
              shell' = [shell EXCEPT ![t].version = b, ![t].pill = p]
        BY <3>7
      <4> QED BY <3>1, <4>1 DEF Shell
    <3> QED BY <2>2, <3>3, <3>4, <3>5, <3>6, <3>7
  <2> QED BY <1>t, <2>1, <2>3 DEF ServerInv
<1>3. ASSUME NEW t \in world.tabs, NEW s \in Slots, HandleScreen(t, s)
      PROVE  ServerInv'
  <2>1. UNCHANGED <<sealed, progress, signedOut, refused>>
    BY <1>3 DEF HandleScreen, ListArrived, MountEnabled, SecretShown, PolicyLoaded,
       PolicySaved, TokenCreated, LeaseRevoked, LineAnswered, ScreenLost, Took, session, server
  <2>2. UNCHANGED shell \/ \E b \in BOOLEAN : shell' = [shell EXCEPT ![t].version = b]
    BY <1>3 DEF HandleScreen, ListArrived, MountEnabled, SecretShown, PolicyLoaded,
       PolicySaved, TokenCreated, LeaseRevoked, LineAnswered, ScreenLost, session
  <2>3. shell' \in [Tabs -> Shell]
    BY <1>t, <2>2 DEF ServerInv, Shell
  <2> QED BY <1>t, <2>1, <2>3 DEF ServerInv
<1>4. ASSUME NEW t \in world.tabs, NEW s \in Slots, UseSession(t, s)
      PROVE  ServerInv'
  <2>1. UNCHANGED <<sealed, progress, refused>> /\ signedOut' \subseteq signedOut
    BY <1>4 DEF UseSession, SubmitShare, SubmitToken, SubmitCredentials, session, server
  <2>2. UNCHANGED shell \/ shell' = [shell EXCEPT ![t].error = FALSE]
    BY <1>4 DEF UseSession, SubmitShare, SubmitToken, SubmitCredentials, session
  <2> QED BY <1>t, <2>1, <2>2 DEF ServerInv, Shell
<1>5. ASSUME NEW t \in world.tabs, NEW s \in Slots,
             ServeScreen(t, s) \/ UseScreen(t, s) \/ EditPolicy(t)
      PROVE  ServerInv'
  BY <1>0, <1>5 DEF ServeScreen, RefuseRequest, ServeList, ServeEnable, ServeSecret,
     ServeLoad, ServeSave, ServeCreate, ServeRevoke, Granted, UseScreen, Navigate, EnableMount,
     ReadSecret, WriteSecret, LoadPolicy, SavePolicy, CreateToken, RevokeLease, EnterLine,
     Ask, EditPolicy, session, server
<1>6. ASSUME NEW t \in world.tabs, Reload(t) PROVE ServerInv'
  <2>1. /\ UNCHANGED <<sealed, progress, signedOut, refused>>
        /\ shell' = [shell EXCEPT ![t] = Blank]
    BY <1>6 DEF Reload, UserReload, Leave, LoadPage, server
  <2> QED BY <1>t, <2>1 DEF ServerInv, Shell, Blank
<1>7. CASE Environment
  <2>1. /\ sealed' = sealed \/ sealed' = FALSE \/ sealed' = TRUE
        /\ progress' \in {progress, 0} /\ UNCHANGED <<shell, refused>>
        /\ signedOut' = signedOut \/ \E t \in Tabs : signedOut' = signedOut \cup {t}
    BY <1>7 DEF Environment, LoseToken, OpenServer, SealServer, RevokeToken, SignOut, session,
       server
  <2>2. sealed' \in BOOLEAN
    BY <1>t, <2>1 DEF ServerInv
  <2>3. progress' \in 0..(Threshold - 1)
    BY <1>h, <2>1
  <2> QED BY <1>t, <2>1, <2>2, <2>3 DEF ServerInv
<1>8. CASE UNCHANGED vars
  BY <1>0, <1>8 DEF vars
<1>9. 1 \in Slots
  BY BoundAssumption DEF Slots
<1> QED BY <1>1, <1>2, <1>3, <1>4, <1>5, <1>6, <1>7, <1>8, <1>9 DEF Next, Proceed

LEMMA PutRequest ==
  ASSUME RequestsInv, NEW t \in Tabs, NEW s \in Slots, NEW q, Put(t, s, q),
         q # None => RequestOK(q)
  PROVE  RequestsInv'
<1> SUFFICES ASSUME NEW u \in Tabs, NEW r \in Slots, flight'[u][r] # None
             PROVE  RequestOK(flight'[u][r])
  BY DEF RequestsInv, RequestOK
<1>1. flight'[u][r] = q \/ flight'[u][r] = flight[u][r]
  BY DEF Put
<1> QED BY <1>1 DEF RequestsInv

LEMMA RequestCalled ==
  ASSUME Shape, RequestsInv, NEW t \in Tabs, NEW s \in Slots, NEW kind, NEW arg,
         NEW tok \in Tokens \cup {None}, Call(t, s, kind, tok, arg),
         RequestOK(Sent(kind, tok, arg))
  PROVE  RequestsInv'
BY CallPuts, PutRequest

LEMMA RequestDone ==
  ASSUME Shape, RequestsInv, NEW t \in Tabs, NEW s \in Slots, Done(t, s)
  PROVE  RequestsInv'
BY DonePuts, PutRequest

LEMMA RequestAnswered ==
  ASSUME Shape, RequestsInv, NEW t \in Tabs, NEW s \in Slots, flight[t][s] # None,
         NEW a, Answer(t, s, a), RequestOK(Answered(flight[t][s], a))
  PROVE  RequestsInv'
BY AnswerPuts, PutRequest

\* The requests of each kind.
LEMMA SentOK ==
  ASSUME NEW kind \in AppKinds \cup BootKinds \cup LoginKinds \cup {"unseal"}, NEW tok,
         NEW arg \in Args,
         kind = "list" => arg \in ScreenLists, kind = "load" => arg \in Names,
         kind = "save" => arg \in [name : Names, text : Texts, typed : BOOLEAN],
         kind = "enable" => arg \in Paths
  PROVE  RequestOK(Sent(kind, tok, arg))
BY DEF RequestOK, Sent

\* What drawing a screen does to the requests.
LEMMA RenderSlots ==
  ASSUME Shape, NEW t \in Tabs, NEW s \in Slots, NEW nav, NEW v, NEW known,
         RenderView(t, s, nav, v, known)
  PROVE  /\ flight'[t][s] = IF Asks(v, known) THEN Sent("list", token[t], v) ELSE None
         /\ \A r \in Slots \ {s} : flight'[t][r] =
              IF Is(t, r, "line")
              THEN [kind |-> "oldLine", tok |-> flight[t][r].tok, arg |-> flight[t][r].arg,
                    ans |-> flight[t][r].ans]
              ELSE flight[t][r]
         /\ \A u \in Tabs \ {t}, r \in Slots : flight'[u][r] = flight[u][r]
<1> DEFINE new == IF Asks(v, known) THEN Sent("list", token[t], v) ELSE None
           row == [Detached(flight[t]) EXCEPT ![s] = new]
<1>1. flight' = [flight EXCEPT ![t] = row] /\ DOMAIN flight = Tabs
  BY DEF RenderView, Shape
<1>2. \A r \in Slots : row[r] = IF r = s THEN new ELSE Detached(flight[t])[r]
  BY DEF Detached
<1>3. \A r \in Slots : Detached(flight[t])[r] =
        IF flight[t][r] # None /\ flight[t][r].kind = "line"
        THEN [flight[t][r] EXCEPT !.kind = "oldLine"] ELSE flight[t][r]
  BY DEF Detached
<1>4. \A r \in Slots : flight[t][r] # None =>
        [flight[t][r] EXCEPT !.kind = "oldLine"] =
          [kind |-> "oldLine", tok |-> flight[t][r].tok, arg |-> flight[t][r].arg,
           ans |-> flight[t][r].ans]
  <2> SUFFICES ASSUME NEW r \in Slots, flight[t][r] # None
               PROVE  [flight[t][r] EXCEPT !.kind = "oldLine"] =
                        [kind |-> "oldLine", tok |-> flight[t][r].tok,
                         arg |-> flight[t][r].arg, ans |-> flight[t][r].ans]
    OBVIOUS
  <2>1. flight[t][r] = [kind |-> flight[t][r].kind, tok |-> flight[t][r].tok,
                        arg |-> flight[t][r].arg, ans |-> flight[t][r].ans]
    BY DEF Shape
  <2> QED BY <2>1
<1> HIDE DEF row
<1>5. flight'[t] = row /\ \A u \in Tabs \ {t} : flight'[u] = flight[u]
  BY <1>1
<1> QED BY <1>2, <1>3, <1>4, <1>5 DEF Is

LEMMA RequestsDrawn ==
  ASSUME Shape, RequestsInv, NEW t \in Tabs, NEW s \in Slots, NEW nav, NEW v \in Views,
         NEW known, RenderView(t, s, nav, v, known)
  PROVE  RequestsInv'
<1> SUFFICES ASSUME NEW u \in Tabs, NEW r \in Slots, flight'[u][r] # None
             PROVE  RequestOK(flight'[u][r])
  BY DEF RequestsInv, RequestOK
<1>1. CASE flight'[u][r] = flight[u][r]
  BY <1>1 DEF RequestsInv
<1>2. CASE u = t /\ r = s
  <2>1. Asks(v, known) /\ flight'[u][r] = Sent("list", token[t], v)
    BY <1>2, RenderSlots
  <2>2. v \in ScreenLists /\ "list" \in AppKinds /\ v \in Args
    BY <2>1 DEF Asks, ScreenLists, AppKinds, ScreenKinds, Args
  <2> QED BY <2>1, <2>2, SentOK
<1>3. CASE u = t /\ r # s /\ Is(t, r, "line")
  <2>1. flight'[u][r] = [kind |-> "oldLine", tok |-> flight[t][r].tok,
                         arg |-> flight[t][r].arg, ans |-> flight[t][r].ans]
    BY <1>3, RenderSlots
  <2>2. RequestOK(flight[t][r])
    BY <1>3 DEF Is, RequestsInv
  <2> QED BY <1>3, <2>1, <2>2 DEF RequestOK, Is, WriteKinds, StatusKinds, AppKinds,
             BootKinds, LoginKinds, LookupKinds
<1>4. \/ flight'[u][r] = flight[u][r]
      \/ u = t /\ r = s
      \/ u = t /\ r # s /\ Is(t, r, "line")
  <2>1. CASE u # t
    BY <2>1, RenderSlots
  <2>2. CASE u = t /\ r # s /\ ~Is(t, r, "line")
    <3>1. r \in Slots \ {s}
      BY <2>2
    <3>2. flight'[t][r] = flight[t][r]
      BY <2>2, <3>1, RenderSlots
    <3> QED BY <2>2, <3>2
  <2> QED BY <2>1, <2>2
<1> QED BY <1>1, <1>2, <1>3, <1>4

LEMMA ListingOK ==
  ASSUME VaultInv, NEW v \in ScreenLists
  PROVE  Listing(v) \in Contents /\ (v = "policies" => Listing(v) = Names)
<1>1. mounts \in SUBSET Paths /\ leases \in SUBSET (Leases \cup Tokens)
  BY DEF VaultInv
<1>2. v \in {"secrets", "policies", "tokens", "leases", "audit", "about"}
  BY DEF ScreenLists, Views
<1>3. /\ v = "secrets" => Listing(v) = mounts
      /\ v = "policies" => Listing(v) = Names
      /\ v = "tokens" => Listing(v) = {"self"}
      /\ v = "leases" => Listing(v) = leases
      /\ v = "audit" => Listing(v) = {"devices"}
      /\ v = "about" => Listing(v) = {"version"}
  BY DEF Listing
<1>4. mounts \in Contents /\ leases \in Contents
  BY <1>1 DEF Contents
<1>5. \A S \in {Names, {"self"}, {"devices"}, {"version"}} : S \in Contents
  BY Zenon DEF Contents
<1> HIDE DEF Contents
<1> QED BY <1>2, <1>3, <1>4, <1>5

LEMMA SessionAnswers ==
  ASSUME IInv, TypeInv, NEW t \in Tabs, NEW s \in Slots, ServeSession(t, s)
  PROVE  \E a : /\ flight[t][s] # None /\ Answer(t, s, a)
                /\ RequestOK(Answered(flight[t][s], a))
<1>1. PICK a : /\ flight[t][s] # None /\ Answer(t, s, a)
               /\ \/ a = Lost
                  \/ flight[t][s].kind \in StatusKinds /\ a \in {"sealed", "open", "error"}
                  \/ flight[t][s].kind \in LookupKinds /\ a \in {"ok", "no"}
                  \/ flight[t][s].kind = "loginCreds" /\ a \in {"no"} \cup world.tokens
                  \/ flight[t][s].kind = "unseal" /\ a \in {"open", "more", "no"}
  <2>1. CASE ServeStatus(t, s)
    BY <2>1 DEF ServeStatus, Waiting, Is, StatusKinds
  <2>2. CASE ServeLookup(t, s)
    BY <2>2 DEF ServeLookup, Waiting, Is, LookupKinds
  <2>3. CASE ServeLogin(t, s)
    BY <2>3 DEF ServeLogin, ServeCredentials, Waiting, Is
  <2>4. CASE ServeShare(t, s)
    BY <2>4 DEF ServeShare, Waiting, Is
  <2>5. CASE LoseAnswer(t, s)
    BY <2>5 DEF LoseAnswer
  <2> QED BY <2>1, <2>2, <2>3, <2>4, <2>5 DEF ServeSession
<1>2. RequestOK(flight[t][s]) /\ world.tokens \subseteq Tokens
  BY <1>1, TabsOfWorld DEF TypeInv, RequestsInv, IInv
<1> DEFINE q == Answered(flight[t][s], a)
<1>3. q.kind = flight[t][s].kind /\ q.arg = flight[t][s].arg /\ q.ans = a
  BY DEF Answered
<1> HIDE DEF q
<1>4. RequestOK(q)
  BY <1>1, <1>2, <1>3 DEF RequestOK, WriteKinds, StatusKinds, LookupKinds
<1> QED BY <1>1, <1>4 DEF q

LEMMA ScreenAnswers ==
  ASSUME IInv, TypeInv, NEW t \in Tabs, NEW s \in Slots, ServeScreen(t, s)
  PROVE  \E a : /\ flight[t][s] # None /\ Answer(t, s, a)
                /\ RequestOK(Answered(flight[t][s], a))
<1>v. VaultInv /\ RequestsInv
  BY DEF TypeInv
<1> DEFINE k == flight[t][s].kind
           x == flight[t][s].arg
<1>1. PICK a : /\ flight[t][s] # None /\ Answer(t, s, a)
               /\ k \in ScreenKinds \cup {"line", "oldLine"}
               /\ \/ a = Refused
                  \/ k = "list" /\ a = Listing(x)
                  \/ k = "load" /\ a = policies[x]
                  \/ k \in WriteKinds /\ a \in {secret, "done"}
  <2>1. CASE RefuseRequest(t, s)
    BY <2>1 DEF RefuseRequest, Waiting, Is
  <2>2. CASE ServeList(t, s) \/ ServeLoad(t, s)
    BY <2>2 DEF ServeList, ServeLoad, Granted, Waiting, Is, ScreenKinds
  <2>3. CASE ServeEnable(t, s) \/ ServeSave(t, s) \/ ServeCreate(t, s) \/ ServeRevoke(t, s)
    BY <2>3 DEF ServeEnable, ServeSave, ServeCreate, ServeRevoke, Granted, Waiting, Is,
       ScreenKinds, WriteKinds
  <2>4. CASE ServeSecret(t, s)
    BY <2>4 DEF ServeSecret, Granted, Waiting, Is, ScreenKinds, WriteKinds
  <2> QED BY <2>1, <2>2, <2>3, <2>4 DEF ServeScreen
<1>2. RequestOK(flight[t][s])
  BY <1>1, <1>v DEF RequestsInv
<1>3. k = "list" => Listing(x) \in Contents /\ (x = "policies" => Listing(x) = Names)
  BY <1>2, <1>v, ListingOK DEF RequestOK
<1>4. k = "load" => policies[x] \in Texts
  BY <1>2, <1>v DEF RequestOK, VaultInv
<1>5. secret \in {"old", "new", "absent"}
  BY <1>v DEF VaultInv
<1> DEFINE q == Answered(flight[t][s], a)
<1>6. q.kind = k /\ q.arg = x /\ q.ans = a
  BY DEF Answered
<1> HIDE DEF q, k, x
<1>7. RequestOK(q)
  <2>1. k \notin StatusKinds \cup LookupKinds \cup {"loginCreds", "unseal"}
    BY <1>1 DEF ScreenKinds, StatusKinds, LookupKinds
  <2>2. /\ k \in AppKinds \cup BootKinds \cup LoginKinds \cup {"unseal"} /\ x \in Args
        /\ k = "list" => x \in ScreenLists
        /\ k = "load" => x \in Names
        /\ k = "save" => x \in [name : Names, text : Texts, typed : BOOLEAN]
        /\ k = "enable" => x \in Paths
    BY <1>2 DEF RequestOK, k, x
  <2>3. /\ k = "list" => /\ a \in {Refused} \cup Contents
                         /\ x = "policies" => a \in {Refused, Names}
        /\ k = "load" => a \in {Refused} \cup Texts
        /\ k \in WriteKinds => a \in {"old", "new", "absent", "done", Refused}
    BY <1>1, <1>3, <1>4, <1>5 DEF WriteKinds
  <2> QED BY <1>6, <2>1, <2>2, <2>3 DEF RequestOK
<1> QED BY <1>1, <1>7 DEF q

\* The requests that the session sends.
LEMMA SessionRequests ==
  ASSUME Types, NEW t \in Tabs, NEW s \in Slots, HandleSession(t, s) \/ UseSession(t, s)
  PROVE  \/ Done(t, s)
         \/ \E kind \in {"bootLookup", "appStatus", "unseal", "loginLookup", "loginCreds"} :
            \E tok \in Tokens \cup {None} : Call(t, s, kind, tok, None)
<1>1. /\ token \in [Tabs -> Tokens \cup {None}] /\ world.tokens \subseteq Tokens
  BY TabsOfWorld DEF Types
<1>2. CASE HandleSession(t, s)
  BY <1>1, <1>2 DEF HandleSession, BootSealed, BootOpen, BootAccepted, BootRefused, Unsealed,
     ShareTaken, TokenAccepted, CredentialsAccepted, LoginFailed, SessionLost, ShowApp, SetToken
<1>3. CASE UseSession(t, s)
  BY <1>1, <1>3 DEF UseSession, SubmitShare, SubmitToken, SubmitCredentials
<1> QED BY <1>2, <1>3

LEMMA SessionRequestsKept ==
  ASSUME IInv, TypeInv, NEW t \in Tabs, NEW s \in Slots,
         HandleSession(t, s) \/ UseSession(t, s)
  PROVE  RequestsInv'
<1>t. Shape /\ Types /\ RequestsInv
  BY DEF IInv, TypeInv
<1>1. \/ Done(t, s)
      \/ \E kind \in {"bootLookup", "appStatus", "unseal", "loginLookup", "loginCreds"} :
         \E tok \in Tokens \cup {None} : Call(t, s, kind, tok, None)
  BY <1>t, SessionRequests
<1>2. \A tok, kind : kind \in {"bootLookup", "appStatus", "unseal", "loginLookup", "loginCreds"}
        => RequestOK(Sent(kind, tok, None))
  BY SentOK DEF AppKinds, BootKinds, LoginKinds, Args
<1> QED BY <1>t, <1>1, <1>2, RequestDone, RequestCalled

LEMMA ListOptions ==
  ASSUME PagesInv, NEW t \in Tabs, NEW v
  PROVE  Options(t, v) \subseteq UNION Contents
<1>1. CASE Has(dom[t], v)
  <2>1. dom[t] \in PageType
    BY DEF PagesInv
  <2>2. dom[t].cards[First(dom[t], v)] \in CardType
    BY <1>1, <2>1, FirstFound, PageFields, ElementOfSeq
  <2>3. dom[t].cards[First(dom[t], v)].shown \in Contents \cup {Loading, {}}
    BY <2>2 DEF CardType
  <2> QED BY <1>1, <2>3 DEF Options
<1>2. CASE ~Has(dom[t], v)
  BY <1>2 DEF Options
<1> QED BY <1>1, <1>2

LEMMA CommandMethod ==
  ASSUME NEW line, RunCommand(line) # None
  PROVE  RunCommand(line) \in {"GET", "LIST", "DELETE", "PUT"}
<1> DEFINE word == Plain(line)[1]
<1>1. word \in DOMAIN Methods /\ RunCommand(line) = Methods[word]
  BY DEF RunCommand
<1> HIDE DEF word
<1> QED BY <1>1 DEF Methods

LEMMA ScreenRequestsKept ==
  ASSUME IInv, TypeInv, NEW t \in Tabs, NEW s \in Slots,
         HandleScreen(t, s) \/ UseScreen(t, s) \/ OpenApp(t, s)
  PROVE  RequestsInv'
<1>t. Shape /\ RequestsInv /\ token[t] \in Tokens \cup {None} /\ PagesInv
  BY DEF IInv, Types, TypeInv
<1>0. CASE Done(t, s) \/ UNCHANGED flight
  BY <1>t, <1>0, RequestDone DEF RequestsInv, RequestOK
<1>1. CASE \E nav, v \in Views : \E known : RenderView(t, s, nav, v, known)
  BY <1>t, <1>1, RequestsDrawn
<1>2. CASE \E kind \in AppKinds : \E arg : /\ Call(t, s, kind, token[t], arg)
                                      /\ RequestOK(Sent(kind, token[t], arg))
  BY <1>t, <1>2, RequestCalled
<1>3. CASE HandleScreen(t, s)
  <2>1. Done(t, s) \/ \E v \in {"secrets", "policies", "leases"} :
                        Call(t, s, "list", token[t], v)
    BY <1>3 DEF HandleScreen, ListArrived, MountEnabled, SecretShown, PolicyLoaded,
       PolicySaved, TokenCreated, LeaseRevoked, LineAnswered, ScreenLost
  <2>2. \A v \in {"secrets", "policies", "leases"} : RequestOK(Sent("list", token[t], v))
    BY SentOK DEF ScreenLists, Views, AppKinds, ScreenKinds, Args
  <2> QED BY <1>0, <1>2, <2>1, <2>2 DEF AppKinds, ScreenKinds
<1>4. CASE UseScreen(t, s)
  <2>1. CASE \E v \in Views : Navigate(t, s, v)
    BY <1>1, <2>1 DEF Navigate
  <2>2. CASE EnableMount(t, s)
    <3>1. PICK p \in Paths : Call(t, s, "enable", token[t], p)
      BY <2>2 DEF EnableMount, Ask
    <3>2. "enable" \in AppKinds /\ RequestOK(Sent("enable", token[t], p))
      BY SentOK DEF AppKinds, ScreenKinds, Args
    <3> QED BY <1>2, <3>1, <3>2
  <2>3. CASE LoadPolicy(t, s)
    <3>1. PICK n \in Names : Call(t, s, "load", token[t], n)
      BY <1>t, <2>3, PolicyOptions DEF LoadPolicy, Ask
    <3>2. "load" \in AppKinds /\ RequestOK(Sent("load", token[t], n))
      BY SentOK DEF AppKinds, ScreenKinds, Args
    <3> QED BY <1>2, <3>1, <3>2
  <2>4. CASE SavePolicy(t, s)
    <3> DEFINE arg == [name |-> dom[t].name, text |-> dom[t].body, typed |-> dom[t].typed]
    <3>1. dom[t].name \in Names /\ dom[t].body \in Texts /\ dom[t].typed \in BOOLEAN
      BY <1>t, <2>4, PageFields DEF SavePolicy, PagesInv
    <3>2. RequestOK(Sent("save", token[t], arg))
      BY <3>1, SentOK DEF AppKinds, ScreenKinds, Args
    <3> QED BY <1>2, <2>4, <3>2 DEF SavePolicy, Ask, AppKinds, ScreenKinds
  <2>5. CASE ReadSecret(t, s) \/ WriteSecret(t, s) \/ CreateToken(t, s) \/ RevokeLease(t, s)
    <3>1. PICK kind, arg :
            /\ kind \in {"read", "write", "create", "revoke"}
            /\ Call(t, s, kind, token[t], arg)
            /\ \/ arg \in {"GET", "PUT", dom[t].hooks}
               \/ arg \in Options(t, "leases")
      BY <2>5 DEF ReadSecret, WriteSecret, CreateToken, RevokeLease, Ask
    <3>2. dom[t].hooks \in Nat
      BY <1>t, PageFields DEF PagesInv
    <3>3. Options(t, "leases") \subseteq UNION Contents
      BY <1>t, ListOptions
    <3>4. arg \in Args
      BY <3>1, <3>2, <3>3 DEF Args
    <3>5. kind \in AppKinds /\ RequestOK(Sent(kind, token[t], arg))
      BY <3>1, <3>4, SentOK DEF AppKinds, ScreenKinds
    <3> QED BY <1>2, <3>1, <3>5
  <2>6. CASE EnterLine(t, s)
    <3>1. PICK line : UNCHANGED flight \/ (RunCommand(line) # None
                        /\ Call(t, s, "line", token[t], RunCommand(line)))
      BY <2>6 DEF EnterLine, Ask
    <3>2. RunCommand(line) # None => RunCommand(line) \in Args
      BY CommandMethod DEF Args
    <3>3. "line" \in AppKinds
          /\ (RunCommand(line) # None => RequestOK(Sent("line", token[t], RunCommand(line))))
      BY <3>2, SentOK DEF AppKinds
    <3> QED BY <1>0, <1>2, <3>1, <3>3
  <2> QED BY <1>4, <2>1, <2>2, <2>3, <2>4, <2>5, <2>6 DEF UseScreen
<1>5. CASE OpenApp(t, s)
  <2>1. dom[t].nav \in Views /\ "secrets" \in Views
    BY <1>t, PageFields DEF PagesInv, Views
  <2> QED BY <1>1, <1>5, <2>1 DEF OpenApp
<1> QED BY <1>3, <1>4, <1>5

LEMMA RequestsLoaded ==
  ASSUME IInv, TypeInv, NEW t \in Tabs, LoadPage(t)
  PROVE  RequestsInv'
<1>1. /\ Shape /\ RequestsInv /\ stored \in Tokens \cup {None}
      /\ flight' = [flight EXCEPT ![t] = Boot(stored)]
  BY DEF IInv, Types, TypeInv, LoadPage
<1>2. flight'[t] = Boot(stored) /\ \A u \in Tabs \ {t} : flight'[u] = flight[u]
  BY <1>1 DEF Shape
<1> SUFFICES ASSUME NEW u \in Tabs, NEW r \in Slots, flight'[u][r] # None
             PROVE  RequestOK(flight'[u][r])
  BY DEF RequestsInv, RequestOK
<1>3. CASE u # t
  BY <1>1, <1>2, <1>3 DEF RequestsInv
<1>4. CASE u = t
  <2>1. flight'[u][r] = Sent("bootStatus", stored, None)
    BY <1>2, <1>4 DEF Boot
  <2> QED BY <2>1, SentOK DEF BootKinds, Args
<1> QED BY <1>3, <1>4

LEMMA RequestsKept ==
  ASSUME IInv, TypeInv, [Next]_vars
  PROVE  RequestsInv'
<1>0. RequestsInv /\ world.tabs \subseteq Tabs
  BY TabsOfWorld DEF TypeInv, IInv
<1>1. CASE UNCHANGED flight
  BY <1>0, <1>1 DEF RequestsInv, RequestOK
<1>2. ASSUME NEW t \in world.tabs, NEW s \in Slots, Proceed(t, s) PROVE RequestsInv'
  <2>1. CASE ServeSession(t, s) \/ ServeScreen(t, s)
    <3>1. PICK a : /\ flight[t][s] # None /\ Answer(t, s, a)
                   /\ RequestOK(Answered(flight[t][s], a))
      BY <1>0, <2>1, SessionAnswers, ScreenAnswers
    <3> QED BY <1>0, <3>1, RequestAnswered DEF IInv
  <2> QED BY <1>0, <1>2, <2>1, SessionRequestsKept, ScreenRequestsKept DEF Proceed
<1>3. ASSUME NEW t \in world.tabs, NEW s \in Slots, UseSession(t, s) \/ UseScreen(t, s)
      PROVE  RequestsInv'
  BY <1>0, <1>3, SessionRequestsKept, ScreenRequestsKept
<1>4. ASSUME NEW t \in world.tabs, Reload(t) PROVE RequestsInv'
  BY <1>0, <1>4, RequestsLoaded DEF Reload, UserReload, Leave
<1>5. ASSUME NEW t \in world.tabs, EditPolicy(t) PROVE UNCHANGED flight
  BY <1>5 DEF EditPolicy
<1>6. CASE Environment \/ UNCHANGED vars
  BY <1>1, <1>6 DEF Environment, LoseToken, OpenServer, SealServer, RevokeToken, SignOut, vars
<1> QED BY <1>1, <1>2, <1>3, <1>4, <1>5, <1>6 DEF Next

LEMMA Typed ==
  ASSUME IInv, TypeInv
  PROVE  TypeOK
<1>1. \A t \in Tabs, s \in Slots : flight[t][s] # None =>
        /\ flight[t][s].tok \in Tokens \cup {None}
        /\ flight[t][s].ans \in {None, Lost}
           \/ flight[t][s].kind = "list" \/ flight[t][s].ans \in Answers(flight[t][s])
  <2> SUFFICES ASSUME NEW t \in Tabs, NEW s \in Slots, flight[t][s] # None
               PROVE  /\ flight[t][s].tok \in Tokens \cup {None}
                      /\ flight[t][s].ans \in {None, Lost} \/ flight[t][s].kind = "list"
                         \/ flight[t][s].ans \in Answers(flight[t][s])
    OBVIOUS
  <2> DEFINE q == flight[t][s]
  <2>1. q.tok \in Tokens \cup {None} /\ RequestOK(q)
    BY DEF IInv, Shape, TypeInv, RequestsInv
  <2> HIDE DEF q
  <2>2. q.ans \in {None, Lost} \/ q.kind = "list" \/ q.ans \in Answers(q)
    BY <2>1 DEF RequestOK, Answers, StatusKinds, LookupKinds, LoginKinds, BootKinds,
       WriteKinds, AppKinds, ScreenKinds
  <2> QED BY <2>1, <2>2 DEF q
<1> QED BY <1>1 DEF TypeOK, IInv, Types, TypeInv, ServerInv, VaultInv


LEMMA InitTypes == Init => TypeInv
<1> SUFFICES ASSUME Init PROVE TypeInv
  OBVIOUS
<1>1. world \in Worlds /\ InitSession
  BY DEF Init, InitSession
<1>2. PagesInv
  <2>1. dom = [t \in Tabs |-> NoPage]
    BY DEF Init
  <2> QED BY <2>1, NoPageTyped DEF PagesInv
<1>3. VaultInv
  <2>1. leases \subseteq Tokens /\ granted = leases
    BY <1>1, InitIInv DEF Init, IInv, Types
  <2> QED BY <2>1 DEF Init, VaultInv, Texts
<1>4. ServerInv
  <2>1. Threshold \in Nat \ {0}
    BY BoundAssumption
  <2>2. 0 \in 0..(Threshold - 1)
    BY <2>1
  <2>3. sealed \in BOOLEAN /\ Blank \in Shell
    BY <1>1 DEF InitSession, Blank, Shell
  <2> QED BY <1>1, <2>2, <2>3 DEF InitSession, ServerInv
<1>5. RequestsInv
  <2>1. \A q : q.kind = "bootStatus" /\ q.arg = None /\ q.ans = None => RequestOK(q)
    BY DEF RequestOK, BootKinds, LookupKinds, WriteKinds, Args
  <2> QED BY <2>1, FirstRequests DEF RequestsInv
<1> QED BY <1>2, <1>3, <1>4, <1>5 DEF TypeInv

LEMMA NextTypes == IInv /\ TypeInv /\ [Next]_vars => TypeInv'
BY PagesKept, VaultKept, ServerKept, RequestsKept DEF TypeInv

LEMMA TypesInductive == Spec => [](IInv /\ TypeInv)
BY InitIInv, NextIInv, InitTypes, NextTypes, PTL DEF Spec

\* Spec has the invariant TypeOK: in every situation each variable of the server, the
\* page and the browser has its type, and an answer is one that its request may get.
THEOREM TypeOKHolds == Spec => []TypeOK
<1>1. IInv /\ TypeInv => TypeOK
  BY Typed
<1> QED BY <1>1, TypesInductive, PTL

------------------------------------------------------------------------------
(* Tabs.  What a tab does leaves the others alone. *)

Rests(u) == /\ dom'[u] = dom[u] /\ flight'[u] = flight[u] /\ screen'[u] = screen[u]
            /\ token'[u] = token[u] /\ leaving'[u] = leaving[u]

\* A step of tab t, with the request in slot s if it is about one.
StepOf(t, s) == \/ Proceed(t, s)
                \/ Free(t, s) /\ (UseSession(t, s) \/ UseScreen(t, s))
                \/ Reload(t) \/ EditPolicy(t)
                \/ SignOut(t) /\ UNCHANGED <<dom, vault>>

\* The server changes by itself.
ServerStep == LoseToken \/ ((OpenServer \/ SealServer) /\ UNCHANGED <<dom, vault>>)

LEMMA StepsOfTabs ==
  ASSUME IInv, [Next]_vars
  PROVE  \/ \E t \in world.tabs, s \in Slots : StepOf(t, s)
         \/ ServerStep
         \/ UNCHANGED vars
<1>1. 1 \in Slots
  BY BoundAssumption DEF Slots
<1>2. ASSUME NEW t \in Tabs, SignOut(t) PROVE t \in world.tabs
  BY <1>2 DEF SignOut, Ready
<1>3. ASSUME NEW t \in world.tabs, NEW s \in Slots,
             Proceed(t, s) \/ (Free(t, s) /\ (UseSession(t, s) \/ UseScreen(t, s)))
      PROVE  StepOf(t, s)
  BY <1>3 DEF StepOf
<1>4. ASSUME NEW t \in world.tabs, Reload(t) \/ EditPolicy(t) PROVE StepOf(t, 1)
  BY <1>4 DEF StepOf
<1>5. CASE Environment
  BY <1>1, <1>2, <1>5 DEF Environment, ServerStep, StepOf
<1> QED BY <1>1, <1>3, <1>4, <1>5 DEF Next

LEMMA SlotRests ==
  ASSUME Shape, NEW t \in Tabs, NEW s \in Slots, NEW u \in Tabs \ {t},
         \/ \E kind, tok, arg : Call(t, s, kind, tok, arg)
         \/ Done(t, s)
         \/ \E a : Answer(t, s, a)
         \/ UNCHANGED flight
  PROVE  flight'[u] = flight[u]
BY DEF Call, Done, Answer, Shape

LEMMA OthersRest ==
  ASSUME IInv, PagesInv, NEW t \in Tabs, NEW s \in Slots, StepOf(t, s),
         NEW u \in Tabs \ {t}
  PROVE  Rests(u)
<1>t. Shape /\ Types /\ dom \in [Tabs -> PageType]
  BY DEF IInv, PagesInv
<1>d. \A d : dom' = [dom EXCEPT ![t] = d] => dom'[u] = dom[u]
  BY <1>t
<1>0. ASSUME NEW nav, NEW v, NEW known, RenderView(t, s, nav, v, known)
      PROVE  dom'[u] = dom[u] /\ flight'[u] = flight[u]
  BY <1>t, <1>0 DEF RenderView, Shape
<1>1. CASE ServeSession(t, s)
  <2>1. UNCHANGED <<session, dom>> /\ \E a : Answer(t, s, a)
    BY <1>1 DEF ServeSession, ServeLogin, ServeStatus, ServeLookup, ServeCredentials, ServeShare,
       LoseAnswer
  <2> QED BY <1>t, <2>1, SlotRests DEF session, Rests
<1>2. CASE ServeScreen(t, s)
  <2>1. UNCHANGED <<session, dom>> /\ \E a : Answer(t, s, a)
    BY <1>2 DEF ServeScreen, RefuseRequest, ServeList, ServeEnable, ServeSecret, ServeLoad,
       ServeSave, ServeCreate, ServeRevoke, Granted
  <2> QED BY <1>t, <2>1, SlotRests DEF session, Rests
<1>3. CASE HandleSession(t, s)
  <2>1. /\ UNCHANGED dom
        /\ Done(t, s) \/ \E kind, tok, arg : Call(t, s, kind, tok, arg)
        /\ UNCHANGED screen \/ \E x : screen' = [screen EXCEPT ![t] = x]
        /\ UNCHANGED token \/ \E x : token' = [token EXCEPT ![t] = x]
        /\ UNCHANGED leaving \/ \E x : leaving' = [leaving EXCEPT ![t] = x]
    BY <1>3 DEF HandleSession, BootSealed, BootOpen, BootAccepted, BootRefused, Unsealed,
       ShareTaken, TokenAccepted, CredentialsAccepted, LoginFailed, SessionLost, ShowApp,
       SetToken, session
  <2> QED BY <1>t, <2>1, SlotRests DEF Rests, Types
<1>4. CASE OpenApp(t, s)
  <2>1. PICK nav, v, known : RenderView(t, s, nav, v, known)
    BY <1>4 DEF OpenApp
  <2>2. UNCHANGED <<screen, token, leaving>>
    BY <1>4 DEF OpenApp, AppOpened
  <2> QED BY <1>0, <2>1, <2>2 DEF Rests
<1>5. CASE HandleScreen(t, s)
  <2>1. /\ UNCHANGED <<screen, token, leaving>>
        /\ Done(t, s) \/ \E kind, tok, arg : Call(t, s, kind, tok, arg)
        /\ UNCHANGED dom \/ \E d : dom' = [dom EXCEPT ![t] = d]
    BY <1>5 DEF HandleScreen, ListArrived, MountEnabled, SecretShown, PolicyLoaded,
       PolicySaved, TokenCreated, LeaseRevoked, LineAnswered, ScreenLost, Took, session
  <2> QED BY <1>t, <1>d, <2>1, SlotRests DEF Rests
<1>6. CASE UseSession(t, s)
  <2>1. /\ UNCHANGED <<dom, screen, leaving>> /\ \E kind, tok, arg : Call(t, s, kind, tok, arg)
        /\ UNCHANGED token \/ \E x : token' = [token EXCEPT ![t] = x]
    BY <1>6 DEF UseSession, SubmitShare, SubmitToken, SubmitCredentials, SetToken, session
  <2> QED BY <1>t, <2>1, SlotRests DEF Rests, Types
<1>7. CASE UseScreen(t, s)
  <2>1. ASSUME NEW v \in Views, Navigate(t, s, v) PROVE Rests(u)
    BY <1>0, <2>1 DEF Navigate, session, Rests
  <2>2. CASE ~\E v \in Views : Navigate(t, s, v)
    <3>1. /\ UNCHANGED session
          /\ UNCHANGED flight \/ \E kind, tok, arg : Call(t, s, kind, tok, arg)
          /\ \/ UNCHANGED dom
             \/ \E d : dom' = [dom EXCEPT ![t] = d]
             \/ dom' = [dom EXCEPT ![t].asked = @ + 1, ![t].told = @ + 1]
      BY <1>7, <2>2 DEF UseScreen, EnableMount, ReadSecret, WriteSecret, LoadPolicy,
         SavePolicy, CreateToken, RevokeLease, EnterLine, Ask
    <3>2. dom'[u] = dom[u]
      BY <1>t, <1>d, <3>1
    <3> QED BY <1>t, <3>1, <3>2, SlotRests DEF Rests, session
  <2> QED BY <2>1, <2>2
<1>8. CASE Reload(t)
  BY <1>8, <1>t DEF Reload, UserReload, Leave, LoadPage, Rests, Types, Shape
<1>9. CASE EditPolicy(t)
  BY <1>9, <1>t DEF EditPolicy, session, Rests
<1>10. CASE SignOut(t) /\ UNCHANGED <<dom, vault>>
  BY <1>10, <1>t DEF SignOut, SetToken, Rests, Types
<1> QED
  BY <1>1, <1>2, <1>3, <1>4, <1>5, <1>6, <1>7, <1>8, <1>9, <1>10 DEF StepOf, Proceed

------------------------------------------------------------------------------
(* Console lines. *)

LineSlots(t) == {s \in Slots : Is(t, s, "line")}

\* The lines of tab t that have no answer are under way.
Counted(t) == dom[t].asked = dom[t].told + Cardinality(LineSlots(t))

LinesInv == \A t \in Tabs : Counted(t)

LEMMA SlotsFinite ==
  /\ IsFiniteSet(Slots)
  /\ \A t \in Tabs : IsFiniteSet(LineSlots(t)) /\ Cardinality(LineSlots(t)) \in Nat
<1>1. IsFiniteSet(Slots)
  BY BoundAssumption, FS_Interval DEF Slots
<1>2. \A t \in Tabs : LineSlots(t) \subseteq Slots
  BY DEF LineSlots
<1> QED BY <1>1, <1>2, FS_Subset, FS_CardinalityType

\* A page whose counts stay, with the same lines under way.
LEMMA CountsStay ==
  ASSUME NEW t \in Tabs, Counted(t), dom'[t].asked = dom[t].asked, dom'[t].told = dom[t].told,
         \A r \in Slots : Is(t, r, "line")' <=> Is(t, r, "line")
  PROVE  Counted(t)'
<1>1. LineSlots(t)' = LineSlots(t)
  BY DEF LineSlots
<1> QED BY <1>1 DEF Counted

\* A new page has no lines.
LEMMA CountsFresh ==
  ASSUME NEW t \in Tabs, dom'[t].asked = 0, dom'[t].told = 0,
         \A r \in Slots : ~Is(t, r, "line")'
  PROVE  Counted(t)'
<1>1. LineSlots(t)' = {}
  BY DEF LineSlots
<1> QED BY <1>1, FS_EmptySet DEF Counted

LEMMA LineAdded ==
  ASSUME NEW t \in Tabs, NEW s \in Slots, Counted(t), dom[t].asked \in Nat, dom[t].told \in Nat,
         dom'[t].asked = dom[t].asked + 1, dom'[t].told = dom[t].told, ~Is(t, s, "line"),
         \A r \in Slots : Is(t, r, "line")' <=> Is(t, r, "line") \/ r = s
  PROVE  Counted(t)'
<1>1. LineSlots(t)' = LineSlots(t) \cup {s} /\ s \notin LineSlots(t)
  BY DEF LineSlots
<1>2. Cardinality(LineSlots(t)') = Cardinality(LineSlots(t)) + 1
  BY <1>1, SlotsFinite, FS_AddElement
<1> QED BY <1>2, SlotsFinite DEF Counted

LEMMA LineRemoved ==
  ASSUME NEW t \in Tabs, NEW s \in Slots, Counted(t), dom[t].asked \in Nat, dom[t].told \in Nat,
         dom'[t].asked = dom[t].asked, dom'[t].told = dom[t].told + 1, Is(t, s, "line"),
         \A r \in Slots : Is(t, r, "line")' <=> Is(t, r, "line") /\ r # s
  PROVE  Counted(t)'
<1>1. LineSlots(t)' = LineSlots(t) \ {s} /\ s \in LineSlots(t)
  BY DEF LineSlots
<1>2. Cardinality(LineSlots(t)') = Cardinality(LineSlots(t)) - 1
  BY <1>1, SlotsFinite, FS_RemoveElement
<1> QED BY <1>2, SlotsFinite DEF Counted

\* Slot s changes to a request that is as much a line as the one before.
LEMMA LinesPut ==
  ASSUME NEW t \in Tabs, NEW s \in Slots, NEW q, Put(t, s, q),
         (q # None /\ q.kind = "line") <=> Is(t, s, "line")
  PROVE  \A r \in Slots : Is(t, r, "line")' <=> Is(t, r, "line")
BY DEF Put, Is

\* A request is not what marks a free slot.
LEMMA RequestThere ==
  ASSUME NEW q, RequestOK(q), q.tok \in Tokens \cup {None},
         q = [kind |-> q.kind, tok |-> q.tok, arg |-> q.arg, ans |-> q.ans]
  PROVE  q # None
<1>1. q.kind \in Kinds
  BY DEF RequestOK, AppKinds, ScreenKinds, BootKinds, LoginKinds, Kinds
<1>2. q.ans \in Replies
  <2>1. CASE q.kind = "list" \/ q.kind = "load"
    BY <2>1 DEF RequestOK, Replies
  <2>2. CASE q.kind \in WriteKinds
    BY <2>2 DEF RequestOK, Replies
  <2>3. CASE q.kind \in StatusKinds \cup LookupKinds \cup {"loginCreds", "unseal"}
    BY <2>3 DEF RequestOK, Replies
  <2> QED BY <1>1, <2>1, <2>2, <2>3 DEF Kinds, WriteKinds, StatusKinds, LookupKinds
<1>3. q.arg \in Args
  BY DEF RequestOK
<1> QED BY <1>1, <1>2, <1>3, FreeAssumption

LEMMA LinesAnswered ==
  ASSUME IInv, NEW t \in Tabs, NEW s \in Slots, flight[t][s] # None, NEW a, Answer(t, s, a),
         RequestOK(Answered(flight[t][s], a))
  PROVE  \A r \in Slots : Is(t, r, "line")' <=> Is(t, r, "line")
<1> DEFINE q == Answered(flight[t][s], a)
<1>1. Put(t, s, q)
  BY AnswerPuts DEF IInv
<1>2. /\ q.kind = flight[t][s].kind /\ q.tok = flight[t][s].tok
      /\ q = [kind |-> q.kind, tok |-> q.tok, arg |-> q.arg, ans |-> q.ans]
  BY DEF Answered
<1>3. q.tok \in Tokens \cup {None}
  BY <1>2 DEF IInv, Shape
<1> HIDE DEF q
<1>4. RequestOK(q)
  BY DEF q
<1>5. q # None
  BY <1>2, <1>3, <1>4, RequestThere
<1> QED BY <1>1, <1>2, <1>5, LinesPut DEF Is

\* No step is about a console line but drawing a screen, entering it and answering it.
LEMMA LinesDone ==
  ASSUME IInv, NEW t \in Tabs, NEW s \in Slots, Done(t, s), ~Is(t, s, "line")
  PROVE  \A r \in Slots : Is(t, r, "line")' <=> Is(t, r, "line")
BY DonePuts, LinesPut DEF IInv

LEMMA LinesCalled ==
  ASSUME IInv, NEW t \in Tabs, NEW s \in Slots, NEW kind, kind # "line",
         NEW tok \in Tokens \cup {None}, NEW arg, Call(t, s, kind, tok, arg),
         ~Is(t, s, "line")
  PROVE  \A r \in Slots : Is(t, r, "line")' <=> Is(t, r, "line")
<1>1. Put(t, s, Sent(kind, tok, arg))
  BY CallPuts DEF IInv
<1> QED BY <1>1, LinesPut DEF Sent

\* What leaves the counts of console lines alone.
LEMMA CountsUntouched ==
  ASSUME dom \in [Tabs -> PageType], NEW t \in Tabs, NEW a,
         \/ UNCHANGED dom
         \/ dom' = [dom EXCEPT ![t].out = a]
         \/ dom' = [dom EXCEPT ![t].body = a]
         \/ dom' = [dom EXCEPT ![t].cards = a]
         \/ dom' = [dom EXCEPT ![t].name = a, ![t].typed = FALSE]
         \/ dom' = [dom EXCEPT ![t].name = a, ![t].typed = TRUE]
  PROVE  dom'[t].asked = dom[t].asked /\ dom'[t].told = dom[t].told
<1>n. dom[t] \in PageType
  OBVIOUS
<1>1. CASE UNCHANGED dom
  BY <1>1
<1>2. CASE dom' = [dom EXCEPT ![t].out = a]
  BY <1>n, <1>2 DEF PageType
<1>3. CASE dom' = [dom EXCEPT ![t].body = a]
  BY <1>n, <1>3 DEF PageType
<1>4. CASE dom' = [dom EXCEPT ![t].cards = a]
  BY <1>n, <1>4 DEF PageType
<1>5. CASE dom' = [dom EXCEPT ![t].name = a, ![t].typed = FALSE]
  BY <1>n, <1>5 DEF PageType
<1>6. CASE dom' = [dom EXCEPT ![t].name = a, ![t].typed = TRUE]
  BY <1>n, <1>6 DEF PageType
<1> QED BY <1>1, <1>2, <1>3, <1>4, <1>5, <1>6

LEMMA LinesOfSteps ==
  ASSUME IInv, TypeInv, NEW t \in world.tabs, NEW s \in Slots, StepOf(t, s), Counted(t)
  PROVE  Counted(t)'
<1>t. /\ t \in Tabs /\ Shape /\ Types /\ RequestsInv /\ dom \in [Tabs -> PageType]
      /\ token[t] \in Tokens \cup {None} /\ stored \in Tokens \cup {None}
  BY TabsOfWorld DEF IInv, Types, TypeInv, PagesInv
<1>n. dom[t] \in PageType /\ dom[t].asked \in Nat /\ dom[t].told \in Nat
  BY <1>t, PageFields
<1>0. ASSUME UNCHANGED dom, \A r \in Slots : Is(t, r, "line")' <=> Is(t, r, "line")
      PROVE  Counted(t)'
  BY <1>t, <1>0, CountsStay
<1>1. CASE ServeSession(t, s) \/ ServeScreen(t, s)
  <2>1. PICK a : /\ flight[t][s] # None /\ Answer(t, s, a)
                 /\ RequestOK(Answered(flight[t][s], a))
    BY <1>t, <1>1, SessionAnswers, ScreenAnswers
  <2>2. UNCHANGED dom
    BY <1>1 DEF ServeSession, ServeLogin, ServeScreen, RefuseRequest, ServeList,
       ServeEnable, ServeSecret,
       ServeLoad, ServeSave, ServeCreate, ServeRevoke, Granted
  <2> QED BY <1>t, <1>0, <2>1, <2>2, LinesAnswered
<1>2. CASE HandleSession(t, s) \/ (UseSession(t, s) /\ flight[t][s] = None)
  <2>1. /\ UNCHANGED dom /\ ~Is(t, s, "line")
        /\ \/ Done(t, s)
           \/ \E kind \in {"bootLookup", "appStatus", "unseal", "loginLookup", "loginCreds"} :
              \E tok \in Tokens \cup {None} : Call(t, s, kind, tok, None)
    <3>1. UNCHANGED dom /\ ~Is(t, s, "line")
      BY <1>2 DEF HandleSession, UseSession, BootSealed, BootOpen, BootAccepted, BootRefused,
         Unsealed, ShareTaken, TokenAccepted, CredentialsAccepted, LoginFailed, SessionLost,
         Arrived, Is
    <3>2. HandleSession(t, s) \/ UseSession(t, s)
      BY <1>2
    <3> QED BY <1>t, <3>1, <3>2, SessionRequests
  <2> QED BY <1>t, <1>0, <2>1, LinesDone, LinesCalled
<1>3. ASSUME NEW nav \in Views, NEW v \in Views, NEW known, RenderView(t, s, nav, v, known)
      PROVE  Counted(t)'
  <2>1. dom'[t].asked = 0 /\ dom'[t].told = 0
    BY <1>t, <1>3 DEF RenderView, Rendered
  <2>2. ASSUME NEW r \in Slots, Is(t, r, "line")' PROVE FALSE
    <3>1. CASE r = s
      <4>1. flight'[t][r] # None /\ flight'[t][r].kind = "line"
        BY <2>2 DEF Is
      <4>2. flight'[t][r] = Sent("list", token[t], v)
        BY <1>t, <1>3, <3>1, <4>1, RenderSlots
      <4> QED BY <4>1, <4>2 DEF Sent
    <3>2. CASE r # s
      <4>1. flight'[t][r] = IF Is(t, r, "line")
              THEN [kind |-> "oldLine", tok |-> flight[t][r].tok, arg |-> flight[t][r].arg,
                    ans |-> flight[t][r].ans]
              ELSE flight[t][r]
        BY <1>t, <1>3, <3>2, RenderSlots
      <4> QED BY <2>2, <4>1 DEF Is
    <3> QED BY <3>1, <3>2
  <2> QED BY <1>t, <2>1, <2>2, CountsFresh
<1>4. CASE OpenApp(t, s)
  <2>1. dom[t].nav \in Views /\ "secrets" \in Views
    BY <1>n, PageFields DEF Views
  <2> QED BY <1>3, <1>4, <2>1 DEF OpenApp
<1>5. CASE HandleScreen(t, s) /\ ~LineAnswered(t, s)
  <2>1. /\ ~Is(t, s, "line")
        /\ Done(t, s) \/ \E v : Call(t, s, "list", token[t], v)
    BY <1>5 DEF HandleScreen, ListArrived, MountEnabled, SecretShown, PolicyLoaded,
       PolicySaved, TokenCreated, LeaseRevoked, ScreenLost, Took, Arrived, Is, ScreenKinds
  <2>2. dom'[t].asked = dom[t].asked /\ dom'[t].told = dom[t].told
    <3>1. ASSUME NEW v, NEW a \in Contents \cup {{}}, Has(dom[t], v),
                 dom' = [dom EXCEPT ![t] = Filled(dom[t], v, a)]
          PROVE  dom'[t].asked = dom[t].asked /\ dom'[t].told = dom[t].told
      BY <1>t, <1>n, <3>1, FilledFields
    <3>2. CASE ListArrived(t, s)
      <4>1. Took(t, s, "list", flight[t][s].ans)
        BY <3>2 DEF ListArrived
      <4>2. flight[t][s].ans \in {Refused} \cup Contents
        BY <1>t, <4>1, TookAnswer DEF RequestOK
      <4>3. UNCHANGED dom \/ \E v : \E a \in Contents \cup {{}} :
              Has(dom[t], v) /\ dom' = [dom EXCEPT ![t] = Filled(dom[t], v, a)]
        BY <3>2, <4>2 DEF ListArrived
      <4> QED BY <3>1, <4>3
    <3>3. CASE ~ListArrived(t, s)
      <4>1. \/ UNCHANGED dom
            \/ \E a : \/ dom' = [dom EXCEPT ![t].out = a]
                      \/ dom' = [dom EXCEPT ![t].body = a]
                      \/ dom' = [dom EXCEPT ![t].cards = a]
        BY <1>5, <3>3 DEF HandleScreen, MountEnabled, SecretShown, PolicyLoaded,
           PolicySaved, TokenCreated, LeaseRevoked, ScreenLost
      <4> QED BY <1>t, <1>n, <4>1, CountsUntouched
    <3> QED BY <3>2, <3>3
  <2> QED BY <1>t, <2>1, <2>2, CountsStay, LinesDone, LinesCalled
<1>6. CASE LineAnswered(t, s)
  <2>1. CASE Is(t, s, "line")
    <3>1. dom'[t].asked = dom[t].asked /\ dom'[t].told = dom[t].told + 1 /\ Done(t, s)
      BY <1>t, <1>n, <1>6, <2>1 DEF LineAnswered, PageType
    <3>2. \A r \in Slots : Is(t, r, "line")' <=> Is(t, r, "line") /\ r # s
      BY <1>t, <3>1, DonePuts DEF Put, Is
    <3> QED BY <1>t, <1>n, <2>1, <3>1, <3>2, LineRemoved
  <2>2. CASE ~Is(t, s, "line")
    BY <1>t, <1>0, <1>6, <2>2, LinesDone DEF LineAnswered
  <2> QED BY <2>1, <2>2
<1>7. CASE UseScreen(t, s) /\ flight[t][s] = None
  <2>1. CASE \E v \in Views : Navigate(t, s, v)
    BY <1>3, <2>1 DEF Navigate
  <2>2. ASSUME NEW line, RunCommand(line) # None,
               Call(t, s, "line", token[t], RunCommand(line)),
               dom' = [dom EXCEPT ![t].asked = @ + 1]
        PROVE  Counted(t)'
    <3> DEFINE q == Sent("line", token[t], RunCommand(line))
    <3>1. Put(t, s, q)
      BY <1>t, <2>2, CallPuts
    <3>2. q.kind = "line" /\ q.tok \in Tokens \cup {None}
          /\ q = [kind |-> q.kind, tok |-> q.tok, arg |-> q.arg, ans |-> q.ans]
      BY <1>t DEF Sent
    <3>3. RequestOK(q)
      <4>1. RunCommand(line) \in Args /\ "line" \in AppKinds
        BY <2>2, CommandMethod DEF Args, AppKinds
      <4> QED BY <4>1, SentOK
    <3> HIDE DEF q
    <3>4. q # None
      BY <3>2, <3>3, RequestThere
    <3>5. \A r \in Slots : Is(t, r, "line")' <=> Is(t, r, "line") \/ r = s
      BY <1>t, <3>1, <3>2, <3>4 DEF Put, Is
    <3>6. dom'[t].asked = dom[t].asked + 1 /\ dom'[t].told = dom[t].told
      BY <1>t, <1>n, <2>2 DEF PageType
    <3> QED BY <1>t, <1>n, <1>7, <3>5, <3>6, LineAdded DEF Is
  <2>3. CASE UNCHANGED flight /\ dom' = [dom EXCEPT ![t].asked = @ + 1, ![t].told = @ + 1]
    <3>1. dom'[t].asked = dom[t].asked + 1 /\ dom'[t].told = dom[t].told + 1
      BY <1>t, <1>n, <2>3 DEF PageType
    <3>2. LineSlots(t)' = LineSlots(t)
      BY <2>3 DEF LineSlots, Is
    <3> QED BY <1>t, <1>n, <3>1, <3>2, SlotsFinite DEF Counted
  <2>4. CASE ~EnterLine(t, s) /\ ~\E v \in Views : Navigate(t, s, v)
    <3>1. \E kind, arg : kind # "line" /\ Call(t, s, kind, token[t], arg)
      BY <1>7, <2>4 DEF UseScreen, EnableMount, ReadSecret, WriteSecret, LoadPolicy, SavePolicy,
         CreateToken, RevokeLease, Ask
    <3>2. \A r \in Slots : Is(t, r, "line")' <=> Is(t, r, "line")
      BY <1>t, <1>7, <3>1, LinesCalled DEF Is
    <3>3. dom'[t].asked = dom[t].asked /\ dom'[t].told = dom[t].told
      <4>1. \/ UNCHANGED dom
            \/ \E a : dom' = [dom EXCEPT ![t].name = a, ![t].typed = FALSE]
        BY <1>7, <2>4 DEF UseScreen, EnableMount, ReadSecret, WriteSecret, LoadPolicy,
           SavePolicy, CreateToken, RevokeLease
      <4> QED BY <1>t, <1>n, <4>1, CountsUntouched
    <3> QED BY <1>t, <3>2, <3>3, CountsStay
  <2>5. EnterLine(t, s) =>
          \/ \E line : /\ RunCommand(line) # None
                       /\ Call(t, s, "line", token[t], RunCommand(line))
                       /\ dom' = [dom EXCEPT ![t].asked = @ + 1]
          \/ UNCHANGED flight /\ dom' = [dom EXCEPT ![t].asked = @ + 1, ![t].told = @ + 1]
    BY DEF EnterLine, Ask
  <2> QED BY <2>1, <2>2, <2>3, <2>4, <2>5
<1>8. CASE Reload(t)
  <2>1. dom' = [dom EXCEPT ![t] = NoPage] /\ flight' = [flight EXCEPT ![t] = Boot(stored)]
    BY <1>8 DEF Reload, UserReload, Leave, LoadPage
  <2>2. flight'[t] = Boot(stored) /\ dom'[t] = NoPage
    BY <1>t, <2>1 DEF Shape
  <2>3. \A r \in Slots : ~Is(t, r, "line")'
    BY <2>2 DEF Is, Boot, Sent
  <2>4. dom'[t].asked = 0 /\ dom'[t].told = 0
    <3>1. NoPage.asked = 0 /\ NoPage.told = 0
      BY DEF NoPage
    <3> QED BY <2>2, <3>1
  <2> QED BY <1>t, <2>3, <2>4, CountsFresh
<1>9. CASE EditPolicy(t)
  <2>1. dom'[t].asked = dom[t].asked /\ dom'[t].told = dom[t].told /\ UNCHANGED flight
    BY <1>t, <1>n, <1>9, CountsUntouched DEF EditPolicy
  <2> QED BY <1>t, <2>1, CountsStay DEF Is
<1>10. CASE SignOut(t) /\ UNCHANGED <<dom, vault>>
  BY <1>0, <1>10 DEF SignOut, Is
<1>11. ASSUME Free(t, s) PROVE flight[t][s] = None
  BY <1>11 DEF Free
<1>12. CASE Proceed(t, s)
  BY <1>1, <1>2, <1>4, <1>5, <1>6, <1>12 DEF Proceed
<1> QED
  BY <1>2, <1>7, <1>8, <1>9, <1>10, <1>11, <1>12 DEF StepOf

LEMMA LinesKept ==
  ASSUME IInv, TypeInv, LinesInv, [Next]_vars
  PROVE  LinesInv'
<1>1. ASSUME NEW u \in Tabs, dom'[u] = dom[u], flight'[u] = flight[u]
      PROVE  Counted(u)'
  BY <1>1, CountsStay DEF LinesInv, Is
<1>2. ASSUME NEW t \in world.tabs, NEW s \in Slots, StepOf(t, s), NEW u \in Tabs
      PROVE  Counted(u)'
  <2>1. CASE u = t
    BY <1>2, <2>1, LinesOfSteps DEF LinesInv
  <2>2. CASE u # t
    <3>1. t \in Tabs /\ PagesInv
      BY <1>2, TabsOfWorld DEF IInv, TypeInv
    <3> QED BY <1>1, <1>2, <2>2, <3>1, OthersRest DEF Rests
  <2> QED BY <2>1, <2>2
<1>3. CASE ServerStep
  BY <1>1, <1>3 DEF ServerStep, LoseToken, OpenServer, SealServer, RevokeToken, LinesInv
<1>4. CASE UNCHANGED vars
  BY <1>1, <1>4 DEF vars, LinesInv
<1> QED BY <1>2, <1>3, <1>4, StepsOfTabs DEF LinesInv

\* Spec has the invariant EveryLineAnswered: in every situation a line of the console
\* is answered on the console it was typed in, and once.
THEOREM EveryLineAnsweredHolds == Spec => []EveryLineAnswered
<1>1. Init => LinesInv
  <2> SUFFICES ASSUME Init, NEW t \in Tabs
               PROVE  dom[t].asked = dom[t].told + Cardinality(LineSlots(t))
    BY DEF LinesInv, Counted
  <2>1. dom[t].asked = 0 /\ dom[t].told = 0
    BY DEF Init, NoPage
  <2>2. LineSlots(t) = {}
    BY FirstRequests DEF LineSlots, Is
  <2> QED BY <2>1, <2>2, FS_EmptySet
<1>2. IInv /\ TypeInv /\ LinesInv /\ [Next]_vars => LinesInv'
  BY LinesKept
<1>3. LinesInv => EveryLineAnswered
  BY DEF LinesInv, Counted, LineSlots, EveryLineAnswered
<1> QED BY <1>1, <1>2, <1>3, TypesInductive, PTL DEF Spec

------------------------------------------------------------------------------
(* The policy editor. *)

\* A user who waits, and no answer gets lost.
Mild == world.manner # "hasty" /\ "lose" \notin world.faults

\* A server that errs or gets sealed refuses a text, which empties the editor.
MayBlank == {"refuse", "seal"} \cap world.faults # {}

\* The texts of policy n.  Only what a revoked token asks for may be without one.
Own(n)     == {n, "edited"} \cup (IF MayBlank THEN {""} ELSE {})
Dead(tok)  == tok \notin valid
Held(x, n, tok) == n \in renamed \/ x \in Own(n) \/ (x = "" /\ Dead(tok))

\* A request of tab t, with the text it loads or saves.
AskedRight(t, q) ==
  /\ q.kind \in AppKinds => q.tok \in issued /\ q.tok = token[t]
  /\ q.kind = "load" => /\ q.ans = Refused => MayBlank \/ Dead(q.tok)
                        /\ q.ans # Lost
                        /\ q.ans \notin {None, Refused}
                             => q.ans \in Own(q.arg) \/ q.arg \in renamed
                        /\ dom[t].name \in {"", q.arg}
  /\ q.kind = "save" => q.arg.typed \/ Held(q.arg.text, q.arg.name, q.tok)
  /\ q.kind \in LookupKinds /\ q.ans = "ok" => q.tok \in issued /\ (MayBlank \/ ~sealed)
  /\ q.kind = "loginCreds" /\ q.ans \in Tokens
       => q.ans \in issued /\ (MayBlank \/ ~sealed)

Loads(t) == \E s \in Slots : Is(t, s, "load")

\* The editor shows the text of the policy that Load put there, unless one is on
\* its way.
Editor(t) ==
  /\ screen[t] = "app" /\ ~leaving[t] => token[t] \in issued
  /\ screen[t] = "app" => MayBlank \/ ~sealed
  /\ dom[t].name # "" => screen[t] = "app" /\ dom[t].view = "policies"
  /\ dom[t].name # "" /\ ~dom[t].typed /\ ~leaving[t] /\ ~Loads(t)
       => Held(dom[t].body, dom[t].name, token[t])

Edits(t) ==
  /\ \A s \in Slots : flight[t][s] # None => AskedRight(t, flight[t][s])
  /\ \A r, s \in Slots : Is(t, r, "load") /\ Is(t, s, "load") => r = s
  /\ Editor(t)

TextsInv == Mild => /\ \A t \in Tabs : Edits(t)
                    /\ \A n \in Names \ renamed : policies[n] \in Own(n)

\* What the server forgets stays forgotten.
ServerKeeps == /\ world' = world /\ issued \subseteq issued'
               /\ \A k \in issued : Dead(k) => Dead(k)'
               /\ sealed' => sealed \/ MayBlank
               /\ renamed \subseteq renamed'

LEMMA ServerSteps ==
  ASSUME IInv, [Next]_vars
  PROVE  ServerKeeps
<1>t. valid \subseteq issued /\ issued \subseteq Tokens
  BY DEF IInv, Types
<1>0. ASSUME UNCHANGED <<sealed, valid, issued, world, renamed>> PROVE ServerKeeps
  BY <1>0 DEF ServerKeeps, Dead
<1>1. ASSUME NEW t \in world.tabs, NEW s \in Slots, StepOf(t, s) PROVE ServerKeeps
  <2>1. CASE ServeLogin(t, s)
    BY <1>t, <2>1 DEF ServeLogin, ServeCredentials, ServerKeeps, Dead
  <2>2. CASE ServeShare(t, s) /\ UNCHANGED vault
    BY <2>2 DEF ServeShare, ServerKeeps, Dead, vault
  <2>3. CASE ServeSession(t, s) /\ ~ServeLogin(t, s) /\ ~ServeShare(t, s)
    BY <1>0, <2>3 DEF ServeSession, ServeStatus, ServeLookup, LoseAnswer, server, vault
  <2>4. CASE HandleSession(t, s) \/ OpenApp(t, s) \/ UseSession(t, s)
    BY <1>0, <2>4 DEF HandleSession, BootSealed, BootOpen, BootAccepted, BootRefused, Unsealed,
       ShareTaken, TokenAccepted, CredentialsAccepted, LoginFailed, SessionLost, OpenApp,
       AppOpened, UseSession, SubmitShare, SubmitToken, SubmitCredentials, server, vault
  <2>5. CASE HandleScreen(t, s)
    BY <1>0, <2>5 DEF HandleScreen, ListArrived, MountEnabled, SecretShown, PolicyLoaded,
       PolicySaved, TokenCreated, LeaseRevoked, LineAnswered, ScreenLost, Took, server, vault
  <2>6. CASE UseScreen(t, s) \/ EditPolicy(t)
    BY <1>0, <2>6 DEF UseScreen, Navigate, EnableMount,
       ReadSecret, WriteSecret, LoadPolicy, SavePolicy, CreateToken, RevokeLease, EnterLine,
       Ask, EditPolicy, server, vault
  <2>7. CASE Reload(t) \/ (SignOut(t) /\ UNCHANGED <<dom, vault>>)
    BY <1>0, <2>7 DEF Reload, UserReload, Leave, LoadPage, SignOut, server, vault
  <2>8. CASE ServeSave(t, s)
    BY <2>8 DEF ServeSave, Granted, ServerKeeps, Dead, server
  <2>9. CASE ServeRevoke(t, s)
    BY <2>9 DEF ServeRevoke, ServerKeeps, Dead
  <2>10. CASE ServeScreen(t, s) /\ ~ServeSave(t, s) /\ ~ServeRevoke(t, s)
    BY <1>0, <2>10 DEF ServeScreen, RefuseRequest, ServeList, ServeEnable, ServeSecret,
       ServeLoad, ServeCreate, Granted, server, vault
  <2> QED
    BY <1>1, <2>1, <2>2, <2>3, <2>4, <2>5, <2>6, <2>7, <2>8, <2>9, <2>10
    DEF StepOf, Proceed, ServeSession
<1>2. CASE ServerStep
  BY <1>2 DEF ServerStep, LoseToken, OpenServer, SealServer, RevokeToken, ServerKeeps, Dead,
     MayBlank, vault
<1>3. CASE UNCHANGED vars
  BY <1>0, <1>3 DEF vars
<1> QED BY <1>1, <1>2, <1>3, StepsOfTabs

LEMMA HeldStays ==
  ASSUME ServerKeeps, NEW x, NEW n, NEW tok \in issued, Held(x, n, tok)
  PROVE  Held(x, n, tok)'
BY DEF Held, Own, MayBlank, ServerKeeps

\* What a request of a tab carries, while the page stays.
LEMMA AskedStays ==
  ASSUME ServerKeeps, NEW t \in Tabs, NEW q, AskedRight(t, q), token'[t] = token[t],
         dom'[t].name \in {"", dom[t].name}
  PROVE  AskedRight(t, q)'
<1>1. "load" \in AppKinds /\ "save" \in AppKinds
  BY DEF AppKinds, ScreenKinds
<1>2. q.kind \in {"load", "save"} => q.tok \in issued
  BY <1>1 DEF AskedRight
<1>3. q.kind = "save" => q.arg.typed \/ Held(q.arg.text, q.arg.name, q.tok)'
  BY <1>2, HeldStays DEF AskedRight
<1> QED BY <1>2, <1>3 DEF AskedRight, ServerKeeps, MayBlank, Own

\* A tab that keeps its page, its section and its requests but the one in slot s.
LEMMA EditsStay ==
  ASSUME ServerKeeps, NEW t \in Tabs, Edits(t), NEW s \in Slots, NEW q,
         screen'[t] = screen[t], token'[t] = token[t], leaving'[t] = leaving[t],
         dom'[t].name = dom[t].name, dom'[t].view = dom[t].view, dom'[t].body = dom[t].body,
         dom'[t].typed = dom[t].typed,
         \A r \in Slots : flight'[t][r] = IF r = s THEN q ELSE flight[t][r],
         q # None => AskedRight(t, q)',
         (q # None /\ q.kind = "load") <=> Is(t, s, "load")
  PROVE  Edits(t)'
<1>1. \A r \in Slots : flight'[t][r] # None => AskedRight(t, flight[t][r])'
  <2> SUFFICES ASSUME NEW r \in Slots, flight'[t][r] # None
               PROVE  AskedRight(t, flight[t][r])'
    OBVIOUS
  <2>1. PICK p : p = flight'[t][r]
    OBVIOUS
  <2>2. AskedRight(t, p)'
    <3>1. CASE r = s
      BY <2>1, <3>1
    <3>2. CASE r # s
      <4>1. p = flight[t][r] /\ p # None
        BY <2>1, <3>2
      <4>2. AskedRight(t, p)
        BY <4>1 DEF Edits
      <4> QED BY <4>2, AskedStays
    <3> QED BY <3>1, <3>2
  <2> QED BY <2>1, <2>2 DEF AskedRight
<1>2. \A r \in Slots : Is(t, r, "load")' <=> Is(t, r, "load")
  BY DEF Is
<1>3. Loads(t)' <=> Loads(t)
  BY <1>2 DEF Loads
<1>4. Editor(t)'
  <2>1. (dom[t].name # "" /\ ~dom[t].typed /\ ~leaving[t] /\ ~Loads(t)
           => Held(dom[t].body, dom[t].name, token[t]))'
    <3>1. SUFFICES ASSUME dom[t].name # "", ~dom[t].typed, ~leaving[t], ~Loads(t)
                   PROVE  Held(dom[t].body, dom[t].name, token[t])'
      BY <1>3
    <3>2. token[t] \in issued /\ Held(dom[t].body, dom[t].name, token[t])
      BY <3>1 DEF Edits, Editor
    <3>3. PICK x, n, k : x = dom[t].body /\ n = dom[t].name /\ k = token[t]
      OBVIOUS
    <3>4. Held(x, n, k)'
      BY <3>2, <3>3, HeldStays
    <3> QED BY <3>3, <3>4 DEF Held, Own, Dead, MayBlank
  <2>2. (screen[t] = "app" /\ ~leaving[t] => token[t] \in issued)'
    BY DEF Edits, Editor, ServerKeeps
  <2>3. (screen[t] = "app" => MayBlank \/ ~sealed)'
    BY DEF Edits, Editor, ServerKeeps, MayBlank
  <2>4. (dom[t].name # "" => screen[t] = "app" /\ dom[t].view = "policies")'
    BY DEF Edits, Editor
  <2> QED BY <2>1, <2>2, <2>3, <2>4 DEF Editor
<1>5. (\A r, p \in Slots : Is(t, r, "load") /\ Is(t, p, "load") => r = p)'
  BY <1>2 DEF Edits
<1> QED BY <1>1, <1>4, <1>5 DEF Edits

\* The request in slot s gets its answer.
LEMMA EditsServed ==
  ASSUME IInv, TypeInv, TextsInv, Mild, ServerKeeps, NEW t \in world.tabs, NEW s \in Slots,
         ServeSession(t, s) \/ ServeScreen(t, s)
  PROVE  Edits(t)'
<1>t. /\ t \in Tabs /\ IInv /\ TypeInv /\ Shape /\ RequestsInv /\ VaultInv /\ Edits(t)
      /\ \A n \in Names \ renamed : policies[n] \in Own(n)
      /\ valid \subseteq issued
  BY TabsOfWorld DEF IInv, Types, TypeInv, TextsInv
<1> DEFINE old == flight[t][s]
<1>1. UNCHANGED <<session, dom>>
  BY DEF ServeSession, ServeStatus, ServeLookup, ServeLogin, ServeCredentials, ServeShare,
     LoseAnswer, ServeScreen, RefuseRequest, ServeList, ServeEnable, ServeSecret,
     ServeLoad, ServeSave,
     ServeCreate, ServeRevoke, Granted
<1>2. PICK a :
        /\ old # None /\ Answer(t, s, a)
        /\ old.kind = "load" => \/ a = Refused /\ (~Works(old.tok) \/ MayBlank)
                                \/ a = policies[old.arg]
        /\ old.kind \in LookupKinds /\ a = "ok" => Works(old.tok) /\ UNCHANGED sealed
        /\ old.kind = "loginCreds" /\ a \in Tokens => a \in issued' /\ ~sealed /\ UNCHANGED sealed
  <2>1. CASE ServeSession(t, s)
    <3>1. CASE ServeLookup(t, s)
      <4>1. PICK b \in {"ok", "no"} : Answer(t, s, b) /\ (b = "ok" => Works(old.tok))
        BY <3>1 DEF ServeLookup
      <4>2. old # None /\ old.kind \in LookupKinds /\ UNCHANGED sealed
        BY <3>1 DEF ServeLookup, Waiting, Is, LookupKinds, server
      <4>3. "load" \notin LookupKinds /\ "loginCreds" \notin LookupKinds
        BY DEF LookupKinds
      <4> QED BY <4>1, <4>2, <4>3
    <3>2. CASE ServeLogin(t, s)
      <4>1. "no" \notin Tokens
        BY WordsAssumption
      <4> QED BY <3>2, <4>1 DEF ServeLogin, ServeCredentials, Waiting, Is, LookupKinds
    <3>3. CASE ServeStatus(t, s) \/ ServeShare(t, s)
      BY <3>3 DEF ServeStatus, ServeShare, Waiting, Is, LookupKinds
    <3> QED BY <2>1, <3>1, <3>2, <3>3 DEF ServeSession, LoseAnswer, Mild
  <2>2. CASE ServeScreen(t, s)
    <3>1. \A kind \in ScreenKinds \cup {"line", "oldLine"} :
            kind \notin LookupKinds \cup {"loginCreds"}
      BY DEF ScreenKinds, LookupKinds
    <3>2. CASE RefuseRequest(t, s)
      <4>1. Answer(t, s, Refused) /\ old # None /\ old.kind \in ScreenKinds \cup {"line", "oldLine"}
        BY <3>2 DEF RefuseRequest, Waiting, Is
      <4>2. MayBlank \/ ~Works(old.tok)
        BY <3>2 DEF RefuseRequest, MayBlank
      <4> QED BY <3>1, <4>1, <4>2
    <3>3. CASE ServeLoad(t, s)
      BY <3>3 DEF ServeLoad, Granted, Waiting, Is, LookupKinds
    <3>4. CASE ~RefuseRequest(t, s) /\ ~ServeLoad(t, s)
      BY <2>2, <3>4 DEF ServeScreen, ServeList, ServeEnable, ServeSecret, ServeSave,
         ServeCreate, ServeRevoke, Granted, Waiting, Is, LookupKinds
    <3> QED BY <3>2, <3>3, <3>4
  <2> QED BY <2>1, <2>2
<1>3. PICK q :
        /\ Put(t, s, q) /\ q.kind = old.kind /\ q.tok = old.tok /\ q.arg = old.arg /\ q.ans = a
        /\ q = [kind |-> q.kind, tok |-> q.tok, arg |-> q.arg, ans |-> q.ans]
        /\ RequestOK(q) /\ q.tok \in Tokens \cup {None}
  <2>1. PICK q : q = Answered(old, a)
    OBVIOUS
  <2>2. Put(t, s, q)
    BY <1>t, <1>2, <2>1, AnswerPuts
  <2>5. RequestOK(q)
    <3>1. PICK b : /\ flight[t][s] # None /\ Answer(t, s, b)
                   /\ RequestOK(Answered(flight[t][s], b))
      BY <1>t, SessionAnswers, ScreenAnswers
    <3>2. Put(t, s, Answered(flight[t][s], b))
      BY <1>t, <3>1, AnswerPuts
    <3> QED BY <1>t, <2>2, <3>1, <3>2 DEF Put
  <2>3. /\ q.kind = old.kind /\ q.tok = old.tok /\ q.arg = old.arg /\ q.ans = a
        /\ q = [kind |-> q.kind, tok |-> q.tok, arg |-> q.arg, ans |-> q.ans]
    BY <2>1 DEF Answered
  <2>4. old.tok \in Tokens \cup {None}
    BY <1>t, <1>2 DEF Shape
  <2> QED BY <2>2, <2>3, <2>4, <2>5
<1>4. RequestOK(old) /\ AskedRight(t, old)
  BY <1>t, <1>2 DEF RequestsInv, Edits
<1>5. token'[t] = token[t] /\ dom'[t].name = dom[t].name /\ issued \subseteq issued'
  BY <1>1 DEF session, ServerKeeps
<1>6. q.kind \in AppKinds => q.tok \in issued /\ q.tok \in issued' /\ q.tok = token'[t]
  BY <1>3, <1>4, <1>5 DEF AskedRight
<1>7. q.kind = "load" => /\ q.ans = Refused => (MayBlank \/ Dead(q.tok))'
                         /\ q.ans # Lost
                         /\ q.ans \notin {None, Refused}
                              => (q.ans \in Own(q.arg) \/ q.arg \in renamed)'
                         /\ dom'[t].name \in {"", q.arg}
  <2> SUFFICES ASSUME q.kind = "load"
               PROVE  /\ q.ans = Refused => (MayBlank \/ Dead(q.tok))'
                      /\ q.ans # Lost
                      /\ q.ans \notin {None, Refused}
                           => (q.ans \in Own(q.arg) \/ q.arg \in renamed)'
                      /\ dom'[t].name \in {"", q.arg}
    OBVIOUS
  <2>1. "load" \in AppKinds
    BY DEF AppKinds, ScreenKinds
  <2>2. /\ q.arg \in Names /\ policies[q.arg] \in Texts
        /\ policies[q.arg] \in Own(q.arg) \/ q.arg \in renamed
    BY <1>t, <1>3, <1>4 DEF RequestOK, VaultInv
  <2>3. policies[q.arg] \notin {Lost, Refused} /\ Refused # Lost
    BY <2>2, AnswersAssumption, RefusedAssumption
  <2>4. ~Works(q.tok) => (MayBlank \/ Dead(q.tok))'
    <3>1. screen[t] = "app"
      BY <1>2, <1>3, <2>1, OnApp
    <3>2. sealed => MayBlank
      BY <1>t, <3>1 DEF Edits, Editor
    <3> QED BY <1>6, <2>1, <3>2 DEF Works, ServerKeeps, MayBlank, Dead
  <2>5. MayBlank => MayBlank'
    BY DEF ServerKeeps, MayBlank
  <2>6. Own(q.arg)' = Own(q.arg) /\ renamed \subseteq renamed'
    BY DEF ServerKeeps, MayBlank, Own
  <2>7. \/ q.ans = Refused /\ (~Works(q.tok) \/ MayBlank)
        \/ q.ans = policies[q.arg]
    BY <1>2, <1>3
  <2>8. dom'[t].name \in {"", q.arg}
    BY <1>3, <1>4, <1>5 DEF AskedRight
  <2> QED BY <2>2, <2>3, <2>4, <2>5, <2>6, <2>7, <2>8
<1>8. q.kind = "save" => q.arg.typed \/ Held(q.arg.text, q.arg.name, q.tok)'
  <2>1. "save" \in AppKinds
    BY DEF AppKinds, ScreenKinds
  <2> QED BY <1>3, <1>4, <1>6, <2>1, HeldStays DEF AskedRight
<1>9. /\ q.kind \in LookupKinds /\ q.ans = "ok" => (q.tok \in issued /\ (MayBlank \/ ~sealed))'
      /\ q.kind = "loginCreds" /\ q.ans \in Tokens => (q.ans \in issued /\ (MayBlank \/ ~sealed))'
  BY <1>t, <1>2, <1>3, <1>5 DEF Works
<1>10. AskedRight(t, q)'
  BY <1>6, <1>7, <1>8, <1>9 DEF AskedRight
<1>11. q # None
  BY <1>3, RequestThere
<1>12. \A r \in Slots : flight'[t][r] = IF r = s THEN q ELSE flight[t][r]
  BY <1>t, <1>3 DEF Put
<1> QED
  BY <1>t, <1>1, <1>2, <1>3, <1>10, <1>11, <1>12, EditsStay DEF session, Is

\* What answers on the screens leave of a page's editor.
LEMMA EditorStays ==
  ASSUME TypeInv, Shape, NEW t \in Tabs, NEW s \in Slots, HandleScreen(t, s),
         ~PolicyLoaded(t, s)
  PROVE  /\ dom'[t].name = dom[t].name /\ dom'[t].view = dom[t].view
         /\ dom'[t].body = dom[t].body /\ dom'[t].typed = dom[t].typed
<1>n. dom \in [Tabs -> PageType] /\ dom[t] \in PageType
  BY DEF TypeInv, PagesInv
<1>1. CASE ListArrived(t, s)
  <2>1. UNCHANGED dom \/ \E v, a : dom' = [dom EXCEPT ![t] = Filled(dom[t], v, a)]
    BY <1>1 DEF ListArrived
  <2>2. ASSUME NEW v, NEW a, dom' = [dom EXCEPT ![t] = Filled(dom[t], v, a)]
        PROVE  /\ dom'[t].name = dom[t].name /\ dom'[t].view = dom[t].view
               /\ dom'[t].body = dom[t].body /\ dom'[t].typed = dom[t].typed
    BY <1>n, <2>2, FilledFields
  <2> QED BY <2>1, <2>2
<1>2. CASE ~ListArrived(t, s)
  <2>1. \/ UNCHANGED dom
        \/ \E a : \/ dom' = [dom EXCEPT ![t].out = a]
                  \/ dom' = [dom EXCEPT ![t].cards = a]
                  \/ dom' = [dom EXCEPT ![t].told = a]
    BY <1>2 DEF HandleScreen, MountEnabled, SecretShown, PolicySaved, TokenCreated,
       LeaseRevoked, LineAnswered, ScreenLost
  <2>2. CASE UNCHANGED dom
    BY <2>2
  <2>3. ASSUME NEW a, dom' = [dom EXCEPT ![t].out = a]
        PROVE  /\ dom'[t].name = dom[t].name /\ dom'[t].view = dom[t].view
               /\ dom'[t].body = dom[t].body /\ dom'[t].typed = dom[t].typed
    BY <1>n, <2>3 DEF PageType
  <2>4. ASSUME NEW a, dom' = [dom EXCEPT ![t].cards = a]
        PROVE  /\ dom'[t].name = dom[t].name /\ dom'[t].view = dom[t].view
               /\ dom'[t].body = dom[t].body /\ dom'[t].typed = dom[t].typed
    BY <1>n, <2>4 DEF PageType
  <2>5. ASSUME NEW a, dom' = [dom EXCEPT ![t].told = a]
        PROVE  /\ dom'[t].name = dom[t].name /\ dom'[t].view = dom[t].view
               /\ dom'[t].body = dom[t].body /\ dom'[t].typed = dom[t].typed
    BY <1>n, <2>5 DEF PageType
  <2> QED BY <2>1, <2>2, <2>3, <2>4, <2>5
<1> QED BY <1>1, <1>2

\* A handler of the screens ends, or asks for a list.
LEMMA HandledSlot ==
  ASSUME NEW t, NEW s, HandleScreen(t, s)
  PROVE  /\ flight[t][s] # None /\ flight[t][s].kind \in AppKinds
         /\ UNCHANGED <<stored, token, screen, leaving, accepted, signedOut, server, refused,
                        world, vault>>
         /\ \/ Done(t, s)
            \/ \E v \in {"secrets", "policies", "leases"} : Call(t, s, "list", token[t], v)
BY DEF HandleScreen, ListArrived, MountEnabled, SecretShown, PolicyLoaded, PolicySaved,
       TokenCreated, LeaseRevoked, LineAnswered, ScreenLost, Took, Arrived, Is, AppKinds,
       ScreenKinds, session

LEMMA EditsHandled ==
  ASSUME IInv, TypeInv, TextsInv, Mild, ServerKeeps, NEW t \in world.tabs, NEW s \in Slots,
         HandleScreen(t, s)
  PROVE  Edits(t)'
<1>t. /\ t \in Tabs /\ Shape /\ RequestsInv /\ Edits(t) /\ dom \in [Tabs -> PageType]
      /\ token[t] \in Tokens \cup {None}
  BY TabsOfWorld DEF IInv, Types, TypeInv, PagesInv, TextsInv
<1>1. flight[t][s] # None /\ flight[t][s].kind \in AppKinds /\ AskedRight(t, flight[t][s])
  BY <1>t, HandledSlot DEF Edits
<1>2. /\ token' = token /\ screen' = screen /\ leaving' = leaving /\ issued' = issued
      /\ valid' = valid /\ renamed' = renamed
  BY HandledSlot DEF server, vault
<1>3. PICK q : /\ Put(t, s, q)
               /\ q = None \/ \E v : q = Sent("list", token[t], v)
  BY <1>t, HandledSlot, DonePuts, CallPuts
<1>4. token[t] \in issued
  BY <1>1 DEF AskedRight
<1>5. (q # None => AskedRight(t, q)') /\ ~(q # None /\ q.kind = "load")
  <2>1. CASE q # None
    <3>1. q.kind = "list" /\ q.tok = token[t]
      BY <1>3, <2>1 DEF Sent
    <3> QED BY <1>2, <1>4, <3>1 DEF AskedRight, LookupKinds
  <2> QED BY <2>1
<1>6. \A r \in Slots : flight'[t][r] = IF r = s THEN q ELSE flight[t][r]
  BY <1>t, <1>3 DEF Put
<1>7. CASE ~PolicyLoaded(t, s)
  <2>1. ~Is(t, s, "load")
    <3>1. flight[t][s].kind = "load" => flight[t][s].ans # Lost
      BY <1>1 DEF AskedRight
    <3> QED BY <1>7, <3>1 DEF HandleScreen, ListArrived, MountEnabled, SecretShown, PolicySaved,
               TokenCreated, LeaseRevoked, LineAnswered, ScreenLost, Took, Arrived, Is
  <2>2. /\ dom'[t].name = dom[t].name /\ dom'[t].view = dom[t].view
        /\ dom'[t].body = dom[t].body /\ dom'[t].typed = dom[t].typed
    BY <1>t, <1>7, EditorStays
  <2> QED BY <1>t, <1>2, <1>5, <1>6, <2>1, <2>2, EditsStay
<1>8. CASE PolicyLoaded(t, s)
  <2>1. PICK p, a : p = flight[t][s] /\ a = flight[t][s].ans
    OBVIOUS
  <2>2. Took(t, s, "load", a) /\ Is(t, s, "load") /\ p.kind = "load" /\ a \notin {None, Lost}
    BY <1>8, <2>1 DEF PolicyLoaded, Took, Is
  <2>3. dom' = IF dom[t].view = "policies"
               THEN [dom EXCEPT ![t].body = IF a = Refused THEN "" ELSE a] ELSE dom
    BY <1>8, <2>1 DEF PolicyLoaded
  <2>4. dom'[t].name = dom[t].name /\ dom'[t].view = dom[t].view
    BY <1>t, <2>3 DEF PageType
  <2>5. \A r \in Slots : ~Is(t, r, "load")'
    BY <1>t, <1>5, <1>6, <2>2 DEF Is, Edits
  <2>6. \A r \in Slots : flight'[t][r] # None => AskedRight(t, flight[t][r])'
    <3> SUFFICES ASSUME NEW r \in Slots, flight'[t][r] # None
                 PROVE  AskedRight(t, flight[t][r])'
      OBVIOUS
    <3>1. PICK x : x = flight'[t][r]
      OBVIOUS
    <3>2. AskedRight(t, x)'
      <4>1. CASE r = s
        BY <1>5, <1>6, <3>1, <4>1
      <4>2. CASE r # s
        <5>1. x = flight[t][r] /\ x # None
          BY <1>6, <3>1, <4>2
        <5>2. AskedRight(t, x)
          BY <1>t, <5>1 DEF Edits
        <5> QED BY <1>t, <1>2, <2>4, <5>2, AskedStays
      <4> QED BY <4>1, <4>2
    <3> QED BY <3>1, <3>2 DEF AskedRight
  <2>7. Editor(t)'
    <3>1. dom[t].name # "" /\ ~leaving[t] => Held(dom'[t].body, dom[t].name, token[t])
      <4> SUFFICES ASSUME dom[t].name # "" PROVE Held(dom'[t].body, dom[t].name, token[t])
        OBVIOUS
      <4>1. dom[t].view = "policies" /\ dom[t].name = p.arg
        BY <1>t, <1>1, <2>1, <2>2 DEF Edits, Editor, AskedRight
      <4>2. dom'[t].body = IF a = Refused THEN "" ELSE a
        BY <1>t, <2>3, <4>1 DEF PageType
      <4>3. a = Refused => MayBlank \/ Dead(token[t])
        BY <1>1, <2>1, <2>2 DEF AskedRight
      <4>4. a # Refused => a \in Own(p.arg) \/ p.arg \in renamed
        BY <1>1, <2>1, <2>2 DEF AskedRight
      <4>5. MayBlank => "" \in Own(p.arg)
        BY DEF Own
      <4> QED BY <4>1, <4>2, <4>3, <4>4, <4>5 DEF Held
    <3>2. PICK x, n, k : x = dom'[t].body /\ n = dom[t].name /\ k = token[t]
      OBVIOUS
    <3>3. dom[t].name # "" /\ ~leaving[t] => Held(x, n, k)'
      BY <1>4, <3>1, <3>2, HeldStays
    <3>4. (dom[t].name # "" /\ ~leaving[t] => Held(dom[t].body, dom[t].name, token[t]))'
      BY <1>2, <2>4, <3>2, <3>3 DEF Held, Own, Dead, MayBlank
    <3>5. (screen[t] = "app" => MayBlank \/ ~sealed)'
      BY <1>t, <1>2 DEF Edits, Editor, ServerKeeps, MayBlank
    <3>6. (screen[t] = "app" /\ ~leaving[t] => token[t] \in issued)'
      BY <1>t, <1>2 DEF Edits, Editor
    <3>7. (dom[t].name # "" => screen[t] = "app" /\ dom[t].view = "policies")'
      BY <1>t, <1>2, <2>4 DEF Edits, Editor
    <3> QED BY <3>4, <3>5, <3>6, <3>7 DEF Editor
  <2> QED BY <2>5, <2>6, <2>7 DEF Edits
<1> QED BY <1>7, <1>8

\* A tab with one request at most.
LEMMA OneRequest ==
  ASSUME NEW t \in Tabs, NEW s \in Slots, NEW q,
         \A r \in Slots : flight'[t][r] = IF r = s THEN q ELSE None,
         q # None => AskedRight(t, q)', Editor(t)'
  PROVE  Edits(t)'
<1>1. (\A r \in Slots : flight[t][r] # None => AskedRight(t, flight[t][r]))'
  BY DEF AskedRight
<1>2. (\A r, p \in Slots : Is(t, r, "load") /\ Is(t, p, "load") => r = p)'
  BY DEF Is
<1> QED BY <1>1, <1>2 DEF Edits

\* A new request is right if it has the page's token, and right text.
LEMMA SentRight ==
  ASSUME NEW t \in Tabs, NEW q, q.ans = None,
         q.kind \in AppKinds => q.tok \in issued' /\ q.tok = token'[t],
         q.kind = "load" => dom'[t].name \in {"", q.arg},
         q.kind = "save" => q.arg.typed \/ Held(q.arg.text, q.arg.name, q.tok)'
  PROVE  AskedRight(t, q)'
<1>1. None # "ok" /\ None \notin Tokens /\ None # Refused /\ None # Lost
  BY NoneAssumption, WordsAssumption, RefusedAssumption
<1> QED BY <1>1 DEF AskedRight

LEMMA SentFields ==
  ASSUME NEW kind, NEW tok, NEW arg, NEW q, q = Sent(kind, tok, arg)
  PROVE  q.kind = kind /\ q.tok = tok /\ q.arg = arg /\ q.ans = None
BY DEF Sent

\* An editor without a name.
LEMMA NamelessEditor ==
  ASSUME NEW t \in Tabs, dom'[t].name = "",
         screen'[t] = "app" /\ ~leaving'[t] => token'[t] \in issued',
         screen'[t] = "app" => (MayBlank \/ ~sealed)'
  PROVE  Editor(t)'
BY DEF Editor

LEMMA EditsSigned ==
  ASSUME IInv, TypeInv, TextsInv, Mild, ServerKeeps, NEW t \in world.tabs, NEW s \in Slots,
         HandleSession(t, s)
  PROVE  Edits(t)'
<1>t. /\ t \in Tabs /\ Shape /\ Types /\ Edits(t) /\ Orderly(t)
      /\ token \in [Tabs -> Tokens \cup {None}] /\ screen \in [Tabs -> {"none", "login", "app"}]
  BY TabsOfWorld DEF IInv, Types, TypeInv, Good, TextsInv
<1>m. world.manner # "hasty"
  BY DEF Mild
<1>1. PICK old : old = flight[t][s]
  OBVIOUS
<1>2. /\ old # None /\ UNCHANGED <<dom, server, world>>
      /\ old.kind \in BootKinds \cup LoginKinds \cup {"unseal", "appStatus"}
  BY <1>1 DEF HandleSession, BootSealed, BootOpen, BootAccepted, BootRefused, Unsealed,
     ShareTaken, TokenAccepted, CredentialsAccepted, LoginFailed, SessionLost, Arrived, Is,
     BootKinds, LoginKinds
<1>3. AskedRight(t, old) /\ old.kind \in KindsOn[screen[t]]
  BY <1>t, <1>m, <1>1, <1>2 DEF Edits, Orderly
<1>4. CASE old.kind = "appStatus"
  <2>1. Done(t, s) /\ UNCHANGED session
    BY <1>1, <1>4 DEF HandleSession, BootSealed, BootOpen, BootAccepted, BootRefused, Unsealed,
       ShareTaken, TokenAccepted, CredentialsAccepted, LoginFailed, SessionLost, Arrived, Is
  <2>2. \A r \in Slots : flight'[t][r] = IF r = s THEN None ELSE flight[t][r]
    BY <1>t, <2>1, DonePuts DEF Put
  <2> QED BY <1>t, <1>1, <1>2, <1>4, <2>1, <2>2, EditsStay DEF session, Is
<1>5. CASE old.kind # "appStatus"
  <2>1. screen[t] # "app"
    <3>1. old.kind \notin AppKinds
      BY <1>2, <1>5 DEF AppKinds, ScreenKinds, BootKinds, LoginKinds
    <3>2. KindsOn["app"] = AppKinds
      BY DEF KindsOn
    <3> QED BY <1>3, <3>1, <3>2
  <2>2. dom[t].name = ""
    BY <1>t, <2>1 DEF Edits, Editor
  <2>3. \A r \in Slots \ {s} : flight[t][r] = None
    BY <1>t, <1>m, <1>1, <1>2, <2>1 DEF Orderly
  <2>4. PICK kind, tok :
          \/ Done(t, s) /\ screen'[t] # "app"
          \/ Call(t, s, "bootLookup", token[t], None) /\ screen'[t] # "app"
          \/ /\ Call(t, s, "appStatus", token'[t], None)
             /\ token'[t] \in issued /\ (MayBlank \/ ~sealed)
    <3>1. CASE BootAccepted(t, s) \/ TokenAccepted(t, s)
      <4>1. old.kind \in LookupKinds /\ old.ans = "ok" /\ token'[t] = token[t]
            /\ Call(t, s, "appStatus", token'[t], None)
        BY <1>1, <3>1 DEF BootAccepted, TokenAccepted, Arrived, Is, LookupKinds, ShowApp
      <4>2. old.tok = token[t]
        BY <1>t, <1>m, <1>1, <1>2, <4>1 DEF Orderly
      <4> QED BY <1>3, <4>1, <4>2 DEF AskedRight
    <3>2. CASE CredentialsAccepted(t, s)
      <4>1. PICK v \in Tokens : /\ old.kind = "loginCreds" /\ old.ans = v /\ token'[t] = v
                                /\ Call(t, s, "appStatus", token'[t], None)
        BY <1>t, <1>1, <3>2 DEF CredentialsAccepted, Arrived, Is, ShowApp, SetToken
      <4> QED BY <1>3, <4>1 DEF AskedRight
    <3>3. CASE BootOpen(t, s)
      BY <1>t, <2>1, <3>3 DEF BootOpen
    <3> QED BY <1>t, <2>1, <3>1, <3>2, <3>3 DEF HandleSession, BootSealed, BootRefused, Unsealed,
               ShareTaken, LoginFailed, SessionLost, session
  <2>5. token'[t] \in Tokens \cup {None} /\ issued' = issued /\ sealed' = sealed
    <3>1. token'[t] \in Tokens \cup {None}
      BY <1>t DEF HandleSession, BootSealed, BootOpen, BootAccepted, BootRefused, Unsealed,
         ShareTaken, TokenAccepted, CredentialsAccepted, LoginFailed, SessionLost, SetToken,
         session
    <3> QED BY <1>2, <3>1 DEF server
  <2>6. PICK q : /\ Put(t, s, q)
                 /\ \/ q = None /\ screen'[t] # "app"
                    \/ q = Sent("bootLookup", token[t], None) /\ screen'[t] # "app"
                    \/ /\ q = Sent("appStatus", token'[t], None)
                       /\ token'[t] \in issued /\ (MayBlank \/ ~sealed)
    BY <1>t, <2>4, <2>5, CallPuts, DonePuts
  <2>7. \A r \in Slots : flight'[t][r] = IF r = s THEN q ELSE None
    BY <1>t, <2>3, <2>6 DEF Put
  <2>8. q # None => AskedRight(t, q)'
    <3>1. "bootLookup" \notin AppKinds
      BY DEF AppKinds, ScreenKinds
    <3>2. PICK k : k = token'[t]
      OBVIOUS
    <3>3. CASE q = Sent("bootLookup", token[t], None)
      <4>1. q.kind = "bootLookup" /\ q.ans = None
        BY <3>3 DEF Sent
      <4> QED BY <1>t, <3>1, <4>1, SentRight
    <3>4. CASE q = Sent("appStatus", token'[t], None) /\ token'[t] \in issued
      <4>1. q.kind = "appStatus" /\ q.tok = k /\ q.ans = None
        BY <3>2, <3>4 DEF Sent
      <4>2. k \in issued' /\ k = token'[t]
        BY <2>5, <3>2, <3>4
      <4> QED BY <1>t, <4>1, <4>2, SentRight
    <3> QED BY <2>6, <3>3, <3>4
  <2>9. Editor(t)'
    BY <1>t, <1>2, <2>2, <2>5, <2>6, NamelessEditor DEF MayBlank
  <2> QED BY <1>t, <2>7, <2>8, <2>9, OneRequest
<1> QED BY <1>4, <1>5

LEMMA EditsUsed ==
  ASSUME IInv, TypeInv, TextsInv, Mild, ServerKeeps, NEW t \in world.tabs, NEW s \in Slots,
         UseSession(t, s)
  PROVE  Edits(t)'
<1>t. /\ t \in Tabs /\ Shape /\ Types /\ Edits(t)
      /\ token \in [Tabs -> Tokens \cup {None}] /\ screen \in [Tabs -> {"none", "login", "app"}]
      /\ world.tokens \subseteq Tokens
  BY TabsOfWorld DEF IInv, Types, TypeInv, TextsInv
<1>1. Quiet(t) /\ screen[t] = "login" /\ screen' = screen /\ UNCHANGED dom
  BY DEF UseSession, SubmitShare, SubmitToken, SubmitCredentials, Ready, Mild, session
<1>2. PICK kind \in {"unseal", "loginLookup", "loginCreds"}, tok \in Tokens \cup {None} :
        Call(t, s, kind, tok, None)
  BY <1>t DEF UseSession, SubmitShare, SubmitToken, SubmitCredentials
<1>3. PICK q : Put(t, s, q) /\ q = Sent(kind, tok, None)
  BY <1>t, <1>2, CallPuts
<1>4. \A r \in Slots : flight'[t][r] = IF r = s THEN q ELSE None
  BY <1>t, <1>1, <1>3 DEF Put, Quiet
<1>5. AskedRight(t, q)'
  <2>1. kind \notin AppKinds /\ kind \notin {"load", "save"}
    BY DEF AppKinds, ScreenKinds
  <2>2. q.kind = kind /\ q.ans = None
    BY <1>3 DEF Sent
  <2> QED BY <1>t, <2>1, <2>2, SentRight
<1>6. Editor(t)'
  <2>1. dom'[t].name = ""
    BY <1>t, <1>1 DEF Edits, Editor
  <2> QED BY <1>t, <1>1, <2>1, NamelessEditor
<1> QED BY <1>t, <1>4, <1>5, <1>6, OneRequest

LEMMA EditsAsked ==
  ASSUME IInv, TypeInv, TextsInv, Mild, ServerKeeps, NEW t \in world.tabs, NEW s \in Slots,
         UseScreen(t, s), ~\E v \in Views : Navigate(t, s, v)
  PROVE  Edits(t)'
<1>t. /\ t \in Tabs /\ Shape /\ Types /\ Edits(t) /\ PagesInv /\ dom \in [Tabs -> PageType]
      /\ token[t] \in Tokens \cup {None}
  BY TabsOfWorld DEF IInv, Types, TypeInv, PagesInv, TextsInv
<1>1. /\ Quiet(t) /\ screen[t] = "app" /\ ~leaving[t]
      /\ UNCHANGED <<session, server, world>>
  BY DEF UseScreen, EnableMount, ReadSecret, WriteSecret, LoadPolicy, SavePolicy,
     CreateToken, RevokeLease, EnterLine, Ask, On, Ready, Mild
<1>2. token[t] \in issued /\ issued' = issued /\ token'[t] = token[t]
  BY <1>t, <1>1 DEF Edits, Editor, session, server
<1>3. \A r \in Slots : flight[t][r] = None /\ ~Is(t, r, "load")
  BY <1>1 DEF Quiet, Is
<1>q. PICK k : k = token[t]
  OBVIOUS
<1>4. ASSUME NEW n \in Options(t, "policies"), Ask(t, s, "policies", "load", n),
             dom' = [dom EXCEPT ![t].name = n, ![t].typed = FALSE]
      PROVE  Edits(t)'
  <2>1. PICK q : Put(t, s, q) /\ q = Sent("load", k, n)
    BY <1>t, <1>q, <1>4, CallPuts DEF Ask
  <2>2. n \in Names /\ "load" \in AppKinds
    BY <1>t, PolicyOptions DEF AppKinds, ScreenKinds
  <2>3. dom'[t].name = n /\ dom'[t].view = dom[t].view
    BY <1>t, <1>4 DEF PageType
  <2>4. dom[t].view = "policies"
    BY <1>4 DEF Ask, On
  <2>5. RequestOK(q) /\ q # None
    <3>1. RequestOK(q)
      <4>1. n \in Args
        BY <2>2 DEF Args
      <4> QED BY <2>1, <2>2, <4>1, SentOK
    <3>2. q = [kind |-> q.kind, tok |-> q.tok, arg |-> q.arg, ans |-> q.ans] /\ q.tok = k
      BY <2>1 DEF Sent
    <3> QED BY <1>t, <1>q, <3>1, <3>2, RequestThere
  <2>6. AskedRight(t, q)'
    <3>1. q.kind = "load" /\ q.tok = k /\ q.arg = n /\ q.ans = None
      BY <2>1 DEF Sent
    <3> QED BY <1>t, <1>2, <1>q, <2>3, <3>1, SentRight
  <2>7. \A r \in Slots : flight'[t][r] = IF r = s THEN q ELSE None
    BY <1>t, <1>3, <2>1 DEF Put
  <2>8. Loads(t)'
    <3>1. Is(t, s, "load")'
      BY <2>1, <2>5, <2>7 DEF Is, Sent
    <3> QED BY <3>1 DEF Loads
  <2>9. Editor(t)'
    <3>1. (screen[t] = "app" => MayBlank \/ ~sealed)'
      BY <1>t, <1>1 DEF Edits, Editor, MayBlank, session, server
    <3> QED BY <1>1, <1>2, <2>3, <2>4, <2>8, <3>1 DEF Editor, session
  <2> QED BY <1>t, <2>6, <2>7, <2>9, OneRequest
<1>5. CASE LoadPolicy(t, s)
  BY <1>4, <1>5 DEF LoadPolicy
<1>6. CASE SavePolicy(t, s)
  <2>1. PICK arg : arg = [name |-> dom[t].name, text |-> dom[t].body,
                          typed |-> dom[t].typed]
    OBVIOUS
  <2>2. PICK q : Put(t, s, q) /\ q = Sent("save", k, arg)
    BY <1>t, <1>6, <1>q, <2>1, CallPuts DEF SavePolicy, Ask
  <2>3. UNCHANGED dom /\ dom[t].name # ""
    BY <1>6 DEF SavePolicy
  <2>4. ~arg.typed => Held(arg.text, arg.name, k)
    BY <1>t, <1>1, <1>3, <1>q, <2>1, <2>3 DEF Edits, Editor, Loads
  <2>5. ~arg.typed => Held(arg.text, arg.name, k)'
    BY <1>2, <1>q, <2>4, HeldStays
  <2>6. AskedRight(t, q)'
    <3>1. q.kind = "save" /\ q.tok = k /\ q.arg = arg /\ q.ans = None
      BY <2>2 DEF Sent
    <3>2. /\ k \in issued' /\ k = token'[t]
          /\ q.arg.typed \/ Held(q.arg.text, q.arg.name, q.tok)'
      BY <1>2, <1>q, <2>5, <3>1
    <3> QED BY <1>t, <3>1, <3>2, SentRight
  <2>7. q.kind = "save"
    BY <2>2 DEF Sent
  <2>8. \A r \in Slots : flight'[t][r] = IF r = s THEN q ELSE flight[t][r]
    BY <1>t, <2>2 DEF Put
  <2> QED BY <1>t, <1>1, <1>3, <2>3, <2>6, <2>7, <2>8, EditsStay DEF session
<1>7. CASE ~LoadPolicy(t, s) /\ ~SavePolicy(t, s)
  <2>1. \/ UNCHANGED flight
        \/ \E kind, arg :
             Call(t, s, kind, token[t], arg) /\ kind # "load" /\ kind # "save"
    BY <1>7 DEF UseScreen, EnableMount, ReadSecret, WriteSecret, CreateToken, RevokeLease,
       EnterLine, Ask, ScreenKinds
  <2>2. \/ UNCHANGED dom \/ dom' = [dom EXCEPT ![t].asked = @ + 1]
        \/ dom' = [dom EXCEPT ![t].asked = @ + 1, ![t].told = @ + 1]
    BY <1>7 DEF UseScreen, EnableMount, ReadSecret, WriteSecret, CreateToken, RevokeLease,
       EnterLine
  <2>3. /\ dom'[t].name = dom[t].name /\ dom'[t].view = dom[t].view
        /\ dom'[t].body = dom[t].body /\ dom'[t].typed = dom[t].typed
    BY <1>t, <2>2 DEF PageType
  <2>4. PICK q :
          /\ \A r \in Slots : flight'[t][r] = IF r = s THEN q ELSE flight[t][r]
          /\ \/ q = None
             \/ \E kind, arg : q = Sent(kind, k, arg) /\ kind # "load" /\ kind # "save"
    <3>1. CASE UNCHANGED flight
      BY <1>3, <3>1
    <3>2. CASE ~UNCHANGED flight
      <4>1. PICK kind, arg : /\ Call(t, s, kind, token[t], arg)
                             /\ kind # "load" /\ kind # "save"
        BY <2>1, <3>2
      <4>2. PICK q : q = Sent(kind, k, arg)
        OBVIOUS
      <4>3. Put(t, s, q)
        BY <1>t, <1>q, <4>1, <4>2, CallPuts
      <4> QED BY <1>t, <4>1, <4>2, <4>3 DEF Put
    <3> QED BY <3>1, <3>2
  <2>5. q # None => AskedRight(t, q)' /\ q.kind # "load"
    <3> SUFFICES ASSUME q # None PROVE AskedRight(t, q)' /\ q.kind # "load"
      OBVIOUS
    <3>1. PICK kind, arg : q = Sent(kind, k, arg) /\ kind # "load" /\ kind # "save"
      BY <2>4
    <3>2. q.kind = kind /\ q.tok = k /\ q.ans = None
      BY <3>1 DEF Sent
    <3> QED BY <1>t, <1>2, <1>q, <3>1, <3>2, SentRight
  <2> QED BY <1>t, <1>1, <1>3, <2>3, <2>4, <2>5, EditsStay DEF session
<1> QED BY <1>5, <1>6, <1>7

\* A new screen: the fields are empty, the requests of the old one go on.
LEMMA EditsDrawn ==
  ASSUME IInv, TypeInv, TextsInv, Mild, ServerKeeps, NEW t \in world.tabs, NEW s \in Slots,
         NEW nav \in Views, NEW v \in Views, NEW known, RenderView(t, s, nav, v, known),
         screen[t] = "app", token[t] \in issued,
         UNCHANGED <<token, screen, leaving, sealed, issued>>
  PROVE  Edits(t)'
<1>t. t \in Tabs /\ Shape /\ Types /\ Edits(t) /\ dom \in [Tabs -> PageType]
  BY TabsOfWorld DEF IInv, TypeInv, PagesInv, TextsInv
<1>1. dom'[t].name = ""
  BY <1>t DEF RenderView, Rendered
<1>k. PICK k : k = token[t]
  OBVIOUS
<1>r. /\ flight'[t][s] = IF Asks(v, known) THEN Sent("list", k, v) ELSE None
      /\ \A r \in Slots \ {s} : flight'[t][r] =
           IF Is(t, r, "line")
           THEN [kind |-> "oldLine", tok |-> flight[t][r].tok, arg |-> flight[t][r].arg,
                 ans |-> flight[t][r].ans]
           ELSE flight[t][r]
  BY <1>t, <1>k, RenderSlots
<1>2. \A r \in Slots : Is(t, r, "load")' => r # s /\ Is(t, r, "load")
  <2> SUFFICES ASSUME NEW r \in Slots, Is(t, r, "load")'
               PROVE  r # s /\ Is(t, r, "load")
    OBVIOUS
  <2>1. PICK p : p = flight'[t][r] /\ p # None /\ p.kind = "load"
    BY DEF Is
  <2>2. CASE r = s
    <3>1. p = Sent("list", k, v)
      BY <1>r, <2>1, <2>2
    <3> QED BY <2>1, <3>1 DEF Sent
  <2>3. CASE r # s
    <3>1. p = IF Is(t, r, "line")
              THEN [kind |-> "oldLine", tok |-> flight[t][r].tok, arg |-> flight[t][r].arg,
                    ans |-> flight[t][r].ans]
              ELSE flight[t][r]
      BY <1>r, <2>1, <2>3
    <3> QED BY <2>1, <2>3, <3>1 DEF Is
  <2> QED BY <2>2, <2>3
<1>3. \A r \in Slots : flight'[t][r] # None => AskedRight(t, flight[t][r])'
  <2> SUFFICES ASSUME NEW r \in Slots, flight'[t][r] # None
               PROVE  AskedRight(t, flight[t][r])'
    OBVIOUS
  <2>1. PICK p : p = flight'[t][r]
    OBVIOUS
  <2>2. CASE r = s
    <3>1. p = Sent("list", k, v)
      BY <1>r, <2>1, <2>2
    <3>2. p.kind = "list" /\ p.tok = k /\ p.ans = None
      BY <3>1 DEF Sent
    <3>3. AskedRight(t, p)'
      BY <1>t, <1>k, <3>2, SentRight
    <3> QED BY <2>1, <3>3 DEF AskedRight
  <2>3. CASE r # s
    <3>1. PICK x : x = flight[t][r]
      OBVIOUS
    <3>2. CASE Is(t, r, "line")
      <4>0. p = [kind |-> "oldLine", tok |-> x.tok, arg |-> x.arg, ans |-> x.ans]
        BY <1>r, <2>1, <2>3, <3>1, <3>2
      <4>1. p.kind = "oldLine" /\ p.tok = x.tok
        BY <4>0
      <4>2. x.tok \in issued /\ x.tok = token[t]
        BY <1>t, <3>1, <3>2 DEF Edits, AskedRight, Is, AppKinds
      <4>3. AskedRight(t, p)'
        BY <4>1, <4>2 DEF AskedRight, LookupKinds
      <4> QED BY <2>1, <4>3 DEF AskedRight
    <3>3. CASE ~Is(t, r, "line")
      <4>1. p = x /\ x # None
        BY <1>r, <2>1, <2>3, <3>1, <3>3
      <4>2. AskedRight(t, p)
        BY <1>t, <3>1, <4>1 DEF Edits
      <4>3. AskedRight(t, p)'
        BY <1>t, <1>1, <4>2, AskedStays
      <4> QED BY <2>1, <4>3 DEF AskedRight
    <3> QED BY <3>2, <3>3
  <2> QED BY <2>2, <2>3
<1>4. Editor(t)'
  <2>1. (screen[t] = "app" => MayBlank \/ ~sealed)'
    BY <1>t DEF Edits, Editor, MayBlank, ServerKeeps
  <2> QED BY <1>t, <1>1, <2>1, NamelessEditor
<1>5. (\A r, p \in Slots : Is(t, r, "load") /\ Is(t, p, "load") => r = p)'
  BY <1>t, <1>2 DEF Edits
<1> QED BY <1>3, <1>4, <1>5 DEF Edits

LEMMA EditsRest ==
  ASSUME ServerKeeps, NEW u \in Tabs, Edits(u), Rests(u)
  PROVE  Edits(u)'
<1>1. 1 \in Slots
  BY BoundAssumption DEF Slots
<1>2. PICK q : q = flight[u][1]
  OBVIOUS
<1>3. q # None => AskedRight(u, q)'
  BY <1>1, <1>2, AskedStays DEF Edits, Rests
<1> QED BY <1>1, <1>2, <1>3, EditsStay DEF Rests, Is

LEMMA EditsLoaded ==
  ASSUME IInv, TypeInv, NEW t \in world.tabs, LoadPage(t), dom' = [dom EXCEPT ![t] = NoPage]
  PROVE  Edits(t)'
<1>t. /\ t \in Tabs /\ Shape /\ Types /\ dom \in [Tabs -> PageType]
      /\ stored \in Tokens \cup {None}
  BY TabsOfWorld DEF IInv, Types, TypeInv, PagesInv
<1>1. PICK v : v = stored
  OBVIOUS
<1>2. \A r \in Slots : flight'[t][r] = Boot(v)[r]
  BY <1>t, <1>1 DEF LoadPage, Shape
<1>3. ASSUME NEW r \in Slots, flight'[t][r] # None
      PROVE  flight'[t][r].kind = "bootStatus" /\ flight'[t][r].ans = None
  <2>1. flight'[t][r] = Boot(v)[r]
    BY <1>2
  <2>2. Boot(v)[r] # None => Boot(v)[r].kind = "bootStatus" /\ Boot(v)[r].ans = None
    BY <1>t, <1>1, BootSlots
  <2> QED BY <1>3, <2>1, <2>2
<1>4. (\A r \in Slots : flight[t][r] # None => AskedRight(t, flight[t][r]))'
  <2>1. "bootStatus" \notin AppKinds \cup LookupKinds
    BY DEF AppKinds, ScreenKinds, LookupKinds
  <2> QED BY <1>3, <2>1 DEF AskedRight
<1>5. (\A r, p \in Slots : Is(t, r, "load") /\ Is(t, p, "load") => r = p)'
  BY <1>3 DEF Is
<1>6. Editor(t)'
  <2>1. screen'[t] = "none" /\ dom'[t].name = ""
    BY <1>t DEF LoadPage, NoPage, Types
  <2> QED BY <1>t, <2>1, NamelessEditor
<1> QED BY <1>4, <1>5, <1>6 DEF Edits

\* A quiet tab has its editor to look after.
LEMMA EditsQuiet ==
  ASSUME NEW t \in Tabs, Quiet(t), UNCHANGED flight, Editor(t)'
  PROVE  Edits(t)'
BY DEF Edits, Quiet, Is

LEMMA EditsTyped ==
  ASSUME TypeInv, Types, TextsInv, Mild, NEW t \in Tabs, EditPolicy(t)
  PROVE  Edits(t)'
<1>t. Edits(t) /\ Editor(t) /\ dom \in [Tabs -> PageType]
  BY DEF TypeInv, PagesInv, TextsInv, Edits
<1>1. /\ Quiet(t) /\ UNCHANGED <<session, server, flight, world>>
      /\ screen[t] = "app" /\ dom[t].view = "policies"
  BY DEF EditPolicy, On, Ready, Mild
<1>2. dom'[t].view = dom[t].view /\ (dom'[t].body = "edited" \/ dom'[t].typed)
  <2>1. CASE dom' = [dom EXCEPT ![t].body = "edited"]
    BY <1>t, <2>1 DEF PageType
  <2>2. ASSUME NEW n \in Names, dom' = [dom EXCEPT ![t].name = n, ![t].typed = TRUE]
        PROVE  dom'[t].view = dom[t].view /\ dom'[t].typed
    BY <1>t, <2>2 DEF PageType
  <2> QED BY <2>1, <2>2 DEF EditPolicy
<1>3. (dom[t].name # "" /\ ~dom[t].typed /\ ~leaving[t] /\ ~Loads(t)
         => Held(dom[t].body, dom[t].name, token[t]))'
  BY <1>2 DEF Held, Own
<1>4. (screen[t] = "app" /\ ~leaving[t] => token[t] \in issued)'
  BY <1>t, <1>1 DEF Editor, session, server
<1>5. (screen[t] = "app" => MayBlank \/ ~sealed)'
  BY <1>t, <1>1 DEF Editor, MayBlank, session, server
<1>6. (dom[t].name # "" => screen[t] = "app" /\ dom[t].view = "policies")'
  BY <1>1, <1>2 DEF session
<1>7. Editor(t)'
  BY <1>3, <1>4, <1>5, <1>6 DEF Editor
<1> QED BY <1>1, <1>7, EditsQuiet

LEMMA EditsSignedOut ==
  ASSUME Types, TextsInv, Mild, NEW t \in Tabs, SignOut(t), UNCHANGED dom
  PROVE  Edits(t)'
<1>1. Edits(t) /\ Editor(t) /\ Quiet(t)
  BY DEF TextsInv, Edits, SignOut, Ready, Mild
<1>2. /\ leaving'[t] /\ UNCHANGED <<flight, screen, world, sealed>>
  BY DEF SignOut, Types, server
<1>3. Editor(t)'
  BY <1>1, <1>2 DEF Editor, MayBlank
<1> QED BY <1>1, <1>2, <1>3, EditsQuiet

LEMMA EditsOfTab ==
  ASSUME IInv, TypeInv, TextsInv, Mild, ServerKeeps, NEW t \in world.tabs, NEW s \in Slots,
         StepOf(t, s)
  PROVE  Edits(t)'
<1>t. t \in Tabs /\ Types /\ Edits(t) /\ \A u \in Tabs : dom[u] \in PageType
  BY TabsOfWorld DEF IInv, TextsInv, TypeInv, PagesInv
<1>1. CASE ServeSession(t, s) \/ ServeScreen(t, s)
  BY <1>1, EditsServed
<1>2. CASE HandleSession(t, s)
  BY <1>2, EditsSigned
<1>3. CASE HandleScreen(t, s)
  BY <1>3, EditsHandled
<1>4. CASE OpenApp(t, s)
  <2>1. PICK k, nav : k = shell'[t].version /\ nav = dom[t].nav
    OBVIOUS
  <2>2. /\ RenderView(t, s, nav, "secrets", k) /\ Is(t, s, "appStatus")
        /\ UNCHANGED <<token, screen, leaving, sealed, issued>>
    BY <1>4, <2>1 DEF OpenApp, AppOpened, Arrived, server
  <2>3. token[t] \in issued /\ screen[t] = "app"
    <3>1. "appStatus" \in AppKinds
      BY DEF AppKinds
    <3>2. token[t] \in issued
      BY <1>t, <2>2, <3>1 DEF Edits, AskedRight, Is
    <3>3. screen[t] = "app"
      BY <2>2, <3>1, OnApp DEF Is
    <3> QED BY <3>2, <3>3
  <2>4. nav \in Views /\ "secrets" \in Views
    BY <1>t, <2>1, PageFields DEF Views
  <2> QED BY <2>2, <2>3, <2>4, EditsDrawn
<1>5. CASE UseSession(t, s)
  BY <1>5, EditsUsed
<1>6. CASE UseScreen(t, s)
  <2>1. ASSUME NEW v \in Views, Navigate(t, s, v) PROVE Edits(t)'
    <3>1. PICK k : k = shell[t].version
      OBVIOUS
    <3>2. /\ RenderView(t, s, v, v, k) /\ ~leaving[t] /\ screen[t] = "app"
          /\ UNCHANGED <<token, screen, leaving, sealed, issued>>
      BY <2>1, <3>1 DEF Navigate, session, server
    <3>3. token[t] \in issued
      BY <1>t, <3>2 DEF Edits, Editor
    <3> QED BY <3>2, <3>3, EditsDrawn
  <2> QED BY <1>6, <2>1, EditsAsked
<1>7. CASE Reload(t)
  BY <1>7, EditsLoaded DEF Reload, UserReload, Leave
<1>8. CASE EditPolicy(t)
  BY <1>t, <1>8, EditsTyped
<1>9. CASE SignOut(t) /\ UNCHANGED <<dom, vault>>
  BY <1>t, <1>9, EditsSignedOut
<1> QED
  BY <1>1, <1>2, <1>3, <1>4, <1>5, <1>6, <1>7, <1>8, <1>9 DEF StepOf, Proceed

\* The texts on the server.
LEMMA TextsSaved ==
  ASSUME IInv, TypeInv, TextsInv, Mild, ServerKeeps, NEW t \in world.tabs, NEW s \in Slots,
         ServeSave(t, s), NEW n \in Names \ renamed'
  PROVE  policies'[n] \in Own(n)
<1>t. /\ t \in Tabs /\ Edits(t) /\ policies \in [Names -> Texts] /\ n \notin renamed
      /\ \A m \in Names \ renamed : policies[m] \in Own(m)
  BY TabsOfWorld DEF IInv, TypeInv, VaultInv, TextsInv, ServerKeeps
<1>1. PICK q : q = flight[t][s] /\ q # None /\ q.kind = "save"
  BY DEF ServeSave, Granted, Waiting, Is
<1>2. /\ policies' = [policies EXCEPT ![q.arg.name] = q.arg.text]
      /\ q.arg.typed => q.arg.name \in renamed'
  BY <1>1 DEF ServeSave
<1>3. q.arg.typed \/ Held(q.arg.text, q.arg.name, q.tok)
  BY <1>t, <1>1 DEF Edits, AskedRight
<1>4. ~Dead(q.tok)
  BY <1>1 DEF ServeSave, Granted, Public, Works, Dead
<1>5. q.arg.name = n => q.arg.text \in Own(n)
  BY <1>t, <1>2, <1>3, <1>4 DEF Held
<1> QED BY <1>t, <1>2, <1>5

LEMMA TextsKept ==
  ASSUME IInv, TypeInv, TextsInv, [Next]_vars
  PROVE  TextsInv'
<1>1. ServerKeeps
  BY ServerSteps
<1>2. world' = world
  BY <1>1 DEF ServerKeeps
<1>3. SUFFICES ASSUME Mild
               PROVE  /\ \A u \in Tabs : Edits(u)'
                      /\ \A n \in Names \ renamed' : policies'[n] \in Own(n)
  BY <1>2 DEF TextsInv, Mild, Own, MayBlank
<1>t. /\ Types /\ world.tabs \subseteq Tabs /\ \A u \in Tabs : Edits(u)
      /\ \A n \in Names \ renamed : policies[n] \in Own(n)
  BY <1>3, TabsOfWorld DEF IInv, TextsInv
<1>4. \A u \in Tabs : Edits(u)'
  <2>1. ASSUME NEW t \in world.tabs, NEW s \in Slots, StepOf(t, s), NEW u \in Tabs
        PROVE  Edits(u)'
    <3>1. CASE u = t
      BY <1>1, <1>3, <2>1, <3>1, EditsOfTab
    <3>2. CASE u # t
      <4>1. Rests(u)
        BY <1>t, <2>1, <3>2, OthersRest DEF TypeInv
      <4> QED BY <1>1, <1>t, <4>1, EditsRest
    <3> QED BY <3>1, <3>2
  <2>2. CASE ServerStep \/ UNCHANGED vars
    <3>1. UNCHANGED <<dom, flight, screen, token, leaving>>
      BY <2>2 DEF ServerStep, LoseToken, OpenServer, SealServer, RevokeToken, session, vars
    <3> QED BY <1>1, <1>t, <3>1, EditsRest DEF Rests
  <2> QED BY <2>1, <2>2, StepsOfTabs
<1>5. ASSUME NEW n \in Names \ renamed' PROVE policies'[n] \in Own(n)
  <2>1. CASE UNCHANGED policies
    BY <1>1, <1>t, <2>1 DEF ServerKeeps
  <2>2. ASSUME NEW t \in world.tabs, NEW s \in Slots, ServeScreen(t, s)
        PROVE  policies'[n] \in Own(n)
    <3>1. CASE ServeSave(t, s)
      BY <1>1, <1>3, <2>2, <3>1, TextsSaved
    <3>2. CASE ~ServeSave(t, s)
      BY <2>1, <2>2, <3>2 DEF ServeScreen, RefuseRequest, ServeList, ServeEnable, ServeSecret,
         ServeLoad, ServeCreate, ServeRevoke, vault
    <3> QED BY <3>1, <3>2
  <2>3. ASSUME NEW t \in world.tabs, NEW s \in Slots, Proceed(t, s) PROVE policies'[n] \in Own(n)
    <3>1. CASE ServeLogin(t, s)
      BY <2>1, <3>1 DEF ServeLogin
    <3>2. CASE ~ServeLogin(t, s)
      BY <2>1, <2>2, <2>3, <3>2, VaultStays DEF Proceed, vault
    <3> QED BY <3>1, <3>2
  <2>4. ASSUME NEW t \in world.tabs, NEW s \in Slots, UseSession(t, s) \/ UseScreen(t, s)
        PROVE  policies'[n] \in Own(n)
    BY <2>1, <2>4, VaultStays DEF vault
  <2>5. ASSUME NEW t \in world.tabs, Reload(t) \/ EditPolicy(t) PROVE policies'[n] \in Own(n)
    BY <2>1, <2>5, VaultStays DEF vault
  <2>6. CASE Environment \/ UNCHANGED vars
    BY <2>1, <2>6 DEF Environment, LoseToken, vars, vault
  <2> QED BY <2>3, <2>4, <2>5, <2>6 DEF Next
<1> QED BY <1>4, <1>5

LEMMA TextsAtFirst ==
  ASSUME Init
  PROVE  TextsInv
<1>1. \A n \in Names : policies[n] \in Own(n)
  BY DEF Init, Own
<1>2. ASSUME NEW t \in Tabs PROVE Edits(t)
  <2>1. "bootStatus" \notin AppKinds \cup LookupKinds
    BY DEF AppKinds, ScreenKinds, LookupKinds
  <2>2. \A r \in Slots : flight[t][r] # None => flight[t][r].kind = "bootStatus"
    BY FirstRequests
  <2>3. screen[t] = "none" /\ dom[t].name = ""
    BY DEF Init, InitSession, NoPage
  <2>4. Editor(t)
    BY <2>3 DEF Editor
  <2> QED BY <2>1, <2>2, <2>4 DEF Edits, AskedRight, Is
<1> QED BY <1>1, <1>2 DEF TextsInv

\* Saving in the policy editor under the name that Load put there never stores the
\* text of another policy if the user waits and no answer gets lost, and no empty
\* text either if the server keeps answering: whatever a token that is revoked
\* meanwhile makes the editor show, a save with that token is refused.  (A policy
\* once saved under a name that the user typed has whatever text was there.)
THEOREM PolicyKeepsTextHolds == Spec => []PolicyKeepsText
<1>1. Init => TextsInv
  BY TextsAtFirst
<1>2. IInv /\ TypeInv /\ TextsInv /\ [Next]_vars => TextsInv'
  BY TextsKept
<1>3. TextsInv => PolicyKeepsText
  <2> SUFFICES ASSUME TextsInv, Mild
               PROVE  /\ PolicyTextKept
                      /\ ~MayBlank => \A n \in Names \ renamed : policies[n] # ""
    BY DEF PolicyKeepsText, Mild, MayBlank
  <2>1. \A n \in Names \ renamed : policies[n] \in Own(n)
    BY DEF TextsInv
  <2>2. \A n \in Names : n # ""
    BY AnswersAssumption
  <2> QED BY <2>1, <2>2 DEF Own, PolicyTextKept
<1> QED BY <1>1, <1>2, <1>3, TypesInductive, PTL DEF Spec

------------------------------------------------------------------------------
(* A single user who waits, of a server that keeps working.  Such a tab     *)
(* has one request under way at most.                                       *)

Alone(t) == world = [world EXCEPT !.tabs = {t}, !.manner = "patient", !.faults = {}]

\* The screen a request is sent from; showApp asks before there is one.
ScreenOf == [list |-> Views, enable |-> {"secrets"}, read |-> {"secrets"},
             write |-> {"secrets"}, load |-> {"policies"}, save |-> {"policies"},
             create |-> {"tokens"}, revoke |-> {"leases"}, line |-> {"console"},
             appStatus |-> {"none"}]

\* Requests whose handler, now or after their answer, brings the list of screen v.
Renews(q, v) == \/ q.kind = "list" /\ q.arg = v
                \/ q.kind = "enable" /\ q.ans = "done" /\ v = "secrets"
                \/ q.kind = "revoke" /\ q.ans # None /\ v = "leases"

\* A page d shows what the server has, or what q brings is still missing.
Listed(d, q) ==
  /\ d.nav = d.view /\ d.view \in Views
  /\ Len(d.cards) > 0 /\ d.cards[1].id = d.view
  /\ \A i \in 1..Len(d.cards) : d.cards[i].id = d.view
  /\ \/ d.view = "console"
     \/ d.cards[1].shown = Listing(d.view)
     \/ q # None /\ Renews(q, d.view)

Printed(d, q) ==
  /\ d.out \in {None, "done", secret} \/ (q # None /\ q.kind = "write" /\ q.ans # None)
  /\ d.view # "secrets" => d.out \in {None, "done"}
  /\ d.view \notin {"secrets", "tokens"} => d.out = None

\* The answers to the requests of such a tab.
Granting(q) ==
  /\ q.kind \in LookupKinds /\ q.ans = "ok" => q.tok \in valid
  /\ q.kind = "loginCreds" /\ q.ans \in Tokens => q.ans \in valid

Truly(q, v) ==
  /\ q.tok \in valid /\ q.ans # Lost
  /\ q.kind \in DOMAIN ScreenOf /\ v \in ScreenOf[q.kind]
  /\ q.kind = "list" => q.arg = v /\ q.ans \in {None, Listing(v)}
  /\ q.kind = "read" => q.arg = "GET" /\ q.ans \in {None, secret}
  /\ q.kind = "write" => q.arg = "PUT"
  /\ q.kind \in {"write", "revoke", "create", "save"} => q.ans \in {None, "done"}

Sees(t, q) ==
  /\ leaving[t] => q = None
  /\ q # None => /\ Granting(q)
                 /\ q.kind \in AppKinds => Truly(q, dom[t].view)
  /\ screen[t] # "app" => dom[t] = NoPage
  /\ screen[t] = "app" /\ ~leaving[t] =>
       /\ token[t] \in valid
       /\ \/ dom[t] = NoPage /\ q # None /\ q.kind = "appStatus"
          \/ Listed(dom[t], q) /\ Printed(dom[t], q)

\* The user of page t has revoked the lease of the session's own token.
Refusing(t) == screen[t] = "app" /\ ~leaving[t] /\ token[t] \notin valid

Shows(t) == Alone(t) =>
  /\ ~sealed
  /\ \E s \in Slots : /\ \A r \in Slots \ {s} : flight[t][r] = None
                      /\ Refusing(t) \/ Sees(t, flight[t][s])

ShowsInv == \A t \in Tabs : Shows(t)

LEMMA AloneFacts ==
  ASSUME Types, NEW t, Alone(t)
  PROVE  world.tabs = {t} /\ world.manner = "patient" /\ world.faults = {}
<1>1. PICK a, b, c, d, e : world = [tabs |-> a, manner |-> b, tokens |-> c, visits |-> d,
                                    faults |-> e]
  <2>1. world \in World
    BY WorldsAssumption DEF Types
  <2> QED BY <2>1 DEF World
<1>2. world = [tabs |-> {t}, manner |-> "patient", tokens |-> c, visits |-> d, faults |-> {}]
  BY <1>1 DEF Alone
<1> QED BY <1>2

LEMMA TheRequest ==
  ASSUME NEW t \in Tabs, Alone(t), Shows(t), ~Refusing(t), NEW s \in Slots,
         flight[t][s] # None
  PROVE  /\ ~sealed /\ Sees(t, flight[t][s])
         /\ \A r \in Slots \ {s} : flight[t][r] = None
<1>1. PICK p \in Slots : /\ \A r \in Slots \ {p} : flight[t][r] = None
                         /\ Sees(t, flight[t][p]) /\ ~sealed
  BY DEF Shows
<1>2. p = s
  BY <1>1
<1> QED BY <1>1, <1>2

LEMMA NoRequest ==
  ASSUME NEW t \in Tabs, Alone(t), Shows(t), ~Refusing(t), Quiet(t)
  PROVE  ~sealed /\ Sees(t, None)
<1>1. PICK p \in Slots : Sees(t, flight[t][p]) /\ ~sealed
  BY DEF Shows
<1>2. flight[t][p] = None
  BY DEF Quiet
<1> QED BY <1>1, <1>2

\* Sees in terms of a page and a request.
SeesPage(t, d, q, tok) ==
  /\ leaving[t] => q = None
  /\ q # None => Granting(q) /\ (q.kind \in AppKinds => Truly(q, d.view))
  /\ screen[t] # "app" => d = NoPage
  /\ screen[t] = "app" /\ ~leaving[t] =>
       /\ tok \in valid
       /\ \/ d = NoPage /\ q # None /\ q.kind = "appStatus"
          \/ Listed(d, q) /\ Printed(d, q)

LEMMA ShowsNext ==
  ASSUME NEW t \in Tabs, NEW s \in Slots, NEW q, NEW d, NEW tok,
         \A r \in Slots : flight'[t][r] = IF r = s THEN q ELSE None,
         d = dom'[t], tok = token'[t], ~sealed', SeesPage(t, d, q, tok)'
  PROVE  Shows(t)'
<1>1. flight'[t][s] = q
  OBVIOUS
<1>2. Listed(d, q)' => Listed(dom[t], flight[t][s])'
  BY <1>1 DEF Listed, Renews, Listing
<1>3. Printed(d, q)' => Printed(dom[t], flight[t][s])'
  BY <1>1 DEF Printed
<1>4. Truly(q, d.view)' => Truly(flight[t][s], dom[t].view)'
  BY <1>1 DEF Truly, Listing
<1>5. Granting(q)' => Granting(flight[t][s])'
  BY <1>1 DEF Granting
<1>6. Sees(t, flight[t][s])'
  BY <1>1, <1>2, <1>3, <1>4, <1>5 DEF Sees, SeesPage
<1>7. \A r \in Slots \ {s} : flight'[t][r] = None
  OBVIOUS
<1> QED BY <1>6, <1>7 DEF Shows

LEMMA ShowsNothing ==
  ASSUME NEW t \in Tabs, NEW s \in Slots, \A r \in Slots \ {s} : flight'[t][r] = None,
         ~sealed', Refusing(t)'
  PROVE  Shows(t)'
BY DEF Shows

LEMMA ListedStays ==
  ASSUME NEW d, NEW q, NEW p, Listed(d, q),
         q # None /\ Renews(q, d.view) => p # None /\ Renews(p, d.view),
         \/ UNCHANGED <<mounts, leases>>
         \/ p # None /\ Renews(p, d.view)
         \/ d.view \notin {"secrets", "leases"}
         \/ UNCHANGED mounts /\ d.view # "leases"
  PROVE  Listed(d, p)'
<1>1. CASE p # None /\ Renews(p, d.view)
  BY <1>1 DEF Listed, Renews
<1>2. CASE ~(p # None /\ Renews(p, d.view))
  <2>1. d.view = "console" \/ d.cards[1].shown = Listing(d.view)
    BY <1>2 DEF Listed
  <2>2. d.view # "console" => Listing(d.view)' = Listing(d.view)
    BY <1>2 DEF Listing, Listed, Views
  <2> QED BY <2>1, <2>2 DEF Listed
<1> QED BY <1>1, <1>2

LEMMA PrintedStays ==
  ASSUME NEW d, NEW q, NEW p, Printed(d, q),
         q # None /\ q.kind = "write" /\ q.ans # None
           => p # None /\ p.kind = "write" /\ p.ans # None,
         \/ UNCHANGED secret
         \/ p # None /\ p.kind = "write" /\ p.ans # None
         \/ d.view # "secrets"
  PROVE  Printed(d, p)'
BY DEF Printed

\* The server answers.
LEMMA ShownServed ==
  ASSUME IInv, TypeInv, TextsInv, NEW t \in world.tabs, NEW s \in Slots, Alone(t), Shows(t),
         ~Refusing(t), flight[t][s] # None, flight[t][s].ans = None,
         ServeSession(t, s) \/ ServeScreen(t, s)
  PROVE  Shows(t)'
<1>t. /\ t \in Tabs /\ IInv /\ Types /\ TypeInv /\ Shape /\ Orderly(t)
      /\ world.manner = "patient" /\ world.faults = {}
      /\ RequestOK(flight[t][s])
  BY TabsOfWorld, AloneFacts DEF IInv, Types, TypeInv, Good, RequestsInv
<1>1. PICK old : old = flight[t][s]
  OBVIOUS
<1>2. PICK d, tok : d = dom[t] /\ tok = token[t]
  OBVIOUS
<1>3. /\ ~sealed /\ old # None /\ old.ans = None /\ SeesPage(t, d, old, tok)
      /\ \A r \in Slots \ {s} : flight[t][r] = None
  BY <1>t, <1>1, <1>2, TheRequest DEF Sees, SeesPage
<1>4. /\ UNCHANGED <<dom, token, screen, leaving>>
      /\ sealed' => sealed
  BY DEF ServeSession, ServeStatus, ServeLookup, ServeLogin, ServeCredentials, ServeShare,
     LoseAnswer, ServeScreen, RefuseRequest, ServeList, ServeEnable, ServeSecret, ServeLoad,
     ServeSave, ServeCreate, ServeRevoke, Granted, session, server
<1>5. ASSUME NEW a, Answer(t, s, a), NEW q, q = Answered(old, a)
      PROVE  /\ q # None /\ q.kind = old.kind /\ q.tok = old.tok /\ q.arg = old.arg /\ q.ans = a
             /\ \A r \in Slots : flight'[t][r] = IF r = s THEN q ELSE None
  <2>1. Put(t, s, q)
    BY <1>t, <1>1, <1>3, <1>5, AnswerPuts
  <2>2. \A r \in Slots : flight'[t][r] = IF r = s THEN q ELSE flight[t][r]
    BY <1>t, <2>1 DEF Put
  <2>3. /\ q.kind = old.kind /\ q.tok = old.tok /\ q.arg = old.arg /\ q.ans = a
        /\ q = [kind |-> q.kind, tok |-> q.tok, arg |-> q.arg, ans |-> q.ans]
    BY <1>5 DEF Answered
  <2>4. RequestOK(q)
    <3>1. PICK b : Answer(t, s, b) /\ RequestOK(Answered(old, b))
      BY <1>t, <1>1, SessionAnswers, ScreenAnswers
    <3>2. Put(t, s, Answered(old, b))
      BY <1>t, <1>1, <1>3, <3>1, AnswerPuts
    <3>3. q = Answered(old, b)
      BY <1>t, <2>1, <3>2 DEF Put
    <3> QED BY <3>1, <3>3
  <2>5. old.tok \in Tokens \cup {None}
    BY <1>t, <1>1, <1>3 DEF Shape
  <2>6. q # None
    BY <2>3, <2>4, <2>5, RequestThere
  <2> QED BY <1>3, <2>2, <2>3, <2>6
<1>p. ASSUME NEW a, Answer(t, s, a), tok \in valid => tok \in valid',
             NEW q, q = Answered(old, a), Granting(q)',
             old.kind \in AppKinds => Truly(q, d.view)',
             screen[t] = "app" =>
               \/ d = NoPage /\ q.kind = "appStatus"
               \/ Listed(d, q)' /\ Printed(d, q)'
      PROVE  Shows(t)'
  <2>1. /\ q # None /\ q.kind = old.kind
        /\ \A r \in Slots : flight'[t][r] = IF r = s THEN q ELSE None
    BY <1>5, <1>p
  <2>2. SeesPage(t, d, q, tok)'
    BY <1>3, <1>4, <1>p, <2>1 DEF SeesPage
  <2> QED BY <1>t, <1>2, <1>3, <1>4, <2>1, <2>2, ShowsNext
<1>6. ASSUME NEW a, Answer(t, s, a), valid \subseteq valid',
             NEW q, q = Answered(old, a), Granting(q)',
             old.kind \in AppKinds => old.kind = "appStatus" /\ a # Lost
      PROVE  Shows(t)'
  <2>1. q.kind = old.kind /\ q.tok = old.tok /\ q.ans = a
    BY <1>6 DEF Answered
  <2>2. old.kind = "appStatus" => Truly(q, d.view)' /\ d.view \notin Views
    <3>1. "appStatus" \in AppKinds
      BY DEF AppKinds
    <3> QED BY <1>3, <1>6, <2>1, <3>1 DEF SeesPage, Truly, ScreenOf, Views
  <2>3. screen[t] = "app" => old.kind \in AppKinds
    <3>1. KindsOn["app"] = AppKinds
      BY DEF KindsOn
    <3> QED BY <1>t, <1>1, <1>3, <3>1 DEF Orderly
  <2>4. screen[t] = "app" => d = NoPage /\ q.kind = "appStatus"
    BY <1>3, <1>6, <2>1, <2>2, <2>3 DEF SeesPage, Listed
  <2> QED BY <1>p, <1>6, <2>2, <2>4
<1>7. CASE ServeSession(t, s)
  <2>2. \A kind \in {"loginCreds", "unseal"} \cup LookupKinds : kind \notin AppKinds
    BY DEF AppKinds, ScreenKinds, LookupKinds
  <2>3. CASE ServeStatus(t, s)
    <3>1. PICK a : /\ Answer(t, s, a) /\ a # Lost /\ UNCHANGED valid
                   /\ old.kind \in {"bootStatus", "appStatus"}
      BY <1>1, <2>3, LostIsNoWord, WordsAssumption
         DEF ServeStatus, Waiting, Is, server
    <3>2. PICK q : q = Answered(old, a)
      OBVIOUS
    <3>3. Granting(q)'
      BY <3>1, <3>2 DEF Answered, Granting, LookupKinds
    <3>4. old.kind \in AppKinds => old.kind = "appStatus"
      BY <3>1 DEF AppKinds, ScreenKinds
    <3> QED BY <1>6, <3>1, <3>2, <3>3, <3>4
  <2>4. CASE ServeLookup(t, s)
    <3>1. PICK a : /\ Answer(t, s, a) /\ a = (IF Works(old.tok) THEN "ok" ELSE "no")
                   /\ UNCHANGED valid /\ old.kind \in LookupKinds
      BY <1>t, <1>1, <2>4 DEF ServeLookup, Waiting, Is, server, LookupKinds
    <3>2. PICK q : q = Answered(old, a)
      OBVIOUS
    <3>3. Granting(q)'
      BY <3>1, <3>2 DEF Answered, Granting, Works, LookupKinds
    <3> QED BY <1>6, <2>2, <3>1, <3>2, <3>3
  <2>5. CASE ServeLogin(t, s)
    <3>1. PICK a : /\ Answer(t, s, a) /\ old.kind = "loginCreds" /\ valid \subseteq valid'
                   /\ a = "no" \/ a \in valid'
      BY <1>1, <2>5 DEF ServeLogin, ServeCredentials, Waiting, Is
    <3>2. PICK q : q = Answered(old, a)
      OBVIOUS
    <3>3. "no" \notin Tokens
      BY WordsAssumption
    <3>4. Granting(q)'
      BY <3>1, <3>2, <3>3 DEF Answered, Granting, LookupKinds
    <3> QED BY <1>6, <2>2, <3>1, <3>2, <3>4
  <2>6. CASE ServeShare(t, s)
    <3>1. PICK a : /\ Answer(t, s, a) /\ old.kind = "unseal" /\ UNCHANGED valid
      BY <1>1, <2>6 DEF ServeShare, Waiting, Is
    <3>2. PICK q : q = Answered(old, a)
      OBVIOUS
    <3>3. Granting(q)'
      BY <3>1, <3>2 DEF Answered, Granting, LookupKinds
    <3> QED BY <1>6, <2>2, <3>1, <3>2, <3>3
  <2> QED BY <1>t, <1>7, <2>3, <2>4, <2>5, <2>6 DEF ServeSession, LoseAnswer
<1>8. CASE ServeScreen(t, s)
  <2>1. /\ old.kind \in ScreenKinds \cup {"line", "oldLine"}
        /\ ServeRevoke(t, s) \/ UNCHANGED valid
    BY <1>1, <1>8 DEF ServeScreen, RefuseRequest, ServeList, ServeEnable, ServeSecret, ServeLoad,
       ServeSave, ServeCreate, ServeRevoke, Granted, Waiting, Is, ScreenKinds, server
  <2>2. old.kind \in AppKinds /\ old.kind \notin LookupKinds \cup {"loginCreds", "appStatus"}
    BY <2>1 DEF AppKinds, LookupKinds, ScreenKinds
  <2>3. screen[t] = "app" /\ ~leaving[t]
    BY <1>1, <1>3, <2>2, OnApp DEF SeesPage
  <2>4. Listed(d, old) /\ Printed(d, old) /\ Truly(old, d.view) /\ Works(old.tok)
    BY <1>3, <2>2, <2>3 DEF SeesPage, Truly, Works
  <2>t. old.tok = tok /\ tok \in valid
    <3>1. Mild /\ Edits(t)
      BY <1>t DEF Mild, TextsInv
    <3>2. old.tok = tok
      BY <1>1, <1>2, <1>3, <2>2, <3>1 DEF Edits, AskedRight
    <3> QED BY <2>4, <3>2 DEF Truly
  <2>5. ASSUME NEW a, Answer(t, s, a), NEW q, q = Answered(old, a), tok \in valid',
               Truly(q, d.view)', Listed(d, q)', Printed(d, q)'
        PROVE  Shows(t)'
    <3>1. q.kind = old.kind
      BY <2>5 DEF Answered
    <3>2. Granting(q)'
      BY <2>2, <3>1 DEF Granting
    <3> QED BY <1>p, <2>5, <3>2
  <2>6. /\ ~(old.kind = "enable" /\ old.ans = "done") /\ ~(old.kind = "write" /\ old.ans # None)
        /\ Refused # Lost /\ "done" # Lost /\ secret # Lost
    BY <1>t, <1>3, AnswersAssumption, RefusedAssumption DEF TypeInv, VaultInv
  \* What changes neither a list nor the secret.
  <2>7. ASSUME NEW a, Answer(t, s, a), UNCHANGED <<mounts, leases, secret>>, a # Lost,
               tok \in valid',
               old.kind = "list" => a = Listing(d.view),
               old.kind = "read" => a = secret,
               old.kind \in {"write", "revoke", "create", "save"} => a = "done"
        PROVE  Shows(t)'
    <3>1. PICK q : q = Answered(old, a)
      OBVIOUS
    <3>2. q # None /\ q.kind = old.kind /\ q.tok = old.tok /\ q.arg = old.arg /\ q.ans = a
      BY <1>5, <2>7, <3>1
    <3>3. Renews(old, d.view) => Renews(q, d.view)
      BY <1>3, <2>6, <3>2 DEF Renews
    <3>4. Listed(d, q)' /\ Printed(d, q)'
      BY <2>4, <2>6, <2>7, <3>2, <3>3, ListedStays, PrintedStays
    <3>5. Listing(d.view)' = Listing(d.view)
      BY <2>7 DEF Listing
    <3>6. Truly(q, d.view)'
      BY <2>t, <2>4, <2>7, <3>2, <3>5 DEF Truly
    <3> QED BY <2>5, <2>7, <3>1, <3>4, <3>6
  \* What changes a list or the secret: the request's handler knows.
  <2>8. ASSUME NEW a \in {secret, "done", Refused}, Answer(t, s, a), tok \in valid',
               old.kind # "list", old.kind = "read" => a = secret /\ UNCHANGED secret,
               old.kind \in {"write", "revoke", "create", "save"} => a = "done",
               \/ UNCHANGED <<mounts, leases>>
               \/ old.kind = "enable" /\ a = "done" /\ UNCHANGED leases
               \/ old.kind \in {"create", "revoke"} /\ UNCHANGED mounts,
               UNCHANGED secret \/ old.kind \in {"write", "line"}
        PROVE  Shows(t)'
    <3>1. PICK q : q = Answered(old, a)
      OBVIOUS
    <3>2. q # None /\ q.kind = old.kind /\ q.tok = old.tok /\ q.arg = old.arg /\ q.ans = a
      BY <1>5, <2>8, <3>1
    <3>3. ~Renews(old, d.view)
      BY <1>3, <2>6, <2>8 DEF Renews
    <3>4. a # None
      BY <1>t, <2>8, AnswersAssumption, RefusedAssumption DEF TypeInv, VaultInv
    <3>5. /\ old.kind = "enable" => d.view = "secrets"
          /\ old.kind = "create" => d.view = "tokens"
          /\ old.kind = "revoke" => d.view = "leases"
          /\ old.kind = "line" => d.view = "console"
      BY <2>4 DEF Truly, ScreenOf
    <3>6. Listed(d, q)'
      <4>1. old.kind \in {"enable", "revoke"} /\ a = "done" => Renews(q, d.view)
        BY <3>2, <3>4, <3>5 DEF Renews
      <4> QED BY <2>4, <2>8, <3>2, <3>3, <3>5, <4>1, ListedStays
    <3>7. Printed(d, q)'
      BY <2>4, <2>6, <2>8, <3>2, <3>4, <3>5, PrintedStays
    <3>8. Truly(q, d.view)'
      BY <2>t, <2>4, <2>6, <2>8, <3>2 DEF Truly
    <3> QED BY <2>5, <2>8, <3>1, <3>6, <3>7, <3>8
  <2>v. UNCHANGED valid => tok \in valid'
    BY <2>t
  <2>9. CASE RefuseRequest(t, s)
    BY <1>t, <1>1, <2>4, <2>9 DEF RefuseRequest
  <2>10. CASE ServeList(t, s)
    <3>1. old.kind = "list" /\ old.arg = d.view
      BY <1>1, <2>4, <2>10 DEF ServeList, Granted, Waiting, Is, Truly
    <3>2. Listing(d.view) # Lost
      <4>1. d.view \in ScreenLists
        BY <1>t, <1>1, <3>1 DEF RequestOK
      <4> QED BY <1>t, <4>1, ListingOK, AnswersAssumption DEF TypeInv
    <3> QED BY <1>1, <2>7, <2>v, <2>10, <3>1, <3>2 DEF ServeList, Granted, server, vault
  <2>11. CASE ServeEnable(t, s)
    BY <1>1, <2>8, <2>v, <2>11 DEF ServeEnable, Granted, Waiting, Is, server
  <2>12. CASE ServeSecret(t, s)
    BY <1>1, <2>4, <2>8, <2>v, <2>12
    DEF ServeSecret, Granted, Waiting, Is, Truly, ScreenOf, server
  <2>13. CASE ServeLoad(t, s)
    <3>1. old.kind = "load" /\ policies[old.arg] # Lost
      <4>1. old.kind = "load"
        BY <1>1, <2>13 DEF ServeLoad, Granted, Waiting, Is
      <4>2. policies[old.arg] \in Texts
        BY <1>t, <1>1, <4>1 DEF RequestOK, TypeInv, VaultInv
      <4> QED BY <4>1, <4>2, AnswersAssumption
    <3> QED BY <1>1, <2>7, <2>v, <2>13, <3>1 DEF ServeLoad, Granted, server, vault
  <2>14. CASE ServeSave(t, s)
    BY <1>1, <2>8, <2>v, <2>14 DEF ServeSave, Granted, Waiting, Is, server
  <2>15. CASE ServeCreate(t, s)
    BY <1>1, <2>8, <2>v, <2>15 DEF ServeCreate, Granted, Waiting, Is, server
  <2>16. CASE ServeRevoke(t, s)
    <3>1. CASE tok \in valid'
      BY <1>1, <2>8, <2>16, <3>1 DEF ServeRevoke, Waiting, Is
    <3>2. CASE tok \notin valid'
      <4>1. Refusing(t)'
        BY <1>2, <1>4, <2>3, <3>2 DEF Refusing
      <4>2. PICK q : q = Answered(old, "done")
        OBVIOUS
      <4>3. \A r \in Slots \ {s} : flight'[t][r] = None
        BY <1>1, <1>5, <2>16, <4>2 DEF ServeRevoke
      <4> QED BY <1>t, <1>3, <1>4, <4>1, <4>3, ShowsNothing
    <3> QED BY <3>1, <3>2
  <2> QED
    BY <1>8, <2>9, <2>10, <2>11, <2>12, <2>13, <2>14, <2>15, <2>16 DEF ServeScreen
<1> QED BY <1>7, <1>8

LEMMA FirstIsFirst ==
  ASSUME NEW d \in PageType, NEW v, Len(d.cards) > 0, d.cards[1].id = v
  PROVE  Has(d, v) /\ First(d, v) = 1
<1>0. d.cards \in Seq(CardType)
  BY DEF PageType
<1>1. DOMAIN d.cards = 1..Len(d.cards) /\ Len(d.cards) \in Nat
  BY <1>0, LenProperties
<1>2. 1 \in DOMAIN d.cards /\ Has(d, v)
  BY <1>1 DEF Has
<1> DEFINE S == {i \in DOMAIN d.cards : d.cards[i].id = v}
<1>3. 1 \in S /\ S \subseteq Nat /\ \A y \in S : 1 <= y
  BY <1>1, <1>2
<1>4. First(d, v) = Min(S)
  BY DEF First
<1>5. Min(S) \in S /\ \A y \in S : Min(S) <= y
  <2> HIDE DEF S
  <2>1. \E x \in S : \A y \in S : x <= y
    BY <1>3
  <2> QED BY <2>1 DEF Min
<1>6. Min(S) = 1
  <2> HIDE DEF S
  <2>1. PICK m : m = Min(S)
    OBVIOUS
  <2>2. m \in Nat /\ 1 <= m /\ m <= 1
    BY <1>3, <1>5, <2>1
  <2> QED BY <2>1, <2>2
<1> QED BY <1>2, <1>4, <1>6

LEMMA SameShown ==
  ASSUME NEW d, NEW e, NEW q, e.nav = d.nav, e.view = d.view, Len(e.cards) > 0,
         e.cards[1] = d.cards[1], \A i \in 1..Len(e.cards) : e.cards[i].id = e.view,
         Listed(d, q)'
  PROVE  Listed(e, q)'
BY DEF Listed

\* An answer is handled.
LEMMA ShownHandled ==
  ASSUME IInv, TypeInv, NEW t \in world.tabs, NEW s \in Slots, Alone(t), Shows(t),
         ~Refusing(t), HandleScreen(t, s)
  PROVE  Shows(t)'
<1>t. /\ t \in Tabs /\ Types /\ Shape /\ dom \in [Tabs -> PageType] /\ dom[t] \in PageType
      /\ token[t] \in Tokens \cup {None}
  BY TabsOfWorld DEF IInv, Types, TypeInv, PagesInv
<1>1. PICK old, d, tok : old = flight[t][s] /\ d = dom[t] /\ tok = token[t]
  OBVIOUS
<1>2. /\ old # None /\ old.kind \in AppKinds /\ UNCHANGED <<token, screen, leaving, sealed, valid>>
      /\ UNCHANGED <<mounts, policies, secret, leases>>
  BY <1>1, HandledSlot DEF server, vault
<1>3. /\ ~sealed /\ SeesPage(t, d, old, tok)
      /\ \A r \in Slots \ {s} : flight[t][r] = None
  BY <1>t, <1>1, <1>2, TheRequest DEF Sees, SeesPage
<1>4. /\ screen[t] = "app" /\ ~leaving[t] /\ tok \in valid /\ Truly(old, d.view)
  BY <1>1, <1>2, <1>3, OnApp DEF SeesPage
<1>5. old.kind # "appStatus" => Listed(d, old) /\ Printed(d, old)
  BY <1>3, <1>4 DEF SeesPage
<1>6. ASSUME NEW q, Put(t, s, q), NEW e, e = dom'[t], Listed(e, q)', Printed(e, q)',
             q = None \/ q = Sent("list", tok, e.view)
      PROVE  Shows(t)'
  <2>1. \A r \in Slots : flight'[t][r] = IF r = s THEN q ELSE None
    BY <1>t, <1>3, <1>6 DEF Put
  <2>2. q # None => Granting(q)' /\ Truly(q, e.view)'
    <3> SUFFICES ASSUME q # None PROVE Granting(q)' /\ Truly(q, e.view)'
      OBVIOUS
    <3>1. q.kind = "list" /\ q.tok = tok /\ q.arg = e.view /\ q.ans = None
      BY <1>6 DEF Sent
    <3>2. e.view \in Views /\ None # Lost
      BY <1>6, NoneAssumption DEF Listed
    <3> QED BY <1>2, <1>4, <3>1, <3>2 DEF Granting, Truly, LookupKinds, ScreenOf
  <2>3. SeesPage(t, e, q, tok)'
    BY <1>2, <1>4, <1>6, <2>2 DEF SeesPage
  <2>4. tok = token'[t] /\ ~sealed'
    BY <1>1, <1>2, <1>3
  <2> QED BY <1>t, <1>6, <2>1, <2>3, <2>4, ShowsNext
<1>7. ASSUME Listed(d, old), Printed(d, old), Done(t, s), ~Renews(old, d.view),
             NEW e, e = dom'[t], e.nav = d.nav, e.view = d.view, Len(e.cards) > 0,
             e.cards[1] = d.cards[1], \A i \in 1..Len(e.cards) : e.cards[i].id = e.view,
             \/ e.out = d.out /\ old.kind # "write"
             \/ e.out = "done" /\ d.view \in {"secrets", "tokens"}
             \/ e.out = secret /\ d.view = "secrets"
      PROVE  Shows(t)'
  <2>1. Listed(d, None)'
    BY <1>2, <1>7, ListedStays
  <2>2. Listed(e, None)'
    BY <1>7, <2>1, SameShown
  <2>3. Printed(e, None)'
    BY <1>2, <1>7 DEF Printed
  <2>4. Put(t, s, None)
    BY <1>t, <1>7, DonePuts
  <2> QED BY <1>6, <1>7, <2>2, <2>3, <2>4
<1>8. ASSUME Listed(d, old), Printed(d, old), Call(t, s, "list", token[t], d.view),
             NEW e, e = dom'[t], e.nav = d.nav, e.view = d.view, Len(e.cards) > 0,
             e.cards[1] = d.cards[1], \A i \in 1..Len(e.cards) : e.cards[i].id = e.view,
             e.out = d.out, old.kind # "write"
      PROVE  Shows(t)'
  <2>1. PICK q : q = Sent("list", tok, d.view)
    OBVIOUS
  <2>2. Put(t, s, q)
    BY <1>t, <1>1, <1>8, <2>1, CallPuts
  <2>3. q # None
    <3>1. d.view \in Views
      BY <1>8 DEF Listed
    <3>2. q.kind \in Kinds /\ q.arg \in Args /\ q.ans \in Replies /\ q.tok \in Tokens \cup {None}
      BY <1>t, <1>1, <2>1, <3>1 DEF Sent, Kinds, Args, Replies
    <3>3. q = [kind |-> q.kind, tok |-> q.tok, arg |-> q.arg, ans |-> q.ans]
      BY <2>1 DEF Sent
    <3> QED BY <3>2, <3>3, FreeAssumption
  <2>4. Renews(q, d.view)
    BY <2>1 DEF Renews, Sent
  <2>5. Listed(d, q)'
    BY <1>2, <1>8, <2>3, <2>4, ListedStays
  <2>6. Listed(e, q)'
    BY <1>8, <2>5, SameShown
  <2>7. Printed(e, q)'
    BY <1>2, <1>8 DEF Printed
  <2> QED BY <1>6, <1>8, <2>1, <2>2, <2>6, <2>7
<1>e. PICK e : e = dom'[t]
  OBVIOUS
<1>9. /\ old.kind = "list" => d.view = old.arg
      /\ old.kind \in {"read", "write", "enable"} => d.view = "secrets"
      /\ old.kind = "save" => d.view = "policies"
      /\ old.kind = "create" => d.view = "tokens"
      /\ old.kind = "revoke" => d.view = "leases"
  BY <1>4 DEF Truly, ScreenOf
<1>10. CASE ListArrived(t, s)
  <2>1. PICK a : a = old.ans
    OBVIOUS
  <2>2. Took(t, s, "list", a) /\ Done(t, s) /\ a # None
    BY <1>1, <1>10, <2>1 DEF ListArrived, Took
  <2>3. old.kind = "list" /\ RequestOK(old)
    BY <1>t, <1>1, <1>2, <2>2 DEF Took, Is, TypeInv, RequestsInv
  <2>4. Listed(d, old) /\ Printed(d, old) /\ a = Listing(d.view) /\ old.arg = d.view
    BY <1>4, <1>5, <1>9, <2>1, <2>2, <2>3 DEF Truly
  <2>5. Listing(d.view) \in Contents /\ Listing(d.view) # Refused
    BY <2>3, <2>4, ListingOK, AnswersAssumption DEF RequestOK, TypeInv
  <2>6. Len(d.cards) > 0 /\ d.cards[1].id = d.view
    BY <2>4 DEF Listed
  <2>7. Has(d, d.view) /\ First(d, d.view) = 1
    BY <1>t, <1>1, <2>6, FirstIsFirst
  <2>8. e = Filled(d, d.view, a)
    BY <1>t, <1>1, <1>e, <1>10, <2>1, <2>4, <2>5, <2>7 DEF ListArrived
  <2>9. e.nav = d.nav /\ e.view = d.view /\ e.out = d.out
    BY <1>t, <1>1, <2>8, FilledFields
  <2>10. /\ Len(e.cards) > 0 /\ e.cards[1] = [id |-> d.view, shown |-> a]
         /\ \A i \in 1..Len(e.cards) : e.cards[i].id = d.view
    <3>1. /\ Len(Filled(d, d.view, a).cards) = Len(d.cards)
          /\ \A i \in 1..Len(d.cards) : Filled(d, d.view, a).cards[i] =
               IF i = First(d, d.view) THEN [id |-> d.view, shown |-> a] ELSE d.cards[i]
      BY <1>t, <1>1, <2>4, <2>5, <2>7, FilledPage
    <3>2. 1 \in 1..Len(d.cards)
      <4>1. d.cards \in Seq(CardType)
        BY <1>t, <1>1 DEF PageType
      <4> QED BY <2>6, <4>1
    <3>3. \A i \in 1..Len(d.cards) : d.cards[i].id = d.view
      BY <2>4 DEF Listed
    <3> QED BY <2>6, <2>7, <2>8, <3>1, <3>2, <3>3
  <2>11. Listed(e, None)'
    <3>1. e.cards[1].id = d.view /\ e.cards[1].shown = Listing(d.view)
      BY <2>4, <2>10
    <3>2. Listing(d.view)' = Listing(d.view)
      BY <1>2 DEF Listing
    <3> QED BY <2>4, <2>9, <2>10, <3>1, <3>2 DEF Listed
  <2>12. Printed(e, None)'
    BY <1>2, <2>3, <2>4, <2>9 DEF Printed
  <2>13. Put(t, s, None)
    BY <1>t, <2>2, DonePuts
  <2> QED BY <1>6, <1>e, <2>11, <2>12, <2>13
<1>11. CASE MountEnabled(t, s)
  <2>1. /\ old.kind = "enable" /\ UNCHANGED dom
        /\ IF old.ans = Refused THEN Done(t, s) ELSE Call(t, s, "list", token[t], "secrets")
    BY <1>1, <1>11 DEF MountEnabled, Took, Is
  <2>2. Listed(d, old) /\ Printed(d, old) /\ d.view = "secrets"
    BY <1>5, <1>9, <2>1
  <2>3. e = d /\ Len(d.cards) > 0 /\ \A i \in 1..Len(d.cards) : d.cards[i].id = d.view
    BY <1>1, <1>e, <2>1, <2>2 DEF Listed
  <2>4. old.ans = Refused => ~Renews(old, d.view)
    BY <2>1, AnswersAssumption DEF Renews
  <2> QED BY <1>7, <1>8, <1>e, <2>1, <2>2, <2>3, <2>4
<1>12. CASE SecretShown(t, s)
  <2>1. PICK a : a = old.ans
    OBVIOUS
  <2>2. /\ old.kind \in {"read", "write"} /\ a \notin {None, Lost} /\ Done(t, s)
        /\ dom' = IF dom[t].view = "secrets" THEN [dom EXCEPT ![t].out = a] ELSE dom
    BY <1>1, <1>12, <2>1 DEF SecretShown, Took, Is
  <2>3. Listed(d, old) /\ Printed(d, old) /\ d.view = "secrets" /\ ~Renews(old, d.view)
    BY <1>5, <1>9, <2>2 DEF Renews
  <2>4. a = secret \/ a = "done"
    BY <1>4, <2>1, <2>2 DEF Truly
  <2>5. e.nav = d.nav /\ e.view = d.view /\ e.cards = d.cards /\ e.out = a
    BY <1>t, <1>1, <1>e, <2>2, <2>3 DEF PageType
  <2>6. Len(e.cards) > 0 /\ \A i \in 1..Len(e.cards) : e.cards[i].id = e.view
    BY <2>3, <2>5 DEF Listed
  <2> QED BY <1>7, <1>e, <2>2, <2>3, <2>4, <2>5, <2>6
<1>13. CASE PolicyLoaded(t, s)
  <2>1. /\ old.kind = "load" /\ Done(t, s)
        /\ \/ UNCHANGED dom
           \/ \E x : dom' = [dom EXCEPT ![t].body = x]
    BY <1>1, <1>13 DEF PolicyLoaded, Took, Is
  <2>2. Listed(d, old) /\ Printed(d, old) /\ ~Renews(old, d.view)
    BY <1>5, <2>1 DEF Renews
  <2>3. e.nav = d.nav /\ e.view = d.view /\ e.cards = d.cards /\ e.out = d.out
    BY <1>t, <1>1, <1>e, <2>1 DEF PageType
  <2>4. Len(e.cards) > 0 /\ \A i \in 1..Len(e.cards) : e.cards[i].id = e.view
    BY <2>2, <2>3 DEF Listed
  <2> QED BY <1>7, <1>e, <2>1, <2>2, <2>3, <2>4
<1>14. CASE PolicySaved(t, s)
  <2>1. /\ old.kind = "save" /\ UNCHANGED dom
        /\ Done(t, s) \/ Call(t, s, "list", token[t], "policies")
    BY <1>1, <1>14 DEF PolicySaved, Took, Is
  <2>2. Listed(d, old) /\ Printed(d, old) /\ ~Renews(old, d.view) /\ d.view = "policies"
    BY <1>5, <1>9, <2>1 DEF Renews
  <2>3. e = d /\ Len(e.cards) > 0 /\ \A i \in 1..Len(e.cards) : e.cards[i].id = e.view
    BY <1>1, <1>e, <2>1, <2>2 DEF Listed
  <2> QED BY <1>7, <1>8, <1>e, <2>1, <2>2, <2>3
<1>15. CASE TokenCreated(t, s)
  <2>1. PICK a : a = old.ans
    OBVIOUS
  <2>2. /\ old.kind = "create" /\ a \notin {None, Lost} /\ Done(t, s)
        /\ dom' = IF dom[t].view = "tokens" THEN [dom EXCEPT ![t].out = a] ELSE dom
    BY <1>1, <1>15, <2>1 DEF TokenCreated, Took, Is
  <2>3. Listed(d, old) /\ Printed(d, old) /\ d.view = "tokens" /\ ~Renews(old, d.view)
    BY <1>5, <1>9, <2>2 DEF Renews
  <2>4. a = "done"
    BY <1>4, <2>1, <2>2 DEF Truly
  <2>5. e.nav = d.nav /\ e.view = d.view /\ e.cards = d.cards /\ e.out = a
    BY <1>t, <1>1, <1>e, <2>2, <2>3 DEF PageType
  <2>6. Len(e.cards) > 0 /\ \A i \in 1..Len(e.cards) : e.cards[i].id = e.view
    BY <2>3, <2>5 DEF Listed
  <2> QED BY <1>7, <1>e, <2>2, <2>3, <2>4, <2>5, <2>6
<1>16. CASE LeaseRevoked(t, s)
  <2>1. PICK c : c = Card("leases", FALSE)
    OBVIOUS
  <2>2. /\ old.kind = "revoke" /\ dom' = [dom EXCEPT ![t].cards = Append(@, c)]
        /\ Call(t, s, "list", token[t], "leases")
    BY <1>1, <1>16, <2>1 DEF LeaseRevoked, Took, Is
  <2>3. Listed(d, old) /\ Printed(d, old) /\ d.view = "leases"
    BY <1>5, <1>9, <2>2
  <2>4. c \in CardType
    BY <2>1 DEF Card, CardType, Views
  <2>5. e.nav = d.nav /\ e.view = d.view /\ e.out = d.out /\ e.cards = Append(d.cards, c)
    BY <1>t, <1>1, <1>e, <2>2 DEF PageType
  <2>6. d.cards \in Seq(CardType) /\ Len(d.cards) > 0
    BY <1>t, <1>1, <2>3 DEF PageType, Listed
  <2>7. Len(e.cards) > 0 /\ e.cards[1] = d.cards[1]
    BY <2>4, <2>5, <2>6
  <2>8. ASSUME NEW i \in 1..Len(e.cards) PROVE e.cards[i].id = e.view
    <3>1. Len(e.cards) = Len(d.cards) + 1
      BY <2>5, <2>6
    <3>2. CASE i = Len(d.cards) + 1
      <4>1. e.cards[i] = c
        BY <2>4, <2>5, <2>6, <3>2
      <4> QED BY <2>1, <2>3, <2>5, <4>1 DEF Card
    <3>3. CASE i # Len(d.cards) + 1
      <4>1. i \in 1..Len(d.cards)
        BY <2>6, <3>1, <3>3
      <4>2. e.cards[i] = d.cards[i]
        BY <2>4, <2>5, <2>6, <4>1
      <4>3. d.cards[i].id = d.view
        BY <2>3, <4>1 DEF Listed
      <4> QED BY <2>5, <4>2, <4>3
    <3> QED BY <3>2, <3>3
  <2> QED BY <1>8, <1>e, <2>2, <2>3, <2>5, <2>7, <2>8
<1>17. CASE LineAnswered(t, s)
  <2>1. /\ old.kind = "line" /\ Done(t, s)
        /\ dom' = [dom EXCEPT ![t].told = @ + 1]
    BY <1>1, <1>4, <1>17 DEF LineAnswered, Is, Truly, ScreenOf
  <2>2. Listed(d, old) /\ Printed(d, old) /\ ~Renews(old, d.view)
    BY <1>5, <2>1 DEF Renews
  <2>3. e.nav = d.nav /\ e.view = d.view /\ e.cards = d.cards /\ e.out = d.out
    BY <1>t, <1>1, <1>e, <2>1 DEF PageType
  <2>4. Len(e.cards) > 0 /\ \A i \in 1..Len(e.cards) : e.cards[i].id = e.view
    BY <2>2, <2>3 DEF Listed
  <2> QED BY <1>7, <1>e, <2>1, <2>2, <2>3, <2>4
<1>18. CASE ScreenLost(t, s)
  BY <1>1, <1>4, <1>18 DEF ScreenLost, Arrived, Is, Truly
<1> QED
  BY <1>10, <1>11, <1>12, <1>13, <1>14, <1>15, <1>16, <1>17, <1>18 DEF HandleScreen

\* The handlers of the session.
LEMMA ShownSigned ==
  ASSUME IInv, TypeInv, NEW t \in world.tabs, NEW s \in Slots, Alone(t), Shows(t),
         ~Refusing(t), HandleSession(t, s)
  PROVE  Shows(t)'
<1>t. /\ t \in Tabs /\ Shape /\ Types /\ Orderly(t) /\ world.manner # "hasty"
      /\ token \in [Tabs -> Tokens \cup {None}] /\ screen \in [Tabs -> {"none", "login", "app"}]
  BY TabsOfWorld, AloneFacts DEF IInv, Types, TypeInv, Good
<1>1. PICK old, d, tok : old = flight[t][s] /\ d = dom[t] /\ tok = token'[t]
  OBVIOUS
<1>2. /\ old # None /\ UNCHANGED <<dom, server, world>>
      /\ old.kind \in BootKinds \cup LoginKinds \cup {"unseal", "appStatus"}
  BY <1>1 DEF HandleSession, BootSealed, BootOpen, BootAccepted, BootRefused, Unsealed,
     ShareTaken, TokenAccepted, CredentialsAccepted, LoginFailed, SessionLost, Arrived, Is,
     BootKinds, LoginKinds
<1>3. /\ ~sealed /\ SeesPage(t, d, old, token[t]) /\ \A r \in Slots \ {s} : flight[t][r] = None
      /\ old.kind \in KindsOn[screen[t]]
  BY <1>t, <1>1, <1>2, TheRequest DEF Sees, SeesPage, Orderly
<1>4. CASE old.kind = "appStatus"
  <2>1. old.ans = Lost
    BY <1>1, <1>4 DEF HandleSession, BootSealed, BootOpen, BootAccepted, BootRefused, Unsealed,
       ShareTaken, TokenAccepted, CredentialsAccepted, LoginFailed, SessionLost, Arrived, Is
  <2> QED BY <1>2, <1>3, <1>4, <2>1 DEF SeesPage, Truly, AppKinds
<1>5. CASE old.kind # "appStatus"
  <2>1. screen[t] # "app" /\ d = NoPage /\ ~leaving[t]
    <3>1. old.kind \notin AppKinds
      BY <1>2, <1>5 DEF AppKinds, ScreenKinds, BootKinds, LoginKinds
    <3>2. KindsOn["app"] = AppKinds
      BY DEF KindsOn
    <3> QED BY <1>2, <1>3, <3>1, <3>2 DEF SeesPage
  <2>2. \/ Done(t, s) /\ screen'[t] # "app"
        \/ /\ Call(t, s, "bootLookup", token[t], None) /\ screen'[t] # "app"
           /\ UNCHANGED leaving
        \/ /\ Call(t, s, "appStatus", token'[t], None) /\ UNCHANGED leaving
           /\ token'[t] \in valid
    <3>1. CASE BootAccepted(t, s) \/ TokenAccepted(t, s)
      <4>1. old.kind \in LookupKinds /\ old.ans = "ok" /\ token'[t] = token[t]
            /\ Call(t, s, "appStatus", token'[t], None) /\ UNCHANGED leaving
        BY <1>1, <3>1 DEF BootAccepted, TokenAccepted, Arrived, Is, LookupKinds, ShowApp
      <4>2. old.tok = token[t]
        BY <1>t, <1>1, <1>2, <4>1 DEF Orderly
      <4> QED BY <1>2, <1>3, <4>1, <4>2 DEF SeesPage, Granting
    <3>2. CASE CredentialsAccepted(t, s)
      <4>1. PICK v \in Tokens : /\ old.kind = "loginCreds" /\ old.ans = v /\ token'[t] = v
                                /\ Call(t, s, "appStatus", token'[t], None)
                                /\ UNCHANGED leaving
        BY <1>t, <1>1, <3>2 DEF CredentialsAccepted, Arrived, Is, ShowApp, SetToken
      <4> QED BY <1>2, <1>3, <4>1 DEF SeesPage, Granting
    <3>3. CASE BootOpen(t, s)
      BY <1>t, <2>1, <3>3 DEF BootOpen
    <3> QED BY <1>t, <2>1, <3>1, <3>2, <3>3 DEF HandleSession, BootSealed, BootRefused, Unsealed,
               ShareTaken, LoginFailed, SessionLost, session
  <2>3. token'[t] \in Tokens \cup {None}
    BY <1>t DEF HandleSession, BootSealed, BootOpen, BootAccepted, BootRefused, Unsealed,
       ShareTaken, TokenAccepted, CredentialsAccepted, LoginFailed, SessionLost, SetToken,
       session
  <2>4. PICK q : /\ Put(t, s, q)
                 /\ \/ q = None /\ screen'[t] # "app"
                    \/ /\ q = Sent("bootLookup", token[t], None) /\ screen'[t] # "app"
                       /\ UNCHANGED leaving
                    \/ /\ q = Sent("appStatus", tok, None) /\ UNCHANGED leaving
                       /\ tok \in valid
    <3>1. CASE Done(t, s) /\ screen'[t] # "app"
      BY <1>t, <3>1, DonePuts
    <3>2. CASE /\ Call(t, s, "bootLookup", token[t], None) /\ screen'[t] # "app"
               /\ UNCHANGED leaving
      BY <1>t, <3>2, CallPuts
    <3>3. CASE /\ Call(t, s, "appStatus", token'[t], None) /\ UNCHANGED leaving
               /\ token'[t] \in valid
      BY <1>t, <1>1, <2>3, <3>3, CallPuts
    <3> QED BY <2>2, <3>1, <3>2, <3>3
  <2>5. \A r \in Slots : flight'[t][r] = IF r = s THEN q ELSE None
    BY <1>t, <1>3, <2>4 DEF Put
  <2>6. SeesPage(t, d, q, tok)'
    <3>1. CASE q = None /\ screen'[t] # "app"
      BY <2>1, <3>1 DEF SeesPage
    <3>2. CASE /\ q = Sent("bootLookup", token[t], None) /\ screen'[t] # "app"
               /\ UNCHANGED leaving
      <4>1. q.kind = "bootLookup" /\ q.ans = None
        BY <3>2 DEF Sent
      <4>2. "bootLookup" \notin AppKinds /\ None # "ok"
        BY WordsAssumption DEF AppKinds, ScreenKinds
      <4> QED BY <2>1, <3>2, <4>1, <4>2 DEF SeesPage, Granting
    <3>3. CASE q = Sent("appStatus", tok, None) /\ UNCHANGED leaving /\ tok \in valid
      <4>1. q.kind = "appStatus" /\ q.tok = tok /\ q.ans = None
        BY <3>3 DEF Sent
      <4>2. d.view = "none" /\ None # Lost
        BY <2>1, NoneAssumption DEF NoPage
      <4>3. Truly(q, d.view)' /\ Granting(q)' /\ tok \in valid'
        BY <1>2, <3>3, <4>1, <4>2 DEF Truly, Granting, ScreenOf, LookupKinds, server
      <4>4. q # None
        <5>1. None \in Args /\ None \in Replies /\ "appStatus" \in Kinds
          BY DEF Args, Replies, Kinds
        <5>2. q = [kind |-> "appStatus", tok |-> tok, arg |-> None, ans |-> None]
          BY <3>3 DEF Sent
        <5> QED BY <1>1, <2>3, <5>1, <5>2, FreeAssumption
      <4> QED BY <2>1, <3>3, <4>1, <4>3, <4>4 DEF SeesPage
    <3> QED BY <2>4, <3>1, <3>2, <3>3
  <2>7. d = dom'[t] /\ ~sealed'
    BY <1>1, <1>2, <1>3 DEF server
  <2> QED BY <1>t, <1>1, <2>5, <2>6, <2>7, ShowsNext
<1> QED BY <1>4, <1>5

\* A screen is drawn.
LEMMA ShownDrawn ==
  ASSUME Types, Shape, PagesInv, NEW t \in Tabs, NEW s \in Slots, NEW v \in Views, NEW k,
         RenderView(t, s, v, v, k), screen[t] = "app", ~leaving[t], ~sealed, token[t] \in valid,
         \A r \in Slots \ {s} : flight[t][r] = None,
         UNCHANGED <<token, screen, leaving, sealed, valid>>
  PROVE  Shows(t)'
<1>1. PICK tok, d : tok = token[t] /\ d = Rendered(v, v, k)
  OBVIOUS
<1>2. PICK q : q = IF Asks(v, k) THEN Sent("list", tok, v) ELSE None
  OBVIOUS
<1>3. \A r \in Slots : flight'[t][r] = IF r = s THEN q ELSE None
  <2>1. flight'[t][s] = q
    BY <1>1, <1>2, RenderSlots
  <2>2. ASSUME NEW r \in Slots \ {s} PROVE flight'[t][r] = None
    BY RenderSlots DEF Is
  <2> QED BY <2>1, <2>2
<1>4. d = dom'[t] /\ tok = token'[t] /\ ~sealed'
  BY <1>1 DEF RenderView, PagesInv
<1>5. /\ d.nav = v /\ d.view = v /\ d.cards = <<Card(v, k)>> /\ d.out = None
  BY <1>1 DEF Rendered
<1>6. Asks(v, k) => /\ q.kind = "list" /\ q.tok = tok /\ q.arg = v /\ q.ans = None
                    /\ q # None
  <2> SUFFICES ASSUME Asks(v, k)
               PROVE  /\ q.kind = "list" /\ q.tok = tok /\ q.arg = v /\ q.ans = None
                      /\ q # None
    OBVIOUS
  <2>1. q = [kind |-> "list", tok |-> tok, arg |-> v, ans |-> None]
    BY <1>2 DEF Sent
  <2>2. "list" \in Kinds /\ v \in Args /\ None \in Replies /\ tok \in Tokens
    BY <1>1 DEF Kinds, Args, Replies, Types
  <2> QED BY <2>1, <2>2, FreeAssumption
<1>7. Listed(d, q)'
  <2>1. Len(d.cards) > 0 /\ d.cards[1] = Card(v, k)
    BY <1>5
  <2>2. d.cards[1].id = v /\ \A i \in 1..Len(d.cards) : d.cards[i].id = v
    BY <1>5, <2>1 DEF Card
  <2>3. v = "console" \/ (d.cards[1].shown = Listing(v))' \/ (q # None /\ Renews(q, v))
    BY <1>6, <2>1 DEF Asks, Renews, Card, Listing
  <2> QED BY <1>5, <2>1, <2>2, <2>3 DEF Listed, Renews
<1>8. Printed(d, q)'
  BY <1>5 DEF Printed
<1>9. q # None => Granting(q)' /\ Truly(q, d.view)'
  <2>1. None # Lost
    BY NoneAssumption
  <2> QED BY <1>1, <1>2, <1>5, <1>6, <2>1 DEF Granting, Truly, ScreenOf, LookupKinds
<1>10. SeesPage(t, d, q, tok)'
  BY <1>1, <1>7, <1>8, <1>9 DEF SeesPage
<1> QED BY <1>3, <1>4, <1>10, ShowsNext

LEMMA ShownOpened ==
  ASSUME IInv, TypeInv, NEW t \in world.tabs, NEW s \in Slots, Alone(t), Shows(t),
         ~Refusing(t), OpenApp(t, s)
  PROVE  Shows(t)'
<1>t. t \in Tabs /\ Types /\ Shape /\ PagesInv
  BY TabsOfWorld DEF IInv, TypeInv
<1>1. PICK old, d, k : old = flight[t][s] /\ d = dom[t] /\ k = shell'[t].version
  OBVIOUS
<1>2. /\ RenderView(t, s, d.nav, "secrets", k)
      /\ old # None /\ old.kind = "appStatus" /\ old.kind \in AppKinds
      /\ UNCHANGED <<token, screen, leaving, sealed, valid>>
  BY <1>1 DEF OpenApp, AppOpened, Arrived, Is, server, AppKinds
<1>3. /\ ~sealed /\ SeesPage(t, d, old, token[t]) /\ \A r \in Slots \ {s} : flight[t][r] = None
  BY <1>t, <1>1, <1>2, TheRequest DEF Sees, SeesPage
<1>4. screen[t] = "app" /\ ~leaving[t] /\ token[t] \in valid /\ Truly(old, d.view)
  BY <1>1, <1>2, <1>3, OnApp DEF SeesPage
<1>5. d.nav = "secrets"
  <2>1. d.view = "none"
    BY <1>2, <1>4 DEF Truly, ScreenOf
  <2>2. d = NoPage
    BY <1>3, <1>4, <2>1 DEF SeesPage, Listed, Views
  <2> QED BY <2>2 DEF NoPage
<1>6. "secrets" \in Views
  BY DEF Views
<1> QED BY <1>t, <1>2, <1>3, <1>4, <1>5, <1>6, ShownDrawn

\* The user acts.
LEMMA ShownUsed ==
  ASSUME IInv, TypeInv, NEW t \in world.tabs, NEW s \in Slots, Alone(t), Shows(t),
         ~Refusing(t), UseSession(t, s)
  PROVE  Shows(t)'
<1>t. /\ t \in Tabs /\ Shape /\ Types /\ world.manner # "hasty"
      /\ world.tokens \subseteq Tokens
  BY TabsOfWorld, AloneFacts DEF IInv
<1>1. /\ Quiet(t) /\ screen[t] = "login" /\ ~leaving[t]
      /\ UNCHANGED <<screen, leaving, dom, server>>
  BY <1>t DEF UseSession, SubmitShare, SubmitToken, SubmitCredentials, Ready, session
<1>2. PICK d, tok : d = dom[t] /\ tok = token'[t]
  OBVIOUS
<1>3. ~sealed /\ d = NoPage
  BY <1>t, <1>1, <1>2, NoRequest DEF Sees
<1>4. PICK kind \in {"unseal", "loginLookup", "loginCreds"}, k \in Tokens \cup {None} :
        Call(t, s, kind, k, None)
  BY <1>t DEF UseSession, SubmitShare, SubmitToken, SubmitCredentials, Types
<1>5. PICK q : Put(t, s, q) /\ q = Sent(kind, k, None)
  BY <1>t, <1>4, CallPuts
<1>6. \A r \in Slots : flight'[t][r] = IF r = s THEN q ELSE None
  BY <1>t, <1>1, <1>5 DEF Put, Quiet
<1>7. Granting(q)' /\ q.kind \notin AppKinds
  <2>1. q.kind = kind /\ q.ans = None /\ None # "ok" /\ None \notin Tokens
    BY <1>5, NoneAssumption, WordsAssumption DEF Sent
  <2> QED BY <2>1 DEF Granting, AppKinds, ScreenKinds
<1>8. SeesPage(t, d, q, tok)'
  BY <1>1, <1>3, <1>7 DEF SeesPage
<1> QED BY <1>t, <1>1, <1>2, <1>3, <1>6, <1>8, ShowsNext DEF server

LEMMA ShownAsked ==
  ASSUME IInv, TypeInv, NEW t \in world.tabs, NEW s \in Slots, Alone(t), Shows(t),
         ~Refusing(t), UseScreen(t, s)
  PROVE  Shows(t)'
<1>t. /\ t \in Tabs /\ Shape /\ Types /\ PagesInv /\ dom \in [Tabs -> PageType]
      /\ world.manner = "patient" /\ token[t] \in Tokens \cup {None}
  BY TabsOfWorld, AloneFacts DEF IInv, Types, TypeInv, PagesInv
<1>1. /\ Quiet(t) /\ screen[t] = "app" /\ ~leaving[t] /\ UNCHANGED <<session, server, vault>>
  BY <1>t DEF UseScreen, Navigate, EnableMount, ReadSecret, WriteSecret, LoadPolicy,
     SavePolicy, CreateToken, RevokeLease, EnterLine, Ask, On, Ready
<1>2. PICK d, e, tok : d = dom[t] /\ e = dom'[t] /\ tok = token[t]
  OBVIOUS
<1>3. ~sealed /\ tok \in valid /\ Listed(d, None) /\ Printed(d, None)
  BY <1>t, <1>1, <1>2, NoRequest DEF Sees
<1>4. ASSUME NEW v \in Views, Navigate(t, s, v) PROVE Shows(t)'
  <2>1. PICK k : k = shell[t].version
    OBVIOUS
  <2>2. RenderView(t, s, v, v, k)
    BY <1>4, <2>1 DEF Navigate
  <2>3. /\ \A r \in Slots \ {s} : flight[t][r] = None
        /\ UNCHANGED <<token, screen, leaving, sealed, valid>>
    BY <1>1 DEF Quiet, session, server
  <2> QED BY <1>t, <1>1, <1>2, <1>3, <2>2, <2>3, ShownDrawn
<1>5. CASE ~\E v \in Views : Navigate(t, s, v)
  <2>1. PICK kind, arg :
          /\ \/ UNCHANGED flight
             \/ Call(t, s, kind, token[t], arg)
          /\ kind \in DOMAIN ScreenOf \ {"list", "appStatus"}
          /\ d.view \in ScreenOf[kind]
          /\ kind = "read" => arg = "GET"
          /\ kind = "write" => arg = "PUT"
    <3>1. ASSUME NEW v \in Views, NEW kind, NEW arg, Ask(t, s, v, kind, arg)
          PROVE  d.view = v /\ Call(t, s, kind, token[t], arg)
      BY <1>2, <3>1 DEF Ask, On
    <3>2. {"secrets", "policies", "tokens", "leases", "console"} \subseteq Views
      BY DEF Views
    <3>3. CASE EnableMount(t, s) \/ ReadSecret(t, s) \/ WriteSecret(t, s)
      BY <3>1, <3>2, <3>3 DEF EnableMount, ReadSecret, WriteSecret, ScreenOf
    <3>4. CASE LoadPolicy(t, s) \/ SavePolicy(t, s)
      <4>1. \/ \E arg : Ask(t, s, "policies", "load", arg)
            \/ \E arg : Ask(t, s, "policies", "save", arg)
        BY <3>4 DEF LoadPolicy, SavePolicy
      <4>2. /\ d.view = "policies"
            /\ \/ \E arg : Call(t, s, "load", token[t], arg)
               \/ \E arg : Call(t, s, "save", token[t], arg)
        BY <3>1, <3>2, <4>1
      <4> QED BY <4>2 DEF ScreenOf
    <3>5. CASE CreateToken(t, s)
      BY <3>1, <3>2, <3>5 DEF CreateToken, ScreenOf
    <3>7. CASE RevokeLease(t, s)
      <4>1. PICK l \in Options(t, "leases") : Ask(t, s, d.view, "revoke", l)
        BY <1>2, <3>7 DEF RevokeLease
      <4>2. PICK i \in DOMAIN d.cards : d.cards[i].id = "leases"
        BY <1>2, <4>1 DEF Options, Has
      <4>3. d.cards \in Seq(CardType)
        BY <1>t, <1>2 DEF PageType
      <4>4. i \in 1..Len(d.cards)
        BY <4>2, <4>3
      <4>5. d.view = "leases"
        BY <1>3, <4>2, <4>4 DEF Listed
      <4>6. Call(t, s, "revoke", token[t], l)
        BY <4>1 DEF Ask
      <4> QED BY <4>5, <4>6 DEF ScreenOf
    <3>6. CASE EnterLine(t, s)
      <4>1. d.view = "console"
        BY <1>2, <3>6 DEF EnterLine, Ask, On
      <4>2. \/ UNCHANGED flight
            \/ \E arg : Call(t, s, "line", token[t], arg)
        BY <3>6 DEF EnterLine, Ask
      <4> QED BY <4>1, <4>2 DEF ScreenOf
    <3> QED BY <1>5, <3>3, <3>4, <3>5, <3>6, <3>7 DEF UseScreen
  <2>2. e.nav = d.nav /\ e.view = d.view /\ e.cards = d.cards /\ e.out = d.out
    <3>1. \/ UNCHANGED dom \/ dom' = [dom EXCEPT ![t].asked = @ + 1]
          \/ dom' = [dom EXCEPT ![t].asked = @ + 1, ![t].told = @ + 1]
          \/ \E n : dom' = [dom EXCEPT ![t].name = n, ![t].typed = FALSE]
      BY <1>5 DEF UseScreen, EnableMount, ReadSecret, WriteSecret, LoadPolicy, SavePolicy,
         CreateToken, RevokeLease, EnterLine
    <3> QED BY <1>t, <1>2, <3>1 DEF PageType
  <2>3. PICK q : /\ \A r \in Slots : flight'[t][r] = IF r = s THEN q ELSE None
                 /\ q = None \/ q = Sent(kind, tok, arg)
    <3>1. \A r \in Slots : flight[t][r] = None
      BY <1>1 DEF Quiet
    <3>2. CASE UNCHANGED flight
      BY <3>1, <3>2
    <3>3. CASE Call(t, s, kind, token[t], arg)
      <4>1. PICK q : q = Sent(kind, tok, arg)
        OBVIOUS
      <4>2. Put(t, s, q)
        BY <1>t, <1>2, <3>3, <4>1, CallPuts
      <4> QED BY <1>t, <3>1, <4>1, <4>2 DEF Put
    <3> QED BY <2>1, <3>2, <3>3
  <2>4. q # None => Granting(q)' /\ Truly(q, e.view)'
    <3> SUFFICES ASSUME q # None PROVE Granting(q)' /\ Truly(q, e.view)'
      OBVIOUS
    <3>1. q.kind = kind /\ q.tok = tok /\ q.arg = arg /\ q.ans = None
      BY <2>3 DEF Sent
    <3>2. None # Lost /\ None # "ok" /\ None \notin Tokens
      BY NoneAssumption, WordsAssumption
    <3>3. Granting(q)'
      BY <3>1, <3>2 DEF Granting
    <3>4. tok \in valid'
      BY <1>1, <1>3 DEF server
    <3>5. Truly(q, e.view)'
      BY <2>1, <2>2, <3>1, <3>2, <3>4 DEF Truly
    <3> QED BY <3>3, <3>5
  <2>5. Listed(d, q)' /\ Printed(d, q)'
    BY <1>1, <1>3, ListedStays, PrintedStays DEF vault
  <2>6. Listed(e, q)'
    BY <1>3, <2>2, <2>5, SameShown DEF Listed
  <2>7. Printed(e, q)'
    BY <2>2, <2>5 DEF Printed
  <2>8. SeesPage(t, e, q, tok)'
    BY <1>1, <1>3, <2>4, <2>6, <2>7 DEF SeesPage, session, server
  <2>9. tok = token'[t] /\ ~sealed'
    BY <1>1, <1>2, <1>3 DEF session, server
  <2> QED BY <1>t, <1>2, <2>3, <2>8, <2>9, ShowsNext
<1> QED BY <1>4, <1>5

LEMMA ShownTyped ==
  ASSUME IInv, TypeInv, NEW t \in world.tabs, Alone(t), Shows(t), ~Refusing(t),
         EditPolicy(t) \/ (SignOut(t) /\ UNCHANGED <<dom, vault>>)
  PROVE  Shows(t)'
<1>t. /\ t \in Tabs /\ Types /\ dom \in [Tabs -> PageType]
      /\ world.manner = "patient" /\ 1 \in Slots
  BY TabsOfWorld, AloneFacts, BoundAssumption DEF IInv, TypeInv, PagesInv, Slots
<1>1. PICK d, e, tok : d = dom[t] /\ e = dom'[t] /\ tok = token'[t]
  OBVIOUS
<1>2. Quiet(t) /\ screen[t] = "app" /\ ~leaving[t]
  BY <1>t DEF EditPolicy, SignOut, On, Ready
<1>3. ~sealed /\ token[t] \in valid /\ Listed(d, None) /\ Printed(d, None)
  BY <1>t, <1>1, <1>2, NoRequest DEF Sees
<1>4. UNCHANGED <<flight, screen, sealed, valid, vault>>
  BY DEF EditPolicy, SignOut, session, server
<1>5. SeesPage(t, e, None, tok)'
  <2>1. CASE EditPolicy(t)
    <3>1. e.nav = d.nav /\ e.view = d.view /\ e.cards = d.cards /\ e.out = d.out
      <4>1. CASE dom' = [dom EXCEPT ![t].body = "edited"]
        BY <1>t, <1>1, <4>1 DEF PageType
      <4>2. ASSUME NEW n, dom' = [dom EXCEPT ![t].name = n, ![t].typed = TRUE]
            PROVE  e.nav = d.nav /\ e.view = d.view /\ e.cards = d.cards /\ e.out = d.out
        BY <1>t, <1>1, <4>2 DEF PageType
      <4> QED BY <2>1, <4>1, <4>2 DEF EditPolicy
    <3>2. Listed(e, None)' /\ Printed(e, None)'
      BY <1>3, <1>4, <3>1 DEF Listed, Printed, Listing, vault
    <3>3. tok = token[t] /\ leaving' = leaving
      BY <1>1, <2>1 DEF EditPolicy, session
    <3> QED BY <1>2, <1>3, <1>4, <3>2, <3>3 DEF SeesPage
  <2>2. CASE SignOut(t)
    BY <1>t, <1>2, <1>4, <2>2 DEF SignOut, Types, SeesPage
  <2> QED BY <2>1, <2>2
<1>6. \A r \in Slots : flight'[t][r] = IF r = 1 THEN None ELSE None
  BY <1>2, <1>4 DEF Quiet
<1>7. PICK q : q = None
  OBVIOUS
<1>8. SeesPage(t, e, q, tok)' /\ \A r \in Slots : flight'[t][r] = IF r = 1 THEN q ELSE None
  BY <1>5, <1>6, <1>7
<1> QED BY <1>t, <1>1, <1>3, <1>4, <1>8, ShowsNext

LEMMA ShownLoaded ==
  ASSUME IInv, TypeInv, NEW t \in world.tabs, Alone(t), Shows(t), LoadPage(t),
         dom' = [dom EXCEPT ![t] = NoPage]
  PROVE  Shows(t)'
<1>t. /\ t \in Tabs /\ Types /\ Shape /\ dom \in [Tabs -> PageType] /\ 1 \in Slots
      /\ stored \in Tokens \cup {None} /\ ~sealed
  BY TabsOfWorld, BoundAssumption DEF IInv, Types, TypeInv, PagesInv, Slots, Shows
<1>1. PICK v, d, tok, q : v = stored /\ d = dom'[t] /\ tok = token'[t] /\ q = Boot(v)[1]
  OBVIOUS
<1>2. /\ d = NoPage /\ screen'[t] = "none" /\ ~leaving'[t] /\ ~sealed'
      /\ \A r \in Slots : flight'[t][r] = Boot(v)[r]
  BY <1>t, <1>1 DEF LoadPage, Types, Shape, server
<1>3. \A r \in Slots : flight'[t][r] = IF r = 1 THEN q ELSE None
  <2>1. \A r \in Slots : Boot(v)[r] # None => r = 1
    BY <1>t, <1>1, BootSlots
  <2> QED BY <1>1, <1>2, <2>1
<1>4. q # None => q.kind = "bootStatus"
  <2>1. Boot(v)[1] # None => Boot(v)[1].kind = "bootStatus"
    BY <1>t, <1>1, BootSlots
  <2> QED BY <1>1, <2>1
<1>5. SeesPage(t, d, q, tok)'
  <2>1. "bootStatus" \notin AppKinds \cup LookupKinds
    BY DEF AppKinds, ScreenKinds, LookupKinds
  <2> QED BY <1>2, <1>4, <2>1 DEF SeesPage, Granting
<1> QED BY <1>t, <1>1, <1>2, <1>3, <1>5, ShowsNext

\* A page whose token is revoked stays so until the user signs out or reloads.
LEMMA ShownRefused ==
  ASSUME IInv, TypeInv, NEW t \in world.tabs, NEW s \in Slots, Alone(t), Shows(t),
         Refusing(t), StepOf(t, s)
  PROVE  Shows(t)'
<1>t. /\ t \in Tabs /\ Types /\ Shape /\ Orderly(t) /\ dom \in [Tabs -> PageType]
      /\ world.manner = "patient" /\ world.faults = {} /\ ~sealed
      /\ screen[t] = "app" /\ ~leaving[t] /\ token[t] \in Tokens \cup {None}
  BY TabsOfWorld, AloneFacts DEF IInv, Types, TypeInv, PagesInv, Good, Shows, Refusing
<1>1. CASE Reload(t)
  BY <1>1, ShownLoaded DEF Reload, UserReload, Leave
<1>2. CASE SignOut(t) /\ UNCHANGED <<dom, vault>>
  <2>1. /\ Quiet(t) /\ leaving'[t] /\ UNCHANGED <<screen, flight, sealed, dom>>
    BY <1>t, <1>2 DEF SignOut, Ready, Types, server
  <2>2. PICK d, tok, q : d = dom[t] /\ tok = token'[t] /\ q = None
    OBVIOUS
  <2>3. SeesPage(t, d, q, tok)'
    BY <1>t, <2>1, <2>2 DEF SeesPage
  <2>4. \A r \in Slots : flight'[t][r] = IF r = s THEN q ELSE None
    BY <2>1, <2>2 DEF Quiet
  <2> QED BY <1>t, <2>1, <2>2, <2>3, <2>4, ShowsNext
<1>3. CASE ~Reload(t) /\ ~(SignOut(t) /\ UNCHANGED <<dom, vault>>)
  <2>a. KindsOn["app"] = AppKinds /\ "loginCreds" \notin AppKinds
        /\ BootKinds \cap AppKinds = {} /\ LoginKinds \cap AppKinds = {}
        /\ "unseal" \notin AppKinds
    BY DEF KindsOn, AppKinds, ScreenKinds, BootKinds, LoginKinds
  <2>k. flight[t][s] # None => flight[t][s].kind \in AppKinds
    BY <1>t, <2>a DEF Orderly
  <2>0. \A r \in Slots \ {s} : flight[t][r] = None
    <3>1. PICK p \in Slots : \A r \in Slots \ {p} : flight[t][r] = None
      BY DEF Shows
    <3>2. flight[t][s] # None \/ Quiet(t)
      BY <1>t, <1>3 DEF StepOf, Proceed, EditPolicy, UseSession, SubmitShare, SubmitToken,
         SubmitCredentials, UseScreen, Navigate, EnableMount, ReadSecret, WriteSecret,
         LoadPolicy, SavePolicy, CreateToken, RevokeLease, EnterLine, Ask, On, Ready
    <3> QED BY <3>1, <3>2 DEF Quiet
  <2>1. ASSUME UNCHANGED <<screen, token, leaving, sealed>>, valid' \subseteq valid,
               \A r \in Slots \ {s} : flight'[t][r] = None
        PROVE  Shows(t)'
    <3>1. Refusing(t)'
      BY <2>1 DEF Refusing
    <3> QED BY <1>t, <2>1, <3>1, ShowsNothing
  <2>2. ASSUME \/ UNCHANGED flight \/ Done(t, s) \/ \E a : Answer(t, s, a)
               \/ \E kind, arg : Call(t, s, kind, token[t], arg)
        PROVE  \A r \in Slots \ {s} : flight'[t][r] = None
    BY <1>t, <2>0, <2>2 DEF Done, Answer, Call, Shape
  <2>3. ASSUME NEW nav, NEW v, NEW known, RenderView(t, s, nav, v, known)
        PROVE  \A r \in Slots \ {s} : flight'[t][r] = None
    <3>1. \A r \in Slots \ {s} : ~Is(t, r, "line") => flight'[t][r] = flight[t][r]
      BY <1>t, <2>3, RenderSlots
    <3> QED BY <2>0, <3>1 DEF Is
  <2>4. CASE flight[t][s] # None /\ ServeSession(t, s)
    <3>1. ~ServeLogin(t, s) /\ ~ServeShare(t, s)
      BY <2>a, <2>k, <2>4 DEF ServeLogin, ServeCredentials, ServeShare, Waiting, Is
    <3>2. UNCHANGED <<session, server>> /\ \E a : Answer(t, s, a)
      BY <2>4, <3>1 DEF ServeSession, ServeStatus, ServeLookup, LoseAnswer
    <3> QED BY <2>1, <2>2, <3>2 DEF session, server
  <2>5. CASE ServeScreen(t, s)
    <3>1. /\ UNCHANGED <<session, sealed>> /\ valid' \subseteq valid
          /\ \E a : Answer(t, s, a)
      BY <2>5 DEF ServeScreen, RefuseRequest, ServeList, ServeEnable, ServeSecret, ServeLoad,
         ServeSave, ServeCreate, ServeRevoke, Granted, server
    <3> QED BY <2>1, <2>2, <3>1 DEF session
  <2>6. CASE HandleSession(t, s)
    <3>1. flight[t][s] # None /\ flight[t][s].kind \notin BootKinds \cup LoginKinds \cup {"unseal"}
      BY <2>a, <2>k, <2>6 DEF HandleSession, BootSealed, BootOpen, BootAccepted, BootRefused,
         Unsealed, ShareTaken, TokenAccepted, CredentialsAccepted, LoginFailed, SessionLost,
         Arrived, Is
    <3>2. Done(t, s) /\ UNCHANGED <<session, server>>
      BY <2>6, <3>1 DEF HandleSession, BootSealed, BootOpen, BootAccepted, BootRefused,
         Unsealed, ShareTaken, TokenAccepted, CredentialsAccepted, LoginFailed, SessionLost,
         Arrived, Is, BootKinds, LoginKinds
    <3> QED BY <2>1, <2>2, <3>2 DEF session, server
  <2>7. CASE OpenApp(t, s)
    <3>1. /\ UNCHANGED <<screen, token, leaving, server>>
          /\ \E nav, v, known : RenderView(t, s, nav, v, known)
      BY <2>7 DEF OpenApp, AppOpened
    <3> QED BY <2>1, <2>3, <3>1 DEF server
  <2>8. CASE HandleScreen(t, s)
    BY <2>1, <2>2, <2>8, HandledSlot DEF server
  <2>9. CASE UseSession(t, s)
    BY <1>t, <2>9 DEF UseSession, SubmitShare, SubmitToken, SubmitCredentials
  <2>10. CASE UseScreen(t, s)
    <3>1. ASSUME NEW v \in Views, Navigate(t, s, v) PROVE Shows(t)'
      BY <2>1, <2>3, <3>1 DEF Navigate, session, server
    <3>2. CASE ~\E v \in Views : Navigate(t, s, v)
      <4>1. /\ UNCHANGED <<session, server>>
            /\ UNCHANGED flight \/ \E kind, arg : Call(t, s, kind, token[t], arg)
        BY <2>10, <3>2 DEF UseScreen, EnableMount, ReadSecret, WriteSecret, LoadPolicy,
           SavePolicy, CreateToken, RevokeLease, EnterLine, Ask
      <4> QED BY <2>1, <2>2, <4>1 DEF session, server
    <3> QED BY <3>1, <3>2
  <2>11. CASE EditPolicy(t)
    BY <2>1, <2>2, <2>11 DEF EditPolicy, session, server
  <2> QED
    BY <1>3, <2>4, <2>5, <2>6, <2>7, <2>8, <2>9, <2>10, <2>11 DEF StepOf, Proceed
<1> QED BY <1>1, <1>2, <1>3 DEF StepOf

LEMMA ShownKept ==
  ASSUME IInv, TypeInv, TextsInv, ShowsInv, [Next]_vars
  PROVE  ShowsInv'
<1>1. world' = world
  BY ServerSteps DEF ServerKeeps
<1>2. SUFFICES ASSUME NEW t \in Tabs, Alone(t) PROVE Shows(t)'
  BY <1>1 DEF ShowsInv, Shows, Alone
<1>t. Shows(t) /\ Types /\ world.tabs = {t} /\ world.faults = {} /\ ~sealed
  BY <1>2, AloneFacts DEF ShowsInv, Shows, IInv
<1>6. ASSUME NEW s \in Slots, StepOf(t, s), Refusing(t) PROVE Shows(t)'
  BY <1>2, <1>t, <1>6, ShownRefused
<1>3. ASSUME NEW s \in Slots, StepOf(t, s), ~Refusing(t) PROVE Shows(t)'
  <2>1. CASE ServeSession(t, s) \/ ServeScreen(t, s)
    <3>1. flight[t][s] # None /\ flight[t][s].ans = None
      BY <2>1 DEF ServeSession, ServeStatus, ServeLookup, ServeLogin, ServeCredentials,
         ServeShare, LoseAnswer, ServeScreen, RefuseRequest, ServeList, ServeEnable, ServeSecret,
         ServeLoad, ServeSave, ServeCreate, ServeRevoke, Granted, Waiting, Is
    <3> QED BY <1>2, <1>3, <1>t, <2>1, <3>1, ShownServed
  <2>2. CASE HandleSession(t, s)
    BY <1>2, <1>3, <1>t, <2>2, ShownSigned
  <2>3. CASE HandleScreen(t, s)
    BY <1>2, <1>3, <1>t, <2>3, ShownHandled
  <2>4. CASE OpenApp(t, s)
    BY <1>2, <1>3, <1>t, <2>4, ShownOpened
  <2>5. CASE UseSession(t, s)
    BY <1>2, <1>3, <1>t, <2>5, ShownUsed
  <2>6. CASE UseScreen(t, s)
    BY <1>2, <1>3, <1>t, <2>6, ShownAsked
  <2>7. CASE Reload(t)
    BY <1>2, <1>3, <1>t, <2>7, ShownLoaded DEF Reload, UserReload, Leave
  <2>8. CASE EditPolicy(t) \/ (SignOut(t) /\ UNCHANGED <<dom, vault>>)
    BY <1>2, <1>3, <1>t, <2>8, ShownTyped
  <2> QED
    BY <1>3, <2>1, <2>2, <2>3, <2>4, <2>5, <2>6, <2>7, <2>8 DEF StepOf, Proceed
<1>4. CASE ServerStep
  BY <1>t, <1>4 DEF ServerStep, LoseToken, OpenServer, SealServer, RevokeToken
<1>5. CASE UNCHANGED vars
  <2>1. PICK p \in Slots : /\ \A r \in Slots \ {p} : flight[t][r] = None
                           /\ Refusing(t) \/ Sees(t, flight[t][p])
    BY <1>2, <1>t DEF Shows
  <2>2. PICK q, d, tok : q = flight[t][p] /\ d = dom[t] /\ tok = token[t]
    OBVIOUS
  <2>3. UNCHANGED <<sealed, valid, token, screen, leaving, flight, dom, mounts, leases, secret>>
    BY <1>5 DEF vars
  <2>4. \A r \in Slots : flight'[t][r] = IF r = p THEN q ELSE None
    BY <2>1, <2>2, <2>3
  <2>5. CASE Refusing(t)
    <3>1. Refusing(t)' /\ ~sealed'
      BY <1>t, <2>3, <2>5 DEF Refusing
    <3> QED BY <1>2, <2>4, <3>1, ShowsNothing
  <2>6. CASE ~Refusing(t)
    <3>1. SeesPage(t, d, q, tok)
      BY <2>1, <2>2, <2>6 DEF Sees, SeesPage
    <3>2. SeesPage(t, d, q, tok)'
      BY <2>3, <3>1 DEF SeesPage, Granting, Truly, Listed, Printed, Listing
    <3> QED BY <1>2, <1>t, <2>2, <2>3, <2>4, <3>2, ShowsNext
  <2> QED BY <2>5, <2>6
<1> QED BY <1>t, <1>3, <1>4, <1>5, <1>6, StepsOfTabs

LEMMA ShownAtFirst ==
  ASSUME Init, IInv
  PROVE  ShowsInv
<1> SUFFICES ASSUME NEW t \in Tabs, Alone(t) PROVE Shows(t)
  BY DEF ShowsInv, Shows
<1>1. ~sealed /\ 1 \in Slots
  <2>1. world.faults = {}
    BY AloneFacts DEF IInv
  <2>2. sealed = FALSE
    BY <2>1 DEF Init, InitSession
  <2> QED BY <2>2, BoundAssumption DEF Slots
<1>2. \A s \in Slots : flight[t][s] # None => s = 1 /\ flight[t][s].kind = "bootStatus"
  BY FirstRequests
<1>3. screen[t] = "none" /\ dom[t] = NoPage /\ ~leaving[t]
  BY DEF Init, InitSession
<1>4. "bootStatus" \notin AppKinds \cup LookupKinds
  BY DEF AppKinds, ScreenKinds, LookupKinds
<1>5. Sees(t, flight[t][1])
  BY <1>1, <1>2, <1>3, <1>4 DEF Sees, Granting
<1> QED BY <1>1, <1>2, <1>5 DEF Shows

\* A single user who waits sees the server's state: the list on the screen is
\* what the server has after whatever was done there, the value printed is the
\* secret, and the screen is the one selected.  It ends with the session: once the
\* user has revoked the lease of its own token, every list is refused.
THEOREM ShownIsTrueHolds == Spec => []ShownIsTrue
<1>1. Init => TextsInv /\ ShowsInv
  BY InitIInv, TextsAtFirst, ShownAtFirst
<1>2. IInv /\ TypeInv /\ TextsInv /\ ShowsInv /\ [Next]_vars => TextsInv' /\ ShowsInv'
  BY TextsKept, ShownKept
<1>3. ShowsInv => ShownIsTrue
  <2> SUFFICES ASSUME ShowsInv, NEW t \in Tabs, Alone(t), screen[t] = "app", ~leaving[t],
                      Quiet(t), token[t] \in valid
               PROVE  /\ \/ dom[t].view = "console"
                         \/ dom[t].cards[1].shown = Listing(dom[t].view)
                      /\ dom[t].out \in {None, Refused, "done", secret}
                      /\ dom[t].nav = dom[t].view
    BY DEF ShownIsTrue, Alone
  <2>1. Sees(t, None)
    BY NoRequest DEF ShowsInv, Refusing
  <2> QED BY <2>1 DEF Sees, Listed, Printed
<1> QED BY <1>1, <1>2, <1>3, TypesInductive, PTL DEF Spec
==============================================================================
