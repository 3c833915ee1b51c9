-------------------------- MODULE MobileAppProofs --------------------------
(***************************************************************************)
(* What the phone application draws, for every term, filter and name, any   *)
(* number of calls in flight and every workload: the types of its           *)
(* variables, that a place at rest shows what was asked for it              *)
(* (ShownIsAsked), and that a skeleton or a spinner waits for a call        *)
(* (SpinnersAreServed).                                                    *)
(*                                                                         *)
(* The inductive invariant says what a call in flight is about.  A place    *)
(* that is not raced waits for one call at most, that call asks what the    *)
(* fields ask now, or what was opened last, and a search field it comes     *)
(* from is not empty; the promise of the map's layout is never asked for    *)
(* without its call.                                                       *)
(***************************************************************************)
EXTENDS MobileApp, TLAPS, FiniteSetTheorems

Kinds == {"me", "login", "wrong", "logout", "show", "layout"}
Answers == {"none", "ok", "refused", "failed"}
Asks == [term : Terms \cup Names \cup {""}, filter : Filters]
Views == {"list", "detail", "year"}
Contents == [is : {"blank", "prompt", "skeleton", "error", "answer"}, of : Asks]
Calls == [n : 1 .. MaxCalls, kind : Kinds, at : Places, ask : Asks, token : Nat,
          answer : Answers, gives : Nat]
(* The types; every call in flight has a number of its own, and no more      *)
(* than MaxCalls of them are in flight.                                     *)
PageTypes ==
  /\ screen \in {"login", "main"} /\ wired \in BOOLEAN /\ tab \in Tabs
  /\ view \in [Tabs -> Views] /\ back \in Views
  /\ field \in [Tabs -> Asks] /\ timers \subseteq Tabs
  /\ shown \in [Places -> Contents] /\ opened \in [Places -> Asks]
  /\ once \subseteq Tabs
  /\ map \in {"none", "spinner", "shown"} /\ layout \in {"none", "asked", "have"}
  /\ raced \subseteq Places /\ refused \subseteq Places
ServiceTypes ==
  /\ sessions \subseteq 1 .. issued /\ issued \in Nat /\ fails \in Nat
CallTypes ==
  /\ calls \subseteq Calls /\ stored \in Nat /\ IsFiniteSet(calls)
  /\ \A c, d \in calls : c.n = d.n => c = d
TypeOK == work \in Works /\ PageTypes /\ ServiceTypes /\ CallTypes

(* What a place asks that was loaded last, and whether its fields are still. *)
AskOf(p) == IF p \in Lists THEN field[p[1]] ELSE opened[p]
AtRest(p) == p \in Lists => p[1] \notin timers
Empty(p) == p \in Lists /\ p[1] \in Searched /\ field[p[1]].term = ""

(* A place waits for the answer to what it asks, and for nothing else; once   *)
(* nothing is on its way it shows that answer; its skeleton is waited for.   *)
AskedOnce(p) ==
  p \notin raced => \A c \in Pending(p) :
    /\ \A d \in Pending(p) : d = c
    /\ AtRest(p) => c.ask = AskOf(p) /\ ~Empty(p)
Settled(p) ==
  /\ shown[p].is \in {"prompt", "answer"} /\ p \notin raced \cup refused
  /\ AtRest(p) /\ Pending(p) = {}
  => shown[p] = IF Empty(p) THEN Prompt ELSE Answer(AskOf(p))
Served(p) == shown[p].is = "skeleton" => p \in refused \/ Pending(p) # {}
PlaceInv(p) == AskedOnce(p) /\ Settled(p) /\ Served(p)
MapInv ==
  /\ layout = "asked" => \E c \in calls : c.kind = "layout"
  /\ map = "spinner" => \E c \in calls : c.kind = "layout"
MobileInv == TypeOK /\ (\A p \in Places : PlaceInv(p)) /\ MapInv
-----------------------------------------------------------------------------
(* The calls in flight.                                                    *)

(* A call that finds room finds a number no other call has.                 *)
LEMMA FreeNumber ==
  ASSUME CallTypes, Room(1), MaxCalls \in Nat
  PROVE  Number \in 1 .. MaxCalls /\ \A c \in calls : c.n # Number
<1>1. Cardinality(calls) < MaxCalls
  BY FS_CardinalityType DEF CallTypes, Room
<1>2. IsFiniteSet(1 .. MaxCalls) /\ Cardinality(1 .. MaxCalls) = MaxCalls
  BY FS_Interval
<1>3. \E n \in 1 .. MaxCalls : \A c \in calls : c.n # n
  <2> SUFFICES ASSUME \A n \in 1 .. MaxCalls : \E c \in calls : c.n = n
               PROVE  FALSE
    OBVIOUS
  <2> DEFINE f == [n \in 1 .. MaxCalls |-> CHOOSE c \in calls : c.n = n]
  <2>1. f \in [1 .. MaxCalls -> calls] /\ \A n \in 1 .. MaxCalls : f[n].n = n
    OBVIOUS
  <2> HIDE DEF f
  <2>2. \E x, y \in 1 .. MaxCalls : x # y /\ f[x] = f[y]
    BY <1>1, <1>2, <2>1, FS_PigeonHole DEF CallTypes
  <2> QED BY <2>1, <2>2
<1> QED BY <1>3 DEF Number

LEMMA CallSent ==
  ASSUME CallTypes, Room(1), MaxCalls \in Nat, NEW d, d \in Calls, d.n = Number,
         calls' = calls \cup {d}, stored' \in Nat
  PROVE  CallTypes'
<1>1. \A c \in calls : c.n # Number  BY FreeNumber
<1>2. IsFiniteSet(calls')  BY FS_AddElement DEF CallTypes
<1> QED BY <1>1, <1>2 DEF CallTypes

LEMMA CallReplaced ==
  ASSUME CallTypes, NEW c \in calls, NEW d, d \in Calls, d.n = c.n,
         calls' = (calls \ {c}) \cup {d}, stored' \in Nat
  PROVE  CallTypes'
<1>1. IsFiniteSet(calls')  BY FS_AddElement, FS_RemoveElement DEF CallTypes
<1> QED BY <1>1 DEF CallTypes

LEMMA CallGone ==
  ASSUME CallTypes, NEW c, calls' = calls \ {c}, stored' \in Nat
  PROVE  CallTypes'
<1>1. IsFiniteSet(calls')  BY FS_RemoveElement DEF CallTypes
<1> QED BY <1>1 DEF CallTypes

-----------------------------------------------------------------------------
(* Types.                                                                  *)
LEMMA Constants == MaxCalls \in Nat \ {0} /\ Nothing \in Asks
  BY MobileOK DEF Nothing, Asks

LEMMA PlacesAre ==
  /\ \A t \in Tabs : <<t, "list">> \in Places \cap Lists /\ <<t, "detail">> \in Places \ Lists
  /\ <<"export", "year">> \in Places \ Lists
  /\ \A p \in Lists : p \in Places /\ p[1] \in Tabs /\ p = <<p[1], "list">>
  /\ Nowhere \in Places
  BY DEF Places, Lists, Tabs, Nowhere

LEMMA NewCall ==
  ASSUME NEW n \in 1 .. MaxCalls, NEW kind \in Kinds, NEW at \in Places, NEW ask \in Asks,
         NEW token \in Nat
  PROVE  /\ Call(n, kind, at, ask, token) \in Calls
         /\ Call(n, kind, at, ask, token).n = n
         /\ Call(n, kind, at, ask, token).kind = kind
         /\ Call(n, kind, at, ask, token).at = at
         /\ Call(n, kind, at, ask, token).ask = ask
  BY DEF Call, Calls, Answers

LEMMA NewErrand ==
  ASSUME NEW n \in 1 .. MaxCalls, NEW kind \in Kinds, NEW token \in Nat
  PROVE  /\ Errand(n, kind, token) \in Calls
         /\ Errand(n, kind, token).n = n
         /\ Errand(n, kind, token).kind = kind
  BY Constants, PlacesAre, NewCall DEF Errand

LEMMA ContentsAre ==
  /\ Blank \in Contents /\ Prompt \in Contents /\ Skeleton \in Contents /\ Sorry \in Contents
  /\ Blank.is = "blank" /\ Prompt.is = "prompt" /\ Skeleton.is = "skeleton" /\ Sorry.is = "error"
  /\ \A a \in Asks : Answer(a) \in Contents /\ Answer(a).is = "answer"
  BY Constants DEF Blank, Prompt, Skeleton, Sorry, Answer, Content, Contents

(* What a load does to the variables it changes.                            *)
LoadTypes == shown' \in [Places -> Contents] /\ raced' \subseteq Places /\ refused' \subseteq Places

LEMMA TypesOfLoad ==
  ASSUME CallTypes, PageTypes, NEW p \in Places, NEW ask \in Asks, Load(p, ask), stored' = stored
  PROVE  LoadTypes /\ CallTypes'
<1>1. Number \in 1 .. MaxCalls  BY FreeNumber, Constants DEF Load
<1>2. CallTypes'
  <2> DEFINE d == Call(Number, "show", p, ask, stored)
  <2>1. d \in Calls /\ d.n = Number  BY <1>1, NewCall DEF Kinds, CallTypes
  <2>2. calls' = calls \cup {d} /\ Room(1)  BY DEF Load
  <2> HIDE DEF d
  <2> QED BY <2>1, <2>2, CallSent, Constants DEF CallTypes
<1> QED BY <1>2, ContentsAre DEF Load, Begins, LoadTypes, PageTypes

LEMMA TypesOfInvite ==
  ASSUME CallTypes, PageTypes, NEW p \in Places, Invite(p), stored' = stored
  PROVE  LoadTypes /\ CallTypes'
  BY ContentsAre DEF Invite, Begins, LoadTypes, PageTypes, CallTypes

(* A tab's list is loaded, or its search field is empty and it invites.      *)
LEMMA LoadTabIs ==
  ASSUME NEW t \in Tabs, NEW f, LoadTab(t, f)
  PROVE  \/ Load(<<t, "list">>, f) /\ ~(t \in Searched /\ f.term = "")
         \/ Invite(<<t, "list">>) /\ t \in Searched /\ f.term = ""
  BY DEF LoadTab, LoadStock, LoadPurchase, LoadExpiry, LoadExport, Tabs, Searched

LEMMA TypesOfLoadTab ==
  ASSUME CallTypes, PageTypes, NEW t \in Tabs, NEW f \in Asks, LoadTab(t, f), stored' = stored
  PROVE  LoadTypes /\ CallTypes'
  BY LoadTabIs, PlacesAre, TypesOfLoad, TypesOfInvite

(* The user's handlers.                                                    *)
LEMMA TypesOfOpen ==
  ASSUME TypeOK, NEW p \in Places, NEW ask \in Asks, Open(p, ask),
         map' \in {"none", "spinner", "shown"}, back' \in Views
  PROVE  TypeOK'
<1>1. LoadTypes /\ CallTypes'  BY TypesOfLoad DEF TypeOK, Open
<1>2. p[2] \in Views /\ p[1] \in Tabs  BY DEF Places, Views, Tabs
<1> QED BY <1>1, <1>2 DEF Open, TypeOK, LoadTypes, PageTypes, ServiceTypes, server

LEMMA TypesOfUser ==
  ASSUME TypeOK, User
  PROVE  TypeOK'
<1> USE Constants
<1>1. ASSUME NEW t \in Tabs, OpenTab(t)  PROVE  TypeOK'
  <2>1. CASE UNCHANGED <<once, shown, calls, raced, refused>>
    BY <1>1, <2>1 DEF OpenTab, TypeOK, PageTypes, ServiceTypes, CallTypes, server
  <2>2. CASE ~UNCHANGED <<once, shown, calls, raced, refused>>
    <3>1. LoadTab(t, field[t]) /\ once' = once \cup {t}  BY <1>1, <2>2 DEF OpenTab
    <3>2. stored' = stored /\ field[t] \in Asks  BY <1>1 DEF OpenTab, TypeOK, PageTypes
    <3>3. LoadTypes /\ CallTypes'  BY <3>1, <3>2, TypesOfLoadTab DEF TypeOK
    <3> QED BY <1>1, <3>1, <3>3 DEF OpenTab, TypeOK, PageTypes, ServiceTypes, LoadTypes, server
  <2> QED BY <2>1, <2>2
<1>2. ASSUME NEW t \in Tabs, Close(t)  PROVE  TypeOK'
  BY <1>2 DEF Close, TypeOK, PageTypes, ServiceTypes, CallTypes, server, Views
<1>3. ASSUME NEW t \in Tabs, NEW x \in Terms \cup {""}, Type(t, x)  PROVE  TypeOK'
  <2>1. [field[t] EXCEPT !.term = x] \in Asks  BY DEF TypeOK, PageTypes, Asks
  <2>2. field' \in [Tabs -> Asks]
    BY <1>3, <2>1 DEF Type, TypeOK, PageTypes
  <2> QED BY <1>3, <2>2 DEF Type, TypeOK, PageTypes, ServiceTypes, CallTypes, server
<1>4. ASSUME NEW t \in Tabs, NEW f \in Filters, Filter(t, f)  PROVE  TypeOK'
  <2>1. [field[t] EXCEPT !.filter = f] \in Asks  BY DEF TypeOK, PageTypes, Asks
  <2>2. field' \in [Tabs -> Asks]
    BY <1>4, <2>1 DEF Filter, TypeOK, PageTypes
  <2>3. LoadTab(t, field'[t]) /\ stored' = stored  BY <1>4 DEF Filter
  <2>4. field'[t] \in Asks  BY <2>2
  <2>5. LoadTypes /\ CallTypes'  BY <2>3, <2>4, TypesOfLoadTab DEF TypeOK
  <2> QED BY <1>4, <2>2, <2>5 DEF Filter, TypeOK, PageTypes, ServiceTypes, LoadTypes, server
<1>5. ASSUME NEW x \in work.names,
             \/ OpenStock(x) \/ OpenExpiry(x) \/ OpenPurchase(x)
             \/ \E part \in {"list", "year"} : OpenExport(x, part)
      PROVE  TypeOK'
  <2>1. x \in Names  BY MobileOK DEF TypeOK
  <2>2. /\ [Nothing EXCEPT !.term = x] \in Asks
        /\ \A t \in Tabs : [field[t] EXCEPT !.term = x] \in Asks
    BY <2>1 DEF TypeOK, PageTypes, Asks
  <2>3. map' \in {"none", "spinner", "shown"} /\ back' \in Views
    BY <1>5 DEF OpenStock, OpenExpiry, OpenPurchase, OpenExport, TypeOK, PageTypes, Views
  <2>4. \E p \in Places, ask \in Asks : Open(p, ask)
    <3>1. /\ <<"stock", "detail">> \in Places /\ <<"expiry", "detail">> \in Places
          /\ <<"purchase", "detail">> \in Places /\ <<"export", "detail">> \in Places
          /\ "expiry" \in Tabs /\ "purchase" \in Tabs
      BY DEF Places, Tabs
    <3> QED BY <1>5, <2>2, <3>1 DEF OpenStock, OpenExpiry, OpenPurchase, OpenExport
  <2> QED BY <2>3, <2>4, TypesOfOpen
<1>6. ASSUME OpenYear  PROVE  TypeOK'
  <2>1. field["export"] \in Asks  BY DEF TypeOK, PageTypes, Tabs
  <2>2. map' \in {"none", "spinner", "shown"} /\ back' \in Views
    BY <1>6 DEF OpenYear, TypeOK, PageTypes
  <2>3. Open(<<"export", "year">>, field["export"])  BY <1>6 DEF OpenYear
  <2> QED BY <2>1, <2>2, <2>3, PlacesAre, TypesOfOpen
<1>7. ASSUME Boot  PROVE  TypeOK'
  <2>1. Errand(1, "me", stored) \in Calls  BY NewErrand DEF TypeOK, CallTypes, Kinds
  <2>2. CallTypes'  BY <1>7, <2>1, FS_EmptySet, FS_Singleton DEF Boot, TypeOK, CallTypes
  <2>3. PageTypes'  BY <1>7, ContentsAre DEF Boot, Fresh, PageTypes, Tabs, Views
  <2> QED BY <1>7, <2>2, <2>3 DEF Boot, TypeOK, ServiceTypes, server
<1>8. ASSUME NEW kind \in {"login", "wrong", "logout"}, NEW token \in Nat,
             calls' = calls \cup {Errand(Number, kind, token)}, Room(1),
             UNCHANGED <<work, client, server>>
      PROVE  TypeOK'
  <2>1. Number \in 1 .. MaxCalls  BY <1>8, FreeNumber DEF TypeOK
  <2> DEFINE d == Errand(Number, kind, token)
  <2>2. d \in Calls /\ d.n = Number  BY <2>1, NewErrand DEF Kinds
  <2>3. calls' = calls \cup {d}  BY <1>8
  <2> HIDE DEF d
  <2>4. CallTypes'  BY <1>8, <2>2, <2>3, CallSent DEF TypeOK, CallTypes, client
  <2> QED BY <1>8, <2>4 DEF TypeOK, PageTypes, ServiceTypes, client, server
<1>9. ASSUME SendLogout  PROVE  TypeOK'
  BY <1>9, <1>8 DEF SendLogout, TypeOK, CallTypes
<1>10. ASSUME NEW right \in BOOLEAN, SendLogin(right)  PROVE  TypeOK'
  BY <1>10, <1>8 DEF SendLogin
<1> QED BY <1>1, <1>2, <1>3, <1>4, <1>5, <1>6, <1>7, <1>9, <1>10 DEF User

(* The service and the network: a call keeps what it asks.                   *)
LEMMA AnswerGiven ==
  ASSUME CallTypes, NEW c \in calls, NEW a \in Answers, NEW token \in Nat, Answered(c, a, token),
         stored' = stored
  PROVE  /\ CallTypes'
         /\ \E d : /\ calls' = (calls \ {c}) \cup {d}
                   /\ d.kind = c.kind /\ d.at = c.at /\ d.ask = c.ask
<1> DEFINE d == [c EXCEPT !.answer = a, !.gives = token]
<1>1. calls' = (calls \ {c}) \cup {d}  BY DEF Answered
<1>2. c \in Calls  BY DEF CallTypes
<1>3. /\ d \in Calls /\ d.n = c.n
      /\ d.kind = c.kind /\ d.at = c.at /\ d.ask = c.ask
  BY <1>2 DEF Calls
<1> HIDE DEF d
<1>4. CallTypes'  BY <1>1, <1>3, CallReplaced DEF CallTypes
<1> QED BY <1>1, <1>3, <1>4

LEMMA ServeAnswers ==
  ASSUME TypeOK, NEW c \in calls, Serve(c) \/ Fail(c)
  PROVE  \E a \in Answers, token \in Nat : Answered(c, a, token)
<1>1. CASE Fail(c)  BY <1>1 DEF Fail, Answers
<1>2. CASE Serve(c) /\ ServeUser(c)  BY <1>2 DEF ServeUser, Answers
<1>3. CASE Serve(c) /\ ServeLogin(c)
  BY <1>3 DEF ServeLogin, Answers, TypeOK, ServiceTypes
<1>4. CASE Serve(c) /\ ServeLogout(c)  BY <1>4 DEF ServeLogout, Answers
<1> QED BY <1>1, <1>2, <1>3, <1>4 DEF Serve

LEMMA TypesOfService ==
  ASSUME TypeOK, NEW c \in calls, Serve(c) \/ Fail(c)
  PROVE  TypeOK'
<1>1. UNCHANGED <<work, client>>  BY DEF Serve, Fail
<1>2. CallTypes'  BY <1>1, ServeAnswers, AnswerGiven DEF TypeOK, client
<1>3. PageTypes'  BY <1>1 DEF TypeOK, PageTypes, client
<1>4. ServiceTypes'
  <2>1. CASE Fail(c) \/ ServeUser(c)
    BY <2>1 DEF Fail, ServeUser, server, TypeOK, ServiceTypes
  <2>2. CASE ServeLogin(c)
    <3>1. CASE UNCHANGED server  BY <3>1 DEF server, TypeOK, ServiceTypes
    <3>2. CASE fails' = fails + 1 /\ UNCHANGED <<sessions, issued>>
      BY <3>2 DEF TypeOK, ServiceTypes
    <3>3. CASE issued' = issued + 1 /\ sessions' = sessions \cup {issued'} /\ UNCHANGED fails
      BY <3>3 DEF TypeOK, ServiceTypes
    <3> QED BY <2>2, <3>1, <3>2, <3>3 DEF ServeLogin
  <2>3. CASE ServeLogout(c)
    BY <2>3 DEF ServeLogout, server, TypeOK, ServiceTypes
  <2> QED BY <2>1, <2>2, <2>3 DEF Serve
<1> QED BY <1>1, <1>2, <1>3, <1>4 DEF TypeOK

(* The answers: a call is gone, or its number goes on with the next call.    *)
LEMMA TypesOfArrival ==
  ASSUME TypeOK, NEW c \in calls, Arrive(c)
  PROVE  TypeOK'
<1> USE Constants
<1>0. c \in Calls /\ c.at \in Places /\ c.ask \in Asks /\ c.n \in 1 .. MaxCalls /\ c.gives \in Nat
  BY DEF TypeOK, CallTypes, Calls
<1>1. work' = work /\ ServiceTypes'  BY DEF Arrive, TypeOK, ServiceTypes, server
<1>2. ASSUME Done(c), stored' \in Nat  PROVE  CallTypes'
  BY <1>2, CallGone DEF Done, TypeOK
<1>3. CASE Refused(c)
  <2>1. PageTypes'  BY <1>0, <1>3 DEF Refused, TypeOK, PageTypes
  <2>2. CallTypes'  BY <1>2, <1>3 DEF Refused
  <2> QED BY <1>1, <2>1, <2>2 DEF TypeOK
<1>4. CASE Apology(c)
  <2>1. PageTypes'  BY <1>4, ContentsAre DEF Apology, TypeOK, PageTypes
  <2>2. CallTypes'  BY <1>2, <1>4 DEF Apology, TypeOK, CallTypes
  <2> QED BY <1>1, <2>1, <2>2 DEF TypeOK
<1>5. CASE Draw(c)
  <2>1. PageTypes'  BY <1>0, <1>5, ContentsAre DEF Draw, TypeOK, PageTypes
  <2>2. CallTypes'  BY <1>2, <1>5 DEF Draw, TypeOK, CallTypes
  <2> QED BY <1>1, <2>1, <2>2 DEF TypeOK
<1>6. CASE DrawStock(c)
  <2>1. PageTypes'  BY <1>0, <1>6, ContentsAre DEF DrawStock, TypeOK, PageTypes
  <2>2. CallTypes'
    <3>1. CASE layout = "none"
      <4> DEFINE d == Errand(c.n, "layout", stored)
      <4>1. d \in Calls /\ d.n = c.n  BY <1>0, NewErrand DEF Kinds, TypeOK, CallTypes
      <4>2. calls' = (calls \ {c}) \cup {d} /\ stored' = stored  BY <1>6, <3>1 DEF DrawStock
      <4> HIDE DEF d
      <4> QED BY <4>1, <4>2, CallReplaced DEF TypeOK, CallTypes
    <3>2. CASE layout # "none"
      <4>1. calls' = calls \ {c} /\ stored' = stored  BY <1>6, <3>2 DEF DrawStock
      <4> QED BY <4>1, CallGone DEF TypeOK, CallTypes
    <3> QED BY <3>1, <3>2
  <2> QED BY <1>1, <2>1, <2>2 DEF TypeOK
<1>7. CASE DrawMap(c)
  <2>1. PageTypes'
    <3>1. MapDrawn(c) \in {"none", "spinner", "shown"}  BY DEF MapDrawn, TypeOK, PageTypes
    <3> QED BY <1>7, <3>1 DEF DrawMap, TypeOK, PageTypes
  <2>2. CallTypes'  BY <1>2, <1>7 DEF DrawMap, TypeOK, CallTypes
  <2> QED BY <1>1, <2>1, <2>2 DEF TypeOK
<1>8. CASE Booted(c)
  <2>1. PageTypes'  BY <1>8 DEF Booted, TypeOK, PageTypes
  <2>2. CallTypes'  BY <1>2, <1>8 DEF Booted, TypeOK, CallTypes
  <2> QED BY <1>1, <2>1, <2>2 DEF TypeOK
<1>9. CASE LoggedIn(c)
  <2> DEFINE f == field["stock"]
             p == <<"stock", "list">>
             d == Call(c.n, "show", p, f, c.gives)
  <2>1. f \in Asks /\ p \in Places /\ "stock" \in Tabs
    BY PlacesAre DEF TypeOK, PageTypes, Tabs
  <2>2. stored' = c.gives /\ stored' \in Nat  BY <1>0, <1>9 DEF LoggedIn
  <2>3. CallTypes'
    <3>1. CASE f.term = ""  BY <1>2, <1>9, <2>2, <3>1 DEF LoggedIn
    <3>2. CASE f.term # ""
      <4> HIDE DEF f, p
      <4>0. "show" \in Kinds  BY DEF Kinds
      <4>1. d \in Calls /\ d.n = c.n  BY <1>0, <2>1, <4>0, NewCall
      <4>2. calls' = (calls \ {c}) \cup {d}  BY <1>9, <3>2 DEF LoggedIn, f, p
      <4> HIDE DEF d
      <4> QED BY <2>2, <4>1, <4>2, CallReplaced DEF TypeOK
    <3> QED BY <3>1, <3>2
  <2>4. PageTypes'
    <3>1. /\ shown' \in [Places -> Contents]
          /\ raced' \subseteq Places /\ refused' \subseteq Places
      BY <1>9, <2>1, ContentsAre DEF LoggedIn, Begins, TypeOK, PageTypes
    <3> HIDE DEF f, p, d
    <3> QED BY <1>9, <3>1 DEF LoggedIn, TypeOK, PageTypes
  <2> QED BY <1>1, <2>3, <2>4 DEF TypeOK
<1>10. CASE LoginRefused(c)
  <2>1. PageTypes' /\ stored' = stored  BY <1>10 DEF LoginRefused, TypeOK, PageTypes, client
  <2>2. CallTypes'  BY <1>2, <1>10, <2>1 DEF LoginRefused, TypeOK, CallTypes
  <2> QED BY <1>1, <2>1, <2>2 DEF TypeOK
<1>11. CASE LoggedOut(c)
  <2>1. PageTypes'  BY <1>11 DEF LoggedOut, TypeOK, PageTypes
  <2>2. CallTypes'  BY <1>2, <1>11 DEF LoggedOut
  <2> QED BY <1>1, <2>1, <2>2 DEF TypeOK
<1> QED BY <1>3, <1>4, <1>5, <1>6, <1>7, <1>8, <1>9, <1>10, <1>11 DEF Arrive

LEMMA TypesStep ==
  ASSUME TypeOK, [Next]_vars
  PROVE  TypeOK'
<1>1. CASE User  BY <1>1, TypesOfUser
<1>2. CASE Network  BY <1>2, TypesOfService, TypesOfArrival DEF Network
<1>3. CASE Forget
  BY <1>3 DEF Forget, client, TypeOK, PageTypes, ServiceTypes, CallTypes
<1>4. ASSUME NEW t \in Tabs, TimerFires(t)  PROVE  TypeOK'
  <2>1. LoadTab(t, field[t]) /\ stored' = stored  BY <1>4 DEF TimerFires
  <2>2. field[t] \in Asks  BY DEF TypeOK, PageTypes
  <2>3. LoadTypes /\ CallTypes'  BY <2>1, <2>2, TypesOfLoadTab DEF TypeOK
  <2> QED BY <1>4, <2>3 DEF TimerFires, TypeOK, PageTypes, ServiceTypes, LoadTypes, server
<1>5. ASSUME NEW s \in sessions, Expire(s)  PROVE  TypeOK'
  BY <1>5 DEF Expire, client, TypeOK, PageTypes, ServiceTypes, CallTypes
<1>6. CASE UNCHANGED vars
  BY <1>6 DEF vars, client, server, TypeOK, PageTypes, ServiceTypes, CallTypes
<1> QED BY <1>1, <1>2, <1>3, <1>4, <1>5, <1>6 DEF Next

-----------------------------------------------------------------------------
(* The places.                                                             *)

(* Nothing a place depends on moves, except that a timer may be over.        *)
Quiet(p) ==
  /\ AskOf(p)' = AskOf(p) /\ (Empty(p)' <=> Empty(p))
  /\ AtRest(p)' => AtRest(p)
Undrawn(p) ==
  /\ shown'[p] = shown[p]
  /\ p \in raced' <=> p \in raced
  /\ p \in refused' <=> p \in refused

LEMMA QuietPlace ==
  ASSUME NEW p \in Places, PlaceInv(p), Quiet(p), Undrawn(p), Pending(p)' = Pending(p)
  PROVE  PlaceInv(p)'
<1> USE DEF Quiet, Undrawn
<1>1. AskedOnce(p)'  BY DEF PlaceInv, AskedOnce
<1>2. Settled(p)'  BY DEF PlaceInv, Settled
<1>3. Served(p)'  BY DEF PlaceInv, Served
<1> QED BY <1>1, <1>2, <1>3 DEF PlaceInv

(* A load begins: the place waits for the new call, alone unless it is raced. *)
LEMMA LoadedPlace ==
  ASSUME NEW p \in Places, NEW d, shown'[p] = Skeleton, Begins(p), Pending(p)' = Pending(p) \cup {d},
         AtRest(p)' => d.ask = AskOf(p)' /\ ~Empty(p)'
  PROVE  PlaceInv(p)'
<1>1. AskedOnce(p)'  BY DEF Begins, AskedOnce
<1>2. Settled(p)'  BY ContentsAre DEF Settled
<1>3. Served(p)'  BY DEF Served
<1> QED BY <1>1, <1>2, <1>3 DEF PlaceInv

LEMMA InvitedPlace ==
  ASSUME NEW p \in Places, shown'[p] = Prompt, Begins(p), Pending(p)' = Pending(p),
         AtRest(p)' => Empty(p)'
  PROVE  PlaceInv(p)'
<1>1. AskedOnce(p)'  BY DEF Begins, AskedOnce
<1>2. Settled(p)'  BY DEF Settled
<1>3. Served(p)'  BY ContentsAre DEF Served
<1> QED BY <1>1, <1>2, <1>3 DEF PlaceInv

(* An answer, or an apology, is drawn where it was asked for.                *)
LEMMA DrawnPlace ==
  ASSUME TypeOK, NEW p \in Places, PlaceInv(p), Quiet(p), NEW c \in Pending(p),
         Pending(p)' = Pending(p) \ {c},
         shown'[p] = Answer(c.ask) \/ shown'[p] = Sorry,
         refused' = refused \ {p}, raced' = raced
  PROVE  PlaceInv(p)'
<1>0. c.ask \in Asks  BY DEF Pending, TypeOK, CallTypes, Calls
<1>1. AskedOnce(p)'  BY DEF PlaceInv, AskedOnce, Quiet
<1>2. Settled(p)'
  <2>1. SUFFICES ASSUME p \notin raced, AtRest(p)', shown'[p] # Sorry
                 PROVE  shown'[p] = IF Empty(p)' THEN Prompt ELSE Answer(AskOf(p)')
    BY ContentsAre DEF Settled
  <2>2. c.ask = AskOf(p) /\ ~Empty(p)
    BY <2>1 DEF PlaceInv, AskedOnce, Quiet
  <2> QED BY <2>1, <2>2 DEF Quiet
<1>3. Served(p)'  BY <1>0, ContentsAre DEF Served
<1> QED BY <1>1, <1>2, <1>3 DEF PlaceInv

(* A load is answered 401: its place keeps the skeleton.                     *)
LEMMA RefusedPlace ==
  ASSUME NEW p \in Places, PlaceInv(p), Quiet(p), NEW c \in Pending(p),
         Pending(p)' = Pending(p) \ {c},
         shown' = shown, refused' = refused \cup {p}, raced' = raced
  PROVE  PlaceInv(p)'
<1>1. AskedOnce(p)'  BY DEF PlaceInv, AskedOnce, Quiet
<1>2. Settled(p)'  BY DEF Settled
<1>3. Served(p)'  BY DEF Served
<1> QED BY <1>1, <1>2, <1>3 DEF PlaceInv

(* A call is swapped for another of the same place that asks the same.       *)
LEMMA ServedPlace ==
  ASSUME NEW p \in Places, PlaceInv(p), Quiet(p), Undrawn(p), NEW c, NEW d,
         calls' = (calls \ {c}) \cup {d}, c \in calls,
         d.kind = c.kind, d.at = c.at, d.ask = c.ask
  PROVE  PlaceInv(p)'
<1>1. CASE c \notin Pending(p)
  <2>1. Pending(p)' = Pending(p)  BY <1>1 DEF Pending
  <2> QED BY <2>1, QuietPlace
<1>2. CASE c \in Pending(p)
  <2>1. Pending(p)' = (Pending(p) \ {c}) \cup {d}  BY <1>2 DEF Pending
  <2>2. AskedOnce(p)'  BY <1>2, <2>1 DEF PlaceInv, AskedOnce, Quiet, Undrawn
  <2>3. Settled(p)'  BY <2>1 DEF Settled
  <2>4. Served(p)'  BY <2>1 DEF Served
  <2> QED BY <2>2, <2>3, <2>4 DEF PlaceInv
<1> QED BY <1>1, <1>2

-----------------------------------------------------------------------------
(* Steps of the page.                                                      *)
Placed == \A p \in Places : PlaceInv(p)
OthersQuiet(p) == \A q \in Places \ {p} : Quiet(q)

LEMMA StepOfLoad ==
  ASSUME TypeOK, Placed, NEW p \in Places, NEW ask, Load(p, ask), OthersQuiet(p),
         AtRest(p)' => ask = AskOf(p)' /\ ~Empty(p)'
  PROVE  Placed'
<1> DEFINE d == Call(Number, "show", p, ask, stored)
<1>1. d.kind = "show" /\ d.at = p /\ d.ask = ask  BY DEF Call
<1>2. calls' = calls \cup {d} /\ shown' = [shown EXCEPT ![p] = Skeleton] /\ Begins(p)
  BY DEF Load
<1> HIDE DEF d
<1>3. Pending(p)' = Pending(p) \cup {d}  BY <1>1, <1>2 DEF Pending
<1>4. PlaceInv(p)'
  <2>1. shown'[p] = Skeleton  BY <1>2 DEF TypeOK, PageTypes
  <2> QED BY <1>1, <1>2, <1>3, <2>1, LoadedPlace
<1>5. ASSUME NEW q \in Places \ {p}  PROVE  PlaceInv(q)'
  <2>1. Pending(q)' = Pending(q)  BY <1>1, <1>2 DEF Pending
  <2>2. Undrawn(q)  BY <1>2 DEF Undrawn, Begins
  <2> QED BY <2>1, <2>2, QuietPlace DEF Placed, OthersQuiet
<1> QED BY <1>4, <1>5 DEF Placed

LEMMA StepOfInvite ==
  ASSUME TypeOK, Placed, NEW p \in Places, Invite(p), OthersQuiet(p), AtRest(p)' => Empty(p)'
  PROVE  Placed'
<1>1. \A q \in Places : Pending(q)' = Pending(q)  BY DEF Invite, Pending
<1>2. PlaceInv(p)'
  <2>1. shown'[p] = Prompt /\ Begins(p)  BY DEF Invite, TypeOK, PageTypes
  <2> QED BY <1>1, <2>1, InvitedPlace
<1>3. ASSUME NEW q \in Places \ {p}  PROVE  PlaceInv(q)'
  <2>1. Undrawn(q)  BY DEF Undrawn, Invite, Begins
  <2> QED BY <1>1, <2>1, QuietPlace DEF Placed, OthersQuiet
<1> QED BY <1>2, <1>3 DEF Placed

(* Neither the places nor their calls change.                               *)
LEMMA StepOfNothing ==
  ASSUME Placed, \A p \in Places : Quiet(p), UNCHANGED <<shown, raced, refused>>,
         \A p \in Places : Pending(p)' = Pending(p)
  PROVE  Placed'
<1>1. ASSUME NEW p \in Places  PROVE  PlaceInv(p)'
  <2>1. Undrawn(p)  BY DEF Undrawn
  <2> QED BY <2>1, QuietPlace DEF Placed
<1> QED BY <1>1 DEF Placed

LEMMA QuietPage ==
  ASSUME UNCHANGED <<field, opened>>, timers \subseteq timers'
  PROVE  \A p \in Places : Quiet(p)
  BY DEF Quiet, AskOf, AtRest, Empty

(* A tab's list is loaded with what its fields hold from now on.             *)
LEMMA StepOfLoadTab ==
  ASSUME TypeOK, Placed, NEW t \in Tabs, NEW f \in Asks, LoadTab(t, f), f = field'[t],
         OthersQuiet(<<t, "list">>)
  PROVE  Placed'
<1> DEFINE p == <<t, "list">>
<1>1. p \in Places /\ p \in Lists /\ p[1] = t  BY PlacesAre
<1>2. AskOf(p)' = f /\ (Empty(p)' <=> t \in Searched /\ f.term = "")
  BY <1>1 DEF AskOf, Empty
<1>3. \/ Load(p, f) /\ ~(t \in Searched /\ f.term = "")
      \/ Invite(p) /\ t \in Searched /\ f.term = ""
  BY LoadTabIs
<1>4. OthersQuiet(p)  OBVIOUS
<1> HIDE DEF p
<1> QED BY <1>1, <1>2, <1>3, <1>4, StepOfLoad, StepOfInvite

LEMMA PlacesAfterOpen ==
  ASSUME TypeOK, Placed, NEW p \in Places \ Lists, NEW ask, Open(p, ask)
  PROVE  Placed'
<1>1. AskOf(p)' = ask /\ ~Empty(p)'
  BY DEF Open, AskOf, Empty, TypeOK, PageTypes
<1>2. OthersQuiet(p)
  BY DEF Open, OthersQuiet, Quiet, AskOf, AtRest, Empty, TypeOK, PageTypes
<1> QED BY <1>1, <1>2, StepOfLoad DEF Open

LEMMA PlacesAfterUser ==
  ASSUME TypeOK, Placed, User
  PROVE  Placed'
<1>1. ASSUME NEW t \in Tabs, OpenTab(t)  PROVE  Placed'
  <2>1. \A p \in Places : Quiet(p)  BY <1>1, QuietPage DEF OpenTab
  <2>2. CASE UNCHANGED <<once, shown, calls, raced, refused>>
    BY <2>1, <2>2, StepOfNothing DEF Pending
  <2>3. CASE ~UNCHANGED <<once, shown, calls, raced, refused>>
    <3>1. LoadTab(t, field[t]) /\ field' = field  BY <1>1, <2>3 DEF OpenTab
    <3>2. field[t] \in Asks  BY DEF TypeOK, PageTypes
    <3>3. OthersQuiet(<<t, "list">>)  BY <2>1 DEF OthersQuiet
    <3> QED BY <3>1, <3>2, <3>3, StepOfLoadTab
  <2> QED BY <2>2, <2>3
<1>2. ASSUME NEW t \in Tabs, Close(t)  PROVE  Placed'
  BY <1>2, QuietPage, StepOfNothing DEF Close, Pending
<1>3. ASSUME NEW t \in Tabs, NEW x \in Terms \cup {""}, Type(t, x)  PROVE  Placed'
  <2>1. ASSUME NEW p \in Places  PROVE  Quiet(p) \/ p = <<t, "list">>
    BY <1>3, PlacesAre DEF Type, Quiet, AskOf, AtRest, Empty, TypeOK, PageTypes
  <2>2. <<t, "list">> \in Lists /\ ~AtRest(<<t, "list">>)'
    BY <1>3, PlacesAre DEF Type, AtRest
  <2>3. PlaceInv(<<t, "list">>)'
    <3> DEFINE p == <<t, "list">>
    <3>1. PlaceInv(p) /\ ~AtRest(p)' /\ Pending(p)' = Pending(p) /\ UNCHANGED <<shown, raced, refused>>
      BY <1>3, <2>2, PlacesAre DEF Placed, Type, Pending
    <3> HIDE DEF p
    <3>2. AskedOnce(p)' /\ Settled(p)' /\ Served(p)'
      BY <3>1 DEF PlaceInv, AskedOnce, Settled, Served
    <3> QED BY <3>2 DEF PlaceInv, p
  <2>4. ASSUME NEW p \in Places, Quiet(p)  PROVE  PlaceInv(p)'
    <3>1. Undrawn(p) /\ Pending(p)' = Pending(p)  BY <1>3 DEF Undrawn, Type, Pending
    <3> QED BY <2>4, <3>1, QuietPlace DEF Placed
  <2> QED BY <2>1, <2>3, <2>4 DEF Placed
<1>4. ASSUME NEW t \in Tabs, NEW f \in Filters, Filter(t, f)  PROVE  Placed'
  <2>1. [field[t] EXCEPT !.filter = f] \in Asks  BY DEF TypeOK, PageTypes, Asks
  <2>2. field'[t] \in Asks /\ LoadTab(t, field'[t])
    BY <1>4, <2>1 DEF Filter, TypeOK, PageTypes
  <2>3. OthersQuiet(<<t, "list">>)
    BY <1>4, PlacesAre DEF Filter, OthersQuiet, Quiet, AskOf, AtRest, Empty, TypeOK, PageTypes
  <2> QED BY <2>2, <2>3, StepOfLoadTab
<1>5. ASSUME NEW x \in work.names,
             \/ OpenStock(x) \/ OpenExpiry(x) \/ OpenPurchase(x)
             \/ \E part \in {"list", "year"} : OpenExport(x, part)
      PROVE  Placed'
  <2>1. \E p \in Places \ Lists : \E ask : Open(p, ask)
    <3>1. \A t \in Tabs : <<t, "detail">> \in Places \ Lists  BY PlacesAre
    <3>2. /\ "stock" \in Tabs /\ "expiry" \in Tabs /\ "purchase" \in Tabs /\ "export" \in Tabs
      BY DEF Tabs
    <3> QED BY <1>5, <3>1, <3>2 DEF OpenStock, OpenExpiry, OpenPurchase, OpenExport
  <2> QED BY <2>1, PlacesAfterOpen
<1>6. ASSUME OpenYear  PROVE  Placed'
  BY <1>6, PlacesAre, PlacesAfterOpen DEF OpenYear
<1>7. ASSUME Boot  PROVE  Placed'
  <2>1. \A p \in Places : Pending(p)' = {}
    BY <1>7 DEF Boot, Pending, Errand, Call
  <2>2. ASSUME NEW p \in Places  PROVE  PlaceInv(p)'
    <3>1. shown'[p].is = "blank"  BY <1>7, ContentsAre DEF Boot, Fresh
    <3> QED BY <2>1, <3>1 DEF PlaceInv, AskedOnce, Settled, Served
  <2> QED BY <2>2 DEF Placed
<1>8. ASSUME NEW kind \in {"login", "wrong", "logout"}, NEW token,
             calls' = calls \cup {Errand(Number, kind, token)}, UNCHANGED client
      PROVE  Placed'
  <2>1. \A p \in Places : Pending(p)' = Pending(p)
    BY <1>8 DEF Pending, Errand, Call
  <2> QED BY <1>8, <2>1, QuietPage, StepOfNothing DEF client
<1>9. ASSUME SendLogout  PROVE  Placed'
  BY <1>9, <1>8 DEF SendLogout
<1>10. ASSUME NEW right \in BOOLEAN, SendLogin(right)  PROVE  Placed'
  BY <1>10, <1>8 DEF SendLogin
<1> QED BY <1>1, <1>2, <1>3, <1>4, <1>5, <1>6, <1>7, <1>9, <1>10 DEF User

LEMMA PlacesAfterService ==
  ASSUME TypeOK, Placed, NEW c \in calls, Serve(c) \/ Fail(c)
  PROVE  Placed'
<1>1. UNCHANGED client  BY DEF Serve, Fail
<1>2. PICK a \in Answers, token \in Nat : Answered(c, a, token)  BY ServeAnswers
<1>3. PICK d : /\ calls' = (calls \ {c}) \cup {d}
               /\ d.kind = c.kind /\ d.at = c.at /\ d.ask = c.ask
  BY <1>1, <1>2, AnswerGiven DEF TypeOK, client
<1>4. \A p \in Places : Quiet(p)  BY <1>1, QuietPage DEF client
<1>5. ASSUME NEW p \in Places  PROVE  PlaceInv(p)'
  <2>1. Undrawn(p)  BY <1>1 DEF Undrawn, client
  <2> QED BY <1>3, <1>4, <2>1, ServedPlace DEF Placed
<1> QED BY <1>5 DEF Placed

(* The answer x of a load is drawn, or its apology.                         *)
LEMMA StepOfDraw ==
  ASSUME TypeOK, Placed, NEW c \in calls, c.kind = "show", \A p \in Places : Quiet(p),
         NEW x, x = Answer(c.ask) \/ x = Sorry, shown' = [shown EXCEPT ![c.at] = x],
         refused' = refused \ {c.at}, raced' = raced,
         \A p \in Places : Pending(p)' = Pending(p) \ {c}
  PROVE  Placed'
<1>1. c.at \in Places /\ c \in Pending(c.at)
  BY DEF TypeOK, CallTypes, Calls, Pending
<1>2. PlaceInv(c.at)'
  <2>1. shown'[c.at] = x  BY <1>1 DEF TypeOK, PageTypes
  <2> QED BY <1>1, <2>1, DrawnPlace DEF Placed
<1>3. ASSUME NEW q \in Places \ {c.at}  PROVE  PlaceInv(q)'
  <2>1. Undrawn(q) /\ Pending(q)' = Pending(q)  BY DEF Undrawn, Pending
  <2> QED BY <2>1, QuietPlace DEF Placed
<1> QED BY <1>2, <1>3 DEF Placed

LEMMA PlacesAfterArrival ==
  ASSUME TypeOK, Placed, NEW c \in calls, Arrive(c)
  PROVE  Placed'
<1>1. \A p \in Places : Quiet(p)
  <2>1. UNCHANGED <<field, opened, timers>>
    BY DEF Arrive, Refused, Apology, Draw, DrawStock, DrawMap, Booted, LoggedIn, LoginRefused,
           LoggedOut, client
  <2> QED BY <2>1, QuietPage
<1>2. ASSUME Done(c)  PROVE  \A p \in Places : Pending(p)' = Pending(p) \ {c}
  BY <1>2 DEF Done, Pending
<1>3. ASSUME Done(c), c.kind # "show", UNCHANGED <<shown, raced, refused>>
      PROVE  Placed'
  <2>1. \A p \in Places : Pending(p)' = Pending(p)  BY <1>3 DEF Done, Pending
  <2> QED BY <1>1, <1>3, <2>1, StepOfNothing
<1>4. CASE Refused(c) /\ c.kind # "show"
  BY <1>3, <1>4 DEF Refused
<1>5. CASE Refused(c) /\ c.kind = "show"
  <2>1. c.at \in Places /\ c \in Pending(c.at)
    BY <1>5 DEF TypeOK, CallTypes, Calls, Pending
  <2>2. shown' = shown /\ raced' = raced /\ refused' = refused \cup {c.at} /\ Done(c)
    BY <1>5 DEF Refused
  <2>3. PlaceInv(c.at)'  BY <1>1, <1>2, <2>1, <2>2, RefusedPlace DEF Placed
  <2>4. ASSUME NEW q \in Places \ {c.at}  PROVE  PlaceInv(q)'
    <3>1. Undrawn(q) /\ Pending(q)' = Pending(q)  BY <1>2, <2>2 DEF Undrawn, Pending
    <3> QED BY <1>1, <3>1, QuietPlace DEF Placed
  <2> QED BY <2>3, <2>4 DEF Placed
<1>6. CASE Apology(c)
  BY <1>1, <1>2, <1>6, StepOfDraw DEF Apology
<1>7. CASE Draw(c)
  BY <1>1, <1>2, <1>7, StepOfDraw DEF Draw
<1>8. CASE DrawStock(c)
  <2>1. \A p \in Places : Pending(p)' = Pending(p) \ {c}
    BY <1>8 DEF DrawStock, Pending, Errand, Call
  <2> QED BY <1>1, <1>8, <2>1, StepOfDraw DEF DrawStock
<1>9. CASE DrawMap(c)
  BY <1>3, <1>9 DEF DrawMap
<1>10. CASE Booted(c)
  BY <1>3, <1>10 DEF Booted
<1>11. CASE LoggedIn(c)
  <2> DEFINE f == field["stock"]
             p == <<"stock", "list">>
             d == Call(c.n, "show", p, f, c.gives)
  <2>1. /\ p \in Places /\ field' = field
        /\ AskOf(p) = f /\ (Empty(p) <=> f.term = "")
    BY <1>11, PlacesAre DEF LoggedIn, AskOf, Empty, Tabs, Searched
  <2>2. Begins(p)  BY <1>11 DEF LoggedIn
  <2>3. \A q \in Places \ {p} : Undrawn(q)
    <3>1. \E x : shown' = [shown EXCEPT ![p] = x]  BY <1>11 DEF LoggedIn
    <3> HIDE DEF p
    <3> QED BY <2>1, <2>2, <3>1 DEF Begins, Undrawn, TypeOK, PageTypes
  <2>4. CASE f.term = ""
    <3>1. \A q \in Places : Pending(q)' = Pending(q)
      BY <1>11, <2>4 DEF LoggedIn, Done, Pending
    <3>2. shown'[p] = Prompt  BY <1>11, <2>1, <2>4 DEF LoggedIn, TypeOK, PageTypes
    <3> HIDE DEF f, p, d
    <3>3. PlaceInv(p)'
      BY <1>1, <2>1, <2>2, <2>4, <3>1, <3>2, InvitedPlace DEF Quiet
    <3> QED BY <1>1, <2>3, <3>1, <3>3, QuietPlace DEF Placed
  <2>5. CASE f.term # ""
    <3>1. calls' = (calls \ {c}) \cup {d} /\ shown'[p] = Skeleton /\ c.kind = "login"
      BY <1>11, <2>1, <2>5 DEF LoggedIn, TypeOK, PageTypes
    <3>2. d.kind = "show" /\ d.at = p /\ d.ask = f  BY DEF Call
    <3> HIDE DEF f, p, d
    <3>3. /\ Pending(p)' = Pending(p) \cup {d}
          /\ \A q \in Places \ {p} : Pending(q)' = Pending(q)
      BY <3>1, <3>2 DEF Pending
    <3>4. PlaceInv(p)'
      BY <1>1, <2>1, <2>2, <2>5, <3>1, <3>2, <3>3, LoadedPlace DEF Quiet
    <3> QED BY <1>1, <2>3, <3>3, <3>4, QuietPlace DEF Placed
  <2> QED BY <2>4, <2>5
<1>12. CASE LoginRefused(c)
  BY <1>3, <1>12 DEF LoginRefused, client
<1>13. CASE LoggedOut(c)
  BY <1>3, <1>13 DEF LoggedOut
<1> QED BY <1>4, <1>5, <1>6, <1>7, <1>8, <1>9, <1>10, <1>11, <1>12, <1>13 DEF Arrive

LEMMA PlacesStep ==
  ASSUME TypeOK, Placed, [Next]_vars
  PROVE  Placed'
<1>1. CASE User  BY <1>1, PlacesAfterUser
<1>2. CASE Network  BY <1>2, PlacesAfterService, PlacesAfterArrival DEF Network
<1>3. ASSUME NEW t \in Tabs, TimerFires(t)  PROVE  Placed'
  <2>1. LoadTab(t, field'[t]) /\ field'[t] \in Asks
    BY <1>3 DEF TimerFires, TypeOK, PageTypes
  <2>2. OthersQuiet(<<t, "list">>)
    BY <1>3, PlacesAre DEF TimerFires, OthersQuiet, Quiet, AskOf, AtRest, Empty
  <2> QED BY <2>1, <2>2, StepOfLoadTab
<1>4. CASE UNCHANGED <<client, calls>>
  BY <1>4, QuietPage, StepOfNothing DEF client, Pending
<1> QED BY <1>1, <1>2, <1>3, <1>4 DEF Next, Forget, Expire, vars

-----------------------------------------------------------------------------
(* The map.                                                                *)
LEMMA MapStays ==
  ASSUME MapInv, layout' = layout, map' \in {map, "none"},
         \A c \in calls : c.kind = "layout" => \E d \in calls' : d.kind = "layout"
  PROVE  MapInv'
  BY DEF MapInv

LEMMA MapAfterUser ==
  ASSUME TypeOK, MapInv, User
  PROVE  MapInv'
<1>1. CASE Boot  BY <1>1 DEF Boot, Fresh, MapInv
<1>2. CASE ~Boot
  <2>1. calls \subseteq calls' /\ layout' = layout /\ map' \in {map, "none"}
    <3>1. ASSUME NEW p, NEW ask, Load(p, ask)  PROVE  calls \subseteq calls'
      BY <3>1 DEF Load
    <3>2. ASSUME NEW t \in Tabs, NEW f, LoadTab(t, f)  PROVE  calls \subseteq calls'
      BY <3>1, <3>2, LoadTabIs DEF Invite
    <3>3. ASSUME NEW t \in Tabs,
                 OpenTab(t) \/ Close(t) \/ (\E x \in Terms \cup {""} : Type(t, x))
                 \/ (\E f \in Filters : Filter(t, f))
          PROVE  calls \subseteq calls' /\ layout' = layout /\ map' = map
      BY <3>2, <3>3 DEF OpenTab, Close, Type, Filter
    <3>4. ASSUME NEW x, OpenStock(x) \/ OpenExpiry(x) \/ OpenPurchase(x) \/ OpenYear
                        \/ \E part \in {"list", "year"} : OpenExport(x, part)
          PROVE  calls \subseteq calls' /\ layout' = layout /\ map' \in {map, "none"}
      BY <3>1, <3>4 DEF OpenStock, OpenExpiry, OpenPurchase, OpenYear, OpenExport, Open
    <3>5. ASSUME NEW right \in BOOLEAN, SendLogout \/ SendLogin(right)
          PROVE  calls \subseteq calls' /\ layout' = layout /\ map' = map
      BY <3>5 DEF SendLogout, SendLogin, client
    <3> QED BY <1>2, <3>3, <3>4, <3>5 DEF User
  <2> QED BY <2>1, MapStays
<1> QED BY <1>1, <1>2

LEMMA MapAfterArrival ==
  ASSUME TypeOK, MapInv, NEW c \in calls, Arrive(c)
  PROVE  MapInv'
<1>1. ASSUME Done(c), c.kind # "layout"
      PROVE  \A b \in calls : b.kind = "layout" => \E d \in calls' : d.kind = "layout"
  BY <1>1 DEF Done
<1>2. CASE Refused(c) /\ c.kind = "layout"
  BY <1>2 DEF Refused, MapInv, TypeOK, PageTypes
<1>3. CASE Refused(c) /\ c.kind # "layout"
  BY <1>1, <1>3, MapStays DEF Refused
<1>4. CASE Apology(c)
  BY <1>1, <1>4, MapStays DEF Apology
<1>5. CASE Draw(c)
  BY <1>1, <1>5, MapStays DEF Draw
<1>6. CASE DrawStock(c)
  <2>1. CASE layout = "have"
    BY <1>6, <2>1 DEF DrawStock, MapInv
  <2>2. CASE layout = "none"
    <3>1. Errand(c.n, "layout", stored) \in calls'  BY <1>6, <2>2 DEF DrawStock
    <3>2. Errand(c.n, "layout", stored).kind = "layout"  BY DEF Errand, Call
    <3> QED BY <3>1, <3>2 DEF MapInv
  <2>3. CASE layout = "asked"
    <3>1. PICK b \in calls : b.kind = "layout"  BY <2>3 DEF MapInv
    <3>2. b \in calls'  BY <1>6, <2>3, <3>1 DEF DrawStock
    <3> QED BY <3>1, <3>2 DEF MapInv
  <2> QED BY <2>1, <2>2, <2>3 DEF TypeOK, PageTypes
<1>7. CASE DrawMap(c)
  <2>1. layout' # "asked"  BY <1>7 DEF DrawMap
  <2>2. map' # "spinner"  BY <1>7 DEF DrawMap, MapDrawn
  <2> QED BY <2>1, <2>2 DEF MapInv
<1>8. CASE Booted(c)
  BY <1>1, <1>8, MapStays DEF Booted
<1>9. CASE LoggedIn(c)
  <2>1. \A b \in calls : b.kind = "layout" => b \in calls'  BY <1>9 DEF LoggedIn, Done
  <2>2. layout' = layout /\ map' = map  BY <1>9 DEF LoggedIn
  <2> QED BY <2>1, <2>2, MapStays
<1>10. CASE LoginRefused(c)
  BY <1>1, <1>10, MapStays DEF LoginRefused, client
<1>11. CASE LoggedOut(c)
  BY <1>1, <1>11, MapStays DEF LoggedOut
<1> QED BY <1>2, <1>3, <1>4, <1>5, <1>6, <1>7, <1>8, <1>9, <1>10, <1>11 DEF Arrive

LEMMA MapStep ==
  ASSUME TypeOK, MapInv, [Next]_vars
  PROVE  MapInv'
<1>1. CASE User  BY <1>1, MapAfterUser
<1>2. ASSUME NEW c \in calls, Serve(c) \/ Fail(c)  PROVE  MapInv'
  <2>1. UNCHANGED client  BY <1>2 DEF Serve, Fail
  <2>2. PICK a \in Answers, token \in Nat : Answered(c, a, token)  BY <1>2, ServeAnswers
  <2>3. PICK d : calls' = (calls \ {c}) \cup {d} /\ d.kind = c.kind
    BY <2>1, <2>2, AnswerGiven DEF TypeOK, client
  <2> QED BY <2>1, <2>3, MapStays DEF client
<1>3. CASE Network  BY <1>2, <1>3, MapAfterArrival DEF Network
<1>4. ASSUME NEW t \in Tabs, TimerFires(t)  PROVE  MapInv'
  <2>1. calls \subseteq calls'  BY <1>4, LoadTabIs DEF TimerFires, Load, Invite
  <2> QED BY <1>4, <2>1, MapStays DEF TimerFires
<1>5. CASE UNCHANGED <<client, calls>>
  BY <1>5, MapStays DEF client
<1> QED BY <1>1, <1>3, <1>4, <1>5 DEF Next, Forget, Expire, vars
-----------------------------------------------------------------------------
LEMMA Initially == Init => MobileInv
<1> SUFFICES ASSUME Init  PROVE  MobileInv
  OBVIOUS
<1>1. Errand(1, "me", 1) \in Calls  BY Constants, NewErrand DEF Kinds
<1>2. TypeOK
  <2>1. CallTypes  BY <1>1, FS_Singleton DEF Init, CallTypes
  <2>2. PageTypes  BY Constants, ContentsAre DEF Init, PageTypes, Tabs, Views
  <2> QED BY <2>1, <2>2 DEF Init, TypeOK, ServiceTypes
<1>3. \A p \in Places : PlaceInv(p)
  <2>1. \A p \in Places : Pending(p) = {}
    BY DEF Init, Pending, Errand, Call
  <2>2. \A p \in Places : shown[p].is = "blank"  BY ContentsAre DEF Init
  <2> QED BY <2>1, <2>2 DEF PlaceInv, AskedOnce, Settled, Served
<1>4. MapInv  BY DEF Init, MapInv
<1> QED BY <1>2, <1>3, <1>4 DEF MobileInv

LEMMA Inductive == MobileInv /\ [Next]_vars => MobileInv'
  BY TypesStep, PlacesStep, MapStep DEF MobileInv, Placed

LEMMA Always == Spec => []MobileInv
  BY Initially, Inductive, PTL DEF Spec

(* Every variable of the page, the calls and the service keeps its type; no   *)
(* two calls in flight have one number, so an answer is never taken for       *)
(* another's, and there is room for every call that is sent (api).           *)
THEOREM PageTypesKept == Spec => []TypeOK
<1>1. MobileInv => TypeOK  BY DEF MobileInv
<1> QED BY <1>1, Always, PTL

(* A place at rest shows what its fields ask, or what was opened there last,  *)
(* unless its loads overlapped or one was answered 401 (the loaders, openers  *)
(* and catch branches of app.js).                                           *)
THEOREM ShownAnswersAsked == Spec => []ShownIsAsked
<1>1. MobileInv => ShownIsAsked
  <2> SUFFICES ASSUME MobileInv, NEW p \in Places,
                      shown[p].is \in {"prompt", "answer"}, p \notin raced \cup refused,
                      p \in Lists => p[1] \notin timers, Pending(p) = {}
               PROVE  shown[p] = IF p \notin Lists THEN Answer(opened[p])
                                 ELSE IF p[1] \in Searched /\ field[p[1]].term = ""
                                 THEN Prompt ELSE Answer(field[p[1]])
    BY DEF ShownIsAsked
  <2> QED BY DEF MobileInv, PlaceInv, Settled, AtRest, Empty, AskOf
<1> QED BY <1>1, Always, PTL

(* A skeleton or a spinner waits for a call in flight, or the load was        *)
(* answered 401 (skeletonCardsHtml, ensureLocationMapLayout).               *)
THEOREM SpinnersWaitForCalls == Spec => []SpinnersAreServed
<1>1. MobileInv => SpinnersAreServed
  BY DEF MobileInv, PlaceInv, Served, MapInv, SpinnersAreServed
<1> QED BY <1>1, Always, PTL
=============================================================================
