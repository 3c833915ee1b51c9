----------------------------- MODULE MobileApp -----------------------------
(***************************************************************************)
(* The phone application (mobile_app/app.js) and the session part of the   *)
(* service it asks (nohtus/mobile_api).  The browser runs one handler at a *)
(* time; what interleaves is the calls: a handler sends a call and goes on *)
(* when the answer comes, and other handlers run in between.  A call holds *)
(* the token that was stored when it was sent.                             *)
(*                                                                         *)
(* A place is what a view draws into: the list of a tab, its detail, and   *)
(* the export tab's year.  What a call asks (a term, a filter, a name) is  *)
(* kept, what the service finds is not: an answer is the question it       *)
(* answers.  A behaviour does what one record of Works allows.             *)
(***************************************************************************)
EXTENDS Naturals, FiniteSets

CONSTANTS Terms,      \* what can be typed into a search field
          Filters,    \* values of a period, a check box, a country
          Names,      \* products and cases that can be opened
          MaxCalls,   \* bound on the calls in flight
          MaxLogins,  \* bound on the sessions the service opens
          Limit,      \* failed logins after which the service refuses
          Works       \* what a behaviour does: the tabs it uses, what it types,
                      \* chooses and opens there, whether it logs in and out
                      \* and calls fail: [tabs, terms, filters, names,
                      \* login, faults]

ASSUME MobileOK ==
  /\ MaxCalls \in Nat \ {0} /\ Filters # {}
  /\ \A w \in Works : w.names \subseteq Names

VARIABLES work,       \* the record of Works this behaviour is held to
          stored,     \* the token in the browser's storage, 0: none
          screen,     \* "login" or "main"
          wired,      \* tabsInitialized
          tab,        \* the tab that is shown
          view,       \* tab -> the place of it that is not hidden
          back,       \* where the export detail goes back to
          field,      \* tab -> what its fields hold
          timers,     \* tabs whose search field waits for its 250 ms
          shown,      \* place -> what is drawn there
          opened,     \* place -> what was chosen to be opened there
          once,       \* tabs that were loaded on their first opening
          map,        \* the map under a stock detail
          layout,     \* locationMapLayoutPromise
          calls,      \* the calls in flight
          sessions,   \* tokens the service honours
          issued,     \* sessions the service has opened so far
          fails,      \* failed logins of the last 15 minutes
          raced,      \* history: places loaded again before the answer came
          refused     \* history: places whose load was answered 401

client == <<stored, screen, wired, tab, view, back, field, timers, shown,
            opened, once, map, layout, raced, refused>>
server == <<sessions, issued, fails>>
vars == <<work, client, calls, server>>
-----------------------------------------------------------------------------
Tabs == {"stock", "expiry", "purchase", "export"}
Searched == {"stock", "purchase"}
Places == (Tabs \X {"list", "detail"}) \cup {<<"export", "year">>}

Nothing == [term |-> "", filter |-> CHOOSE f \in Filters : TRUE]
\* What a place can show.
Content(is, of) == [is |-> is, of |-> of]
Blank == Content("blank", Nothing)
Prompt == Content("prompt", Nothing)
Skeleton == Content("skeleton", Nothing)
Sorry == Content("error", Nothing)
Answer(a) == Content("answer", a)

Lists == Tabs \X {"list"}
Pending(p) == {c \in calls : c.kind = "show" /\ c.at = p}

\* A free number for a new call.
Number == CHOOSE n \in 1..MaxCalls : \A c \in calls : c.n # n
Room(k) == Cardinality(calls) + k <= MaxCalls
\* api(): the call carries the token stored now.
Call(n, kind, at, ask, token) ==
  [n |-> n, kind |-> kind, at |-> at, ask |-> ask, token |-> token,
   answer |-> "none", gives |-> 0]
Nowhere == <<"stock", "list">>
Errand(n, kind, token) == Call(n, kind, Nowhere, Nothing, token)

\* A page that was just loaded: the document, and the script's variables.
Fresh ==
  /\ wired' = FALSE /\ tab' = "stock" /\ view' = [t \in Tabs |-> "list"]
  /\ back' = "list" /\ field' = [t \in Tabs |-> Nothing] /\ timers' = {}
  /\ shown' = [p \in Places |-> Blank]
  /\ opened' = [p \in Places |-> Nothing]
  /\ once' = {} /\ map' = "none" /\ layout' = "none"
  /\ raced' = {} /\ refused' = {} /\ screen' = "login"

\* A behaviour starts with a page that has a session and was just opened.
Init ==
  /\ work \in Works
  /\ stored = 1 /\ sessions = {1} /\ issued = 1 /\ fails = 0
  /\ screen = "login" /\ wired = FALSE /\ tab = "stock"
  /\ view = [t \in Tabs |-> "list"] /\ back = "list"
  /\ field = [t \in Tabs |-> Nothing] /\ timers = {}
  /\ shown = [p \in Places |-> Blank]
  /\ opened = [p \in Places |-> Nothing]
  /\ once = {} /\ map = "none" /\ layout = "none"
  /\ raced = {} /\ refused = {}
  /\ calls = {Errand(1, "me", 1)}
-----------------------------------------------------------------------------
(* What a handler does to the places.                                      *)

\* A place is emptied for a load that begins now.
Begins(p) ==
  /\ raced' = IF Pending(p) # {} THEN raced \cup {p} ELSE raced \ {p}
  /\ refused' = refused \ {p}

Load(p, ask) ==
  /\ Room(1)
  /\ shown' = [shown EXCEPT ![p] = Skeleton]
  /\ calls' = calls \cup {Call(Number, "show", p, ask, stored)}
  /\ Begins(p)

\* An empty search field draws the prompt and sends nothing.
Invite(p) ==
  /\ shown' = [shown EXCEPT ![p] = Prompt]
  /\ Begins(p)
  /\ UNCHANGED calls

LoadStock(f) ==
  IF f.term = "" THEN Invite(<<"stock", "list">>)
  ELSE Load(<<"stock", "list">>, f)

LoadPurchase(f) ==
  IF f.term = "" THEN Invite(<<"purchase", "list">>)
  ELSE Load(<<"purchase", "list">>, f)

LoadExpiry(f) == Load(<<"expiry", "list">>, f)

LoadExport(f) == Load(<<"export", "list">>, f)

LoadTab(t, f) ==
  CASE t = "stock" -> LoadStock(f)
    [] t = "purchase" -> LoadPurchase(f)
    [] t = "expiry" -> LoadExpiry(f)
    [] t = "export" -> LoadExport(f)
-----------------------------------------------------------------------------
(* The user's handlers.                                                    *)
On(t) == screen = "main" /\ tab = t /\ t \in work.tabs

\* A first opening loads the expiry and the export tab; the export tab
\* also asks for its list of countries.
OpenTab(t) ==
  /\ wired /\ screen = "main" /\ tab # t /\ t \in work.tabs \cup {"stock"}
  /\ tab' = t
  /\ IF t \in Searched \/ t \in once
     THEN UNCHANGED <<once, shown, calls, raced, refused>>
     ELSE /\ once' = once \cup {t}
          /\ LoadTab(t, field[t])
  /\ UNCHANGED <<work, stored, screen, wired, view, back, field, timers,
                 opened, map, layout, server>>

\* A key stroke restarts the 250 ms of the field.
Type(t, term) ==
  /\ On(t) /\ t \in Searched /\ view[t] = "list" /\ term \in work.terms \cup {""}
  /\ field[t].term # term
  /\ field' = [field EXCEPT ![t].term = term]
  /\ timers' = timers \cup {t}
  /\ UNCHANGED <<work, stored, screen, wired, tab, view, back, shown, opened,
                 once, map, layout, raced, refused, calls, server>>

\* The 250 ms are over: the field is read now, whatever is shown by then.
TimerFires(t) ==
  /\ t \in timers
  /\ timers' = timers \ {t}
  /\ LoadTab(t, field[t])
  /\ UNCHANGED <<work, stored, screen, wired, tab, view, back, field, opened,
                 once, map, layout, server>>

Filter_fault(t, f) ==
  /\ On(t) /\ view[t] = "list" /\ f \in work.filters /\ field[t].filter # f
  /\ field' = [field EXCEPT ![t].filter = f]
  /\ LoadTab(t, field[t])
  /\ UNCHANGED <<work, stored, screen, wired, tab, view, back, timers, opened,
                 once, map, layout, server>>

\* A period, a check box or a country loads at once.
Filter(t, f) ==
  /\ On(t) /\ view[t] = "list" /\ f \in work.filters /\ field[t].filter # f
  /\ field' = [field EXCEPT ![t].filter = f]
  /\ LoadTab(t, field'[t])
  /\ UNCHANGED <<work, stored, screen, wired, tab, view, back, timers, opened,
                 once, map, layout, server>>

\* The detail of a place's answer: emptied, shown, and asked for.
Open(p, ask) ==
  /\ view' = [view EXCEPT ![p[1]] = p[2]]
  /\ opened' = [opened EXCEPT ![p] = ask]
  /\ Load(p, ask)
  /\ UNCHANGED <<work, stored, screen, wired, tab, field, timers, once,
                 layout, server>>

Card(t, part) == On(t) /\ view[t] = part /\ shown[<<t, part>>].is = "answer"

OpenStock(name) ==
  /\ Card("stock", "list")
  /\ Open(<<"stock", "detail">>, [Nothing EXCEPT !.term = name])
  /\ map' = "none" /\ UNCHANGED back

\* The detail of an expiring product is asked under the filters of the list.
OpenExpiry(name) ==
  /\ Card("expiry", "list")
  /\ Open(<<"expiry", "detail">>, [field["expiry"] EXCEPT !.term = name])
  /\ UNCHANGED <<map, back>>

OpenPurchase(name) ==
  /\ Card("purchase", "list")
  /\ Open(<<"purchase", "detail">>, [field["purchase"] EXCEPT !.term = name])
  /\ UNCHANGED <<map, back>>

\* A year's or a month's card opens the year view under the list's filters.
OpenYear ==
  /\ Card("export", "list")
  /\ Open(<<"export", "year">>, field["export"])
  /\ UNCHANGED <<map, back>>

\* A case is opened from the list or from the year, and goes back there.
OpenExport(name, part) ==
  /\ Card("export", part)
  /\ Open(<<"export", "detail">>, [Nothing EXCEPT !.term = name])
  /\ back' = part
  /\ UNCHANGED map

Close(t) ==
  /\ On(t) /\ view[t] # "list"
  /\ view' = [view EXCEPT ![t] = IF t = "export" /\ view[t] = "detail"
                                 THEN back ELSE "list"]
  /\ UNCHANGED <<work, stored, screen, wired, tab, back, field, timers, shown,
                 opened, once, map, layout, raced, refused, calls, server>>

SendLogin(right) ==
  /\ work.login /\ screen = "login" /\ Room(1) /\ issued < MaxLogins
  /\ calls' = calls \cup
       {Errand(Number, IF right THEN "login" ELSE "wrong", 0)}
  /\ UNCHANGED <<work, client, server>>

SendLogout ==
  /\ work.login /\ screen = "main" /\ Room(1)
  /\ calls' = calls \cup {Errand(Number, "logout", stored)}
  /\ UNCHANGED <<work, client, server>>

\* boot(): the page is opened again and asks whether its token is honoured.
\* The answers to the old page's calls reach nobody.
Boot ==
  /\ work.login
  /\ Fresh
  /\ calls' = IF stored = 0 THEN {}
              ELSE {Errand(1, "me", stored)}
  /\ UNCHANGED <<work, stored, server>>
-----------------------------------------------------------------------------
(* The service.                                                            *)
Answered(c, a, token) ==
  calls' = (calls \ {c}) \cup {[c EXCEPT !.answer = a, !.gives = token]}

\* resolve_token
Honoured(token) == token \in sessions

\* Every route but the login and the logout asks for a user.
ServeUser(c) ==
  /\ c.kind \notin {"login", "wrong", "logout"}
  /\ \/ Honoured(c.token) /\ Answered(c, "ok", 0)
     \/ ~Honoured(c.token) /\ Answered(c, "refused", 0)
  /\ UNCHANGED server

\* login(): locked after Limit failures, else a session of its own.
ServeLogin(c) ==
  /\ c.kind \in {"login", "wrong"}
  /\ \/ /\ fails >= Limit
        /\ Answered(c, "failed", 0)
        /\ UNCHANGED server
     \/ /\ fails < Limit /\ c.kind = "wrong"
        /\ fails' = fails + 1
        /\ Answered(c, "failed", 0)
        /\ UNCHANGED <<sessions, issued>>
     \/ /\ fails < Limit /\ c.kind = "login" /\ issued < MaxLogins
        /\ issued' = issued + 1
        /\ sessions' = sessions \cup {issued'}
        /\ Answered(c, "ok", issued')
        /\ UNCHANGED fails

ServeLogout(c) ==
  /\ c.kind = "logout"
  /\ sessions' = sessions \ {c.token}
  /\ Answered(c, "ok", 0)
  /\ UNCHANGED <<issued, fails>>

Serve(c) ==
  /\ c.answer = "none"
  /\ ServeUser(c) \/ ServeLogin(c) \/ ServeLogout(c)
  /\ UNCHANGED <<work, client>>

\* The network or the service fails, before the call is served or after.
Fail(c) ==
  /\ c.answer # "failed" /\ work.faults
  /\ Answered(c, "failed", 0)
  /\ UNCHANGED <<work, client, server>>

\* The 30 days of a session are over, or its user was made inactive.
Expire(s) ==
  /\ work.login /\ s \in sessions
  /\ sessions' = sessions \ {s}
  /\ UNCHANGED <<work, client, calls, issued, fails>>

\* Failed logins older than 15 minutes no longer count.
Forget ==
  /\ fails > 0
  /\ fails' = 0
  /\ UNCHANGED <<work, client, calls, sessions, issued>>
-----------------------------------------------------------------------------
(* The answers.                                                            *)
Done(c) == calls' = calls \ {c}

\* api(): a 401 forgets the token that is stored now and shows the login.
Refused(c) ==
  /\ c.answer = "refused"
  /\ Done(c)
  /\ stored' = 0 /\ screen' = "login"
  /\ refused' = IF c.kind = "show" THEN refused \cup {c.at} ELSE refused
  /\ layout' = IF c.kind = "layout" THEN "none" ELSE layout
  /\ map' = IF c.kind = "layout" /\ map = "spinner" THEN "none" ELSE map
  /\ UNCHANGED <<wired, tab, view, back, field, timers, shown, opened, once,
                 raced>>

\* The catch of a load draws the apology.
Apology(c) ==
  /\ c.kind = "show" /\ c.answer = "failed"
  /\ Done(c)
  /\ shown' = [shown EXCEPT ![c.at] = Sorry]
  /\ refused' = refused \ {c.at}
  /\ map' = IF c.at = <<"stock", "detail">> THEN "none" ELSE map
  /\ UNCHANGED <<stored, screen, wired, tab, view, back, field, timers,
                 opened, once, layout, raced>>

\* A list, a year or a detail is drawn into its place, whatever it shows.
Draw(c) ==
  /\ c.kind = "show" /\ c.answer = "ok" /\ c.at # <<"stock", "detail">>
  /\ Done(c)
  /\ shown' = [shown EXCEPT ![c.at] = Answer(c.ask)]
  /\ refused' = refused \ {c.at}
  /\ UNCHANGED <<stored, screen, wired, tab, view, back, field, timers,
                 opened, once, map, layout, raced>>

\* A stock detail is drawn and then waits for the map, which is asked for
\* once and shared.
DrawStock(c) ==
  /\ c.kind = "show" /\ c.answer = "ok" /\ c.at = <<"stock", "detail">>
  /\ shown' = [shown EXCEPT ![c.at] = Answer(c.ask)]
  /\ refused' = refused \ {c.at}
  /\ map' = IF layout = "have" THEN "shown" ELSE "spinner"
  /\ layout' = IF layout = "none" THEN "asked" ELSE layout
  /\ calls' = (calls \ {c}) \cup
       IF layout = "none" THEN {Errand(c.n, "layout", stored)} ELSE {}
  /\ UNCHANGED <<stored, screen, wired, tab, view, back, field, timers,
                 opened, once, raced>>

\* A detail that waits for the map gets it, or an empty holder.
MapDrawn(c) ==
  CASE map # "spinner" -> map
    [] c.answer = "ok" -> "shown"
    [] OTHER -> "none"

DrawMap_fault(c) ==
  /\ c.kind = "layout" /\ c.answer \in {"ok", "failed"}
  /\ Done(c)
  /\ layout' = IF c.answer = "ok" THEN "have" ELSE "none"
  /\ map' = IF c.answer = "ok" /\ map = "spinner" THEN "shown" ELSE map
  /\ UNCHANGED <<stored, screen, wired, tab, view, back, field, timers, shown,
                 opened, once, raced, refused>>

\* ensureLocationMapLayout and loadLocationMapInto: a failure forgets the
\* promise and empties the holder.
DrawMap(c) ==
  /\ c.kind = "layout" /\ c.answer \in {"ok", "failed"}
  /\ Done(c)
  /\ layout' = IF c.answer = "ok" THEN "have" ELSE "none"
  /\ map' = MapDrawn(c)
  /\ UNCHANGED <<stored, screen, wired, tab, view, back, field, timers, shown,
                 opened, once, raced, refused>>

\* boot() goes on: the main screen, or the login with the token kept.
Booted(c) ==
  /\ c.kind = "me" /\ c.answer \in {"ok", "failed"}
  /\ Done(c)
  /\ screen' = IF c.answer = "ok" THEN "main" ELSE "login"
  /\ wired' = (wired \/ c.answer = "ok")
  /\ UNCHANGED <<stored, tab, view, back, field, timers, shown, opened, once,
                 map, layout, raced, refused>>

\* doLogin() goes on: the token is stored, the main screen shown, and the
\* stock list, no other, is loaded.
LoggedIn(c) ==
  /\ c.kind = "login" /\ c.answer = "ok"
  /\ stored' = c.gives /\ screen' = "main" /\ wired' = TRUE
  /\ LET f == field["stock"]
         p == <<"stock", "list">>
     IN IF f.term = ""
        THEN /\ Done(c)
             /\ shown' = [shown EXCEPT ![p] = Prompt]
        ELSE /\ calls' = (calls \ {c}) \cup
                 {Call(c.n, "show", p, f, c.gives)}
             /\ shown' = [shown EXCEPT ![p] = Skeleton]
  /\ Begins(<<"stock", "list">>)
  /\ UNCHANGED <<tab, view, back, field, timers, opened, once, map, layout>>

\* The login says what went wrong and stays.
LoginRefused(c) ==
  /\ c.kind \in {"login", "wrong"} /\ c.answer = "failed"
  /\ Done(c)
  /\ UNCHANGED client

\* The logout goes on whatever the service said.
LoggedOut(c) ==
  /\ c.kind = "logout" /\ c.answer \in {"ok", "failed"}
  /\ Done(c)
  /\ stored' = 0 /\ screen' = "login"
  /\ UNCHANGED <<wired, tab, view, back, field, timers, shown, opened, once,
                 map, layout, raced, refused>>

Arrive(c) ==
  /\ \/ Refused(c) \/ Apology(c) \/ Draw(c) \/ DrawStock(c) \/ DrawMap(c)
     \/ Booted(c) \/ LoggedIn(c) \/ LoginRefused(c) \/ LoggedOut(c)
  /\ UNCHANGED <<work, server>>
-----------------------------------------------------------------------------
User ==
  \/ \E t \in Tabs : OpenTab(t) \/ Close(t)
  \/ \E t \in Tabs, x \in Terms \cup {""} : Type(t, x)
  \/ \E t \in Tabs, f \in Filters : Filter(t, f)
  \/ \E x \in work.names :
                      \/ OpenStock(x) \/ OpenExpiry(x) \/ OpenPurchase(x)
                      \/ \E part \in {"list", "year"} : OpenExport(x, part)
  \/ OpenYear \/ Boot \/ SendLogout
  \/ \E right \in BOOLEAN : SendLogin(right)

Network == \E c \in calls : Serve(c) \/ Fail(c) \/ Arrive(c)

Next ==
  \/ User \/ Network \/ Forget
  \/ \E t \in Tabs : TimerFires(t)
  \/ \E s \in sessions : Expire(s)

Spec == Init /\ [][Next]_vars
-----------------------------------------------------------------------------
(* Properties.                                                             *)

\* Once the calls of a place have come back and its field is at rest, the
\* place shows what its fields ask, or what was opened there last: no load
\* is forgotten.  It may show something else only when loads of the place
\* overlapped (the last answer to arrive is drawn) or one was answered 401.
ShownIsAsked ==
  \A p \in Places :
    (/\ shown[p].is \in {"prompt", "answer"} /\ p \notin raced \cup refused
     /\ p \in Lists => p[1] \notin timers
     /\ Pending(p) = {})
    => shown[p] = IF p \notin Lists THEN Answer(opened[p])
                  ELSE IF p[1] \in Searched /\ field[p[1]].term = ""
                  THEN Prompt ELSE Answer(field[p[1]])

\* A skeleton or a spinner is drawn only while a call that will replace it
\* is in flight, unless the load was answered 401.
SpinnersAreServed ==
  /\ \A p \in Places :
       shown[p].is = "skeleton" => p \in refused \/ Pending(p) # {}
  /\ map = "spinner" => \E c \in calls : c.kind = "layout"
=============================================================================
