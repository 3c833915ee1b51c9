---------------------------- MODULE OutboundPages ----------------------------
(****************************************************************************)
(* The pages that make, edit and cancel outbound orders (nohtus/pages): what *)
(* each browser session holds between two clicks, the transactions a click   *)
(* makes one after the other, the date of a customer's last sale, and the     *)
(* functions of the process that a page replaces while it is drawn.          *)
(* What one transaction does to the stock is the subject of OutboundOrders;  *)
(* here it is one step.                                                     *)
(****************************************************************************)
EXTENDS Integers, Sequences, FiniteSets, FiniteSetsExt

CONSTANTS
  Users,        \* browser sessions, each drawn by a thread of its own
  Rows,         \* inventory rows outside P
  Soon,         \* rows with less than 30 days to expiry
  Arke,         \* rows of a lot whose box shows another expiry
  Orders,       \* ids of outbound_orders
  Customers,    \* customers as the list orders them: a name with a company
  NameOf,       \* the name a customer is searched by
  Registered,   \* customers of the list; the others are typed in
  Dates,        \* days; a form opens with the first
  MaxQty,       \* bound: units of a cart line
  MaxFaults,    \* bound: calls that fail between two transactions
  Works         \* what a behaviour is made of: one of these records of a set of calls
                \* (with "two", of two sessions) and the units of the rows at first

PagesOK ==
  /\ \A w \in Works : w.stock \in [Rows -> Nat]
  /\ Soon \subseteq Rows /\ Arke \subseteq Rows /\ "none" \notin Orders
  /\ Customers \subseteq Nat \ {0} /\ Registered \subseteq Customers /\ Registered # {}
  /\ IsFiniteSet(Dates) /\ Dates \subseteq Nat \ {0} /\ Dates # {} /\ MaxQty \in Nat /\ MaxFaults \in Nat

VARIABLES
  stock,    \* inventory.qty
  orders,   \* outbound_orders with their items
  sales,    \* customer_last_sales: a date, 0 without a row
  desk,     \* the session state of each session
  todo,     \* the transactions its click has still to make
  fns,      \* the process's functions as they are now
  renders,  \* the sessions whose page is being drawn, in the order they began,
            \* each with the functions it found
  past,     \* what has happened: a history variable
  calls     \* the calls of this behaviour: nothing of the program

vars == <<stock, orders, sales, desk, todo, fns, renders, past, calls>>

None == "none"
(* "intake" stands for the two export pages that replace widgets, "other" for   *)
(* every page that replaces nothing.                                        *)
Pages == {"out", "saved", "intake", "other"}
Today == Min(Dates)
NoCart == [r \in Rows |-> 0]
Line(r, n) == [NoCart EXCEPT ![r] = n]
In(cart) == {r \in Rows : cart[r] > 0}
Sum(a, b) == [r \in Rows |-> a[r] + b[r]]

Native == [widget |-> None, save |-> "native", cancel |-> "native"]
Nothing == [steps |-> <<>>, order |-> None, customer |-> 0, date |-> 0]
NoOrder == [status |-> "none", customer |-> 0, date |-> 0, items |-> NoCart,
            listed |-> FALSE, whole |-> FALSE]

First(S) == Min(S)
(* from: the order the cart was loaded from, told apart from "editing", which *)
(* is what the program remembers.                                           *)
EmptyDesk == [page |-> "other", cart |-> NoCart, from |-> None, editing |-> None,
              customer |-> First(Registered), date |-> Today, pend |-> NoCart,
              warn |-> {}, agreed |-> FALSE, clear |-> FALSE, ask |-> None]
(* What entering the page from the menu, or the page after a save, resets;    *)
(* the question about the boxes is not among it.                             *)
Cleared(d) == [EmptyDesk EXCEPT !.page = d.page, !.warn = d.warn, !.agreed = d.agreed,
                                !.ask = d.ask]

Contended(o) == \E u \in Users : todo[u].order = o
Live(o) == orders[o].status \in {"saved", "edited"}
Drawn(u) == \E i \in DOMAIN renders : renders[i].user = u
On(u, page) == desk[u].page = page /\ Drawn(u) /\ todo[u] = Nothing
(* A confirmed save is made as soon as a cart is drawn.                      *)
Due(u) == desk[u].agreed /\ In(desk[u].cart) # {}
Working(u) == On(u, "out") /\ ~Due(u)
May(c) == c \in calls
Desk(u, d) == desk' = [desk EXCEPT ![u] = d]
Tables == <<stock, orders, sales>>
Process == <<fns, renders>>
Still == UNCHANGED <<Tables, todo, Process, past, calls>>

-----------------------------------------------------------------------------
(* A page is drawn from top to bottom in its session's thread.  It puts its   *)
(* own functions in place of the process's and puts back, at the end, what it *)
(* found.                                                                   *)

FormFns(u) == [fns EXCEPT !.widget = u, !.save = "patched"]
ListFns(u) == [fns EXCEPT !.widget = u, !.cancel = "patched"]
IntakeFns(u) == [fns EXCEPT !.widget = u]
Patched(u) ==
  CASE desk[u].page = "out" -> FormFns(u)
    [] desk[u].page = "saved" -> ListFns(u)
    [] desk[u].page = "intake" -> IntakeFns(u)
Begin(u) ==
  /\ ~Drawn(u) /\ desk[u].page # "other" /\ (May("two") \/ renders = <<>>)
  /\ renders' = Append(renders, [user |-> u, found |-> fns, page |-> desk[u].page])
  /\ fns' = Patched(u)
  /\ Desk(u, IF desk[u].page = "out" /\ desk[u].clear THEN Cleared(desk[u]) ELSE desk[u])
  /\ UNCHANGED <<Tables, todo, past, calls>>

Restored(r) ==
  CASE r.page = "out" -> [fns EXCEPT !.widget = r.found.widget, !.save = r.found.save]
    [] r.page = "saved" -> [fns EXCEPT !.widget = r.found.widget, !.cancel = r.found.cancel]
    [] OTHER -> [fns EXCEPT !.widget = r.found.widget]
(* Unless the pages end in the reverse of the order they began, one puts back *)
(* what is not the process's own.                                           *)
End(u) ==
  \E i \in DOMAIN renders :
    /\ renders[i].user = u
    /\ fns' = Restored(renders[i])
    /\ renders' = SelectSeq(renders, LAMBDA r : r.user # u)
Finish(u) ==
  /\ todo[u] = Nothing /\ ~Due(u) /\ End(u)
  /\ UNCHANGED <<Tables, desk, todo, past, calls>>

(* The menu is drawn before the page.  Going to the order form from another   *)
(* page leaves nothing of what was being made.                               *)
Go(u, page) ==
  /\ ~Drawn(u) /\ todo[u] = Nothing /\ page # desk[u].page /\ (page = "intake" => May("intake"))
  /\ Desk(u, IF page = "out" THEN [Cleared(desk[u]) EXCEPT !.page = page, !.clear = TRUE]
                             ELSE [desk[u] EXCEPT !.page = page])
  /\ Still

-----------------------------------------------------------------------------
(* The order form.                                                          *)

Choose(u, c, d) ==
  /\ Working(u) /\ <<c, d>> # <<desk[u].customer, desk[u].date>>
  /\ Desk(u, [desk[u] EXCEPT !.customer = c, !.date = d]) /\ Still

Offered == {r \in Rows : stock[r] > 0}
(* Picked units go to the cart at once, or wait for an answer when they are   *)
(* about to expire.                                                         *)
Pick(u, r, n) ==
  /\ Working(u) /\ r \in Offered /\ desk[u].cart[r] + n <= MaxQty
  /\ r \in Soon \cup Arke => May("expiry")
  /\ Desk(u, IF r \in Soon THEN [desk[u] EXCEPT !.pend = Line(r, n)]
                           ELSE [desk[u] EXCEPT !.cart = Sum(@, Line(r, n))])
  /\ Still
AnswerExpiry(u, yes) ==
  /\ Working(u) /\ In(desk[u].pend) # {}
  /\ LET cart == IF yes THEN Sum(desk[u].cart, desk[u].pend) ELSE desk[u].cart
     IN  /\ \A r \in Rows : cart[r] <= MaxQty
         /\ Desk(u, [desk[u] EXCEPT !.cart = cart, !.pend = NoCart])
  /\ Still
ChangeLine(u, r, n) ==
  /\ Working(u) /\ desk[u].cart[r] \notin {0, n}
  /\ Desk(u, [desk[u] EXCEPT !.cart[r] = n]) /\ Still
EmptyCart_fault(u) ==
  /\ Working(u) /\ In(desk[u].cart) # {}
  /\ Desk(u, [desk[u] EXCEPT !.cart = NoCart, !.from = None])
  /\ Still
EmptyCart(u) ==
  /\ Working(u) /\ In(desk[u].cart) # {}
  /\ Desk(u, [desk[u] EXCEPT !.cart = NoCart, !.from = None, !.editing = None])
  /\ Still

-----------------------------------------------------------------------------
(* Saving.  A cart with a lot of Arke is saved only once a dialog has been    *)
(* answered; the answer is kept for the next time a cart is drawn.           *)

Warned(u) == In(desk[u].cart) \cap Arke
AskFirst(u) ==
  /\ Working(u) /\ Warned(u) # {} /\ desk[u].warn # Warned(u)
  /\ Desk(u, [desk[u] EXCEPT !.warn = Warned(u)]) /\ Still
AnswerWarning(u, yes) ==
  /\ Working(u) /\ desk[u].warn # {} /\ In(desk[u].cart) # {}
  /\ Desk(u, [desk[u] EXCEPT !.warn = {}, !.agreed = yes])
  /\ End(u) /\ UNCHANGED <<Tables, todo, past, calls>>

Enough(new, old) == \A r \in Rows : new[r] > old[r] => new[r] - old[r] <= stock[r]
Shipped(o, status, u, date) ==
  LET new == desk[u].cart  old == orders[o].items
  IN  /\ Enough(new, old)
      /\ stock' = [r \in Rows |-> stock[r] + old[r] - new[r]]
      /\ orders' = [orders EXCEPT ![o].status = status, ![o].items = new, ![o].date = date,
                                  ![o].listed = TRUE, ![o].whole = FALSE]
Steps(u, o, steps) ==
  todo' = [todo EXCEPT ![u] = [steps |-> steps, order |-> o, customer |-> desk[u].customer,
                               date |-> desk[u].date]]
Save(u) ==
  /\ On(u, "out") /\ In(desk[u].cart) # {} /\ (Due(u) \/ Warned(u) = {})
  /\ LET new == desk[u].editing = None
         patched == fns.save = "patched"
     IN  \/ /\ new /\ UNCHANGED past
            /\ \E o \in Orders :
                 /\ orders[o] = NoOrder
                 /\ Shipped(o, "saved", u, IF patched THEN desk[u].date ELSE Today)
                 /\ Steps(u, o, IF patched THEN <<"customer", "sale">> ELSE <<"customer">>)
         \/ /\ ~new /\ orders[desk[u].editing].status # "cancelled"
            /\ Shipped(desk[u].editing, "edited", u, orders[desk[u].editing].date)
            /\ past' = [past EXCEPT !.loose = @ \/ Contended(desk[u].editing)]
            /\ Steps(u, desk[u].editing, IF patched THEN <<"customer", "date", "sale">>
                                                    ELSE <<"customer">>)
  /\ Desk(u, [desk[u] EXCEPT !.agreed = FALSE])
  /\ UNCHANGED <<sales, Process, calls>>
(* Otherwise the form says why and stays as it is.                           *)
Refused(u) ==
  /\ On(u, "out") /\ Due(u)
  /\ IF desk[u].editing = None THEN ~Enough(desk[u].cart, NoCart)
     ELSE \/ orders[desk[u].editing].status = "cancelled"
          \/ ~Enough(desk[u].cart, orders[desk[u].editing].items)
  /\ Desk(u, [desk[u] EXCEPT !.agreed = FALSE]) /\ Still

-----------------------------------------------------------------------------
(* The transactions a click makes after the first.                          *)

Job(u, step) == todo[u].steps # <<>> /\ Head(todo[u].steps) = step
Last(u) == Len(todo[u].steps) = 1
Rest(u) == IF Last(u) THEN Nothing ELSE [todo[u] EXCEPT !.steps = Tail(@)]
Saved(u) == [Cleared(desk[u]) EXCEPT !.clear = TRUE]
Goes(u) == todo' = [todo EXCEPT ![u] = Rest(u)]

WriteCustomer(u) ==
  /\ Job(u, "customer")
  /\ orders' = [orders EXCEPT ![todo[u].order].customer = todo[u].customer,
                              ![todo[u].order].whole = FALSE]
  /\ Desk(u, IF Last(u) THEN Saved(u) ELSE desk[u])
  /\ past' = [past EXCEPT !.loose = @ \/ Last(u) \/ orders[todo[u].order].customer
                                                      \notin {0, todo[u].customer}]
  /\ Goes(u) /\ UNCHANGED <<stock, sales, Process, calls>>
WriteDate(u) ==
  /\ Job(u, "date")
  /\ orders' = [orders EXCEPT ![todo[u].order].date = todo[u].date,
                              ![todo[u].order].whole = FALSE]
  /\ Desk(u, [desk[u] EXCEPT !.editing = None])
  /\ past' = [past EXCEPT !.loose = @ \/ orders[todo[u].order].date # todo[u].date]
  /\ Goes(u) /\ UNCHANGED <<stock, sales, Process, calls>>
Later(d, e) == IF d > e THEN d ELSE e
WriteSale(u) ==
  /\ Job(u, "sale")
  /\ sales' = [sales EXCEPT ![todo[u].customer] = Later(@, todo[u].date)]
  /\ orders' = [orders EXCEPT ![todo[u].order].whole =
                  /\ orders[todo[u].order].customer = todo[u].customer
                  /\ orders[todo[u].order].date = todo[u].date]
  /\ past' = [past EXCEPT !.loose = @ \/ ~Live(todo[u].order)]
  /\ Desk(u, Saved(u))
  /\ Goes(u) /\ UNCHANGED <<stock, Process, calls>>

(* A call that fails between two transactions shows its error; the cart stays. *)
Fail(u) ==
  /\ May("fail") /\ todo[u] # Nothing /\ past.faults < MaxFaults
  /\ todo' = [todo EXCEPT ![u] = Nothing]
  /\ past' = [past EXCEPT !.faults = @ + 1, !.loose = TRUE]
  /\ UNCHANGED <<Tables, desk, Process, calls>>

-----------------------------------------------------------------------------
(* The list of saved orders.                                                *)

Shown(o) == orders[o].listed /\ orders[o].status # "cancelled"
(* The form searches the list by the order's name and opens with the first    *)
(* customer found; one that is not in the list stays as it was saved.        *)
Found(o) ==
  LET c == orders[o].customer
      same == {x \in Registered : c # 0 => NameOf[x] = NameOf[c]}
  IN  IF same = {} THEN c ELSE First(same)
Edit(u, o) ==
  /\ On(u, "saved") /\ Shown(o)
  /\ Desk(u, [desk[u] EXCEPT !.page = "out", !.cart = orders[o].items, !.from = o, !.editing = o,
                             !.customer = Found(o), !.date = orders[o].date])
  /\ End(u) /\ UNCHANGED <<Tables, todo, past, calls>>

AskCancel(u, o) ==
  /\ On(u, "saved") /\ Shown(o) /\ desk[u].ask # o
  /\ Desk(u, [desk[u] EXCEPT !.ask = o]) /\ Still
AnswerNo(u) ==
  /\ On(u, "saved") /\ desk[u].ask # None /\ Shown(desk[u].ask)
  /\ Desk(u, [desk[u] EXCEPT !.ask = None]) /\ Still
(* The customer and the date are read before the order is cancelled.         *)
AnswerYes(u) ==
  /\ On(u, "saved") /\ desk[u].ask # None /\ Shown(desk[u].ask)
  /\ LET o == desk[u].ask
     IN  /\ todo' = [todo EXCEPT ![u] =
           [steps |-> IF fns.cancel = "patched" THEN <<"cancel", "refresh">> ELSE <<"cancel">>,
            order |-> o, customer |-> orders[o].customer, date |-> orders[o].date]]
         /\ past' = [past EXCEPT !.loose = @ \/ Contended(o)]
  /\ UNCHANGED <<Tables, desk, Process, calls>>
Return(o, status, listed) ==
  /\ stock' = Sum(stock, orders[o].items)
  /\ orders' = [orders EXCEPT ![o].status = status, ![o].listed = listed]
Cancel(u) ==
  /\ Job(u, "cancel")
  /\ IF orders[todo[u].order].status = "cancelled"
       THEN todo' = [todo EXCEPT ![u] = Nothing] /\ UNCHANGED <<stock, orders, desk, past>>
       ELSE /\ Return(todo[u].order, "cancelled", orders[todo[u].order].listed)
            /\ Desk(u, [desk[u] EXCEPT !.ask = None])
            /\ past' = [past EXCEPT !.loose = @ \/ Last(u)]
            /\ Goes(u)
  /\ UNCHANGED <<sales, Process, calls>>

-----------------------------------------------------------------------------
(* The date of a customer's last sale after an order is gone.                *)

LatestOf(S) == Max({orders[o].date : o \in S} \cup {0})
Of(c) == {o \in Orders : orders[o].customer = c /\ orders[o].status # "none"}
(* After a cancellation, unless the date is another order's: the latest date  *)
(* of the orders that are not cancelled.                                     *)
Refresh_fault(u) ==
  /\ Job(u, "refresh")
  /\ LET c == todo[u].customer
     IN  sales' = IF c # 0 /\ sales[c] \in {0, todo[u].date}
                    THEN [sales EXCEPT ![c] = LatestOf(Of(c))] ELSE sales
  /\ Goes(u) /\ UNCHANGED <<stock, orders, desk, Process, past, calls>>
Refresh(u) ==
  /\ Job(u, "refresh")
  /\ LET c == todo[u].customer
     IN  /\ sales' = IF c # 0 /\ sales[c] \in {0, todo[u].date}
                    THEN [sales EXCEPT ![c] =
                            LatestOf({o \in Of(c) : orders[o].status # "cancelled"})]
                    ELSE sales
         /\ past' = [past EXCEPT !.loose = @ \/ \E o \in Of(c) : orders[o].status = "deleted"]
  /\ Goes(u) /\ UNCHANGED <<stock, orders, desk, Process, calls>>

(* After history is deleted, with the effect on the stock or without it.     *)
DeleteHistory(u, o, undo) ==
  /\ desk[u].page = "other" /\ todo[u] = Nothing /\ orders[o].listed /\ (undo => Live(o))
  /\ IF undo THEN Return(o, "deleted", FALSE)
             ELSE orders' = [orders EXCEPT ![o].listed = FALSE] /\ UNCHANGED stock
  /\ todo' = [todo EXCEPT ![u] = [steps |-> <<"sync">>, order |-> o,
                                  customer |-> orders[o].customer, date |-> orders[o].date]]
  /\ past' = [past EXCEPT !.loose = @ \/ Contended(o)]
  /\ UNCHANGED <<sales, desk, Process, calls>>
Sync(u) ==
  /\ Job(u, "sync")
  /\ LET c == todo[u].customer
     IN  sales' = IF c # 0 /\ sales[c] = todo[u].date
                    THEN [sales EXCEPT ![c] = LatestOf({o \in Of(c) : Live(o)})] ELSE sales
  /\ Goes(u) /\ UNCHANGED <<stock, orders, desk, Process, past, calls>>

(* A file of a company's sales.                                              *)
Upload(c, d) ==
  /\ sales' = [sales EXCEPT ![c] = Later(@, d)] /\ sales' # sales
  /\ past' = [past EXCEPT !.loose = TRUE]
  /\ UNCHANGED <<stock, orders, desk, todo, Process, calls>>

-----------------------------------------------------------------------------
Init ==
  /\ orders = [o \in Orders |-> NoOrder] /\ sales = [c \in Customers |-> 0]
  /\ desk = [u \in Users |-> EmptyDesk] /\ todo = [u \in Users |-> Nothing]
  /\ fns = Native /\ renders = <<>>
  /\ past = [loose |-> FALSE, faults |-> 0]
  /\ \E w \in Works : calls = w.calls /\ stock = w.stock

Form(u) ==
  \/ \E c \in Customers, d \in Dates : May("choose") /\ Choose(u, c, d)
  \/ \E r \in Rows, n \in 1 .. MaxQty : Pick(u, r, n)
  \/ \E yes \in BOOLEAN : AnswerExpiry(u, yes) \/ AnswerWarning(u, yes)
  \/ May("lines") /\ (EmptyCart(u) \/ \E r \in Rows, n \in 0 .. MaxQty : ChangeLine(u, r, n))
  \/ AskFirst(u)
  \/ Save(u)
  \/ Refused(u)
List(u) ==
  \/ \E o \in Orders : May("edit") /\ Edit(u, o)
  \/ May("cancel") /\ (AnswerNo(u) \/ AnswerYes(u) \/ \E o \in Orders : AskCancel(u, o))
Transactions(u) ==
  \/ WriteCustomer(u)
  \/ WriteDate(u)
  \/ WriteSale(u)
  \/ Cancel(u)
  \/ Refresh(u)
  \/ Sync(u)
  \/ Fail(u)
Step(u) ==
  \/ Begin(u)
  \/ Finish(u)
  \/ \E page \in Pages : Go(u, page)
  \/ Form(u)
  \/ List(u)
  \/ Transactions(u)
  \/ \E o \in Orders, undo \in BOOLEAN : May("history") /\ DeleteHistory(u, o, undo)
Idle(u) == desk[u] = EmptyDesk /\ todo[u] = Nothing
Next ==
  \/ \E u \in Users : (May("two") \/ \A w \in Users \ {u} : Idle(w)) /\ Step(u)
  \/ \E c \in Customers, d \in Dates : May("upload") /\ Upload(c, d)
Spec == Init /\ [][Next]_vars

-----------------------------------------------------------------------------
(* A form that will overwrite an order holds what was loaded from that order,  *)
(* and, unless a save failed half way, what was loaded from an order          *)
(* overwrites that one and does not become another.                         *)
EditsOverwriteTheirOrder ==
  \A u \in Users :
    /\ desk[u].editing # None => desk[u].from = desk[u].editing
    /\ desk[u].from # None /\ todo[u] = Nothing /\ past.faults = 0 =>
         desk[u].editing = desk[u].from

(* Between clicks the last sale of a customer is never before an order whose   *)
(* save ran to its end; and while no order changed its customer or its day,   *)
(* no call failed and no file was read, it is the day of the latest order.   *)
SalesFollowOrders ==
  (\A u \in Users : todo[u] = Nothing) =>
    \A c \in Customers :
      LET live == {o \in Of(c) : Live(o)}
      IN  /\ LatestOf({o \in live : orders[o].whole}) <= sales[c]
          /\ ~past.loose => sales[c] = LatestOf(live)
=============================================================================
