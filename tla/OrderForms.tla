----------------------------- MODULE OrderForms ------------------------------
(****************************************************************************)
(* How orders come about (src/order_management_src): the order form of each  *)
(* browser session, drafts, the list orders are edited, copied and deleted   *)
(* from, and the catalogue of vendors, products and aliases the form offers. *)
(* All sessions read through one cache of the tables, which the services     *)
(* clear after a save (services/bootstrap.py:161).                          *)
(****************************************************************************)
EXTENDS Integers, Sequences, FiniteSets, SequencesExt

CONSTANTS
  Users,       \* browser sessions
  Products,    \* product codes
  Codes,       \* vendor codes
  Names,       \* vendor names
  OrderIds, DraftIds,
  Quantities,  \* units that are asked for; the sums kept in a row stay among them
  CallSets,    \* the calls a behaviour is made of: one of these sets; with "two",
               \* of two sessions at a time
  MaxRows      \* bound: rows of a form

FormsOK == Quantities \subseteq Nat /\ MaxRows \in Nat

VARIABLES
  shop,    \* the tables vendors (a name for a code), products (who may order) and aliases
  book,    \* the tables orders and drafts with their items
  cache,   \* what load_data_from_repositories last returned
  desk,    \* the order form of each session
  todo,    \* renamings a vendor save still has to make, by session
  renamed, \* a renaming was made while something was cached: a history variable
  calls    \* the calls of this behaviour: nothing of the program

vars == <<shop, book, cache, desk, todo, renamed, calls>>

None == "none"
Common == "common"      \* 공통: every vendor may order it
Everyone == "everyone"  \* 전체: an alias of all vendors
Nothing == [full |-> FALSE]
Tables == [full |-> TRUE, shop |-> shop, book |-> book]
Seen == IF cache.full THEN cache ELSE Tables

Listed(v) == {v[c] : c \in Codes} \ {None}
Row(p, n) == [product |-> p, qty |-> n]
EmptyDesk == [vendor |-> None, rows |-> <<>>, editing |-> None, change |-> 0, fresh |-> TRUE]

-----------------------------------------------------------------------------
(* What a step does to the cache: a page only reads, or a service saves.     *)
Reads == cache' = Seen /\ UNCHANGED <<shop, book, todo, renamed>>
Cleared == cache' = Nothing /\ UNCHANGED renamed
Idle(u) == todo[u] = <<>>

-----------------------------------------------------------------------------
(* The order form.                                                          *)

Change(u, rows) == desk' = [desk EXCEPT ![u].rows = rows, ![u].change = 0]

(* The form opens with the loaded vendor, or with the first of the list when *)
(* that one is not there any more.                                          *)
Opens(u, name, v) ==
  IF name \in Listed(Seen.shop.vendors) THEN v = name ELSE v \in Listed(Seen.shop.vendors)

(* A vendor that is off the list must be chosen anew.                        *)
Ready(u) == Idle(u) /\ desk[u].vendor \in Listed(Seen.shop.vendors)
PickVendor(u, v) ==
  /\ Idle(u) /\ v \in Listed(Seen.shop.vendors) /\ v # desk[u].vendor
  /\ desk' = [desk EXCEPT ![u].vendor = v]
  /\ Reads

(* A search offers every product of the table by its name, its code or an    *)
(* alias: the filter for the vendor's own products (core_app.py:202) is lost  *)
(* as app_search_fix.py:396 replaces the function.                           *)
Offered == {p \in Products : Seen.shop.products[p] # None}
AddProduct(u, p, n) ==
  /\ Ready(u) /\ p \in Offered
  /\ LET rows == desk[u].rows
         same == {k \in DOMAIN rows : rows[k].product = p}
         k == CHOOSE j \in same : \A i \in same : j <= i
     IN  IF same # {} THEN /\ rows[k].qty + n \in Quantities
                           /\ desk' = [desk EXCEPT ![u].rows[k].qty = @ + n]
         ELSE /\ Len(rows) < MaxRows
              /\ desk' = [desk EXCEPT ![u].rows = Append(@, Row(p, n))]
  /\ Reads
SetQuantity(u, k, n) ==
  /\ Idle(u) /\ k \in DOMAIN desk[u].rows
  /\ desk' = [desk EXCEPT ![u].rows[k].qty = n]
  /\ Reads
RemoveRows(u, S) ==
  /\ Idle(u) /\ S # {} /\ S \subseteq DOMAIN desk[u].rows
  /\ desk' = [desk EXCEPT ![u].rows = [i \in 1 .. Len(@) - Cardinality(S) |->
                @[SetToSortSeq(DOMAIN @ \ S, <)[i]]]]
  /\ Reads

(* The number the user enters for each row; a row that keeps its place has    *)
(* its own number.                                                          *)
Moved(num) == {k \in DOMAIN num : num[k] # k}
Before(num, i, j) ==
  \/ num[i] < num[j]
  \/ /\ num[i] = num[j]
     /\ IF (i \in Moved(num)) = (j \in Moved(num)) THEN i < j ELSE i \in Moved(num)
Sorted(rows, num) ==
  LET at == SetToSortSeq(DOMAIN rows, LAMBDA i, j : Before(num, i, j))
  IN  [i \in DOMAIN rows |-> rows[at[i]]]
(* One row with a new number is taken out and put in at that number; with     *)
(* more of them the rows are sorted by their numbers, moved ones first.       *)
Arranged(rows, num) ==
  IF Cardinality(Moved(num)) = 1
    THEN LET k == CHOOSE j \in Moved(num) : TRUE
             at == IF num[k] > Len(rows) THEN Len(rows) ELSE IF num[k] < 1 THEN 1 ELSE num[k]
         IN  InsertAt(RemoveAt(rows, k), at, rows[k])
    ELSE Sorted(rows, num)
Reorder(u, num) ==
  /\ Idle(u) /\ Moved(num) # {}
  /\ desk' = [desk EXCEPT ![u].rows = Arranged(@, num)]
  /\ Reads

(* The product of one row is changed in a dialog, which comes back until it   *)
(* is applied or cancelled, for whatever row has that number by then.         *)
StartChange(u, k) ==
  /\ Idle(u) /\ k \in DOMAIN desk[u].rows /\ desk[u].change # k
  /\ desk' = [desk EXCEPT ![u].change = k]
  /\ Reads
ApplyChange(u, p, n) ==
  /\ Idle(u) /\ desk[u].change \in DOMAIN desk[u].rows /\ p \in Offered
  /\ Change(u, [desk[u].rows EXCEPT ![desk[u].change] = Row(p, n)])
  /\ Reads
CancelChange(u) ==
  /\ Idle(u) /\ desk[u].change \in DOMAIN desk[u].rows
  /\ Change(u, desk[u].rows)
  /\ Reads

ResetForm(u) ==
  /\ Idle(u)
  /\ desk' = [desk EXCEPT ![u] = [EmptyDesk EXCEPT !.change = desk[u].change]]
  /\ Reads

-----------------------------------------------------------------------------
(* Drafts and orders, each saved in a transaction of its own.               *)

Content(u) == [vendor |-> desk[u].vendor, rows |-> desk[u].rows]
SaveDraft(u, d) ==
  /\ Ready(u) /\ book.drafts[d] = Nothing
  /\ book' = [book EXCEPT !.drafts[d] = Content(u)]
  /\ Cleared /\ UNCHANGED <<shop, desk, todo>>
LoadDraft(u, d, v) ==
  /\ Idle(u) /\ Seen.book.drafts[d] # Nothing /\ Opens(u, Seen.book.drafts[d].vendor, v)
  /\ desk' = [desk EXCEPT ![u].rows = Seen.book.drafts[d].rows, ![u].vendor = v]
  /\ Reads
DeleteDraft_fault(u, d) ==
  /\ Idle(u) /\ Seen.book.drafts[d] # Nothing
  /\ book' = [book EXCEPT !.drafts[d] = Nothing]
  /\ cache' = Seen /\ UNCHANGED <<shop, desk, todo, renamed>>
DeleteDraft(u, d) ==
  /\ Idle(u) /\ Seen.book.drafts[d] # Nothing
  /\ book' = [book EXCEPT !.drafts[d] = Nothing]
  /\ Cleared /\ UNCHANGED <<shop, desk, todo>>

(* The order being edited is overwritten; when it is gone, or none is being   *)
(* edited, the form becomes a new order.  The page then clears the form.      *)
SaveOrder(u, o) ==
  /\ Ready(u) /\ desk[u].rows # <<>>
  /\ IF desk[u].editing # None /\ book.orders[desk[u].editing] # Nothing
       THEN o = desk[u].editing ELSE book.orders[o] = Nothing
  /\ book' = [book EXCEPT !.orders[o] = Content(u)]
  /\ desk' = [desk EXCEPT ![u] = [EmptyDesk EXCEPT !.change = desk[u].change]]
  /\ Cleared /\ UNCHANGED <<shop, todo>>
EditOrder(u, o, v) ==
  /\ Idle(u) /\ Seen.book.orders[o] # Nothing /\ Opens(u, Seen.book.orders[o].vendor, v)
  /\ desk' = [desk EXCEPT ![u].rows = Seen.book.orders[o].rows, ![u].vendor = v,
                          ![u].editing = o, ![u].fresh = FALSE]
  /\ Reads
CopyOrder_fault(u, o, v) ==
  /\ Idle(u) /\ Seen.book.orders[o] # Nothing /\ Opens(u, Seen.book.orders[o].vendor, v)
  /\ desk' = [desk EXCEPT ![u].rows = Seen.book.orders[o].rows, ![u].vendor = v, ![u].fresh = TRUE]
  /\ Reads
CopyOrder(u, o, v) ==
  /\ Idle(u) /\ Seen.book.orders[o] # Nothing /\ Opens(u, Seen.book.orders[o].vendor, v)
  /\ desk' = [desk EXCEPT ![u].rows = Seen.book.orders[o].rows, ![u].vendor = v,
                          ![u].editing = None, ![u].fresh = TRUE]
  /\ Reads
DeleteOrder(u, o) ==
  /\ Idle(u) /\ Seen.book.orders[o] # Nothing
  /\ book' = [book EXCEPT !.orders[o] = Nothing]
  /\ Cleared /\ UNCHANGED <<shop, desk, todo>>

-----------------------------------------------------------------------------
(* The catalogue: every save replaces a whole table by the page's copy.      *)

AddVendor(u, c, n) ==
  /\ Idle(u) /\ Seen.shop.vendors[c] = None /\ n \notin Listed(Seen.shop.vendors)
  /\ shop' = [shop EXCEPT !.vendors = [Seen.shop.vendors EXCEPT ![c] = n]]
  /\ Cleared /\ UNCHANGED <<book, desk, todo>>
DeleteVendors(u, S) ==
  /\ Idle(u) /\ \E c \in S : Seen.shop.vendors[c] # None
  /\ shop' = [shop EXCEPT !.vendors = [c \in Codes |-> IF c \in S THEN None ELSE Seen.shop.vendors[c]]]
  /\ Cleared /\ UNCHANGED <<book, desk, todo>>
(* Names typed over others; of two vendors with one name a single one stays.  *)
(* Then old orders, drafts and aliases follow, name by name.                  *)
EditVendors(u, names, kept) ==
  LET old == Seen.shop.vendors
      changed == {c \in Codes : old[c] # None /\ names[c] # None /\ names[c] # old[c]}
  IN  /\ Idle(u) /\ changed # {} /\ \A c \in Codes : old[c] = None => names[c] = None
      /\ kept \subseteq Codes /\ Listed(names) = {names[c] : c \in kept} \ {None}
      /\ \A c, d \in kept : names[c] # None /\ names[c] = names[d] => c = d
      /\ shop' = [shop EXCEPT !.vendors = [c \in Codes |-> IF c \in kept THEN names[c] ELSE None]]
      /\ \E order \in SetToSeqs(changed) :
           todo' = [todo EXCEPT ![u] = [i \in DOMAIN order |-> <<old[order[i]], names[order[i]]>>]]
      /\ Cleared /\ UNCHANGED <<book, desk>>
Called(r, name) == IF name = r[1] THEN r[2] ELSE name
Renamed(r, f) == [i \in DOMAIN f |-> IF f[i] = Nothing THEN Nothing
                                     ELSE [f[i] EXCEPT !.vendor = Called(r, @)]]
RenameEverywhere(u) ==
  /\ ~Idle(u)
  /\ LET r == Head(todo[u])
     IN  /\ book' = [orders |-> Renamed(r, book.orders), drafts |-> Renamed(r, book.drafts)]
         /\ shop' = [shop EXCEPT !.aliases = {<<Called(r, a[1]), a[2]>> : a \in @}]
  /\ todo' = [todo EXCEPT ![u] = Tail(@)]
  /\ renamed' = (renamed \/ cache.full)
  /\ UNCHANGED <<cache, desk>>

AddToProducts(u, p, s) ==
  /\ Idle(u) /\ Seen.shop.products[p] = None
  /\ shop' = [shop EXCEPT !.products = [Seen.shop.products EXCEPT ![p] = s]]
  /\ Cleared /\ UNCHANGED <<book, desk, todo>>
(* A file of the products F takes the place of the list of s; a code that     *)
(* another list has moves over, as codes are unique.                         *)
Upload(u, s, F) ==
  /\ Idle(u) /\ s \in Listed(Seen.shop.vendors) \cup {Common} /\ F # {}
  /\ shop' = [shop EXCEPT !.products = [p \in Products |->
                IF p \in F THEN s ELSE IF Seen.shop.products[p] = s THEN None
                ELSE Seen.shop.products[p]]]
  /\ Cleared /\ UNCHANGED <<book, desk, todo>>
EditProducts(u, p, s) ==
  /\ Idle(u) /\ Seen.shop.products[p] \notin {None, s}
  /\ shop' = [shop EXCEPT !.products = [Seen.shop.products EXCEPT ![p] = s]]
  /\ Cleared /\ UNCHANGED <<book, desk, todo>>
DeleteProducts(u, S) ==
  /\ Idle(u) /\ \E p \in S : Seen.shop.products[p] # None
  /\ shop' = [shop EXCEPT !.products = [p \in Products |-> IF p \in S THEN None ELSE Seen.shop.products[p]]]
  /\ Cleared /\ UNCHANGED <<book, desk, todo>>
EditAliases(u, a) ==
  /\ Idle(u) /\ a # Seen.shop.aliases
  /\ shop' = [shop EXCEPT !.aliases = a]
  /\ Cleared /\ UNCHANGED <<book, desk, todo>>

-----------------------------------------------------------------------------
Init ==
  /\ shop \in [vendors : [Codes -> {None}], products : [Products -> {Common}], aliases : {{}}]
  /\ book = [orders |-> [o \in OrderIds |-> Nothing], drafts |-> [d \in DraftIds |-> Nothing]]
  /\ cache = Nothing /\ desk = [u \in Users |-> EmptyDesk]
  /\ todo = [u \in Users |-> <<>>] /\ renamed = FALSE /\ calls \in CallSets

WritePage(u) ==
  \/ \E v \in Names : PickVendor(u, v)
  \/ \E p \in Products, n \in Quantities : AddProduct(u, p, n)
  \/ "rows" \notin calls /\ \E o \in OrderIds : SaveOrder(u, o)
  \/ /\ "rows" \in calls
     /\ \/ \E k \in 1 .. MaxRows, n \in Quantities \cup {0} : SetQuantity(u, k, n)
        \/ \E k \in 1 .. MaxRows : StartChange(u, k)
        \/ \E S \in SUBSET DOMAIN desk[u].rows : RemoveRows(u, S)
        \/ \E num \in [DOMAIN desk[u].rows -> 1 .. MaxRows + 1] : Reorder(u, num)
        \/ \E p \in Products, n \in Quantities : ApplyChange(u, p, n)
        \/ CancelChange(u)
  \/ "list" \in calls /\ ResetForm(u)
DraftPage(u) ==
  \E d \in DraftIds : \/ SaveDraft(u, d) \/ DeleteDraft(u, d)
                      \/ \E v \in Names : LoadDraft(u, d, v)
ListPage(u) ==
  \E o \in OrderIds : \/ DeleteOrder(u, o)
                      \/ \E v \in Names : EditOrder(u, o, v) \/ CopyOrder(u, o, v)
VendorPage(u) ==
  \/ \E c \in Codes, n \in Names : AddVendor(u, c, n)
  \/ /\ "rename" \in calls
     /\ \/ \E names \in [Codes -> Names \cup {None}], kept \in SUBSET Codes : EditVendors(u, names, kept)
        \/ RenameEverywhere(u)
        \/ \E S \in SUBSET Codes : DeleteVendors(u, S)
ProductPage(u) ==
  \/ \E F \in SUBSET Products : DeleteProducts(u, F)
  \/ \E s \in Names \cup {Common} :
       \/ \E p \in Products : AddToProducts(u, p, s) \/ EditProducts(u, p, s)
       \/ \E F \in SUBSET Products : Upload(u, s, F)
AliasPage(u) ==
  \E a \in SUBSET ((Names \cup {Everyone}) \X Products) : Cardinality(a) <= 1 /\ EditAliases(u, a)

Next ==
  /\ UNCHANGED calls
  /\ \E u \in Users :
       /\ "two" \in calls \/ \A v \in Users \ {u} : Idle(v) /\ desk[v] = EmptyDesk
       /\ \/ WritePage(u) \/ VendorPage(u)
          \/ "draft" \in calls /\ DraftPage(u)
          \/ "list" \in calls /\ ListPage(u)
          \/ "products" \in calls /\ ProductPage(u)
          \/ "aliases" \in calls /\ AliasPage(u)

Spec == Init /\ [][Next]_vars

-----------------------------------------------------------------------------
(* Properties.                                                               *)

(* What sessions read through the cache is what the tables say: every save    *)
(* clears it.  The renaming of a vendor is the one that does not              *)
(* (rename_vendor_everywhere, catalog.py:186).                               *)
CacheIsCurrent == cache.full /\ ~renamed => cache = Tables

(* After a copy, a reset or a save the form becomes a new order, and no order *)
(* is overwritten but one a session set out to edit, however the sessions'    *)
(* saves, deletions and drafts come in between (order_service.save_order).   *)
NewFormsMakeNewOrders ==
  [][book.orders # book'.orders =>
       \A u \in Users : desk[u].fresh /\ desk[u].rows # <<>> /\ desk'[u].rows = <<>> =>
         \A o \in OrderIds : book.orders[o] # Nothing => book'.orders[o] = book.orders[o]]_<<book, desk>>
=============================================================================
