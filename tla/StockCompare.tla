---------------------------- MODULE StockCompare ----------------------------
(****************************************************************************)
(* The comparison of the warehouse's stock with the ERP files of the         *)
(* companies and with the count of an outside depot                          *)
(* (services/stock_compare.py), and the page that runs it, keeps a list of   *)
(* differences to be ignored, and prints a sheet for the count               *)
(* (pages/stocktake.py).  Each session keeps the result of its last          *)
(* comparison; the list is a table all sessions share.  A click runs the     *)
(* page anew: the page reads the list, applies the user's ticks to the rows  *)
(* it read, and writes by id; another session may write in between.          *)
(****************************************************************************)
EXTENDS Integers, Sequences, FiniteSets, SequencesExt

CONSTANTS
  Companies,    \* the companies whose ERP stock is compared
  Keeper,       \* the company whose goods the depot keeps
  Depot,        \* what the depot's problems carry as their company
  Blank,        \* an empty cell, and the expiry of a problem that has none
  Costs,        \* names of costs, which no comparison counts
  Master,       \* the products table: [standard, names], names by company
  Rows,         \* the rows of inventory, as a sheet lists them
  Uploads,      \* what may be uploaded together: [erp, depot], see below
  InitialStock, \* units by row
  Changes,      \* <<row, units>>: what other pages may set a row to
  Reasons, Sessions,
  MaxIds,       \* bound: ids the list ever gives
  MaxRuns       \* bound: comparisons in a behaviour

VARIABLES
  stock,    \* units of each row of inventory
  ignored,  \* stock_compare_ignored_problems
  nextId,   \* its next id (AUTOINCREMENT: an id is never used twice)
  session,  \* session state, and the request a session has under way
  runs      \* how many comparisons there were: a bound's counter

vars == <<stock, ignored, nextId, session, runs>>

(* An ERP file is a sequence of [name, qty] whose last row is the total; a   *)
(* depot file one of [name, expiry, qty], with a name on the first row of    *)
(* each product only.  An upload is [erp |-> files by company,               *)
(* depot |-> the depot's file, or <<>>].                                     *)

CompareOK ==
  /\ Keeper \in Companies /\ Depot \notin Companies
  /\ InitialStock \in [DOMAIN Rows -> Nat]
  /\ Changes \subseteq (DOMAIN Rows) \X Nat
  /\ \A i \in DOMAIN Rows : Rows[i].depot => Rows[i].company = Keeper
  /\ \A i \in DOMAIN Master : \A c \in Companies : Master[i].standard \in Master[i].names[c]

-----------------------------------------------------------------------------
(* Reading the files.                                                        *)

SumOver(S, f(_)) == SumFunction([x \in S |-> f(x)])

(* The last row is the total; rows without a name or a number are skipped.   *)
ErpLines(file) ==
  IF file = <<>> THEN <<>>
  ELSE SelectSeq(Front(file), LAMBDA x : x.name \notin Costs \cup {Blank} /\ x.qty # Blank)

DepotLines_bare(file) ==
  SelectSeq(file, LAMBDA x : x.name \notin Costs \cup {Blank} /\ x.qty # Blank)
(* A row without a name belongs to the product named last.                   *)
DepotLines(file) ==
  LET Named(i) == Max({j \in 1 .. i : j = 1 \/ file[j].name # Blank})
      filled == [i \in DOMAIN file |-> [file[i] EXCEPT !.name = file[Named(i)].name]]
  IN  SelectSeq(filled, LAMBDA x : x.name \notin Costs \cup {Blank} /\ x.qty # Blank)

(* The standard name of the first product that goes by a name.               *)
StandardOf(company, name) ==
  LET known == {i \in DOMAIN Master : name \in Master[i].names[company]}
  IN  IF known = {} THEN Blank ELSE Master[Min(known)].standard

Matched(company, lines) == {i \in DOMAIN lines : StandardOf(company, lines[i].name) \notin Costs \cup {Blank}}
Unmatched(company, lines) == {i \in DOMAIN lines : StandardOf(company, lines[i].name) = Blank}

-----------------------------------------------------------------------------
(* The comparison.                                                           *)

OnHand(units, company, product) ==
  SumOver({i \in DOMAIN Rows : Rows[i].company = company /\ Rows[i].product = product}, LAMBDA i : units[i])
InDepot(units, product, expiry) ==
  SumOver({i \in DOMAIN Rows : Rows[i].depot /\ Rows[i].product = product /\ Rows[i].expiry = expiry},
          LAMBDA i : units[i])
Stocked == {<<Rows[i].company, Rows[i].product>> : i \in {j \in DOMAIN Rows : Rows[j].product \notin Costs}}

(* Per company and product, of the companies one row of whose file matched:  *)
(* every product either side has, 0 for the side that lacks it.              *)
CompareErp(units, files) ==
  LET Lines(c) == ErpLines(files[c])
      Of(c, p) == {i \in Matched(c, Lines(c)) : StandardOf(c, Lines(c)[i].name) = p}
      read == UNION {{<<c, StandardOf(c, Lines(c)[i].name)>> : i \in Matched(c, Lines(c))} : c \in DOMAIN files}
      companies == {k[1] : k \in read}
  IN  [k \in read \cup {r \in Stocked : r[1] \in companies} |->
         [wms |-> OnHand(units, k[1], k[2]),
          other |-> SumOver(Of(k[1], k[2]), LAMBDA i : Lines(k[1])[i].qty)]]

(* Per product and expiry, if a file of the depot was given.                 *)
CompareDepot(units, file) ==
  LET lines == DepotLines(file)
      Key(i) == <<StandardOf(Keeper, lines[i].name), lines[i].expiry>>
      read == {Key(i) : i \in Matched(Keeper, lines)}
      kept == {<<Rows[i].product, Rows[i].expiry>> :
                 i \in {j \in DOMAIN Rows : Rows[j].depot /\ Rows[j].product \notin Costs}}
  IN  [k \in IF file = <<>> THEN {} ELSE read \cup kept |->
         [wms |-> InDepot(units, k[1], k[2]),
          other |-> SumOver({i \in Matched(Keeper, lines) : Key(i) = k}, LAMBDA i : lines[i].qty)]]

ProblemKey(kind, company, product, expiry) ==
  [kind |-> kind, company |-> company, product |-> product, expiry |-> expiry]

(* Names that no product has, one problem for each row of a file; then the   *)
(* lines that differ.                                                        *)
ImportIssues(company, names, lines) ==
  {[key |-> ProblemKey("match", company, lines[i].name, IF company = Depot THEN lines[i].expiry ELSE Blank),
    at |-> i, wms |-> 0, other |-> lines[i].qty] : i \in Unmatched(names, lines)}
ProblemList(upload, erp, depot) ==
     UNION {ImportIssues(c, c, ErpLines(upload.erp[c])) : c \in DOMAIN upload.erp}
     \cup ImportIssues(Depot, Keeper, DepotLines(upload.depot))
     \cup {[key |-> ProblemKey("erp", k[1], k[2], Blank), at |-> 0, wms |-> erp[k].wms, other |-> erp[k].other] :
             k \in {x \in DOMAIN erp : erp[x].wms # erp[x].other}}
     \cup {[key |-> ProblemKey("depot", Depot, k[1], k[2]), at |-> 0, wms |-> depot[k].wms, other |-> depot[k].other] :
             k \in {x \in DOMAIN depot : depot[x].wms # depot[x].other}}

(* What a session keeps of its last comparison.  The stock is SELECTed for   *)
(* the ERP's half and again for the depot's; no property relates the two.    *)
Result(units, upload) ==
  LET erp == CompareErp(units, upload.erp)
      depot == CompareDepot(units, upload.depot)
  IN  [upload |-> upload, erp |-> erp, depot |-> depot, problems |-> ProblemList(upload, erp, depot)]
NoResult == [erp |-> <<>>, problems |-> {}]

(* The problems a page shows: neither ignored nor nothing on both sides.     *)
ShownProblems(result, list) ==
  {p \in result.problems : ~(p.wms = 0 /\ p.other = 0) /\ \A e \in list : e.key # p.key}

-----------------------------------------------------------------------------
Resting == [at |-> "idle", result |-> NoResult, work |-> {}, reason |-> Blank]

Init ==
  /\ stock = InitialStock /\ ignored = {} /\ nextId = 1 /\ runs = 0
  /\ session = [s \in Sessions |-> Resting]

At(s, step) == session[s].at = step
Goes(s, step, work, reason) ==
  session' = [session EXCEPT ![s] = [@ EXCEPT !.at = step, !.work = work, !.reason = reason]]
Rests(s) == Goes(s, "idle", {}, Blank)

(* Other pages change the stock.                                             *)
ChangeStock(change) ==
  /\ stock' = [stock EXCEPT ![change[1]] = change[2]]
  /\ UNCHANGED <<ignored, nextId, session, runs>>

(* Compare, or compare the same files again: the stock is read, ...          *)
Compare(s, upload) ==
  /\ At(s, "idle") /\ runs < MaxRuns
  /\ session' = [session EXCEPT ![s] = [@ EXCEPT !.at = "compared", !.result = Result(stock, upload)]]
  /\ runs' = runs + 1
  /\ UNCHANGED <<stock, ignored, nextId>>

(* ... or a file cannot be read, and the session has no result any more.     *)
CompareFails(s) ==
  /\ At(s, "idle") /\ session[s].result # NoResult
  /\ session' = [session EXCEPT ![s] = Resting]
  /\ UNCHANGED <<stock, ignored, nextId, runs>>

(* What the result says of an ignored problem now: a set of one or none.     *)
NewAmounts(result, e) ==
  LET erpKey == <<e.key.company, e.key.product>>
      depotKey == <<e.key.product, e.key.expiry>>
  IN  {result.erp[k] : k \in {x \in DOMAIN result.erp : e.key.kind = "erp" /\ x = erpKey}}
      \cup {result.depot[k] : k \in {x \in DOMAIN result.depot : e.key.kind = "depot" /\ x = depotKey}}

(* The list is read, and its entries get new amounts, by id.                 *)
ReadIgnored(s) ==
  LET result == session[s].result
      updates == UNION {{[id |-> e.id, wms |-> a.wms, other |-> a.other] : a \in NewAmounts(result, e)} : e \in ignored}
  IN  /\ At(s, "compared")
      /\ IF updates = {} THEN Rests(s) ELSE Goes(s, "refresh", updates, Blank)
      /\ UNCHANGED <<stock, ignored, nextId, runs>>

Refreshed(e, updates) ==
  IF \E u \in updates : u.id = e.id
  THEN LET u == CHOOSE u \in updates : u.id = e.id IN [e EXCEPT !.wms = u.wms, !.other = u.other]
  ELSE e
RefreshIgnored(s) ==
  /\ At(s, "refresh")
  /\ ignored' = {Refreshed(e, session[s].work) : e \in ignored}
  /\ Rests(s)
  /\ UNCHANGED <<stock, nextId, runs>>

(* Problems are ticked and a reason is given: the page reads the list for    *)
(* what it shows, ...                                                        *)
ChooseProblems(s, problems, reason) ==
  /\ At(s, "idle") /\ problems # {}
  /\ problems \subseteq ShownProblems(session[s].result, ignored)
  /\ nextId + Cardinality(problems) + SumOver({t \in Sessions : At(t, "ignore")}, LAMBDA t : Cardinality(session[t].work))
       <= MaxIds + 1
  /\ Goes(s, "ignore", problems, reason)
  /\ UNCHANGED <<stock, ignored, nextId, runs>>

(* ... and each problem is entered under its key, or its entry rewritten.    *)
(* Of rows with one key the last counts.                                     *)
Entered(problems, reason) ==
  LET last == {p \in problems : \A o \in problems : o.key = p.key => o.at <= p.at}
      fresh == SetToSeq({p \in last : \A e \in ignored : e.key # p.key})
      Entry(id, p) == [id |-> id, key |-> p.key, reason |-> reason, wms |-> p.wms, other |-> p.other]
  IN  [new |-> {Entry(nextId + i - 1, fresh[i]) : i \in DOMAIN fresh},
       old |-> UNION {{Entry(e.id, p) : p \in {x \in last : x.key = e.key}} : e \in ignored}]
AddIgnored(s) ==
  LET entered == Entered(session[s].work, session[s].reason)
  IN  /\ At(s, "ignore")
      /\ ignored' = {e \in ignored : \A o \in entered.old : o.id # e.id} \cup entered.old \cup entered.new
      /\ nextId' = nextId + Cardinality(entered.new)
      /\ Rests(s)
      /\ UNCHANGED <<stock, runs>>

(* Entries of the list are ticked, and removed by id.                        *)
ChooseEntries(s, entries) ==
  /\ At(s, "idle") /\ entries # {} /\ entries \subseteq ignored
  /\ Goes(s, "remove", entries, Blank)
  /\ UNCHANGED <<stock, ignored, nextId, runs>>
RemoveIgnored_reused(s) ==
  LET left == {e \in ignored : \A c \in session[s].work : c.id # e.id}
  IN  /\ At(s, "remove")
      /\ ignored' = left /\ nextId' = 1 + Max({0} \cup {e.id : e \in left})
      /\ Rests(s)
      /\ UNCHANGED <<stock, runs>>
RemoveIgnored(s) ==
  /\ At(s, "remove")
  /\ ignored' = {e \in ignored : \A c \in session[s].work : c.id # e.id}
  /\ Rests(s)
  /\ UNCHANGED <<stock, nextId, runs>>

(* Reasons are reworded: only entries whose reason differs from the one read *)
(* are written, by id.                                                       *)
Reword(s, entries, reason) ==
  /\ At(s, "idle") /\ entries # {}
  /\ entries \subseteq {e \in ignored : e.reason # reason}
  /\ Goes(s, "reword", entries, reason)
  /\ UNCHANGED <<stock, ignored, nextId, runs>>
UpdateReasons(s) ==
  /\ At(s, "reword")
  /\ ignored' = {IF \E c \in session[s].work : c.id = e.id THEN [e EXCEPT !.reason = session[s].reason] ELSE e :
                   e \in ignored}
  /\ Rests(s)
  /\ UNCHANGED <<stock, nextId, runs>>

Click(s) ==
  \/ \E u \in Uploads : Compare(s, u)
  \/ CompareFails(s)
  \/ \E r \in Reasons : \/ \E P \in SUBSET ShownProblems(session[s].result, ignored) : ChooseProblems(s, P, r)
                        \/ \E E \in SUBSET ignored : Reword(s, E, r)
  \/ \E E \in SUBSET ignored : ChooseEntries(s, E)
Request(s) ==
  \/ ReadIgnored(s) \/ RefreshIgnored(s) \/ AddIgnored(s) \/ RemoveIgnored(s) \/ UpdateReasons(s)
Next ==
  \/ \E s \in Sessions : Click(s) \/ Request(s)
  \/ \E c \in Changes : ChangeStock(c)

Spec == Init /\ [][Next]_vars

-----------------------------------------------------------------------------
(* The sheet for the count.                                                  *)

(* An ERP quantity is shared among the rows of a product: from the smallest, *)
(* each row that still fits gets what it holds; the largest gets the rest.   *)
Allocated(rows, units, quantity) ==
  LET order == SetToSortSeq(rows, LAMBDA i, j : units[i] < units[j] \/ (units[i] = units[j] /\ i < j))
      Give(given, i) == IF units[i] <= given.left
                        THEN [left |-> given.left - units[i], to |-> given.to \cup {i}] ELSE given
      given == FoldLeft(Give, [left |-> quantity, to |-> {}], Front(order))
  IN  [i \in rows |-> IF i = Last(order) THEN given.left ELSE IF i \in given.to THEN units[i] ELSE 0]

(* The ignored products the session's result has amounts for: what the ERP   *)
(* says stands in their book column.                                         *)
Substituted(result, list) ==
  {k \in DOMAIN result.erp : \E e \in list : e.key.company = k[1] /\ e.key.product = k[2]}
RowsFor(k) == {i \in DOMAIN Rows : Rows[i].company = k[1] /\ Rows[i].product = k[2]}

(* Lines of the sheet: every row of stock, and ignored products without one, *)
(* but those with nothing on either side.                                    *)
Sheet(result, list, units) ==
  LET Book(i) == LET k == <<Rows[i].company, Rows[i].product>>
                 IN  IF k \in Substituted(result, list)
                     THEN Allocated(RowsFor(k), units, result.erp[k].other)[i] ELSE units[i]
      lines == {[of |-> <<Rows[i].company, Rows[i].product>>, row |-> i, book |-> Book(i), actual |-> units[i]] :
                  i \in DOMAIN Rows}
               \cup {[of |-> k, row |-> 0, book |-> result.erp[k].other, actual |-> result.erp[k].wms] :
                       k \in {x \in Substituted(result, list) : RowsFor(x) = {}}}
  IN  {l \in lines : ~(l.book = 0 /\ l.actual = 0)}

-----------------------------------------------------------------------------
(* Properties.                                                               *)

(* What an uploaded file counts is in the result, as a product's amount or   *)
(* as a name to be matched, to the last unit: rows of one product under      *)
(* several names, names two products go by, rows without a name included.    *)
(* (The depot counts no costs.)                                              *)
FileAccounted ==
  \A s \in Sessions : session[s].result # NoResult =>
    LET result == session[s].result
        Unknown(c) == SumOver({p \in result.problems : p.key.kind = "match" /\ p.key.company = c}, LAMBDA p : p.other)
        Cost(c, lines) == SumOver({i \in DOMAIN lines : lines[i].name \in Costs}, LAMBDA i : lines[i].qty)
    IN  /\ \A c \in DOMAIN result.upload.erp :
             LET file == result.upload.erp[c]
             IN  Last(file).qty = SumOver({k \in DOMAIN result.erp : k[1] = c}, LAMBDA k : result.erp[k].other)
                                    + Unknown(c) + Cost(c, Front(file))
        /\ SumOver({i \in DOMAIN result.upload.depot : result.upload.depot[i].qty # Blank},
                   LAMBDA i : result.upload.depot[i].qty)
             = SumOver(DOMAIN result.depot, LAMBDA k : result.depot[k].other) + Unknown(Depot)

(* The sheet for the count adds up: its lines of a product hold the stock in *)
(* one column and, in the other, the stock or what the ERP has if the        *)
(* product's difference is ignored, however the stock has moved since.       *)
SheetBalances ==
  \A s \in Sessions :
    LET result == session[s].result
        sheet == Sheet(result, ignored, stock)
        Column(k, f(_)) == SumOver({l \in sheet : l.of = k}, f)
    IN  /\ \A k \in {<<Rows[i].company, Rows[i].product>> : i \in DOMAIN Rows} :
             Column(k, LAMBDA l : l.actual) = OnHand(stock, k[1], k[2])
        /\ \A k \in {l.of : l \in sheet} :
             Column(k, LAMBDA l : l.book) =
               IF k \in Substituted(result, ignored) THEN result.erp[k].other ELSE OnHand(stock, k[1], k[2])

AmountsAddUp == FileAccounted /\ SheetBalances

(* A problem comes to the list, goes from it, or gets another reason by the  *)
(* hand of a user who saw it so, never by a comparison that ends late or by  *)
(* a click on an entry that was meanwhile removed, or removed and made anew. *)
ByHand(step, f(_)) == \E s \in Sessions : At(s, step) /\ \E w \in session[s].work : f(w)
IgnoredByHand ==
  [][LET Now(e) == {f \in ignored' : f.key = e.key}
     IN  /\ \A e \in ignored : Now(e) = {} => ByHand("remove", LAMBDA w : w.id = e.id /\ w.key = e.key)
         /\ \A f \in ignored' :
              LET before == {e \in ignored : e.key = f.key}
              IN  \/ \E e \in before : e.reason = f.reason /\ e.id = f.id
                  \/ \E s \in Sessions : /\ session[s].at = "ignore" /\ session[s].reason = f.reason
                                         /\ \E w \in session[s].work : w.key = f.key
                  \/ \E s \in Sessions : /\ session[s].at = "reword" /\ session[s].reason = f.reason
                                         /\ \E w \in session[s].work : w.key = f.key /\ w.id = f.id]_vars
=============================================================================
