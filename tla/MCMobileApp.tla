---------------------------- MODULE MCMobileApp ----------------------------
(* One page: each tab with calls that fail, and the sessions of a page     *)
(* that uses the stock and the expiry tab.                                 *)
EXTENDS MobileApp
Show(t, terms, filters, names) ==
  [tabs |-> {t}, terms |-> terms, filters |-> filters, names |-> names,
   login |-> FALSE, faults |-> TRUE]
Sessions(t) ==
  [tabs |-> {t}, terms |-> {"a"}, filters |-> {"f"}, names |-> {},
   login |-> TRUE, faults |-> FALSE]
Work == {Show("stock", {"a"}, {"f", "g"}, {"x", "y"}),
         Show("purchase", {"a", "b"}, {"f"}, {"x"}),
         Show("expiry", {}, {"f", "g"}, {"x", "y"}),
         Show("export", {}, {"f", "g"}, {"x"}),
         Sessions("stock"), Sessions("expiry")}
=============================================================================
