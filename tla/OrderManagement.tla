--------------------------- MODULE OrderManagement ---------------------------
(****************************************************************************)
(* The two halves of src/order_management_src beside each other: statements  *)
(* (PurchaseStatements) and, with variables of their own, the order forms    *)
(* (OrderForms).  They share sessions and products; the table of orders is,  *)
(* to the statements, what was last saved, and to the forms what they show.  *)
(****************************************************************************)
EXTENDS PurchaseStatements

CONSTANTS Codes, Names, OrderIds, DraftIds, Quantities, CallSets, MaxRows

VARIABLES shop, book, cache, desk, renaming, renamed, calls

Forms == INSTANCE OrderForms WITH todo <- renaming

(* What sessions read through the cache is what the tables say (OrderForms).  *)
CacheIsCurrent == Forms!CacheIsCurrent
(* A form that is to become a new order overwrites none (OrderForms).        *)
NewFormsMakeNewOrders == Forms!NewFormsMakeNewOrders
=============================================================================
