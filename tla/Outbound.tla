------------------------------ MODULE Outbound ------------------------------
(****************************************************************************)
(* The calls on outbound orders (OutboundOrders) and, with variables of their *)
(* own, the pages that make them (OutboundPages).  A transaction of a page is *)
(* one step there, which the calls divide; and to a page an order is what the *)
(* list shows of it.                                                        *)
(****************************************************************************)
EXTENDS OutboundOrders

CONSTANTS Users, Soon, Arke, Slips, Customers, NameOf, Registered, Dates, MaxQty, MaxFaults, Works

VARIABLES shelf, slips, sales, desk, todo, fns, renders, past, calls

Pages == INSTANCE OutboundPages WITH Orders <- Slips, stock <- shelf, orders <- slips

(* A form overwrites the order it was loaded from, and no other               *)
(* (OutboundPages).                                                         *)
EditsOverwriteTheirOrder == Pages!EditsOverwriteTheirOrder
(* The last sale of a customer follows the orders (OutboundPages).           *)
SalesFollowOrders == Pages!SalesFollowOrders
=============================================================================
