---------------------------- MODULE MCRefinement ----------------------------
(* The refinement of OrderBook, on the instances of Orders. *)
EXTENDS OrdersRefinement, MCOrders

=============================================================================
