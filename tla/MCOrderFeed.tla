---------------------------- MODULE MCOrderFeed -----------------------------
(* OrderFeed on one order, with every verdict of the broker and every way a  *)
(* message may name the order.                                               *)
EXTENDS OrderFeed

CONSTANTS o1
OneOrder == {o1}
AllFates == {"FILLED", "REJECTED", "CANCELLED", "ERROR"}
AnyId == {[oid |-> TRUE, mid |-> TRUE], [oid |-> TRUE, mid |-> FALSE],
          [oid |-> FALSE, mid |-> TRUE]}
=============================================================================
