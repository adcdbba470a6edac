--------------------------- MODULE MCTransactions ---------------------------
(* Transactions on a small instance: which values each constant takes. *)
EXTENDS Transactions

CONSTANTS e1, o1, o2, d1, a1
=============================================================================
