--------------------------- MODULE MCTransactions ---------------------------
(***************************************************************************)
(* Transactions for TLC: transactions are interchangeable.                 *)
(***************************************************************************)
EXTENDS Transactions, TLC

Symmetry == Permutations(Txns)
=============================================================================
