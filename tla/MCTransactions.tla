--------------------------- MODULE MCTransactions ---------------------------
(* Transactions for TLC.                                                   *)
EXTENDS Transactions, TLC

(* Requests are told apart by what they do only.                           *)
RequestSymmetry == Permutations(Requests)
=============================================================================
