------------------------------ MODULE MCWallet ------------------------------
(***************************************************************************)
(* Instances of Wallet for TLC, in quarters of a paisa: a sum half a paisa  *)
(* off that earns no point, one a quarter off that earns a point, and a     *)
(* reward of whole paise.                                                   *)
(***************************************************************************)
EXTENDS Wallet, TLC, FiniteSetsExt

CONSTANT MaxLedger   \* bound: what the transactions may add up to

Symmetry == Permutations(Users) \cup Permutations(Requests)

Bounded == MapThenSumSet(LAMBDA u : ledger[u], Users) <= MaxLedger
=============================================================================
