----------------------------- MODULE MCCredit ------------------------------
(***************************************************************************)
(* Instances of Credit for TLC: every pair of orders of one and three paise *)
(* in any state, collections that pay one partly, one and a part of the     *)
(* next, or both, and debts below and above what is open.                   *)
(***************************************************************************)
EXTENDS Credit, TLC
=============================================================================
