-------------------------- MODULE MCOrderPayment ---------------------------
(***************************************************************************)
(* Instances of OrderPayment for TLC.                                       *)
(***************************************************************************)
EXTENDS OrderPayment, TLC

\* Request slots and gateway payments are interchangeable.
Symmetry == Permutations(Requests) \cup Permutations(PayIds)
=============================================================================
