------------------------------ MODULE MCOtp -------------------------------
(***************************************************************************)
(* Instances of Otp for TLC: two phones, two codes and a row that           *)
(* _check_otp inserts.                                                      *)
(***************************************************************************)
EXTENDS Otp, TLC

\* Phones are interchangeable.
Symmetry == Permutations(Phones)

\* A second row that outlives its lifetime is not followed further.
Bounded == Cardinality({i \in DOMAIN rows : rows[i].expired}) <= 1
=============================================================================
