-------------------------- MODULE MCCartCheckout ---------------------------
(***************************************************************************)
(* Instances of CartCheckout for TLC: products of two shops                  *)
(* with little enough stock that a cart can ask for more.                   *)
(***************************************************************************)
EXTENDS CartCheckout, TLC

MCShop == [p \in Products |-> IF p = "scone" THEN "shop2" ELSE "shop1"]
MCStock == [p \in Products |-> IF p = "cake" THEN 2 ELSE 1]

\* A line grows with every add; no more than this in a run, and less where
\* requests overlap.
CONSTANT MaxQty
Bounded ==
  /\ \A i \in DOMAIN lines : lines[i].qty <= IF overlapping THEN 2 ELSE MaxQty
  /\ overlapping => Len(lines) <= 2
=============================================================================
