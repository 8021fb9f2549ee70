--------------------------- MODULE MCSubscription ---------------------------
(***************************************************************************)
(* Instances of Subscription for TLC: a yearly plan lasts two months.       *)
(***************************************************************************)
EXTENDS Subscription, TLC

MCMonths == [c \in Cadences |-> IF c = "yearly" THEN 2 ELSE 1]
=============================================================================
