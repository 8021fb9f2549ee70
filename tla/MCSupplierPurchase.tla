------------------------ MODULE MCSupplierPurchase -------------------------
(***************************************************************************)
(* Instances of SupplierPurchase for TLC.  Bills of 11 and 5 paise: 8 is a *)
(* first payment within the paisa of tolerance of the first (80% is 9), and *)
(* 4 then overshoots what is due by a paisa; of the second, 4 is exactly    *)
(* 80%, and 8 is more than the bill.                                        *)
(***************************************************************************)
EXTENDS SupplierPurchase, TLC

MCQty == [p \in POs |-> IF p = "po1" THEN 2 ELSE 1]
MCTotal == [p \in POs |-> IF p = "po1" THEN 11 ELSE 5]

\* Request slots and gateway orders are interchangeable.
Symmetry == Permutations(Requests) \cup Permutations(RzOrders)

\* A request slot handles any number of requests, but a PO is paid at most
\* this often per run.
CONSTANT MaxPayments
Bounded == \A p \in POs : settled[p] <= MaxPayments
=============================================================================
