------------------------- MODULE SupplierPurchase --------------------------
(***************************************************************************)
(* Supplier purchase orders (services/store_ops_service purchases.py): the  *)
(* bakery raises a PO on a wholesaler shop, the shop accepts or rejects it, *)
(* the bakery pays it in parts by cash/UPI or through Razorpay, and every   *)
(* payment gets an invoice.                                                 *)
(*                                                                          *)
(* A request is a transaction: it loads the rows it needs (one consistent   *)
(* snapshot), computes, and commits the changed columns.  Requests overlap  *)
(* freely; with a single request slot the same specification describes the  *)
(* serial executions.  Money is counted in paise.                           *)
(***************************************************************************)
EXTENDS Integers, FiniteSets, FiniteSetsExt, Columns

CONSTANTS
  Requests,   \* request slots: how many HTTP requests can be in flight
  POs,        \* purchase-order ids
  Qty,        \* Qty[p]: units ordered
  Total,      \* Total[p]: round(unit_cost * qty, 2), in paise
  Amounts,    \* the amounts a caller may ask to pay
  RzOrders,   \* Razorpay order ids (each paid by at most one Razorpay payment)
  NoRz,       \* the request carries no Razorpay payment
  InitStock,  \* warehouse stock before the first PO
  InitAvail   \* what the supplier offers before the first PO

ASSUME POsAssumption == IsFiniteSet(POs)
ASSUME QtyAssumption == Qty \in [POs -> Nat \ {0}]
ASSUME TotalAssumption == Total \in [POs -> Nat]
ASSUME AmountsAssumption == Amounts \subseteq Nat \ {0}
ASSUME NoRzAssumption == NoRz \notin RzOrders
ASSUME StockAssumption == InitStock \in Nat /\ InitAvail \in Nat

VARIABLES
  po,         \* supplier_purchases: po[p] = [status, paid, note]
  payable,    \* retailer_profiles.payable_balance of the supplier
  stock,      \* products.stock_qty
  avail,      \* products.supplier_available_qty
  movements,  \* movements[p]: stock_movements rows written for p
  refs,       \* invoices.ref_id: the payment references that have an invoice
  invoiced,   \* invoiced[p]: invoice rows issued for payments of p
  rz,         \* gateway: rz[o] = [po, amount] of a Razorpay order, or NoOrder
  authorised, \* gateway: the Razorpay orders that were paid
  req,        \* the requests in flight
  settled,    \* history: settled[p] payments of p whose handler ran to its end
  applied,    \* history: <<o, p>> once the payment of o was applied to p
  cash        \* history: cash[p] what was paid on p, each payment once

goods == <<stock, avail, movements>>
bills == <<refs, invoiced, settled>>
money == <<applied, cash>>
vars == <<po, payable, stock, avail, movements, refs, invoiced, rz,
          authorised, req, settled, applied, cash>>

Statuses == {"absent", "pending", "received", "partial", "paid", "rejected"}
Ops == {"create", "receive", "buy", "accept", "reject", "pay", "rzcreate"}

\* The markers purchases.py keeps inside the free-text note column:
\* "rzp:<payment>" once applied, "rz_pending:<order>:<amount>" while open.
Tags == {"rzp", "rz_pending"} \X RzOrders
Row == [status : Statuses, paid : Nat, note : SUBSET Tags]
NoRow == [status |-> "absent", paid |-> 0, note |-> {}]
NoOrder == [opened |-> FALSE]

\* issue_supplier_payment's ref: the Razorpay payment, else
\* f"po-{purchase_id}-pay-{pay_amount}".
Refs == RzOrders \cup (POs \X Nat)
Ref(p, amt, o) == IF o # NoRz THEN o ELSE <<p, amt>>

Request == [pc : {"loaded", "paid", "invoice"}, op : Ops, p : POs,
            amt : Nat, rz : RzOrders \cup {NoRz}, row : Row, payable : Int,
            stock : Nat, avail : Nat, seen : BOOLEAN]
Idle == [pc |-> "idle"]

(***************************************************************************)
(* pay_rules.py: the first payment covers 80% of the bill, no payment       *)
(* exceeds the due amount; both comparisons allow one paisa.                *)
(***************************************************************************)
MinFirstPay(total) == (8 * total + 5) \div 10

PayAllowed_NoFirstRule(total, already, pay) ==
  pay > 0 /\ pay <= total - already + 1
PayAllowed(total, already, pay) ==
  LET due == total - already
  IN  /\ pay > 0
      /\ pay <= due + 1
      /\ already = 0 => pay + 1 >= MinFirstPay(total) \/ pay + 1 >= due

Max0_NoClamp(n) == n
Max0(n) == IF n > 0 THEN n ELSE 0

-----------------------------------------------------------------------------
Init ==
  /\ po = [p \in POs |-> NoRow]
  /\ payable = 0
  /\ stock = InitStock
  /\ avail = InitAvail
  /\ movements = [p \in POs |-> 0]
  /\ refs = {}
  /\ invoiced = [p \in POs |-> 0]
  /\ rz = [o \in RzOrders |-> NoOrder]
  /\ authorised = {}
  /\ req = [r \in Requests |-> Idle]
  /\ settled = [p \in POs |-> 0]
  /\ applied = {}
  /\ cash = [p \in POs |-> 0]

-----------------------------------------------------------------------------
(***************************************************************************)
(* Request life cycle.                                                      *)
(***************************************************************************)

\* A request arrives and reads its rows.  `amt' is the amount asked for: the
\* caller's, or the due amount when none is given.
Load(r, op, p, amt, o) ==
  /\ req[r] = Idle
  /\ req' = [req EXCEPT ![r] =
               [pc |-> "loaded", op |-> op, p |-> p, amt |-> amt, rz |-> o,
                row |-> po[p], payable |-> payable, stock |-> stock,
                avail |-> avail, seen |-> FALSE]]
  /\ UNCHANGED <<po, payable, goods, bills, rz, authorised, money>>

\* The request ends without writing: a guard refused it, the gateway or the
\* database failed, or the process died.  What it committed before stays.
Return(r) ==
  /\ req[r] # Idle
  /\ req' = [req EXCEPT ![r] = Idle]
  /\ UNCHANGED <<po, payable, goods, bills, rz, authorised, money>>

At(r, pc, op) == req[r].pc = pc /\ req[r].op = op

\* The row of the request's PO after its UPDATE.
Updated(r, status, paid, note) ==
  LET q == req[r]
  IN  [po EXCEPT ![q.p] =
         [status |-> Flush(@.status, q.row.status, status),
          paid   |-> Flush(@.paid, q.row.paid, paid),
          note   |-> Flush(@.note, q.row.note, note)]]

\* _apply_receive's effect on the product: absolute values from the snapshot,
\* and one stock_movements row.
ReceiveGoods(r) ==
  LET q == req[r]
  IN  /\ stock' = Flush(stock, q.stock, q.stock + Qty[q.p])
      /\ avail' = Flush(avail, q.avail, Max0(q.avail - Qty[q.p]))
      /\ movements' = [movements EXCEPT ![q.p] = @ + 1]

AddPayable_Skipped(r) == payable' = payable
AddPayable(r) ==
  payable' = Flush(payable, req[r].payable, req[r].payable + Total[req[r].p])

Done(r) == req' = [req EXCEPT ![r] = Idle]

-----------------------------------------------------------------------------
(***************************************************************************)
(* create_purchase: a pending PO, or received at once (instant_receive), or *)
(* received and paid at once (mark_paid), which leaves the payable alone    *)
(* and goes on to issue the invoice.                                        *)
(***************************************************************************)
StartCreate(r) ==
  \E op \in {"create", "receive", "buy"}, p \in POs :
    /\ po[p].status = "absent"
    /\ Load(r, op, p, Total[p], NoRz)

CreatePending(r) ==
  /\ At(r, "loaded", "create")
  /\ po[req[r].p].status = "absent"
  /\ po' = [po EXCEPT ![req[r].p].status = "pending"]
  /\ Done(r)
  /\ UNCHANGED <<payable, goods, bills, rz, authorised, money>>

CreateReceived(r) ==
  /\ At(r, "loaded", "receive")
  /\ po[req[r].p].status = "absent"
  /\ po' = [po EXCEPT ![req[r].p].status = "received"]
  /\ ReceiveGoods(r)
  /\ AddPayable(r)
  /\ Done(r)
  /\ UNCHANGED <<bills, rz, authorised, money>>

CreatePaid(r) ==
  /\ At(r, "loaded", "buy")
  /\ po[req[r].p].status = "absent"
  /\ po' = [po EXCEPT ![req[r].p] =
              [status |-> "paid", paid |-> Total[req[r].p], note |-> {}]]
  /\ ReceiveGoods(r)
  /\ cash' = [cash EXCEPT ![req[r].p] = Total[req[r].p]]
  /\ req' = [req EXCEPT ![r].pc = "paid"]
  /\ UNCHANGED <<payable, bills, rz, authorised, applied>>

(***************************************************************************)
(* accept_purchase (with _apply_receive) and reject_purchase.               *)
(***************************************************************************)
IsPending_Dropped(row) == row.status # "absent"
IsPending(row) == row.status = "pending"

StartDecision(r) ==
  \E op \in {"accept", "reject"}, p \in POs :
    /\ po[p].status # "absent"
    /\ Load(r, op, p, 0, NoRz)

AcceptPurchase(r) ==
  /\ At(r, "loaded", "accept")
  /\ IsPending(req[r].row)
  /\ po' = Updated(r, "received", req[r].row.paid, req[r].row.note)
  /\ ReceiveGoods(r)
  /\ AddPayable(r)
  /\ Done(r)
  /\ UNCHANGED <<bills, rz, authorised, money>>

RejectPurchase(r) ==
  /\ At(r, "loaded", "reject")
  /\ IsPending(req[r].row)
  /\ po' = Updated(r, "rejected", req[r].row.paid, req[r].row.note)
  /\ Done(r)
  /\ UNCHANGED <<payable, goods, bills, rz, authorised, money>>

-----------------------------------------------------------------------------
(***************************************************************************)
(* create_razorpay_pay: opens an order at the gateway, notes it on the PO,  *)
(* and only then hands it to the payer: an order opened by a request that   *)
(* fails before its commit is never paid.                                   *)
(***************************************************************************)
Payable_Any(row) == row.status # "absent"
Payable(row) == row.status \in {"received", "partial"}
Due(p, row) == Total[p] - row.paid

StartRzCreate(r) ==
  \E p \in POs :
    /\ po[p].status # "absent"
    /\ \E amt \in Amounts \cup {Max0(Due(p, po[p]))} :
         Load(r, "rzcreate", p, amt, NoRz)

CreateRazorpayPay(r) ==
  LET q == req[r]
  IN  /\ At(r, "loaded", "rzcreate")
      /\ Payable(q.row)
      /\ Due(q.p, q.row) > 0
      /\ PayAllowed(Total[q.p], q.row.paid, q.amt)
      /\ \E o \in RzOrders :
           /\ rz[o] = NoOrder
           /\ rz' = [rz EXCEPT ![o] = [p |-> q.p, amt |-> q.amt]]
           /\ po' = Updated(r, q.row.status, q.row.paid,
                            q.row.note \cup {<<"rz_pending", o>>})
      /\ Done(r)
      /\ UNCHANGED <<payable, goods, bills, authorised, money>>

\* External: the payer completes the Razorpay order at the gateway.
AuthoriseRz(o) ==
  /\ rz[o] # NoOrder
  /\ o \notin authorised
  /\ authorised' = authorised \cup {o}
  /\ UNCHANGED <<po, payable, goods, bills, rz, req, money>>

(***************************************************************************)
(* pay_purchase, called directly (cash, UPI) or by verify_razorpay_pay with *)
(* the payment of a Razorpay order whose signature checks out.  The PO and  *)
(* the amount are the caller's: nothing ties the Razorpay order to the PO.  *)
(* Without an amount, verify uses the one the note of that PO remembers for *)
(* the order; without that, the due amount.                                 *)
(***************************************************************************)
StartPay(r) ==
  \E p \in POs :
    /\ po[p].status # "absent"
    /\ \E amt \in Amounts \cup {Max0(Due(p, po[p]))} :
         Load(r, "pay", p, amt, NoRz)

StartVerify(r) ==
  \E o \in authorised, p \in POs :
    LET remembered == IF <<"rz_pending", o>> \in po[p].note THEN rz[o].amt
                      ELSE Max0(Due(p, po[p]))
    IN  /\ po[p].status # "absent"
        /\ \E amt \in Amounts \cup {remembered} : Load(r, "pay", p, amt, o)

\* The idempotency check, and the status line 315 derives.
IsApplied_Never(row, o) == FALSE
IsApplied(row, o) == <<"rzp", o>> \in row.note
PaidStatus(p, paid) == IF paid >= Total[p] THEN "paid" ELSE "partial"

PayPurchase(r) ==
  LET q == req[r]
      paid == q.row.paid + q.amt
  IN  /\ At(r, "loaded", "pay")
      /\ Payable(q.row)
      /\ ~ IsApplied(q.row, q.rz)
      /\ Due(q.p, q.row) > 0
      /\ PayAllowed(Total[q.p], q.row.paid, q.amt)
      /\ po' = Updated(r, PaidStatus(q.p, paid), paid,
                       q.row.note \cup (IF q.rz = NoRz THEN {}
                                        ELSE {<<"rzp", q.rz>>}))
      /\ payable' = Flush(payable, q.payable, Max0(q.payable - q.amt))
      /\ applied' = applied \cup (({q.rz} \ {NoRz}) \X {q.p})
      /\ cash' = IF <<q.rz, q.p>> \in applied THEN cash
                 ELSE [cash EXCEPT ![q.p] = @ + q.amt]
      /\ req' = [req EXCEPT ![r].pc = "paid"]
      /\ UNCHANGED <<goods, bills, rz, authorised>>

(***************************************************************************)
(* issue_supplier_payment after the payment's commit: a transaction of its  *)
(* own that looks the reference up and inserts the invoice if it is new.    *)
(***************************************************************************)
FindInvoice(r) ==
  /\ req[r].pc = "paid"
  /\ req' = [req EXCEPT ![r].pc = "invoice",
                        ![r].seen = Ref(req[r].p, req[r].amt, req[r].rz) \in refs]
  /\ UNCHANGED <<po, payable, goods, bills, rz, authorised, money>>

IssueInvoice(r) ==
  LET q == req[r]
  IN  /\ q.pc = "invoice"
      /\ refs' = refs \cup {Ref(q.p, q.amt, q.rz)}
      /\ invoiced' = IF q.seen THEN invoiced
                     ELSE [invoiced EXCEPT ![q.p] = @ + 1]
      /\ settled' = [settled EXCEPT ![q.p] = @ + 1]
      /\ Done(r)
      /\ UNCHANGED <<po, payable, goods, rz, authorised, money>>

-----------------------------------------------------------------------------
Start(r) ==
  \/ StartCreate(r)
  \/ StartDecision(r)
  \/ StartRzCreate(r)
  \/ StartPay(r)
  \/ StartVerify(r)

Handle(r) ==
  \/ CreatePending(r)
  \/ CreateReceived(r)
  \/ CreatePaid(r)
  \/ AcceptPurchase(r)
  \/ RejectPurchase(r)
  \/ CreateRazorpayPay(r)
  \/ PayPurchase(r)
  \/ FindInvoice(r)
  \/ IssueInvoice(r)

Next ==
  \/ \E r \in Requests : Start(r) \/ Handle(r) \/ Return(r)
  \/ \E o \in RzOrders : AuthoriseRz(o)

Spec == Init /\ [][Next]_vars

-----------------------------------------------------------------------------
(***************************************************************************)
(* Properties that hold however many requests overlap.                      *)
(***************************************************************************)

\* Purchase orders, balance, stock and the snapshots of purchases.py keep
\* the types of their columns.
TypeOK ==
  /\ po \in [POs -> Row]
  /\ payable \in Int
  /\ stock \in Nat
  /\ avail \in Nat
  /\ movements \in [POs -> Nat]
  /\ refs \subseteq Refs
  /\ invoiced \in [POs -> Nat]
  /\ rz \in [RzOrders -> [p : POs, amt : Nat] \cup {NoOrder}]
  /\ authorised \subseteq {o \in RzOrders : rz[o] # NoOrder}
  /\ req \in [Requests -> Request \cup {Idle}]
  /\ settled \in [POs -> Nat]
  /\ applied \subseteq RzOrders \X POs
  /\ cash \in [POs -> Nat]

\* What pay_rules.py lets a PO row reach: nothing paid, or at least 80% of the
\* bill (less the paisa of tolerance), and never more than the bill plus one.
PaidOK(p, paid) ==
  /\ paid <= Total[p] + 1
  /\ paid = 0 \/ paid + 1 >= MinFirstPay(Total[p])

\* pay_purchase keeps every PO inside the 80%-first rule and below its total,
\* lost updates included: each write starts from some row that obeyed the rule.
PaidRespectsPayRules == \A p \in POs : PaidOK(p, po[p].paid)

\* No PO is received, let alone paid, without its goods having been booked
\* into the warehouse: every path to money passes _apply_receive first.
PaidOnlyIfReceived ==
  \A p \in POs :
    po[p].paid > 0 \/ po[p].status \in {"received", "partial", "paid"}
      => movements[p] > 0

\* The inductive form: both hold of every row, the copies that requests in
\* flight still compute on included.
RowOK(p, row) ==
  /\ PaidOK(p, row.paid)
  /\ row.paid > 0 \/ row.status \in {"received", "partial", "paid"}
       => movements[p] > 0
RowsOK == \A p \in POs : RowOK(p, po[p])
LoadedOK == \A r \in Requests : req[r] # Idle => RowOK(req[r].p, req[r].row)

(***************************************************************************)
(* Properties of serial executions (one request slot), crashes included.    *)
(***************************************************************************)
Received == {p \in POs : po[p].status \in {"received", "partial", "paid"}}

\* payable_balance is what the received POs still owe; the paisa a payment
\* may overshoot, cut off at zero by max(0.0, ...), is the only drift.
PayableCoversDues ==
  LET owed == MapThenSumSet(LAMBDA p : Due(p, po[p]), Received)
  IN  owed <= payable /\ payable <= owed + Cardinality(POs)

\* The warehouse stock is explained by the stock movements, and a PO moved
\* stock exactly when it was received.
StockExplained ==
  /\ stock = InitStock
             + MapThenSumSet(LAMBDA p : Qty[p] * movements[p], POs)
  /\ \A p \in POs : movements[p] = IF p \in Received THEN 1 ELSE 0

\* purchases.py:294, "Idempotent Razorpay: same payment_id must not
\* double-apply.": pay_purchase credits no PO twice for one Razorpay payment,
\* however often and with whatever amount it is verified on that PO.
CreditedOnce == \A p \in POs : po[p].paid <= cash[p]
=============================================================================
