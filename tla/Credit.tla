------------------------------- MODULE Credit ------------------------------
(***************************************************************************)
(* Collecting udhaar (credit) from one shop: store_ops_service credit.py.   *)
(* The running system puts nothing on credit any more (create_bulk_order    *)
(* of store_ops, where the gateway sends it, refuses): what is left is an   *)
(* account with wholesale orders of the past, and its collections.          *)
(* Requests overlap as in SupplierPurchase, and a process may die between   *)
(* the commits of a request.  Amounts are in paise; the code rounds every   *)
(* float to them.                                                           *)
(***************************************************************************)
EXTENDS Integers, Sequences, FiniteSets, Columns

CONSTANTS
  Requests,    \* request slots
  Totals,      \* final_amount of the orders of the past
  Debts,       \* what the shop may owe for them
  Pays,        \* amounts collected
  MaxOrders,   \* bound: orders of the past
  MaxEntries   \* bound: ledger entries

ASSUME BoundsAssumption == MaxOrders \in Nat /\ MaxEntries \in Nat
ASSUME TotalsAssumption == Totals \subseteq Nat \ {0}
ASSUME DebtsAssumption == Debts \subseteq Nat
ASSUME PaysAssumption == Pays \subseteq Nat \ {0}

VARIABLES
  owed,        \* retailer_profiles.outstanding_balance of the shop
  orders,      \* its B2B orders, oldest first: [total, paid, st]
  ledger,      \* credit_ledger_entries from the last one of the past on
  invoiced,    \* orders with an invoice
  req,         \* the requests in flight
  overlap      \* whether requests overlap in this behaviour; never changes

vars == <<owed, orders, ledger, invoiced, req, overlap>>

\* "pending" stands for processing too, which a collection may pay as well;
\* "paid" for failed, which it passes over as well.
Statuses == {"pending", "partially_paid", "paid"}
Order == [total : Nat, paid : Nat, st : Statuses]
Entry == [amount : Nat, after : Nat]

\* owed, ords: the balance and the orders read; touched: orders whose invoice
\* is still to be issued.
Request == [pc : {"loaded", "collected"}, amount : Nat, owed : Nat, ords : Seq(Order),
            touched : SUBSET (1 .. MaxOrders)]
Idle == [pc |-> "idle"]
\* The slot of all requests where none overlap.
Alone == CHOOSE r \in Requests : TRUE

\* The rows of the past: any orders in any state, not paid beyond their total;
\* the debt need not match them (some were paid in cash, some were never put
\* on the account).
Legacy == UNION {[total : {t}, paid : 0 .. t, st : Statuses] : t \in Totals}
Init ==
  /\ owed \in Debts
  /\ orders \in UNION {[1 .. n -> Legacy] : n \in 0 .. MaxOrders}
  /\ ledger = <<[amount |-> 0, after |-> owed]>>
  /\ invoiced = {}
  /\ req = [r \in Requests |-> Idle]
  /\ overlap \in BOOLEAN

-----------------------------------------------------------------------------
\* A collection arrives (from the bakery, or from the shop by pay_udhaar) and
\* reads the balance and the orders.
Load(r, amount) ==
  /\ req[r] = Idle
  /\ overlap \/ r = Alone
  /\ req' = [req EXCEPT ![r] = [pc |-> "loaded", amount |-> amount, owed |-> owed,
                                ords |-> orders, touched |-> {}]]
  /\ UNCHANGED <<owed, orders, ledger, invoiced, overlap>>

Start(r) == \E n \in Pays : Load(r, n)

Done(r) == req' = [req EXCEPT ![r] = Idle]

WriteOwed_Skipped(q, n) == UNCHANGED owed
WriteOwed(q, n) == owed' = Flush(owed, q.owed, n)

-----------------------------------------------------------------------------
(***************************************************************************)
(* credit_payment: balance, ledger entry and orders in one commit.          *)
(***************************************************************************)
Lower(a, b) == IF a < b THEN a ELSE b

\* What one turn of the loop applies to an order, given what remains.
Applied_Total(left, o) == IF o.st = "paid" THEN 0 ELSE Lower(left, o.total)
Applied_AnyStatus(left, o) == Lower(left, o.total - o.paid)
Applied(left, o) == IF o.st = "paid" THEN 0 ELSE Lower(left, o.total - o.paid)

\* _allocate_collection_to_orders: left[i] remains after the turn for order i.
Allocations(ords, pay) ==
  {left \in [0 .. Len(ords) -> 0 .. pay] :
     /\ left[0] = pay
     /\ \A i \in 1 .. Len(ords) : left[i] = left[i - 1] - Applied(left[i - 1], ords[i])}

\* The order row `cur' after n was applied to it as it was read, `o'.
Settle(cur, o, n) ==
  [cur EXCEPT !.paid = Flush(@, o.paid, o.paid + n),
              !.st = IF n = 0 THEN @
                     ELSE Flush(@, o.st, IF o.paid + n >= o.total THEN "paid"
                                         ELSE "partially_paid")]

\* The orders a collection paid towards.
Touched(ords, left) == {i \in DOMAIN ords : left[i] < left[i - 1]}

\* A paisa of tolerance; the balance never falls below nothing.
Collectable(q) == q.amount <= q.owed + 1
Reduced(debt, pay) == IF pay < debt THEN debt - pay ELSE 0

CreditPayment(r) ==
  LET q == req[r]
      after == Reduced(q.owed, q.amount)
  IN  /\ q.pc = "loaded"
      /\ Collectable(q)
      /\ Len(ledger) < MaxEntries
      /\ WriteOwed(q, after)
      /\ ledger' = Append(ledger, [amount |-> q.amount, after |-> after])
      /\ \E left \in Allocations(q.ords, q.amount) :
           /\ orders' = [i \in DOMAIN orders |->
                           IF i \in DOMAIN q.ords
                             THEN Settle(orders[i], q.ords[i], left[i - 1] - left[i])
                             ELSE orders[i]]
           /\ req' = [req EXCEPT ![r] = [q EXCEPT !.pc = "collected",
                                                   !.touched = Touched(q.ords, left)]]
      /\ UNCHANGED <<invoiced, overlap>>

\* issue_from_order for one of the orders paid for, in a transaction of its
\* own; it returns the invoice the order already has.
IssueFromOrder(r) ==
  /\ req[r].pc = "collected"
  /\ \E i \in req[r].touched :
       /\ \A j \in req[r].touched : i <= j
       /\ invoiced' = invoiced \cup {i}
       /\ req' = [req EXCEPT ![r].touched = @ \ {i}]
  /\ UNCHANGED <<owed, orders, ledger, overlap>>

-----------------------------------------------------------------------------
\* Other services close an order without a look at the account: mark_delivered
\* sets it to paid, whatever is open of it; a declined payment to failed.
CloseOrder(i) ==
  /\ overlap \/ \A r \in Requests : req[r] = Idle
  /\ orders[i].st # "paid"
  /\ orders' = [orders EXCEPT ![i].st = "paid"]
  /\ UNCHANGED <<owed, ledger, invoiced, req, overlap>>

\* A request ends: refused, finished, or its process died.
Return(r) ==
  /\ req[r] # Idle
  /\ Done(r)
  /\ UNCHANGED <<owed, orders, ledger, invoiced, overlap>>

Next ==
  \/ \E r \in Requests : Start(r) \/ CreditPayment(r) \/ IssueFromOrder(r) \/ Return(r)
  \/ \E i \in DOMAIN orders : CloseOrder(i)

Spec == Init /\ [][Next]_vars

-----------------------------------------------------------------------------
\* Balance, ledger rows, orders and the snapshots of credit.py keep the
\* types of their columns.
TypeOK ==
  /\ owed \in Nat
  /\ orders \in Seq(Order)
  /\ ledger \in Seq(Entry)
  /\ invoiced \subseteq 1 .. MaxOrders
  /\ req \in [Requests -> Request \cup {Idle}]
  /\ overlap \in BOOLEAN

\* However the collections of _allocate_collection_to_orders overlap, with each
\* other and with deliveries, no order is credited with more than it costs.
NeverOverpaid == \A i \in DOMAIN orders : orders[i].paid <= orders[i].total

\* The ledger that credit_payment writes is a chain: every entry takes its
\* amount off the balance that the one before left, and the last one leaves
\* what the shop owes.  (Of requests that do not overlap, like the refinement
\* below.)
LedgerChain ==
  ~ overlap =>
    /\ owed = ledger[Len(ledger)].after
    /\ \A n \in 2 .. Len(ledger) :
         ledger[n].after = ledger[n - 1].after - Lower(ledger[n].amount, ledger[n - 1].after)

\* The account is a khata (Khata.tla): a collection clears the oldest open
\* bills first, and the debt and the bills fall by the same amount, whatever
\* part payments and closed orders lie in between.  Behaviours with overlapping
\* requests, where updates are lost, map to a khata nobody uses.
Debt == IF overlap THEN 0 ELSE owed
Bills == IF overlap THEN <<>>
         ELSE [i \in DOMAIN orders |->
                 IF orders[i].st = "paid" THEN 0 ELSE orders[i].total - orders[i].paid]
Book == INSTANCE Khata WITH Tolerance <- 1, owed <- Debt, due <- Bills
ImplementsKhata == Book!Spec
=============================================================================
