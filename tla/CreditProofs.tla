---------------------------- MODULE CreditProofs -----------------------------
(***************************************************************************)
(* For every number of orders, collections and overlapping requests: no     *)
(* order is credited with more than it costs.  Where requests do not        *)
(* overlap, at whichever commit a request died: the ledger is a chain that  *)
(* ends in what the shop owes, and the account is a khata (Khata.tla).      *)
(***************************************************************************)
EXTENDS Credit, SequenceTheorems, WellFoundedInduction, TLAPS

-----------------------------------------------------------------------------
(***************************************************************************)
(* The inductive invariant.  A collection adds to the paid_amount it read,  *)
(* so the bound must hold of every order a request has read; and an order   *)
(* keeps its total, which makes the old bound one for the row of today.     *)
(***************************************************************************)
SnapshotOK(q, ords) ==
  q # Idle =>
    /\ Len(q.ords) <= Len(ords)
    /\ \A i \in DOMAIN q.ords : /\ q.ords[i].paid <= q.ords[i].total
                                /\ q.ords[i].total = ords[i].total

SnapshotsOK == \A r \in Requests : SnapshotOK(req[r], orders)

Inv ==
  /\ TypeOK
  /\ Len(orders) <= MaxOrders
  /\ NeverOverpaid
  /\ SnapshotsOK

\* One request at a time: what it read of the balance is the balance until it
\* has written it.
OthersIdle == \A r \in Requests : r # Alone => req[r] = Idle
Current(q, debt) == q.pc = "loaded" => q.owed = debt
AllCurrent == \A r \in Requests : Current(req[r], owed)

SerialInv == ~ overlap => OthersIdle /\ AllCurrent /\ ledger # <<>> /\ LedgerChain

-----------------------------------------------------------------------------
\* A request in flight, field by field.
LEMMA Shape ==
  ASSUME Inv, NEW r \in Requests, req[r] # Idle
  PROVE  /\ req[r] \in Request
         /\ req[r].pc \in {"loaded", "collected"}
         /\ req[r].amount \in Nat /\ req[r].owed \in Nat
         /\ req[r].ords \in Seq(Order) /\ Len(req[r].ords) \in Nat
         /\ DOMAIN req[r].ords = 1 .. Len(req[r].ords)
         /\ req[r].touched \subseteq 1 .. MaxOrders
         /\ SnapshotOK(req[r], orders)
<1>1. /\ req[r] \in Request /\ SnapshotOK(req[r], orders)
  BY DEF Inv, TypeOK, SnapshotsOK
<1>2. req[r].ords \in Seq(Order)
  BY <1>1 DEF Request
<1> QED
  BY <1>1, <1>2, LenProperties DEF Request

\* The table of orders.
LEMMA OrdersShape ==
  ASSUME Inv
  PROVE  /\ orders \in Seq(Order) /\ Len(orders) \in Nat /\ DOMAIN orders = 1 .. Len(orders)
         /\ \A i \in DOMAIN orders : /\ orders[i] \in Order
                                     /\ orders[i].paid \in Nat /\ orders[i].total \in Nat
                                     /\ orders[i].paid <= orders[i].total
<1>1. orders \in Seq(Order)
  BY DEF Inv, TypeOK
<1>2. Len(orders) \in Nat /\ DOMAIN orders = 1 .. Len(orders)
  BY <1>1, LenProperties
<1>3. \A i \in DOMAIN orders : orders[i] \in Order
  BY <1>1, <1>2, ElementOfSeq
<1> QED
  BY <1>1, <1>2, <1>3 DEF Inv, NeverOverpaid, Order

\* Orders are added and never change their total.
Grows ==
  /\ Len(orders') \in Nat /\ Len(orders) <= Len(orders')
  /\ \A i \in DOMAIN orders : orders'[i].total = orders[i].total

\* One request moves on, the others keep what they read.
LEMMA RequestsStay ==
  ASSUME Inv, Grows, NEW r \in Requests, NEW q \in Request \cup {Idle},
         req' = [req EXCEPT ![r] = q], SnapshotOK(q, orders')
  PROVE  req' \in [Requests -> Request \cup {Idle}] /\ SnapshotsOK'
<1>1. req' \in [Requests -> Request \cup {Idle}]
  BY DEF Inv, TypeOK
<1>2. ASSUME NEW s \in Requests
      PROVE  SnapshotOK(req'[s], orders')
  <2>1. CASE s = r
    BY <2>1 DEF Inv, TypeOK
  <2>2. CASE s # r /\ req[s] = Idle
    BY <2>2 DEF Inv, TypeOK, SnapshotOK
  <2>3. CASE s # r /\ req[s] # Idle
    <3>1. req'[s] = req[s]
      BY <2>3 DEF Inv, TypeOK
    <3>2. /\ SnapshotOK(req[s], orders) /\ Len(req[s].ords) \in Nat
          /\ DOMAIN req[s].ords = 1 .. Len(req[s].ords)
      BY <2>3, Shape
    <3>3. DOMAIN req[s].ords \subseteq DOMAIN orders /\ Len(orders) \in Nat
      BY <2>3, <3>2, OrdersShape DEF SnapshotOK
    <3>4. \A i \in DOMAIN req[s].ords : req[s].ords[i].total = orders'[i].total
      BY <2>3, <3>2, <3>3 DEF SnapshotOK, Grows
    <3>5. Len(req[s].ords) <= Len(orders')
      BY <2>3, <3>2, <3>3 DEF SnapshotOK, Grows
    <3> QED
      BY <2>3, <3>1, <3>2, <3>4, <3>5 DEF SnapshotOK
  <2> QED
    BY <2>1, <2>2, <2>3
<1> QED
  BY <1>1, <1>2 DEF SnapshotsOK

\* A step that leaves the orders alone.
LEMMA Step ==
  ASSUME Inv, NEW r \in Requests, NEW q \in Request \cup {Idle},
         req' = [req EXCEPT ![r] = q], SnapshotOK(q, orders), orders' = orders,
         owed' \in Nat, ledger' \in Seq(Entry), invoiced' \subseteq 1 .. MaxOrders,
         overlap' = overlap
  PROVE  Inv'
<1>1. Grows
  BY OrdersShape DEF Grows
<1>2. req' \in [Requests -> Request \cup {Idle}] /\ SnapshotsOK'
  BY <1>1, RequestsStay
<1>3. TypeOK'
  BY <1>2 DEF Inv, TypeOK
<1> QED
  BY <1>2, <1>3 DEF Inv, NeverOverpaid

\* A snapshot taken now is sound.
LEMMA LoadStep ==
  ASSUME Inv, NEW r \in Requests, NEW n \in Nat, Load(r, n)
  PROVE  Inv'
<1> DEFINE q == [pc |-> "loaded", amount |-> n, owed |-> owed, ords |-> orders,
                 touched |-> {}]
<1>1. q \in Request
  BY BoundsAssumption DEF Request, Inv, TypeOK
<1>2. SnapshotOK(q, orders)
  BY OrdersShape DEF SnapshotOK
<1>3. /\ req' = [req EXCEPT ![r] = q]
      /\ UNCHANGED <<owed, orders, ledger, invoiced, overlap>>
  BY DEF Load
<1> HIDE DEF q
<1> QED
  BY <1>1, <1>2, <1>3, Step DEF Inv, TypeOK

\* A request arrives.
LEMMA StartStep ==
  ASSUME Inv, NEW r \in Requests, Start(r)
  PROVE  Inv'
<1>1. PICK n \in Nat : Load(r, n)
  BY PaysAssumption DEF Start
<1> QED
  BY <1>1, LoadStep

\* An idle slot has read nothing.
LEMMA IdleOK == Idle \in Request \cup {Idle} /\ SnapshotOK(Idle, orders)
  BY DEF SnapshotOK

\* What a turn of the loop applies fits what remains and what is open.
LEMMA AppliedBound ==
  ASSUME NEW left \in Nat, NEW o \in Order, o.paid <= o.total
  PROVE  Applied(left, o) \in Nat /\ Applied(left, o) <= o.total - o.paid
  BY DEF Applied, Lower, Order

\* An order that is credited with what its snapshot has open.
LEMMA SettleBound ==
  ASSUME NEW cur \in Order, NEW o \in Order, NEW n \in Nat,
         cur.paid <= cur.total, o.paid + n <= o.total, o.total = cur.total
  PROVE  /\ Settle(cur, o, n) \in Order
         /\ Settle(cur, o, n).total = cur.total
         /\ Settle(cur, o, n).paid <= cur.total
<1>1. /\ Flush(cur.paid, o.paid, o.paid + n) \in Nat
      /\ Flush(cur.paid, o.paid, o.paid + n) <= cur.total
  BY DEF Flush, Order
<1>2. \A st \in {"paid", "partially_paid"} :
        Flush(cur.st, o.st, st) \in {"pending", "partially_paid", "paid"}
  BY DEF Flush, Order, Statuses
<1> QED
  BY <1>1, <1>2 DEF Settle, Order, Statuses

\* The collection: every order gets no more than was open when it was read.
LEMMA CreditPaymentStep ==
  ASSUME Inv, NEW r \in Requests, CreditPayment(r)
  PROVE  Inv'
<1> DEFINE q0 == req[r]
           n == Reduced(q0.owed, q0.amount)
           e == [amount |-> q0.amount, after |-> n]
<1>1. req[r] # Idle
  BY DEF CreditPayment, Idle
<1>2. n \in Nat /\ e \in Entry
  BY <1>1, Shape DEF Entry, Reduced
<1>3. PICK left \in Allocations(q0.ords, q0.amount) :
        /\ orders' = [i \in DOMAIN orders |->
                        IF i \in DOMAIN q0.ords
                          THEN Settle(orders[i], q0.ords[i], left[i - 1] - left[i])
                          ELSE orders[i]]
        /\ req' = [req EXCEPT ![r] = [q0 EXCEPT !.pc = "collected",
                                              !.touched = Touched(q0.ords, left)]]
  BY DEF CreditPayment
<1>4. /\ ledger' = Append(ledger, e)
      /\ owed' = Flush(owed, q0.owed, n)
      /\ invoiced' = invoiced /\ overlap' = overlap
  BY DEF CreditPayment, WriteOwed
<1> DEFINE q == [q0 EXCEPT !.pc = "collected", !.touched = Touched(q0.ords, left)]
<1>5. /\ q0 \in Request /\ q0.ords \in Seq(Order) /\ Len(q0.ords) \in Nat
      /\ DOMAIN q0.ords = 1 .. Len(q0.ords) /\ Len(q0.ords) <= Len(orders)
      /\ \A i \in DOMAIN q0.ords : /\ q0.ords[i] \in Order
                                   /\ q0.ords[i].paid <= q0.ords[i].total
                                   /\ q0.ords[i].total = orders[i].total
  BY <1>1, Shape, ElementOfSeq DEF SnapshotOK
<1>6. DOMAIN q0.ords \subseteq DOMAIN orders /\ DOMAIN orders \subseteq 1 .. MaxOrders
  BY <1>5, OrdersShape, BoundsAssumption DEF Inv
<1>7. ASSUME NEW i \in DOMAIN q0.ords
      PROVE  /\ left[i - 1] - left[i] \in Nat
             /\ q0.ords[i].paid + (left[i - 1] - left[i]) <= q0.ords[i].total
  <2>1. /\ left \in [0 .. Len(q0.ords) -> 0 .. q0.amount]
        /\ left[i] = left[i - 1] - Applied(left[i - 1], q0.ords[i])
    BY <1>5 DEF Allocations
  <2>2. i - 1 \in 0 .. Len(q0.ords) /\ i \in 0 .. Len(q0.ords) /\ q0.amount \in Nat
    BY <1>1, <1>5, Shape
  <2>3. left[i - 1] \in Nat /\ left[i] \in Nat
    BY <2>1, <2>2
  <2>4. Applied(left[i - 1], q0.ords[i]) \in Nat
        /\ Applied(left[i - 1], q0.ords[i]) <= q0.ords[i].total - q0.ords[i].paid
    BY <1>5, <2>3, AppliedBound
  <2>5. q0.ords[i].total \in Nat /\ q0.ords[i].paid \in Nat
    BY <1>5 DEF Order
  <2>6. left[i - 1] - left[i] = Applied(left[i - 1], q0.ords[i])
    <3> DEFINE a == Applied(left[i - 1], q0.ords[i])
    <3>1. left[i] = left[i - 1] - a /\ a \in Nat
      BY <2>1, <2>4
    <3> HIDE DEF a
    <3>2. left[i - 1] - left[i] = a
      BY <2>3, <3>1
    <3> QED
      BY <3>2 DEF a
  <2>7. q0.ords[i].paid + Applied(left[i - 1], q0.ords[i]) <= q0.ords[i].total
    BY <2>4, <2>5
  <2> QED
    BY <2>4, <2>6, <2>7
<1>8. ASSUME NEW i \in DOMAIN orders
      PROVE  /\ orders'[i] \in Order /\ orders'[i].total = orders[i].total
             /\ orders'[i].paid <= orders'[i].total
  <2>1. /\ orders[i] \in Order /\ orders[i].paid <= orders[i].total
    BY OrdersShape
  <2>2. CASE i \in DOMAIN q0.ords
    <3> DEFINE m == left[i - 1] - left[i]
               o == q0.ords[i]
    <3>1. orders'[i] = Settle(orders[i], o, m)
      BY <1>3, <2>2
    <3>2. o \in Order /\ o.total = orders[i].total
      BY <1>5, <2>2
    <3>3. m \in Nat /\ o.paid + m <= o.total
      BY <1>7, <2>2
    <3> HIDE DEF m, o
    <3>4. /\ Settle(orders[i], o, m) \in Order
          /\ Settle(orders[i], o, m).total = orders[i].total
          /\ Settle(orders[i], o, m).paid <= orders[i].total
      BY <2>1, <3>2, <3>3, SettleBound
    <3> QED
      BY <3>1, <3>4
  <2>3. CASE i \notin DOMAIN q0.ords
    BY <1>3, <2>1, <2>3
  <2> QED
    BY <2>2, <2>3
<1>9. orders' \in Seq(Order) /\ Len(orders') = Len(orders) /\ DOMAIN orders' = DOMAIN orders
  <2>1. DOMAIN orders' = 1 .. Len(orders) /\ orders' = [i \in 1 .. Len(orders) |-> orders'[i]]
    BY <1>3, OrdersShape
  <2>2. \A i \in 1 .. Len(orders) : orders'[i] \in Order
    BY <1>8, OrdersShape
  <2>3. orders' \in Seq(Order)
    BY <2>1, <2>2, IsASeq, OrdersShape
  <2> QED
    BY <2>1, <2>3, OrdersShape, LenProperties
<1>10. Grows
  BY <1>8, <1>9, OrdersShape DEF Grows
<1>11. NeverOverpaid' /\ Len(orders') <= MaxOrders
  BY <1>8, <1>9 DEF NeverOverpaid, Inv
<1>12. q \in Request
  <2>1. Touched(q0.ords, left) \subseteq 1 .. MaxOrders
    BY <1>6 DEF Touched
  <2> HIDE DEF q0
  <2> QED
    BY <1>5, <2>1 DEF Request
<1>13. SnapshotOK(q, orders')
  <2>1. q.ords = q0.ords
    BY <1>5 DEF Request
  <2> HIDE DEF q, q0
  <2> QED
    BY <1>5, <1>6, <1>8, <1>9, <2>1 DEF SnapshotOK
<1>14. req' \in [Requests -> Request \cup {Idle}] /\ SnapshotsOK'
  <2>1. req' = [req EXCEPT ![r] = q]
    BY <1>3
  <2> HIDE DEF q
  <2> QED
    BY <1>10, <1>12, <1>13, <2>1, RequestsStay
<1> HIDE DEF q, n, e
<1>15. owed' \in Nat
  BY <1>2, <1>4 DEF Inv, TypeOK, Flush
<1>16. ledger' \in Seq(Entry)
  BY <1>2, <1>4, AppendProperties DEF Inv, TypeOK
<1>17. TypeOK'
  BY <1>4, <1>9, <1>14, <1>15, <1>16 DEF Inv, TypeOK
<1> QED
  BY <1>11, <1>14, <1>17 DEF Inv

\* One invoice more.
LEMMA IssueFromOrderStep ==
  ASSUME Inv, NEW r \in Requests, IssueFromOrder(r)
  PROVE  Inv'
<1>1. req[r] # Idle
  BY DEF IssueFromOrder, Idle
<1>2. PICK i \in req[r].touched :
        /\ invoiced' = invoiced \cup {i}
        /\ req' = [req EXCEPT ![r].touched = @ \ {i}]
  BY DEF IssueFromOrder
<1>3. UNCHANGED <<owed, orders, ledger, overlap>>
  BY DEF IssueFromOrder
<1> DEFINE q == [req[r] EXCEPT !.touched = @ \ {i}]
<1>4. q \in Request /\ q.ords = req[r].ords
  BY <1>1, Shape DEF Request
<1>5. req' = [req EXCEPT ![r] = q]
  BY <1>2 DEF Inv, TypeOK
<1>6. invoiced' \subseteq 1 .. MaxOrders
  BY <1>1, <1>2, Shape DEF Inv, TypeOK
<1> HIDE DEF q
<1>7. SnapshotOK(q, orders)
  BY <1>1, <1>4, Shape DEF SnapshotOK
<1> QED
  BY <1>3, <1>4, <1>5, <1>6, <1>7, Step DEF Inv, TypeOK

\* A request ends, or its process dies.
LEMMA ReturnStep ==
  ASSUME Inv, NEW r \in Requests, Return(r)
  PROVE  Inv'
<1>1. /\ req' = [req EXCEPT ![r] = Idle]
      /\ UNCHANGED <<owed, orders, ledger, invoiced, overlap>>
  BY DEF Return, Done
<1> QED
  BY <1>1, IdleOK, Step DEF Inv, TypeOK

\* An order is closed elsewhere: what was paid of it stays.
LEMMA CloseOrderStep ==
  ASSUME Inv, NEW i \in DOMAIN orders, CloseOrder(i)
  PROVE  /\ Inv'
         /\ Len(orders') = Len(orders) /\ DOMAIN orders' = DOMAIN orders
         /\ orders'[i] = [orders[i] EXCEPT !.st = "paid"]
         /\ \A j \in DOMAIN orders \ {i} : orders'[j] = orders[j]
<1>1. /\ orders' = [orders EXCEPT ![i].st = "paid"] /\ overlap' = overlap
      /\ owed' = owed /\ ledger' = ledger /\ invoiced' = invoiced /\ req' = req
  BY DEF CloseOrder
<1>2. /\ orders \in Seq(Order) /\ Len(orders) \in Nat /\ DOMAIN orders = 1 .. Len(orders)
      /\ \A j \in DOMAIN orders : /\ orders[j] \in Order /\ orders[j].paid \in Nat
                                  /\ orders[j].total \in Nat
                                  /\ orders[j].paid <= orders[j].total
  BY OrdersShape
<1> DEFINE o == [orders[i] EXCEPT !.st = "paid"]
<1>3. o \in Order /\ o.total = orders[i].total /\ o.paid = orders[i].paid
  BY <1>2 DEF Order, Statuses
<1>4. orders' = [orders EXCEPT ![i] = o]
  BY <1>1
<1>5. /\ orders'[i] = o /\ \A j \in DOMAIN orders \ {i} : orders'[j] = orders[j]
      /\ DOMAIN orders' = DOMAIN orders
  BY <1>2, <1>4
<1>6. orders' \in Seq(Order) /\ Len(orders') = Len(orders)
  <2>1. \A j \in DOMAIN orders : orders'[j] \in Order
    BY <1>2, <1>3, <1>5
  <2>2. orders' = [j \in 1 .. Len(orders) |-> orders'[j]]
    BY <1>2, <1>4
  <2>3. orders' \in Seq(Order)
    BY <1>2, <2>1, <2>2, IsASeq
  <2> QED
    BY <1>2, <1>5, <2>3, LenProperties
<1>7. \A j \in DOMAIN orders : /\ orders'[j].total = orders[j].total
                              /\ orders'[j].paid = orders[j].paid
  BY <1>3, <1>5
<1>8. NeverOverpaid' /\ Len(orders') <= MaxOrders
  BY <1>2, <1>5, <1>6, <1>7 DEF Inv, NeverOverpaid
<1>9. SnapshotsOK'
  <2> SUFFICES ASSUME NEW r \in Requests, req[r] # Idle
               PROVE  SnapshotOK(req[r], orders')
    BY <1>1 DEF SnapshotsOK, SnapshotOK
  <2>1. SnapshotOK(req[r], orders) /\ DOMAIN req[r].ords = 1 .. Len(req[r].ords)
        /\ Len(req[r].ords) \in Nat
    BY Shape
  <2>2. DOMAIN req[r].ords \subseteq DOMAIN orders
    BY <1>2, <2>1 DEF SnapshotOK
  <2> QED
    BY <1>6, <1>7, <2>1, <2>2 DEF SnapshotOK
<1>10. TypeOK'
  BY <1>1, <1>6 DEF Inv, TypeOK
<1> QED
  BY <1>5, <1>6, <1>8, <1>9, <1>10 DEF Inv

\* The rows of the past satisfy the invariant.
LEMMA InitInv == Init => Inv
<1> SUFFICES ASSUME Init PROVE Inv
  OBVIOUS
<1>1. PICK n \in 0 .. MaxOrders : orders \in [1 .. n -> Legacy]
  BY DEF Init
<1>2. \A o \in Legacy : o \in Order /\ o.paid <= o.total
  BY TotalsAssumption DEF Legacy, Order
<1>3. n \in Nat /\ n <= MaxOrders
  BY BoundsAssumption
<1>4. /\ orders = [i \in 1 .. n |-> orders[i]] /\ DOMAIN orders = 1 .. n
      /\ \A i \in 1 .. n : orders[i] \in Legacy
  BY <1>1
<1>5. orders \in Seq(Order)
  BY <1>2, <1>3, <1>4, IsASeq
<1>6. Len(orders) <= MaxOrders
  BY <1>3, <1>4, <1>5, LenProperties
<1>7. NeverOverpaid
  BY <1>2, <1>4 DEF NeverOverpaid
<1>8. owed \in Nat /\ ledger \in Seq(Entry)
  BY DebtsAssumption DEF Init, Entry
<1> QED
  BY <1>5, <1>6, <1>7, <1>8 DEF Init, Inv, TypeOK, SnapshotsOK, SnapshotOK

\* Every step keeps the invariant.
LEMMA NextInv == Inv /\ [Next]_vars => Inv'
<1> SUFFICES ASSUME Inv, [Next]_vars PROVE Inv'
  OBVIOUS
<1>1. CASE UNCHANGED vars
  BY <1>1 DEF vars, Inv, TypeOK, NeverOverpaid, SnapshotsOK
<1>2. ASSUME NEW r \in Requests, Start(r) PROVE Inv'
  BY <1>2, StartStep
<1>3. ASSUME NEW i \in DOMAIN orders, CloseOrder(i) PROVE Inv'
  BY <1>3, CloseOrderStep
<1>4. ASSUME NEW r \in Requests, CreditPayment(r) PROVE Inv'
  BY <1>4, CreditPaymentStep
<1>5. ASSUME NEW r \in Requests, IssueFromOrder(r) PROVE Inv'
  BY <1>5, IssueFromOrderStep
<1>6. ASSUME NEW r \in Requests, Return(r) PROVE Inv'
  BY <1>6, ReturnStep
<1> QED
  BY <1>1, <1>2, <1>3, <1>4, <1>5, <1>6 DEF Next

\* Inv holds in every reachable state.
THEOREM InvHolds == Spec => []Inv
<1> QED
  BY InitInv, NextInv, PTL DEF Spec

\* The balance, the ledger and what the requests hold keep their types.
THEOREM TypeCorrect == Spec => []TypeOK
<1>1. Inv => TypeOK
  BY DEF Inv
<1> QED
  BY <1>1, InvHolds, PTL

\* However the collections of credit.py overlap, _allocate_collection_to_orders
\* credits no order with more than it costs.
THEOREM NoOrderOverpaid == Spec => []NeverOverpaid
<1>1. Inv => NeverOverpaid
  BY DEF Inv
<1> QED
  BY <1>1, InvHolds, PTL

-----------------------------------------------------------------------------
(***************************************************************************)
(* Requests that do not overlap.                                            *)
(***************************************************************************)
\* What an entry makes of the balance before it.
Moves(e, before) == e.after = before - Lower(e.amount, before)

Chained(l) == \A n \in 2 .. Len(l) : Moves(l[n], l[n - 1].after)

\* An entry that starts from the last balance keeps the chain.
LEMMA ChainGrows ==
  ASSUME NEW l \in Seq(Entry), Len(l) > 0, Chained(l), NEW e \in Entry,
         Moves(e, l[Len(l)].after)
  PROVE  /\ Len(Append(l, e)) > 0 /\ Chained(Append(l, e))
         /\ Append(l, e)[Len(Append(l, e))] = e
<1> DEFINE m == Append(l, e)
<1>1. /\ m \in Seq(Entry) /\ Len(m) = Len(l) + 1 /\ Len(l) \in Nat
      /\ \A i \in 1 .. Len(l) : m[i] = l[i]
      /\ m[Len(l) + 1] = e
  BY AppendProperties, LenProperties
<1> HIDE DEF m
<1>2. ASSUME NEW n \in 2 .. Len(m) PROVE Moves(m[n], m[n - 1].after)
  <2>1. n - 1 \in 1 .. Len(l) /\ m[n - 1] = l[n - 1]
    BY <1>1
  <2>2. CASE n \in 2 .. Len(l)
    BY <1>1, <2>1, <2>2 DEF Chained
  <2>3. CASE n = Len(l) + 1
    BY <1>1, <2>1, <2>3
  <2> QED
    BY <1>1, <2>2, <2>3
<1> QED
  BY <1>1, <1>2 DEF Chained, m

\* The request of a behaviour without overlap.
LEMMA ItIsAlone ==
  ASSUME SerialInv, ~ overlap, NEW r \in Requests, req[r] # Idle
  PROVE  r = Alone
  BY DEF SerialInv, OthersIdle

\* A step that leaves balance and ledger alone.
LEMMA SerialQuiet ==
  ASSUME Inv, SerialInv, ~ overlap, overlap' = overlap, NEW r \in Requests, r = Alone, NEW q,
         req' = [req EXCEPT ![r] = q], owed' = owed, ledger' = ledger, Current(q, owed)
  PROVE  SerialInv'
<1>1. \A s \in Requests : s # r => req'[s] = req[s]
  BY DEF Inv, TypeOK
<1>2. req'[r] = q
  BY DEF Inv, TypeOK
<1>3. OthersIdle'
  BY <1>1 DEF SerialInv, OthersIdle, Alone
<1>4. AllCurrent'
  BY <1>1, <1>2 DEF SerialInv, AllCurrent, Current
<1>5. LedgerChain' /\ ledger' # <<>>
  BY DEF SerialInv, LedgerChain
<1> QED
  BY <1>3, <1>4, <1>5 DEF SerialInv

\* The request that arrives has read the balance of today.
LEMMA SerialStart ==
  ASSUME Inv, SerialInv, ~ overlap, NEW r \in Requests, Start(r)
  PROVE  SerialInv'
<1>1. PICK n \in Nat : Load(r, n)
  BY PaysAssumption DEF Start
<1> DEFINE q == [pc |-> "loaded", amount |-> n, owed |-> owed, ords |-> orders,
                 touched |-> {}]
<1>2. /\ r = Alone /\ req' = [req EXCEPT ![r] = q]
      /\ UNCHANGED <<owed, orders, ledger, invoiced, overlap>>
  BY <1>1 DEF Load
<1>3. Current(q, owed)
  BY DEF Current
<1> HIDE DEF q
<1> QED
  BY <1>2, <1>3, SerialQuiet

\* The steps of the requests that leave the balance alone.
LEMMA SerialMove ==
  ASSUME Inv, SerialInv, ~ overlap, NEW r \in Requests, IssueFromOrder(r) \/ Return(r)
  PROVE  SerialInv'
<1>1. req[r] # Idle
  BY DEF IssueFromOrder, Return, Idle
<1>2. /\ r = Alone /\ req \in [Requests -> Request \cup {Idle}] /\ req[r] \in Request
  BY <1>1, ItIsAlone, Shape DEF Inv, TypeOK
<1>3. CASE IssueFromOrder(r)
  <2> DEFINE q == req'[r]
  <2>1. /\ req' = [req EXCEPT ![r] = q] /\ q.pc = "collected"
        /\ owed' = owed /\ ledger' = ledger /\ overlap' = overlap
    BY <1>2, <1>3 DEF IssueFromOrder, Request
  <2>2. Current(q, owed)
    BY <2>1 DEF Current
  <2> HIDE DEF q
  <2> QED
    BY <1>2, <2>1, <2>2, SerialQuiet
<1>4. CASE Return(r)
  <2>1. /\ req' = [req EXCEPT ![r] = Idle]
        /\ owed' = owed /\ ledger' = ledger /\ overlap' = overlap
    BY <1>4 DEF Return, Done
  <2>2. Current(Idle, owed)
    BY DEF Current, Idle
  <2> QED
    BY <1>2, <2>1, <2>2, SerialQuiet
<1> QED
  BY <1>3, <1>4

\* What becomes of the request that collects.
LEMMA CollectMoves ==
  ASSUME NEW r \in Requests, req[r] \in Request, CreditPayment(r)
  PROVE  \E q : /\ req' = [req EXCEPT ![r] = q]
                /\ q.pc = "collected" /\ q.amount = req[r].amount
<1>1. PICK left \in Allocations(req[r].ords, req[r].amount) :
        req' = [req EXCEPT ![r] = [req[r] EXCEPT !.pc = "collected",
                                                 !.touched = Touched(req[r].ords, left)]]
  BY ZenonT(60) DEF CreditPayment
<1> DEFINE x == [req[r] EXCEPT !.pc = "collected", !.touched = Touched(req[r].ords, left)]
<1>2. x.pc = "collected" /\ x.amount = req[r].amount
  BY DEF Request
<1>3. req' = [req EXCEPT ![r] = x]
  BY <1>1
<1> HIDE DEF x
<1> QED
  BY <1>2, <1>3

\* A collection computes on the balance of its snapshot, which is the last
\* entry's, and takes off no more than is owed.
LEMMA SerialCollect ==
  ASSUME Inv, SerialInv, ~ overlap, NEW r \in Requests, CreditPayment(r)
  PROVE  SerialInv'
<1> DEFINE n == Reduced(req[r].owed, req[r].amount)
           e == [amount |-> req[r].amount, after |-> n]
<1>1. req[r] # Idle /\ req[r].pc = "loaded"
  BY DEF CreditPayment, Idle
<1>2. req[r] \in Request
  BY <1>1, Shape
<1>3. PICK q : req' = [req EXCEPT ![r] = q] /\ q.pc = "collected" /\ q.amount = req[r].amount
  BY <1>2, CollectMoves
<1>4. /\ ledger' = Append(ledger, e) /\ overlap' = overlap
      /\ owed' = Flush(owed, req[r].owed, n)
  BY DEF CreditPayment, WriteOwed
<1>5. r = Alone /\ req[r].owed = owed
  BY <1>1, ItIsAlone DEF SerialInv, AllCurrent, Current
<1>6. n \in Nat /\ e \in Entry /\ Moves(e, owed)
  BY <1>1, <1>5, Shape DEF Entry, Moves, Reduced, Lower
<1>7. owed' = e.after
  BY <1>4, <1>5 DEF Flush
<1> HIDE DEF n, e
<1>8. \A s \in Requests : req'[s] = IF s = r THEN q ELSE Idle
  BY <1>3, <1>5 DEF SerialInv, OthersIdle, Inv, TypeOK
<1>9. OthersIdle' /\ AllCurrent'
  BY <1>3, <1>5, <1>8 DEF OthersIdle, Alone, AllCurrent, Current, Idle
<1>10. /\ ledger \in Seq(Entry) /\ Len(ledger) > 0 /\ Chained(ledger)
       /\ owed = ledger[Len(ledger)].after
  <2>1. ledger \in Seq(Entry) /\ ledger # <<>>
    BY DEF Inv, TypeOK, SerialInv
  <2>2. Len(ledger) > 0
    BY <2>1, EmptySeq, LenProperties
  <2> QED
    BY <2>1, <2>2 DEF SerialInv, LedgerChain, Chained, Moves
<1>11. Len(ledger') > 0 /\ Chained(ledger') /\ ledger'[Len(ledger')] = e
  BY <1>4, <1>6, <1>10, ChainGrows
<1>12. LedgerChain' /\ ledger' # <<>>
  BY <1>7, <1>11 DEF LedgerChain, Chained, Moves
<1> QED
  BY <1>9, <1>12 DEF SerialInv

\* The ledger of the past ends in the debt.
LEMMA SerialInit == Init => SerialInv
<1> SUFFICES ASSUME Init, ~ overlap
             PROVE  OthersIdle /\ AllCurrent /\ ledger # <<>> /\ LedgerChain
  BY DEF SerialInv
<1>1. OthersIdle /\ AllCurrent
  BY DEF Init, OthersIdle, AllCurrent, Current, Idle
<1>2. ledger = <<[amount |-> 0, after |-> owed]>>
  BY DEF Init
<1> QED
  BY <1>1, <1>2 DEF LedgerChain

\* Whether requests overlap never changes.
LEMMA OverlapStays == Next => overlap' = overlap
  BY DEF Next, Start, Load, CreditPayment, IssueFromOrder, Return, CloseOrder

\* Every step keeps the chain.
LEMMA SerialNext == Inv /\ SerialInv /\ [Next]_vars => SerialInv'
<1> SUFFICES ASSUME Inv, SerialInv, [Next]_vars PROVE SerialInv'
  OBVIOUS
<1>1. CASE UNCHANGED vars
  BY <1>1 DEF vars, SerialInv, OthersIdle, Alone, AllCurrent, Current, LedgerChain
<1>2. CASE overlap /\ Next
  <2>1. overlap' = overlap
    BY <1>2, OverlapStays
  <2> QED
    BY <1>2, <2>1 DEF SerialInv
<1>3. ASSUME ~ overlap, NEW r \in Requests,
             Start(r) \/ CreditPayment(r) \/ IssueFromOrder(r) \/ Return(r)
      PROVE  SerialInv'
  BY <1>3, SerialStart, SerialMove, SerialCollect
<1>4. ASSUME NEW i \in DOMAIN orders, CloseOrder(i)
      PROVE  SerialInv'
  <2>1. owed' = owed /\ ledger' = ledger /\ req' = req /\ overlap' = overlap
    BY <1>4 DEF CloseOrder
  <2> QED
    BY <2>1 DEF SerialInv, OthersIdle, Alone, AllCurrent, Current, LedgerChain
<1> QED
  BY <1>1, <1>2, <1>3, <1>4 DEF Next

\* Without overlap the ledger entries of credit_payment form a chain whose end
\* is the balance, wherever a request died.
THEOREM LedgerIsChain == Spec => []LedgerChain
<1>1. SerialInv => LedgerChain
  BY DEF SerialInv, LedgerChain
<1>2. Spec => []SerialInv
  BY InitInv, NextInv, SerialInit, SerialNext, PTL DEF Spec
<1> QED
  BY <1>1, <1>2, PTL

-----------------------------------------------------------------------------
(***************************************************************************)
(* What the bills of a khata still amount to.                               *)
(***************************************************************************)
\* Induction over the naturals, for a set of them.
LEMMA Induction ==
  ASSUME NEW T, 0 \in T, \A n \in Nat : n \in T => n + 1 \in T
  PROVE  \A n \in Nat : n \in T
<1> DEFINE D == {n \in Nat : n \notin T}
           R == OpToRel(<, Nat)
<1>1. SUFFICES ASSUME D # {} PROVE FALSE
  OBVIOUS
<1>2. IsWellFoundedOn(R, Nat) /\ D \subseteq Nat
  BY NatLessThanWellFounded
<1>3. PICK d \in D : \A e \in D : ~ (<<e, d>> \in R)
  <2> HIDE DEF D, R
  <2> QED
    BY <1>1, <1>2, WFMin
<1>4. d \in Nat /\ d # 0
  OBVIOUS
<1>5. d - 1 \in Nat /\ d - 1 < d
  BY <1>4
<1>6. d - 1 \in D
  <2>1. d - 1 \in T => (d - 1) + 1 \in T
    BY <1>5
  <2>2. (d - 1) + 1 = d
    BY <1>4
  <2> QED
    BY <1>5, <2>1, <2>2
<1>7. <<d - 1, d>> \in R
  BY <1>4, <1>5 DEF OpToRel
<1> QED
  BY <1>3, <1>6, <1>7

\* g adds up the first n numbers of s, one by one.
Sums(s, n, g) == g = [k \in 0 .. n |-> IF k = 0 THEN 0 ELSE s[k] + g[k - 1]]

\* There is such a sum.
LEMMA SumsExist ==
  ASSUME NEW s, NEW n \in Nat
  PROVE  \E g : Sums(s, n, g)
<1> DEFINE T == {m \in Nat : \E g : Sums(s, m, g)}
<1>1. 0 \in T
  <2> DEFINE g == [k \in 0 .. 0 |-> 0]
  <2>1. \A k \in 0 .. 0 : k = 0
    OBVIOUS
  <2>2. Sums(s, 0, g)
    BY <2>1 DEF Sums
  <2> HIDE DEF g
  <2> QED
    BY <2>2
<1>2. ASSUME NEW m \in Nat, m \in T
      PROVE  m + 1 \in T
  <2>1. PICK g : Sums(s, m, g)
    BY <1>2
  <2> DEFINE h == [k \in 0 .. m + 1 |-> IF k = m + 1 THEN s[m + 1] + g[m] ELSE g[k]]
  <2>2. \A k \in 0 .. m : g[k] = IF k = 0 THEN 0 ELSE s[k] + g[k - 1]
    BY <2>1 DEF Sums
  <2>3. \A k \in 0 .. m + 1 : h[k] = IF k = m + 1 THEN s[m + 1] + g[m] ELSE g[k]
    OBVIOUS
  <2>4. h = [k \in 0 .. m + 1 |-> h[k]]
    OBVIOUS
  <2> HIDE DEF h
  <2>5. ASSUME NEW k \in 0 .. m + 1
        PROVE  h[k] = IF k = 0 THEN 0 ELSE s[k] + h[k - 1]
    <3>1. CASE k = m + 1
      <4>1. m \in 0 .. m + 1 /\ m # m + 1 /\ (m + 1) - 1 = m /\ m + 1 # 0
        OBVIOUS
      <4>2. h[m] = g[m]
        BY <2>3, <4>1
      <4> QED
        BY <2>3, <3>1, <4>1, <4>2
    <3>2. CASE k \in 0 .. m /\ k # 0
      <4>1. k - 1 \in 0 .. m + 1 /\ k - 1 # m + 1 /\ k # m + 1
        BY <3>2
      <4> QED
        BY <2>2, <2>3, <3>2, <4>1
    <3>3. CASE k = 0
      <4>1. k \in 0 .. m /\ k # m + 1
        BY <3>3
      <4> QED
        BY <2>2, <2>3, <3>3, <4>1
    <3> QED
      BY <3>1, <3>2, <3>3
  <2>6. Sums(s, m + 1, h)
    BY <2>4, <2>5 DEF Sums
  <2> QED
    BY <2>6
<1> HIDE DEF T
<1>3. n \in T
  BY <1>1, <1>2, Induction
<1> QED
  BY <1>3 DEF T

\* Two sums agree as far as both go.
LEMMA SumsAgree ==
  ASSUME NEW s, NEW m \in Nat, NEW n \in Nat, m <= n, NEW g, NEW h, Sums(s, m, g), Sums(s, n, h)
  PROVE  g[m] = h[m]
<1> DEFINE T == {k \in Nat : k <= m => g[k] = h[k]}
<1>1. /\ \A k \in 0 .. m : g[k] = IF k = 0 THEN 0 ELSE s[k] + g[k - 1]
      /\ \A k \in 0 .. n : h[k] = IF k = 0 THEN 0 ELSE s[k] + h[k - 1]
  BY DEF Sums
<1>2. 0 \in T
  BY <1>1
<1>3. ASSUME NEW k \in Nat, k \in T
      PROVE  k + 1 \in T
  <2> SUFFICES ASSUME k + 1 <= m
               PROVE  g[k + 1] = h[k + 1]
    OBVIOUS
  <2>1. k + 1 \in 0 .. m /\ k + 1 \in 0 .. n /\ (k + 1) - 1 = k /\ k + 1 # 0 /\ k <= m
    OBVIOUS
  <2>2. g[k] = h[k]
    BY <1>3, <2>1
  <2> QED
    BY <1>1, <2>1, <2>2
<1> HIDE DEF T
<1>4. m \in T
  BY <1>2, <1>3, Induction
<1> QED
  BY <1>4 DEF T

\* Open, from one bill to the next.
LEMMA OpenIs ==
  ASSUME NEW s
  PROVE  /\ Book!Open(s, 0) = 0
         /\ \A n \in Nat : Book!Open(s, n + 1) = s[n + 1] + Book!Open(s, n)
<1> DEFINE G(n) == CHOOSE g : Sums(s, n, g)
<1>1. \A n \in Nat : Sums(s, n, G(n))
  BY SumsExist
<1>2. \A n \in Nat : Book!Open(s, n) = G(n)[n]
  BY DEF Book!Open, Sums
<1> HIDE DEF G
<1>3. \A n \in Nat : \A k \in 0 .. n : G(n)[k] = IF k = 0 THEN 0 ELSE s[k] + G(n)[k - 1]
  BY <1>1 DEF Sums
<1>4. Book!Open(s, 0) = 0
  BY <1>2, <1>3
<1>5. ASSUME NEW n \in Nat
      PROVE  Book!Open(s, n + 1) = s[n + 1] + Book!Open(s, n)
  <2>1. n + 1 \in Nat /\ n <= n + 1 /\ n + 1 \in 0 .. n + 1 /\ (n + 1) - 1 = n /\ n + 1 # 0
    OBVIOUS
  <2>2. G(n)[n] = G(n + 1)[n]
    BY <1>1, <2>1, SumsAgree
  <2>3. G(n + 1)[n + 1] = s[n + 1] + G(n + 1)[n]
    BY <1>3, <2>1
  <2> QED
    BY <1>2, <2>1, <2>2, <2>3
<1> QED
  BY <1>4, <1>5

\* What natural numbers amount to; nothing, when all are zero.
LEMMA OpenType ==
  ASSUME NEW s, NEW n \in Nat, \A i \in 1 .. n : s[i] \in Nat
  PROVE  /\ Book!Open(s, n) \in Nat
         /\ (\A i \in 1 .. n : s[i] = 0) => Book!Open(s, n) = 0
<1> DEFINE T == {m \in Nat : m <= n => /\ Book!Open(s, m) \in Nat
                                       /\ (\A i \in 1 .. m : s[i] = 0) => Book!Open(s, m) = 0}
<1>1. 0 \in T
  BY OpenIs
<1>2. ASSUME NEW m \in Nat, m \in T
      PROVE  m + 1 \in T
  <2> SUFFICES ASSUME m + 1 <= n
               PROVE  /\ Book!Open(s, m + 1) \in Nat
                      /\ (\A i \in 1 .. m + 1 : s[i] = 0) => Book!Open(s, m + 1) = 0
    OBVIOUS
  <2>1. m + 1 \in 1 .. n /\ m <= n /\ m + 1 \in 1 .. m + 1
        /\ \A i \in 1 .. m : i \in 1 .. m + 1
    OBVIOUS
  <2>2. Book!Open(s, m) \in Nat /\ ((\A i \in 1 .. m : s[i] = 0) => Book!Open(s, m) = 0)
    BY <1>2, <2>1
  <2>3. Book!Open(s, m + 1) = s[m + 1] + Book!Open(s, m)
    BY OpenIs
  <2>4. s[m + 1] \in Nat
    BY <2>1
  <2> QED
    BY <2>1, <2>2, <2>3, <2>4
<1> HIDE DEF T
<1>3. n \in T
  BY <1>1, <1>2, Induction
<1> QED
  BY <1>3 DEF T

\* A payment that goes from bill to bill: left[i] remains after bill i.
Flows(s, t, left, n, pay) ==
  /\ left[0] = pay
  /\ \A i \in 1 .. n : /\ s[i] \in Nat
                       /\ left[i] = left[i - 1] - Lower(left[i - 1], s[i])
                       /\ t[i] = s[i] - Lower(left[i - 1], s[i])

\* What it leaves: bills cleared from the oldest on, up to the bill where it
\* ends, and less on the bills by what does not remain.
Clears(s, t, left, n, pay) ==
  /\ \A i \in 0 .. n : left[i] \in Nat
  /\ Book!Open(t, n) = Book!Open(s, n) - (pay - left[n])
  /\ \/ left[n] > 0 /\ \A i \in 1 .. n : t[i] = 0
     \/ /\ left[n] = 0
        /\ \E k \in 1 .. n : /\ \A i \in 1 .. k - 1 : t[i] = 0
                             /\ \A i \in k + 1 .. n : t[i] = s[i]

\* By induction over the bills.
LEMMA FlowsIs ==
  ASSUME NEW s, NEW t, NEW left, NEW n \in Nat, NEW pay \in Nat, pay > 0,
         Flows(s, t, left, n, pay)
  PROVE  Clears(s, t, left, n, pay)
<1> DEFINE Ends(m) == \/ left[m] > 0 /\ \A i \in 1 .. m : t[i] = 0
                      \/ /\ left[m] = 0
                         /\ \E k \in 1 .. m : /\ \A i \in 1 .. k - 1 : t[i] = 0
                                              /\ \A i \in k + 1 .. m : t[i] = s[i]
           Good(m) == /\ left[m] \in Nat /\ Book!Open(s, m) \in Nat
                      /\ Book!Open(t, m) = Book!Open(s, m) - (pay - left[m])
                      /\ Ends(m)
           T == {m \in Nat : m <= n => Good(m)}
<1>1. 0 \in T
  BY OpenIs DEF Flows
<1>2. ASSUME NEW m \in Nat, m \in T
      PROVE  m + 1 \in T
  <2> SUFFICES ASSUME m + 1 <= n
               PROVE  Good(m + 1)
    <3> HIDE DEF Good
    <3> QED
      OBVIOUS
  <2>1. m + 1 \in 1 .. n /\ m <= n /\ (m + 1) - 1 = m
    OBVIOUS
  <2>2. Good(m)
    BY <1>2, <2>1
  <2> HIDE DEF T
  <2> DEFINE l == left[m]
             d == s[m + 1]
             a == Lower(l, d)
  <2>3. l \in Nat /\ d \in Nat /\ left[m + 1] = l - a /\ t[m + 1] = d - a
    BY <2>1, <2>2 DEF Flows
  <2>4. a \in Nat /\ a <= l /\ a <= d /\ (a = l \/ a = d)
    BY <2>3 DEF Lower
  <2>5. left[m + 1] \in Nat
    BY <2>3, <2>4
  <2>6. Book!Open(s, m + 1) \in Nat
        /\ Book!Open(t, m + 1) = Book!Open(s, m + 1) - (pay - left[m + 1])
    <3>1. /\ Book!Open(s, m + 1) = d + Book!Open(s, m)
          /\ Book!Open(t, m + 1) = t[m + 1] + Book!Open(t, m)
      BY OpenIs
    <3>2. Book!Open(s, m) \in Nat /\ Book!Open(t, m) = Book!Open(s, m) - (pay - l)
      BY <2>2
    <3> HIDE DEF l, d, a
    <3> QED
      BY <2>3, <2>4, <3>1, <3>2
  <2>7. Ends(m + 1)
    <3>1. CASE l > 0 /\ left[m + 1] > 0
      <4>1. t[m + 1] = 0
        BY <2>3, <2>4, <3>1
      <4>2. \A i \in 1 .. m : t[i] = 0
        BY <2>2, <3>1
      <4>3. \A i \in 1 .. m + 1 : i \in 1 .. m \/ i = m + 1
        OBVIOUS
      <4> HIDE DEF l, d, a
      <4> QED
        BY <3>1, <4>1, <4>2, <4>3
    <3>2. CASE l > 0 /\ left[m + 1] = 0
      <4>1. \A i \in 1 .. m : t[i] = 0
        BY <2>2, <3>2
      <4>2. /\ m + 1 \in 1 .. m + 1 /\ 1 .. (m + 1) - 1 = 1 .. m
            /\ (m + 1) + 1 .. m + 1 = {}
        OBVIOUS
      <4> HIDE DEF l, d, a
      <4> QED
        BY <3>2, <4>1, <4>2
    <3>3. CASE l = 0
      <4>1. left[m + 1] = 0 /\ t[m + 1] = s[m + 1]
        BY <2>3, <2>4, <3>3
      <4>2. PICK k \in 1 .. m : /\ \A i \in 1 .. k - 1 : t[i] = 0
                                /\ \A i \in k + 1 .. m : t[i] = s[i]
        BY <2>2, <3>3
      <4>3. k \in 1 .. m + 1 /\ \A i \in k + 1 .. m + 1 : i \in k + 1 .. m \/ i = m + 1
        OBVIOUS
      <4> HIDE DEF l, d, a
      <4> QED
        BY <4>1, <4>2, <4>3
    <3> QED
      BY <2>3, <2>5, <3>1, <3>2, <3>3
  <2> QED
    BY <2>5, <2>6, <2>7
<1> HIDE DEF T
<1>3. \A m \in Nat : m \in T
  BY <1>1, <1>2, Induction
<1>4. \A m \in 0 .. n : Good(m)
  <2> HIDE DEF Good
  <2> QED
    BY <1>3 DEF T
<1>5. n \in 0 .. n
  OBVIOUS
<1>6. Good(n)
  <2> HIDE DEF Good
  <2> QED
    BY <1>4, <1>5
<1>7. \A m \in 0 .. n : left[m] \in Nat
  <2> HIDE DEF Ends
  <2> QED
    BY <1>4
<1> QED
  BY <1>6, <1>7 DEF Clears

-----------------------------------------------------------------------------
(***************************************************************************)
(* Without overlap the account is a khata.                                  *)
(***************************************************************************)
\* The khata that the rows stand for.
OpenOf(o) == IF o.st = "paid" THEN 0 ELSE o.total - o.paid
BillsAre ==
  /\ Debt = owed /\ Debt \in Nat
  /\ Bills \in Seq(Nat) /\ Len(Bills) \in Nat /\ Len(Bills) = Len(orders)
  /\ DOMAIN Bills = 1 .. Len(Bills) /\ DOMAIN orders = 1 .. Len(Bills)
  /\ \A i \in 1 .. Len(Bills) : Bills[i] \in Nat /\ Bills[i] = OpenOf(orders[i])

\* What the only request knows until it writes.
Knows(q) ==
  /\ q.pc = "loaded" => q.ords = orders
  /\ q # Idle => q.amount > 0
KhataInv == ~ overlap => \A r \in Requests : Knows(req[r])

\* The mapping is well typed.
LEMMA BillsShape == Inv /\ ~ overlap => BillsAre
<1> SUFFICES ASSUME Inv, ~ overlap PROVE BillsAre
  OBVIOUS
<1>1. owed \in Nat
  BY DEF Inv, TypeOK
<1>2. Debt = owed /\ Bills = [i \in DOMAIN orders |-> OpenOf(orders[i])]
  BY DEF Debt, Bills, OpenOf
<1>3. /\ Len(orders) \in Nat /\ DOMAIN orders = 1 .. Len(orders)
      /\ \A i \in DOMAIN orders : OpenOf(orders[i]) \in Nat
  BY OrdersShape DEF OpenOf
<1>4. /\ DOMAIN Bills = 1 .. Len(orders)
      /\ \A i \in 1 .. Len(orders) : Bills[i] = OpenOf(orders[i])
      /\ \A i \in 1 .. Len(orders) : Bills[i] \in Nat
  BY <1>2, <1>3
<1>5. Bills \in Seq(Nat)
  <2>1. Bills = [i \in 1 .. Len(orders) |-> Bills[i]]
    BY <1>2, <1>3
  <2> QED
    BY <1>3, <1>4, <2>1, IsASeq
<1>6. Len(Bills) = Len(orders)
  BY <1>3, <1>4, <1>5, LenProperties
<1> QED
  BY <1>1, <1>2, <1>3, <1>4, <1>5, <1>6 DEF BillsAre

\* One step later too.
LEMMA BillsShapeNext == Inv' /\ ~ overlap' => BillsAre'
  BY BillsShape, PTL

\* The only request moves on.
LEMMA KhataKeep ==
  ASSUME Inv, SerialInv, ~ overlap, overlap' = overlap, NEW r \in Requests, r = Alone, NEW q,
         req' = [req EXCEPT ![r] = q],
         q.pc = "loaded" => q.ords = orders',
         q # Idle => q.amount > 0
  PROVE  KhataInv'
<1>1. req'[r] = q /\ \A s \in Requests : s # r => req'[s] = Idle
  BY DEF Inv, TypeOK, SerialInv, OthersIdle
<1>2. Idle.pc # "loaded"
  BY DEF Idle
<1>3. ASSUME NEW s \in Requests
      PROVE  Knows(req[s])'
  <2>1. CASE s = r
    BY <1>1, <2>1 DEF Knows
  <2>2. CASE s # r
    BY <1>1, <1>2, <2>2 DEF Knows
  <2> QED
    BY <2>1, <2>2
<1> QED
  BY <1>3 DEF KhataInv

\* A request that writes nothing of the account.
LEMMA KhataQuiet ==
  ASSUME Inv, SerialInv, KhataInv, ~ overlap, overlap' = overlap,
         owed' = owed, orders' = orders, NEW r \in Requests, r = Alone, NEW q,
         req' = [req EXCEPT ![r] = q],
         q.pc = "loaded" => q.ords = orders,
         q # Idle => q.amount > 0
  PROVE  KhataInv' /\ UNCHANGED Book!vars
<1>1. Debt' = Debt /\ Bills' = Bills
  BY DEF Debt, Bills
<1>2. KhataInv'
  BY KhataKeep
<1> QED
  BY <1>1, <1>2 DEF Book!vars

\* A collection is such a payment over the bills.
LEMMA CollectFlows ==
  ASSUME Inv, Inv', SerialInv, KhataInv, ~ overlap, NEW r \in Requests, CreditPayment(r)
  PROVE  /\ \E left : Flows(Bills, Bills', left, Len(Bills), req[r].amount)
         /\ Len(Bills') = Len(Bills)
<1> DEFINE q0 == req[r]
           N == Len(orders)
<1>1. q0.pc = "loaded" /\ q0 # Idle /\ overlap' = overlap
  BY DEF CreditPayment, Idle
<1>2. q0.ords = orders /\ q0.amount \in Nat
  BY <1>1, Shape DEF KhataInv, Knows
<1>3. PICK left \in Allocations(orders, q0.amount) :
        orders' = [i \in DOMAIN orders |->
                     IF i \in DOMAIN orders
                       THEN Settle(orders[i], orders[i], left[i - 1] - left[i])
                       ELSE orders[i]]
  BY <1>2 DEF CreditPayment
<1>4. BillsAre /\ BillsAre'
  BY <1>1, BillsShape, BillsShapeNext
<1>5. /\ N \in Nat /\ Len(Bills) = N /\ DOMAIN orders = 1 .. N
      /\ DOMAIN orders' = 1 .. N /\ Len(Bills') = N /\ DOMAIN Bills' = 1 .. N
      /\ \A i \in 1 .. N : /\ Bills[i] \in Nat /\ Bills[i] = OpenOf(orders[i])
                           /\ Bills'[i] = OpenOf(orders'[i])
                           /\ orders[i] \in Order
                           /\ orders[i].paid \in Nat /\ orders[i].total \in Nat
                           /\ orders[i].paid <= orders[i].total
                           /\ orders'[i] = Settle(orders[i], orders[i], left[i - 1] - left[i])
  <2>1. N \in Nat /\ Len(Bills) = N /\ DOMAIN orders = 1 .. N
    BY <1>4, OrdersShape DEF BillsAre
  <2>2. DOMAIN orders' = DOMAIN orders
    BY <1>3
  <2>3. /\ Len(Bills') \in Nat /\ DOMAIN orders' = 1 .. Len(Bills')
        /\ DOMAIN Bills' = 1 .. Len(Bills')
        /\ \A i \in 1 .. Len(Bills') : Bills'[i] = OpenOf(orders'[i])
    BY <1>4 DEF BillsAre, OpenOf
  <2>4. Len(Bills') = N
    BY <2>1, <2>2, <2>3
  <2> HIDE DEF N
  <2>5. \A i \in 1 .. N : orders'[i] = Settle(orders[i], orders[i], left[i - 1] - left[i])
    BY <1>3, <2>1
  <2>6. \A i \in 1 .. N : Bills[i] \in Nat /\ Bills[i] = OpenOf(orders[i])
    BY <1>4, <2>1 DEF BillsAre
  <2>7. \A i \in 1 .. N : /\ orders[i] \in Order
                          /\ orders[i].paid \in Nat /\ orders[i].total \in Nat
                          /\ orders[i].paid <= orders[i].total
    BY <2>1, OrdersShape
  <2> QED
    BY <2>1, <2>2, <2>3, <2>4, <2>5, <2>6, <2>7
<1>6. /\ left \in [0 .. N -> 0 .. q0.amount] /\ left[0] = q0.amount
      /\ \A i \in 1 .. N : left[i] = left[i - 1] - Applied(left[i - 1], orders[i])
  BY <1>3, <1>5 DEF Allocations
<1> HIDE DEF N
<1>7. ASSUME NEW i \in 1 .. N
      PROVE  /\ left[i] = left[i - 1] - Lower(left[i - 1], Bills[i])
             /\ Bills'[i] = Bills[i] - Lower(left[i - 1], Bills[i])
  <2> DEFINE l == left[i - 1]
             d == Bills[i]
             a == Lower(l, d)
             o == orders[i]
  <2>1. l \in Nat /\ d \in Nat /\ d = OpenOf(o)
    <3>1. i - 1 \in 0 .. N
      BY <1>5
    <3>2. left[i - 1] \in Nat
      BY <1>2, <1>6, <3>1
    <3>3. Bills[i] \in Nat /\ Bills[i] = OpenOf(orders[i])
      BY <1>5
    <3> QED
      BY <3>2, <3>3
  <2>2. Applied(l, o) = a
    BY <2>1 DEF Applied, Lower, OpenOf
  <2>3. a \in Nat /\ a <= l /\ a <= d
    BY <2>1 DEF Lower
  <2>4. left[i] = l - a
    BY <1>6, <2>2
  <2>5. orders'[i] = Settle(o, o, a)
    <3>1. l - left[i] = a
      <4> HIDE DEF a, l
      <4> QED
        BY <2>1, <2>3, <2>4
    <3> QED
      BY <1>5, <3>1
  <2>6. /\ orders'[i].total = o.total
        /\ orders'[i].paid = o.paid + a
        /\ orders'[i].st = IF a = 0 THEN o.st
                           ELSE IF o.paid + a >= o.total THEN "paid" ELSE "partially_paid"
    <3>1. o \in Order /\ o.paid \in Nat
      BY <1>5
    <3> HIDE DEF a, o, l, d
    <3> QED
      BY <2>3, <2>5, <3>1 DEF Settle, Order, Flush
  <2>7. Bills'[i] = d - a
    <3>1. /\ Bills'[i] = OpenOf(orders'[i])
          /\ o.total \in Nat /\ o.paid \in Nat /\ o.paid <= o.total
      BY <1>5
    <3> HIDE DEF a, o, l, d
    <3>2. CASE a = 0
      BY <2>1, <2>6, <3>1, <3>2 DEF OpenOf
    <3>3. CASE a # 0
      BY <2>1, <2>3, <2>6, <3>1, <3>3 DEF OpenOf
    <3> QED
      BY <3>2, <3>3
  <2> QED
    BY <2>4, <2>7
<1>8. Flows(Bills, Bills', left, N, q0.amount)
  BY <1>5, <1>6, <1>7 DEF Flows
<1> QED
  BY <1>5, <1>8

\* The bakery's collection clears the oldest bills.
LEMMA KhataCollect ==
  ASSUME Inv, Inv', SerialInv, KhataInv, ~ overlap, NEW r \in Requests, CreditPayment(r)
  PROVE  KhataInv' /\ Book!Collect
<1> DEFINE pay == req[r].amount
           N == Len(Bills)
<1>1. /\ req[r].pc = "loaded" /\ req[r] # Idle
      /\ req[r].amount <= req[r].owed + 1
      /\ owed' = Flush(owed, req[r].owed, Reduced(req[r].owed, pay))
      /\ overlap' = overlap
  BY DEF CreditPayment, WriteOwed, Idle, Collectable
<1>2. r = Alone /\ pay \in Nat /\ req[r] \in Request
  BY <1>1, ItIsAlone, Shape
<1>3. req[r].owed = owed /\ pay > 0
  BY <1>1 DEF KhataInv, Knows, SerialInv, AllCurrent, Current
<1>4. BillsAre /\ BillsAre'
  BY <1>1, BillsShape, BillsShapeNext
<1>5. owed' = Reduced(owed, pay)
  BY <1>1, <1>3 DEF Flush
<1>6. /\ Debt \in Nat /\ Debt' = Reduced(Debt, pay) /\ pay <= Debt + 1
  BY <1>1, <1>3, <1>4, <1>5 DEF BillsAre
<1>7. PICK left : Flows(Bills, Bills', left, N, pay)
  BY CollectFlows
<1>8. Len(Bills') = N /\ N \in Nat
  BY <1>4, CollectFlows DEF BillsAre
<1> DEFINE opened == Book!Open(Bills, N)
           opens == Book!Open(Bills', N)
<1>9. /\ \A i \in 0 .. N : left[i] \in Nat
      /\ left[N] \in Nat /\ opens = opened - (pay - left[N])
      /\ \/ left[N] > 0 /\ \A i \in 1 .. N : Bills'[i] = 0
         \/ /\ left[N] = 0
            /\ \E k \in 1 .. N : /\ \A i \in 1 .. k - 1 : Bills'[i] = 0
                                 /\ \A i \in k + 1 .. N : Bills'[i] = Bills[i]
  <2>1. Clears(Bills, Bills', left, N, pay)
    <3>1. PICK s, t, n, p : s = Bills /\ t = Bills' /\ n = N /\ p = pay
      OBVIOUS
    <3> HIDE DEF pay, N
    <3>2. Flows(s, t, left, n, p) /\ n \in Nat /\ p \in Nat /\ p > 0
      BY <1>2, <1>3, <1>7, <1>8, <3>1
    <3>3. Clears(s, t, left, n, p)
      BY <3>2, FlowsIs
    <3> QED
      BY <3>1, <3>3
  <2>2. N \in 0 .. N
    BY <1>8
  <2> HIDE DEF pay, N
  <2> QED
    BY <2>1, <2>2 DEF Clears
<1>10. /\ \A i \in 1 .. N : Bills[i] \in Nat /\ Bills'[i] \in Nat
       /\ opened \in Nat /\ opens \in Nat
       /\ (\A i \in 1 .. N : Bills'[i] = 0) => opens = 0
  <2>1. \A i \in 1 .. N : Bills[i] \in Nat /\ Bills'[i] \in Nat
    BY <1>4, <1>8 DEF BillsAre
  <2> QED
    BY <1>8, <2>1, OpenType
<1>11. left[N] > 0 => \A i \in 1 .. N : Bills'[i] = 0
  BY <1>9
<1>12. /\ Debt' \in 0 .. Debt /\ opened - opens <= (Debt - Debt') + 1
       /\ Debt - Debt' <= opened - opens \/ left[N] > 0
  <2>1. PICK x : x = left[N]
    OBVIOUS
  <2>2. x \in Nat /\ opens = opened - (pay - x)
    BY <1>9, <2>1
  <2>3. PICK d : d = Debt
    OBVIOUS
  <2>4. d \in Nat /\ Debt' = Reduced(d, pay) /\ pay <= d + 1
    BY <1>6, <2>3
  <2>5. opened \in Nat /\ opens \in Nat
    BY <1>10
  <2> HIDE DEF pay, opened, opens, N
  <2>6. Reduced(d, pay) = IF pay < d THEN d - pay ELSE 0
    BY DEF Reduced
  <2>7. /\ Debt' \in 0 .. d /\ opened - opens <= (d - Debt') + 1
        /\ d - Debt' <= opened - opens \/ x > 0
    BY <1>2, <2>2, <2>4, <2>5, <2>6
  <2> QED
    BY <2>1, <2>3, <2>7
<1>15. \E k \in 1 .. N + 1 :
         /\ \A i \in 1 .. k - 1 : Bills'[i] = 0
         /\ \A i \in k + 1 .. N : Bills'[i] = Bills[i]
         /\ k <= N => Bills'[k] \in 0 .. Bills[k]
  <2>1. CASE left[N] > 0
    <3>1. \A i \in 1 .. N : Bills'[i] = 0
      BY <1>9, <2>1
    <3>2. /\ N + 1 \in 1 .. N + 1 /\ ~ (N + 1 <= N)
          /\ \A i \in 1 .. (N + 1) - 1 : i \in 1 .. N
          /\ \A i \in (N + 1) + 1 .. N : FALSE
      BY <1>8
    <3> HIDE DEF N
    <3> QED
      BY <3>1, <3>2
  <2>2. CASE left[N] = 0
    <3>1. PICK k \in 1 .. N : /\ \A i \in 1 .. k - 1 : Bills'[i] = 0
                              /\ \A i \in k + 1 .. N : Bills'[i] = Bills[i]
      BY <1>9, <2>2
    <3>2. k \in 1 .. N + 1
      BY <1>8
    <3>3. Bills'[k] \in 0 .. Bills[k]
      <4>1. \A i \in 1 .. N : Bills'[i] <= Bills[i]
        <5> SUFFICES ASSUME NEW i \in 1 .. N
                     PROVE  Bills'[i] <= Bills[i]
          OBVIOUS
        <5>1. left[i - 1] \in Nat /\ Bills[i] \in Nat
          <6>1. i - 1 \in 0 .. N
            BY <1>8
          <6> QED
            BY <1>9, <1>10, <6>1
        <5>2. Bills'[i] = Bills[i] - Lower(left[i - 1], Bills[i])
          BY <1>7 DEF Flows
        <5> QED
          BY <5>1, <5>2 DEF Lower
      <4> QED
        BY <1>10, <4>1
    <3> QED
      BY <3>1, <3>2, <3>3
  <2> QED
    BY <1>9, <2>1, <2>2
<1>16. Book!Collect
  <2>1. Len(Bills') = Len(Bills)
    BY <1>8
  <2> QED
    BY <1>8, <1>11, <1>12, <1>15 DEF Book!Collect
<1>17. KhataInv'
  <2>1. PICK q : req' = [req EXCEPT ![r] = q] /\ q.pc = "collected" /\ q.amount = pay
    BY <1>2, CollectMoves
  <2> HIDE DEF pay
  <2> QED
    BY <1>1, <1>2, <1>3, <2>1, KhataKeep
<1> QED
  BY <1>16, <1>17

\* An order that is closed elsewhere is a bill that is struck out.
LEMMA KhataClose ==
  ASSUME Inv, SerialInv, KhataInv, ~ overlap, NEW i \in DOMAIN orders, CloseOrder(i)
  PROVE  KhataInv' /\ Book!Close
<1>1. /\ owed' = owed /\ req' = req /\ overlap' = overlap
      /\ \A r \in Requests : req[r] = Idle
  BY DEF CloseOrder
<1>2. /\ Inv' /\ Len(orders') = Len(orders) /\ DOMAIN orders' = DOMAIN orders
      /\ orders'[i] = [orders[i] EXCEPT !.st = "paid"]
      /\ \A j \in DOMAIN orders \ {i} : orders'[j] = orders[j]
  BY CloseOrderStep
<1>3. BillsAre
  BY BillsShape
<1>4. orders[i] \in Order
  BY OrdersShape
<1>5. OpenOf(orders'[i]) = 0
  BY <1>2, <1>4 DEF OpenOf, Order
<1>6. Bills' = [j \in DOMAIN orders' |-> OpenOf(orders'[j])]
  BY <1>1 DEF Bills, OpenOf
<1>7. Bills = [j \in DOMAIN orders |-> OpenOf(orders[j])]
  BY DEF Bills, OpenOf
<1>8. Bills' = [Bills EXCEPT ![i] = 0]
  BY <1>2, <1>5, <1>6, <1>7
<1>9. Debt' = Debt /\ i \in 1 .. Len(Bills)
  BY <1>1, <1>3 DEF BillsAre, Debt
<1>10. KhataInv'
  BY <1>1 DEF KhataInv, Knows, Idle
<1> QED
  BY <1>8, <1>9, <1>10 DEF Book!Close

\* A request that arrives, invoices or ends leaves the account alone.
LEMMA KhataStill ==
  ASSUME Inv, SerialInv, KhataInv, ~ overlap, NEW r \in Requests,
         Start(r) \/ IssueFromOrder(r) \/ Return(r)
  PROVE  KhataInv' /\ UNCHANGED Book!vars
<1>1. CASE Start(r)
  <2>1. PICK n \in Pays : Load(r, n)
    BY <1>1 DEF Start
  <2> DEFINE q == [pc |-> "loaded", amount |-> n, owed |-> owed, ords |-> orders,
                   touched |-> {}]
  <2>2. /\ r = Alone /\ req' = [req EXCEPT ![r] = q] /\ overlap' = overlap
        /\ owed' = owed /\ orders' = orders
    BY <2>1 DEF Load
  <2>3. q.ords = orders /\ q.amount > 0
    BY PaysAssumption
  <2> HIDE DEF q
  <2> QED
    BY <2>2, <2>3, KhataQuiet
<1>2. CASE IssueFromOrder(r)
  <2>1. req[r] # Idle /\ req[r].pc = "collected"
    BY <1>2 DEF IssueFromOrder, Idle
  <2>2. r = Alone /\ req[r] \in Request /\ req[r].amount > 0
    <3>1. Knows(req[r])
      BY DEF KhataInv
    <3> QED
      BY <2>1, <3>1, ItIsAlone, Shape DEF Knows
  <2>3. PICK i \in req[r].touched : req' = [req EXCEPT ![r].touched = @ \ {i}]
    BY <1>2 DEF IssueFromOrder
  <2> DEFINE q == [req[r] EXCEPT !.touched = @ \ {i}]
  <2>4. req' = [req EXCEPT ![r] = q]
    BY <2>3 DEF Inv, TypeOK
  <2>5. q.pc = "collected" /\ q.amount > 0
    BY <2>1, <2>2 DEF Request
  <2>6. owed' = owed /\ orders' = orders /\ overlap' = overlap
    BY <1>2 DEF IssueFromOrder
  <2> HIDE DEF q
  <2> QED
    BY <2>2, <2>4, <2>5, <2>6, KhataQuiet
<1>3. CASE Return(r)
  <2>1. /\ req[r] # Idle /\ req' = [req EXCEPT ![r] = Idle]
        /\ owed' = owed /\ orders' = orders /\ overlap' = overlap
    BY <1>3 DEF Return, Done
  <2>2. r = Alone /\ Idle.pc # "loaded"
    BY <2>1, ItIsAlone DEF Idle
  <2> QED
    BY <2>1, <2>2, KhataQuiet
<1> QED
  BY <1>1, <1>2, <1>3

\* An account of the past is a khata.
LEMMA KhataInit == Init => KhataInv /\ Book!Init
<1> SUFFICES ASSUME Init PROVE KhataInv /\ Book!Init
  OBVIOUS
<1>1. Debt \in Nat /\ Bills \in Seq(Nat)
  <2>1. CASE overlap
    BY <2>1, EmptySeq DEF Debt, Bills
  <2>2. CASE ~ overlap
    BY <2>2, InitInv, BillsShape DEF BillsAre
  <2> QED
    BY <2>1, <2>2
<1>2. KhataInv
  BY DEF Init, KhataInv, Knows, Idle
<1> QED
  BY <1>1, <1>2 DEF Book!Init

\* Every step is a step of the khata or none.
LEMMA KhataNext ==
  Inv /\ Inv' /\ SerialInv /\ KhataInv /\ [Next]_vars => KhataInv' /\ [Book!Next]_(Book!vars)
<1> SUFFICES ASSUME Inv, Inv', SerialInv, KhataInv, [Next]_vars
             PROVE  KhataInv' /\ [Book!Next]_(Book!vars)
  OBVIOUS
<1>1. CASE UNCHANGED vars
  <2>1. Debt' = Debt /\ Bills' = Bills
    BY <1>1 DEF vars, Debt, Bills
  <2>2. KhataInv'
    BY <1>1 DEF vars, KhataInv, Knows
  <2> QED
    BY <2>1, <2>2 DEF Book!vars
<1>2. CASE overlap /\ Next
  <2>1. overlap' = overlap
    BY <1>2, OverlapStays
  <2>2. Debt' = Debt /\ Bills' = Bills
    BY <1>2, <2>1 DEF Debt, Bills
  <2> QED
    BY <1>2, <2>1, <2>2 DEF KhataInv, Book!vars
<1>3. ASSUME ~ overlap, NEW r \in Requests, CreditPayment(r)
      PROVE  KhataInv' /\ [Book!Next]_(Book!vars)
  BY <1>3, KhataCollect DEF Book!Next
<1>4. ASSUME ~ overlap, NEW r \in Requests, Start(r) \/ IssueFromOrder(r) \/ Return(r)
      PROVE  KhataInv' /\ [Book!Next]_(Book!vars)
  BY <1>4, KhataStill
<1>5. ASSUME ~ overlap, NEW i \in DOMAIN orders, CloseOrder(i)
      PROVE  KhataInv' /\ [Book!Next]_(Book!vars)
  BY <1>5, KhataClose DEF Book!Next
<1> QED
  BY <1>1, <1>2, <1>3, <1>4, <1>5 DEF Next

\* Without overlap the rows that credit_payment writes are a khata, at every
\* commit: a collection clears the oldest open bills first, and debt and bills
\* fall together, as far as there are bills.
THEOREM AccountIsKhata == Spec => ImplementsKhata
<1>1. Spec => Book!Init /\ [][Book!Next]_(Book!vars)
  BY InitInv, NextInv, SerialInit, SerialNext, KhataInit, KhataNext, PTL DEF Spec
<1> QED
  BY <1>1 DEF ImplementsKhata, Book!Spec
=============================================================================
