------------------------ MODULE OrderPaymentProofs -------------------------
(***************************************************************************)
(* For every number of request slots, gateway payments and failures, with   *)
(* and without a webhook secret: the rows stay well typed; with one, a      *)
(* Razorpay id on a payment row is one the gateway authorised; and no       *)
(* webhook is answered for an order that was never recorded as paid, but    *)
(* for a staff link to an order without a payment row.  With one slot:      *)
(* payment and order rows agree, and only staff and refunds take a payment  *)
(* out of paid.                                                             *)
(***************************************************************************)
EXTENDS OrderPayment, SequenceTheorems, TLAPS

-----------------------------------------------------------------------------
(***************************************************************************)
(* The inductive invariant.  Both properties speak of the tables, but what  *)
(* reaches the tables comes out of the requests' snapshots, which may be    *)
(* arbitrarily old: the invariant says the same of every snapshot in        *)
(* flight.  Old snapshots do no harm because what it says of a row, given   *)
(* the gateway's `auth' and the history `rec', is never undone.             *)
(***************************************************************************)

\* A payment row, in the table or in a snapshot.
Backed(txn, auth) == WebhookSecret => txn \in auth \cup Elsewhere \cup {NoPay}
RowOK(pay, auth, rec) ==
  /\ Backed(pay.txn, auth)
  /\ pay.status = "paid" => rec

\* A request: what it read is sound, the payment it reports was made, and a
\* webhook finds the order without a payment row only after a bare link.
ReqOK(q, auth, rec, rows, lost) ==
  q # Idle => /\ RowOK(q.pay, auth, rec)
              /\ q.op \in {"verify", "webhook", "unsigned"} => Backed(q.id, auth)
              /\ q.op = "webhook" => q.id \in auth
              /\ q.op = "webhook" /\ q.pc = "missing" => lost
              /\ q.pc # "missing" => rows # <<>>

RowsOK == \A n \in DOMAIN payments : RowOK(payments[n], authorised, recorded)
RequestsOK == \A r \in Requests : ReqOK(req[r], authorised, recorded, payments, bare)

\* Nobody pays before a link was issued, and one for an order without a payment
\* row is remembered.
LinkHasRow ==
  /\ authorised # {} => linkOpen
  /\ linkOpen => payments # <<>> \/ bare

Inv == TypeOK /\ RowsOK /\ RequestsOK /\ LinkHasRow /\ AckedImpliesRecorded

\* What no step undoes.
Grows ==
  /\ authorised \subseteq authorised'
  /\ recorded => recorded'
  /\ bare => bare'
  /\ payments # <<>> => payments' # <<>>

-----------------------------------------------------------------------------
\* A flushed column is the table's value or the request's.
LEMMA FlushType == \A S, a, b, c : a \in S /\ c \in S => Flush(a, b, c) \in S
  BY DEF Flush

\* A sequence of rows with one row replaced, whatever the index.
LEMMA ReplaceRow ==
  ASSUME NEW S, NEW s \in Seq(S), NEW n \in Nat, NEW e \in S
  PROVE  /\ [s EXCEPT ![n] = e] \in Seq(S)
         /\ DOMAIN [s EXCEPT ![n] = e] = DOMAIN s
         /\ s # <<>> => [s EXCEPT ![n] = e] # <<>>
<1>1. CASE n \in 1 .. Len(s)
  BY <1>1, ExceptSeq
<1>2. CASE n \notin 1 .. Len(s)
  <2>1. [s EXCEPT ![n] = e] = s
    BY <1>2
  <2> QED
    BY <2>1
<1> QED
  BY <1>1, <1>2

\* A row that is sound stays sound.
LEMMA RowStays ==
  ASSUME NEW pay, NEW a1, NEW a2, NEW b1 \in BOOLEAN, NEW b2 \in BOOLEAN,
         RowOK(pay, a1, b1), a1 \subseteq a2, b1 => b2
  PROVE  RowOK(pay, a2, b2)
  BY DEF RowOK, Backed

\* One request moves on or ends, the others keep what they read.
LEMMA RequestsStay ==
  ASSUME Inv, Grows, recorded' \in BOOLEAN,
         NEW r \in Requests, NEW q \in Request \cup {Idle},
         req' = [req EXCEPT ![r] = q],
         ReqOK(q, authorised', recorded', payments', bare')
  PROVE  /\ req' \in [Requests -> Request \cup {Idle}]
         /\ RequestsOK'
<1>1. req' \in [Requests -> Request \cup {Idle}]
  BY DEF Inv, TypeOK
<1>2. ASSUME NEW s \in Requests
      PROVE  ReqOK(req'[s], authorised', recorded', payments', bare')
  <2>1. CASE s = r
    BY <2>1 DEF Inv, TypeOK
  <2>2. CASE s # r
    <3>1. req'[s] = req[s] /\ ReqOK(req[s], authorised, recorded, payments, bare)
      BY <2>2 DEF Inv, TypeOK, RequestsOK
    <3> QED
      BY <3>1 DEF Grows, ReqOK, RowOK, Backed
  <2> QED
    BY <2>1, <2>2
<1> QED
  BY <1>1, <1>2 DEF RequestsOK

\* Ending a request.
LEMMA DoneStays ==
  ASSUME Inv, Grows, recorded' \in BOOLEAN, NEW r \in Requests, Done(r)
  PROVE  /\ req' \in [Requests -> Request \cup {Idle}]
         /\ RequestsOK'
<1>1. ReqOK(Idle, authorised', recorded', payments', bare')
  BY DEF ReqOK
<1> QED
  BY <1>1, RequestsStay DEF Done

\* A request that has read the tables.
LEMMA Shape ==
  ASSUME Inv, NEW r \in Requests, req[r] # Idle
  PROVE  /\ req[r] \in Request
         /\ req[r].ord \in Order
         /\ req[r].pay \in Payment
         /\ req[r].id \in Txn
         /\ req[r].op \in Ops
         /\ req[r].n \in Nat
         /\ ReqOK(req[r], authorised, recorded, payments, bare)
  BY DEF Inv, TypeOK, RequestsOK, Request

\* The UPDATE of the order keeps its type.
LEMMA WriteOrderType ==
  ASSUME Inv, NEW r \in Requests, req[r] # Idle, NEW st \in OrderStatuses,
         NEW p \in PayStatuses, NEW m \in Methods, WriteOrder(r, st, p, m)
  PROVE  order' \in Order
  BY Shape, FlushType DEF WriteOrder, Inv, TypeOK, Order

\* The UPDATE of a payment row keeps the rows sound, provided that the row is
\* made paid only by a commit that also counts as recorded.
LEMMA WritePaymentStays ==
  ASSUME Inv, NEW r \in Requests, req[r] # Idle, NEW st \in PayStatuses,
         NEW m \in Methods, NEW t \in Txn, Backed(t, authorised),
         WritePayment(r, st, m, t), authorised' = authorised,
         recorded' \in BOOLEAN, recorded => recorded', st = "paid" => recorded'
  PROVE  /\ payments' \in Seq(Payment)
         /\ RowsOK'
         /\ payments # <<>> => payments' # <<>>
<1> DEFINE n == req[r].n
           row == [status |-> Flush(payments[n].status, req[r].pay.status, st),
                   method |-> Flush(payments[n].method, req[r].pay.method, m),
                   txn    |-> Flush(payments[n].txn, req[r].pay.txn, t)]
<1>1. payments' = [payments EXCEPT ![n] = row]
  BY DEF WritePayment
<1>2. payments \in Seq(Payment) /\ n \in Nat
  BY Shape DEF Inv, TypeOK
<1>3. CASE n \in DOMAIN payments
  <2>1. payments[n] \in Payment /\ RowOK(payments[n], authorised, recorded)
    BY <1>2, <1>3, ElementOfSeq DEF Inv, RowsOK
  <2>2. row \in Payment
    BY <2>1 DEF Flush, Payment
  <2>3. RowOK(row, authorised', recorded')
    BY <2>1 DEF Flush, RowOK
  <2>4. ASSUME NEW k \in DOMAIN payments
        PROVE  payments'[k] = IF k = n THEN row ELSE payments[k]
    <3> HIDE DEF row
    <3> QED BY <1>1, <1>2
  <2> HIDE DEF row
  <2>5. /\ payments' \in Seq(Payment)
        /\ DOMAIN payments' = DOMAIN payments
        /\ payments # <<>> => payments' # <<>>
    BY <1>1, <1>2, <2>2, ReplaceRow
  <2>6. ASSUME NEW k \in DOMAIN payments'
        PROVE  RowOK(payments'[k], authorised', recorded')
    <3>1. RowOK(payments[k], authorised, recorded) /\ recorded \in BOOLEAN
      BY <2>5 DEF Inv, RowsOK, TypeOK
    <3>2. RowOK(payments[k], authorised', recorded')
      BY <3>1, RowStays
    <3> QED
      BY <2>3, <2>4, <2>5, <3>2
  <2> QED
    BY <2>5, <2>6 DEF RowsOK
<1>4. CASE n \notin DOMAIN payments
  <2> HIDE DEF row
  <2>1. payments' = payments
    BY <1>1, <1>2, <1>4
  <2> QED
    BY <2>1 DEF Inv, TypeOK, RowsOK, RowOK
<1> QED
  BY <1>3, <1>4

\* The id a request may come with.
Sent(op, i) ==
  /\ op \in {"verify", "webhook", "unsigned"} => Backed(i, authorised)
  /\ op = "webhook" => i \in authorised

\* Loading a request.
LEMMA LoadStays ==
  ASSUME Inv, NEW r \in Requests, NEW op \in Ops, NEW i \in Txn, NEW n \in Nat,
         NEW pay \in Payment, RowOK(pay, authorised, recorded),
         LoadRow(r, op, i, n, pay), Sent(op, i)
  PROVE  Inv'
<1> DEFINE q == [pc |-> IF NoRow THEN "missing" ELSE "loaded", op |-> op,
                 id |-> i, ord |-> order, n |-> n, pay |-> pay, inv |-> invoice]
<1>1. req' = [req EXCEPT ![r] = q]
  BY DEF LoadRow
<1>2. UNCHANGED <<order, payments, invoice, linkOpen, authorised, refunded,
                  acked, missed, bare, failures, recorded>>
  BY DEF LoadRow, gateway
<1>3. q \in Request
  BY DEF Request, Inv, TypeOK
<1>4. op = "webhook" => payments # <<>> \/ bare
  BY DEF Inv, LinkHasRow, Sent
<1>5. ReqOK(q, authorised, recorded, payments, bare)
  BY <1>4 DEF ReqOK, NoRow, Sent
<1>6. Grows
  BY <1>2 DEF Grows
<1>7. req' \in [Requests -> Request \cup {Idle}] /\ RequestsOK'
  <2> HIDE DEF q
  <2> QED BY <1>1, <1>2, <1>3, <1>5, <1>6, RequestsStay DEF Inv, TypeOK
<1>8. RowsOK'
  BY <1>2 DEF Inv, RowsOK
<1> QED
  BY <1>2, <1>7, <1>8 DEF Inv, TypeOK, LinkHasRow, AckedImpliesRecorded

\* The newest row, or the stand-in when there is none, is sound.
LEMMA LatestOK ==
  ASSUME Inv
  PROVE  Latest \in Payment /\ RowOK(Latest, authorised, recorded) /\ Len(payments) \in Nat
<1>1. CASE payments = <<>>
  BY <1>1 DEF Latest, NewPayment, Payment, PayStatuses, Methods, Txn, RowOK, Backed
<1>2. CASE payments # <<>>
  <2>1. payments \in Seq(Payment) /\ Len(payments) \in DOMAIN payments
    BY <1>2, EmptySeq, LenProperties DEF Inv, TypeOK
  <2> QED
    BY <1>2, <2>1, ElementOfSeq, LenProperties DEF Latest, Inv, RowsOK
<1> QED
  BY <1>1, <1>2, LenProperties DEF Inv, TypeOK

\* A request that ends, with the tables' own parts shown separately.
LEMMA EndStays ==
  ASSUME Inv, NEW r \in Requests, Done(r), Grows,
         order' \in Order, payments' \in Seq(Payment), RowsOK',
         invoice' \in BOOLEAN, linkOpen' \in BOOLEAN, recorded' \in BOOLEAN,
         authorised' = authorised, refunded' \subseteq PayIds \cup Elsewhere,
         acked' \subseteq PayIds, missed' \subseteq acked', bare' = bare, failures' \in Nat,
         linkOpen => linkOpen', linkOpen' => payments' # <<>> \/ bare,
         acked' \ missed' # {} => recorded', missed' # {} => bare
  PROVE  Inv'
<1>1. req' \in [Requests -> Request \cup {Idle}] /\ RequestsOK'
  BY DoneStays
<1> QED
  BY <1>1 DEF Inv, TypeOK, LinkHasRow, AckedImpliesRecorded

-----------------------------------------------------------------------------
\* The invariant is inductive: starting a request.
LEMMA StartStep ==
  ASSUME Inv, NEW r \in Requests, Start(r)
  PROVE  Inv'
<1> USE NoPayAssumption
<1>0. /\ NoPay \in Txn /\ authorised \cup Elsewhere \subseteq Txn
      /\ \A i \in authorised \cup Elsewhere : Backed(i, authorised)
  BY DEF Txn, Inv, TypeOK, Backed
<1>1. ASSUME NEW op \in Ops, NEW i \in Txn, Load(r, op, i), Sent(op, i)
      PROVE  Inv'
  BY <1>1, LatestOK, LoadStays DEF Load
<1>2. CASE StartCreate(r)
  BY <1>0, <1>1, <1>2 DEF StartCreate, Ops, Sent
<1>3. CASE StartVerify(r)
  BY <1>0, <1>1, <1>3 DEF StartVerify, Ops, Sent
<1>4. CASE StartWebhook(r)
  BY <1>0, <1>1, <1>4 DEF StartWebhook, StartWebhookFor, StartUnsigned, Ops, Sent, Backed
<1>5. CASE StartProcess(r)
  BY <1>0, <1>1, <1>5 DEF StartProcess, Ops, Sent
<1>6. CASE StartRefund(r)
  <2>1. PICK n \in DOMAIN payments : LoadRow(r, "refund", NoPay, n, payments[n])
    BY <1>6 DEF StartRefund
  <2>2. n \in Nat /\ payments[n] \in Payment
    BY ElementOfSeq DEF Inv, TypeOK
  <2>3. RowOK(payments[n], authorised, recorded)
    BY DEF Inv, RowsOK
  <2> QED
    BY <1>0, <2>1, <2>2, <2>3, LoadStays DEF Ops, Sent
<1>7. CASE StartInvoice(r)
  BY <1>0, <1>1, <1>7 DEF StartInvoice, Ops, Sent
<1>8. CASE StartStatus(r)
  BY <1>0, <1>1, <1>8 DEF StartStatus, Ops, OrderStatuses, Sent
<1> QED
  BY <1>2, <1>3, <1>4, <1>5, <1>6, <1>7, <1>8 DEF Start

\* The invariant is inductive: a request that writes the payment row and the
\* order and ends.
LEMMA SettleStays ==
  ASSUME Inv, NEW r \in Requests, req[r] # Idle, Done(r), req[r].pc # "missing",
         NEW st \in PayStatuses, NEW m \in Methods,
         NEW t \in Txn, Backed(t, authorised), WritePayment(r, st, m, t),
         order' \in Order, invoice' \in BOOLEAN, linkOpen' \in BOOLEAN,
         recorded' \in BOOLEAN, recorded => recorded', st = "paid" => recorded',
         authorised' = authorised, refunded' \subseteq PayIds \cup Elsewhere,
         acked' \subseteq PayIds, missed' \subseteq acked', bare' = bare,
         acked' \ missed' # {} => recorded', missed' # {} => bare, failures' \in Nat,
         linkOpen => linkOpen'
  PROVE  Inv'
<1>1. /\ payments' \in Seq(Payment)
      /\ RowsOK'
      /\ payments # <<>> => payments' # <<>>
  BY WritePaymentStays
<1>2. payments # <<>>
  BY Shape DEF ReqOK
<1>3. Grows
  BY <1>1 DEF Grows
<1> QED
  BY <1>1, <1>2, <1>3, EndStays

\* The invariant is inductive: one step per handler.
LEMMA HandleStep ==
  ASSUME Inv, NEW r \in Requests, Handle(r)
  PROVE  Inv'
<1> USE NoPayAssumption DEF gateway
<1> DEFINE q == req[r]
<1>0. q # Idle
  BY DEF Handle, GetOrderPayment, OpenLink, RazorpayCreate, RazorpayVerify,
     RejectSignature, RazorpayWebhook, ProcessPayment, SettlePayment,
     DeclinePayment, RefundPayment, GetInvoice, UpdateOrderStatus, Return, At,
     Idle
<1>a. /\ q \in Request /\ q.ord \in Order /\ q.pay \in Payment
      /\ ReqOK(q, authorised, recorded, payments, bare)
  BY <1>0, Shape
<1>b. /\ q.ord.status \in OrderStatuses /\ q.ord.pay \in PayStatuses
      /\ q.ord.method \in Methods
      /\ q.pay.status \in PayStatuses /\ q.pay.method \in Methods
      /\ q.pay.txn \in Txn /\ Backed(q.pay.txn, authorised) /\ q.id \in Txn
      /\ q.op \in {"verify", "webhook", "unsigned"} => Backed(q.id, authorised)
      /\ q.op = "webhook" => q.id \in authorised
  BY <1>0, <1>a DEF Order, Payment, ReqOK, RowOK, Request
<1>c. /\ {"processing", "paid", "failed", "refunded"} \subseteq PayStatuses
      /\ {"razorpay", "upi"} \subseteq Methods
      /\ {"payment_received", "cancelled", "delivered"} \subseteq OrderStatuses
  BY DEF PayStatuses, Methods, OrderStatuses
<1>d. /\ invoice \in BOOLEAN /\ linkOpen \in BOOLEAN /\ recorded \in BOOLEAN
      /\ authorised \subseteq PayIds /\ refunded \subseteq PayIds \cup Elsewhere
      /\ acked \subseteq PayIds /\ missed \subseteq acked /\ bare \in BOOLEAN
      /\ failures \in Nat /\ order \in Order
      /\ acked \ missed # {} => recorded
      /\ missed # {} => bare
  BY DEF Inv, TypeOK, AckedImpliesRecorded
<1>e. ASSUME order' = order, payments' = payments, authorised' = authorised,
             recorded' = recorded, bare' = bare
      PROVE  RowsOK' /\ Grows /\ payments' \in Seq(Payment)
             /\ (linkOpen => payments' # <<>> \/ bare)
  BY <1>e DEF Inv, RowsOK, Grows, TypeOK, LinkHasRow
<1>1. CASE GetOrderPayment(r)
  <2> DEFINE p == NewPayment("razorpay")
             q2 == [q EXCEPT !.pc = "loaded", !.inv = invoice,
                             !.n = Len(payments) + 1, !.pay = p]
  <2>1. /\ payments' = Append(payments, p)
        /\ req' = [req EXCEPT ![r] = q2]
        /\ q.op \in {"create", "verify", "forged"}
        /\ UNCHANGED <<order, invoice, linkOpen, authorised, refunded, acked,
                       missed, bare, failures, recorded>>
    BY <1>1 DEF GetOrderPayment, At
  <2>2. p \in Payment /\ RowOK(p, authorised, recorded)
    BY DEF NewPayment, Payment, PayStatuses, Methods, Txn, RowOK, Backed
  <2> HIDE DEF p
  <2>3. /\ payments' \in Seq(Payment) /\ payments' # <<>>
        /\ Len(payments') = Len(payments) + 1 /\ Len(payments) \in Nat
        /\ \A k \in 1 .. Len(payments) : payments'[k] = payments[k]
        /\ payments'[Len(payments) + 1] = p
    BY <2>1, <2>2, AppendProperties, LenProperties DEF Inv, TypeOK
  <2>4. RowsOK'
    <3> SUFFICES ASSUME NEW k \in DOMAIN payments'
                 PROVE  RowOK(payments'[k], authorised', recorded')
      BY DEF RowsOK
    <3>1. k \in 1 .. Len(payments) + 1
      BY <2>3, LenProperties
    <3>2. CASE k \in 1 .. Len(payments)
      <4>1. k \in DOMAIN payments
        BY <3>2, LenProperties DEF Inv, TypeOK
      <4> QED
        BY <2>1, <2>3, <3>2, <4>1 DEF Inv, RowsOK
    <3>3. CASE k = Len(payments) + 1
      BY <2>1, <2>2, <2>3, <3>3
    <3> QED
      BY <2>3, <3>1, <3>2, <3>3
  <2>5. q2 \in Request
    <3>1. Len(payments) + 1 \in Nat
      BY <2>3
    <3> HIDE DEF q
    <3> QED BY <1>a, <1>d, <2>2, <3>1 DEF Request
  <2>6. ReqOK(q2, authorised', recorded', payments', bare')
    BY <1>a, <1>0, <2>1, <2>2, <2>3 DEF ReqOK, Request
  <2>7. Grows
    BY <2>1, <2>3 DEF Grows
  <2> HIDE DEF q2
  <2>8. req' \in [Requests -> Request \cup {Idle}] /\ RequestsOK'
    BY <1>d, <2>1, <2>5, <2>6, <2>7, RequestsStay
  <2> QED
    BY <2>1, <2>3, <2>4, <2>8 DEF Inv, TypeOK, LinkHasRow, AckedImpliesRecorded
<1>2. CASE RazorpayCreate(r)
  <2>1. order' \in Order
    BY <1>0, <1>2, <1>b, <1>c, WriteOrderType DEF RazorpayCreate
  <2>2. /\ q.pc # "missing" /\ Done(r)
        /\ WritePayment(r, "processing", "razorpay", q.pay.txn)
        /\ UNCHANGED <<invoice, linkOpen, authorised, refunded, acked, missed,
                       bare, failures, recorded>>
    BY <1>2 DEF RazorpayCreate, At
  <2> QED
    BY <1>0, <1>b, <1>c, <1>d, <2>1, <2>2, SettleStays
<1>o. CASE OpenLink(r)
  <2> DEFINE q2 == [q EXCEPT !.pc = "opened"]
  <2>1. /\ q.pc = "loaded" /\ q.op = "create" /\ linkOpen' = TRUE
        /\ UNCHANGED <<order, payments, invoice, authorised, refunded, acked, missed,
                       bare, failures, recorded>>
    BY <1>o DEF OpenLink, At
  <2>2. req' = [req EXCEPT ![r] = q2]
    BY <1>o, <1>a DEF OpenLink, Inv, TypeOK
  <2>3. q2 \in Request
    BY <1>a DEF Request
  <2>4. payments # <<>>
    BY <1>0, <1>a, <2>1 DEF ReqOK
  <2>5. ReqOK(q2, authorised', recorded', payments', bare')
    BY <1>a, <1>0, <2>1 DEF ReqOK, RowOK, Request
  <2> HIDE DEF q2
  <2>6. RowsOK' /\ Grows /\ payments' \in Seq(Payment)
    BY <1>e, <2>1
  <2>7. req' \in [Requests -> Request \cup {Idle}] /\ RequestsOK'
    BY <1>d, <2>1, <2>2, <2>3, <2>5, <2>6, RequestsStay
  <2> QED
    BY <2>1, <2>4, <2>6, <2>7 DEF Inv, TypeOK, LinkHasRow, AckedImpliesRecorded
<1>3. CASE RazorpayVerify(r)
  <2>1. order' \in Order
    BY <1>0, <1>3, <1>b, <1>c, WriteOrderType DEF RazorpayVerify
  <2>2. /\ q.pc # "missing" /\ Done(r) /\ Backed(q.id, authorised)
        /\ WritePayment(r, "paid", "razorpay", q.id)
        /\ invoice' = TRUE /\ recorded' = TRUE
        /\ UNCHANGED <<linkOpen, authorised, refunded, acked, missed, bare,
                       failures>>
    BY <1>3, <1>b DEF RazorpayVerify, At
  <2> QED
    BY <1>0, <1>b, <1>c, <1>d, <2>1, <2>2, SettleStays
<1>4. CASE RejectSignature(r)
  <2>1. order' \in Order
    BY <1>0, <1>4, <1>b, <1>c, WriteOrderType DEF RejectSignature
  <2>2. /\ q.pc # "missing" /\ Done(r)
        /\ WritePayment(r, "failed", q.pay.method, q.pay.txn)
        /\ UNCHANGED <<invoice, linkOpen, authorised, refunded, acked, missed,
                       bare, failures, recorded>>
    BY <1>4 DEF RejectSignature, At
  <2> QED
    BY <1>0, <1>b, <1>c, <1>d, <2>1, <2>2, SettleStays
<1>5. CASE RazorpayWebhook(r)
  <2>1. order' \in Order
    BY <1>0, <1>5, <1>b, <1>c, WriteOrderType DEF RazorpayWebhook
  <2> DEFINE txn == IF q.id = NoPay THEN q.pay.txn ELSE q.id
  <2>2. /\ q.pc # "missing" /\ Done(r)
        /\ WritePayment(r, "paid", "razorpay", txn)
        /\ txn \in Txn /\ Backed(txn, authorised)
        /\ recorded' = TRUE /\ acked' = Answer(r)
        /\ UNCHANGED <<invoice, linkOpen, authorised, refunded, missed, bare, failures>>
    BY <1>5, <1>b DEF RazorpayWebhook, At
  <2>3. acked' \subseteq PayIds /\ acked \subseteq acked'
    BY <1>b, <1>d, <2>2 DEF Answer
  <2> HIDE DEF txn
  <2> QED
    BY <1>0, <1>b, <1>c, <1>d, <2>1, <2>2, <2>3, SettleStays
<1>6. CASE ProcessPayment(r)
  <2> DEFINE q2 == [q EXCEPT !.pc = "processing", !.pay.status = "processing",
                             !.pay.method = "upi"]
  <2>1. /\ q.pc = "loaded" /\ q.op \in {"confirm", "decline"}
        /\ WritePayment(r, "processing", "upi", q.pay.txn)
        /\ UNCHANGED <<order, invoice, linkOpen, authorised, refunded, acked,
                       missed, bare, failures, recorded>>
    BY <1>6 DEF ProcessPayment, At
  <2>2. req' = [req EXCEPT ![r] = q2]
    BY <1>6, <1>a DEF ProcessPayment, Inv, TypeOK
  <2>3. /\ payments' \in Seq(Payment)
        /\ RowsOK'
        /\ payments # <<>> => payments' # <<>>
    BY <1>0, <1>b, <1>c, <1>d, <2>1, WritePaymentStays
  <2>4. q2 \in Request
    BY <1>a, <1>c DEF Request, Payment
  <2>5. ReqOK(q2, authorised', recorded', payments', bare')
    BY <1>a, <1>0, <2>1, <2>3 DEF ReqOK, RowOK, Request, Payment
  <2>6. Grows
    BY <2>1, <2>3 DEF Grows
  <2> HIDE DEF q2
  <2>7. req' \in [Requests -> Request \cup {Idle}] /\ RequestsOK'
    BY <1>d, <2>1, <2>2, <2>4, <2>5, <2>6, RequestsStay
  <2> QED
    BY <2>1, <2>3, <2>7 DEF Inv, TypeOK, LinkHasRow, AckedImpliesRecorded
<1>7. CASE SettlePayment(r)
  <2>1. order' \in Order
    BY <1>0, <1>7, <1>b, <1>c, WriteOrderType DEF SettlePayment
  <2>2. /\ q.pc # "missing" /\ Done(r)
        /\ WritePayment(r, "paid", "upi", q.pay.txn)
        /\ invoice' = TRUE /\ recorded' = TRUE
        /\ UNCHANGED <<linkOpen, authorised, refunded, acked, missed, bare,
                       failures>>
    BY <1>7 DEF SettlePayment, At
  <2> QED
    BY <1>0, <1>b, <1>c, <1>d, <2>1, <2>2, SettleStays
<1>8. CASE DeclinePayment(r)
  <2>1. order' \in Order
    BY <1>0, <1>8, <1>b, <1>c, WriteOrderType DEF DeclinePayment
  <2>2. /\ q.pc # "missing" /\ Done(r)
        /\ WritePayment(r, "failed", "upi", q.pay.txn)
        /\ UNCHANGED <<invoice, linkOpen, authorised, refunded, acked, missed,
                       bare, failures, recorded>>
    BY <1>8 DEF DeclinePayment, At
  <2> QED
    BY <1>0, <1>b, <1>c, <1>d, <2>1, <2>2, SettleStays
<1>9. CASE RefundPayment(r)
  <2>1. /\ q.pc # "missing" /\ Done(r)
        /\ WritePayment(r, "refunded", q.pay.method, q.pay.txn)
        /\ UNCHANGED <<order, invoice, linkOpen, authorised, acked, missed, bare,
                       failures, recorded>>
    BY <1>9 DEF RefundPayment, At
  <2>2. refunded' \subseteq PayIds \cup Elsewhere
    BY <1>9, <1>b, <1>d DEF RefundPayment, Online, Refundable
  <2> QED
    BY <1>0, <1>b, <1>c, <1>d, <2>1, <2>2, SettleStays
<1>10. CASE GetInvoice(r)
  <2>1. /\ Done(r) /\ invoice' = TRUE
        /\ UNCHANGED <<order, payments, linkOpen, authorised, refunded, acked,
                       missed, bare, failures, recorded>>
    BY <1>10 DEF GetInvoice
  <2> QED
    BY <1>d, <1>e, <2>1, EndStays
<1>11. CASE UpdateOrderStatus(r)
  <2> DEFINE st == StatusOf(q.op)
  <2>1. /\ Done(r) /\ q.op \in OrderStatuses \cup {"cancel", "deliver"}
        /\ WriteOrder(r, st, IF q.op = "deliver" THEN "paid" ELSE q.ord.pay,
                      q.ord.method)
        /\ UNCHANGED <<payments, invoice, linkOpen, authorised, refunded, acked,
                       missed, bare, failures, recorded>>
    BY <1>11 DEF UpdateOrderStatus, At
  <2>2. st \in OrderStatuses
    BY <1>c, <2>1 DEF StatusOf
  <2>3. order' \in Order
    <3> HIDE DEF st
    <3> QED BY <1>0, <1>b, <1>c, <2>1, <2>2, WriteOrderType
  <2>4. RowsOK' /\ Grows /\ payments' \in Seq(Payment)
        /\ (linkOpen => payments' # <<>> \/ bare)
    BY <2>1 DEF Inv, RowsOK, Grows, TypeOK, LinkHasRow
  <2> QED
    BY <1>d, <2>1, <2>3, <2>4, EndStays
<1>12. CASE Return(r)
  <2>1. /\ Done(r) /\ Refused(r)
        /\ acked' = Answer(r)
        /\ missed' = IF q.pc = "missing" THEN missed \cup (Answer(r) \ acked) ELSE missed
        /\ UNCHANGED <<order, payments, invoice, linkOpen, authorised, refunded, bare,
                       failures, recorded>>
    BY <1>12 DEF Return
  <2>2. acked' \subseteq PayIds /\ missed' \subseteq acked'
    BY <1>b, <1>d, <2>1 DEF Answer
  <2>3. q.op = "webhook" => \/ q.pc = "missing" /\ bare
                            \/ q.pc # "missing" /\ recorded
    BY <1>0, <1>a, <2>1 DEF Refused, AlreadyPaid, ReqOK, RowOK
  <2>4. (acked' \ missed' # {} => recorded') /\ (missed' # {} => bare)
    BY <1>d, <2>1, <2>3 DEF Answer
  <2> QED
    BY <1>d, <1>e, <2>1, <2>2, <2>4, EndStays
<1> QED
  BY <1>1, <1>2, <1>o, <1>3, <1>4, <1>5, <1>6, <1>7, <1>8, <1>9, <1>10, <1>11, <1>12
  DEF Handle

\* The invariant is inductive.
LEMMA InvStep ==
  ASSUME Inv, [Next]_vars
  PROVE  Inv'
<1>1. ASSUME NEW r \in Requests, Fail(r) PROVE Inv'
  <2>1. /\ Done(r) /\ failures' \in Nat
        /\ UNCHANGED <<order, payments, invoice, linkOpen, authorised, refunded,
                       acked, missed, bare, recorded>>
    BY <1>1 DEF Fail, gateway, Inv, TypeOK
  <2>2. RowsOK' /\ Grows
    BY <2>1 DEF Inv, RowsOK, Grows
  <2> QED
    BY <2>1, <2>2, EndStays DEF Inv, TypeOK, LinkHasRow, AckedImpliesRecorded
<1>2. ASSUME NEW i \in PayIds, Authorise(i) PROVE Inv'
  <2>1. /\ linkOpen /\ authorised' = authorised \cup {i}
        /\ UNCHANGED <<order, payments, invoice, linkOpen, refunded, acked, missed,
                       bare, req, failures, recorded>>
    BY <1>2 DEF Authorise
  <2>2. RowsOK' /\ RequestsOK'
    BY <2>1 DEF Inv, RowsOK, RequestsOK, ReqOK, RowOK, Backed
  <2> QED
    BY <2>1, <2>2 DEF Inv, TypeOK, LinkHasRow, AckedImpliesRecorded
<1>4. CASE PaymentLink
  <2>1. /\ linkOpen' = TRUE /\ bare' = (bare \/ NoRow)
        /\ UNCHANGED <<order, payments, invoice, authorised, refunded, acked, missed,
                       req, failures, recorded>>
    BY <1>4 DEF PaymentLink
  <2>2. RowsOK' /\ RequestsOK'
    BY <2>1 DEF Inv, RowsOK, RequestsOK, ReqOK
  <2> QED
    BY <2>1, <2>2 DEF Inv, TypeOK, LinkHasRow, AckedImpliesRecorded, NoRow
<1>3. CASE UNCHANGED vars
  BY <1>3 DEF vars, Inv, TypeOK, RowsOK, RequestsOK, LinkHasRow,
     AckedImpliesRecorded
<1> QED
  BY <1>1, <1>2, <1>3, <1>4, StartStep, HandleStep DEF Next

\* An order just placed satisfies the invariant.
LEMMA InvInit == Init => Inv
<1> SUFFICES ASSUME Init PROVE Inv
  OBVIOUS
<1>1. PICK m \in {"cod", "razorpay"} :
        /\ order = [status |-> "placed", pay |-> "pending", method |-> m]
        /\ payments \in {<<>>, <<NewPayment(m)>>}
  BY DEF Init
<1>2. NewPayment(m) \in Payment /\ RowOK(NewPayment(m), authorised, recorded)
  BY DEF NewPayment, Payment, PayStatuses, Methods, Txn, RowOK, Backed
<1>3. payments \in Seq(Payment) /\ RowsOK
  <2>1. CASE payments = <<>>
    BY <2>1 DEF RowsOK
  <2>2. CASE payments = <<NewPayment(m)>>
    <3>1. DOMAIN payments = {1} /\ payments[1] = NewPayment(m)
      BY <2>2
    <3>2. payments \in Seq(Payment)
      BY <1>2, <2>2
    <3> QED
      BY <1>2, <3>1, <3>2 DEF RowsOK
  <2> QED BY <1>1, <2>1, <2>2
<1>4. order \in Order
  BY <1>1 DEF Order, OrderStatuses, PayStatuses, Methods
<1> QED
  BY <1>3, <1>4 DEF Init, Inv, TypeOK, RequestsOK, ReqOK, LinkHasRow,
     AckedImpliesRecorded

-----------------------------------------------------------------------------
(***************************************************************************)
(* Serial executions: one request slot, failures and repeated webhooks      *)
(* included.  A request then writes what it wants to write: nothing changed *)
(* since it read.                                                           *)
(***************************************************************************)
OneSlot == \A r, s \in Requests : r = s

\* What a request read is still what the tables hold; only a refund may be of
\* an older payment row than the newest.
Current(q) ==
  q # Idle => /\ q.ord = order
              /\ q.pc = "missing" => payments = <<>>
              /\ q.pc # "missing" => q.n \in DOMAIN payments /\ q.pay = payments[q.n]
              /\ q.op # "refund" => q.n = Len(payments)
              /\ q.pc = "opened" => q.pay.status # "paid"
AllCurrent == \A r \in Requests : Current(req[r])

SerialInv == AllCurrent /\ PaidRowsAgree

\* The step of RazorpayKeepsPaid.
TakenByAsking ==
  Latest.status = "paid" /\ Latest'.status # "paid"
    => \E r \in Requests : /\ req[r] # Idle
                           /\ req[r].op \in {"confirm", "decline", "refund"}
                           /\ req'[r] # req[r]

\* The order is written as a whole.
LEMMA OrderWritten ==
  ASSUME Inv, AllCurrent, NEW r \in Requests, req[r] # Idle, NEW st, NEW p, NEW m,
         WriteOrder(r, st, p, m)
  PROVE  order' = [status |-> st, pay |-> p, method |-> m]
<1>1. req[r].ord = order
  BY DEF AllCurrent, Current
<1> QED
  BY <1>1 DEF WriteOrder, Flush

\* And so is the payment row: the newest one, or an older one, which leaves the
\* newest alone.
LEMMA PaymentWritten ==
  ASSUME Inv, AllCurrent, NEW r \in Requests, req[r] # Idle, req[r].pc # "missing",
         NEW st \in PayStatuses, NEW m \in Methods, NEW t \in Txn, WritePayment(r, st, m, t)
  PROVE  /\ Len(payments') = Len(payments)
         /\ payments # <<>> /\ payments' # <<>>
         /\ req[r].n \in DOMAIN payments' /\ DOMAIN payments' = DOMAIN payments
         /\ payments'[req[r].n] = [status |-> st, method |-> m, txn |-> t]
         /\ req[r].n = Len(payments) => Latest'.status = st
         /\ req[r].n # Len(payments) => Latest' = Latest
<1> DEFINE n == req[r].n
           pay == payments[n]
           new == [status |-> Flush(pay.status, pay.status, st),
                   method |-> Flush(pay.method, pay.method, m),
                   txn    |-> Flush(pay.txn, pay.txn, t)]
           row == [status |-> st, method |-> m, txn |-> t]
<1>1. n \in DOMAIN payments /\ req[r].pay = pay /\ payments \in Seq(Payment)
  BY DEF AllCurrent, Current, Inv, TypeOK
<1>2. new = row
  BY DEF Flush
<1>3. payments' = [payments EXCEPT ![n] = new]
  BY <1>1 DEF WritePayment
<1>4. payments' = [payments EXCEPT ![n] = row]
  BY <1>2, <1>3
<1>5. row \in Payment /\ row.status = st
  BY DEF Payment
<1> HIDE DEF row, new, pay
<1>6. /\ payments' \in Seq(Payment) /\ DOMAIN payments' = DOMAIN payments
      /\ Len(payments') = Len(payments) /\ payments'[n] = row
      /\ \A k \in DOMAIN payments \ {n} : payments'[k] = payments[k]
  BY <1>1, <1>4, <1>5
<1>7. payments # <<>> /\ payments' # <<>> /\ Len(payments) \in DOMAIN payments
  BY <1>1, <1>6
<1>8. Latest = payments[Len(payments)] /\ Latest' = payments'[Len(payments)]
  BY <1>6, <1>7 DEF Latest
<1> QED
  BY <1>1, <1>5, <1>6, <1>7, <1>8 DEF row

\* The newest row and the snapshot of a request that is not a refund.
LEMMA PayIsLatest ==
  ASSUME Inv, AllCurrent, NEW r \in Requests, req[r] # Idle, req[r].pc # "missing",
         req[r].op # "refund"
  PROVE  /\ payments # <<>> /\ req[r].pay = Latest
         /\ req[r].n = Len(payments) /\ req[r].n \in DOMAIN payments
<1>1. /\ req[r].n \in DOMAIN payments /\ req[r].pay = payments[req[r].n]
      /\ req[r].n = Len(payments) /\ payments \in Seq(Payment)
  BY DEF AllCurrent, Current, Inv, TypeOK
<1> QED
  BY <1>1 DEF Latest

\* The request ends: no snapshot is left, so only the tables matter.
LEMMA SerialDone ==
  ASSUME OneSlot, Inv, NEW r \in Requests, Done(r), PaidRowsAgree'
  PROVE  SerialInv'
<1>1. \A s \in Requests : req'[s] = Idle
  BY DEF OneSlot, Done, Inv, TypeOK
<1> QED
  BY <1>1 DEF SerialInv, AllCurrent, Current

\* A request begins: it is the only one, and what it read is current.
LEMMA SerialLoad ==
  ASSUME OneSlot, Inv, SerialInv, NEW r \in Requests, NEW op, NEW i,
         NEW n, NEW pay, LoadRow(r, op, i, n, pay),
         payments # <<>> => n \in DOMAIN payments /\ pay = payments[n],
         op # "refund" => n = Len(payments)
  PROVE  SerialInv' /\ payments' = payments
<1> DEFINE q == [pc |-> IF NoRow THEN "missing" ELSE "loaded", op |-> op, id |-> i,
                 ord |-> order, n |-> n, pay |-> pay, inv |-> invoice]
<1>1. order' = order /\ payments' = payments /\ req' = [req EXCEPT ![r] = q]
  BY DEF LoadRow
<1>2. /\ q.ord = order /\ q.n = n /\ q.pay = pay /\ q.op = op
      /\ q.pc = "missing" => payments = <<>>
      /\ q.pc # "missing" => payments # <<>>
      /\ q.pc # "opened"
  BY DEF NoRow
<1> HIDE DEF q
<1>3. \A s \in Requests : req'[s] = q
  BY <1>1 DEF OneSlot, Inv, TypeOK
<1>4. AllCurrent'
  BY <1>1, <1>2, <1>3 DEF AllCurrent, Current
<1>5. PaidRowsAgree'
  BY <1>1 DEF SerialInv, PaidRowsAgree, Latest
<1> QED
  BY <1>1, <1>4, <1>5 DEF SerialInv

\* Only the requests that read the newest row, or a refund, load one.
LEMMA SerialStart ==
  ASSUME OneSlot, Inv, SerialInv, NEW r \in Requests, Start(r)
  PROVE  SerialInv' /\ payments' = payments
<1>1. payments \in Seq(Payment)
  BY DEF Inv, TypeOK
<1>2. CASE StartRefund(r)
  <2>1. PICK n \in DOMAIN payments : LoadRow(r, "refund", NoPay, n, payments[n])
    BY <1>2 DEF StartRefund
  <2> QED
    BY <2>1, SerialLoad
<1>3. CASE ~ StartRefund(r)
  <2>1. PICK op : op # "refund" /\ \E i : LoadRow(r, op, i, Len(payments), Latest)
    BY <1>3 DEF Start, StartCreate, StartVerify, StartWebhook, StartWebhookFor, StartUnsigned,
                StartProcess, StartInvoice, StartStatus, Load, OrderStatuses
  <2>2. payments # <<>> => Len(payments) \in DOMAIN payments /\ Latest = payments[Len(payments)]
    BY <1>1 DEF Latest
  <2> QED
    BY <2>1, <2>2, SerialLoad
<1> QED
  BY <1>2, <1>3

\* The handlers, one by one.
LEMMA SerialHandle ==
  ASSUME OneSlot, Inv, SerialInv, NEW r \in Requests, Handle(r)
  PROVE  SerialInv' /\ TakenByAsking
<1>0. AllCurrent /\ PaidRowsAgree
  BY DEF SerialInv
<1>1. req[r] # Idle
  BY DEF Handle, GetOrderPayment, OpenLink, RazorpayCreate, RazorpayVerify, RejectSignature,
     RazorpayWebhook, ProcessPayment, SettlePayment, DeclinePayment, RefundPayment,
     GetInvoice, UpdateOrderStatus, Return, At, Idle
<1> DEFINE q == req[r]
<1>2. /\ q.ord = order /\ q.ord \in Order /\ q.pay \in Payment /\ q.id \in Txn /\ q \in Request
      /\ q.pay.status \in PayStatuses /\ q.pay.method \in Methods /\ q.pay.txn \in Txn
      /\ payments \in Seq(Payment) /\ req \in [Requests -> Request \cup {Idle}]
  BY <1>0, <1>1, Shape DEF AllCurrent, Current, Payment, Inv, TypeOK
<1> HIDE DEF q
<1>3. ASSUME payments' = payments, order' = order
      PROVE  PaidRowsAgree' /\ TakenByAsking
  BY <1>0, <1>3 DEF PaidRowsAgree, TakenByAsking, Latest
<1>4. ASSUME q.op # "refund", q.pc # "missing",
             NEW st \in PayStatuses, NEW m \in Methods, NEW t \in Txn, WritePayment(r, st, m, t)
      PROVE  /\ Latest'.status = st /\ q.pay = Latest
  BY <1>0, <1>1, <1>4, PaymentWritten, PayIsLatest DEF q
<1>5. CASE GetOrderPayment(r)
  <2>1. /\ q.pc = "missing" /\ q.op # "refund" /\ order' = order
        /\ payments' = Append(payments, NewPayment("razorpay"))
        /\ req' = [req EXCEPT ![r] = [@ EXCEPT !.pc = "loaded", !.inv = invoice,
                                               !.n = Len(payments) + 1,
                                               !.pay = NewPayment("razorpay")]]
    BY <1>5 DEF GetOrderPayment, At, q
  <2>2. payments = <<>>
    BY <1>0, <1>1, <2>1 DEF AllCurrent, Current, q
  <2>3. /\ Len(payments') = 1 /\ 1 \in DOMAIN payments' /\ payments'[1] = NewPayment("razorpay")
        /\ payments' # <<>>
    BY <2>1, <2>2
  <2>4. /\ req'[r].ord = q.ord /\ req'[r].pc = "loaded" /\ req'[r].n = 1
        /\ req'[r].pay = NewPayment("razorpay")
    BY <1>1, <1>2, <2>1, <2>2 DEF Request, q
  <2>5. AllCurrent'
    <3> SUFFICES ASSUME NEW s \in Requests PROVE Current(req[s])'
      BY DEF AllCurrent
    <3>1. s = r
      BY DEF OneSlot
    <3> QED
      BY <1>2, <2>1, <2>3, <2>4, <3>1 DEF Current
  <2>6. PaidRowsAgree' /\ TakenByAsking
    BY <2>2, <2>3 DEF PaidRowsAgree, TakenByAsking, Latest, NewPayment
  <2> QED
    BY <2>5, <2>6 DEF SerialInv
<1>6. CASE RazorpayCreate(r)
  <2>1. /\ q.op # "refund" /\ q.pc = "opened" /\ Done(r)
        /\ WritePayment(r, "processing", "razorpay", q.pay.txn)
    BY <1>6 DEF RazorpayCreate, At, q
  <2>2. Latest'.status = "processing" /\ q.pay = Latest
    BY <1>2, <1>4, <2>1 DEF PayStatuses, Methods
  <2>3. Latest.status # "paid"
    BY <1>0, <1>1, <2>1, <2>2 DEF AllCurrent, Current, q
  <2>4. PaidRowsAgree' /\ TakenByAsking
    BY <2>1, <2>2, <2>3 DEF PaidRowsAgree, TakenByAsking
  <2> QED
    BY <2>1, <2>4, SerialDone
<1>o. CASE OpenLink(r)
  <2>1. /\ q.pc = "loaded" /\ q.pay.status # "paid" /\ order' = order /\ payments' = payments
        /\ req' = [req EXCEPT ![r].pc = "opened"]
    BY <1>o DEF OpenLink, At, AlreadyPaid, q
  <2>2. /\ req'[r].pc = "opened" /\ req'[r].op = q.op /\ req'[r].ord = q.ord
        /\ req'[r].n = q.n /\ req'[r].pay = q.pay
    BY <1>1, <1>2, <2>1 DEF Request, q
  <2>3. AllCurrent'
    <3> SUFFICES ASSUME NEW s \in Requests PROVE Current(req[s])'
      BY DEF AllCurrent
    <3>1. s = r
      BY DEF OneSlot
    <3> QED
      BY <1>0, <1>1, <2>1, <2>2, <3>1 DEF AllCurrent, Current, q
  <2> QED
    BY <1>3, <2>1, <2>3 DEF SerialInv
<1>7. CASE RazorpayVerify(r) \/ RazorpayWebhook(r)
  <2>1. /\ q.op # "refund" /\ q.pc # "missing" /\ Done(r)
        /\ \E t \in {q.id, q.pay.txn} : WritePayment(r, "paid", "razorpay", t)
        /\ \E st : WriteOrder(r, st, "paid", "razorpay")
    BY <1>7 DEF RazorpayVerify, RazorpayWebhook, At, q
  <2>2. Latest'.status = "paid"
    BY <1>2, <1>4, <2>1 DEF PayStatuses, Methods
  <2>3. order'.pay = "paid"
    BY <1>0, <1>1, <2>1, OrderWritten
  <2>4. PaidRowsAgree' /\ TakenByAsking
    BY <2>2, <2>3 DEF PaidRowsAgree, TakenByAsking
  <2> QED
    BY <2>1, <2>4, SerialDone
<1>8. CASE RejectSignature(r)
  <2>1. /\ q.op # "refund" /\ q.pc # "missing" /\ Done(r) /\ q.pay.status # "paid"
        /\ WritePayment(r, "failed", q.pay.method, q.pay.txn)
    BY <1>8 DEF RejectSignature, At, AlreadyPaid, q
  <2>2. Latest'.status = "failed" /\ q.pay = Latest
    BY <1>2, <1>4, <2>1 DEF PayStatuses
  <2>3. PaidRowsAgree' /\ TakenByAsking
    BY <2>1, <2>2 DEF PaidRowsAgree, TakenByAsking
  <2> QED
    BY <2>1, <2>3, SerialDone
<1>9. CASE ProcessPayment(r)
  <2>1. /\ q.op \in {"confirm", "decline"} /\ q.pc = "loaded" /\ order' = order
        /\ WritePayment(r, "processing", "upi", q.pay.txn)
        /\ req' = [req EXCEPT ![r].pc = "processing",
                              ![r].pay.status = "processing", ![r].pay.method = "upi"]
    BY <1>9 DEF ProcessPayment, At, q
  <2>2. /\ Len(payments') = Len(payments) /\ q.n \in DOMAIN payments'
        /\ payments'[q.n] = [status |-> "processing", method |-> "upi", txn |-> q.pay.txn]
        /\ q.n = Len(payments)
    BY <1>0, <1>1, <1>2, <2>1, PaymentWritten, PayIsLatest DEF PayStatuses, Methods, q
  <2>3. Latest'.status = "processing"
    BY <1>2, <1>4, <2>1 DEF PayStatuses, Methods
  <2>4. /\ req'[r].pc = "processing" /\ req'[r].op = q.op /\ req'[r].ord = q.ord
        /\ req'[r].n = q.n
        /\ req'[r].pay = [status |-> "processing", method |-> "upi", txn |-> q.pay.txn]
    BY <1>1, <1>2, <2>1 DEF Request, Payment, q
  <2>5. AllCurrent'
    <3> SUFFICES ASSUME NEW s \in Requests PROVE Current(req[s])'
      BY DEF AllCurrent
    <3>1. s = r
      BY DEF OneSlot
    <3> QED
      BY <1>2, <2>1, <2>2, <2>4, <3>1 DEF Current
  <2>6. PaidRowsAgree'
    BY <2>3 DEF PaidRowsAgree
  <2>7. TakenByAsking
    <3>1. req'[r] # req[r]
      BY <2>1, <2>4 DEF q
    <3> QED
      BY <1>1, <2>1, <3>1 DEF TakenByAsking, q
  <2> QED
    BY <2>5, <2>6, <2>7 DEF SerialInv
<1>10. ASSUME Done(r), q.op \in {"confirm", "decline", "refund"}
       PROVE  TakenByAsking
  <2>1. req'[r] # req[r]
    BY <1>1, <1>2, <1>10 DEF Done
  <2> QED
    BY <1>1, <1>10, <2>1 DEF TakenByAsking, q
<1>11. CASE SettlePayment(r)
  <2>1. /\ q.op = "confirm" /\ Done(r) /\ WriteOrder(r, "payment_received", "paid", "upi")
    BY <1>11 DEF SettlePayment, At, q
  <2>2. order'.pay = "paid"
    BY <1>0, <1>1, <2>1, OrderWritten
  <2>3. PaidRowsAgree'
    BY <2>2 DEF PaidRowsAgree
  <2>4. TakenByAsking
    BY <1>10, <2>1
  <2>5. SerialInv'
    BY <2>1, <2>3, SerialDone
  <2> QED
    BY <2>4, <2>5
<1>12. CASE DeclinePayment(r)
  <2>1. /\ q.op = "decline" /\ q.pc # "missing" /\ Done(r)
        /\ WritePayment(r, "failed", "upi", q.pay.txn)
    BY <1>12 DEF DeclinePayment, At, q
  <2>2. Latest'.status = "failed"
    BY <1>2, <1>4, <2>1 DEF PayStatuses, Methods
  <2>3. PaidRowsAgree'
    BY <2>2 DEF PaidRowsAgree
  <2>4. TakenByAsking
    BY <1>10, <2>1
  <2> QED
    BY <2>1, <2>3, <2>4, SerialDone
<1>13. CASE RefundPayment(r)
  <2>1. /\ q.op = "refund" /\ q.pc # "missing" /\ Done(r) /\ order' = order
        /\ WritePayment(r, "refunded", q.pay.method, q.pay.txn)
    BY <1>13 DEF RefundPayment, At, q
  <2>2. Latest'.status = "refunded" \/ Latest' = Latest
    BY <1>0, <1>1, <1>2, <2>1, PaymentWritten DEF PayStatuses, q
  <2>3. PaidRowsAgree'
    BY <1>0, <2>1, <2>2 DEF PaidRowsAgree
  <2>4. TakenByAsking
    BY <1>10, <2>1
  <2> QED
    BY <2>1, <2>3, <2>4, SerialDone
<1>14. CASE GetInvoice(r) \/ Return(r)
  <2>1. Done(r) /\ payments' = payments /\ order' = order
    BY <1>14 DEF GetInvoice, Return
  <2> QED
    BY <1>3, <2>1, SerialDone
<1>15. CASE UpdateOrderStatus(r)
  <2>1. /\ Done(r) /\ payments' = payments
        /\ \E st, m : WriteOrder(r, st, IF q.op = "deliver" THEN "paid" ELSE q.ord.pay, m)
    BY <1>15 DEF UpdateOrderStatus, q
  <2>2. order'.pay \in {"paid", order.pay}
    BY <1>0, <1>1, <1>2, <2>1, OrderWritten
  <2>3. PaidRowsAgree' /\ TakenByAsking
    BY <1>0, <2>1, <2>2 DEF PaidRowsAgree, TakenByAsking, Latest
  <2> QED
    BY <2>1, <2>3, SerialDone
<1> QED
  BY <1>5, <1>6, <1>o, <1>7, <1>8, <1>9, <1>11, <1>12, <1>13, <1>14, <1>15 DEF Handle

\* Every step of a serial execution.
LEMMA SerialStep ==
  ASSUME OneSlot, Inv, SerialInv, [Next]_vars
  PROVE  SerialInv' /\ [TakenByAsking]_vars
<1>1. ASSUME payments' = payments
      PROVE  TakenByAsking
  BY <1>1 DEF TakenByAsking, Latest
<1>2. ASSUME NEW r \in Requests, Start(r)
      PROVE  SerialInv' /\ TakenByAsking
  BY <1>1, <1>2, SerialStart
<1>3. ASSUME NEW r \in Requests, Fail(r)
      PROVE  SerialInv' /\ TakenByAsking
  <2>1. Done(r) /\ payments' = payments /\ order' = order
    BY <1>3 DEF Fail
  <2>2. PaidRowsAgree'
    BY <2>1 DEF SerialInv, PaidRowsAgree, Latest
  <2> QED
    BY <1>1, <2>1, <2>2, SerialDone
<1>4. ASSUME payments' = payments, order' = order, req' = req
      PROVE  SerialInv'
  BY <1>4 DEF SerialInv, AllCurrent, Current, PaidRowsAgree, Latest
<1>5. CASE PaymentLink \/ \E i \in PayIds : Authorise(i)
  BY <1>1, <1>4, <1>5 DEF Authorise, PaymentLink
<1>6. CASE UNCHANGED vars
  BY <1>4, <1>6 DEF vars
<1> QED
  BY <1>2, <1>3, <1>5, <1>6, SerialHandle DEF Next

\* Its payment and order rows agree.
LEMMA SerialInit == Init => SerialInv
<1> SUFFICES ASSUME Init PROVE SerialInv
  OBVIOUS
<1>1. PICK m \in {"cod", "razorpay"} : payments \in {<<>>, <<NewPayment(m)>>}
  BY DEF Init
<1>2. Latest.status = "pending"
  BY <1>1 DEF Latest, NewPayment
<1> QED
  BY <1>2 DEF Init, SerialInv, AllCurrent, Current, PaidRowsAgree

-----------------------------------------------------------------------------
\* Whatever requests overlap, fail or repeat, the invariant holds.
THEOREM InvHolds == Spec => []Inv
<1> QED
  BY InvInit, InvStep, PTL DEF Spec

\* The tables and the requests in flight keep their types.
THEOREM TypeCorrect == Spec => []TypeOK
<1>1. Inv => TypeOK
  BY DEF Inv
<1> QED
  BY <1>1, InvHolds, PTL

\* With a webhook secret, a Razorpay id on a payment row (razorpay_verify,
\* razorpay_webhook) is of a payment the gateway authorised, for whatever order.
THEOREM RowsBacked == Spec => []GatewayBacked
<1>1. Inv => GatewayBacked
  BY DEF Inv, RowsOK, RowOK, Backed, GatewayBacked
<1> QED
  BY <1>1, InvHolds, PTL

\* razorpay_webhook answers, and so ends the retries of, a payment only when
\* the order was recorded as paid, or when the staff issued a link for an order
\* without a payment row.
THEOREM NoWebhookDropped == Spec => []AckedImpliesRecorded
<1>1. Inv => AckedImpliesRecorded
  BY DEF Inv
<1> QED
  BY <1>1, InvHolds, PTL

\* With one request slot the serial invariant holds, failures included.
THEOREM SerialInvHolds ==
  ASSUME OneSlot
  PROVE  Spec => []SerialInv
<1>1. Inv /\ SerialInv /\ [Next]_vars => SerialInv'
  BY SerialStep
<1> QED
  BY <1>1, SerialInit, InvHolds, PTL DEF Spec

\* With one slot, an order whose newest payment row is paid says so itself:
\* every handler of payments.py, and mark_delivered, writes both or neither.
THEOREM RowsAgree ==
  ASSUME OneSlot
  PROVE  Spec => []PaidRowsAgree
<1>1. SerialInv => PaidRowsAgree
  BY DEF SerialInv
<1> QED
  BY <1>1, SerialInvHolds, PTL

\* With one slot, razorpay create, verify and the webhook never take the newest
\* payment out of paid: only process_payment and a refund do.
THEOREM PaidStays ==
  ASSUME OneSlot
  PROVE  Spec => RazorpayKeepsPaid
<1>1. Inv /\ SerialInv /\ [Next]_vars => [TakenByAsking]_vars
  BY SerialStep
<1>2. Spec => [][TakenByAsking]_vars
  BY <1>1, InvHolds, SerialInvHolds, PTL DEF Spec
<1> QED
  BY <1>2 DEF RazorpayKeepsPaid, TakenByAsking
=============================================================================
