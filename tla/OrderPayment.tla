--------------------------- MODULE OrderPayment ----------------------------
(***************************************************************************)
(* Paying for a customer order (services/payment_service payments.py, with  *)
(* the refund and the payment link of store_ops and the status changes of   *)
(* order_service, store_ops and rider_service): one order row, the payment  *)
(* rows that belong to it, its invoice, and the Razorpay gateway.           *)
(*                                                                          *)
(* As in SupplierPurchase a request loads a snapshot and commits the        *)
(* changed columns; requests overlap, webhooks are delivered late and more  *)
(* than once, and a process may die between the steps of a request.         *)
(***************************************************************************)
EXTENDS Integers, Sequences, FiniteSets, Columns

CONSTANTS
  Requests,    \* request slots
  PayIds,      \* Razorpay payments a customer may make for this order
  Elsewhere,   \* Razorpay payments made for other orders
  WebhookSecret, \* is razorpay_webhook_secret set (settings.py: not by default)
  Calls,       \* the operations the clients of this instance call
  NoPay,       \* no Razorpay payment: the id is one generate_txn_id() made up
  MaxFailures  \* bound: requests that die before their commit

ASSUME NoPayAssumption == NoPay \notin PayIds \cup Elsewhere
ASSUME SecretAssumption == WebhookSecret \in BOOLEAN
ASSUME FailuresAssumption == MaxFailures \in Nat

VARIABLES
  order,       \* orders: [status, pay, method] of the order
  payments,    \* payments: the rows with this order_id, in id order
  invoice,     \* invoices: is there a row with this order_id (a unique column)
  linkOpen,    \* gateway: a Razorpay order or payment link was issued
  authorised,  \* gateway: payments the customer made
  refunded,    \* gateway: payments it gave back
  acked,       \* gateway: payments whose webhook was answered with 2xx
  missed,      \* history: those answered "payment missing"
  bare,        \* history: was a link issued while there was no payment row
  req,         \* the requests in flight
  failures,    \* requests that died so far
  recorded     \* history: did a payment row ever become paid

gateway == <<linkOpen, authorised, refunded, acked, missed, bare>>
vars == <<order, payments, invoice, linkOpen, authorised, refunded, acked,
          missed, bare, req, failures, recorded>>

\* "accepted" stands for every stage up to the hand-over to the rider,
\* "out_for_delivery" for the ones after it.
OrderStatuses == {"placed", "payment_received", "accepted", "out_for_delivery",
                  "delivered", "cancelled"}
PayStatuses == {"pending", "processing", "paid", "failed", "refunded"}
Methods == {"cod", "razorpay", "upi"}
Txn == PayIds \cup Elsewhere \cup {NoPay}

Order == [status : OrderStatuses, pay : PayStatuses, method : Methods]
Payment == [status : PayStatuses, method : Methods, txn : Txn]
NewPayment(m) == [status |-> "pending", method |-> m, txn |-> NoPay]

Ops == {"create", "verify", "forged", "webhook", "unsigned", "confirm", "decline",
        "refund", "invoice", "cancel", "deliver"}
       \cup OrderStatuses
ASSUME CallsAssumption == Calls \subseteq Ops
Request == [pc : {"missing", "loaded", "opened", "processing"}, op : Ops, id : Txn,
            ord : Order, n : Nat, pay : Payment, inv : BOOLEAN]
Idle == [pc |-> "idle"]

-----------------------------------------------------------------------------
\* checkout has committed the order; its second commit, which adds the payment
\* row, may be missing.
Init ==
  /\ \E m \in {"cod", "razorpay"} :
       /\ order = [status |-> "placed", pay |-> "pending", method |-> m]
       /\ payments \in {<<>>, <<NewPayment(m)>>}
  /\ invoice = FALSE
  /\ linkOpen = FALSE
  /\ authorised = {}
  /\ refunded = {}
  /\ acked = {}
  /\ missed = {}
  /\ bare = FALSE
  /\ req = [r \in Requests |-> Idle]
  /\ failures = 0
  /\ recorded = FALSE

-----------------------------------------------------------------------------
\* The newest payment row, ORDER BY id DESC; any row shape will do when there
\* is none, the request never looks at it.
Latest == IF payments = <<>> THEN NewPayment("cod") ELSE payments[Len(payments)]

NoRow == payments = <<>>

\* A request arrives and reads the order, its n-th payment row and its invoice.
LoadRow(r, op, i, n, pay) ==
  /\ op \in Calls
  /\ req[r] = Idle
  /\ req' = [req EXCEPT ![r] =
               [pc |-> IF NoRow THEN "missing" ELSE "loaded", op |-> op, id |-> i,
                ord |-> order, n |-> n, pay |-> pay, inv |-> invoice]]
  /\ UNCHANGED <<order, payments, invoice, gateway, failures, recorded>>

Load(r, op, i) == LoadRow(r, op, i, Len(payments), Latest)

At(r, pcs, ops) == req[r].pc \in pcs /\ req[r].op \in ops
Done(r) == req' = [req EXCEPT ![r] = Idle]

WriteOrder_StatusOnly(r, status, pay, method) ==
  order' = [order EXCEPT !.status = Flush(@, req[r].ord.status, status)]
WriteOrder(r, status, pay, method) ==
  order' = [status |-> Flush(order.status, req[r].ord.status, status),
            pay    |-> Flush(order.pay, req[r].ord.pay, pay),
            method |-> Flush(order.method, req[r].ord.method, method)]

WritePayment(r, status, method, txn) ==
  payments' = [payments EXCEPT ![req[r].n] =
                 [status |-> Flush(@.status, req[r].pay.status, status),
                  method |-> Flush(@.method, req[r].pay.method, method),
                  txn    |-> Flush(@.txn, req[r].pay.txn, txn)]]

\* generate_invoice inside the request's transaction: reuse the invoice the
\* snapshot shows, else insert one.  invoices.order_id is unique, so an insert
\* that meets an invoice committed meanwhile fails, and the request with it.
InvoiceFits(r) == req[r].inv \/ ~ invoice

-----------------------------------------------------------------------------
(***************************************************************************)
(* The gateway.                                                             *)
(***************************************************************************)

\* The customer pays through a link or an order the gateway issued.
Authorise(i) ==
  /\ linkOpen
  /\ i \notin authorised
  /\ authorised' = authorised \cup {i}
  /\ UNCHANGED <<order, payments, invoice, linkOpen, refunded, acked, missed,
                 bare, req, failures, recorded>>

\* payment_link of the staff: a link for any order, which writes no row and
\* does not look for one.
PaymentLink ==
  /\ linkOpen' = TRUE
  /\ bare' = (bare \/ NoRow)
  /\ UNCHANGED <<order, payments, invoice, authorised, refunded, acked, missed,
                 req, failures, recorded>>

-----------------------------------------------------------------------------
(***************************************************************************)
(* Requests.  verify carries a payment the gateway signed, of this order or *)
(* another one: the order is the caller's choice.  "forged" is a verify     *)
(* whose signature does not check.  Webhooks repeat until answered, and may *)
(* be repeated afterwards; without a webhook secret the id in the body is   *)
(* whatever was sent ("unsigned").                                          *)
(***************************************************************************)
StartCreate(r) == Load(r, "create", NoPay)
StartVerify_Unsigned(r) == \E i \in PayIds \cup Elsewhere : Load(r, "verify", i)
StartVerify(r) ==
  \/ \E i \in authorised \cup Elsewhere : Load(r, "verify", i)
  \/ Load(r, "forged", NoPay)
StartWebhookFor(r, i) == i \in authorised /\ Load(r, "webhook", i)
StartUnsigned(r) == ~ WebhookSecret /\ \E i \in Txn : Load(r, "unsigned", i)
StartWebhook(r) == StartUnsigned(r) \/ \E i \in PayIds : StartWebhookFor(r, i)
StartProcess(r) ==
  \E op \in {"confirm", "decline"} : payments # <<>> /\ Load(r, op, NoPay)
StartRefund(r) ==
  \E n \in DOMAIN payments : LoadRow(r, "refund", NoPay, n, payments[n])
StartInvoice(r) == Load(r, "invoice", NoPay)
StartStatus(r) == \E op \in OrderStatuses \cup {"cancel", "deliver"} : Load(r, op, NoPay)

\* get_order_payment adds the missing payment row, commits, and reads it back:
\* the payment and the invoice are fresh now, the order is not.
GetOrderPayment(r) ==
  /\ At(r, {"missing"}, {"create", "verify", "forged"})
  /\ payments' = Append(payments, NewPayment("razorpay"))
  /\ req' = [req EXCEPT ![r] = [@ EXCEPT !.pc = "loaded", !.inv = invoice,
                                         !.n = Len(payments) + 1,
                                         !.pay = NewPayment("razorpay")]]
  /\ UNCHANGED <<order, invoice, gateway, failures, recorded>>

\* The "already paid" test all Razorpay handlers begin with.
AlreadyPaid_Never(pay) == FALSE
AlreadyPaid_OrPending(pay) == pay.status \in {"paid", "processing"}
AlreadyPaid(pay) == pay.status = "paid"

\* razorpay_create calls the gateway before it commits: a request that dies in
\* between leaves an order or a link that can be paid.
OpenLink(r) ==
  /\ At(r, {"loaded"}, {"create"})
  /\ ~ AlreadyPaid(req[r].pay)
  /\ linkOpen' = TRUE
  /\ req' = [req EXCEPT ![r].pc = "opened"]
  /\ UNCHANGED <<order, payments, invoice, authorised, refunded, acked, missed,
                 bare, failures, recorded>>

RazorpayCreate(r) ==
  /\ At(r, {"opened"}, {"create"})
  /\ WritePayment(r, "processing", "razorpay", req[r].pay.txn)
  /\ WriteOrder(r, req[r].ord.status, req[r].ord.pay, "razorpay")
  /\ Done(r)
  /\ UNCHANGED <<invoice, gateway, failures, recorded>>

RazorpayVerify(r) ==
  /\ At(r, {"loaded"}, {"verify"})
  /\ ~ AlreadyPaid(req[r].pay)
  /\ InvoiceFits(r)
  /\ WritePayment(r, "paid", "razorpay", req[r].id)
  /\ WriteOrder(r, "payment_received", "paid", "razorpay")
  /\ invoice' = TRUE
  /\ recorded' = TRUE
  /\ Done(r)
  /\ UNCHANGED <<gateway, failures>>

RejectSignature(r) ==
  /\ At(r, {"loaded"}, {"forged"})
  /\ ~ AlreadyPaid(req[r].pay)
  /\ WritePayment(r, "failed", req[r].pay.method, req[r].pay.txn)
  /\ WriteOrder(r, req[r].ord.status, "failed", req[r].ord.method)
  /\ Done(r)
  /\ UNCHANGED <<invoice, gateway, failures, recorded>>

\* The webhook keeps the id the row has when the body names none.
Answer(r) == IF req[r].op = "webhook" THEN acked \cup {req[r].id} ELSE acked

RazorpayWebhook(r) ==
  /\ At(r, {"loaded"}, {"webhook", "unsigned"})
  /\ ~ AlreadyPaid(req[r].pay)
  /\ WritePayment(r, "paid", "razorpay",
                  IF req[r].id = NoPay THEN req[r].pay.txn ELSE req[r].id)
  /\ WriteOrder(r, IF req[r].ord.status = "placed" THEN "payment_received"
                   ELSE req[r].ord.status, "paid", "razorpay")
  /\ recorded' = TRUE
  /\ acked' = Answer(r)
  /\ Done(r)
  /\ UNCHANGED <<invoice, linkOpen, authorised, refunded, missed, bare, failures>>

\* Both commits of process_payment: the payment is processing, then settled.
ProcessPayment(r) ==
  /\ At(r, {"loaded"}, {"confirm", "decline"})
  /\ WritePayment(r, "processing", "upi", req[r].pay.txn)
  /\ req' = [req EXCEPT ![r].pc = "processing",
                        ![r].pay.status = "processing", ![r].pay.method = "upi"]
  /\ UNCHANGED <<order, invoice, gateway, failures, recorded>>

SettlePayment(r) ==
  /\ At(r, {"processing"}, {"confirm"})
  /\ WritePayment(r, "paid", "upi", req[r].pay.txn)
  /\ WriteOrder(r, "payment_received", "paid", "upi")
  /\ invoice' = TRUE
  /\ recorded' = TRUE
  /\ Done(r)
  /\ UNCHANGED <<gateway, failures>>

DeclinePayment(r) ==
  /\ At(r, {"processing"}, {"decline"})
  /\ WritePayment(r, "failed", "upi", req[r].pay.txn)
  /\ WriteOrder(r, req[r].ord.status, "failed", req[r].ord.method)
  /\ Done(r)
  /\ UNCHANGED <<invoice, gateway, failures, recorded>>

-----------------------------------------------------------------------------
(***************************************************************************)
(* Other services that write the same rows.                                 *)
(***************************************************************************)

\* refund_payment, of the whole amount: a row with a Razorpay id is refunded at
\* the gateway first, which gives a payment back once, if it knows it; the
\* status goes to refunded whatever it was.
Refundable(i) == i \in (authorised \cup Elsewhere) \ refunded
Online(pay) == pay.method = "razorpay" /\ pay.txn # NoPay
RefundPayment(r) ==
  LET i == req[r].pay.txn
      online == Online(req[r].pay)
  IN  /\ At(r, {"loaded"}, {"refund"})
      /\ online => Refundable(i)
      /\ refunded' = IF online THEN refunded \cup {i} ELSE refunded
      /\ WritePayment(r, "refunded", req[r].pay.method, req[r].pay.txn)
      /\ Done(r)
      /\ UNCHANGED <<order, invoice, linkOpen, authorised, acked, missed, bare,
                     failures, recorded>>

\* get_invoice makes the invoice when a customer first looks at it.
GetInvoice(r) ==
  /\ At(r, {"loaded", "missing"}, {"invoice"})
  /\ InvoiceFits(r)
  /\ invoice' = TRUE
  /\ Done(r)
  /\ UNCHANGED <<order, payments, gateway, failures, recorded>>

\* cancel_order: refused for an order that is on its way or closed.
Cancellable(ord) == ord.status \notin {"delivered", "cancelled", "out_for_delivery"}

\* The status that cancel_order by the customer and mark_delivered by the rider
\* set; the staff name one themselves.
StatusOf_AsNamed(op) == op
StatusOf(op) ==
  CASE op = "cancel" -> "cancelled" [] op = "deliver" -> "delivered" [] OTHER -> op

\* update_order_status for all three; a delivery also marks the order as paid:
\* the cash was collected.
UpdateOrderStatus(r) ==
  LET op == req[r].op
  IN  /\ At(r, {"loaded", "missing"}, OrderStatuses \cup {"cancel", "deliver"})
      /\ op = "cancel" => Cancellable(req[r].ord)
      /\ WriteOrder(r, StatusOf(op), IF op = "deliver" THEN "paid" ELSE req[r].ord.pay,
                    req[r].ord.method)
      /\ Done(r)
      /\ UNCHANGED <<payments, invoice, gateway, failures, recorded>>

-----------------------------------------------------------------------------
(***************************************************************************)
(* Requests that end without a commit.                                      *)
(***************************************************************************)

\* An early return: nothing to pay any more, no payment row, an order that can
\* no longer be cancelled, a link or refund the gateway refuses (a link for the
\* second time, with the order's number), or an invoice that another request
\* inserted first.  A webhook answers 2xx even so.
Refused(r) ==
  LET q == req[r]
  IN  \/ q.op \in {"create", "verify", "forged", "webhook", "unsigned"}
           /\ q.pc = "loaded" /\ AlreadyPaid(q.pay)
      \/ q.op \in {"webhook", "unsigned"} /\ q.pc = "missing"
      \/ q.op = "create" /\ q.pc = "loaded" /\ linkOpen
      \/ q.op = "cancel" /\ ~ Cancellable(q.ord)
      \/ q.op = "refund" /\ Online(q.pay) /\ ~ Refundable(q.pay.txn)
      \/ q.op \in {"verify", "invoice"} /\ ~ InvoiceFits(r)

Return(r) ==
  /\ req[r] # Idle
  /\ Refused(r)
  /\ acked' = Answer(r)
  /\ missed' = IF req[r].pc = "missing" THEN missed \cup (Answer(r) \ acked)
               ELSE missed
  /\ Done(r)
  /\ UNCHANGED <<order, payments, invoice, linkOpen, authorised, refunded, bare,
                 failures, recorded>>

\* The process dies, the database or the gateway fails: what the request has
\* not committed is gone.
Fail(r) ==
  /\ req[r] # Idle
  /\ failures < MaxFailures
  /\ failures' = failures + 1
  /\ Done(r)
  /\ UNCHANGED <<order, payments, invoice, gateway, recorded>>

-----------------------------------------------------------------------------
Start(r) ==
  \/ StartCreate(r) \/ StartVerify(r) \/ StartWebhook(r) \/ StartProcess(r)
  \/ StartRefund(r) \/ StartInvoice(r) \/ StartStatus(r)

Handle(r) ==
  \/ GetOrderPayment(r) \/ OpenLink(r) \/ RazorpayCreate(r) \/ RazorpayVerify(r)
  \/ RejectSignature(r) \/ RazorpayWebhook(r) \/ ProcessPayment(r)
  \/ SettlePayment(r) \/ DeclinePayment(r) \/ RefundPayment(r)
  \/ GetInvoice(r) \/ UpdateOrderStatus(r) \/ Return(r)

Next ==
  \/ \E r \in Requests : Start(r) \/ Handle(r) \/ Fail(r)
  \/ \E i \in PayIds : Authorise(i)
  \/ PaymentLink

Spec == Init /\ [][Next]_vars

\* The code gives a request no way to wait for another, so a request that is
\* being handled gets on; Razorpay repeats a webhook until it is answered.
Redeliver(i) == i \notin acked /\ \E r \in Requests : StartWebhookFor(r, i)
FairSpec ==
  /\ Spec
  /\ \A r \in Requests : WF_vars(Handle(r))
  /\ \A i \in PayIds : SF_vars(Redeliver(i))

-----------------------------------------------------------------------------
(***************************************************************************)
(* Properties that hold however many requests overlap.                      *)
(***************************************************************************)
\* The order, its payment rows and the snapshots of payments.py keep the
\* types of their columns.
TypeOK ==
  /\ order \in Order
  /\ payments \in Seq(Payment)
  /\ invoice \in BOOLEAN
  /\ linkOpen \in BOOLEAN
  /\ authorised \subseteq PayIds
  /\ refunded \subseteq PayIds \cup Elsewhere
  /\ acked \subseteq PayIds
  /\ missed \subseteq acked
  /\ bare \in BOOLEAN
  /\ req \in [Requests -> Request \cup {Idle}]
  /\ failures \in Nat
  /\ recorded \in BOOLEAN

\* With a webhook secret, a Razorpay id on a payment row is of a payment that
\* was made: only a checked signature (verify, webhook) puts it there, and
\* nothing mixes rows up.  Nothing says that it was made for this order.
GatewayBacked ==
  WebhookSecret =>
    \A n \in DOMAIN payments : payments[n].txn \in authorised \cup Elsewhere \cup {NoPay}

\* A webhook is answered, and so never sent again, only for an order that was
\* recorded as paid.  The early return "payment missing" drops money only when
\* the staff issued a link for an order that had no payment row.
AckedImpliesRecorded ==
  /\ acked \ missed # {} => recorded
  /\ missed # {} => bare

\* Money taken by the gateway is recorded in the end, although requests die,
\* verify collides with an invoice made meanwhile, and webhooks repeat; unless
\* its webhook was dropped.
EventuallyRecorded == \A i \in PayIds : i \in authorised ~> recorded \/ i \in missed

(***************************************************************************)
(* Properties of serial executions, failures and repeated webhooks          *)
(* included.                                                                *)
(***************************************************************************)

\* The payment row and the order agree that the order is paid.
PaidRowsAgree == Latest.status = "paid" => order.pay = "paid"

\* Only process_payment (which has no such test) and a refund take a payment
\* out of "paid": create, verify and the webhook leave it alone.
RazorpayKeepsPaid ==
  [][Latest.status = "paid" /\ Latest'.status # "paid"
       => \E r \in Requests : /\ req[r] # Idle
                              /\ req[r].op \in {"confirm", "decline", "refund"}
                              /\ req'[r] # req[r]]_vars
=============================================================================
