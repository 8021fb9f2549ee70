---------------------------- MODULE Subscription ----------------------------
(***************************************************************************)
(* The sell subscription of a shop: store_ops sell.py and                   *)
(* shops.set_sell_subscription.  A plan is paid through a payment link of   *)
(* Razorpay that the shop polls afterwards; there is no webhook.  Requests  *)
(* call the gateway between their SELECT and their commit.                  *)
(*                                                                          *)
(* One shop, approved by KYC and not blocked.  Time is counted in months; a *)
(* yearly plan is a longer one.  Prices and messages are left out.          *)
(***************************************************************************)
EXTENDS SubscriptionTerms, Columns

CONSTANTS
  Requests,    \* request slots
  MayOverlap   \* the operations called where requests overlap

VARIABLES
  invoices,    \* links with a subscription invoice
  req          \* the requests in flight

db == <<shop, billing, invoices>>
vars == <<shop, billing, invoices, links, now, req, comps, dropped, overlap>>

Cadences == {"monthly", "yearly"}
Statuses == {"none", "pending", "approved", "rejected", "expired"}
Link == 1 .. MaxLinks
\* expires 0: no date; pending 0: no link.
Shop == [status : Statuses, expires : Nat, pending : 0 .. MaxLinks]

Ops == {"create", "confirm", "request", "status", "approve", "override"}
ASSUME OverlapAssumption == MayOverlap \subseteq Ops
\* got: the columns the request read; link: of the gateway call.
Request == [pc : {"loaded", "called", "activated"}, op : Ops, got : Shop, link : 0 .. MaxLinks]
Idle == [pc |-> "idle"]
Alone == CHOOSE r \in Requests : TRUE

Init ==
  /\ shop = [status |-> "none", expires |-> 0, pending |-> 0]
  /\ billing = <<>>
  /\ invoices = {}
  /\ links = <<>>
  /\ now = 1
  /\ req = [r \in Requests |-> Idle]
  /\ comps = 0
  /\ dropped = {}
  /\ overlap \in BOOLEAN

-----------------------------------------------------------------------------
Load(r) ==
  /\ req[r] = Idle
  /\ \E op \in Ops :
       /\ IF overlap THEN op \in MayOverlap ELSE r = Alone
       /\ req' = [req EXCEPT ![r] = [pc |-> "loaded", op |-> op, got |-> shop, link |-> 0]]
  /\ UNCHANGED <<db, links, now, comps, dropped, overlap>>

Commit(r, new) ==
  LET got == req[r].got
  IN  shop' = [status |-> Flush(shop.status, got.status, new.status),
               expires |-> Flush(shop.expires, got.expires, new.expires),
               pending |-> Flush(shop.pending, got.pending, new.pending)]

Done(r) == req' = [req EXCEPT ![r] = Idle]

-----------------------------------------------------------------------------
(***************************************************************************)
(* create_sell_subscription_payment                                         *)
(***************************************************************************)
CreateLink(r) ==
  /\ req[r].pc = "loaded" /\ req[r].op = "create"
  /\ Len(links) < MaxLinks
  /\ \E c \in Cadences : links' = Append(links, [cadence |-> c, paid |-> FALSE, sent |-> FALSE])
  /\ req' = [req EXCEPT ![r].pc = "called", ![r].link = Len(links) + 1]
  /\ UNCHANGED <<db, now, comps, dropped, overlap>>

\* The shop learns the link with the answer.
StorePending(r) ==
  LET q == req[r]
  IN  /\ q.pc = "called" /\ q.op = "create"
      /\ Commit(r, [q.got EXCEPT !.pending = q.link,
                                 !.status = IF @ = "approved" THEN @ ELSE "pending"])
      /\ links' = [links EXCEPT ![q.link].sent = TRUE]
      /\ dropped' = dropped \cup ({shop.pending} \ {0})
      /\ Done(r)
      /\ UNCHANGED <<billing, invoices, now, comps, overlap>>

\* The shop pays at the gateway.
Pay(l) ==
  /\ links[l].sent /\ ~ links[l].paid
  /\ links' = [links EXCEPT ![l].paid = TRUE]
  /\ UNCHANGED <<db, now, req, comps, dropped, overlap>>

-----------------------------------------------------------------------------
(***************************************************************************)
(* confirm_sell_subscription_payment                                        *)
(***************************************************************************)
PaidAtGateway(l) == links[l].paid

\* get_payment_link; an unpaid link leads to subscription_status alone.
Poll(r) ==
  LET q == req[r]
  IN  /\ q.pc = "loaded" /\ q.op = "confirm"
      /\ q.got.pending # 0
      /\ req' = [req EXCEPT ![r] = IF PaidAtGateway(q.got.pending)
                                     THEN [q EXCEPT !.pc = "called", !.link = q.got.pending]
                                     ELSE [q EXCEPT !.op = "status"]]
      /\ UNCHANGED <<db, links, now, comps, dropped, overlap>>

\* A plan bought while one is running is added to it.
Base_Now(got) == now
Base(got) == IF got.status = "approved" /\ got.expires > now THEN got.expires ELSE now

Pending(got) == 0

\* _activate_paid, with its billing row.
Extend_Stored(r) == shop.expires + Months[links[req[r].link].cadence]
Extend(r) == Base(req[r].got) + Months[links[req[r].link].cadence]

ActivatePaid(r) ==
  LET q == req[r]
  IN  /\ q.pc = "called" /\ q.op = "confirm"
      /\ Commit(r, [status |-> "approved", expires |-> Extend(r), pending |-> Pending(q.got)])
      /\ billing' = Append(billing, q.link)
      /\ req' = [req EXCEPT ![r].pc = "activated"]
      /\ UNCHANGED <<invoices, links, now, comps, dropped, overlap>>

\* issue_subscription, once per link; a failure is logged and forgotten.
IssueSubscription(r) ==
  /\ req[r].pc = "activated"
  /\ invoices' = invoices \cup {req[r].link}
  /\ Done(r)
  /\ UNCHANGED <<shop, billing, links, now, comps, dropped, overlap>>

-----------------------------------------------------------------------------
\* The lazy end of subscription_status and _selling_shop.
Lapses(got) == got.status = "approved" /\ got.expires # 0 /\ got.expires < now

Lapsed_Cleared(got) == [got EXCEPT !.status = "expired", !.pending = 0]
Lapsed(got) == [got EXCEPT !.status = "expired"]

Lapse(r) ==
  LET q == req[r]
  IN  /\ q.pc = "loaded" /\ q.op = "status"
      /\ Lapses(q.got)
      /\ Commit(r, Lapsed(q.got))
      /\ Done(r)
      /\ UNCHANGED <<billing, invoices, links, now, comps, dropped, overlap>>

RequestSell(r) ==
  LET q == req[r]
  IN  /\ q.pc = "loaded" /\ q.op = "request"
      /\ q.got.status # "approved"
      /\ Commit(r, [q.got EXCEPT !.status = "pending"])
      /\ Done(r)
      /\ UNCHANGED <<billing, invoices, links, now, comps, dropped, overlap>>

\* set_sell_subscription to approved: a month, when there is no date yet.
Comp(got) == IF got.expires = 0 THEN now + Months["monthly"] ELSE got.expires

Approve(r) ==
  LET q == req[r]
  IN  /\ q.pc = "loaded" /\ q.op = "approve"
      /\ Commit(r, [status |-> "approved", expires |-> Comp(q.got), pending |-> 0])
      /\ comps' = IF q.got.expires = 0 THEN comps + Months["monthly"] ELSE comps
      /\ dropped' = dropped \cup ({shop.pending} \ {0})
      /\ Done(r)
      /\ UNCHANGED <<billing, invoices, links, now, overlap>>

\* set_sell_subscription to another status, of those it knows
AdminStatuses == Statuses \ {"approved"}

Override(r) ==
  LET q == req[r]
  IN  /\ q.pc = "loaded" /\ q.op = "override"
      /\ \E st \in AdminStatuses : Commit(r, [q.got EXCEPT !.status = st])
      /\ Done(r)
      /\ UNCHANGED <<billing, invoices, links, now, comps, dropped, overlap>>

\* A request ends: refused, finished, or its process died.
Return(r) ==
  /\ req[r] # Idle
  /\ Done(r)
  /\ UNCHANGED <<db, links, now, comps, dropped, overlap>>

Tick ==
  /\ now < MaxNow
  /\ now' = now + 1
  /\ UNCHANGED <<db, links, req, comps, dropped, overlap>>

Next ==
  \/ Tick
  \/ \E l \in DOMAIN links : Pay(l)
  \/ \E r \in Requests :
       \/ Load(r) \/ CreateLink(r) \/ StorePending(r) \/ Poll(r) \/ ActivatePaid(r)
       \/ IssueSubscription(r) \/ Lapse(r) \/ RequestSell(r) \/ Approve(r) \/ Override(r)
       \/ Return(r)

Spec == Init /\ [][Next]_vars

-----------------------------------------------------------------------------
\* Profile, billing rows, payment links and the snapshots of sell.py keep
\* the types of their columns.
TypeOK ==
  /\ shop \in Shop
  /\ billing \in Seq(Link)
  /\ invoices \subseteq Link
  /\ links \in Seq([cadence : Cadences, paid : BOOLEAN, sent : BOOLEAN])
  /\ now \in 1 .. MaxNow
  /\ req \in [Requests -> Request \cup {Idle}]
  /\ comps \in Nat
  /\ dropped \subseteq Link
=============================================================================
