----------------------------- MODULE Delivery ------------------------------
(***************************************************************************)
(* The fulfilment of one order: picking (picking_service picking.py), the   *)
(* staff's status updates, offers and assignments (store_ops_service        *)
(* orders.py, reached from dispatch and routing too), the riders            *)
(* (rider_service rider.py), the customer's cancel (order_service orders.py)*)
(* and return (order_service returns.py).  Requests overlap as in           *)
(* SupplierPurchase.                                                        *)
(*                                                                          *)
(* Time: an offer carries a deadline 45 s ahead.  The n-th offer's deadline *)
(* is represented by n, and `lapsed' holds the deadlines that have passed;  *)
(* no deadline is 0.  There is no timer: an offer past its deadline is      *)
(* cleared when a rider next asks for it.                                   *)
(***************************************************************************)
EXTENDS Integers, Sequences, FiniteSets, Columns

CONSTANTS
  Requests,   \* request slots
  Riders,     \* delivery_persons
  NoRider,    \* orders.delivery_person_id is NULL
  MayOverlap, \* the operations called where requests overlap
  StaffSets,  \* the statuses the staff set in this instance
  MaxOffers,  \* bound: offers made in a run
  MaxReturns  \* bound: return requests made in a run

ASSUME RiderAssumption == NoRider \notin Riders
ASSUME BoundsAssumption == MaxOffers \in Nat /\ MaxReturns \in Nat

VARIABLES
  order,      \* orders: [status, rider, exp]
  track,      \* delivery_trackings.delivery_person_id of the order's rows
  offers,     \* offers made so far
  lapsed,     \* deadlines that have passed
  req,        \* the requests in flight
  returns,    \* return_requests of the order
  agreed,     \* history: riders who accepted the current offer, or whom the
              \* staff put on the job since
  overlap     \* whether requests overlap in this behaviour; never changes

vars == <<order, track, offers, lapsed, req, returns, agreed, overlap>>

\* RIDER_STATUS_STEPS, and the statuses in which the order is a rider's trip.
Steps == {"picked_up", "out_for_delivery", "near_location"}
Trip == Steps \cup {"delivery_assigned", "delivered"}
\* "placed" stands for payment_received too, "cancelled" for every closed one.
Statuses == Trip \cup {"placed", "accepted", "preparing", "packed",
                       "delivery_offered", "cancelled", "return_requested"}
RiderOrNone == Riders \cup {NoRider}

Order == [status : Statuses, rider : RiderOrNone, exp : 0 .. MaxOffers]
Ops == {"pick", "pack", "offer", "staff", "accept", "reject", "poll", "step",
        "deliver", "cancel", "return"}
ASSUME CallsAssumption == MayOverlap \subseteq Ops /\ StaffSets \subseteq Statuses
Request == [op : Ops, status : Statuses, rider : RiderOrNone, ord : Order,
            trk : RiderOrNone]
Idle == [op |-> "idle"]
\* The slot of all requests where none overlap.
Alone == CHOOSE r \in Requests : TRUE

Init ==
  /\ order = [status |-> "placed", rider |-> NoRider, exp |-> 0]
  /\ track = <<>>
  /\ offers = 0
  /\ lapsed = {}
  /\ req = [r \in Requests |-> Idle]
  /\ returns = 0
  /\ agreed = {}
  /\ overlap \in BOOLEAN

-----------------------------------------------------------------------------
\* A request arrives with its input and reads the order and its first tracking
\* row.
Load(r, op, status, rider) ==
  /\ req[r] = Idle
  /\ IF overlap THEN op \in MayOverlap ELSE r = Alone
  /\ req' = [req EXCEPT ![r] = [op |-> op, status |-> status, rider |-> rider,
                                ord |-> order,
                                trk |-> IF track = <<>> THEN NoRider ELSE track[1]]]
  /\ UNCHANGED <<order, track, offers, lapsed, returns, agreed, overlap>>

\* The commit of a request, or its end.
Done(r) ==
  /\ req' = [req EXCEPT ![r] = Idle]
  /\ UNCHANGED overlap

WriteOrder(r, status, rider, exp) ==
  LET l == req[r].ord
  IN  order' = [status |-> Flush(order.status, l.status, status),
                rider  |-> Flush(order.rider, l.rider, rider),
                exp    |-> Flush(order.exp, l.exp, exp)]

-----------------------------------------------------------------------------
(***************************************************************************)
(* Staff: update_order_status with any status, with or without a rider;     *)
(* offer_delivery and assign_delivery are two uses of it.                   *)
(***************************************************************************)
StartStaff(r) ==
  \E x \in RiderOrNone :
    \/ Load(r, "offer", "delivery_offered", x)
    \/ \E st \in StaffSets : Load(r, "staff", st, x)

\* _upsert_tracking: update the row the request saw, or insert one.
UpsertTracking_InsertOnly(q, x) ==
  track' = IF q.trk = NoRider THEN Append(track, x) ELSE track
UpsertTracking(q, x) ==
  track' = IF q.trk = NoRider THEN Append(track, x)
           ELSE [track EXCEPT ![1] = Flush(@, q.trk, x)]

\* Only an order with a rider is tracked.
Tracks(q, x) ==
  \/ q.rider # NoRider
  \/ q.status \in {"delivery_offered", "delivery_assigned"} /\ x # NoRider

StaffUpdate(r) ==
  LET q == req[r]
      x == IF q.rider = NoRider THEN q.ord.rider ELSE q.rider
      offer == q.status = "delivery_offered"
      assign == q.status = "delivery_assigned"
  IN  /\ q.op \in {"staff", "offer"}
      /\ offer => offers < MaxOffers
      /\ offers' = IF offer THEN offers + 1 ELSE offers
      /\ WriteOrder(r, q.status, x,
                    IF offer THEN offers + 1 ELSE IF assign THEN 0 ELSE q.ord.exp)
      /\ IF Tracks(q, x) THEN UpsertTracking(q, x) ELSE UNCHANGED track
      /\ agreed' = IF offer THEN {}
                   ELSE IF q.rider # NoRider \/ assign THEN agreed \cup {x}
                   ELSE agreed
      /\ UNCHANGED <<lapsed, returns>>
      /\ Done(r)

-----------------------------------------------------------------------------
(***************************************************************************)
(* Riders.  Every handler first checks that the order is the caller's.      *)
(***************************************************************************)
StartRider(r) ==
  \E op \in {"accept", "reject", "poll", "step", "deliver"}, x \in Riders :
    \E st \in IF op = "step" THEN Steps ELSE {"placed"} :
      Load(r, op, st, x)

Mine_Anyone(q) == q.ord.rider # NoRider
Mine(q) == q.ord.rider = q.rider

\* _clear_expired_offer's test; a missing deadline counts as passed.
Expired_Reversed(q) == q.ord.status = "delivery_offered" /\ q.ord.exp \notin lapsed
Expired(q) == q.ord.status = "delivery_offered" /\ q.ord.exp \in lapsed \cup {0}

\* _clear_expired_offer, called by my_orders and by accept_order.
ClearExpiredOffer(r) ==
  /\ req[r].op \in {"poll", "accept"}
  /\ Mine(req[r])
  /\ Expired(req[r])
  /\ WriteOrder(r, "packed", NoRider, 0)
  /\ UNCHANGED <<track, offers, lapsed, returns, agreed>>
  /\ Done(r)

AcceptOrder(r) ==
  LET q == req[r]
  IN  /\ q.op = "accept"
      /\ Mine(q)
      /\ ~ Expired(q)
      /\ q.ord.status = "delivery_offered"
      /\ WriteOrder(r, "delivery_assigned", q.ord.rider, 0)
      /\ agreed' = agreed \cup {q.rider}
      /\ UNCHANGED <<track, offers, lapsed, returns>>
      /\ Done(r)

RejectOrder(r) ==
  LET q == req[r]
  IN  /\ q.op = "reject"
      /\ Mine(q)
      /\ q.ord.status = "delivery_offered"
      /\ WriteOrder(r, "packed", NoRider, 0)
      /\ UNCHANGED <<track, offers, lapsed, returns, agreed>>
      /\ Done(r)

\* "Accept the offer before updating trip status" / "before delivering".
OfferPending(q) == q.ord.status = "delivery_offered"

\* update_order_status (the trip steps) and mark_delivered; that it also marks
\* the order as paid is the "deliver" operation of OrderPayment.
RiderProgress(r) ==
  LET q == req[r]
  IN  /\ q.op \in {"step", "deliver"}
      /\ Mine(q)
      /\ ~ OfferPending(q)
      /\ IF q.op = "step"
           THEN WriteOrder(r, q.status, q.ord.rider, q.ord.exp)
           ELSE WriteOrder(r, "delivered", q.ord.rider, q.ord.exp)
      /\ UNCHANGED <<track, offers, lapsed, returns, agreed>>
      /\ Done(r)

-----------------------------------------------------------------------------
(***************************************************************************)
(* picking_service: start and pack, each from the stages before it.         *)
(***************************************************************************)
StartPicking(r) ==
  \E op \in {"pick", "pack"} : Load(r, op, "placed", NoRider)

\* The statuses picking may begin from, and packing.
PickFrom(op) ==
  IF op = "pick" THEN {"accepted", "placed"} ELSE {"preparing", "accepted"}

Pick(r) ==
  LET q == req[r]
  IN  /\ q.op \in {"pick", "pack"}
      /\ q.ord.status \in PickFrom(q.op)
      /\ WriteOrder(r, IF q.op = "pick" THEN "preparing" ELSE "packed",
                    q.ord.rider, q.ord.exp)
      /\ UNCHANGED <<track, offers, lapsed, returns, agreed>>
      /\ Done(r)

-----------------------------------------------------------------------------
\* The customer cancels; refused for an order on its way or closed.
StartCancel(r) == Load(r, "cancel", "cancelled", NoRider)

CancelOrder(r) ==
  LET q == req[r]
  IN  /\ q.op = "cancel"
      /\ q.ord.status \notin {"delivered", "cancelled", "out_for_delivery"}
      /\ WriteOrder(r, "cancelled", q.ord.rider, q.ord.exp)
      /\ UNCHANGED <<track, offers, lapsed, returns, agreed>>
      /\ Done(r)

\* create_return, within 24 h of the delivery: the request and the order's
\* status in one commit (a second one only moves the request to review).
StartReturn(r) == Load(r, "return", "return_requested", NoRider)

Returnable(q) == q.ord.status = "delivered"

CreateReturn(r) ==
  LET q == req[r]
  IN  /\ q.op = "return"
      /\ Returnable(q)
      /\ returns < MaxReturns
      /\ returns' = returns + 1
      /\ WriteOrder(r, "return_requested", q.ord.rider, q.ord.exp)
      /\ Done(r)
      /\ UNCHANGED <<track, offers, lapsed, agreed>>

\* Any request may end without a commit: refused by its guard, or failed.
Return(r) ==
  /\ req[r] # Idle
  /\ UNCHANGED <<order, track, offers, lapsed, returns, agreed>>
  /\ Done(r)

\* The deadline of an offer passes.
Lapse(n) ==
  /\ n <= offers
  /\ n \notin lapsed
  /\ lapsed' = lapsed \cup {n}
  /\ UNCHANGED <<order, track, offers, req, returns, agreed, overlap>>

Commit(r) ==
  \/ StaffUpdate(r) \/ ClearExpiredOffer(r) \/ AcceptOrder(r)
  \/ RejectOrder(r) \/ RiderProgress(r) \/ CancelOrder(r)
  \/ Pick(r) \/ CreateReturn(r)

Next ==
  \/ \E r \in Requests :
       \/ StartStaff(r) \/ StartRider(r) \/ StartCancel(r)
       \/ StartPicking(r) \/ StartReturn(r)
       \/ Commit(r) \/ Return(r)
  \/ \E n \in 1 .. MaxOffers : Lapse(n)

Spec == Init /\ [][Next]_vars

\* Nothing runs on a timer: that an offer ends rests on the rider's app, which
\* keeps asking for the rider's orders, on some of these requests getting
\* through, and on the database answering.
Poll(x) == \E r \in Requests : Load(r, "poll", "placed", x)
FairSpec ==
  /\ Spec
  /\ \A r \in Requests : WF_vars(Commit(r) \/ Return(r))
  /\ \A n \in 1 .. MaxOffers : WF_vars(Lapse(n))
  /\ \A x \in Riders : SF_vars(Poll(x))
  /\ SF_vars(\E r \in Requests : ClearExpiredOffer(r))

-----------------------------------------------------------------------------
\* The order row, its tracking and return rows and every request's copy of
\* them hold only values the handlers write.
TypeOK ==
  /\ order \in Order
  /\ track \in Seq(Riders)
  /\ offers \in 0 .. MaxOffers
  /\ lapsed \subseteq 1 .. MaxOffers
  /\ req \in [Requests -> Request \cup {Idle}]
  /\ returns \in 0 .. MaxReturns
  /\ agreed \subseteq RiderOrNone
  /\ overlap \in BOOLEAN

\* Which request made the step.
Committed(r) == req[r] # Idle /\ req'[r] = Idle

\* An order stands as assigned only to a rider who accepted it, or whom the
\* staff put on the job: accept_order lets the offered rider in and no other.
\* (Of requests that do not overlap, like the other properties that say so.)
AssignedAgreed ==
  ~ overlap /\ order.status = "delivery_assigned" /\ order.rider # NoRider
    => order.rider \in agreed

\* An order is taken away from a rider (and not given to another) only by that
\* rider's own request, and only while it is an offer he has not accepted.
OnlyOwnOfferWithdrawn ==
  [][~ overlap /\ order.rider # NoRider /\ order'.rider = NoRider
       => /\ order.status = "delivery_offered"
          /\ \E r \in Requests : Committed(r) /\ req[r].rider = order.rider]_vars

\* The tracking row a customer sees shows the rider who has the order.
TrackingFollows ==
  ~ overlap /\ order.rider # NoRider => track = <<order.rider>>

\* An offer to a rider does not stay open for ever, although no timer ends it,
\* and whatever requests overlap.
OfferEnds ==
  \A k \in 1 .. MaxOffers :
    LET Open == order.status = "delivery_offered" /\ order.rider # NoRider
                  /\ order.exp = k
    IN  Open ~> ~ Open
=============================================================================
