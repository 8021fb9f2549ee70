--------------------------- MODULE DeliveryProofs ----------------------------
(***************************************************************************)
(* For every number of riders, offers and requests: the tables keep their   *)
(* types however requests overlap; and where they do not overlap, an        *)
(* assigned order is with a rider who agreed, the tracking row shows him,   *)
(* and only he gives an offer back.                                         *)
(***************************************************************************)
EXTENDS Delivery, SequenceTheorems, TLAPS

-----------------------------------------------------------------------------
\* A rider's step is one of RIDER_STATUS_STEPS.
RequestOK(q) == q.op = "step" => q.status \in Steps

Inv ==
  /\ TypeOK
  /\ \A r \in Requests : RequestOK(req[r])

(***************************************************************************)
(* One request at a time: the order and the tracking row it has read are    *)
(* those of the tables.  A rider who leaves the order leaves his tracking   *)
(* row behind, so the invariant speaks of the one row there may be.         *)
(***************************************************************************)
FirstRow(t) == IF t = << >> THEN NoRider ELSE t[1]

OthersIdle == \A r \in Requests : r # Alone => req[r] = Idle
Current(q, o, t) == q # Idle => q.ord = o /\ q.trk = FirstRow(t)
AllCurrent == \A r \in Requests : Current(req[r], order, track)
OneRow == track = << >> \/ track = <<FirstRow(track)>>

SerialInv ==
  ~ overlap => OthersIdle /\ AllCurrent /\ OneRow /\ AssignedAgreed /\ TrackingFollows

-----------------------------------------------------------------------------
\* A request in flight, field by field.
LEMMA Shape ==
  ASSUME Inv, NEW r \in Requests, req[r] # Idle
  PROVE  /\ req[r] \in Request
         /\ req[r].op \in Ops /\ req[r].status \in Statuses /\ req[r].rider \in RiderOrNone
         /\ req[r].ord \in Order /\ req[r].trk \in RiderOrNone
         /\ req[r].ord.status \in Statuses /\ req[r].ord.rider \in RiderOrNone
         /\ req[r].ord.exp \in 0 .. MaxOffers
         /\ req[r].op = "step" => req[r].status \in Steps
<1>1. req[r] \in Request /\ RequestOK(req[r])
  BY DEF Inv, TypeOK
<1>2. req[r].ord \in Order
  BY <1>1 DEF Request
<1> QED
  BY <1>1, <1>2 DEF Request, Order, RequestOK

\* Which requests there may be.
LEMMA LoadStep ==
  ASSUME Inv, NEW r \in Requests, NEW op \in Ops, NEW st \in Statuses, NEW x \in RiderOrNone,
         op = "step" => st \in Steps, Load(r, op, st, x)
  PROVE  Inv'
<1> DEFINE q == [op |-> op, status |-> st, rider |-> x, ord |-> order,
                 trk |-> IF track = << >> THEN NoRider ELSE track[1]]
<1>1. q.trk \in RiderOrNone
  <2>1. CASE track = << >>
    BY <2>1 DEF RiderOrNone
  <2>2. CASE track # << >>
    <3>1. track \in Seq(Riders)
      BY DEF Inv, TypeOK
    <3>2. 1 \in 1 .. Len(track)
      BY <2>2, <3>1, EmptySeq, LenProperties
    <3>3. track[1] \in Riders
      BY <3>1, <3>2, ElementOfSeq
    <3> QED
      BY <2>2, <3>3 DEF RiderOrNone
  <2> QED
    BY <2>1, <2>2
<1>2. q \in Request /\ RequestOK(q)
  BY <1>1 DEF Request, RequestOK, Inv, TypeOK
<1>3. /\ req' = [req EXCEPT ![r] = q]
      /\ UNCHANGED <<order, track, offers, lapsed, returns, agreed, overlap>>
  BY DEF Load
<1> HIDE DEF q
<1>4. TypeOK'
  BY <1>2, <1>3 DEF Inv, TypeOK
<1>5. \A s \in Requests : RequestOK(req'[s])
  BY <1>2, <1>3 DEF Inv, TypeOK
<1> QED
  BY <1>4, <1>5 DEF Inv

\* The step by which a request arrives, with its input.
Arrives(r) ==
  StartStaff(r) \/ StartRider(r) \/ StartCancel(r) \/ StartPicking(r) \/ StartReturn(r)

\* Whatever arrives loads the row.
LEMMA ArrivesIs ==
  ASSUME NEW r \in Requests, Arrives(r)
  PROVE  \E op \in Ops, st \in Statuses, x \in RiderOrNone :
           (op = "step" => st \in Steps) /\ Load(r, op, st, x)
<1>1. CASE StartStaff(r)
  BY <1>1, CallsAssumption DEF StartStaff, Ops, Statuses
<1>2. CASE StartRider(r)
  <2>1. PICK op \in {"accept", "reject", "poll", "step", "deliver"}, x \in Riders :
          \E st \in IF op = "step" THEN Steps ELSE {"placed"} : Load(r, op, st, x)
    BY <1>2 DEF StartRider
  <2>2. PICK st \in IF op = "step" THEN Steps ELSE {"placed"} : Load(r, op, st, x)
    BY <2>1
  <2>3. op \in Ops /\ x \in RiderOrNone /\ st \in Statuses /\ (op = "step" => st \in Steps)
    BY <2>2 DEF Ops, RiderOrNone, Statuses, Trip
  <2> QED
    BY <2>2, <2>3
<1>3. CASE StartCancel(r)
  BY <1>3 DEF StartCancel, Ops, Statuses, RiderOrNone
<1>4. CASE StartPicking(r)
  BY <1>4 DEF StartPicking, Ops, Statuses, RiderOrNone
<1>5. CASE StartReturn(r)
  BY <1>5 DEF StartReturn, Ops, Statuses, RiderOrNone
<1> QED
  BY <1>1, <1>2, <1>3, <1>4, <1>5 DEF Arrives

\* What a commit writes into the order row.
LEMMA WriteOrderIs ==
  ASSUME Inv, NEW r \in Requests, req[r] # Idle,
         NEW st \in Statuses, NEW x \in RiderOrNone, NEW n \in 0 .. MaxOffers,
         WriteOrder(r, st, x, n)
  PROVE  order' \in Order
<1>1. order \in Order
  BY DEF Inv, TypeOK
<1> QED
  BY <1>1 DEF WriteOrder, Flush, Order

\* The end of a request.
LEMMA DoneStep ==
  ASSUME Inv, NEW r \in Requests, Done(r), order' \in Order, track' \in Seq(Riders),
         offers' \in 0 .. MaxOffers, lapsed' \subseteq 1 .. MaxOffers,
         returns' \in 0 .. MaxReturns, agreed' \subseteq RiderOrNone
  PROVE  Inv'
<1>1. req' = [req EXCEPT ![r] = Idle] /\ overlap' = overlap
  BY DEF Done
<1>2. TypeOK'
  BY <1>1 DEF Inv, TypeOK
<1>3. \A s \in Requests : RequestOK(req'[s])
  BY <1>1 DEF Inv, TypeOK, RequestOK, Idle
<1> QED
  BY <1>2, <1>3 DEF Inv

\* The staff's update also keeps the tracking rows.
LEMMA StaffUpdateStep ==
  ASSUME Inv, NEW r \in Requests, StaffUpdate(r)
  PROVE  Inv'
<1> DEFINE q == req[r]
           x == IF q.rider = NoRider THEN q.ord.rider ELSE q.rider
           n == IF q.status = "delivery_offered" THEN offers + 1
                ELSE IF q.status = "delivery_assigned" THEN 0 ELSE q.ord.exp
<1>1. q # Idle
  BY DEF StaffUpdate, Idle
<1>2. /\ q.status = "delivery_offered" => offers < MaxOffers
      /\ offers' \in {offers, offers + 1}
      /\ q.status # "delivery_offered" => offers' = offers
      /\ WriteOrder(r, q.status, x, n)
      /\ (UpsertTracking(q, x) /\ Tracks(q, x)) \/ track' = track
      /\ agreed' \in {{}, agreed, agreed \cup {x}}
      /\ lapsed' = lapsed /\ returns' = returns /\ Done(r)
  BY DEF StaffUpdate
<1>3. x \in RiderOrNone /\ q.status \in Statuses
  BY <1>1, Shape
<1>4. offers \in 0 .. MaxOffers
  BY DEF Inv, TypeOK
<1>5. n \in 0 .. MaxOffers /\ offers' \in 0 .. MaxOffers
  <2>1. q.ord.exp \in 0 .. MaxOffers
    BY <1>1, Shape
  <2> QED
    BY <1>2, <1>4, <2>1, BoundsAssumption
<1>6. order' \in Order
  <2> HIDE DEF n, x
  <2> QED
    BY <1>1, <1>2, <1>3, <1>5, WriteOrderIs
<1>7. track \in Seq(Riders)
  BY DEF Inv, TypeOK
<1>8. track' \in Seq(Riders)
  <2>1. CASE UpsertTracking(q, x) /\ Tracks(q, x)
    <3>1. x \in Riders
      BY <1>3, <2>1, RiderAssumption DEF Tracks, RiderOrNone
    <3> HIDE DEF x
    <3>2. CASE q.trk = NoRider
      BY <1>7, <2>1, <3>1, <3>2, AppendProperties DEF UpsertTracking
    <3>3. CASE q.trk # NoRider
      <4> DEFINE y == Flush(track[1], q.trk, x)
      <4>1. track' = [track EXCEPT ![1] = y]
        BY <2>1, <3>3 DEF UpsertTracking
      <4>2. 1 \in 1 .. Len(track) => y \in Riders
        BY <1>7, <3>1, ElementOfSeq DEF Flush
      <4> HIDE DEF y
      <4>3. CASE 1 \in 1 .. Len(track)
        BY <1>7, <4>1, <4>2, <4>3, ExceptSeq
      <4>4. CASE 1 \notin 1 .. Len(track)
        <5>1. track = << >>
          BY <1>7, <4>4, EmptySeq, LenProperties
        <5>2. track' = << >>
          BY <4>1, <5>1
        <5> QED
          BY <5>2, EmptySeq
      <4> QED
        BY <4>3, <4>4
    <3> QED
      BY <3>2, <3>3
  <2>2. CASE track' = track
    BY <1>7, <2>2
  <2> QED
    BY <1>2, <2>1, <2>2
<1>9. agreed' \subseteq RiderOrNone
  BY <1>2, <1>3 DEF Inv, TypeOK
<1> QED
  BY <1>2, <1>5, <1>6, <1>8, <1>9, DoneStep DEF Inv, TypeOK

\* The other commits of a request write the order alone, and some of them note
\* who agreed or that a return was asked for.
Writes(r, st, x, n) ==
  /\ WriteOrder(r, st, x, n)
  /\ agreed' \in {agreed, agreed \cup {req[r].rider}}
  /\ returns' = returns \/ (returns < MaxReturns /\ returns' = returns + 1)
  /\ UNCHANGED <<track, offers, lapsed>>
  /\ Done(r)

\* A request that writes keeps the types.
LEMMA WritesStep ==
  ASSUME Inv, NEW r \in Requests, req[r] # Idle,
         NEW st \in Statuses, NEW x \in RiderOrNone, NEW n \in 0 .. MaxOffers,
         Writes(r, st, x, n)
  PROVE  Inv'
<1>1. order' \in Order
  BY WriteOrderIs DEF Writes
<1>2. agreed' \subseteq RiderOrNone
  BY Shape DEF Writes, Inv, TypeOK
<1>3. returns' \in 0 .. MaxReturns
  BY BoundsAssumption DEF Writes, Inv, TypeOK
<1> QED
  BY <1>1, <1>2, <1>3, DoneStep DEF Writes, Inv, TypeOK

\* The commits of the rider, the customer and the kitchen.
LEMMA OthersStep ==
  ASSUME Inv, NEW r \in Requests,
         \/ ClearExpiredOffer(r) \/ AcceptOrder(r) \/ RejectOrder(r) \/ RiderProgress(r)
         \/ CancelOrder(r) \/ Pick(r) \/ CreateReturn(r)
  PROVE  Inv'
<1>1. req[r] # Idle
  BY DEF ClearExpiredOffer, AcceptOrder, RejectOrder, RiderProgress, CancelOrder, Pick,
         CreateReturn, Idle
<1>2. /\ req[r].ord.rider \in RiderOrNone /\ req[r].ord.exp \in 0 .. MaxOffers
      /\ req[r].status \in Statuses /\ NoRider \in RiderOrNone /\ 0 \in 0 .. MaxOffers
  BY <1>1, Shape, BoundsAssumption DEF RiderOrNone
<1>3. /\ "packed" \in Statuses /\ "delivery_assigned" \in Statuses /\ "delivered" \in Statuses
      /\ "preparing" \in Statuses /\ "cancelled" \in Statuses
      /\ "return_requested" \in Statuses
  BY DEF Statuses, Trip
<1>4. CASE ClearExpiredOffer(r) \/ RejectOrder(r)
  <2>1. Writes(r, "packed", NoRider, 0)
    BY <1>4 DEF ClearExpiredOffer, RejectOrder, Writes
  <2> QED
    BY <1>1, <1>2, <1>3, <2>1, WritesStep
<1>5. CASE AcceptOrder(r)
  <2>1. Writes(r, "delivery_assigned", req[r].ord.rider, 0)
    BY <1>5 DEF AcceptOrder, Writes
  <2> QED
    BY <1>1, <1>2, <1>3, <2>1, WritesStep
<1>6. CASE RiderProgress(r)
  <2>1. \/ Writes(r, req[r].status, req[r].ord.rider, req[r].ord.exp)
        \/ Writes(r, "delivered", req[r].ord.rider, req[r].ord.exp)
    BY <1>6 DEF RiderProgress, Writes
  <2> QED
    BY <1>1, <1>2, <1>3, <2>1, WritesStep
<1>7. CASE CancelOrder(r)
  <2>1. Writes(r, "cancelled", req[r].ord.rider, req[r].ord.exp)
    BY <1>7 DEF CancelOrder, Writes
  <2> QED
    BY <1>1, <1>2, <1>3, <2>1, WritesStep
<1>8. CASE Pick(r)
  <2>1. \/ Writes(r, "preparing", req[r].ord.rider, req[r].ord.exp)
        \/ Writes(r, "packed", req[r].ord.rider, req[r].ord.exp)
    BY <1>8 DEF Pick, Writes
  <2> QED
    BY <1>1, <1>2, <1>3, <2>1, WritesStep
<1>9. CASE CreateReturn(r)
  <2>1. Writes(r, "return_requested", req[r].ord.rider, req[r].ord.exp)
    BY <1>9 DEF CreateReturn, Writes
  <2> QED
    BY <1>1, <1>2, <1>3, <2>1, WritesStep
<1> QED
  BY <1>4, <1>5, <1>6, <1>7, <1>8, <1>9

\* Every commit keeps the types.
LEMMA CommitStep ==
  ASSUME Inv, NEW r \in Requests, Commit(r)
  PROVE  Inv'
<1>1. CASE StaffUpdate(r)
  BY <1>1, StaffUpdateStep
<1>2. CASE ~ StaffUpdate(r)
  BY <1>2, OthersStep DEF Commit
<1> QED
  BY <1>1, <1>2

\* A request ends, or its process dies.
LEMMA ReturnStep ==
  ASSUME Inv, NEW r \in Requests, Return(r)
  PROVE  Inv'
  BY DoneStep DEF Return, Inv, TypeOK

\* The deadline of an offer passes.
LEMMA LapseStep ==
  ASSUME Inv, NEW n \in 1 .. MaxOffers, Lapse(n)
  PROVE  Inv'
  BY DEF Lapse, Inv, TypeOK

\* An order just placed satisfies the invariant.
LEMMA InitInv == Init => Inv
<1> SUFFICES ASSUME Init PROVE Inv
  OBVIOUS
<1>1. order \in Order
  BY BoundsAssumption DEF Init, Order, Statuses, RiderOrNone
<1>2. track \in Seq(Riders)
  BY EmptySeq DEF Init
<1> QED
  BY <1>1, <1>2, BoundsAssumption DEF Init, Inv, TypeOK, RequestOK, Idle

\* Every step keeps the invariant.
LEMMA NextInv == Inv /\ [Next]_vars => Inv'
<1> SUFFICES ASSUME Inv, [Next]_vars PROVE Inv'
  OBVIOUS
<1>1. CASE UNCHANGED vars
  BY <1>1 DEF vars, Inv, TypeOK
<1>2. ASSUME NEW r \in Requests, Arrives(r) PROVE Inv'
  BY <1>2, ArrivesIs, LoadStep
<1>3. ASSUME NEW r \in Requests, Commit(r) PROVE Inv'
  BY <1>3, CommitStep
<1>4. ASSUME NEW r \in Requests, Return(r) PROVE Inv'
  BY <1>4, ReturnStep
<1>5. ASSUME NEW n \in 1 .. MaxOffers, Lapse(n) PROVE Inv'
  BY <1>5, LapseStep
<1> QED
  BY <1>1, <1>2, <1>3, <1>4, <1>5 DEF Next, Arrives

\* Inv holds in every reachable state.
THEOREM InvHolds == Spec => []Inv
<1> QED
  BY InitInv, NextInv, PTL DEF Spec

\* The order, its tracking rows and what the requests hold keep their types.
THEOREM TypeCorrect == Spec => []TypeOK
<1>1. Inv => TypeOK
  BY DEF Inv
<1> QED
  BY <1>1, InvHolds, PTL

-----------------------------------------------------------------------------
(***************************************************************************)
(* Requests that do not overlap.                                            *)
(***************************************************************************)
\* The request of such a behaviour has read the order as it is.
LEMMA ItIsAlone ==
  ASSUME Inv, SerialInv, ~ overlap, NEW r \in Requests, req[r] # Idle
  PROVE  /\ r = Alone
         /\ req[r].ord = order /\ req[r].trk = FirstRow(track)
         /\ order \in Order /\ order.status \in Statuses /\ order.rider \in RiderOrNone
<1>1. r = Alone /\ req[r].ord = order /\ req[r].trk = FirstRow(track)
  BY DEF SerialInv, OthersIdle, AllCurrent, Current
<1>2. order \in Order
  BY DEF Inv, TypeOK
<1> QED
  BY <1>1, <1>2 DEF Order

\* So a commit writes what it means to write.
LEMMA SerialWrite ==
  ASSUME Inv, SerialInv, ~ overlap, NEW r \in Requests, req[r] # Idle,
         NEW st, NEW x, NEW n, WriteOrder(r, st, x, n)
  PROVE  order'.status = st /\ order'.rider = x
<1>1. req[r].ord = order
  BY ItIsAlone
<1> QED
  BY <1>1 DEF WriteOrder, Flush

\* A commit ends the only request, so what is left are the three claims about
\* order and tracking row.
LEMMA SerialDone ==
  ASSUME Inv, SerialInv, ~ overlap, NEW r \in Requests, req[r] # Idle, Done(r),
         OneRow', AssignedAgreed', TrackingFollows'
  PROVE  SerialInv'
<1>1. req' = [req EXCEPT ![r] = Idle] /\ overlap' = overlap
  BY DEF Done
<1>2. \A s \in Requests : req'[s] = req[s] \/ req'[s] = Idle
  BY <1>1 DEF Inv, TypeOK
<1>3. OthersIdle'
  BY <1>2 DEF SerialInv, OthersIdle, Alone
<1>4. \A s \in Requests : req'[s] = Idle
  BY <1>1, ItIsAlone DEF Inv, TypeOK, SerialInv, OthersIdle
<1>5. AllCurrent'
  BY <1>4 DEF AllCurrent, Current
<1> QED
  BY <1>3, <1>5 DEF SerialInv

\* Of a commit that leaves the tracking row: the rider stays or goes, and the
\* order is not assigned to anybody who has not agreed.
LEMMA SerialKeepsRow ==
  ASSUME Inv, SerialInv, ~ overlap, NEW r \in Requests, req[r] # Idle, Done(r),
         track' = track,
         order'.rider \in {order.rider, NoRider},
         order'.status = "delivery_assigned" => order'.rider \in agreed'
  PROVE  SerialInv'
<1>1. OneRow'
  BY DEF SerialInv, OneRow, FirstRow
<1>2. AssignedAgreed'
  BY DEF AssignedAgreed
<1>3. TrackingFollows'
  BY DEF SerialInv, TrackingFollows
<1> QED
  BY <1>1, <1>2, <1>3, SerialDone

\* The commits of the rider, the customer and the kitchen, one request at a time.
LEMMA SerialOthers ==
  ASSUME Inv, SerialInv, ~ overlap, NEW r \in Requests,
         \/ ClearExpiredOffer(r) \/ AcceptOrder(r) \/ RejectOrder(r) \/ RiderProgress(r)
         \/ CancelOrder(r) \/ Pick(r) \/ CreateReturn(r)
  PROVE  SerialInv'
<1>1. req[r] # Idle
  BY DEF ClearExpiredOffer, AcceptOrder, RejectOrder, RiderProgress, CancelOrder, Pick,
         CreateReturn, Idle
<1>2. req[r].ord = order
  BY <1>1, ItIsAlone
<1>3. Done(r) /\ track' = track
  BY DEF ClearExpiredOffer, AcceptOrder, RejectOrder, RiderProgress, CancelOrder, Pick,
         CreateReturn
<1>4. CASE ClearExpiredOffer(r) \/ RejectOrder(r)
  <2>1. WriteOrder(r, "packed", NoRider, 0)
    BY <1>4 DEF ClearExpiredOffer, RejectOrder
  <2>2. order'.status = "packed" /\ order'.rider = NoRider
    BY <1>1, <2>1, SerialWrite
  <2> QED
    BY <1>1, <1>3, <2>2, SerialKeepsRow
<1>5. CASE AcceptOrder(r)
  <2>1. /\ WriteOrder(r, "delivery_assigned", order.rider, 0)
        /\ order.rider = req[r].rider /\ agreed' = agreed \cup {req[r].rider}
    BY <1>2, <1>5 DEF AcceptOrder, Mine
  <2>2. order'.status = "delivery_assigned" /\ order'.rider = order.rider
    BY <1>1, <2>1, SerialWrite
  <2> QED
    BY <1>1, <1>3, <2>1, <2>2, SerialKeepsRow
<1>6. CASE RiderProgress(r)
  <2>1. \E st \in Steps \cup {"delivered"} : WriteOrder(r, st, order.rider, order.exp)
    <3>1. req[r].op = "step" => req[r].status \in Steps
      BY <1>1, Shape
    <3> QED
      BY <1>2, <1>6, <3>1 DEF RiderProgress
  <2>2. order'.status \in Steps \cup {"delivered"} /\ order'.rider = order.rider
    BY <1>1, <2>1, SerialWrite
  <2> QED
    BY <1>1, <1>3, <2>2, SerialKeepsRow DEF Steps
<1>7. CASE CancelOrder(r)
  <2>1. WriteOrder(r, "cancelled", order.rider, order.exp)
    BY <1>2, <1>7 DEF CancelOrder
  <2>2. order'.status = "cancelled" /\ order'.rider = order.rider
    BY <1>1, <2>1, SerialWrite
  <2> QED
    BY <1>1, <1>3, <2>2, SerialKeepsRow
<1>8. CASE Pick(r)
  <2>1. \E st \in {"preparing", "packed"} : WriteOrder(r, st, order.rider, order.exp)
    BY <1>2, <1>8 DEF Pick
  <2>2. order'.status \in {"preparing", "packed"} /\ order'.rider = order.rider
    BY <1>1, <2>1, SerialWrite
  <2> QED
    BY <1>1, <1>3, <2>2, SerialKeepsRow
<1>9. CASE CreateReturn(r)
  <2>1. WriteOrder(r, "return_requested", order.rider, order.exp)
    BY <1>2, <1>9 DEF CreateReturn
  <2>2. order'.status = "return_requested" /\ order'.rider = order.rider
    BY <1>1, <2>1, SerialWrite
  <2> QED
    BY <1>1, <1>3, <2>2, SerialKeepsRow
<1> QED
  BY <1>4, <1>5, <1>6, <1>7, <1>8, <1>9

\* The staff name the rider, or leave the one there is, and whoever is named is
\* on the tracking row.
LEMMA SerialStaff ==
  ASSUME Inv, SerialInv, ~ overlap, NEW r \in Requests, StaffUpdate(r)
  PROVE  SerialInv'
<1> DEFINE q == req[r]
           x == IF q.rider = NoRider THEN order.rider ELSE q.rider
<1>1. req[r] # Idle
  BY DEF StaffUpdate, Idle
<1>2. /\ q.ord = order /\ q.trk = FirstRow(track) /\ x \in RiderOrNone
  BY <1>1, ItIsAlone, Shape
<1>3. /\ \E n : WriteOrder(r, q.status, x, n)
      /\ IF Tracks(q, x) THEN UpsertTracking(q, x) ELSE track' = track
      /\ q.status = "delivery_assigned" => x \in agreed'
      /\ Done(r) /\ overlap' = overlap
  BY <1>2 DEF StaffUpdate, Done
<1>4. order'.status = q.status /\ order'.rider = x
  BY <1>1, <1>3, SerialWrite
<1>5. AssignedAgreed'
  BY <1>3, <1>4 DEF AssignedAgreed
<1> HIDE DEF q
<1>6. /\ track = << >> \/ track = <<FirstRow(track)>>
      /\ order.rider # NoRider => track = <<order.rider>>
  BY DEF SerialInv, OneRow, TrackingFollows
<1>7. CASE Tracks(q, x)
  <2>1. x # NoRider
    BY <1>7 DEF Tracks
  <2> HIDE DEF x
  <2>2. track' = <<x>>
    <3>1. UpsertTracking(q, x)
      BY <1>3, <1>7
    <3>2. CASE track = << >>
      <4>1. q.trk = NoRider
        BY <1>2, <3>2 DEF FirstRow
      <4> QED
        BY <3>1, <3>2, <4>1 DEF UpsertTracking
    <3>3. CASE track # << >>
      <4> DEFINE y == FirstRow(track)
      <4>1. track = <<y>> /\ q.trk = y /\ track \in Seq(Riders)
        BY <1>2, <1>6, <3>3 DEF Inv, TypeOK
      <4>2. y # NoRider
        <5>1. 1 \in 1 .. Len(track) /\ y = track[1]
          BY <4>1
        <5> QED
          BY <4>1, <5>1, ElementOfSeq, RiderAssumption
      <4> HIDE DEF y
      <4>3. track' = [<<y>> EXCEPT ![1] = Flush(y, y, x)]
        BY <3>1, <4>1, <4>2 DEF UpsertTracking
      <4>4. Flush(y, y, x) = x
        BY DEF Flush
      <4> QED
        BY <4>3, <4>4
    <3> QED
      BY <3>2, <3>3
  <2>3. FirstRow(track') = x
    BY <2>2 DEF FirstRow
  <2>4. OneRow' /\ TrackingFollows'
    BY <1>4, <2>2 DEF OneRow, TrackingFollows, FirstRow
  <2> QED
    BY <1>1, <1>3, <1>5, <2>4, SerialDone
<1>8. CASE ~ Tracks(q, x)
  <2>1. track' = track /\ x = order.rider
    BY <1>3, <1>8 DEF Tracks
  <2> HIDE DEF x
  <2>2. OneRow' /\ TrackingFollows'
    BY <1>4, <1>6, <2>1 DEF OneRow, TrackingFollows, FirstRow
  <2> QED
    BY <1>1, <1>3, <1>5, <2>2, SerialDone
<1> QED
  BY <1>7, <1>8

\* The request that arrives has read the row of today.
LEMMA SerialArrives ==
  ASSUME Inv, SerialInv, ~ overlap, NEW r \in Requests, Arrives(r)
  PROVE  SerialInv'
<1>1. PICK op \in Ops, st \in Statuses, x \in RiderOrNone : Load(r, op, st, x)
  BY ArrivesIs
<1> DEFINE q == [op |-> op, status |-> st, rider |-> x, ord |-> order,
                 trk |-> IF track = << >> THEN NoRider ELSE track[1]]
<1>2. /\ r = Alone /\ req' = [req EXCEPT ![r] = q]
      /\ UNCHANGED <<order, track, offers, lapsed, returns, agreed, overlap>>
  BY <1>1 DEF Load
<1>3. Current(q, order, track)
  BY DEF Current, FirstRow
<1> HIDE DEF q
<1>4. req'[r] = q /\ \A s \in Requests : s # r => req'[s] = req[s]
  BY <1>2 DEF Inv, TypeOK
<1>5. OthersIdle'
  BY <1>2, <1>4 DEF SerialInv, OthersIdle, Alone
<1>6. \A s \in Requests : Current(req'[s], order', track')
  BY <1>2, <1>3, <1>4 DEF SerialInv, AllCurrent
<1>7. AllCurrent'
  BY <1>6 DEF AllCurrent
<1>8. OneRow' /\ AssignedAgreed' /\ TrackingFollows'
  BY <1>2 DEF SerialInv, OneRow, FirstRow, AssignedAgreed, TrackingFollows
<1> QED
  BY <1>5, <1>7, <1>8 DEF SerialInv

\* A request that ends writes nothing.
LEMMA SerialReturn ==
  ASSUME Inv, SerialInv, ~ overlap, NEW r \in Requests, Return(r)
  PROVE  SerialInv'
<1>1. req[r] # Idle /\ Done(r) /\ UNCHANGED <<order, track, agreed, overlap>>
  BY DEF Return, Done
<1>2. OneRow' /\ AssignedAgreed' /\ TrackingFollows'
  BY <1>1 DEF SerialInv, OneRow, FirstRow, AssignedAgreed, TrackingFollows
<1> QED
  BY <1>1, <1>2, SerialDone

\* An order just placed has no rider.
LEMMA SerialInit == Init => SerialInv
  BY DEF Init, SerialInv, OthersIdle, AllCurrent, Current, OneRow, AssignedAgreed,
         TrackingFollows

\* Every step keeps assignment and tracking right.
LEMMA SerialNext == Inv /\ SerialInv /\ [Next]_vars => SerialInv'
<1> SUFFICES ASSUME Inv, SerialInv, [Next]_vars PROVE SerialInv'
  OBVIOUS
<1>1. CASE UNCHANGED <<order, track, req, agreed, overlap>>
  BY <1>1 DEF SerialInv, OthersIdle, Alone, AllCurrent, OneRow, FirstRow, AssignedAgreed,
              TrackingFollows
<1>2. CASE overlap /\ Next
  <2>1. overlap' = overlap
    BY <1>2 DEF Next, StartStaff, StartRider, StartCancel, StartPicking, StartReturn, Load,
                Commit, StaffUpdate, ClearExpiredOffer, AcceptOrder, RejectOrder,
                RiderProgress, CancelOrder, Pick, CreateReturn, Return, Done, Lapse
  <2> QED
    BY <1>2, <2>1 DEF SerialInv
<1>3. ASSUME NEW r \in Requests, ~ overlap, Arrives(r) \/ Commit(r) \/ Return(r)
      PROVE  SerialInv'
  BY <1>3, SerialArrives, SerialStaff, SerialOthers, SerialReturn DEF Commit
<1>4. CASE UNCHANGED vars
  BY <1>1, <1>4 DEF vars
<1>5. ASSUME NEW n \in 1 .. MaxOffers, Lapse(n)
      PROVE  SerialInv'
  BY <1>1, <1>5 DEF Lapse
<1> QED
  BY <1>2, <1>3, <1>4, <1>5 DEF Next, Arrives

\* SerialInv holds in every reachable state.
THEOREM SerialInvHolds == Spec => []SerialInv
<1> QED
  BY InitInv, NextInv, SerialInit, SerialNext, PTL DEF Spec

\* Without overlap accept_order and update_order_status assign an order only to
\* a rider who accepted it or whom the staff put on it.
THEOREM AssigneesAgreed == Spec => []AssignedAgreed
<1>1. SerialInv => AssignedAgreed
  BY DEF SerialInv, AssignedAgreed
<1> QED
  BY <1>1, SerialInvHolds, PTL

\* Without overlap _upsert_tracking keeps the tracking row with the rider.
THEOREM TrackingIsRider == Spec => []TrackingFollows
<1>1. SerialInv => TrackingFollows
  BY DEF SerialInv, TrackingFollows
<1> QED
  BY <1>1, SerialInvHolds, PTL

\* The step of OnlyOwnOfferWithdrawn.
OwnOffer ==
  ~ overlap /\ order.rider # NoRider /\ order'.rider = NoRider
    => /\ order.status = "delivery_offered"
       /\ \E r \in Requests : Committed(r) /\ req[r].rider = order.rider

\* A commit that takes the rider off the order is his own, on an open offer.
LEMMA CommitTakesOwnOffer ==
  ASSUME Inv, SerialInv, ~ overlap, NEW r \in Requests, Commit(r),
         order.rider # NoRider, order'.rider = NoRider
  PROVE  /\ order.status = "delivery_offered"
         /\ Committed(r) /\ req[r].rider = order.rider
<1>1. req[r] # Idle /\ Done(r)
  BY DEF Commit, StaffUpdate, ClearExpiredOffer, AcceptOrder, RejectOrder, RiderProgress,
         CancelOrder, Pick, CreateReturn, Idle
<1>2. req[r].ord = order
  BY <1>1, ItIsAlone
<1>3. Committed(r)
  BY <1>1 DEF Committed, Done, Inv, TypeOK
<1>4. CASE ClearExpiredOffer(r) \/ RejectOrder(r)
  BY <1>2, <1>3, <1>4 DEF ClearExpiredOffer, RejectOrder, Mine, Expired
<1>5. CASE ~ (ClearExpiredOffer(r) \/ RejectOrder(r))
  <2>1. \E st, x, n : WriteOrder(r, st, x, n) /\ x # NoRider
    <3>1. CASE StaffUpdate(r)
      <4> DEFINE x == IF req[r].rider = NoRider THEN req[r].ord.rider ELSE req[r].rider
      <4>1. x # NoRider
        BY <1>2
      <4>2. \E n : WriteOrder(r, req[r].status, x, n)
        BY <3>1 DEF StaffUpdate
      <4> HIDE DEF x
      <4> QED
        BY <4>1, <4>2
    <3>2. CASE ~ StaffUpdate(r)
      BY <1>2, <1>5, <3>2 DEF Commit, AcceptOrder, RiderProgress, CancelOrder, Pick,
                              CreateReturn
    <3> QED
      BY <3>1, <3>2
  <2> QED
    BY <1>1, <2>1, SerialWrite
<1> QED
  BY <1>2, <1>3, <1>4, <1>5

\* So is every step.
LEMMA StepTakesOwnOffer ==
  ASSUME Inv, SerialInv, [Next]_vars
  PROVE  [OwnOffer]_vars
<1>1. ASSUME NEW r \in Requests, Commit(r) PROVE OwnOffer
  BY <1>1, CommitTakesOwnOffer DEF OwnOffer
<1>2. CASE order' = order
  BY <1>2 DEF OwnOffer
<1>3. ASSUME NEW r \in Requests, Arrives(r) PROVE order' = order
  BY <1>3, ArrivesIs DEF Load
<1>4. ASSUME NEW r \in Requests, Return(r) PROVE order' = order
  BY <1>4 DEF Return
<1>5. ASSUME NEW n \in 1 .. MaxOffers, Lapse(n) PROVE order' = order
  BY <1>5 DEF Lapse
<1> QED
  BY <1>1, <1>2, <1>3, <1>4, <1>5 DEF Next, Arrives, vars

\* Without overlap an order loses its rider only by that rider's own request,
\* while it is still an offer: reject_order, or _clear_expired_offer when he polls.
THEOREM OwnOfferOnly == Spec => OnlyOwnOfferWithdrawn
<1>1. Inv /\ SerialInv /\ [Next]_vars => [OwnOffer]_vars
  BY StepTakesOwnOffer
<1>2. Spec => [][OwnOffer]_vars
  BY <1>1, InvHolds, SerialInvHolds, PTL DEF Spec
<1> QED
  BY <1>2 DEF OnlyOwnOfferWithdrawn, OwnOffer
=============================================================================
