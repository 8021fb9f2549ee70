----------------------------- MODULE ShopProofs -----------------------------
(***************************************************************************)
(* The sums of a shop: what it owes its suppliers and what they brought in  *)
(* (SupplierPurchase), what it sold (CartCheckout) and the time it paid for *)
(* (Subscription).                                                          *)
(*                                                                          *)
(* SupplierPurchase, for every set of POs, amounts and request slots: the   *)
(* rows stay well typed, every PO stays inside the payment rules, and no PO *)
(* is paid before its goods were booked, whatever requests overlap.  With   *)
(* one slot, where requests do not overlap: no payment is credited twice,   *)
(* the balance is what the POs owe, and the stock is what they brought in.  *)
(*                                                                          *)
(* CartCheckout, for every shelf, every shop of each product and any number *)
(* of slots, lines and orders: the orders explain what is missing on the    *)
(* shelf, whatever overlaps; one request at a time, stock, cart and order   *)
(* change together and a cart of one shop is sold by that shop.             *)
(*                                                                          *)
(* Subscription, for every plan and any number of slots and links: no time  *)
(* is granted that was not paid or given, whatever overlaps; one request at *)
(* a time no paid link is forgotten and no running plan is shortened.       *)
(*                                                                          *)
(* CartCheckout and Subscription are instantiated under a name, over the    *)
(* tables of CheckoutTerms and SubscriptionTerms: all three systems have    *)
(* request slots and their copies.                                          *)
(***************************************************************************)
EXTENDS SupplierPurchase, CheckoutTerms, SubscriptionTerms, SequenceTheorems,
        FiniteSetTheorems, WellFoundedInduction, TLAPS

CONSTANTS MayOverlap, MaxLines, MaxOrders
VARIABLE invoices
Cart == INSTANCE CartCheckout
Sub == INSTANCE Subscription

\* Clamping at zero yields a natural number.
LEMMA Max0Type == \A n \in Int : Max0(n) \in Nat
  BY DEF Max0

\* A flushed column is the table's value or the request's.
LEMMA FlushType == \A S, a, b, c : a \in S /\ c \in S => Flush(a, b, c) \in S
  BY DEF Flush

\* Loading a request of known shape preserves the types.
LEMMA LoadType ==
  ASSUME TypeOK, NEW r \in Requests, NEW op \in Ops, NEW p \in POs,
         NEW amt \in Nat, NEW o \in RzOrders \cup {NoRz}, Load(r, op, p, amt, o)
  PROVE  TypeOK'
<1> DEFINE q == [pc |-> "loaded", op |-> op, p |-> p, amt |-> amt, rz |-> o,
                 row |-> po[p], payable |-> payable, stock |-> stock,
                 avail |-> avail, seen |-> FALSE]
<1>1. q \in Request
  BY DEF TypeOK, Request
<1>2. req' = [req EXCEPT ![r] = q]
  BY DEF Load
<1>3. req' \in [Requests -> Request \cup {Idle}]
  <2> HIDE DEF q
  <2> QED BY <1>1, <1>2 DEF TypeOK
<1> QED
  BY <1>3 DEF TypeOK, Load, goods, bills, money

\* Ending a request preserves the types.
LEMMA DoneType ==
  ASSUME req \in [Requests -> Request \cup {Idle}], NEW r \in Requests, Done(r)
  PROVE  req' \in [Requests -> Request \cup {Idle}]
  BY DEF Done

\* The UPDATE of a PO row preserves its type.
LEMMA UpdatedType ==
  ASSUME TypeOK, NEW r \in Requests, req[r] # Idle, NEW status \in Statuses,
         NEW paid \in Nat, NEW note \in SUBSET Tags
  PROVE  Updated(r, status, paid, note) \in [POs -> Row]
<1> DEFINE q == req[r]
           row == [status |-> Flush(po[q.p].status, q.row.status, status),
                   paid   |-> Flush(po[q.p].paid, q.row.paid, paid),
                   note   |-> Flush(po[q.p].note, q.row.note, note)]
<1>1. q \in Request /\ q.p \in POs /\ po[q.p] \in Row
  BY DEF TypeOK, Request
<1>2. row \in Row
  BY <1>1 DEF Row, Flush
<1>3. Updated(r, status, paid, note) = [po EXCEPT ![q.p] = row]
  BY DEF Updated
<1> HIDE DEF row
<1> QED
  BY <1>1, <1>2, <1>3 DEF TypeOK

\* Receiving the goods keeps stock, offer and movements natural numbers.
LEMMA ReceiveGoodsType ==
  ASSUME TypeOK, NEW r \in Requests, req[r] # Idle,
         ReceiveGoods(r)
  PROVE  stock' \in Nat /\ avail' \in Nat /\ movements' \in [POs -> Nat]
<1> DEFINE q == req[r]
<1>1. q.p \in POs /\ q.stock \in Nat /\ q.avail \in Nat /\ Qty[q.p] \in Nat
  BY QtyAssumption DEF TypeOK, Request
<1>2. Max0(q.avail - Qty[q.p]) \in Nat
  BY <1>1, Max0Type
<1> QED
  BY <1>1, <1>2 DEF TypeOK, ReceiveGoods, Flush

\* The types are inductive: one step per action.
LEMMA TypeStep ==
  ASSUME TypeOK, [Next]_vars
  PROVE  TypeOK'
<1> USE QtyAssumption, TotalAssumption, AmountsAssumption, NoRzAssumption
<1>1. ASSUME NEW r \in Requests, StartCreate(r) PROVE TypeOK'
  <2>1. PICK op \in {"create", "receive", "buy"}, p \in POs :
          Load(r, op, p, Total[p], NoRz)
    BY <1>1 DEF StartCreate
  <2> QED
    BY <2>1, LoadType DEF Ops
<1>2. ASSUME NEW r \in Requests, StartDecision(r) PROVE TypeOK'
  <2>1. PICK op \in {"accept", "reject"}, p \in POs : Load(r, op, p, 0, NoRz)
    BY <1>2 DEF StartDecision
  <2> QED
    BY <2>1, LoadType DEF Ops
<1>3. \A p \in POs : Max0(Due(p, po[p])) \in Nat
  BY Max0Type DEF Due, TypeOK, Row
<1>4. ASSUME NEW r \in Requests, StartRzCreate(r) PROVE TypeOK'
  <2>1. PICK p \in POs : \E amt \in Amounts \cup {Max0(Due(p, po[p]))} :
          Load(r, "rzcreate", p, amt, NoRz)
    BY <1>4 DEF StartRzCreate
  <2> QED
    BY <1>3, <2>1, LoadType DEF Ops
<1>5. ASSUME NEW r \in Requests, StartPay(r) PROVE TypeOK'
  <2>1. PICK p \in POs : \E amt \in Amounts \cup {Max0(Due(p, po[p]))} :
          Load(r, "pay", p, amt, NoRz)
    BY <1>5 DEF StartPay
  <2> QED
    BY <1>3, <2>1, LoadType DEF Ops
<1>6. ASSUME NEW r \in Requests, StartVerify(r) PROVE TypeOK'
  <2>1. PICK o \in authorised, p \in POs :
          \E amt \in Amounts \cup {IF <<"rz_pending", o>> \in po[p].note THEN rz[o].amt
                                   ELSE Max0(Due(p, po[p]))} :
            Load(r, "pay", p, amt, o)
    BY <1>6 DEF StartVerify
  <2>2. o \in RzOrders /\ rz[o].amt \in Nat
    BY DEF TypeOK
  <2> QED
    BY <1>3, <2>1, <2>2, LoadType DEF Ops
<1>7. ASSUME NEW r \in Requests, Return(r) PROVE TypeOK'
  BY <1>7 DEF Return, TypeOK, goods, bills, money
<1>8. ASSUME NEW r \in Requests, Handle(r) PROVE TypeOK'
  <2>0. req[r] # Idle /\ req[r] \in Request
    BY <1>8 DEF Handle, CreatePending, CreateReceived, CreatePaid,
       AcceptPurchase, RejectPurchase, CreateRazorpayPay, PayPurchase,
       FindInvoice, IssueInvoice, At, Idle, TypeOK
  <2>1. CASE CreatePending(r)
    BY <2>0, <2>1, DoneType DEF CreatePending, TypeOK, Request, Row, Statuses,
       goods, bills, money
  <2>2. CASE CreateReceived(r)
    <3>1. po' \in [POs -> Row]
      BY <2>0, <2>2 DEF CreateReceived, TypeOK, Request, Row, Statuses
    <3>2. payable' \in Int
      BY <2>0, <2>2 DEF CreateReceived, AddPayable, Flush, TypeOK, Request
    <3> QED
      BY <2>0, <2>2, <3>1, <3>2, ReceiveGoodsType, DoneType
      DEF CreateReceived, TypeOK, bills, money
  <2>3. CASE CreatePaid(r)
    <3>1. po' \in [POs -> Row]
      BY <2>0, <2>3 DEF CreatePaid, TypeOK, Request, Row, Statuses
    <3>2. req' \in [Requests -> Request \cup {Idle}] /\ cash' \in [POs -> Nat]
      BY <2>0, <2>3 DEF CreatePaid, TypeOK, Request
    <3> QED
      BY <2>0, <2>3, <3>1, <3>2, ReceiveGoodsType DEF CreatePaid, TypeOK, bills
  <2>4. CASE AcceptPurchase(r)
    <3>1. po' \in [POs -> Row]
      BY <2>0, <2>4, UpdatedType DEF AcceptPurchase, Request, Row, Statuses
    <3>2. payable' \in Int
      BY <2>0, <2>4 DEF AcceptPurchase, AddPayable, Flush, TypeOK, Request
    <3> QED
      BY <2>0, <2>4, <3>1, <3>2, ReceiveGoodsType, DoneType
      DEF AcceptPurchase, TypeOK, bills, money
  <2>5. CASE RejectPurchase(r)
    <3>1. po' \in [POs -> Row]
      BY <2>0, <2>5, UpdatedType DEF RejectPurchase, Request, Row, Statuses
    <3> QED
      BY <2>0, <2>5, <3>1, DoneType
      DEF RejectPurchase, TypeOK, goods, bills, money
  <2>6. CASE CreateRazorpayPay(r)
    <3>1. PICK o \in RzOrders :
            /\ rz' = [rz EXCEPT ![o] = [p |-> req[r].p, amt |-> req[r].amt]]
            /\ po' = Updated(r, req[r].row.status, req[r].row.paid,
                             req[r].row.note \cup {<<"rz_pending", o>>})
      BY <2>6 DEF CreateRazorpayPay
    <3>2. po' \in [POs -> Row]
      <4>1. /\ req[r].row.status \in Statuses /\ req[r].row.paid \in Nat
            /\ req[r].row.note \cup {<<"rz_pending", o>>} \in SUBSET Tags
        BY <2>0 DEF Request, Row, Tags
      <4> QED
        BY <2>0, <3>1, <4>1, UpdatedType
    <3>3. /\ rz' \in [RzOrders -> [p : POs, amt : Nat] \cup {NoOrder}]
          /\ authorised \subseteq {x \in RzOrders : rz'[x] # NoOrder}
      BY <2>0, <3>1 DEF TypeOK, Request, NoOrder
    <3> QED
      BY <2>0, <2>6, <3>2, <3>3, DoneType
      DEF CreateRazorpayPay, TypeOK, goods, bills, money
  <2>7. CASE PayPurchase(r)
    <3> DEFINE q == req[r]
    <3>1. /\ q.p \in POs /\ q.amt \in Nat /\ q.row \in Row /\ q.payable \in Int
          /\ q.rz \in RzOrders \cup {NoRz} /\ q.row.paid + q.amt \in Nat
      BY <2>0 DEF Request, Row
    <3>2. po' \in [POs -> Row]
      <4> DEFINE note == q.row.note \cup (IF q.rz = NoRz THEN {}
                                          ELSE {<<"rzp", q.rz>>})
      <4>1. note \in SUBSET Tags
        BY <3>1 DEF Row, Tags
      <4>2. PaidStatus(q.p, q.row.paid + q.amt) \in Statuses
        BY DEF PaidStatus, Statuses
      <4>3. po' = Updated(r, PaidStatus(q.p, q.row.paid + q.amt),
                          q.row.paid + q.amt, note)
        BY <2>7 DEF PayPurchase
      <4> HIDE DEF note
      <4> QED
        BY <2>0, <3>1, <4>1, <4>2, <4>3, UpdatedType
    <3>3. payable' \in Int
      BY <2>7, <3>1, Max0Type DEF PayPurchase, Flush, TypeOK
    <3>4. applied' \subseteq RzOrders \X POs /\ cash' \in [POs -> Nat]
      BY <2>7, <3>1 DEF PayPurchase, TypeOK
    <3>5. req' \in [Requests -> Request \cup {Idle}]
      BY <2>0, <2>7 DEF PayPurchase, TypeOK, Request
    <3> QED
      BY <2>7, <3>2, <3>3, <3>4, <3>5 DEF PayPurchase, TypeOK, goods, bills
  <2>8. CASE FindInvoice(r)
    <3> DEFINE found == Ref(req[r].p, req[r].amt, req[r].rz) \in refs
    <3>1. req' = [req EXCEPT ![r] = [@ EXCEPT !.pc = "invoice", !.seen = found]]
      BY <2>0, <2>8 DEF FindInvoice, TypeOK, Request
    <3>2. found \in BOOLEAN
      OBVIOUS
    <3> HIDE DEF found
    <3>3. req' \in [Requests -> Request \cup {Idle}]
      BY <2>0, <3>1, <3>2 DEF TypeOK, Request
    <3> QED
      BY <2>8, <3>3 DEF FindInvoice, TypeOK, goods, bills, money
  <2>9. CASE IssueInvoice(r)
    <3>1. Ref(req[r].p, req[r].amt, req[r].rz) \in Refs
      BY <2>0 DEF Request, Ref, Refs
    <3> QED
      BY <2>0, <2>9, <3>1, DoneType
      DEF IssueInvoice, TypeOK, Request, goods, money
  <2> QED
    BY <1>8, <2>1, <2>2, <2>3, <2>4, <2>5, <2>6, <2>7, <2>8, <2>9 DEF Handle
<1>9. ASSUME NEW o \in RzOrders, AuthoriseRz(o) PROVE TypeOK'
  BY <1>9 DEF AuthoriseRz, TypeOK, goods, bills, money
<1>10. CASE UNCHANGED vars
  BY <1>10 DEF vars, TypeOK
<1> QED
  BY <1>1, <1>2, <1>4, <1>5, <1>6, <1>7, <1>8, <1>9, <1>10 DEF Next, Start

-----------------------------------------------------------------------------
(***************************************************************************)
(* Sums over a finite set.                                                  *)
(***************************************************************************)
\* Induction over the naturals, for a set of them.
LEMMA Induction ==
  ASSUME NEW T, 0 \in T, \A n \in Nat : n \in T => n + 1 \in T
  PROVE  \A n \in Nat : n \in T
<1> DEFINE D == {n \in Nat : n \notin T}
           R == OpToRel(<, Nat)
<1>1. SUFFICES ASSUME D # {} PROVE FALSE
  OBVIOUS
<1>2. IsWellFoundedOn(R, Nat) /\ D \subseteq Nat
  BY NatLessThanWellFounded
<1>3. PICK d \in D : \A e \in D : ~ (<<e, d>> \in R)
  <2> HIDE DEF D, R
  <2> QED
    BY <1>1, <1>2, WFMin
<1>4. d \in Nat /\ d # 0
  OBVIOUS
<1>5. d - 1 \in Nat /\ d - 1 < d
  BY <1>4
<1>6. d - 1 \in D
  <2>1. d - 1 \in T => (d - 1) + 1 \in T
    BY <1>5
  <2>2. (d - 1) + 1 = d
    BY <1>4
  <2> QED
    BY <1>5, <2>1, <2>2
<1>7. <<d - 1, d>> \in R
  BY <1>4, <1>5 DEF OpToRel
<1> QED
  BY <1>3, <1>6, <1>7

\* The sum of f[x] over the x of a finite set, as MapThenSumSet adds it up.
SumOf(f, S) == MapThenSumSet(LAMBDA x : f[x], S)

Pick(s) == CHOOSE x \in s : TRUE
Body(f, g, s) == IF s = {} THEN 0 ELSE f[Pick(s)] + g[s \ {Pick(s)}]
\* g adds up every subset of S.
Adds(f, g, S) == g = [s \in SUBSET S |-> Body(f, g, s)]

\* What is left of a finite set without one element.
LEMMA PickIs ==
  ASSUME NEW s, IsFiniteSet(s), s # {}
  PROVE  /\ Pick(s) \in s /\ IsFiniteSet(s \ {Pick(s)})
         /\ Cardinality(s) \in Nat /\ Cardinality(s \ {Pick(s)}) = Cardinality(s) - 1
  BY FS_RemoveElement, FS_CardinalityType DEF Pick

\* A finite set has a sum.
LEMMA AddsExists ==
  ASSUME NEW f, NEW S, IsFiniteSet(S)
  PROVE  \E g : Adds(f, g, S)
<1> DEFINE Upto(g, n) ==
             \A s \in SUBSET S : Cardinality(s) <= n => g[s] = Body(f, g, s)
           T == {n \in Nat : \E g : Upto(g, n)}
<1>1. \A s \in SUBSET S :
        IsFiniteSet(s) /\ Cardinality(s) \in Nat /\ Cardinality(s) <= Cardinality(S)
  BY FS_Subset, FS_CardinalityType
<1>2. 0 \in T
  <2> DEFINE g == [s \in SUBSET S |-> 0]
  <2>1. \A s \in SUBSET S : Cardinality(s) <= 0 => s = {}
    BY <1>1, FS_EmptySet
  <2>2. Upto(g, 0)
    BY <2>1 DEF Body
  <2> QED
    BY <2>2
<1>3. ASSUME NEW n \in Nat, n \in T
      PROVE  n + 1 \in T
  <2>1. PICK g : Upto(g, n)
    BY <1>3
  <2> DEFINE h == [s \in SUBSET S |-> IF Cardinality(s) <= n THEN g[s] ELSE Body(f, g, s)]
  <2>2. ASSUME NEW s \in SUBSET S, Cardinality(s) <= n + 1
        PROVE  h[s] = Body(f, h, s)
    <3>1. CASE s = {}
      BY <2>1, <3>1 DEF Body
    <3>2. CASE s # {}
      <4> DEFINE t == s \ {Pick(s)}
      <4>1. t \in SUBSET S /\ Cardinality(t) <= n
        BY <1>1, <2>2, <3>2, PickIs
      <4>2. h[t] = g[t]
        BY <4>1
      <4>3. h[s] = Body(f, g, s)
        BY <2>1
      <4> QED
        BY <3>2, <4>2, <4>3 DEF Body
    <3> QED
      BY <3>1, <3>2
  <2>3. Upto(h, n + 1)
    BY <2>2
  <2> HIDE DEF h
  <2>4. \E k : Upto(k, n + 1)
    BY <2>3
  <2> HIDE DEF Upto
  <2> QED
    BY <2>4
<1>4. Cardinality(S) \in T
  <2>1. Cardinality(S) \in Nat
    BY FS_CardinalityType
  <2> HIDE DEF T
  <2>2. \A n \in Nat : n \in T
    BY <1>2, <1>3, Induction
  <2> QED
    BY <2>1, <2>2
<1>5. PICK g : Upto(g, Cardinality(S))
  BY <1>4
<1> DEFINE h == [s \in SUBSET S |-> g[s]]
<1>6. ASSUME NEW s \in SUBSET S
      PROVE  h[s] = Body(f, h, s)
  <2>1. g[s] = Body(f, g, s)
    BY <1>1, <1>5
  <2>2. s \ {Pick(s)} \in SUBSET S
    OBVIOUS
  <2> QED
    BY <2>1, <2>2 DEF Body
<1>7. Adds(f, h, S)
  <2>1. h = [s \in SUBSET S |-> h[s]]
    OBVIOUS
  <2> HIDE DEF h
  <2> QED
    BY <1>6, <2>1 DEF Adds
<1> QED
  BY <1>7

\* Induction on the subsets of a finite set, for a set of them.
LEMMA SetInduction ==
  ASSUME NEW S, IsFiniteSet(S), NEW P,
         \A s \in SUBSET S : (\A x \in s : s \ {x} \in P) => s \in P
  PROVE  \A s \in SUBSET S : s \in P
<1> DEFINE T == {n \in Nat : \A s \in SUBSET S : Cardinality(s) <= n => s \in P}
<1>1. \A s \in SUBSET S : /\ IsFiniteSet(s) /\ Cardinality(s) \in Nat
                          /\ \A x \in s : /\ s \ {x} \in SUBSET S
                                          /\ Cardinality(s \ {x}) = Cardinality(s) - 1
  BY FS_Subset, FS_CardinalityType, FS_RemoveElement
<1>2. 0 \in T
  <2>1. \A s \in SUBSET S : Cardinality(s) <= 0 => s = {}
    BY <1>1, FS_EmptySet
  <2> QED
    BY <2>1
<1>3. ASSUME NEW n \in Nat, n \in T
      PROVE  n + 1 \in T
  <2>1. ASSUME NEW s \in SUBSET S, Cardinality(s) <= n + 1
        PROVE  s \in P
    <3>1. ASSUME NEW x \in s
          PROVE  s \ {x} \in P
      <4>1. Cardinality(s \ {x}) <= n
        BY <1>1, <2>1
      <4> QED
        BY <1>1, <1>3, <4>1
    <3> QED
      BY <3>1
  <2> QED
    BY <2>1
<1>4. \A n \in Nat : n \in T
  <2> HIDE DEF T
  <2> QED
    BY <1>2, <1>3, Induction
<1> QED
  BY <1>1, <1>4

\* Two such functions agree where both are defined.
LEMMA AddsAgree ==
  ASSUME NEW f, NEW S, NEW R, IsFiniteSet(S), NEW g, NEW h, Adds(f, g, S), Adds(f, h, R),
         NEW s0, s0 \subseteq S, s0 \subseteq R
  PROVE  g[s0] = h[s0]
<1> DEFINE P == {s \in SUBSET S : s \subseteq R => g[s] = h[s]}
<1>1. ASSUME NEW s \in SUBSET S, \A x \in s : s \ {x} \in P
      PROVE  s \in P
  <2>1. s \subseteq R => g[s] = Body(f, g, s) /\ h[s] = Body(f, h, s)
    BY DEF Adds
  <2>2. s # {} => Pick(s) \in s
    BY DEF Pick
  <2> QED
    BY <1>1, <2>1, <2>2 DEF Body
<1>2. \A s \in SUBSET S : s \in P
  <2> HIDE DEF P
  <2> QED
    BY <1>1, SetInduction
<1> QED
  BY <1>2

\* SumOf is what such a function gives the whole set.
LEMMA SumIs ==
  ASSUME NEW f, NEW S, IsFiniteSet(S), NEW g, Adds(f, g, S)
  PROVE  SumOf(f, S) = g[S]
<1> DEFINE P(h) == h = [s \in SUBSET S |-> Body(f, h, s)]
<1>1. SumOf(f, S) = (CHOOSE h : P(h))[S]
  BY DEF SumOf, MapThenSumSet, MapThenFoldSet, Body, Pick
<1>2. P(CHOOSE h : P(h))
  <2>1. P(g)
    BY DEF Adds
  <2> HIDE DEF P
  <2> QED
    BY <2>1
<1> DEFINE h == CHOOSE h : P(h)
<1>3. Adds(f, h, S)
  BY <1>2 DEF Adds
<1> HIDE DEF h
<1>4. h[S] = g[S]
  BY <1>3, AddsAgree
<1> QED
  BY <1>1, <1>4 DEF h

\* One turn of the fold.
LEMMA SumStep ==
  ASSUME NEW f, NEW S, IsFiniteSet(S)
  PROVE  SumOf(f, S) = IF S = {} THEN 0 ELSE f[Pick(S)] + SumOf(f, S \ {Pick(S)})
<1>1. PICK g : Adds(f, g, S)
  BY AddsExists
<1>2. SumOf(f, S) = Body(f, g, S)
  <2>1. SumOf(f, S) = g[S]
    BY <1>1, SumIs
  <2>2. g[S] = Body(f, g, S)
    BY <1>1 DEF Adds
  <2> QED
    BY <2>1, <2>2
<1>3. CASE S # {}
  <2> DEFINE R == S \ {Pick(S)}
  <2>1. IsFiniteSet(R) /\ R \subseteq S
    BY <1>3, PickIs
  <2> HIDE DEF R
  <2>2. PICK h : Adds(f, h, R)
    BY <2>1, AddsExists
  <2>3. SumOf(f, R) = h[R]
    BY <2>1, <2>2, SumIs
  <2>4. h[R] = g[R]
    BY <1>1, <2>1, <2>2, AddsAgree
  <2> QED
    BY <1>2, <1>3, <2>3, <2>4 DEF Body, R
<1> QED
  BY <1>2, <1>3 DEF Body

\* A sum of integers is one.
LEMMA SumType ==
  ASSUME NEW S, IsFiniteSet(S), NEW f, \A x \in S : f[x] \in Int
  PROVE  \A s \in SUBSET S : SumOf(f, s) \in Int
<1> DEFINE P == {s \in SUBSET S : SumOf(f, s) \in Int}
<1>1. ASSUME NEW s \in SUBSET S, \A x \in s : s \ {x} \in P
      PROVE  s \in P
  <2>1. IsFiniteSet(s)
    BY FS_Subset
  <2>2. SumOf(f, s) = IF s = {} THEN 0 ELSE f[Pick(s)] + SumOf(f, s \ {Pick(s)})
    BY <2>1, SumStep
  <2>3. s # {} => Pick(s) \in s
    BY DEF Pick
  <2> QED
    BY <1>1, <2>2, <2>3
<1>2. \A s \in SUBSET S : s \in P
  <2> HIDE DEF P
  <2> QED
    BY <1>1, SetInduction
<1> QED
  BY <1>2

\* Any member may be the one that is taken out.
LEMMA SumPick ==
  ASSUME NEW S, IsFiniteSet(S), NEW f, \A x \in S : f[x] \in Int
  PROVE  \A x \in S : SumOf(f, S) = f[x] + SumOf(f, S \ {x})
<1> DEFINE Out(s, x) == SumOf(f, s) = f[x] + SumOf(f, s \ {x})
           P == {s \in SUBSET S : \A x \in s : Out(s, x)}
<1>1. ASSUME NEW s \in SUBSET S, \A x \in s : s \ {x} \in P, NEW x \in s
      PROVE  Out(s, x)
  <2> DEFINE y == Pick(s)
  <2>1. IsFiniteSet(s) /\ y \in s
    BY FS_Subset DEF Pick
  <2>2. SumOf(f, s) = f[y] + SumOf(f, s \ {y})
    BY <2>1, SumStep
  <2> HIDE DEF y
  <2>3. CASE x = y
    BY <2>2, <2>3
  <2>4. CASE x # y
    <3> DEFINE u == (s \ {x}) \ {y}
    <3>1. SumOf(f, s \ {x}) = f[y] + SumOf(f, u)
      BY <1>1, <2>1, <2>4
    <3>2. (s \ {y}) \ {x} = u /\ u \in SUBSET S
      OBVIOUS
    <3>3. SumOf(f, s \ {y}) = f[x] + SumOf(f, (s \ {y}) \ {x})
      BY <1>1, <2>1, <2>4
    <3>4. SumOf(f, s \ {y}) = f[x] + SumOf(f, u)
      BY <3>2, <3>3
    <3> HIDE DEF u
    <3>5. f[x] \in Int /\ f[y] \in Int /\ SumOf(f, u) \in Int
      BY <2>1, <3>2, SumType
    <3> QED
      BY <2>2, <3>1, <3>4, <3>5
  <2> QED
    BY <2>3, <2>4
<1>2. \A s \in SUBSET S : s \in P
  <2>1. \A s \in SUBSET S : (\A x \in s : s \ {x} \in P) => s \in P
    BY <1>1
  <2> HIDE DEF P
  <2> QED
    BY <2>1, SetInduction
<1>3. S \in P
  BY <1>2
<1> QED
  BY <1>3

\* Two functions that agree on the set have the same sum.
LEMMA SumAgree ==
  ASSUME NEW S, IsFiniteSet(S), NEW f, NEW g, \A x \in S : f[x] = g[x]
  PROVE  SumOf(f, S) = SumOf(g, S)
<1> DEFINE P == {s \in SUBSET S : SumOf(f, s) = SumOf(g, s)}
<1>1. ASSUME NEW s \in SUBSET S, \A x \in s : s \ {x} \in P
      PROVE  s \in P
  <2>1. IsFiniteSet(s)
    BY FS_Subset
  <2>2. SumOf(f, s) = IF s = {} THEN 0 ELSE f[Pick(s)] + SumOf(f, s \ {Pick(s)})
    BY <2>1, SumStep
  <2>3. SumOf(g, s) = IF s = {} THEN 0 ELSE g[Pick(s)] + SumOf(g, s \ {Pick(s)})
    BY <2>1, SumStep
  <2>4. s # {} => Pick(s) \in s
    BY DEF Pick
  <2> QED
    BY <1>1, <2>2, <2>3, <2>4
<1>2. \A s \in SUBSET S : s \in P
  <2> HIDE DEF P
  <2> QED
    BY <1>1, SetInduction
<1> QED
  BY <1>2

\* Terms of at least -1 add up to at least minus their number.
LEMMA SumAtLeast ==
  ASSUME NEW S, IsFiniteSet(S), NEW f, \A x \in S : f[x] \in Int /\ f[x] >= -1
  PROVE  SumOf(f, S) + Cardinality(S) >= 0
<1> DEFINE P == {s \in SUBSET S : SumOf(f, s) + Cardinality(s) >= 0}
<1>1. ASSUME NEW s \in SUBSET S, \A x \in s : s \ {x} \in P
      PROVE  s \in P
  <2>1. /\ IsFiniteSet(s) /\ Cardinality(s) \in Nat /\ (s = {} => Cardinality(s) = 0)
        /\ \A x \in s : Cardinality(s \ {x}) = Cardinality(s) - 1
    BY FS_Subset, FS_CardinalityType, FS_EmptySet, FS_RemoveElement
  <2>2. SumOf(f, s) = IF s = {} THEN 0 ELSE f[Pick(s)] + SumOf(f, s \ {Pick(s)})
    BY <2>1, SumStep
  <2>3. CASE s = {}
    BY <2>1, <2>2, <2>3
  <2>4. CASE s # {}
    <3> DEFINE x == Pick(s)
               t == s \ {x}
    <3>1. x \in s
      BY <2>4 DEF Pick
    <3>2. SumOf(f, s) = f[x] + SumOf(f, t)
      BY <2>2, <2>4
    <3> HIDE DEF x
    <3>3. SumOf(f, t) + Cardinality(t) >= 0 /\ Cardinality(t) = Cardinality(s) - 1
      BY <1>1, <2>1, <3>1
    <3>4. f[x] \in Int /\ f[x] >= -1 /\ SumOf(f, t) \in Int
      BY <3>1, SumType
    <3> HIDE DEF t
    <3>5. SumOf(f, s) + Cardinality(s) >= 0
      BY <2>1, <3>2, <3>3, <3>4
    <3> QED
      BY <3>5
  <2> QED
    BY <2>3, <2>4
<1>2. \A s \in SUBSET S : s \in P
  <2> HIDE DEF P
  <2> QED
    BY <1>1, SetInduction
<1> QED
  BY <1>2

\* Zeros add up to zero.
LEMMA SumOfZeros ==
  ASSUME NEW S, IsFiniteSet(S), NEW f, \A x \in S : f[x] = 0
  PROVE  SumOf(f, S) = 0
<1> DEFINE P == {s \in SUBSET S : SumOf(f, s) = 0}
<1>1. ASSUME NEW s \in SUBSET S, \A x \in s : s \ {x} \in P
      PROVE  s \in P
  <2>1. IsFiniteSet(s)
    BY FS_Subset
  <2>2. SumOf(f, s) = IF s = {} THEN 0 ELSE f[Pick(s)] + SumOf(f, s \ {Pick(s)})
    BY <2>1, SumStep
  <2>3. s # {} => Pick(s) \in s
    BY DEF Pick
  <2> QED
    BY <1>1, <2>2, <2>3
<1>2. \A s \in SUBSET S : s \in P
  <2> HIDE DEF P
  <2> QED
    BY <1>1, SetInduction
<1> QED
  BY <1>2

\* One term changes and the others stay.
LEMMA SumChanges ==
  ASSUME NEW S, IsFiniteSet(S), NEW f, NEW g, NEW x0 \in S,
         g[x0] \in Int, \A x \in S : f[x] \in Int, \A x \in S \ {x0} : f[x] = g[x]
  PROVE  SumOf(g, S) = SumOf(f, S) + (g[x0] - f[x0])
<1> DEFINE R == S \ {x0}
<1>1. IsFiniteSet(R) /\ R \in SUBSET S
  BY FS_Subset
<1>2. SumOf(f, S) = f[x0] + SumOf(f, R)
  BY SumPick
<1>3. SumOf(g, S) = g[x0] + SumOf(g, R)
  <2>1. \A x \in S : g[x] \in Int
    OBVIOUS
  <2> QED
    BY <2>1, SumPick
<1>4. SumOf(f, R) = SumOf(g, R)
  <2>1. \A x \in R : f[x] = g[x]
    OBVIOUS
  <2> HIDE DEF R
  <2> QED
    BY <1>1, <2>1, SumAgree
<1>5. SumOf(f, R) \in Int
  BY <1>1, SumType
<1>6. f[x0] \in Int
  OBVIOUS
<1> HIDE DEF R
<1> QED
  BY <1>2, <1>3, <1>4, <1>5, <1>6

\* A new term joins the others.
LEMMA SumJoins ==
  ASSUME NEW S, IsFiniteSet(S), NEW f, NEW g, NEW x0, x0 \notin S,
         g[x0] \in Int, \A x \in S : f[x] \in Int, \A x \in S : f[x] = g[x]
  PROVE  SumOf(g, S \cup {x0}) = SumOf(f, S) + g[x0]
<1> DEFINE Q == S \cup {x0}
<1>1. IsFiniteSet(Q) /\ Q \ {x0} = S /\ x0 \in Q
  BY FS_AddElement
<1>2. \A x \in Q : g[x] \in Int
  OBVIOUS
<1>3. SumOf(f, S) = SumOf(g, S)
  BY SumAgree
<1>4. SumOf(f, S) \in Int
  BY SumType
<1> HIDE DEF Q
<1>5. SumOf(g, Q) = g[x0] + SumOf(g, Q \ {x0})
  BY <1>1, <1>2, SumPick
<1>6. SumOf(g, Q) = g[x0] + SumOf(f, S)
  BY <1>1, <1>3, <1>5
<1>7. SumOf(g, Q) = SumOf(f, S) + g[x0]
  BY <1>4, <1>6
<1> QED
  BY <1>7 DEF Q

\* Of natural terms, fewer never add up to more, nor to less than nothing.
LEMMA SumGrows ==
  ASSUME NEW R, IsFiniteSet(R), NEW f, \A x \in R : f[x] \in Nat, NEW S, S \subseteq R
  PROVE  SumOf(f, S) \in Nat /\ SumOf(f, R) \in Nat /\ SumOf(f, S) <= SumOf(f, R)
<1> DEFINE P == {s \in SUBSET R : /\ SumOf(f, s) \in Nat /\ SumOf(f, s \cap S) \in Nat
                                  /\ SumOf(f, s \cap S) <= SumOf(f, s)}
<1>1. ASSUME NEW s \in SUBSET R, \A x \in s : s \ {x} \in P
      PROVE  s \in P
  <2>1. IsFiniteSet(s) /\ IsFiniteSet(s \cap S)
    BY FS_Subset
  <2>2. SumOf(f, s) = IF s = {} THEN 0 ELSE f[Pick(s)] + SumOf(f, s \ {Pick(s)})
    BY <2>1, SumStep
  <2>3. CASE s = {}
    <3>1. s \cap S = s
      BY <2>3
    <3> QED
      BY <2>2, <2>3, <3>1
  <2>4. CASE s # {}
    <3> DEFINE x == Pick(s)
               t == s \ {x}
    <3>1. x \in s /\ f[x] \in Nat
      BY <2>4 DEF Pick
    <3>2. SumOf(f, s) = f[x] + SumOf(f, t)
      BY <2>2, <2>4
    <3>3. t \in P
      BY <1>1, <3>1
    <3>4. x \in S => SumOf(f, s \cap S) = f[x] + SumOf(f, t \cap S)
      <4>1. (s \cap S) \ {x} = t \cap S /\ \A y \in s \cap S : f[y] \in Int
        OBVIOUS
      <4> HIDE DEF x, t
      <4>2. \A y \in s \cap S : SumOf(f, s \cap S) = f[y] + SumOf(f, (s \cap S) \ {y})
        BY <2>1, <4>1, SumPick
      <4> QED
        BY <3>1, <4>1, <4>2
    <3>5. x \notin S => s \cap S = t \cap S
      OBVIOUS
    <3> HIDE DEF x, t
    <3>6. /\ SumOf(f, t) \in Nat /\ SumOf(f, t \cap S) \in Nat
          /\ SumOf(f, t \cap S) <= SumOf(f, t)
      BY <3>3
    <3> QED
      BY <3>1, <3>2, <3>4, <3>5, <3>6
  <2> QED
    BY <2>3, <2>4
<1>2. \A s \in SUBSET R : s \in P
  <2>1. \A s \in SUBSET R : (\A x \in s : s \ {x} \in P) => s \in P
    BY <1>1
  <2> HIDE DEF P
  <2> QED
    BY <2>1, SetInduction
<1>3. R \cap S = S /\ R \in P
  BY <1>2
<1> QED
  BY <1>3

-----------------------------------------------------------------------------
(***************************************************************************)
(* The payment rules.                                                       *)
(***************************************************************************)
Inv == TypeOK /\ RowsOK /\ LoadedOK

\* The first-payment threshold never exceeds the bill.
LEMMA MinFirstPayBound == \A t \in Nat : MinFirstPay(t) \in Nat /\ MinFirstPay(t) <= t
  BY DEF MinFirstPay

\* A payment that pay_rules.py allows leads from a legal amount to a legal one.
LEMMA PayAllowedOK ==
  ASSUME NEW p \in POs, NEW already \in Nat, NEW pay \in Nat,
         PaidOK(p, already), PayAllowed(Total[p], already, pay)
  PROVE  PaidOK(p, already + pay)
<1>1. Total[p] \in Nat /\ MinFirstPay(Total[p]) \in Nat
      /\ MinFirstPay(Total[p]) <= Total[p]
  BY TotalAssumption, MinFirstPayBound
<1> QED
  BY <1>1 DEF PaidOK, PayAllowed

\* A step that keeps every PO row legal, loses no stock movement, and gives the
\* requests in flight no row that is not one of the table's keeps the invariant.
LEMMA LoadedStep ==
  ASSUME Inv, TypeOK', RowsOK',
         \A p \in POs : movements[p] > 0 => movements'[p] > 0,
         \A r \in Requests :
           \/ req'[r] = Idle
           \/ req[r] # Idle /\ req'[r].p = req[r].p /\ req'[r].row = req[r].row
           \/ req'[r].p \in POs /\ req'[r].row = po[req'[r].p]
  PROVE  Inv'
<1> SUFFICES ASSUME NEW r \in Requests, req'[r] # Idle
             PROVE  RowOK(req[r].p, req[r].row)'
  BY DEF Inv, LoadedOK
<1>1. CASE req[r] # Idle /\ req'[r].p = req[r].p /\ req'[r].row = req[r].row
  <2>1. RowOK(req[r].p, req[r].row) /\ req[r].p \in POs
    BY <1>1 DEF Inv, LoadedOK, TypeOK, Request
  <2> QED
    BY <1>1, <2>1 DEF RowOK
<1>2. CASE req'[r].p \in POs /\ req'[r].row = po[req'[r].p]
  <2>1. RowOK(req'[r].p, po[req'[r].p])
    BY <1>2 DEF Inv, RowsOK
  <2> QED
    BY <1>2, <2>1 DEF RowOK
<1> QED
  BY <1>1, <1>2

\* The UPDATE of a legal row by a request whose copy and whose new values are
\* legal leaves a legal row.
LEMMA UpdatedOK ==
  ASSUME Inv, NEW r \in Requests, req[r] # Idle, NEW status \in Statuses,
         NEW paid \in Nat, NEW note, PaidOK(req[r].p, paid),
         po' = Updated(r, status, paid, note),
         \A p \in POs : movements[p] > 0 => movements'[p] > 0,
         (paid > 0 \/ status \in {"received", "partial", "paid"})
           => movements'[req[r].p] > 0
  PROVE  RowsOK'
<1> SUFFICES ASSUME NEW p \in POs PROVE RowOK(p, po[p])'
  BY DEF RowsOK
<1>1. RowOK(p, po[p]) /\ req[r] \in Request /\ req[r].p \in POs /\ po[p] \in Row
  BY DEF Inv, RowsOK, TypeOK, Request
<1>2. CASE p # req[r].p
  <2>1. po'[p] = po[p]
    BY <1>1, <1>2 DEF Updated, Inv, TypeOK
  <2> QED
    BY <1>1, <2>1 DEF RowOK
<1>3. CASE p = req[r].p
  <2>1. /\ po'[p].status \in {po[p].status, status}
        /\ po'[p].paid \in {po[p].paid, paid}
    BY <1>1, <1>3 DEF Updated, Flush, Inv, TypeOK
  <2> QED
    BY <1>1, <1>3, <2>1 DEF RowOK
<1> QED
  BY <1>2, <1>3

\* The invariant is inductive: one step per action.
LEMMA InvStep ==
  ASSUME Inv, [Next]_vars
  PROVE  Inv'
<1> USE QtyAssumption, TotalAssumption
<1>0. TypeOK /\ TypeOK'
  BY TypeStep DEF Inv
<1> DEFINE Grows == \A p \in POs : movements[p] > 0 => movements'[p] > 0
<1>1. ASSUME NEW r \in Requests, Start(r) PROVE Inv'
  <2>1. PICK p \in POs : \E op, amt, o : Load(r, op, p, amt, o)
    BY <1>1 DEF Start, StartCreate, StartDecision, StartRzCreate, StartPay, StartVerify
  <2>2. RowsOK' /\ Grows
    BY <2>1 DEF Load, Inv, RowsOK, RowOK, goods
  <2>3. req' = [req EXCEPT ![r] = req'[r]]
        /\ req'[r].p = p /\ req'[r].row = po[p]
    BY <1>0, <2>1 DEF Load, TypeOK
  <2> QED
    BY <1>0, <2>2, <2>3, LoadedStep DEF TypeOK
<1>2. ASSUME NEW r \in Requests, Return(r) PROVE Inv'
  <2>1. RowsOK' /\ Grows
    BY <1>2 DEF Return, Inv, RowsOK, RowOK, goods
  <2> QED
    BY <1>0, <1>2, <2>1, LoadedStep DEF Return, TypeOK
<1>3. ASSUME NEW o \in RzOrders, AuthoriseRz(o) PROVE Inv'
  BY <1>0, <1>3 DEF AuthoriseRz, Inv, RowsOK, LoadedOK, RowOK, goods
<1>4. CASE UNCHANGED vars
  BY <1>0, <1>4 DEF vars, Inv, RowsOK, LoadedOK, RowOK
<1>5. ASSUME NEW r \in Requests, Handle(r) PROVE Inv'
  <2>0. req[r] # Idle /\ req[r] \in Request
    BY <1>0, <1>5 DEF Handle, CreatePending, CreateReceived, CreatePaid,
       AcceptPurchase, RejectPurchase, CreateRazorpayPay, PayPurchase,
       FindInvoice, IssueInvoice, At, Idle, TypeOK
  <2> DEFINE q == req[r]
  <2>1. /\ q.p \in POs /\ q.row \in Row /\ q.amt \in Nat /\ RowOK(q.p, q.row)
        /\ RowOK(q.p, po[q.p]) /\ po[q.p] \in Row /\ Total[q.p] \in Nat
    BY <1>0, <2>0 DEF Inv, LoadedOK, RowsOK, TypeOK, Request
  <2>2. \A x \in Requests :
          \/ req'[x] = Idle
          \/ req[x] # Idle /\ req'[x].p = req[x].p /\ req'[x].row = req[x].row
    BY <1>0, <1>5, <2>0 DEF Handle, CreatePending, CreateReceived, CreatePaid,
       AcceptPurchase, RejectPurchase, CreateRazorpayPay, PayPurchase,
       FindInvoice, IssueInvoice, Done, TypeOK, Request
  <2>3. ASSUME ReceiveGoods(r) PROVE Grows /\ movements'[q.p] > 0
    BY <1>0, <2>1, <2>3 DEF ReceiveGoods, TypeOK
  <2>4. RowsOK' /\ Grows
    <3>1. CASE CreatePending(r)
      BY <1>0, <2>1, <3>1 DEF CreatePending, Inv, RowsOK, RowOK, TypeOK, Row, goods
    <3>2. CASE CreateReceived(r)
      BY <1>0, <2>1, <2>3, <3>2 DEF CreateReceived, Inv, RowsOK, RowOK, TypeOK, Row
    <3>3. CASE CreatePaid(r)
      <4>1. PaidOK(q.p, Total[q.p])
        BY <2>1, MinFirstPayBound DEF PaidOK
      <4> QED
        BY <1>0, <2>1, <2>3, <3>3, <4>1
        DEF CreatePaid, Inv, RowsOK, RowOK, TypeOK, Row
    <3>4. CASE AcceptPurchase(r)
      BY <2>0, <2>1, <2>3, <3>4, UpdatedOK
      DEF AcceptPurchase, RowOK, Row, Statuses
    <3>5. CASE RejectPurchase(r)
      <4>1. Grows
        BY <3>5 DEF RejectPurchase, goods
      <4> QED
        BY <2>0, <2>1, <3>5, <4>1, UpdatedOK
        DEF RejectPurchase, RowOK, Row, Statuses, goods
    <3>6. CASE CreateRazorpayPay(r)
      <4>1. Grows /\ movements' = movements
        BY <3>6 DEF CreateRazorpayPay, goods
      <4>2. PICK o \in RzOrders :
              po' = Updated(r, q.row.status, q.row.paid,
                            q.row.note \cup {<<"rz_pending", o>>})
        BY <3>6 DEF CreateRazorpayPay
      <4> QED
        BY <2>0, <2>1, <4>1, <4>2, UpdatedOK DEF RowOK, Row
    <3>7. CASE PayPurchase(r)
      <4>1. Grows /\ movements' = movements
        BY <3>7 DEF PayPurchase, goods
      <4>2. PaidOK(q.p, q.row.paid + q.amt) /\ q.row.paid + q.amt \in Nat
        BY <2>1, <3>7, PayAllowedOK DEF PayPurchase, RowOK, Row
      <4>3. movements[q.p] > 0
        BY <2>1, <3>7 DEF PayPurchase, Payable, RowOK
      <4>4. PaidStatus(q.p, q.row.paid + q.amt) \in Statuses
        BY DEF PaidStatus, Statuses
      <4>5. PICK note : po' = Updated(r, PaidStatus(q.p, q.row.paid + q.amt),
                                      q.row.paid + q.amt, note)
        BY <3>7 DEF PayPurchase
      <4> QED
        BY <2>0, <4>1, <4>2, <4>3, <4>4, <4>5, UpdatedOK
    <3>8. CASE FindInvoice(r) \/ IssueInvoice(r)
      BY <3>8 DEF FindInvoice, IssueInvoice, Inv, RowsOK, RowOK, goods
    <3> QED
      BY <1>5, <3>1, <3>2, <3>3, <3>4, <3>5, <3>6, <3>7, <3>8 DEF Handle
  <2> QED
    BY <1>0, <2>2, <2>4, LoadedStep
<1> QED
  BY <1>1, <1>2, <1>3, <1>4, <1>5 DEF Next

-----------------------------------------------------------------------------
(***************************************************************************)
(* Serial executions: one request slot, crashes included.  The balance, the *)
(* stock and the credits follow from what the tables say of each PO, given  *)
(* that a request computes on rows nobody changes under it.                 *)
(***************************************************************************)
OneSlot == \A r, s \in Requests : r = s

\* The Razorpay payments applied to p.
Applied == [p \in POs |-> {o \in RzOrders : <<o, p>> \in applied}]

\* What p still owes, and what its movements brought in.
Dues == [p \in POs |-> Due(p, po[p])]
Moved == [p \in POs |-> Qty[p] * movements[p]]

\* A request that has not written yet holds the rows as they are.
AllCurrent ==
  \A r \in Requests : req[r] # Idle /\ req[r].pc = "loaded" =>
    /\ req[r].row = po[req[r].p] /\ req[r].payable = payable
    /\ req[r].stock = stock /\ req[r].avail = avail

\* A PO that was not received is unpaid, and one that is not there has no note.
UnpaidBefore ==
  \A p \in POs : /\ p \notin Received => po[p].paid = 0
                 /\ po[p].status = "absent" => po[p].note = {}

\* The note of a PO keeps the marker of every payment that was applied to it.
Marked ==
  \A p \in POs : \A o \in Applied[p] : <<"rzp", o>> \in po[p].note

MovedOnce == \A p \in POs : movements[p] = IF p \in Received THEN 1 ELSE 0
StockAddsUp == stock = InitStock + SumOf(Moved, POs)
DuesCovered ==
  /\ SumOf(Dues, Received) <= payable
  /\ payable <= SumOf(Dues, Received) + Cardinality(POs)

SerialInv ==
  /\ AllCurrent
  /\ UnpaidBefore /\ Marked /\ CreditedOnce
  /\ MovedOnce /\ StockAddsUp /\ DuesCovered

\* The sums are integers, and Received is a finite set of POs.
LEMMA SumsAreInt ==
  ASSUME TypeOK
  PROVE  /\ IsFiniteSet(Received) /\ Received \subseteq POs
         /\ \A p \in POs : Dues[p] = Total[p] - po[p].paid /\ Dues[p] \in Int
         /\ \A p \in POs : Moved[p] = Qty[p] * movements[p] /\ Moved[p] \in Int
         /\ SumOf(Dues, Received) \in Int /\ SumOf(Moved, POs) \in Int
         /\ Cardinality(POs) \in Nat
<1>1. IsFiniteSet(Received) /\ Received \subseteq POs
  BY POsAssumption, FS_Subset DEF Received
<1>2. \A p \in POs : Dues[p] = Total[p] - po[p].paid /\ Dues[p] \in Int
  BY TotalAssumption DEF Dues, Due, TypeOK, Row
<1>3. \A p \in POs : Moved[p] = Qty[p] * movements[p] /\ Moved[p] \in Int
  <2>1. \A p \in POs : Qty[p] \in Int /\ movements[p] \in Int
    BY QtyAssumption DEF TypeOK
  <2> QED
    BY <2>1 DEF Moved
<1>4. SumOf(Dues, Received) \in Int
  BY <1>1, <1>2, SumType
<1>5. SumOf(Moved, POs) \in Int
  BY <1>3, POsAssumption, SumType
<1> QED
  BY <1>1, <1>2, <1>3, <1>4, <1>5, POsAssumption, FS_CardinalityType

\* One PO changes: what that does to the sum of the dues.
LEMMA OwedStep ==
  ASSUME TypeOK, TypeOK', NEW p \in POs, \A x \in POs \ {p} : po'[x] = po[x],
         p \in Received => p \in Received'
  PROVE  /\ p \in Received =>
              SumOf(Dues, Received)' = SumOf(Dues, Received) + (po[p].paid - po'[p].paid)
         /\ p \notin Received /\ p \in Received' =>
              SumOf(Dues, Received)' = SumOf(Dues, Received) + (Total[p] - po'[p].paid)
         /\ p \notin Received' => SumOf(Dues, Received)' = SumOf(Dues, Received)
<1> DEFINE f == Dues
           g == Dues'
           S == Received
<1>1. /\ IsFiniteSet(S) /\ S \subseteq POs /\ SumOf(f, S) \in Int
      /\ \A x \in POs : f[x] = Total[x] - po[x].paid /\ f[x] \in Int
  BY SumsAreInt
<1>2. \A x \in POs : g[x] = Total[x] - po'[x].paid /\ g[x] \in Int
  BY TotalAssumption DEF Dues, Due, TypeOK, Row
<1>3. \A x \in POs \ {p} : f[x] = g[x] /\ (x \in S <=> x \in Received')
  BY <1>1, <1>2 DEF Received
<1>4. Received' \subseteq POs
  BY DEF Received
<1>5. (p \in Received' => Received' = S \cup {p}) /\ (p \notin Received' => Received' = S)
  <2> DEFINE R == Received'
  <2>1. R \subseteq POs /\ S \subseteq POs /\ \A x \in POs \ {p} : (x \in S <=> x \in R)
    BY <1>1, <1>3, <1>4
  <2>2. p \in S => p \in R
    OBVIOUS
  <2> HIDE DEF R, S
  <2> QED
    BY <2>1, <2>2 DEF R
<1>6. SumOf(Dues, Received)' = SumOf(g, Received')
  OBVIOUS
<1>7. Total[p] \in Int /\ po[p].paid \in Int /\ po'[p].paid \in Int
  BY TotalAssumption DEF TypeOK, Row
<1> HIDE DEF f, g, S
<1>7a. IsFiniteSet(S)
  BY <1>1
<1>7b. g[p] \in Int
  BY <1>2
<1>7c. \A x \in S : f[x] \in Int
  BY <1>1
<1>8. /\ p \in S => SumOf(g, S) = SumOf(f, S) + (g[p] - f[p])
      /\ p \notin S => SumOf(g, S \cup {p}) = SumOf(f, S) + g[p]
  <2>1. ASSUME p \in S
        PROVE  SumOf(g, S) = SumOf(f, S) + (g[p] - f[p])
    <3>1. \A x \in S \ {p} : f[x] = g[x]
      BY <1>1, <1>3
    <3> QED
      BY <1>7a, <1>7b, <1>7c, <2>1, <3>1, SumChanges
  <2>2. ASSUME p \notin S
        PROVE  SumOf(g, S \cup {p}) = SumOf(f, S) + g[p]
    <3>1. \A x \in S : f[x] = g[x]
      BY <1>1, <1>3, <2>2
    <3> QED
      BY <1>7a, <1>7b, <1>7c, <2>2, <3>1, SumJoins
  <2> QED
    BY <2>1, <2>2
<1>9. p \notin S => SumOf(g, S) = SumOf(f, S)
  BY <1>1, <1>3, SumAgree
<1>10. CASE p \in S
  <2>1. Received' = S
    BY <1>5, <1>10 DEF S
  <2>2. g[p] - f[p] = po[p].paid - po'[p].paid
    BY <1>1, <1>2, <1>7
  <2> QED
    BY <1>6, <1>8, <1>10, <2>1, <2>2 DEF S, f
<1>11. CASE p \notin S
  BY <1>2, <1>5, <1>6, <1>8, <1>9, <1>11 DEF S, f
<1> QED
  BY <1>10, <1>11

\* The goods of one PO come in.
Books(p) == movements[p] = 0 /\ movements' = [movements EXCEPT ![p] = 1]
\* A stock movement adds the quantity of its PO to the movements.
LEMMA MovedStep ==
  ASSUME TypeOK, TypeOK', NEW p \in POs, Books(p)
  PROVE  SumOf(Moved, POs)' = SumOf(Moved, POs) + Qty[p]
<1> DEFINE f == Moved
           g == Moved'
<1>1. /\ SumOf(f, POs) \in Int
      /\ \A x \in POs : f[x] = Qty[x] * movements[x] /\ f[x] \in Int
  BY SumsAreInt
<1>2. \A x \in POs : g[x] = Qty[x] * movements'[x] /\ Qty[x] \in Int
  BY QtyAssumption DEF Moved
<1>3. f[p] = 0 /\ g[p] = Qty[p]
  BY <1>1, <1>2 DEF Books, TypeOK
<1>4. \A x \in POs \ {p} : f[x] = g[x]
  BY <1>1, <1>2 DEF Books, TypeOK
<1>5. SumOf(Moved, POs)' = SumOf(g, POs)
  OBVIOUS
<1> HIDE DEF f, g
<1>6. SumOf(g, POs) = SumOf(f, POs) + (g[p] - f[p])
  <2>1. IsFiniteSet(POs)
    BY POsAssumption
  <2>2. g[p] \in Int
    BY <1>2, <1>3
  <2>3. \A x \in POs : f[x] \in Int
    BY <1>1
  <2> QED
    BY <1>4, <2>1, <2>2, <2>3, SumChanges
<1> QED
  BY <1>1, <1>2, <1>3, <1>5, <1>6 DEF f

\* What SerialInv says of the tables.
TablesOK ==
  UnpaidBefore /\ Marked /\ CreditedOnce /\ MovedOnce /\ StockAddsUp /\ DuesCovered

\* A step that writes none of these columns keeps them right.
LEMMA TablesKept ==
  ASSUME Inv, TablesOK, po' = po, payable' = payable, stock' = stock,
         movements' = movements, applied' = applied, cash' = cash
  PROVE  TablesOK'
<1>1. Received' = Received /\ Dues' = Dues /\ Moved' = Moved /\ Applied' = Applied
  BY DEF Received, Dues, Due, Moved, Applied
<1>2. SumOf(Dues, Received)' = SumOf(Dues, Received) /\ SumOf(Moved, POs)' = SumOf(Moved, POs)
  BY <1>1
<1>3. UnpaidBefore' /\ Marked' /\ CreditedOnce' /\ MovedOnce'
  BY <1>1 DEF TablesOK, UnpaidBefore, Marked, CreditedOnce, MovedOnce
<1>4. StockAddsUp' /\ DuesCovered'
  BY <1>2 DEF TablesOK, StockAddsUp, DuesCovered
<1> QED
  BY <1>3, <1>4 DEF TablesOK

\* A request that has not written holds the row of its PO, so its UPDATE writes
\* that row as a whole.
LEMMA UpdatedIs ==
  ASSUME TypeOK, AllCurrent, NEW r \in Requests, req[r] # Idle, req[r].pc = "loaded",
         NEW status, NEW paid, NEW note
  PROVE  Updated(r, status, paid, note)
           = [po EXCEPT ![req[r].p] = [status |-> status, paid |-> paid, note |-> note]]
<1>1. req[r].row = po[req[r].p] /\ po \in [POs -> Row] /\ req[r].p \in POs
  BY DEF AllCurrent, TypeOK, Request
<1> DEFINE row == po[req[r].p]
           new == [status |-> Flush(row.status, row.status, status),
                   paid   |-> Flush(row.paid, row.paid, paid),
                   note   |-> Flush(row.note, row.note, note)]
<1>2. new = [status |-> status, paid |-> paid, note |-> note]
  BY DEF Flush
<1>3. Updated(r, status, paid, note) = [po EXCEPT ![req[r].p] = new]
  BY <1>1 DEF Updated
<1> QED
  BY <1>2, <1>3

\* A PO's row is written: the columns of that row.
LEMMA RowWritten ==
  ASSUME Inv, TablesOK, NEW p \in POs, NEW row \in Row, po' = [po EXCEPT ![p] = row],
         row.status # "absent", po[p].note \subseteq row.note,
         row.status \notin {"received", "partial", "paid"} => row.paid = 0,
         cash' \in [POs -> Nat], \A x \in POs \ {p} : cash'[x] = cash[x], row.paid <= cash'[p],
         \A x \in POs \ {p} : Applied'[x] = Applied[x],
         \A o \in Applied'[p] : o \in Applied[p] \/ <<"rzp", o>> \in row.note
  PROVE  UnpaidBefore' /\ Marked' /\ CreditedOnce'
<1>1. po \in [POs -> Row]
  BY DEF Inv, TypeOK
<1>2. po'[p] = row /\ \A x \in POs \ {p} : po'[x] = po[x]
  BY <1>1
<1>3. UnpaidBefore'
  <2> SUFFICES ASSUME NEW x \in POs
               PROVE  /\ po'[x].status \notin {"received", "partial", "paid"} => po'[x].paid = 0
                      /\ po'[x].status = "absent" => po'[x].note = {}
    BY DEF UnpaidBefore, Received
  <2>1. CASE x = p
    BY <1>2, <2>1
  <2>2. CASE x # p
    BY <1>2, <2>2 DEF TablesOK, UnpaidBefore, Received
  <2> QED
    BY <2>1, <2>2
<1>4. Marked'
  <2> SUFFICES ASSUME NEW x \in POs, NEW o \in Applied'[x]
               PROVE  <<"rzp", o>> \in po'[x].note
    BY DEF Marked
  <2>1. o \in Applied[x] => <<"rzp", o>> \in po[x].note
    BY DEF TablesOK, Marked
  <2>2. CASE x = p
    BY <1>2, <2>1, <2>2
  <2>3. CASE x # p
    BY <1>2, <2>1, <2>3
  <2> QED
    BY <2>2, <2>3
<1>5. CreditedOnce'
  <2> SUFFICES ASSUME NEW x \in POs PROVE po'[x].paid <= cash'[x]
    BY DEF CreditedOnce
  <2>1. CASE x = p
    BY <1>2, <2>1
  <2>2. CASE x # p
    BY <1>2, <2>2 DEF TablesOK, CreditedOnce
  <2> QED
    BY <2>1, <2>2
<1> QED
  BY <1>3, <1>4, <1>5

\* The goods of a PO that was not received come in with the row that says so.
LEMMA GoodsCounted ==
  ASSUME Inv, TypeOK', TablesOK, AllCurrent, NEW r \in Requests, req[r] # Idle,
         req[r].pc = "loaded", ReceiveGoods(r), req[r].p \notin Received,
         \A x \in POs \ {req[r].p} : po'[x] = po[x], req[r].p \in Received'
  PROVE  MovedOnce' /\ StockAddsUp'
<1> DEFINE p == req[r].p
<1>1. TypeOK /\ p \in POs /\ req[r].stock = stock
  BY DEF Inv, TypeOK, AllCurrent, Request
<1>2. movements[p] = 0 /\ movements \in [POs -> Nat]
  BY <1>1 DEF TablesOK, MovedOnce, TypeOK
<1>3. Books(p)
  BY <1>2 DEF ReceiveGoods, Books
<1>4. stock' = stock + Qty[p]
  <2>1. stock \in Int /\ Qty[p] \in Int
    BY <1>1, QtyAssumption DEF TypeOK
  <2>2. stock' = Flush(stock, stock, stock + Qty[p])
    BY <1>1 DEF ReceiveGoods
  <2> QED
    BY <2>1, <2>2 DEF Flush
<1>5. SumOf(Moved, POs)' = SumOf(Moved, POs) + Qty[p] /\ SumOf(Moved, POs) \in Int
  BY <1>1, <1>3, MovedStep, SumsAreInt
<1>6. StockAddsUp'
  <2> DEFINE old == SumOf(Moved, POs)
             new == SumOf(Moved, POs)'
  <2>1. new = old + Qty[p] /\ old \in Int /\ Qty[p] \in Int /\ InitStock \in Int
    BY <1>1, <1>5, QtyAssumption, StockAssumption
  <2>2. stock = InitStock + old
    BY DEF TablesOK, StockAddsUp
  <2> HIDE DEF old, new
  <2>3. stock' = InitStock + new
    BY <1>4, <2>1, <2>2
  <2> QED
    BY <2>3 DEF StockAddsUp, new
<1>7. MovedOnce'
  <2> SUFFICES ASSUME NEW x \in POs
               PROVE  movements'[x] = IF x \in Received' THEN 1 ELSE 0
    BY DEF MovedOnce
  <2>1. CASE x = p
    BY <1>2, <1>3, <2>1 DEF Books
  <2>2. CASE x # p
    <3>1. movements'[x] = movements[x] /\ (x \in Received' <=> x \in Received)
      BY <1>2, <1>3, <2>2 DEF Books, Received
    <3> QED
      BY <3>1 DEF TablesOK, MovedOnce
  <2> QED
    BY <2>1, <2>2
<1> QED
  BY <1>6, <1>7

\* A step that moves no goods and receives no PO.
LEMMA GoodsKept ==
  ASSUME TablesOK, stock' = stock, movements' = movements, Received' = Received
  PROVE  MovedOnce' /\ StockAddsUp'
<1>1. Moved' = Moved
  BY DEF Moved
<1>2. SumOf(Moved, POs)' = SumOf(Moved, POs)
  BY <1>1
<1> QED
  BY <1>2 DEF TablesOK, MovedOnce, StockAddsUp

\* Every PO owes at least minus the paisa of tolerance, so the dues of the
\* received ones are no lower than minus the number of POs.
LEMMA DuesFloor ==
  ASSUME Inv
  PROVE  SumOf(Dues, Received) + Cardinality(POs) >= 0
<1>0. TypeOK
  BY DEF Inv
<1>1. /\ IsFiniteSet(Received) /\ Received \subseteq POs
      /\ SumOf(Dues, Received) \in Int /\ Cardinality(POs) \in Nat
  BY <1>0, SumsAreInt
<1>2. \A p \in Received : Dues[p] \in Int /\ Dues[p] >= -1
  <2> SUFFICES ASSUME NEW p \in Received PROVE Dues[p] \in Int /\ Dues[p] >= -1
    OBVIOUS
  <2>1. p \in POs /\ Dues[p] = Total[p] - po[p].paid
    BY <1>0, <1>1, SumsAreInt
  <2>2. Total[p] \in Nat /\ po[p].paid \in Nat /\ po[p].paid <= Total[p] + 1
    BY <1>0, <2>1, TotalAssumption DEF Inv, RowsOK, RowOK, PaidOK, TypeOK, Row
  <2> QED
    BY <2>1, <2>2
<1>3. SumOf(Dues, Received) + Cardinality(Received) >= 0
  <2> DEFINE f == Dues
             S == Received
  <2>1. IsFiniteSet(S)
    BY <1>1
  <2>2. \A p \in S : f[p] \in Int /\ f[p] >= -1
    BY <1>2
  <2> HIDE DEF f, S
  <2>3. SumOf(f, S) + Cardinality(S) >= 0
    BY <2>1, <2>2, SumAtLeast
  <2> QED
    BY <2>3 DEF f, S
<1>4. Cardinality(Received) <= Cardinality(POs) /\ Cardinality(Received) \in Nat
  BY <1>1, POsAssumption, FS_Subset, FS_CardinalityType
<1> QED
  BY <1>1, <1>3, <1>4

\* The floor of the dues, one step later.
LEMMA DuesFloorNext == Inv' => (SumOf(Dues, Received) + Cardinality(POs) >= 0)'
<1>1. Inv => SumOf(Dues, Received) + Cardinality(POs) >= 0
  BY DuesFloor
<1> QED
  BY <1>1, PTL

\* The tables stay right when a request writes: one step per handler.
LEMMA HandleTables ==
  ASSUME Inv, Inv', TablesOK, AllCurrent, NEW r \in Requests, Handle(r)
  PROVE  TablesOK'
<1> DEFINE q == req[r]
           p == req[r].p
           owed == SumOf(Dues, Received)
           owed1 == SumOf(Dues, Received)'
<1>0. TypeOK /\ TypeOK'
  BY DEF Inv
<1>1. q # Idle /\ q \in Request /\ p \in POs /\ q.amt \in Nat /\ q.rz \in RzOrders \cup {NoRz}
  <2>1. q # Idle
    BY DEF Handle, CreatePending, CreateReceived, CreatePaid, AcceptPurchase, RejectPurchase,
           CreateRazorpayPay, PayPurchase, FindInvoice, IssueInvoice, At, Idle
  <2> QED
    BY <1>0, <2>1 DEF TypeOK, Request
<1>2. /\ po \in [POs -> Row] /\ po[p] \in Row /\ cash \in [POs -> Nat] /\ payable \in Int
      /\ Total[p] \in Nat /\ authorised \subseteq {o \in RzOrders : rz[o] # NoOrder}
  BY <1>0, <1>1, TotalAssumption DEF TypeOK
<1>3. owed \in Int /\ owed <= payable /\ payable <= owed + Cardinality(POs)
      /\ Cardinality(POs) \in Nat
  BY <1>0, SumsAreInt DEF TablesOK, DuesCovered
<1>4. ASSUME q.pc = "loaded"
      PROVE  q.row = po[p] /\ q.payable = payable
  BY <1>1, <1>4 DEF AllCurrent
<1>5. p \notin Received => po[p].paid = 0
  BY <1>1 DEF TablesOK, UnpaidBefore
<1>6. ASSUME \A x \in POs \ {p} : po'[x] = po[x], p \in Received => p \in Received'
      PROVE  /\ p \in Received => owed1 = owed + (po[p].paid - po'[p].paid)
             /\ p \notin Received /\ p \in Received' => owed1 = owed + (Total[p] - po'[p].paid)
             /\ p \notin Received' => owed1 = owed
  BY <1>0, <1>1, <1>6, OwedStep
<1>7. payable' \in Int
  BY <1>0 DEF TypeOK
<1> HIDE DEF owed, owed1
<1>8. ASSUME owed1 <= payable', payable' <= owed1 + Cardinality(POs)
      PROVE  DuesCovered'
  BY <1>8 DEF DuesCovered, owed1
<1>9. ASSUME NEW row \in Row, po' = [po EXCEPT ![p] = row]
      PROVE  /\ po'[p] = row /\ \A x \in POs \ {p} : po'[x] = po[x]
             /\ p \in Received' <=> row.status \in {"received", "partial", "paid"}
             /\ (p \in Received' <=> p \in Received) => Received' = Received
  <2>1. po'[p] = row /\ \A x \in POs \ {p} : po'[x] = po[x]
    BY <1>1, <1>2, <1>9
  <2>2. p \in Received' <=> row.status \in {"received", "partial", "paid"}
    BY <1>1, <2>1 DEF Received
  <2>3. \A x \in POs \ {p} : x \in Received' <=> x \in Received
    BY <2>1 DEF Received
  <2>4. Received' \subseteq POs /\ Received \subseteq POs
    BY DEF Received
  <2> HIDE DEF p
  <2> QED
    BY <2>1, <2>2, <2>3, <2>4
\* A PO that gets a row without being received or paid.
<1>10. ASSUME NEW row \in Row, po' = [po EXCEPT ![p] = row], p \notin Received,
              row.status \in {"pending", "rejected"}, row.paid = 0, po[p].note \subseteq row.note,
              UNCHANGED <<payable, goods, rz, authorised, money>>
       PROVE  TablesOK'
  <2>1. /\ \A x \in POs \ {p} : po'[x] = po[x]
        /\ p \notin Received' /\ Received' = Received
    BY <1>9, <1>10
  <2>2. MovedOnce' /\ StockAddsUp'
    BY <1>10, <2>1, GoodsKept DEF goods
  <2>3. UnpaidBefore' /\ Marked' /\ CreditedOnce'
    <3>1. cash' = cash /\ Applied' = Applied
      BY <1>10 DEF money, Applied
    <3>2. row.paid <= cash[p]
      BY <1>1, <1>2, <1>10
    <3> QED
      BY <1>1, <1>2, <1>10, <3>1, <3>2, RowWritten
  <2>4. owed1 = owed /\ payable' = payable
    BY <1>6, <1>10, <2>1
  <2>5. DuesCovered'
    BY <1>3, <1>8, <2>4
  <2> QED
    BY <2>2, <2>3, <2>5 DEF TablesOK
\* A PO that is received and not yet paid.
<1>11. ASSUME NEW row \in Row, po' = [po EXCEPT ![p] = row], q.pc = "loaded", p \notin Received,
              row.status = "received", row.paid = 0, po[p].note \subseteq row.note,
              ReceiveGoods(r), AddPayable(r), UNCHANGED <<rz, authorised, money>>
       PROVE  TablesOK'
  <2>1. /\ po'[p] = row /\ \A x \in POs \ {p} : po'[x] = po[x]
        /\ p \in Received'
    BY <1>9, <1>11
  <2>2. MovedOnce' /\ StockAddsUp'
    BY <1>0, <1>1, <1>11, <2>1, GoodsCounted
  <2>3. UnpaidBefore' /\ Marked' /\ CreditedOnce'
    <3>1. cash' = cash /\ Applied' = Applied
      BY <1>11 DEF money, Applied
    <3>2. row.paid <= cash[p]
      BY <1>1, <1>2, <1>11
    <3> QED
      BY <1>1, <1>2, <1>11, <3>1, <3>2, RowWritten
  <2>4. owed1 = owed + Total[p]
    <3>1. owed1 = owed + (Total[p] - po'[p].paid)
      BY <1>6, <1>11, <2>1
    <3> QED
      BY <1>2, <1>3, <1>11, <2>1, <3>1
  <2>5. payable' = payable + Total[p]
    <3>1. payable' = Flush(payable, payable, payable + Total[p])
      BY <1>4, <1>11 DEF AddPayable
    <3> QED
      BY <1>2, <3>1 DEF Flush
  <2>6. DuesCovered'
    BY <1>2, <1>3, <1>8, <2>4, <2>5
  <2> QED
    BY <2>2, <2>3, <2>6 DEF TablesOK
<1>12. CASE CreatePending(r)
  <2> DEFINE row == [po[p] EXCEPT !.status = "pending"]
  <2>1. po[p].status = "absent" /\ p \notin Received
    BY <1>1, <1>12 DEF CreatePending, Received
  <2>2. /\ row \in Row /\ row.status = "pending" /\ row.paid = po[p].paid
        /\ row.note = po[p].note /\ po' = [po EXCEPT ![p] = row]
    BY <1>1, <1>2, <1>12 DEF CreatePending, Row, Statuses
  <2> HIDE DEF row
  <2> QED
    BY <1>5, <1>10, <1>12, <2>1, <2>2 DEF CreatePending
<1>13. CASE CreateReceived(r)
  <2> DEFINE row == [po[p] EXCEPT !.status = "received"]
  <2>1. po[p].status = "absent" /\ p \notin Received /\ q.pc = "loaded"
    BY <1>1, <1>13 DEF CreateReceived, Received, At
  <2>2. /\ row \in Row /\ row.status = "received" /\ row.paid = po[p].paid
        /\ row.note = po[p].note /\ po' = [po EXCEPT ![p] = row]
    BY <1>1, <1>2, <1>13 DEF CreateReceived, Row, Statuses
  <2> HIDE DEF row
  <2> QED
    BY <1>5, <1>11, <1>13, <2>1, <2>2 DEF CreateReceived
<1>14. CASE CreatePaid(r)
  <2> DEFINE row == [status |-> "paid", paid |-> Total[p], note |-> {}]
  <2>1. po[p].status = "absent" /\ p \notin Received /\ q.pc = "loaded"
    BY <1>1, <1>14 DEF CreatePaid, Received, At
  <2>2. po[p].note = {}
    BY <1>1, <2>1 DEF TablesOK, UnpaidBefore
  <2>3. /\ row \in Row /\ row.status = "paid" /\ row.paid = Total[p] /\ row.note = {}
        /\ po' = [po EXCEPT ![p] = row]
    BY <1>1, <1>2, <1>14 DEF CreatePaid, Row, Statuses
  <2> HIDE DEF row
  <2>4. /\ po'[p] = row /\ \A x \in POs \ {p} : po'[x] = po[x]
        /\ p \in Received'
    BY <1>9, <2>3
  <2>5. MovedOnce' /\ StockAddsUp'
    BY <1>0, <1>1, <1>14, <2>1, <2>4, GoodsCounted DEF CreatePaid
  <2>6. UnpaidBefore' /\ Marked' /\ CreditedOnce'
    <3>1. Applied' = Applied
      BY <1>14 DEF CreatePaid, Applied
    <3>2. cash' = [cash EXCEPT ![p] = Total[p]]
      BY <1>14 DEF CreatePaid
    <3>3. cash' \in [POs -> Nat] /\ (\A x \in POs \ {p} : cash'[x] = cash[x])
          /\ row.paid <= cash'[p]
      BY <1>1, <1>2, <2>3, <3>2
    <3> QED
      BY <1>1, <2>2, <2>3, <3>1, <3>3, RowWritten
  <2>7. owed1 = owed /\ payable' = payable
    <3>1. owed1 = owed + (Total[p] - po'[p].paid)
      BY <1>6, <2>1, <2>4
    <3>2. payable' = payable
      BY <1>14 DEF CreatePaid
    <3> QED
      BY <1>2, <1>3, <2>3, <2>4, <3>1, <3>2
  <2>8. DuesCovered'
    BY <1>3, <1>8, <2>7
  <2> QED
    BY <2>5, <2>6, <2>8 DEF TablesOK
<1>15. CASE AcceptPurchase(r)
  <2> DEFINE row == [status |-> "received", paid |-> po[p].paid, note |-> po[p].note]
  <2>1. q.pc = "loaded" /\ q.row = po[p] /\ po[p].status = "pending"
    BY <1>4, <1>15 DEF AcceptPurchase, At, IsPending
  <2>2. p \notin Received
    BY <2>1 DEF Received
  <2>3. /\ row \in Row /\ row.status = "received" /\ row.paid = po[p].paid
        /\ row.note = po[p].note
    BY <1>2 DEF Row, Statuses
  <2>4. po' = [po EXCEPT ![p] = row]
    BY <1>0, <1>1, <1>15, <2>1, UpdatedIs DEF AcceptPurchase
  <2> HIDE DEF row
  <2> QED
    BY <1>5, <1>11, <1>15, <2>1, <2>2, <2>3, <2>4 DEF AcceptPurchase
<1>16. CASE RejectPurchase(r)
  <2> DEFINE row == [status |-> "rejected", paid |-> po[p].paid, note |-> po[p].note]
  <2>1. q.pc = "loaded" /\ q.row = po[p] /\ po[p].status = "pending"
    BY <1>4, <1>16 DEF RejectPurchase, At, IsPending
  <2>2. p \notin Received
    BY <2>1 DEF Received
  <2>3. /\ row \in Row /\ row.status = "rejected" /\ row.paid = po[p].paid
        /\ row.note = po[p].note
    BY <1>2 DEF Row, Statuses
  <2>4. po' = [po EXCEPT ![p] = row]
    BY <1>0, <1>1, <1>16, <2>1, UpdatedIs DEF RejectPurchase
  <2> HIDE DEF row
  <2> QED
    BY <1>5, <1>10, <1>16, <2>1, <2>2, <2>3, <2>4 DEF RejectPurchase
<1>17. CASE CreateRazorpayPay(r)
  <2>1. PICK o \in RzOrders :
          /\ rz[o] = NoOrder
          /\ rz' = [rz EXCEPT ![o] = [p |-> p, amt |-> q.amt]]
          /\ po' = Updated(r, q.row.status, q.row.paid, q.row.note \cup {<<"rz_pending", o>>})
    BY <1>17 DEF CreateRazorpayPay
  <2> DEFINE row == [status |-> po[p].status, paid |-> po[p].paid,
                     note |-> po[p].note \cup {<<"rz_pending", o>>}]
  <2>2. q.pc = "loaded" /\ q.row = po[p] /\ po[p].status \in {"received", "partial"}
    BY <1>4, <1>17 DEF CreateRazorpayPay, At, Payable
  <2>3. p \in Received
    BY <1>1, <2>2 DEF Received
  <2>4. /\ row \in Row /\ row.status = po[p].status /\ row.paid = po[p].paid
        /\ po[p].note \subseteq row.note
    BY <1>2 DEF Row, Tags
  <2>5. po' = [po EXCEPT ![p] = row]
    <3> DEFINE note == po[p].note \cup {<<"rz_pending", o>>}
    <3>1. po' = Updated(r, po[p].status, po[p].paid, note)
      BY <2>1, <2>2
    <3>2. q # Idle
      BY <1>1
    <3> HIDE DEF note
    <3>3. Updated(r, po[p].status, po[p].paid, note)
            = [po EXCEPT ![req[r].p]
                 = [status |-> po[p].status, paid |-> po[p].paid, note |-> note]]
      BY <1>0, <2>2, <3>2, UpdatedIs
    <3> QED
      BY <3>1, <3>3 DEF note
  <2> HIDE DEF row
  <2>6. /\ po'[p] = row /\ \A x \in POs \ {p} : po'[x] = po[x]
        /\ p \in Received' /\ Received' = Received
    BY <1>9, <2>2, <2>3, <2>4, <2>5
  <2>7. MovedOnce' /\ StockAddsUp'
    BY <1>17, <2>6, GoodsKept DEF CreateRazorpayPay, goods
  <2>8. UnpaidBefore' /\ Marked' /\ CreditedOnce'
    <3>1. cash' = cash /\ Applied' = Applied
      BY <1>17 DEF CreateRazorpayPay, money, Applied
    <3>2. row.paid <= cash[p]
      BY <1>1, <2>4 DEF TablesOK, CreditedOnce
    <3>3. row.status \in {"received", "partial"}
      BY <2>2, <2>4
    <3> QED
      BY <1>1, <1>2, <2>4, <2>5, <3>1, <3>2, <3>3, RowWritten
  <2>9. owed1 = owed /\ payable' = payable
    <3>1. owed1 = owed + (po[p].paid - po'[p].paid)
      BY <1>6, <2>3, <2>6
    <3>2. po'[p].paid = po[p].paid /\ po[p].paid \in Int
      BY <1>2, <2>4, <2>6 DEF Row
    <3> QED
      BY <1>3, <1>17, <3>1, <3>2 DEF CreateRazorpayPay
  <2>10. DuesCovered'
    BY <1>3, <1>8, <2>9
  <2> QED
    BY <2>7, <2>8, <2>10 DEF TablesOK
<1>18. CASE PayPurchase(r)
  <2> DEFINE tag == IF q.rz = NoRz THEN {} ELSE {<<"rzp", q.rz>>}
             paid == po[p].paid + q.amt
             row == [status |-> PaidStatus(p, paid), paid |-> paid, note |-> po[p].note \cup tag]
  <2>1. q.pc = "loaded" /\ q.row = po[p] /\ po[p].status \in {"received", "partial"}
    BY <1>4, <1>18 DEF PayPurchase, At, Payable
  <2>2. p \in Received
    BY <1>1, <2>1 DEF Received
  <2>3. PaidStatus(p, paid) \in {"partial", "paid"}
    BY DEF PaidStatus
  <2>4. po[p].paid \in Nat /\ paid \in Nat /\ paid - po[p].paid = q.amt
    BY <1>1, <1>2 DEF Row
  <2>5. tag \subseteq Tags /\ po[p].note \subseteq Tags
    BY <1>1, <1>2 DEF Tags, Row
  <2>6. po' = [po EXCEPT ![p] = row]
    <3> DEFINE st == PaidStatus(p, paid)
               note == po[p].note \cup tag
    <3>1. po' = Updated(r, st, paid, note)
      BY <1>18, <2>1 DEF PayPurchase
    <3>2. q # Idle
      BY <1>1
    <3> HIDE DEF paid, tag, st, note
    <3>3. Updated(r, st, paid, note)
            = [po EXCEPT ![req[r].p] = [status |-> st, paid |-> paid, note |-> note]]
      BY <1>0, <2>1, <3>2, UpdatedIs
    <3> QED
      BY <3>1, <3>3 DEF st, note
  <2>7. /\ row \in Row /\ row.status \in {"partial", "paid"} /\ row.paid = paid
        /\ row.note = po[p].note \cup tag
    <3> HIDE DEF paid, tag
    <3> QED
      BY <2>3, <2>4, <2>5 DEF Row, Statuses
  <2> HIDE DEF row
  <2>8. /\ po'[p] = row /\ \A x \in POs \ {p} : po'[x] = po[x]
        /\ p \in Received' /\ Received' = Received
    BY <1>9, <2>2, <2>6, <2>7
  <2>9. MovedOnce' /\ StockAddsUp'
    BY <1>18, <2>8, GoodsKept DEF PayPurchase, goods
  <2>10. q.rz \notin Applied[p] /\ <<q.rz, p>> \notin applied
    <3>1. <<"rzp", q.rz>> \notin po[p].note
      BY <1>18, <2>1 DEF PayPurchase, IsApplied
    <3>2. q.rz \notin Applied[p]
      BY <1>1, <3>1 DEF TablesOK, Marked
    <3>3. <<q.rz, p>> \in applied => q.rz \in RzOrders
      BY <1>0 DEF TypeOK
    <3> QED
      BY <1>1, <3>2, <3>3 DEF Applied
  <2>11. /\ \A x \in POs \ {p} : Applied'[x] = Applied[x]
         /\ \A o \in Applied'[p] : o \in Applied[p] \/ (o = q.rz /\ o # NoRz)
    <3>1. applied' = applied \cup (({q.rz} \ {NoRz}) \X {p})
      BY <1>18 DEF PayPurchase
    <3> QED
      BY <1>1, <3>1, NoRzAssumption DEF Applied
  <2>12. UnpaidBefore' /\ Marked' /\ CreditedOnce'
    <3>1. cash' = [cash EXCEPT ![p] = @ + q.amt]
      BY <1>18, <2>10 DEF PayPurchase
    <3>2. cash' \in [POs -> Nat] /\ (\A x \in POs \ {p} : cash'[x] = cash[x])
          /\ cash'[p] = cash[p] + q.amt
      BY <1>1, <1>2, <3>1
    <3>3. row.paid <= cash'[p]
      <4>1. po[p].paid <= cash[p] /\ cash[p] \in Nat
        BY <1>1, <1>2 DEF TablesOK, CreditedOnce
      <4> QED
        BY <1>1, <2>4, <2>7, <3>2, <4>1
    <3>4. \A o \in Applied'[p] : o \in Applied[p] \/ <<"rzp", o>> \in row.note
      BY <2>7, <2>11
    <3>5. row.status # "absent" /\ po[p].note \subseteq row.note
      BY <2>7
    <3> HIDE DEF tag, paid
    <3> QED
      BY <1>1, <2>6, <2>7, <2>11, <3>2, <3>3, <3>4, <3>5, RowWritten
  <2>13. owed1 = owed - q.amt
    <3>1. owed1 = owed + (po[p].paid - po'[p].paid)
      BY <1>6, <2>2, <2>8
    <3> QED
      BY <1>1, <1>3, <2>4, <2>7, <2>8, <3>1
  <2>14. payable' = Max0(payable - q.amt)
    <3>1. payable' = Flush(payable, payable, Max0(payable - q.amt))
      BY <1>4, <1>18, <2>1 DEF PayPurchase
    <3> QED
      BY <3>1 DEF Flush
  <2>15. owed1 + Cardinality(POs) >= 0
    BY DuesFloorNext DEF owed1
  <2>16. DuesCovered'
    BY <1>1, <1>2, <1>3, <1>8, <2>13, <2>14, <2>15 DEF Max0
  <2> QED
    BY <2>9, <2>12, <2>16 DEF TablesOK
<1>19. CASE FindInvoice(r) \/ IssueInvoice(r)
  BY <1>19, TablesKept DEF FindInvoice, IssueInvoice, goods, money
<1> QED
  BY <1>12, <1>13, <1>14, <1>15, <1>16, <1>17, <1>18, <1>19 DEF Handle

\* With one slot, only the request that writes could hold a row that changes.
LEMMA SerialStep ==
  ASSUME OneSlot, Inv, Inv', SerialInv, [Next]_vars
  PROVE  SerialInv'
<1>0. TypeOK /\ TypeOK' /\ TablesOK
  BY DEF Inv, SerialInv, TablesOK
<1>1. SUFFICES AllCurrent' /\ TablesOK'
  BY DEF SerialInv, TablesOK
<1>2. ASSUME NEW r \in Requests, NEW op, NEW p \in POs, NEW amt, NEW o, Load(r, op, p, amt, o)
      PROVE  AllCurrent' /\ TablesOK'
  <2> DEFINE q == [pc |-> "loaded", op |-> op, p |-> p, amt |-> amt, rz |-> o,
                   row |-> po[p], payable |-> payable, stock |-> stock,
                   avail |-> avail, seen |-> FALSE]
  <2>1. req' = [req EXCEPT ![r] = q]
    BY <1>2 DEF Load
  <2>2. /\ q.p = p /\ q.rz = o /\ q.row = po[p] /\ q.payable = payable
        /\ q.stock = stock /\ q.avail = avail
    OBVIOUS
  <2>3. /\ po' = po /\ payable' = payable /\ stock' = stock /\ avail' = avail
        /\ movements' = movements
        /\ applied' = applied /\ cash' = cash
    BY <1>2 DEF Load, goods, money
  <2> HIDE DEF q
  <2>4. \A x \in Requests : req'[x] = q
    BY <1>0, <2>1 DEF OneSlot, TypeOK
  <2>5. AllCurrent'
    BY <2>2, <2>3, <2>4 DEF AllCurrent
  <2> QED
    BY <1>0, <2>3, <2>5, TablesKept
<1>3. ASSUME NEW r \in Requests, Start(r)
      PROVE  AllCurrent' /\ TablesOK'
  <2>1. PICK p \in POs : \E op, amt, o : Load(r, op, p, amt, o)
    BY <1>3 DEF Start, StartCreate, StartDecision, StartRzCreate, StartPay, StartVerify
  <2> QED
    BY <1>2, <2>1
<1>4. ASSUME NEW r \in Requests, Return(r)
      PROVE  AllCurrent' /\ TablesOK'
  <2>1. /\ po' = po /\ payable' = payable /\ stock' = stock /\ avail' = avail
        /\ movements' = movements
        /\ applied' = applied /\ cash' = cash
    BY <1>4 DEF Return, goods, money
  <2>2. \A x \in Requests : req'[x] = Idle
    BY <1>0, <1>4 DEF Return, OneSlot, TypeOK
  <2> QED
    BY <1>0, <2>1, <2>2, TablesKept DEF AllCurrent
<1>5. ASSUME NEW o \in RzOrders, AuthoriseRz(o)
      PROVE  AllCurrent' /\ TablesOK'
  <2>1. /\ po' = po /\ payable' = payable /\ stock' = stock /\ avail' = avail
        /\ movements' = movements
        /\ applied' = applied /\ cash' = cash /\ req' = req
    BY <1>5 DEF AuthoriseRz, goods, money
  <2> QED
    BY <1>0, <2>1, TablesKept DEF SerialInv, AllCurrent
<1>6. CASE UNCHANGED vars
  <2>1. /\ po' = po /\ payable' = payable /\ stock' = stock /\ avail' = avail
        /\ movements' = movements
        /\ applied' = applied /\ cash' = cash /\ req' = req
    BY <1>6 DEF vars
  <2> QED
    BY <1>0, <2>1, TablesKept DEF SerialInv, AllCurrent
<1>7. ASSUME NEW r \in Requests, Handle(r)
      PROVE  AllCurrent' /\ TablesOK'
  <2>1. req[r] # Idle /\ req[r] \in Request
    BY <1>0, <1>7 DEF Handle, CreatePending, CreateReceived, CreatePaid, AcceptPurchase,
       RejectPurchase, CreateRazorpayPay, PayPurchase, FindInvoice, IssueInvoice, At, Idle, TypeOK
  <2>2. \/ req'[r] = Idle
        \/ /\ req'[r].pc # "loaded" /\ req'[r].p = req[r].p /\ req'[r].rz = req[r].rz
    BY <1>0, <1>7, <2>1 DEF Handle, CreatePending, CreateReceived, CreatePaid, AcceptPurchase,
       RejectPurchase, CreateRazorpayPay, PayPurchase, FindInvoice, IssueInvoice, Done, TypeOK,
       Request
  <2>3. \A x \in Requests : x = r
    BY DEF OneSlot
  <2>4. AllCurrent'
    BY <2>2, <2>3 DEF AllCurrent
  <2>5. TablesOK'
    BY <1>0, <1>7, HandleTables DEF SerialInv
  <2> QED
    BY <2>4, <2>5
<1> QED
  BY <1>3, <1>4, <1>5, <1>6, <1>7 DEF Next

\* MapThenSumSet with the model's own terms is SumOf of those terms.
LEMMA OwedIs ==
  ASSUME TypeOK
  PROVE  MapThenSumSet(LAMBDA p : Due(p, po[p]), Received) = SumOf(Dues, Received)
<1> DEFINE S == Received
           P(h) == h = [s \in SUBSET S |->
                          IF s = {} THEN 0
                          ELSE Due(Pick(s), po[Pick(s)]) + h[s \ {Pick(s)}]]
           h0 == CHOOSE h : P(h)
<1>0. IsFiniteSet(S) /\ S \subseteq POs
  BY SumsAreInt
<1>1. MapThenSumSet(LAMBDA p : Due(p, po[p]), S) = h0[S]
  BY DEF MapThenSumSet, MapThenFoldSet, Pick
<1>2. \A h : P(h) <=> Adds(Dues, h, S)
  <2>1. \A s \in SUBSET S : s # {} => Pick(s) \in POs
    BY <1>0 DEF Pick
  <2>2. ASSUME NEW h, NEW s \in SUBSET S
        PROVE  Body(Dues, h, s) = IF s = {} THEN 0
                                  ELSE Due(Pick(s), po[Pick(s)]) + h[s \ {Pick(s)}]
    BY <2>1 DEF Body, Dues
  <2> HIDE DEF S
  <2> QED
    BY <2>2 DEF Adds
<1> HIDE DEF S, P
<1>3. \E h : P(h)
  <2>1. \E h : Adds(Dues, h, S)
    BY <1>0, AddsExists
  <2> QED
    BY <1>2, <2>1
<1>4. P(h0)
  BY <1>3
<1> HIDE DEF h0
<1>5. SumOf(Dues, S) = h0[S]
  BY <1>0, <1>2, <1>4, SumIs
<1> QED
  BY <1>1, <1>5 DEF S

\* The sum of StockExplained is SumOf.
LEMMA MovedIs ==
  ASSUME TypeOK
  PROVE  MapThenSumSet(LAMBDA p : Qty[p] * movements[p], POs) = SumOf(Moved, POs)
<1> DEFINE P(h) == h = [s \in SUBSET POs |->
                          IF s = {} THEN 0
                          ELSE Qty[Pick(s)] * movements[Pick(s)] + h[s \ {Pick(s)}]]
           h0 == CHOOSE h : P(h)
<1>1. MapThenSumSet(LAMBDA p : Qty[p] * movements[p], POs) = h0[POs]
  BY DEF MapThenSumSet, MapThenFoldSet, Pick
<1>2. \A h : P(h) <=> Adds(Moved, h, POs)
  <2>1. \A s \in SUBSET POs : s # {} => Pick(s) \in POs
    BY DEF Pick
  <2>2. ASSUME NEW h, NEW s \in SUBSET POs
        PROVE  Body(Moved, h, s) = IF s = {} THEN 0
                                   ELSE Qty[Pick(s)] * movements[Pick(s)] + h[s \ {Pick(s)}]
    BY <2>1 DEF Body, Moved
  <2> QED
    BY <2>2 DEF Adds
<1> HIDE DEF P
<1>3. \E h : P(h)
  <2>1. \E h : Adds(Moved, h, POs)
    BY POsAssumption, AddsExists
  <2> QED
    BY <1>2, <2>1
<1>4. P(h0)
  BY <1>3
<1> HIDE DEF h0
<1>5. SumOf(Moved, POs) = h0[POs]
  BY <1>2, <1>4, POsAssumption, SumIs
<1> QED
  BY <1>1, <1>5

-----------------------------------------------------------------------------
(***************************************************************************)
(* The theorems.                                                            *)
(***************************************************************************)

\* Every behaviour of the specification keeps the invariant, for any number of
\* overlapping requests.
THEOREM InvHolds == Spec => []Inv
<1>1. Init => Inv
  <2> SUFFICES ASSUME Init PROVE Inv
    OBVIOUS
  <2>1. TypeOK
    BY StockAssumption DEF Init, TypeOK, NoRow, Row, Statuses, NoOrder
  <2>2. RowsOK
    BY TotalAssumption DEF Init, RowsOK, RowOK, PaidOK, NoRow
  <2>3. LoadedOK
    BY DEF Init, LoadedOK
  <2> QED
    BY <2>1, <2>2, <2>3 DEF Inv
<1>2. Inv /\ [Next]_vars => Inv'
  BY InvStep
<1> QED
  BY <1>1, <1>2, PTL DEF Spec

\* The tables and the requests in flight keep their types.
THEOREM TypeCorrect == Spec => []TypeOK
<1>1. Inv => TypeOK
  BY DEF Inv
<1> QED
  BY <1>1, InvHolds, PTL

\* pay_purchase keeps every PO within the 80%-first rule and its total, however
\* its requests interleave.
THEOREM PayRulesKept == Spec => []PaidRespectsPayRules
<1>1. Inv => PaidRespectsPayRules
  BY DEF Inv, RowsOK, RowOK, PaidRespectsPayRules
<1> QED
  BY <1>1, InvHolds, PTL

\* No PO is received or paid without its goods having been booked.
THEOREM GoodsBeforeMoney == Spec => []PaidOnlyIfReceived
<1>1. Inv => PaidOnlyIfReceived
  BY DEF Inv, RowsOK, RowOK, PaidOnlyIfReceived
<1> QED
  BY <1>1, InvHolds, PTL

\* Nothing is owed, moved or credited before the first PO.
LEMMA SerialInit == Init => SerialInv
<1> SUFFICES ASSUME Init PROVE SerialInv
  OBVIOUS
<1>1. Received = {} /\ \A p \in POs : po[p] = NoRow
  BY DEF Init, Received, NoRow
<1>2. AllCurrent /\ UnpaidBefore /\ Marked /\ CreditedOnce /\ MovedOnce
  BY <1>1 DEF Init, AllCurrent, UnpaidBefore, Marked, CreditedOnce, MovedOnce, NoRow, Applied
<1>3. DuesCovered
  <2>1. SumOf(Dues, Received) = 0
    BY <1>1, SumStep, FS_EmptySet
  <2>2. Cardinality(POs) \in Nat /\ payable = 0
    BY POsAssumption, FS_CardinalityType DEF Init
  <2> QED
    BY <2>1, <2>2 DEF DuesCovered
<1>4. StockAddsUp
  <2> DEFINE f == Moved
  <2>1. \A p \in POs : f[p] = 0
    <3>1. \A p \in POs : movements[p] = 0 /\ Qty[p] \in Int
      BY QtyAssumption DEF Init
    <3> QED
      BY <3>1 DEF Moved
  <2> HIDE DEF f
  <2>2. SumOf(f, POs) = 0
    BY <2>1, POsAssumption, SumOfZeros
  <2> QED
    BY <2>2, StockAssumption DEF Init, StockAddsUp, f
<1> QED
  BY <1>2, <1>3, <1>4 DEF SerialInv

\* With one request slot the serial invariant holds, crashes included.
THEOREM SerialInvHolds ==
  ASSUME OneSlot
  PROVE  Spec => []SerialInv
<1>1. Inv /\ Inv' /\ SerialInv /\ [Next]_vars => SerialInv'
  BY SerialStep
<1> QED
  BY <1>1, SerialInit, InvHolds, PTL DEF Spec

\* With one slot, the idempotency marker of pay_purchase credits each Razorpay
\* payment once on a PO, whatever PO and amount it is verified with.
THEOREM NeverCreditedTwice ==
  ASSUME OneSlot
  PROVE  Spec => []CreditedOnce
<1>1. SerialInv => CreditedOnce
  BY DEF SerialInv
<1> QED
  BY <1>1, SerialInvHolds, PTL

\* With one slot, payable_balance is the sum of what the received POs owe, but
\* for the paise that payments overshoot and max(0.0, ...) cuts off.
THEOREM PayableIsDues ==
  ASSUME OneSlot
  PROVE  Spec => []PayableCoversDues
<1>1. Inv /\ SerialInv => PayableCoversDues
  BY OwedIs DEF Inv, SerialInv, DuesCovered, PayableCoversDues
<1> QED
  BY <1>1, InvHolds, SerialInvHolds, PTL

\* With one slot, the stock is the initial one plus what the POs brought in, and
\* _apply_receive ran once for every received PO.
THEOREM StockIsMovements ==
  ASSUME OneSlot
  PROVE  Spec => []StockExplained
<1>1. Inv /\ SerialInv => StockExplained
  BY MovedIs DEF Inv, SerialInv, StockAddsUp, MovedOnce, StockExplained
<1> QED
  BY <1>1, InvHolds, SerialInvHolds, PTL

-----------------------------------------------------------------------------
(***************************************************************************)
(* The cart and its checkout.                                               *)
(***************************************************************************)
\* What CartCheckout has of CheckoutTerms and of FiniteSetsExt are these.
LEMMA CartTerms ==
  /\ \A ls : Cart!Active(ls) = Active(ls)
  /\ \A have, sold : Cart!Remaining(have, sold) = Remaining(have, sold)
  /\ \A S : Cart!Min(S) = Min(S)
  BY DEF Cart!Active, Active, Cart!Remaining, Remaining, Cart!Min, Min

\* The least of some natural numbers is one of them.
LEMMA MinIs ==
  ASSUME NEW S, S \subseteq Nat, S # {}
  PROVE  Min(S) \in S
<1>1. IsWellFoundedOn(OpToRel(<, Nat), Nat)
  BY NatLessThanWellFounded
<1>2. PICK x \in S : \A y \in S : ~ (<<y, x>> \in OpToRel(<, Nat))
  BY <1>1, WFMin
<1>3. ASSUME NEW y \in S PROVE x <= y
  <2>1. y < x => <<y, x>> \in OpToRel(<, Nat)
    BY DEF OpToRel
  <2>2. x \in Nat /\ y \in Nat /\ ~ (y < x)
    BY <1>2, <2>1
  <2> QED
    BY <2>2
<1> QED
  BY <1>3 DEF Min

\* The quantities of these lines, and what the cart holds of a product.
QtyOf(ls) == [i \in DOMAIN ls |-> ls[i].qty]
LinesOf(ls, p) == {i \in Active(ls) : ls[i].prod = p}

\* What these orders sold of a product.
ItemsOf(os, p) == [o \in DOMAIN os |-> os[o].items[p]]
SoldIn(os, p) == SumOf(ItemsOf(os, p), DOMAIN os)

OnLine == {"quantity", "save", "restore", "remove"}

\* Every copy of the cart is of rows that are still there, deleted or not.
CopiesOK ==
  \A r \in Requests : calls[r] # Cart!Idle =>
    /\ DOMAIN calls[r].ls \subseteq DOMAIN lines /\ DOMAIN calls[r].later \subseteq DOMAIN lines
    /\ calls[r].op \in OnLine => calls[r].id \in DOMAIN calls[r].ls

\* An order that was not completed has no items; a checkout between its commits
\* has one of its own, for the shop of the first line it listed.
OrdersOK ==
  /\ \A o \in DOMAIN orders : ~ orders[o].done => orders[o].items = Cart!Nothing
  /\ \A r \in Requests : calls[r].pc = "header" =>
       /\ calls[r].op = "checkout" /\ calls[r].id \in DOMAIN orders /\ ~ orders[calls[r].id].done
       /\ Active(calls[r].ls) # {} /\ orders[calls[r].id].shop = Cart!HeadShop(calls[r].ls)
  /\ \A r, s \in Requests :
       r # s /\ calls[r].pc = "header" /\ calls[s].pc = "header" => calls[r].id # calls[s].id

\* Neither the shelf nor a copy of it is below what the orders explain.
Explained(st) == \A p \in Products : st[p] >= Remaining(InitQty[p], SoldIn(orders, p))
ShelfExplained ==
  writes = 0 =>
    /\ Explained(stock_qty)
    /\ \A r \in Requests : calls[r] # Cart!Idle => Explained(calls[r].st)

CartInv == Cart!TypeOK /\ CopiesOK /\ OrdersOK /\ ShelfExplained

\* Where requests do not overlap, the copies are the tables.
CartCurrent ==
  ~ overlapping =>
    /\ \A r \in Requests : r # Cart!Alone => calls[r] = Cart!Idle
    /\ \A r \in Requests : calls[r] # Cart!Idle => calls[r].ls = lines /\ calls[r].st = stock_qty
    /\ \A r \in Requests : calls[r].pc = "header" => calls[r].later = lines

-----------------------------------------------------------------------------
\* What the cart's lines are.
LEMMA LineSeq ==
  ASSUME NEW ls \in Seq(Cart!Line)
  PROVE  /\ Len(ls) \in Nat /\ DOMAIN ls = 1 .. Len(ls) /\ ls \in [DOMAIN ls -> Cart!Line]
         /\ IsFiniteSet(DOMAIN ls) /\ DOMAIN ls \subseteq Nat
         /\ \A i \in DOMAIN ls : /\ ls[i] \in Cart!Line /\ ls[i].prod \in Products
                                 /\ ls[i].qty \in Nat /\ ls[i].state \in Cart!States
<1>1. Len(ls) \in Nat /\ DOMAIN ls = 1 .. Len(ls) /\ ls \in [1 .. Len(ls) -> Cart!Line]
  BY LenProperties
<1>2. IsFiniteSet(1 .. Len(ls))
  BY <1>1, FS_Interval
<1> QED
  BY <1>1, <1>2 DEF Cart!Line

\* Rows that change in place are still the cart's lines.
LEMMA LinesMade ==
  ASSUME NEW ls \in Seq(Cart!Line), NEW f \in [DOMAIN ls -> Cart!Line]
  PROVE  f \in Seq(Cart!Line) /\ DOMAIN f = DOMAIN ls /\ Len(f) = Len(ls)
<1>1. Len(ls) \in Nat /\ DOMAIN ls = 1 .. Len(ls)
  BY LineSeq
<1>2. f \in Seq(Cart!Line)
  BY <1>1, SeqDef
<1> QED
  BY <1>1, <1>2, LenProperties

\* What the orders are.
LEMMA OrderSeq ==
  ASSUME NEW os \in Seq(Cart!Order)
  PROVE  /\ Len(os) \in Nat /\ DOMAIN os = 1 .. Len(os)
         /\ IsFiniteSet(DOMAIN os) /\ DOMAIN os \subseteq Nat
         /\ \A o \in DOMAIN os : /\ os[o] \in Cart!Order /\ os[o].items \in [Products -> Nat]
                                 /\ os[o].shop \in {Shop[p] : p \in Products}
                                 /\ os[o].done \in BOOLEAN
<1>1. Len(os) \in Nat /\ DOMAIN os = 1 .. Len(os) /\ os \in [1 .. Len(os) -> Cart!Order]
  BY LenProperties
<1>2. IsFiniteSet(1 .. Len(os))
  BY <1>1, FS_Interval
<1>3. \A o \in DOMAIN os : os[o] \in Cart!Order
  BY <1>1
<1>4. DOMAIN os \subseteq Nat
  BY <1>1
<1> DEFINE Shops == {Shop[p] : p \in Products}
<1>5. ASSUME NEW x \in Cart!Order
      PROVE  x.items \in [Products -> Nat] /\ x.shop \in Shops /\ x.done \in BOOLEAN
  <2>1. Cart!Order = [shop : Shops, items : [Products -> Nat], done : BOOLEAN]
    BY DEF Cart!Order
  <2> HIDE DEF Shops
  <2> QED
    BY <2>1
<1> QED
  BY <1>1, <1>2, <1>3, <1>4, <1>5

\* What the fields of a request in flight are.
LEMMA CallFields ==
  ASSUME Cart!TypeOK, NEW r \in Requests, calls[r] # Cart!Idle
  PROVE  /\ calls[r] \in Cart!Request /\ calls[r].want \in [Products -> Nat]
         /\ calls[r].id \in Nat /\ calls[r].qty \in Nat /\ calls[r].st \in [Products -> Nat]
         /\ calls[r].ls \in Seq(Cart!Line) /\ calls[r].later \in Seq(Cart!Line)
         /\ calls[r].op \in Cart!Ops /\ calls[r].pc \in {"loaded", "header"}
  BY DEF Cart!TypeOK, Cart!Request

\* A request that ends or goes on leaves the others as they are.
LEMMA CallsChange ==
  ASSUME Cart!TypeOK, NEW r \in Requests, NEW q \in Cart!Request \cup {Cart!Idle},
         calls' = [calls EXCEPT ![r] = q]
  PROVE  /\ calls' \in [Requests -> Cart!Request \cup {Cart!Idle}]
         /\ calls'[r] = q /\ \A s \in Requests : s # r => calls'[s] = calls[s]
  BY DEF Cart!TypeOK

\* What a handler reads when it starts.
Starts(r) ==
  \/ Cart!StartAdd(r) \/ Cart!StartReorder(r) \/ Cart!StartLine(r)
  \/ Cart!StartCheckout(r) \/ Cart!StartStock(r)

LEMMA LoadIs ==
  ASSUME Cart!TypeOK, NEW r \in Requests, Starts(r)
  PROVE  \E op \in Cart!Ops, want \in [Products -> Nat], id \in Nat, qty \in Nat :
           Cart!Load(r, op, want, id, qty) /\ (op \in OnLine => id \in DOMAIN lines)
<1>1. DOMAIN lines \subseteq Nat /\ DOMAIN orders \subseteq Nat
      /\ \A o \in DOMAIN orders : orders[o].items \in [Products -> Nat]
  BY LineSeq, OrderSeq DEF Cart!TypeOK
<1>2. /\ Cart!Nothing \in [Products -> Nat]
      /\ \A p \in Products, n \in Nat : [Cart!Nothing EXCEPT ![p] = n] \in [Products -> Nat]
  BY DEF Cart!Nothing
<1>3. CASE Cart!StartAdd(r)
  <2>1. PICK p \in Products, n \in Quantities :
          Cart!Load(r, "add", [Cart!Nothing EXCEPT ![p] = n], 0, 0)
    BY <1>3 DEF Cart!StartAdd
  <2>2. "add" \in Cart!Ops /\ n \in Nat /\ "add" \notin OnLine
    BY QuantitiesAssumption DEF Cart!Ops, OnLine
  <2> QED
    BY <1>2, <2>1, <2>2
<1>4. CASE Cart!StartReorder(r)
  <2>1. PICK o \in DOMAIN orders : Cart!Load(r, "reorder", orders[o].items, o, 0)
    BY <1>4 DEF Cart!StartReorder
  <2>2. "reorder" \in Cart!Ops /\ "reorder" \notin OnLine
    BY DEF Cart!Ops, OnLine
  <2> QED
    BY <1>1, <2>1, <2>2
<1>5. CASE Cart!StartLine(r)
  <2>1. PICK i \in DOMAIN lines, op \in OnLine, n \in Nat : Cart!Load(r, op, Cart!Nothing, i, n)
    BY <1>5, QuantitiesAssumption DEF Cart!StartLine, OnLine
  <2>2. op \in Cart!Ops
    BY DEF Cart!Ops, OnLine
  <2> QED
    BY <1>1, <1>2, <2>1, <2>2
<1>6. CASE Cart!StartCheckout(r)
  <2>1. "checkout" \in Cart!Ops /\ "checkout" \notin OnLine
    BY DEF Cart!Ops, OnLine
  <2> QED
    BY <1>2, <1>6, <2>1 DEF Cart!StartCheckout
<1>7. CASE Cart!StartStock(r)
  <2>1. PICK p \in Products, n \in StockSets, op \in {"stock", "edit"} :
          Cart!Load(r, op, [Cart!Nothing EXCEPT ![p] = 1], 0, n)
    BY <1>7 DEF Cart!StartStock
  <2>2. op \in Cart!Ops /\ n \in Nat /\ op \notin OnLine
    BY StaffAssumption DEF Cart!Ops, OnLine
  <2> QED
    BY <1>2, <2>1, <2>2
<1> QED
  BY <1>3, <1>4, <1>5, <1>6, <1>7 DEF Starts

\* A request that starts copies the tables and changes none.
LEMMA LoadEffect ==
  ASSUME Cart!TypeOK, NEW r \in Requests, Starts(r)
  PROVE  /\ calls[r] = Cart!Idle
         /\ UNCHANGED <<stock_qty, lines, orders, moved, writes, overlapping>>
         /\ calls'[r] \in Cart!Request /\ calls'[r].pc = "loaded"
         /\ calls'[r].ls = lines /\ calls'[r].later = <<>> /\ calls'[r].st = stock_qty
         /\ calls'[r].op \in OnLine => calls'[r].id \in DOMAIN lines
         /\ calls' \in [Requests -> Cart!Request \cup {Cart!Idle}]
         /\ \A s \in Requests : s # r => calls'[s] = calls[s]
         /\ ~ overlapping => r = Cart!Alone
<1>1. PICK op \in Cart!Ops, want \in [Products -> Nat], id \in Nat, qty \in Nat :
        Cart!Load(r, op, want, id, qty) /\ (op \in OnLine => id \in DOMAIN lines)
  BY LoadIs
<1> DEFINE q == [pc |-> "loaded", op |-> op, want |-> want, id |-> id, qty |-> qty,
                 st |-> stock_qty, ls |-> lines, later |-> <<>>]
<1>2. q \in Cart!Request
  BY DEF Cart!TypeOK, Cart!Request
<1>3. calls' = [calls EXCEPT ![r] = q]
  BY <1>1 DEF Cart!Load
<1>4. /\ calls' \in [Requests -> Cart!Request \cup {Cart!Idle}]
      /\ calls'[r] = q /\ \A s \in Requests : s # r => calls'[s] = calls[s]
  <2> HIDE DEF q
  <2> QED
    BY <1>2, <1>3, CallsChange
<1> QED
  BY <1>1, <1>2, <1>4 DEF Cart!Load

\* The rows after some of them were deleted.
Without(ls, gone) == [i \in DOMAIN ls |-> IF i \in gone THEN Cart!Deleted(ls[i]) ELSE ls[i]]

\* Deleting rows in place.
LEMMA DeletedLines ==
  ASSUME NEW ls \in Seq(Cart!Line), NEW gone
  PROVE  /\ Without(ls, gone) \in Seq(Cart!Line)
         /\ DOMAIN Without(ls, gone) = DOMAIN ls /\ Len(Without(ls, gone)) = Len(ls)
         /\ \A i \in DOMAIN ls :
              /\ Without(ls, gone)[i].prod = ls[i].prod
              /\ Without(ls, gone)[i].state = IF i \in gone THEN "gone" ELSE ls[i].state
<1> DEFINE f == Without(ls, gone)
<1>1. ASSUME NEW l \in Cart!Line
      PROVE  /\ Cart!Deleted(l) \in Cart!Line
             /\ Cart!Deleted(l).prod = l.prod /\ Cart!Deleted(l).state = "gone"
  BY DEF Cart!Line, Cart!Deleted, Cart!States
<1>2. \A i \in DOMAIN ls : ls[i] \in Cart!Line
  BY LineSeq
<1>3. f = [i \in DOMAIN ls |-> IF i \in gone THEN Cart!Deleted(ls[i]) ELSE ls[i]]
  BY DEF Without
<1>4. f \in [DOMAIN ls -> Cart!Line]
  BY <1>1, <1>2, <1>3
<1> HIDE DEF f
<1>5. f \in Seq(Cart!Line) /\ DOMAIN f = DOMAIN ls /\ Len(f) = Len(ls)
  BY <1>4, LinesMade
<1>6. \A i \in DOMAIN ls : /\ f[i].prod = ls[i].prod
                           /\ f[i].state = IF i \in gone THEN "gone" ELSE ls[i].state
  BY <1>1, <1>2, <1>3
<1> QED
  BY <1>5, <1>6 DEF f

\* What adding a product does to the rows: those it must delete are gone, an
\* active one is still active, and only a row of the product is new.
LEMMA PutLines ==
  ASSUME Cart!TypeOK, NEW q \in Cart!Request, DOMAIN q.ls \subseteq DOMAIN lines,
  NEW p \in Products,
         NEW gone, Cart!PutInCart(q, p, gone)
  PROVE  /\ lines' \in Seq(Cart!Line) /\ DOMAIN lines \subseteq DOMAIN lines'
         /\ \A i \in Active(lines') :
              \/ i \in Active(lines) \ gone /\ lines'[i].prod = lines[i].prod
              \/ lines'[i].prod = p
<1> DEFINE mine == {i \in Active(q.ls) : q.ls[i].prod = p}
           kept == Without(lines, gone)
<1>1. lines \in Seq(Cart!Line) /\ q.ls \in Seq(Cart!Line) /\ q.want[p] \in Nat
  BY DEF Cart!TypeOK, Cart!Request
<1>2. /\ kept \in Seq(Cart!Line) /\ DOMAIN kept = DOMAIN lines /\ Len(kept) = Len(lines)
      /\ \A i \in DOMAIN lines : /\ kept[i].prod = lines[i].prod
                                 /\ kept[i].state = IF i \in gone THEN "gone"
                                                    ELSE lines[i].state
  BY <1>1, DeletedLines
<1>3. DOMAIN lines = 1 .. Len(lines) /\ Len(lines) \in Nat
  BY <1>1, LineSeq
<1>4. IF mine # {}
        THEN lines' = [kept EXCEPT ![Min(mine)].qty = q.ls[Min(mine)].qty + q.want[p]]
        ELSE lines' = Append(kept, [prod |-> p, qty |-> q.want[p], state |-> "active"])
  BY CartTerms DEF Cart!PutInCart, Without
<1>5. mine # {} => Min(mine) \in DOMAIN lines /\ q.ls[Min(mine)].qty \in Nat
  <2>1. mine \subseteq DOMAIN q.ls /\ DOMAIN q.ls \subseteq Nat
    BY <1>1, LineSeq DEF Active
  <2>2. mine # {} => Min(mine) \in mine
    <3> HIDE DEF mine
    <3> QED BY <2>1, MinIs
  <2> QED
    BY <1>1, <2>1, <2>2, LineSeq
<1> HIDE DEF kept, mine
<1>6. CASE mine # {}
  <2> DEFINE m == Min(mine)
             n == q.ls[m].qty + q.want[p]
             new == [kept[m] EXCEPT !.qty = n]
  <2>1. m \in 1 .. Len(kept) /\ n \in Nat /\ kept[m] \in Cart!Line
    BY <1>1, <1>2, <1>3, <1>5, <1>6, LineSeq
  <2>2. new \in Cart!Line /\ new.prod = kept[m].prod /\ new.state = kept[m].state
    <3> HIDE DEF n, m
    <3> QED BY <2>1 DEF Cart!Line
  <2>3. lines' = [kept EXCEPT ![m] = new]
    BY <1>4, <1>6
  <2> HIDE DEF new, m, n
  <2>4. /\ lines' \in Seq(Cart!Line) /\ Len(lines') = Len(kept)
        /\ \A j \in 1 .. Len(kept) : lines'[j] = IF j = m THEN new ELSE kept[j]
    BY <1>2, <2>1, <2>2, <2>3, ExceptSeq
  <2>5. DOMAIN lines' = DOMAIN lines
    BY <1>2, <1>3, <2>4, LineSeq
  <2>6. \A i \in DOMAIN lines : /\ lines'[i].prod = lines[i].prod
                                /\ lines'[i].state = IF i \in gone THEN "gone"
                                                     ELSE lines[i].state
    BY <1>2, <1>3, <2>2, <2>4
  <2> QED
    BY <2>4, <2>5, <2>6 DEF Active
<1>7. CASE mine = {}
  <2> DEFINE new == [prod |-> p, qty |-> q.want[p], state |-> "active"]
  <2>1. new \in Cart!Line /\ new.prod = p
    BY <1>1 DEF Cart!Line, Cart!States
  <2>2. lines' = Append(kept, new)
    BY <1>4, <1>7
  <2> HIDE DEF new
  <2>3. /\ lines' \in Seq(Cart!Line) /\ Len(lines') = Len(kept) + 1
        /\ \A j \in 1 .. Len(kept) : lines'[j] = kept[j]
        /\ lines'[Len(kept) + 1] = new
    BY <1>2, <2>1, <2>2, AppendProperties
  <2>4. DOMAIN lines' = 1 .. Len(lines) + 1
    BY <1>2, <2>3, LineSeq
  <2>5. \A i \in DOMAIN lines : /\ lines'[i].prod = lines[i].prod
                                /\ lines'[i].state = IF i \in gone THEN "gone"
                                                     ELSE lines[i].state
    BY <1>2, <1>3, <2>3
  <2>6. \A i \in DOMAIN lines' : i \in DOMAIN lines \/ lines'[i].prod = p
    BY <1>2, <1>3, <2>1, <2>3, <2>4
  <2> QED
    BY <1>3, <2>3, <2>4, <2>5, <2>6 DEF Active
<1> QED
  BY <1>6, <1>7

\* A handler that continues has a request.
LEMMA AtCall ==
  ASSUME Cart!TypeOK, NEW r \in Requests, NEW pc, NEW ops, Cart!At(r, pc, ops), pc # "idle"
  PROVE  /\ calls[r] # Cart!Idle /\ calls[r].pc = pc /\ calls[r].op \in ops
         /\ calls[r] \in Cart!Request /\ calls[r].want \in [Products -> Nat]
         /\ calls[r].id \in Nat /\ calls[r].qty \in Nat /\ calls[r].st \in [Products -> Nat]
         /\ calls[r].ls \in Seq(Cart!Line) /\ calls[r].later \in Seq(Cart!Line)
<1>1. calls[r] # Cart!Idle /\ calls[r].pc = pc /\ calls[r].op \in ops
  BY DEF Cart!At, Cart!Idle
<1> QED
  BY <1>1, CallFields

\* The rows after patch_cart_item: only a restored one becomes active.
LEMMA PatchLines ==
  ASSUME Cart!TypeOK, CopiesOK, NEW r \in Requests, Cart!PatchCartItem(r)
  PROVE  /\ lines' \in Seq(Cart!Line) /\ DOMAIN lines' = DOMAIN lines
         /\ \A i \in DOMAIN lines :
              /\ lines'[i].prod = lines[i].prod
              /\ calls[r].op # "restore" /\ lines'[i].state = "active"
                   => lines[i].state = "active"
<1> DEFINE q == calls[r]
           k == q.id
           l == q.ls[k]
           old == lines[k]
           qty == IF q.op = "quantity" THEN Cart!Flush(old.qty, l.qty, q.qty) ELSE old.qty
           st == CASE q.op = "save" -> Cart!Flush(old.state, l.state, "saved")
                   [] q.op = "restore" -> Cart!Flush(old.state, l.state, "active")
                   [] OTHER -> old.state
           new == [old EXCEPT !.qty = qty, !.state = st]
<1>1. Cart!At(r, "loaded", {"quantity", "save", "restore"})
  BY DEF Cart!PatchCartItem
<1>2. /\ q # Cart!Idle /\ q.op \in {"quantity", "save", "restore"}
      /\ q.ls \in Seq(Cart!Line) /\ q.qty \in Nat
  BY <1>1, AtCall
<1>3. k \in DOMAIN q.ls /\ k \in DOMAIN lines
  BY <1>2 DEF CopiesOK, OnLine
<1>4. lines \in Seq(Cart!Line) /\ k \in 1 .. Len(lines) /\ DOMAIN lines = 1 .. Len(lines)
  BY <1>3, LineSeq DEF Cart!TypeOK
<1>5. /\ old \in Cart!Line /\ old.qty \in Nat /\ old.state \in Cart!States
      /\ l.qty \in Nat /\ l.state \in Cart!States
  BY <1>2, <1>3, <1>4, LineSeq
<1>6. /\ qty \in Nat /\ st \in Cart!States
      /\ q.op # "restore" /\ st = "active" => old.state = "active"
  <2>1. qty \in Nat
    BY <1>2, <1>5 DEF Cart!Flush
  <2>2. CASE q.op = "save"
    <3>1. st = Cart!Flush(old.state, l.state, "saved")
      BY <2>2
    <3> QED BY <1>5, <2>1, <2>2, <3>1 DEF Cart!Flush, Cart!States
  <2>3. CASE q.op = "restore"
    <3>1. st = Cart!Flush(old.state, l.state, "active")
      BY <2>3
    <3> QED BY <1>5, <2>1, <2>3, <3>1 DEF Cart!Flush, Cart!States
  <2>4. CASE q.op = "quantity"
    <3>1. st = old.state
      BY <2>4
    <3> QED BY <1>5, <2>1, <2>4, <3>1
  <2> QED
    BY <1>2, <2>2, <2>3, <2>4
<1>7. lines' = [lines EXCEPT ![k] = new]
  BY DEF Cart!PatchCartItem
<1> HIDE DEF qty, st
<1>8. new \in Cart!Line /\ new.prod = old.prod /\ new.state = st
  BY <1>5, <1>6 DEF Cart!Line
<1> HIDE DEF new
<1>9. /\ lines' \in Seq(Cart!Line) /\ Len(lines') = Len(lines)
      /\ \A j \in 1 .. Len(lines) : lines'[j] = IF j = k THEN new ELSE lines[j]
  BY <1>4, <1>7, <1>8, ExceptSeq
<1>10. DOMAIN lines' = DOMAIN lines
  BY <1>4, <1>9, LineSeq
<1> QED
  BY <1>4, <1>6, <1>8, <1>9, <1>10

\* The rows after remove_cart_item.
LEMMA RemoveLines ==
  ASSUME Cart!TypeOK, CopiesOK, NEW r \in Requests, Cart!RemoveCartItem(r)
  PROVE  /\ lines' \in Seq(Cart!Line) /\ DOMAIN lines' = DOMAIN lines
         /\ \A i \in DOMAIN lines :
              /\ lines'[i].prod = lines[i].prod
              /\ lines'[i].state = "active" => lines[i].state = "active"
<1>1. Cart!At(r, "loaded", {"remove"}) /\ lines' = [lines EXCEPT ![calls[r].id] = Cart!Deleted(@)]
  BY DEF Cart!RemoveCartItem
<1> DEFINE gone == {calls[r].id}
           kept == Without(lines, gone)
<1>2. lines' = kept
  BY <1>1 DEF Without
<1>3. lines \in Seq(Cart!Line)
  BY DEF Cart!TypeOK
<1>4. /\ kept \in Seq(Cart!Line) /\ DOMAIN kept = DOMAIN lines
      /\ \A i \in DOMAIN lines : /\ kept[i].prod = lines[i].prod
                                 /\ kept[i].state = IF i \in gone THEN "gone"
                                                    ELSE lines[i].state
  BY <1>3, DeletedLines
<1> HIDE DEF kept
<1> QED
  BY <1>2, <1>4

\* The rows after the second commit of a checkout.
LEMMA ItemsLines ==
  ASSUME Cart!TypeOK, NEW r \in Requests, Cart!CheckoutItems(r)
  PROVE  /\ lines' \in Seq(Cart!Line) /\ DOMAIN lines' = DOMAIN lines
         /\ \A i \in DOMAIN lines :
              /\ lines'[i].prod = lines[i].prod
              /\ lines'[i].state = IF i \in Active(calls[r].later) THEN "gone"
                                   ELSE lines[i].state
<1> DEFINE gone == Active(calls[r].later)
           kept == Without(lines, gone)
<1>1. lines' = kept
  BY CartTerms DEF Cart!CheckoutItems, Cart!Emptied, Without
<1>2. lines \in Seq(Cart!Line)
  BY DEF Cart!TypeOK
<1>3. /\ kept \in Seq(Cart!Line) /\ DOMAIN kept = DOMAIN lines
      /\ \A i \in DOMAIN lines : /\ kept[i].prod = lines[i].prod
                                 /\ kept[i].state = IF i \in gone THEN "gone"
                                                    ELSE lines[i].state
  BY <1>2, DeletedLines
<1> HIDE DEF kept
<1> QED
  BY <1>1, <1>3

\* Quantities add up to natural numbers.
LEMMA InCartIs ==
  ASSUME NEW ls \in Seq(Cart!Line), NEW p
  PROVE  /\ Cart!InCart(ls, p) = SumOf(QtyOf(ls), LinesOf(ls, p)) /\ Cart!InCart(ls, p) \in Nat
         /\ LinesOf(ls, p) \subseteq DOMAIN ls /\ IsFiniteSet(LinesOf(ls, p))
         /\ \A i \in LinesOf(ls, p) : Cart!InCart(ls, p) >= ls[i].qty
<1> DEFINE f == QtyOf(ls)
           S == LinesOf(ls, p)
<1>1. S \subseteq DOMAIN ls /\ \A i \in S : f[i] = ls[i].qty /\ f[i] \in Nat
  BY LineSeq DEF LinesOf, Active, QtyOf
<1>2. IsFiniteSet(S)
  BY <1>1, LineSeq, FS_Subset
<1> DEFINE P(h) == h = [s \in SUBSET S |->
                          IF s = {} THEN 0 ELSE ls[Pick(s)].qty + h[s \ {Pick(s)}]]
           h1 == CHOOSE h : P(h)
<1>3. Cart!InCart(ls, p) = h1[S]
  BY DEF Cart!InCart, LinesOf, Cart!Active, Active, Cart!MapThenSumSet, Cart!MapThenFoldSet,
         Pick
<1>4. \A h : P(h) <=> Adds(f, h, S)
  <2>1. \A s \in SUBSET S : s # {} => Pick(s) \in DOMAIN ls
    BY <1>1 DEF Pick
  <2>2. ASSUME NEW h, NEW s \in SUBSET S
        PROVE  Body(f, h, s) = IF s = {} THEN 0 ELSE ls[Pick(s)].qty + h[s \ {Pick(s)}]
    BY <2>1 DEF Body, QtyOf
  <2> HIDE DEF S, f
  <2> QED
    BY <2>2 DEF Adds
<1> HIDE DEF S, P, f
<1>5. \E h : P(h)
  <2>1. \E h : Adds(f, h, S)
    BY <1>2, AddsExists
  <2> QED
    BY <1>4, <2>1
<1>6. Adds(f, h1, S)
  BY <1>4, <1>5
<1> HIDE DEF h1
<1>7. SumOf(f, S) = h1[S]
  BY <1>2, <1>6, SumIs
<1>8. SumOf(f, S) \in Nat
  BY <1>1, <1>2, SumGrows
<1>9. ASSUME NEW i \in S PROVE SumOf(f, S) >= ls[i].qty
  <2>1. {i} \subseteq S /\ IsFiniteSet({i}) /\ IsFiniteSet({})
    BY FS_Singleton, FS_EmptySet
  <2>2. SumOf(f, {i}) <= SumOf(f, S) /\ SumOf(f, {i}) \in Nat
    BY <1>1, <1>2, <2>1, SumGrows
  <2>3. SumOf(f, {i}) = f[i] + SumOf(f, {i} \ {i})
    BY <1>1, <2>1, SumPick
  <2>4. SumOf(f, {i} \ {i}) = 0
    <3>1. {i} \ {i} = {} /\ IsFiniteSet({i} \ {i})
      BY <2>1
    <3> QED
      BY <3>1, SumStep
  <2> QED
    BY <1>1, <1>8, <2>2, <2>3, <2>4
<1> QED
  BY <1>1, <1>2, <1>3, <1>7, <1>8, <1>9 DEF S, f

\* What was sold is the sum over the orders, a natural number.
LEMMA SoldIs ==
  ASSUME Cart!TypeOK, NEW p \in Products
  PROVE  Sold(p) = SoldIn(orders, p)
<1> DEFINE f == ItemsOf(orders, p)
           S == DOMAIN orders
<1>1. IsFiniteSet(S)
  BY OrderSeq DEF Cart!TypeOK
<1> DEFINE P(h) == h = [s \in SUBSET S |->
                          IF s = {} THEN 0
                          ELSE orders[Pick(s)].items[p] + h[s \ {Pick(s)}]]
           h1 == CHOOSE h : P(h)
<1>3. Sold(p) = h1[S]
  BY DEF Sold, MapThenSumSet, MapThenFoldSet, Pick
<1>4. \A h : P(h) <=> Adds(f, h, S)
  <2>1. \A s \in SUBSET S : s # {} => Pick(s) \in S
    BY DEF Pick
  <2>2. ASSUME NEW h, NEW s \in SUBSET S
        PROVE  Body(f, h, s) = IF s = {} THEN 0
                               ELSE orders[Pick(s)].items[p] + h[s \ {Pick(s)}]
    BY <2>1 DEF Body, ItemsOf
  <2> HIDE DEF S, f
  <2> QED
    BY <2>2 DEF Adds
<1> HIDE DEF S, P, f
<1>5. \E h : P(h)
  <2>1. \E h : Adds(f, h, S)
    BY <1>1, AddsExists
  <2> QED
    BY <1>4, <2>1
<1>6. Adds(f, h1, S)
  BY <1>4, <1>5
<1> HIDE DEF h1
<1>7. SumOf(f, S) = h1[S]
  BY <1>1, <1>6, SumIs
<1> QED
  BY <1>3, <1>7 DEF SoldIn, S, f

\* Sums of items are natural numbers.
LEMMA SoldInType ==
  ASSUME NEW os \in Seq(Cart!Order), NEW p \in Products
  PROVE  /\ SoldIn(os, p) \in Nat /\ IsFiniteSet(DOMAIN os)
         /\ \A o \in DOMAIN os : ItemsOf(os, p)[o] = os[o].items[p] /\ ItemsOf(os, p)[o] \in Nat
<1> DEFINE f == ItemsOf(os, p)
           S == DOMAIN os
<1>1. IsFiniteSet(S) /\ \A o \in S : f[o] = os[o].items[p] /\ f[o] \in Nat
  BY OrderSeq DEF ItemsOf
<1> HIDE DEF f, S
<1>2. SumOf(f, S) \in Nat
  BY <1>1, SumGrows
<1> QED
  BY <1>1, <1>2 DEF SoldIn, f, S

\* A new order has sold nothing yet.
LEMMA SoldAppend ==
  ASSUME NEW os \in Seq(Cart!Order), NEW new \in Cart!Order, new.items = Cart!Nothing,
         NEW p \in Products
  PROVE  SoldIn(Append(os, new), p) = SoldIn(os, p)
<1> DEFINE ot == Append(os, new)
           n == Len(os) + 1
           f == ItemsOf(os, p)
           g == ItemsOf(ot, p)
           S == DOMAIN os
           T == DOMAIN ot
<1>1. /\ ot \in Seq(Cart!Order) /\ Len(ot) = n /\ ot[n] = new
      /\ \A i \in 1 .. Len(os) : ot[i] = os[i]
  BY AppendProperties
<1> HIDE DEF ot
<1>2. S = 1 .. Len(os) /\ T = 1 .. n /\ Len(os) \in Nat
  BY <1>1, OrderSeq
<1>3. /\ IsFiniteSet(S) /\ \A o \in S : f[o] = os[o].items[p] /\ f[o] \in Nat
      /\ IsFiniteSet(T) /\ \A o \in T : g[o] = ot[o].items[p] /\ g[o] \in Nat
  BY <1>1, SoldInType
<1>4. T = S \cup {n} /\ n \notin S /\ \A o \in S : f[o] = g[o]
  BY <1>1, <1>2, <1>3
<1>5. g[n] = 0
  BY <1>1, <1>3, <1>4 DEF Cart!Nothing
<1>6. SoldIn(os, p) \in Nat
  BY SoldInType
<1>7. IsFiniteSet(S) /\ IsFiniteSet(T) /\ n \in T /\ T \ {n} = S
  BY <1>3, <1>4
<1>8. \A o \in T : g[o] \in Int
  BY <1>3
<1>9. \A o \in S : f[o] = g[o]
  BY <1>4
<1> HIDE DEF f, g, S, T, n
<1>10. SumOf(g, T) = g[n] + SumOf(g, T \ {n})
  BY <1>7, <1>8, SumPick
<1>11. SumOf(f, S) = SumOf(g, S)
  BY <1>7, <1>9, SumAgree
<1>12. SoldIn(ot, p) = SumOf(g, T) /\ SoldIn(os, p) = SumOf(f, S)
  BY DEF SoldIn, f, g, S, T
<1>13. SoldIn(ot, p) = g[n] + SoldIn(os, p)
  BY <1>7, <1>10, <1>11, <1>12
<1> QED
  BY <1>5, <1>6, <1>13 DEF ot

\* Completing an order sells its items.
LEMMA SoldComplete ==
  ASSUME NEW os \in Seq(Cart!Order), NEW o \in DOMAIN os, os[o].items = Cart!Nothing,
         NEW ot \in Seq(Cart!Order), DOMAIN ot = DOMAIN os,
         \A i \in DOMAIN os : i # o => ot[i] = os[i], NEW p \in Products
  PROVE  SoldIn(ot, p) = SoldIn(os, p) + ot[o].items[p]
<1> DEFINE f == ItemsOf(os, p)
           g == ItemsOf(ot, p)
           S == DOMAIN os
<1>1. /\ IsFiniteSet(S) /\ \A i \in S : f[i] = os[i].items[p] /\ f[i] \in Nat
      /\ \A i \in S : g[i] = ot[i].items[p] /\ g[i] \in Nat
  BY SoldInType
<1>2. f[o] = 0 /\ \A i \in S \ {o} : f[i] = g[i]
  BY <1>1 DEF Cart!Nothing
<1>3. SoldIn(os, p) \in Nat /\ o \in S
  BY SoldInType
<1>4. g[o] = ot[o].items[p] /\ g[o] \in Nat
  BY <1>1
<1>7. IsFiniteSet(S)
  BY <1>1
<1>10. o \in S
  BY <1>3
<1>11. g[o] \in Int
  BY <1>4
<1>8. \A i \in S : f[i] \in Int
  BY <1>1
<1>9. \A i \in S \ {o} : f[i] = g[i]
  BY <1>2
<1> HIDE DEF f, g, S
<1>5. SumOf(g, S) = SumOf(f, S) + (g[o] - f[o])
  BY <1>7, <1>8, <1>9, <1>10, <1>11, SumChanges, Z3
<1>6. SumOf(g, S) = SoldIn(ot, p) /\ SumOf(f, S) = SoldIn(os, p)
  BY DEF SoldIn, f, g, S
<1> QED
  BY <1>2, <1>3, <1>4, <1>5, <1>6

\* The order goes to the shop of an active line.
LEMMA HeadShopIs ==
  ASSUME NEW ls \in Seq(Cart!Line), Active(ls) # {}
  PROVE  \E i \in Active(ls) : Cart!HeadShop(ls) = Shop[ls[i].prod]
<1>1. Active(ls) \subseteq Nat
  BY LineSeq DEF Active
<1>2. Min(Active(ls)) \in Active(ls)
  BY <1>1, MinIs
<1> QED
  BY <1>2, CartTerms DEF Cart!HeadShop

\* The first commit of a checkout.
LEMMA OrderPlaced ==
  ASSUME Cart!TypeOK, NEW r \in Requests, Cart!CheckoutOrder(r)
  PROVE  /\ calls[r] # Cart!Idle /\ calls[r].op = "checkout" /\ calls[r].pc = "loaded"
         /\ Active(calls[r].ls) # {}
         /\ \E new \in Cart!Order : /\ new.items = Cart!Nothing /\ new.done = FALSE
                                    /\ new.shop = Cart!HeadShop(calls[r].ls)
                                    /\ orders' = Append(orders, new)
         /\ calls'[r] \in Cart!Request /\ calls'[r].op = "checkout" /\ calls'[r].pc = "header"
         /\ calls'[r].ls = calls[r].ls /\ calls'[r].later = lines /\ calls'[r].st = stock_qty
         /\ calls'[r].id = Len(orders) + 1
         /\ calls' \in [Requests -> Cart!Request \cup {Cart!Idle}]
         /\ \A s \in Requests : s # r => calls'[s] = calls[s]
         /\ UNCHANGED <<stock_qty, lines, moved, writes, overlapping>>
<1> DEFINE q == calls[r]
           new == [shop |-> Cart!HeadShop(q.ls), items |-> Cart!Nothing, done |-> FALSE]
           next == [q EXCEPT !.pc = "header", !.st = stock_qty, !.later = lines,
                             !.id = Len(orders) + 1]
<1>1. /\ q # Cart!Idle /\ q \in Cart!Request /\ q.ls \in Seq(Cart!Line) /\ q.pc = "loaded"
      /\ q.op = "checkout"
  BY AtCall DEF Cart!CheckoutOrder
<1>2. Active(q.ls) # {}
  BY CartTerms DEF Cart!CheckoutOrder
<1>3. new \in Cart!Order
  <2> DEFINE h == Cart!HeadShop(q.ls)
             Shops == {Shop[p] : p \in Products}
  <2>1. PICK i \in Active(q.ls) : h = Shop[q.ls[i].prod]
    BY <1>1, <1>2, HeadShopIs
  <2>2. q.ls[i].prod \in Products
    BY <1>1, LineSeq DEF Active
  <2>3. h \in Shops
    BY <2>1, <2>2
  <2>4. Cart!Nothing \in [Products -> Nat]
    BY DEF Cart!Nothing
  <2> HIDE DEF h, Shops
  <2>5. [shop |-> h, items |-> Cart!Nothing, done |-> FALSE]
          \in [shop : Shops, items : [Products -> Nat], done : BOOLEAN]
    BY <2>3, <2>4
  <2> QED
    BY <2>5 DEF h, Shops, Cart!Order
<1>4. next \in Cart!Request /\ next.op = "checkout" /\ next.pc = "header" /\ next.ls = q.ls
      /\ next.later = lines /\ next.st = stock_qty /\ next.id = Len(orders) + 1
  <2>1. Len(orders) + 1 \in Nat
    BY OrderSeq DEF Cart!TypeOK
  <2> QED
    BY <1>1, <2>1 DEF Cart!TypeOK, Cart!Request
<1>5. calls' = [calls EXCEPT ![r] = next] /\ orders' = Append(orders, new)
  BY DEF Cart!CheckoutOrder
<1>6. new.items = Cart!Nothing /\ new.done = FALSE /\ new.shop = Cart!HeadShop(q.ls)
  OBVIOUS
<1> HIDE DEF new, next
<1>7. /\ calls' \in [Requests -> Cart!Request \cup {Cart!Idle}]
      /\ calls'[r] = next /\ \A s \in Requests : s # r => calls'[s] = calls[s]
  BY <1>4, <1>5, CallsChange
<1>8. UNCHANGED <<stock_qty, lines, moved, writes, overlapping>>
  BY DEF Cart!CheckoutOrder
<1> QED
  BY <1>1, <1>2, <1>3, <1>4, <1>5, <1>6, <1>7, <1>8

\* The second commit of a checkout.
LEMMA OrderDone ==
  ASSUME Cart!TypeOK, OrdersOK, NEW r \in Requests, Cart!CheckoutItems(r)
  PROVE  /\ calls[r] # Cart!Idle /\ calls[r].op = "checkout" /\ calls[r].pc = "header"
         /\ calls[r].ls \in Seq(Cart!Line) /\ calls[r].st \in [Products -> Nat]
         /\ calls[r].id \in DOMAIN orders /\ orders' \in Seq(Cart!Order)
         /\ DOMAIN orders' = DOMAIN orders
         /\ \A o \in DOMAIN orders : o # calls[r].id => orders'[o] = orders[o]
         /\ orders'[calls[r].id].items = [p \in Products |-> Cart!InCart(calls[r].ls, p)]
         /\ orders'[calls[r].id].done = TRUE
         /\ \A p \in Products :
              stock_qty'[p] = Cart!Flush(stock_qty[p], calls[r].st[p],
                                         Remaining(calls[r].st[p], Cart!InCart(calls[r].ls, p)))
         /\ stock_qty' \in [Products -> Nat]
         /\ calls'[r] = Cart!Idle /\ calls' \in [Requests -> Cart!Request \cup {Cart!Idle}]
         /\ \A s \in Requests : s # r => calls'[s] = calls[s]
         /\ UNCHANGED <<moved, writes, overlapping>>
<1> DEFINE q == calls[r]
           sold == [p \in Products |-> Cart!InCart(q.ls, p)]
           new == [orders[q.id] EXCEPT !.items = sold, !.done = TRUE]
<1>1. /\ q # Cart!Idle /\ q.ls \in Seq(Cart!Line) /\ q.pc = "header" /\ q.op = "checkout"
      /\ q.st \in [Products -> Nat]
  BY AtCall DEF Cart!CheckoutItems
<1>2. q.id \in DOMAIN orders /\ orders \in Seq(Cart!Order)
  BY <1>1 DEF OrdersOK, Cart!TypeOK
<1>3. sold \in [Products -> Nat]
  BY <1>1, InCartIs
<1>4. q.id \in 1 .. Len(orders) /\ orders[q.id] \in Cart!Order
  BY <1>2, OrderSeq
<1>5. orders' = [orders EXCEPT ![q.id] = new]
  BY DEF Cart!CheckoutItems
<1>6. new \in Cart!Order /\ new.items = sold /\ new.done = TRUE
  <2> HIDE DEF sold, q
  <2> QED BY <1>3, <1>4 DEF Cart!Order
<1>7. /\ orders' \in Seq(Cart!Order) /\ Len(orders') = Len(orders)
      /\ \A j \in 1 .. Len(orders) : orders'[j] = IF j = q.id THEN new ELSE orders[j]
  <2> HIDE DEF new
  <2> QED BY <1>2, <1>4, <1>5, <1>6, ExceptSeq
<1>8. DOMAIN orders' = DOMAIN orders /\ DOMAIN orders = 1 .. Len(orders)
  BY <1>2, <1>7, OrderSeq
<1>9. stock_qty' = [p \in Products |->
                      Cart!Flush(stock_qty[p], q.st[p], Remaining(q.st[p], Cart!InCart(q.ls, p)))]
  BY CartTerms DEF Cart!CheckoutItems, Cart!Taken
<1>10. ASSUME NEW p \in Products
       PROVE  Cart!Flush(stock_qty[p], q.st[p], Remaining(q.st[p], Cart!InCart(q.ls, p))) \in Nat
  <2>1. q.st[p] \in Nat /\ Cart!InCart(q.ls, p) \in Nat /\ stock_qty[p] \in Nat
    BY <1>1, InCartIs DEF Cart!TypeOK
  <2> QED
    BY <2>1 DEF Cart!Flush, Remaining
<1>11. stock_qty' \in [Products -> Nat]
  BY <1>9, <1>10
<1>12. /\ calls'[r] = Cart!Idle /\ calls' \in [Requests -> Cart!Request \cup {Cart!Idle}]
       /\ \A s \in Requests : s # r => calls'[s] = calls[s]
  BY CallsChange DEF Cart!CheckoutItems, Cart!Done
<1>13. UNCHANGED <<moved, writes, overlapping>>
  BY DEF Cart!CheckoutItems
<1> QED
  BY <1>1, <1>2, <1>4, <1>6, <1>7, <1>8, <1>9, <1>11, <1>12, <1>13

\* A stock update of the staff.
LEMMA StockWritten ==
  ASSUME Cart!TypeOK, NEW r \in Requests, Cart!UpdateStock(r)
  PROVE  /\ calls[r] # Cart!Idle /\ calls[r].op \in {"stock", "edit"}
         /\ calls[r].st \in [Products -> Nat] /\ calls[r].qty \in Nat
         /\ stock_qty' \in [Products -> Nat] /\ moved' \in [Products -> Int]
         /\ writes' = writes + 1 /\ writes' \in 0 .. MaxWrites
         /\ \E p \in Products :
              /\ stock_qty' = [stock_qty EXCEPT ![p] = Cart!Flush(@, calls[r].st[p], calls[r].qty)]
              /\ moved' = IF calls[r].op = "stock"
                            THEN [moved EXCEPT ![p] = @ + (calls[r].qty - calls[r].st[p])]
                            ELSE moved
         /\ calls'[r] = Cart!Idle /\ calls' \in [Requests -> Cart!Request \cup {Cart!Idle}]
         /\ \A s \in Requests : s # r => calls'[s] = calls[s]
         /\ UNCHANGED <<lines, orders, overlapping>>
<1>1. /\ calls[r] # Cart!Idle /\ calls[r].op \in {"stock", "edit"}
      /\ calls[r].st \in [Products -> Nat] /\ calls[r].qty \in Nat
  BY AtCall DEF Cart!UpdateStock
<1>2. writes' = writes + 1 /\ writes' \in 0 .. MaxWrites
  BY StaffAssumption DEF Cart!UpdateStock, Cart!TypeOK
<1>3. PICK p \in Products :
        /\ stock_qty' = [stock_qty EXCEPT ![p] = Cart!Flush(@, calls[r].st[p], calls[r].qty)]
        /\ moved' = IF calls[r].op = "stock"
                      THEN [moved EXCEPT ![p] = @ + (calls[r].qty - calls[r].st[p])]
                      ELSE moved
  BY DEF Cart!UpdateStock, Cart!Delta
<1>4. Cart!Flush(stock_qty[p], calls[r].st[p], calls[r].qty) \in Nat
  BY <1>1 DEF Cart!TypeOK, Cart!Flush
<1>5. stock_qty' \in [Products -> Nat]
  BY <1>3, <1>4 DEF Cart!TypeOK
<1>6. moved[p] + (calls[r].qty - calls[r].st[p]) \in Int
  BY <1>1 DEF Cart!TypeOK
<1>7. moved' \in [Products -> Int]
  BY <1>3, <1>6 DEF Cart!TypeOK
<1>8. /\ calls'[r] = Cart!Idle /\ calls' \in [Requests -> Cart!Request \cup {Cart!Idle}]
      /\ \A s \in Requests : s # r => calls'[s] = calls[s]
  BY CallsChange DEF Cart!UpdateStock, Cart!Done
<1>9. UNCHANGED <<lines, orders, overlapping>>
  BY DEF Cart!UpdateStock
<1> QED
  BY <1>1, <1>2, <1>3, <1>5, <1>7, <1>8, <1>9

\* A line put in the cart by add_to_cart.
LEMMA AddDone ==
  ASSUME Cart!TypeOK, CopiesOK, NEW r \in Requests, Cart!AddToCart(r)
  PROVE  /\ calls[r] # Cart!Idle /\ calls[r].op = "add"
         /\ lines' \in Seq(Cart!Line) /\ DOMAIN lines \subseteq DOMAIN lines'
         /\ \E p \in Products : \A i \in Active(lines') :
              \/ /\ i \in Active(lines) \ Cart!Foreign(calls[r], p)
                 /\ lines'[i].prod = lines[i].prod
              \/ lines'[i].prod = p
         /\ calls'[r] = Cart!Idle /\ calls' \in [Requests -> Cart!Request \cup {Cart!Idle}]
         /\ \A s \in Requests : s # r => calls'[s] = calls[s]
         /\ UNCHANGED <<stock_qty, orders, moved, writes, overlapping>>
<1>1. calls[r] # Cart!Idle /\ calls[r].op = "add" /\ calls[r] \in Cart!Request
  BY AtCall DEF Cart!AddToCart
<1>2. DOMAIN calls[r].ls \subseteq DOMAIN lines
  BY <1>1 DEF CopiesOK
<1>3. PICK p \in Products : Cart!PutInCart(calls[r], p, Cart!Foreign(calls[r], p))
  BY DEF Cart!AddToCart
<1>4. /\ lines' \in Seq(Cart!Line) /\ DOMAIN lines \subseteq DOMAIN lines'
      /\ \A i \in Active(lines') :
           \/ /\ i \in Active(lines) \ Cart!Foreign(calls[r], p)
              /\ lines'[i].prod = lines[i].prod
           \/ lines'[i].prod = p
  BY <1>1, <1>2, <1>3, PutLines
<1>5. /\ calls'[r] = Cart!Idle /\ calls' \in [Requests -> Cart!Request \cup {Cart!Idle}]
      /\ \A s \in Requests : s # r => calls'[s] = calls[s]
  BY CallsChange DEF Cart!AddToCart, Cart!Done
<1>6. UNCHANGED <<stock_qty, orders, moved, writes, overlapping>>
  BY DEF Cart!AddToCart
<1> QED
  BY <1>1, <1>4, <1>5, <1>6

\* A line put in the cart by a turn of reorder.
LEMMA ReorderDone ==
  ASSUME Cart!TypeOK, CopiesOK, NEW r \in Requests, Cart!ReorderItem(r)
  PROVE  /\ calls[r] # Cart!Idle /\ calls[r].op = "reorder" /\ calls[r].pc = "loaded"
         /\ lines' \in Seq(Cart!Line) /\ DOMAIN lines \subseteq DOMAIN lines'
         /\ calls'[r] \in Cart!Request /\ calls'[r].op = "reorder" /\ calls'[r].pc = "loaded"
         /\ calls'[r].ls = lines' /\ calls'[r].st = stock_qty
         /\ calls'[r].later = calls[r].later
         /\ calls' \in [Requests -> Cart!Request \cup {Cart!Idle}]
         /\ \A s \in Requests : s # r => calls'[s] = calls[s]
         /\ UNCHANGED <<stock_qty, orders, moved, writes, overlapping>>
<1> DEFINE q == calls[r]
<1>1. /\ q # Cart!Idle /\ q.op = "reorder" /\ q.pc = "loaded" /\ q \in Cart!Request
  BY AtCall DEF Cart!ReorderItem
<1>2. DOMAIN q.ls \subseteq DOMAIN lines
  BY <1>1 DEF CopiesOK
<1>3. PICK p \in Products :
        /\ Cart!PutInCart(q, p, {})
        /\ calls' = [calls EXCEPT ![r] = [q EXCEPT !.want[p] = 0, !.st = stock_qty,
                                                   !.ls = lines']]
  BY DEF Cart!ReorderItem
<1>4. lines' \in Seq(Cart!Line) /\ DOMAIN lines \subseteq DOMAIN lines'
  BY <1>1, <1>2, <1>3, PutLines
<1> DEFINE next == [q EXCEPT !.want[p] = 0, !.st = stock_qty, !.ls = lines']
<1>5. /\ next \in Cart!Request /\ next.op = "reorder" /\ next.pc = "loaded"
      /\ next.ls = lines' /\ next.st = stock_qty /\ next.later = q.later
  <2>1. [q.want EXCEPT ![p] = 0] \in [Products -> Nat]
    BY <1>1 DEF Cart!Request
  <2> QED
    BY <1>1, <1>4, <2>1 DEF Cart!Request, Cart!TypeOK
<1>6. calls' = [calls EXCEPT ![r] = next]
  BY <1>3
<1> HIDE DEF next
<1>7. /\ calls' \in [Requests -> Cart!Request \cup {Cart!Idle}]
      /\ calls'[r] = next /\ \A s \in Requests : s # r => calls'[s] = calls[s]
  BY <1>5, <1>6, CallsChange
<1>8. UNCHANGED <<stock_qty, orders, moved, writes, overlapping>>
  BY DEF Cart!ReorderItem
<1> QED
  BY <1>1, <1>4, <1>5, <1>7, <1>8

\* The handlers of one line.
LEMMA LineDone ==
  ASSUME Cart!TypeOK, CopiesOK, NEW r \in Requests, Cart!PatchCartItem(r) \/ Cart!RemoveCartItem(r)
  PROVE  /\ calls[r] # Cart!Idle /\ lines' \in Seq(Cart!Line) /\ DOMAIN lines' = DOMAIN lines
         /\ calls[r].op # "restore" =>
              \A i \in Active(lines') : i \in Active(lines) /\ lines'[i].prod = lines[i].prod
         /\ calls'[r] = Cart!Idle /\ calls' \in [Requests -> Cart!Request \cup {Cart!Idle}]
         /\ \A s \in Requests : s # r => calls'[s] = calls[s]
         /\ UNCHANGED <<stock_qty, orders, moved, writes, overlapping>>
<1>1. calls[r] # Cart!Idle
  BY AtCall DEF Cart!PatchCartItem, Cart!RemoveCartItem
<1>2. /\ lines' \in Seq(Cart!Line) /\ DOMAIN lines' = DOMAIN lines
      /\ calls[r].op # "restore" =>
           \A i \in DOMAIN lines : /\ lines'[i].prod = lines[i].prod
                                   /\ lines'[i].state = "active" => lines[i].state = "active"
  BY PatchLines, RemoveLines
<1>3. /\ calls'[r] = Cart!Idle /\ calls' \in [Requests -> Cart!Request \cup {Cart!Idle}]
      /\ \A s \in Requests : s # r => calls'[s] = calls[s]
  BY CallsChange DEF Cart!PatchCartItem, Cart!RemoveCartItem, Cart!Done
<1>4. UNCHANGED <<stock_qty, orders, moved, writes, overlapping>>
  BY DEF Cart!PatchCartItem, Cart!RemoveCartItem
<1> QED
  BY <1>1, <1>2, <1>3, <1>4 DEF Active

\* A request that ends without a commit.
LEMMA ReturnDone ==
  ASSUME Cart!TypeOK, NEW r \in Requests, Cart!Return(r)
  PROVE  /\ calls[r] # Cart!Idle
         /\ calls'[r] = Cart!Idle /\ calls' \in [Requests -> Cart!Request \cup {Cart!Idle}]
         /\ \A s \in Requests : s # r => calls'[s] = calls[s]
         /\ UNCHANGED <<stock_qty, lines, orders, moved, writes, overlapping>>
  BY CallsChange DEF Cart!Return, Cart!Done

\* The orders after the first commit of a checkout.
LEMMA OrdersLonger ==
  ASSUME Cart!TypeOK, NEW new \in Cart!Order, orders' = Append(orders, new)
  PROVE  /\ orders' \in Seq(Cart!Order) /\ DOMAIN orders' = DOMAIN orders \cup {Len(orders) + 1}
         /\ Len(orders) + 1 \notin DOMAIN orders
         /\ orders'[Len(orders) + 1] = new
         /\ \A o \in DOMAIN orders : orders'[o] = orders[o]
<1>1. orders \in Seq(Cart!Order)
  BY DEF Cart!TypeOK
<1>2. Len(orders) \in Nat /\ DOMAIN orders = 1 .. Len(orders)
  BY <1>1, OrderSeq
<1>3. /\ orders' \in Seq(Cart!Order) /\ Len(orders') = Len(orders) + 1
      /\ orders'[Len(orders) + 1] = new
      /\ \A i \in 1 .. Len(orders) : orders'[i] = orders[i]
  BY <1>1, AppendProperties
<1>4. DOMAIN orders' = 1 .. Len(orders) + 1
  BY <1>3, OrderSeq
<1> QED
  BY <1>2, <1>3, <1>4

\* The tables and requests keep their types.
LEMMA CartTypeStep ==
  ASSUME Cart!TypeOK, CopiesOK, OrdersOK, [Cart!Next]_Cart!vars
  PROVE  Cart!TypeOK' /\ DOMAIN lines \subseteq DOMAIN lines'
<1>1. CASE UNCHANGED Cart!vars
  BY <1>1 DEF Cart!vars, Cart!TypeOK
<1>2. ASSUME NEW r \in Requests, Starts(r)
      PROVE  Cart!TypeOK' /\ DOMAIN lines \subseteq DOMAIN lines'
  BY <1>2, LoadEffect DEF Cart!TypeOK
<1>3. ASSUME NEW r \in Requests, Cart!AddToCart(r)
      PROVE  Cart!TypeOK' /\ DOMAIN lines \subseteq DOMAIN lines'
  BY <1>3, AddDone DEF Cart!TypeOK
<1>4. ASSUME NEW r \in Requests, Cart!ReorderItem(r)
      PROVE  Cart!TypeOK' /\ DOMAIN lines \subseteq DOMAIN lines'
  BY <1>4, ReorderDone DEF Cart!TypeOK
<1>5. ASSUME NEW r \in Requests, Cart!PatchCartItem(r) \/ Cart!RemoveCartItem(r)
      PROVE  Cart!TypeOK' /\ DOMAIN lines \subseteq DOMAIN lines'
  BY <1>5, LineDone DEF Cart!TypeOK
<1>6. ASSUME NEW r \in Requests, Cart!CheckoutOrder(r)
      PROVE  Cart!TypeOK' /\ DOMAIN lines \subseteq DOMAIN lines'
  <2>1. orders' \in Seq(Cart!Order)
    BY <1>6, OrderPlaced, OrdersLonger
  <2> QED
    BY <1>6, <2>1, OrderPlaced DEF Cart!TypeOK
<1>7. ASSUME NEW r \in Requests, Cart!CheckoutItems(r)
      PROVE  Cart!TypeOK' /\ DOMAIN lines \subseteq DOMAIN lines'
  BY <1>7, OrderDone, ItemsLines DEF Cart!TypeOK
<1>8. ASSUME NEW r \in Requests, Cart!UpdateStock(r)
      PROVE  Cart!TypeOK' /\ DOMAIN lines \subseteq DOMAIN lines'
  BY <1>8, StockWritten DEF Cart!TypeOK
<1>9. ASSUME NEW r \in Requests, Cart!Return(r)
      PROVE  Cart!TypeOK' /\ DOMAIN lines \subseteq DOMAIN lines'
  BY <1>9, ReturnDone DEF Cart!TypeOK
<1> QED
  BY <1>1, <1>2, <1>3, <1>4, <1>5, <1>6, <1>7, <1>8, <1>9 DEF Cart!Next, Starts

\* A copy that was of rows still is, as rows are never taken out.
LEMMA CopiesKept ==
  ASSUME Cart!TypeOK, CopiesOK, DOMAIN lines \subseteq DOMAIN lines', NEW r \in Requests,
         \A s \in Requests : s # r => calls'[s] = calls[s],
         calls'[r] # Cart!Idle =>
           /\ DOMAIN calls'[r].ls \subseteq DOMAIN lines'
           /\ DOMAIN calls'[r].later \subseteq DOMAIN lines'
           /\ calls'[r].op \in OnLine => calls'[r].id \in DOMAIN calls'[r].ls
  PROVE  CopiesOK'
<1> SUFFICES ASSUME NEW s \in Requests, calls'[s] # Cart!Idle
             PROVE  /\ DOMAIN calls'[s].ls \subseteq DOMAIN lines'
                    /\ DOMAIN calls'[s].later \subseteq DOMAIN lines'
                    /\ calls'[s].op \in OnLine => calls'[s].id \in DOMAIN calls'[s].ls
  BY DEF CopiesOK, Cart!Idle
<1>1. CASE s = r
  BY <1>1
<1>2. CASE s # r
  <2>1. calls'[s] = calls[s] /\ calls[s] # Cart!Idle
    BY <1>2
  <2> QED
    BY <2>1 DEF CopiesOK
<1> QED
  BY <1>1, <1>2

\* The copies stay copies of rows that are still there.
LEMMA CopiesStep ==
  ASSUME Cart!TypeOK, CopiesOK, OrdersOK, [Cart!Next]_Cart!vars
  PROVE  CopiesOK'
<1>0. DOMAIN lines \subseteq DOMAIN lines'
  BY CartTypeStep
<1>1. CASE UNCHANGED Cart!vars
  BY <1>1 DEF Cart!vars, CopiesOK
<1>2. ASSUME NEW r \in Requests, Starts(r) PROVE CopiesOK'
  <2>1. DOMAIN calls'[r].later = {}
    BY <1>2, LoadEffect
  <2> QED
    BY <1>0, <1>2, <2>1, LoadEffect, CopiesKept
<1>3. ASSUME NEW r \in Requests, Cart!AddToCart(r) PROVE CopiesOK'
  BY <1>0, <1>3, AddDone, CopiesKept
<1>4. ASSUME NEW r \in Requests, Cart!ReorderItem(r) PROVE CopiesOK'
  <2>1. DOMAIN calls'[r].later \subseteq DOMAIN lines'
    BY <1>0, <1>4, ReorderDone DEF CopiesOK
  <2>2. calls'[r].op \notin OnLine
    BY <1>4, ReorderDone DEF OnLine
  <2> QED
    BY <1>0, <1>4, <2>1, <2>2, ReorderDone, CopiesKept
<1>5. ASSUME NEW r \in Requests, Cart!PatchCartItem(r) \/ Cart!RemoveCartItem(r) PROVE CopiesOK'
  BY <1>0, <1>5, LineDone, CopiesKept
<1>6. ASSUME NEW r \in Requests, Cart!CheckoutOrder(r) PROVE CopiesOK'
  <2>1. /\ DOMAIN calls'[r].ls \subseteq DOMAIN lines'
        /\ DOMAIN calls'[r].later \subseteq DOMAIN lines'
    BY <1>0, <1>6, OrderPlaced DEF CopiesOK
  <2>2. calls'[r].op \notin OnLine
    BY <1>6, OrderPlaced DEF OnLine
  <2> QED
    BY <1>0, <1>6, <2>1, <2>2, OrderPlaced, CopiesKept
<1>7. ASSUME NEW r \in Requests, Cart!CheckoutItems(r) PROVE CopiesOK'
  BY <1>0, <1>7, OrderDone, CopiesKept
<1>8. ASSUME NEW r \in Requests, Cart!UpdateStock(r) PROVE CopiesOK'
  BY <1>0, <1>8, StockWritten, CopiesKept
<1>9. ASSUME NEW r \in Requests, Cart!Return(r) PROVE CopiesOK'
  BY <1>0, <1>9, ReturnDone, CopiesKept
<1> QED
  BY <1>1, <1>2, <1>3, <1>4, <1>5, <1>6, <1>7, <1>8, <1>9 DEF Cart!Next, Starts

\* A step that leaves the orders alone, of a request that is not between the
\* commits of a checkout afterwards.
LEMMA OrdersKept ==
  ASSUME Cart!TypeOK, OrdersOK, orders' = orders, NEW r \in Requests,
         \A s \in Requests : s # r => calls'[s] = calls[s], calls'[r].pc # "header"
  PROVE  OrdersOK'
<1>1. \A o \in DOMAIN orders' : ~ orders'[o].done => orders'[o].items = Cart!Nothing
  BY DEF OrdersOK
<1>2. ASSUME NEW s \in Requests, calls'[s].pc = "header"
      PROVE  s # r /\ calls'[s] = calls[s] /\ calls[s].pc = "header"
  BY <1>2
<1>3. ASSUME NEW s \in Requests, calls'[s].pc = "header"
      PROVE  /\ calls'[s].op = "checkout" /\ calls'[s].id \in DOMAIN orders'
             /\ ~ orders'[calls'[s].id].done /\ Active(calls'[s].ls) # {}
             /\ orders'[calls'[s].id].shop = Cart!HeadShop(calls'[s].ls)
  <2>1. s # r /\ calls'[s] = calls[s] /\ calls[s].pc = "header"
    BY <1>2, <1>3
  <2>2. /\ calls[s].op = "checkout" /\ calls[s].id \in DOMAIN orders
        /\ ~ orders[calls[s].id].done /\ Active(calls[s].ls) # {}
        /\ orders[calls[s].id].shop = Cart!HeadShop(calls[s].ls)
    BY <2>1 DEF OrdersOK
  <2> QED
    BY <2>1, <2>2
<1>4. ASSUME NEW s \in Requests, NEW t \in Requests, s # t, calls'[s].pc = "header",
             calls'[t].pc = "header"
      PROVE  calls'[s].id # calls'[t].id
  BY <1>2, <1>4 DEF OrdersOK
<1> QED
  BY <1>1, <1>3, <1>4 DEF OrdersOK, Cart!HeadShop, Active, Cart!Nothing

\* The first commit of a checkout makes an order of its own.
LEMMA OrdersPlacedOK ==
  ASSUME Cart!TypeOK, OrdersOK, NEW r \in Requests, Cart!CheckoutOrder(r)
  PROVE  OrdersOK'
<1> DEFINE n == Len(orders) + 1
<1>1. PICK new \in Cart!Order : /\ new.items = Cart!Nothing /\ new.done = FALSE
                                /\ new.shop = Cart!HeadShop(calls[r].ls)
                                /\ orders' = Append(orders, new)
  BY OrderPlaced
<1>2. /\ DOMAIN orders' = DOMAIN orders \cup {n} /\ n \notin DOMAIN orders
      /\ orders'[n] = new /\ \A o \in DOMAIN orders : orders'[o] = orders[o]
  BY <1>1, OrdersLonger
<1>3. /\ Active(calls[r].ls) # {} /\ calls'[r].op = "checkout" /\ calls'[r].pc = "header"
      /\ calls'[r].ls = calls[r].ls /\ calls'[r].id = n
      /\ \A s \in Requests : s # r => calls'[s] = calls[s]
  BY OrderPlaced
<1> HIDE DEF n
<1>4. \A o \in DOMAIN orders' : ~ orders'[o].done => orders'[o].items = Cart!Nothing
  BY <1>1, <1>2 DEF OrdersOK
<1>5. ASSUME NEW s \in Requests, calls'[s].pc = "header"
      PROVE  /\ calls'[s].op = "checkout" /\ calls'[s].id \in DOMAIN orders'
             /\ ~ orders'[calls'[s].id].done /\ Active(calls'[s].ls) # {}
             /\ orders'[calls'[s].id].shop = Cart!HeadShop(calls'[s].ls)
             /\ s # r => calls'[s].id \in DOMAIN orders
  <2>1. CASE s = r
    BY <1>1, <1>2, <1>3, <2>1
  <2>2. CASE s # r
    <3>1. calls'[s] = calls[s] /\ calls[s].pc = "header"
      BY <1>3, <1>5, <2>2
    <3>2. /\ calls[s].op = "checkout" /\ calls[s].id \in DOMAIN orders
          /\ ~ orders[calls[s].id].done /\ Active(calls[s].ls) # {}
          /\ orders[calls[s].id].shop = Cart!HeadShop(calls[s].ls)
      BY <3>1 DEF OrdersOK
    <3> QED
      BY <1>2, <3>1, <3>2
  <2> QED
    BY <2>1, <2>2
<1>6. ASSUME NEW s \in Requests, NEW t \in Requests, s # t, calls'[s].pc = "header",
             calls'[t].pc = "header"
      PROVE  calls'[s].id # calls'[t].id
  <2>1. CASE s = r
    BY <1>2, <1>3, <1>5, <1>6, <2>1
  <2>2. CASE t = r
    BY <1>2, <1>3, <1>5, <1>6, <2>2
  <2>3. CASE s # r /\ t # r
    BY <1>3, <1>6, <2>3 DEF OrdersOK
  <2> QED
    BY <2>1, <2>2, <2>3
<1> QED
  BY <1>4, <1>5, <1>6 DEF OrdersOK, Cart!HeadShop, Active, Cart!Nothing

\* The second commit completes the order of its own request.
LEMMA OrdersDoneOK ==
  ASSUME Cart!TypeOK, OrdersOK, NEW r \in Requests, Cart!CheckoutItems(r)
  PROVE  OrdersOK'
<1>1. /\ calls[r].pc = "header" /\ DOMAIN orders' = DOMAIN orders
      /\ \A o \in DOMAIN orders : o # calls[r].id => orders'[o] = orders[o]
      /\ orders'[calls[r].id].done = TRUE /\ calls'[r] = Cart!Idle
      /\ \A s \in Requests : s # r => calls'[s] = calls[s]
  BY OrderDone
<1>2. \A o \in DOMAIN orders' : ~ orders'[o].done => orders'[o].items = Cart!Nothing
  BY <1>1 DEF OrdersOK
<1>3. ASSUME NEW s \in Requests, calls'[s].pc = "header"
      PROVE  s # r /\ calls'[s] = calls[s] /\ calls[s].pc = "header"
  BY <1>1, <1>3 DEF Cart!Idle
<1>4. ASSUME NEW s \in Requests, calls'[s].pc = "header"
      PROVE  /\ calls'[s].op = "checkout" /\ calls'[s].id \in DOMAIN orders'
             /\ ~ orders'[calls'[s].id].done /\ Active(calls'[s].ls) # {}
             /\ orders'[calls'[s].id].shop = Cart!HeadShop(calls'[s].ls)
  <2>1. s # r /\ calls'[s] = calls[s] /\ calls[s].pc = "header"
    BY <1>3, <1>4
  <2>2. /\ calls[s].op = "checkout" /\ calls[s].id \in DOMAIN orders
        /\ ~ orders[calls[s].id].done /\ Active(calls[s].ls) # {}
        /\ orders[calls[s].id].shop = Cart!HeadShop(calls[s].ls)
        /\ calls[s].id # calls[r].id
    BY <1>1, <2>1 DEF OrdersOK
  <2> QED
    BY <1>1, <2>1, <2>2
<1>5. ASSUME NEW s \in Requests, NEW t \in Requests, s # t, calls'[s].pc = "header",
             calls'[t].pc = "header"
      PROVE  calls'[s].id # calls'[t].id
  BY <1>3, <1>5 DEF OrdersOK
<1> QED
  BY <1>2, <1>4, <1>5 DEF OrdersOK, Cart!HeadShop, Active, Cart!Nothing

\* The orders stay in step with the checkouts.
LEMMA OrdersStep ==
  ASSUME Cart!TypeOK, CopiesOK, OrdersOK, [Cart!Next]_Cart!vars
  PROVE  OrdersOK'
<1>1. CASE UNCHANGED Cart!vars
  BY <1>1 DEF Cart!vars, OrdersOK, Cart!HeadShop, Active, Cart!Nothing
<1>2. ASSUME NEW r \in Requests, Starts(r) PROVE OrdersOK'
  BY <1>2, LoadEffect, OrdersKept
<1>3. ASSUME NEW r \in Requests, Cart!AddToCart(r) PROVE OrdersOK'
  BY <1>3, AddDone, OrdersKept DEF Cart!Idle
<1>4. ASSUME NEW r \in Requests, Cart!ReorderItem(r) PROVE OrdersOK'
  BY <1>4, ReorderDone, OrdersKept
<1>5. ASSUME NEW r \in Requests, Cart!PatchCartItem(r) \/ Cart!RemoveCartItem(r) PROVE OrdersOK'
  BY <1>5, LineDone, OrdersKept DEF Cart!Idle
<1>6. ASSUME NEW r \in Requests, Cart!CheckoutOrder(r) PROVE OrdersOK'
  BY <1>6, OrdersPlacedOK
<1>7. ASSUME NEW r \in Requests, Cart!CheckoutItems(r) PROVE OrdersOK'
  BY <1>7, OrdersDoneOK
<1>8. ASSUME NEW r \in Requests, Cart!UpdateStock(r) PROVE OrdersOK'
  BY <1>8, StockWritten, OrdersKept DEF Cart!Idle
<1>9. ASSUME NEW r \in Requests, Cart!Return(r) PROVE OrdersOK'
  BY <1>9, ReturnDone, OrdersKept DEF Cart!Idle
<1> QED
  BY <1>1, <1>2, <1>3, <1>4, <1>5, <1>6, <1>7, <1>8, <1>9 DEF Cart!Next, Starts

\* A shelf explained by some orders is explained by more.
LEMMA ExplainedMore ==
  ASSUME NEW have \in Nat, NEW init \in Nat, NEW sold \in Nat, NEW more \in Nat,
         have >= Remaining(init, sold)
  PROVE  have >= Remaining(init, sold + more)
  BY DEF Remaining

\* What is left of a shelf that was explained is explained by the order too.
LEMMA ExplainedTaken ==
  ASSUME NEW have \in Nat, NEW init \in Nat, NEW sold \in Nat, NEW more \in Nat,
         have >= Remaining(init, sold)
  PROVE  Remaining(have, more) >= Remaining(init, sold + more)
  BY DEF Remaining

\* Orders that sold the same leave a shelf explained.
LEMMA ShelfKept ==
  ASSUME Cart!TypeOK, ShelfExplained, writes' = writes, stock_qty' = stock_qty,
         \A p \in Products : SoldIn(orders', p) = SoldIn(orders, p), NEW r \in Requests,
         \A s \in Requests : s # r => calls'[s] = calls[s],
         \/ calls'[r] = Cart!Idle
         \/ calls'[r].st = stock_qty
         \/ calls[r] # Cart!Idle /\ calls'[r].st = calls[r].st
  PROVE  ShelfExplained'
<1> SUFFICES ASSUME writes = 0
             PROVE  /\ Explained(stock_qty)'
                    /\ \A s \in Requests : calls'[s] # Cart!Idle => Explained(calls[s].st)'
  BY DEF ShelfExplained, Cart!Idle
<1>1. Explained(stock_qty) /\ \A s \in Requests : calls[s] # Cart!Idle => Explained(calls[s].st)
  BY DEF ShelfExplained
<1>2. Explained(stock_qty)'
  BY <1>1 DEF Explained
<1>3. ASSUME NEW s \in Requests, calls'[s] # Cart!Idle PROVE Explained(calls[s].st)'
  <2>1. calls'[s].st = stock_qty \/ (calls[s] # Cart!Idle /\ calls'[s].st = calls[s].st)
    BY <1>3
  <2> QED
    BY <1>1, <2>1 DEF Explained
<1> QED
  BY <1>2, <1>3

\* A completed order explains what it took from the shelf.
LEMMA ShelfSold ==
  ASSUME Cart!TypeOK, OrdersOK, ShelfExplained, NEW r \in Requests, Cart!CheckoutItems(r)
  PROVE  ShelfExplained'
<1> DEFINE q == calls[r]
           took(p) == Cart!InCart(q.ls, p)
<1>1. /\ q # Cart!Idle /\ q.ls \in Seq(Cart!Line) /\ q.st \in [Products -> Nat]
      /\ q.id \in DOMAIN orders
      /\ ~ orders[q.id].done /\ orders \in Seq(Cart!Order)
  BY OrderDone DEF OrdersOK, Cart!TypeOK
<1>2. /\ orders' \in Seq(Cart!Order) /\ DOMAIN orders' = DOMAIN orders
      /\ \A o \in DOMAIN orders : o # q.id => orders'[o] = orders[o]
      /\ orders'[q.id].items = [p \in Products |-> took(p)]
      /\ \A p \in Products :
           stock_qty'[p] = Cart!Flush(stock_qty[p], q.st[p], Remaining(q.st[p], took(p)))
      /\ calls'[r] = Cart!Idle /\ writes' = writes
      /\ \A s \in Requests : s # r => calls'[s] = calls[s]
  BY OrderDone
<1>3. orders[q.id].items = Cart!Nothing
  BY <1>1 DEF OrdersOK
<1>4. \A p \in Products : took(p) \in Nat
  BY <1>1, InCartIs
<1>5. \A p \in Products : /\ SoldIn(orders', p) = SoldIn(orders, p) + took(p)
                          /\ SoldIn(orders, p) \in Nat
  <2> SUFFICES ASSUME NEW p \in Products
               PROVE  /\ SoldIn(orders', p) = SoldIn(orders, p) + took(p)
                      /\ SoldIn(orders, p) \in Nat
    OBVIOUS
  <2>1. orders'[q.id].items[p] = took(p)
    BY <1>2
  <2> HIDE DEF q, took
  <2>2. SoldIn(orders', p) = SoldIn(orders, p) + orders'[q.id].items[p]
    BY <1>1, <1>2, <1>3, SoldComplete
  <2> QED
    BY <1>1, <2>1, <2>2, SoldInType
<1> SUFFICES ASSUME writes = 0
             PROVE  /\ Explained(stock_qty)'
                    /\ \A s \in Requests : calls'[s] # Cart!Idle => Explained(calls[s].st)'
  BY <1>2 DEF ShelfExplained, Cart!Idle
<1>6. Explained(stock_qty) /\ \A s \in Requests : calls[s] # Cart!Idle => Explained(calls[s].st)
  BY DEF ShelfExplained
<1>7. ASSUME NEW p \in Products
      PROVE  stock_qty'[p] >= Remaining(InitQty[p], SoldIn(orders', p))
  <2>1. /\ stock_qty[p] >= Remaining(InitQty[p], SoldIn(orders, p))
        /\ q.st[p] >= Remaining(InitQty[p], SoldIn(orders, p))
    BY <1>1, <1>6 DEF Explained
  <2>2. /\ stock_qty[p] \in Nat /\ q.st[p] \in Nat /\ InitQty[p] \in Nat /\ took(p) \in Nat
        /\ SoldIn(orders, p) \in Nat
    BY <1>1, <1>4, <1>5, ShelfAssumption DEF Cart!TypeOK
  <2>3. /\ stock_qty[p] >= Remaining(InitQty[p], SoldIn(orders, p) + took(p))
        /\ Remaining(q.st[p], took(p)) >= Remaining(InitQty[p], SoldIn(orders, p) + took(p))
    <3> HIDE DEF took, q
    <3> QED BY <2>1, <2>2, ExplainedMore, ExplainedTaken
  <2>4. \/ stock_qty'[p] = stock_qty[p]
        \/ stock_qty'[p] = Remaining(q.st[p], took(p))
    BY <1>2 DEF Cart!Flush
  <2> HIDE DEF took, q
  <2> QED
    BY <1>5, <2>3, <2>4
<1>8. ASSUME NEW s \in Requests, calls'[s] # Cart!Idle, NEW p \in Products
      PROVE  calls'[s].st[p] >= Remaining(InitQty[p], SoldIn(orders', p))
  <2>1. calls'[s] = calls[s] /\ calls[s] # Cart!Idle
    BY <1>2, <1>8
  <2>2. calls[s].st[p] >= Remaining(InitQty[p], SoldIn(orders, p))
    BY <1>6, <2>1 DEF Explained
  <2>3. /\ calls[s].st[p] \in Nat /\ InitQty[p] \in Nat /\ took(p) \in Nat
        /\ SoldIn(orders, p) \in Nat
    BY <1>4, <1>5, <2>1, CallFields, ShelfAssumption
  <2>4. calls[s].st[p] >= Remaining(InitQty[p], SoldIn(orders, p) + took(p))
    <3> HIDE DEF took, q
    <3> QED BY <2>2, <2>3, ExplainedMore
  <2> HIDE DEF took, q
  <2> QED
    BY <1>5, <2>1, <2>4
<1> QED
  BY <1>7, <1>8 DEF Explained

\* The shelf and its copies stay explained by the orders.
LEMMA ShelfStep ==
  ASSUME Cart!TypeOK, CopiesOK, OrdersOK, ShelfExplained, [Cart!Next]_Cart!vars
  PROVE  ShelfExplained'
<1>1. CASE UNCHANGED Cart!vars
  BY <1>1 DEF Cart!vars, ShelfExplained, Explained, SoldIn, ItemsOf
<1>0. ASSUME orders' = orders
      PROVE  \A p \in Products : SoldIn(orders', p) = SoldIn(orders, p)
  BY <1>0
<1>2. ASSUME NEW r \in Requests, Starts(r) PROVE ShelfExplained'
  BY <1>0, <1>2, LoadEffect, ShelfKept
<1>3. ASSUME NEW r \in Requests, Cart!AddToCart(r) PROVE ShelfExplained'
  BY <1>0, <1>3, AddDone, ShelfKept
<1>4. ASSUME NEW r \in Requests, Cart!ReorderItem(r) PROVE ShelfExplained'
  BY <1>0, <1>4, ReorderDone, ShelfKept
<1>5. ASSUME NEW r \in Requests, Cart!PatchCartItem(r) \/ Cart!RemoveCartItem(r)
      PROVE  ShelfExplained'
  BY <1>0, <1>5, LineDone, ShelfKept
<1>6. ASSUME NEW r \in Requests, Cart!CheckoutOrder(r) PROVE ShelfExplained'
  <2>1. PICK new \in Cart!Order : new.items = Cart!Nothing /\ orders' = Append(orders, new)
    BY <1>6, OrderPlaced
  <2>2. orders \in Seq(Cart!Order)
    BY DEF Cart!TypeOK
  <2>3. \A p \in Products : SoldIn(orders', p) = SoldIn(orders, p)
    BY <2>1, <2>2, SoldAppend
  <2> QED
    BY <1>6, <2>3, OrderPlaced, ShelfKept
<1>7. ASSUME NEW r \in Requests, Cart!CheckoutItems(r) PROVE ShelfExplained'
  BY <1>7, ShelfSold
<1>8. ASSUME NEW r \in Requests, Cart!UpdateStock(r) PROVE ShelfExplained'
  <2>1. writes' = writes + 1 /\ writes \in Nat
    BY <1>8, StockWritten, StaffAssumption DEF Cart!TypeOK
  <2>2. writes' # 0
    BY <2>1
  <2> QED
    BY <2>2 DEF ShelfExplained
<1>9. ASSUME NEW r \in Requests, Cart!Return(r) PROVE ShelfExplained'
  BY <1>0, <1>9, ReturnDone, ShelfKept
<1> QED
  BY <1>1, <1>2, <1>3, <1>4, <1>5, <1>6, <1>7, <1>8, <1>9 DEF Cart!Next, Starts

\* Where requests do not overlap, a step of the one slot keeps its copy current.
LEMMA CurrentKept ==
  ASSUME CartCurrent, overlapping' = overlapping, NEW r \in Requests,
         ~ overlapping => r = Cart!Alone,
         \A s \in Requests : s # r => calls'[s] = calls[s],
         calls'[r] # Cart!Idle => calls'[r].ls = lines' /\ calls'[r].st = stock_qty',
         calls'[r].pc = "header" => calls'[r].later = lines'
  PROVE  CartCurrent'
<1> SUFFICES ASSUME ~ overlapping
             PROVE  /\ \A s \in Requests : s # Cart!Alone => calls'[s] = Cart!Idle
                    /\ \A s \in Requests :
                         calls'[s] # Cart!Idle => calls'[s].ls = lines' /\ calls'[s].st = stock_qty'
                    /\ \A s \in Requests : calls'[s].pc = "header" => calls'[s].later = lines'
  BY DEF CartCurrent, Cart!Idle, Cart!Alone
<1>1. \A s \in Requests : s # r => calls'[s] = Cart!Idle
  BY DEF CartCurrent
<1> QED
  BY <1>1 DEF Cart!Idle

\* A request in flight is the one slot's.
LEMMA OneCart ==
  ASSUME CartCurrent, NEW r \in Requests, calls[r] # Cart!Idle
  PROVE  /\ ~ overlapping => r = Cart!Alone /\ calls[r].ls = lines /\ calls[r].st = stock_qty
         /\ ~ overlapping /\ calls[r].pc = "header" => calls[r].later = lines
  BY DEF CartCurrent

\* One request at a time, its copies are the tables.
LEMMA CurrentStep ==
  ASSUME Cart!TypeOK, CopiesOK, OrdersOK, CartCurrent, [Cart!Next]_Cart!vars
  PROVE  CartCurrent'
<1>1. CASE UNCHANGED Cart!vars
  BY <1>1 DEF Cart!vars, CartCurrent
<1>2. ASSUME NEW r \in Requests, Starts(r) PROVE CartCurrent'
  BY <1>2, LoadEffect, CurrentKept
<1>3. ASSUME NEW r \in Requests, Cart!AddToCart(r) PROVE CartCurrent'
  BY <1>3, AddDone, OneCart, CurrentKept DEF Cart!Idle
<1>4. ASSUME NEW r \in Requests, Cart!ReorderItem(r) PROVE CartCurrent'
  BY <1>4, ReorderDone, OneCart, CurrentKept
<1>5. ASSUME NEW r \in Requests, Cart!PatchCartItem(r) \/ Cart!RemoveCartItem(r) PROVE CartCurrent'
  BY <1>5, LineDone, OneCart, CurrentKept DEF Cart!Idle
<1>6. ASSUME NEW r \in Requests, Cart!CheckoutOrder(r) PROVE CartCurrent'
  <2>1. CASE overlapping
    BY <1>6, <2>1, OrderPlaced DEF CartCurrent
  <2>2. CASE ~ overlapping
    BY <1>6, <2>2, OrderPlaced, OneCart, CurrentKept
  <2> QED
    BY <2>1, <2>2
<1>7. ASSUME NEW r \in Requests, Cart!CheckoutItems(r) PROVE CartCurrent'
  <2>1. /\ calls[r] # Cart!Idle /\ calls'[r] = Cart!Idle /\ overlapping' = overlapping
        /\ \A s \in Requests : s # r => calls'[s] = calls[s]
    BY <1>7, OrderDone
  <2>2. ~ overlapping => r = Cart!Alone
    BY <2>1, OneCart
  <2> QED
    BY <2>1, <2>2, CurrentKept DEF Cart!Idle
<1>8. ASSUME NEW r \in Requests, Cart!UpdateStock(r) PROVE CartCurrent'
  BY <1>8, StockWritten, OneCart, CurrentKept DEF Cart!Idle
<1>9. ASSUME NEW r \in Requests, Cart!Return(r) PROVE CartCurrent'
  BY <1>9, ReturnDone, OneCart, CurrentKept DEF Cart!Idle
<1> QED
  BY <1>1, <1>2, <1>3, <1>4, <1>5, <1>6, <1>7, <1>8, <1>9 DEF Cart!Next, Starts

\* The first state is as the invariants say.
LEMMA CartInit ==
  ASSUME Cart!Init
  PROVE  CartInv /\ CartCurrent
<1>1. \A r \in Requests : calls[r] = Cart!Idle /\ calls[r].pc = "idle"
  BY DEF Cart!Init, Cart!Idle
<1>2. lines \in Seq(Cart!Line) /\ orders = <<>> /\ orders \in Seq(Cart!Order) /\ DOMAIN orders = {}
  BY DEF Cart!Init
<1>3. Cart!TypeOK
  BY <1>2, ShelfAssumption, StaffAssumption DEF Cart!Init, Cart!TypeOK, Cart!Nothing
<1>4. CopiesOK /\ OrdersOK /\ CartCurrent
  BY <1>1, <1>2 DEF CopiesOK, OrdersOK, CartCurrent
<1>5. ASSUME NEW p \in Products
      PROVE  stock_qty[p] >= Remaining(InitQty[p], SoldIn(orders, p))
  <2>1. SoldIn(orders, p) \in Nat
    BY <1>2, SoldInType
  <2>2. stock_qty[p] = InitQty[p] /\ InitQty[p] \in Nat
    BY ShelfAssumption DEF Cart!Init
  <2> QED
    BY <2>1, <2>2 DEF Remaining
<1>6. ShelfExplained
  BY <1>1, <1>5 DEF ShelfExplained, Explained
<1> QED
  BY <1>3, <1>4, <1>6 DEF CartInv

\* The invariants are inductive.
LEMMA CartStep ==
  ASSUME CartInv, [Cart!Next]_Cart!vars
  PROVE  CartInv'
  BY CartTypeStep, CopiesStep, OrdersStep, ShelfStep DEF CartInv

-----------------------------------------------------------------------------
\* One request at a time, only reorder and a restored line bring a second shop
\* into the cart: add_to_cart deletes the lines of other shops.
LEMMA SecondShopStep ==
  ASSUME CartInv, CartCurrent, [Cart!Next]_Cart!vars, ~ overlapping, SingleShop(lines),
         ~ Running({"reorder", "restore"})
  PROVE  SingleShop(lines')
<1>1. CASE lines' = lines
  BY <1>1 DEF SingleShop, Active
<1>0. Cart!TypeOK /\ CopiesOK /\ OrdersOK
  BY DEF CartInv
<1>2. ASSUME NEW r \in Requests, calls[r] # Cart!Idle
      PROVE  calls[r].op # "reorder" /\ calls[r].op # "restore"
  <2>1. r \in DOMAIN calls /\ calls[r].pc # "idle"
    BY <1>0, <1>2, CallFields DEF Cart!TypeOK
  <2> QED
    BY <2>1 DEF Running
<1>3. ASSUME NEW r \in Requests, Cart!AddToCart(r) PROVE SingleShop(lines')
  <2>1. calls[r].ls = lines
    BY <1>0, <1>3, AddDone, OneCart
  <2>2. PICK p \in Products : \A i \in Active(lines') :
          \/ i \in Active(lines) \ Cart!Foreign(calls[r], p) /\ lines'[i].prod = lines[i].prod
          \/ lines'[i].prod = p
    BY <1>0, <1>3, AddDone
  <2>3. \A i \in Active(lines') : Shop[lines'[i].prod] = Shop[p]
    BY <2>1, <2>2, CartTerms DEF Cart!Foreign
  <2> QED
    BY <2>3 DEF SingleShop
<1>4. ASSUME NEW r \in Requests, Cart!ReorderItem(r) PROVE FALSE
  BY <1>0, <1>2, <1>4, ReorderDone
<1>5. ASSUME NEW r \in Requests, Cart!PatchCartItem(r) \/ Cart!RemoveCartItem(r)
      PROVE  SingleShop(lines')
  <2>1. \A i \in Active(lines') : i \in Active(lines) /\ lines'[i].prod = lines[i].prod
    BY <1>0, <1>2, <1>5, LineDone
  <2> QED
    BY <2>1 DEF SingleShop
<1>6. ASSUME NEW r \in Requests, Cart!CheckoutItems(r) PROVE SingleShop(lines')
  <2>1. \A i \in Active(lines') : i \in Active(lines) /\ lines'[i].prod = lines[i].prod
    BY <1>0, <1>6, ItemsLines DEF Active
  <2> QED
    BY <2>1 DEF SingleShop
<1>7. ASSUME NEW r \in Requests,
             Starts(r) \/ Cart!CheckoutOrder(r) \/ Cart!UpdateStock(r) \/ Cart!Return(r)
      PROVE  lines' = lines
  BY <1>0, <1>7, LoadEffect, OrderPlaced, StockWritten, ReturnDone
<1>8. CASE UNCHANGED Cart!vars
  BY <1>1, <1>8 DEF Cart!vars
<1> QED
  BY <1>1, <1>3, <1>4, <1>5, <1>6, <1>7, <1>8 DEF Cart!Next, Starts

\* One request at a time, the order completed from a cart of one shop is that
\* shop's: it was made for the shop of an active line of the same cart.
LEMMA OrderFitsStep ==
  ASSUME CartInv, CartCurrent, [Cart!Next]_Cart!vars, ~ overlapping, SingleShop(lines),
         NEW o \in DOMAIN orders, NEW p \in Products, ~ orders[o].done,
         orders'[o].items[p] > 0
  PROVE  Shop[p] = orders[o].shop
<1>0. Cart!TypeOK /\ CopiesOK /\ OrdersOK
  BY DEF CartInv
<1>1. ASSUME orders'[o] = orders[o] PROVE FALSE
  <2>1. orders'[o].items[p] = 0
    BY <1>0, <1>1 DEF OrdersOK, Cart!Nothing
  <2> QED
    BY <2>1
<1>2. PICK r \in Requests : Cart!CheckoutItems(r)
  <2>1. ASSUME NEW r \in Requests, Cart!CheckoutOrder(r) PROVE orders'[o] = orders[o]
    BY <1>0, <2>1, OrderPlaced, OrdersLonger
  <2>2. ASSUME NEW r \in Requests,
               \/ Starts(r) \/ Cart!AddToCart(r) \/ Cart!ReorderItem(r) \/ Cart!PatchCartItem(r)
               \/ Cart!RemoveCartItem(r) \/ Cart!UpdateStock(r) \/ Cart!Return(r)
        PROVE  orders' = orders
    BY <1>0, <2>2, LoadEffect, AddDone, ReorderDone, LineDone, StockWritten, ReturnDone
  <2>3. ~ UNCHANGED Cart!vars
    BY <1>1 DEF Cart!vars
  <2> QED
    BY <1>1, <2>1, <2>2, <2>3 DEF Cart!Next, Starts
<1> DEFINE ls == calls[r].ls
<1>3. /\ calls[r] # Cart!Idle /\ calls[r].pc = "header" /\ ls \in Seq(Cart!Line)
      /\ \A k \in DOMAIN orders : k # calls[r].id => orders'[k] = orders[k]
      /\ orders'[calls[r].id].items = [x \in Products |-> Cart!InCart(ls, x)]
  BY <1>0, <1>2, OrderDone
<1>4. o = calls[r].id
  BY <1>1, <1>3
<1>5. Active(ls) # {} /\ orders[o].shop = Cart!HeadShop(ls)
  BY <1>0, <1>3, <1>4 DEF OrdersOK
<1>6. Cart!InCart(ls, p) > 0
  BY <1>3, <1>4
<1>7. ls = lines
  BY <1>3, OneCart
<1> HIDE DEF ls
<1>8. LinesOf(ls, p) # {}
  <2>1. Cart!InCart(ls, p) = SumOf(QtyOf(ls), LinesOf(ls, p))
    BY <1>3, InCartIs
  <2>2. SumOf(QtyOf(ls), {}) = 0
    BY FS_EmptySet, SumStep
  <2> QED
    BY <1>6, <2>1, <2>2
<1>9. PICK i \in Active(ls) : ls[i].prod = p
  BY <1>8 DEF LinesOf
<1>10. PICK j \in Active(ls) : Cart!HeadShop(ls) = Shop[ls[j].prod]
  BY <1>3, <1>5, HeadShopIs
<1>11. Shop[ls[i].prod] = Shop[ls[j].prod]
  BY <1>7 DEF SingleShop
<1> QED
  BY <1>5, <1>9, <1>10, <1>11

\* One request at a time, the stock changes by what was sold and booked.
LEMMA StockStep ==
  ASSUME CartInv, CartCurrent, [Cart!Next]_Cart!vars, ~ overlapping, ~ Running({"edit"}),
         NEW p \in Products
  PROVE  stock_qty'[p] = Remaining(stock_qty[p], SoldIn(orders', p) - SoldIn(orders, p))
                           + moved'[p] - moved[p]
<1>0. Cart!TypeOK /\ CopiesOK /\ OrdersOK /\ orders \in Seq(Cart!Order)
  BY DEF CartInv, Cart!TypeOK
<1>1. stock_qty[p] \in Nat /\ moved[p] \in Int /\ SoldIn(orders, p) \in Nat
  BY <1>0, SoldInType DEF Cart!TypeOK
<1>2. ASSUME SoldIn(orders', p) = SoldIn(orders, p), stock_qty' = stock_qty, moved' = moved
      PROVE  stock_qty'[p] = Remaining(stock_qty[p], SoldIn(orders', p) - SoldIn(orders, p))
                               + moved'[p] - moved[p]
  <2>1. Remaining(stock_qty[p], 0) = stock_qty[p]
    BY <1>1 DEF Remaining
  <2>2. SoldIn(orders', p) - SoldIn(orders, p) = 0
    BY <1>1, <1>2
  <2> QED
    BY <1>1, <1>2, <2>1, <2>2
<1>3. CASE UNCHANGED Cart!vars
  BY <1>2, <1>3 DEF Cart!vars
<1>4. ASSUME NEW r \in Requests,
             \/ Starts(r) \/ Cart!AddToCart(r) \/ Cart!ReorderItem(r) \/ Cart!PatchCartItem(r)
             \/ Cart!RemoveCartItem(r) \/ Cart!Return(r)
      PROVE  orders' = orders /\ stock_qty' = stock_qty /\ moved' = moved
  BY <1>0, <1>4, LoadEffect, AddDone, ReorderDone, LineDone, ReturnDone
<1>5. ASSUME NEW r \in Requests, Cart!CheckoutOrder(r)
      PROVE  SoldIn(orders', p) = SoldIn(orders, p) /\ stock_qty' = stock_qty /\ moved' = moved
  <2>1. PICK new \in Cart!Order : new.items = Cart!Nothing /\ orders' = Append(orders, new)
    BY <1>0, <1>5, OrderPlaced
  <2>2. SoldIn(orders', p) = SoldIn(orders, p)
    BY <1>0, <2>1, SoldAppend
  <2> QED
    BY <1>0, <1>5, <2>2, OrderPlaced
<1>6. ASSUME NEW r \in Requests, Cart!CheckoutItems(r)
      PROVE  stock_qty'[p] = Remaining(stock_qty[p], SoldIn(orders', p) - SoldIn(orders, p))
                               + moved'[p] - moved[p]
  <2> DEFINE q == calls[r]
             took == Cart!InCart(q.ls, p)
  <2>1. /\ q # Cart!Idle /\ q.ls \in Seq(Cart!Line)
        /\ q.id \in DOMAIN orders /\ orders' \in Seq(Cart!Order)
        /\ DOMAIN orders' = DOMAIN orders /\ q.pc = "header"
        /\ \A o \in DOMAIN orders : o # q.id => orders'[o] = orders[o]
        /\ orders'[q.id].items = [x \in Products |-> Cart!InCart(q.ls, x)]
        /\ stock_qty'[p] = Cart!Flush(stock_qty[p], q.st[p], Remaining(q.st[p], took))
        /\ moved' = moved
    BY <1>0, <1>6, OrderDone
  <2>2. orders[q.id].items = Cart!Nothing
    BY <1>0, <2>1 DEF OrdersOK
  <2>3. orders'[q.id].items[p] = took /\ took \in Nat
    BY <2>1, InCartIs
  <2>4. q.st[p] = stock_qty[p]
    BY <2>1, OneCart
  <2> HIDE DEF q, took
  <2>5. SoldIn(orders', p) = SoldIn(orders, p) + orders'[q.id].items[p]
    BY <1>0, <2>1, <2>2, SoldComplete
  <2>6. SoldIn(orders', p) - SoldIn(orders, p) = took
    BY <1>1, <2>3, <2>5
  <2>7. stock_qty'[p] = Remaining(stock_qty[p], took)
    BY <2>1, <2>4 DEF Cart!Flush
  <2>8. Remaining(stock_qty[p], took) \in Int
    BY <1>1, <2>3 DEF Remaining
  <2> QED
    BY <1>1, <2>1, <2>6, <2>7, <2>8
<1>7. ASSUME NEW r \in Requests, Cart!UpdateStock(r)
      PROVE  stock_qty'[p] = Remaining(stock_qty[p], SoldIn(orders', p) - SoldIn(orders, p))
                               + moved'[p] - moved[p]
  <2> DEFINE q == calls[r]
  <2>1. q # Cart!Idle /\ q.op \in {"stock", "edit"} /\ q.qty \in Nat /\ orders' = orders
    BY <1>0, <1>7, StockWritten
  <2>2. q.op = "stock"
    <3>1. r \in DOMAIN calls /\ calls[r].pc # "idle"
      BY <1>0, <2>1, CallFields DEF Cart!TypeOK
    <3> QED
      BY <2>1, <3>1 DEF Running
  <2>3. PICK x \in Products :
          /\ stock_qty' = [stock_qty EXCEPT ![x] = Cart!Flush(@, q.st[x], q.qty)]
          /\ moved' = [moved EXCEPT ![x] = @ + (q.qty - q.st[x])]
    BY <1>0, <1>7, <2>2, StockWritten
  <2>4. q.st = stock_qty
    BY <2>1, OneCart
  <2>5. Remaining(stock_qty[p], SoldIn(orders', p) - SoldIn(orders, p)) = stock_qty[p]
    <3>1. Remaining(stock_qty[p], 0) = stock_qty[p]
      BY <1>1 DEF Remaining
    <3>2. SoldIn(orders', p) - SoldIn(orders, p) = 0
      BY <1>1, <2>1
    <3> QED
      BY <3>1, <3>2
  <2> HIDE DEF q
  <2>6. CASE x = p
    <3>1. stock_qty'[p] = q.qty /\ moved'[p] = moved[p] + (q.qty - stock_qty[p])
      BY <1>0, <2>3, <2>4, <2>6 DEF Cart!TypeOK, Cart!Flush
    <3> QED
      BY <1>1, <2>1, <2>5, <3>1
  <2>7. CASE x # p
    <3>1. stock_qty'[p] = stock_qty[p] /\ moved'[p] = moved[p]
      BY <1>0, <2>3, <2>7 DEF Cart!TypeOK
    <3> QED
      BY <1>1, <2>5, <3>1
  <2> QED
    BY <2>6, <2>7
<1> QED
  BY <1>2, <1>3, <1>4, <1>5, <1>6, <1>7 DEF Cart!Next, Starts

\* One request at a time, the rows a checkout deletes are on its order.
LEMMA NothingLostStep ==
  ASSUME CartInv, CartCurrent, [Cart!Next]_Cart!vars, ~ overlapping,
         NEW o \in DOMAIN orders, ~ orders[o].done, orders'[o].done,
         NEW i \in DOMAIN lines, lines[i].state # "gone", lines'[i].state = "gone"
  PROVE  orders'[o].items[lines[i].prod] >= lines[i].qty
<1>0. Cart!TypeOK /\ CopiesOK /\ OrdersOK
  BY DEF CartInv
<1>1. orders'[o] # orders[o]
  OBVIOUS
<1>2. PICK r \in Requests : Cart!CheckoutItems(r)
  <2>1. ASSUME NEW r \in Requests, Cart!CheckoutOrder(r) PROVE orders'[o] = orders[o]
    BY <1>0, <2>1, OrderPlaced, OrdersLonger
  <2>2. ASSUME NEW r \in Requests,
               \/ Starts(r) \/ Cart!AddToCart(r) \/ Cart!ReorderItem(r) \/ Cart!PatchCartItem(r)
               \/ Cart!RemoveCartItem(r) \/ Cart!UpdateStock(r) \/ Cart!Return(r)
        PROVE  orders' = orders
    BY <1>0, <2>2, LoadEffect, AddDone, ReorderDone, LineDone, StockWritten, ReturnDone
  <2>3. ~ UNCHANGED Cart!vars
    BY <1>1 DEF Cart!vars
  <2> QED
    BY <1>1, <2>1, <2>2, <2>3 DEF Cart!Next, Starts
<1> DEFINE ls == calls[r].ls
           p == lines[i].prod
<1>3. /\ calls[r] # Cart!Idle /\ calls[r].pc = "header" /\ ls \in Seq(Cart!Line)
      /\ \A k \in DOMAIN orders : k # calls[r].id => orders'[k] = orders[k]
      /\ orders'[calls[r].id].items = [x \in Products |-> Cart!InCart(ls, x)]
  BY <1>0, <1>2, OrderDone
<1>4. o = calls[r].id
  BY <1>1, <1>3
<1>5. ls = lines /\ calls[r].later = lines
  BY <1>3, OneCart
<1>6. i \in Active(lines)
  BY <1>0, <1>2, <1>5, ItemsLines
<1>7. p \in Products
  BY <1>3, <1>5, LineSeq
<1>8. orders'[o].items[p] = Cart!InCart(ls, p)
  BY <1>3, <1>4, <1>7
<1>9. i \in LinesOf(ls, p)
  BY <1>5, <1>6 DEF LinesOf
<1>10. Cart!InCart(ls, p) >= ls[i].qty
  BY <1>3, <1>9, InCartIs
<1> QED
  BY <1>5, <1>8, <1>10

-----------------------------------------------------------------------------
\* However requests overlap, the rows keep their types, copies are of rows that
\* are there, every checkout has an order of its own, and the orders explain
\* what is missing on the shelf.
THEOREM CartInvHolds == Cart!Spec => []CartInv
<1>1. Cart!Init => CartInv
  BY CartInit
<1>2. CartInv /\ [Cart!Next]_Cart!vars => CartInv'
  BY CartStep
<1> QED
  BY <1>1, <1>2, PTL DEF Cart!Spec

\* One request at a time, what a request read is what the tables hold.
THEOREM CartCurrentHolds == Cart!Spec => []CartCurrent
<1>1. Cart!Init => CartCurrent
  BY CartInit
<1>2. CartInv /\ CartCurrent /\ [Cart!Next]_Cart!vars => CartCurrent'
  BY CurrentStep DEF CartInv
<1> QED
  BY <1>1, <1>2, CartInvHolds, PTL DEF Cart!Spec

\* However checkouts overlap, the stock never falls below what the orders took.
THEOREM CartStockNotUnderstated == Cart!Spec => []StockNotUnderstated
<1>1. CartInv => StockNotUnderstated
  BY SoldIs DEF CartInv, ShelfExplained, Explained, StockNotUnderstated
<1> QED
  BY <1>1, CartInvHolds, PTL

\* One request at a time, a second shop comes into the cart only through
\* reorder's add_to_cart or a restored line.
THEOREM CartSecondShopSource == Cart!Spec => SecondShopSource
<1>1. CartInv /\ CartCurrent /\ [Cart!Next]_Cart!vars
        => [~ overlapping /\ SingleShop(lines) /\ ~ SingleShop(lines')
              => Running({"reorder", "restore"})]_lines
  BY SecondShopStep
<1> QED
  BY <1>1, CartInvHolds, CartCurrentHolds, PTL DEF Cart!Spec, SecondShopSource

\* One request at a time, checkout sends an order to the shop that sells it.
THEOREM CartOrderFitsShop == Cart!Spec => OrderFitsShop
<1>1. CartInv /\ CartCurrent /\ [Cart!Next]_Cart!vars
        => [~ overlapping /\ SingleShop(lines)
              => \A o \in DOMAIN orders, p \in Products :
                   ~ orders[o].done /\ orders'[o].items[p] > 0
                     => Shop[p] = orders[o].shop]_orders
  BY OrderFitsStep
<1> QED
  BY <1>1, CartInvHolds, CartCurrentHolds, PTL DEF Cart!Spec, OrderFitsShop

\* The sales of the tables, in terms of the sum.
SalesAreSums == \A p \in Products : Sold(p) = SoldIn(orders, p)

\* One request at a time, checkout and update_stock account for the stock.
THEOREM CartStockChangesBooked == Cart!Spec => StockChangesBooked
<1>1. CartInv => SalesAreSums
  BY SoldIs DEF CartInv, SalesAreSums
<1>2. CartInv /\ CartCurrent /\ SalesAreSums /\ SalesAreSums' /\ [Cart!Next]_Cart!vars
        => [~ overlapping /\ ~ Running({"edit"})
              => \A p \in Products :
                   stock_qty'[p] =
                     Remaining(stock_qty[p], Sold(p)' - Sold(p)) + moved'[p] - moved[p]
           ]_<<stock_qty, orders, moved>>
  BY StockStep DEF SalesAreSums
<1> QED
  BY <1>1, <1>2, CartInvHolds, CartCurrentHolds, PTL DEF Cart!Spec, StockChangesBooked

\* One request at a time, checkout deletes no line that is not on its order.
THEOREM CartNothingLost == Cart!Spec => NothingLost
<1>1. CartInv /\ CartCurrent /\ [Cart!Next]_Cart!vars
        => [~ overlapping =>
              \A o \in DOMAIN orders :
                ~ orders[o].done /\ orders'[o].done
                  => \A i \in DOMAIN lines :
                       lines[i].state # "gone" /\ lines'[i].state = "gone"
                         => orders'[o].items[lines[i].prod] >= lines[i].qty]_orders
  BY NothingLostStep
<1> QED
  BY <1>1, CartInvHolds, CartCurrentHolds, PTL DEF Cart!Spec, NothingLost

\* Cart, stock, orders and copies keep the types of their columns.
THEOREM CartTypeCorrect == Cart!Spec => []Cart!TypeOK
<1>1. CartInv => Cart!TypeOK
  BY DEF CartInv
<1> QED
  BY <1>1, CartInvHolds, PTL

-----------------------------------------------------------------------------
(***************************************************************************)
(* A shop's subscription.                                                   *)
(***************************************************************************)
\* The rows and requests of a shop's subscription, as a request of any kind finds them.
SlotsOK == req \in [Requests -> Sub!Request \cup {Sub!Idle}]

\* A request that ends leaves the others as they are.
LEMMA SubDone ==
  ASSUME SlotsOK, NEW r \in Requests, Sub!Done(r)
  PROVE  /\ SlotsOK'
         /\ req'[r] = Sub!Idle /\ \A s \in Requests : s # r => req'[s] = req[s]
  BY DEF SlotsOK, Sub!Done

\* The commit of a request that changes its copy writes a row.
LEMMA CommitType ==
  ASSUME shop \in Sub!Shop, NEW r, req[r].got \in Sub!Shop, NEW new \in Sub!Shop, Sub!Commit(r, new)
  PROVE  shop' \in Sub!Shop
<1>1. /\ shop.status \in Sub!Statuses /\ shop.expires \in Nat /\ shop.pending \in 0 .. MaxLinks
      /\ new.status \in Sub!Statuses /\ new.expires \in Nat /\ new.pending \in 0 .. MaxLinks
  BY DEF Sub!Shop
<1>2. shop' = [status |-> Sub!Flush(shop.status, req[r].got.status, new.status),
               expires |-> Sub!Flush(shop.expires, req[r].got.expires, new.expires),
               pending |-> Sub!Flush(shop.pending, req[r].got.pending, new.pending)]
  BY DEF Sub!Commit
<1> QED
  BY <1>1, <1>2 DEF Sub!Flush, Sub!Shop

\* What the fields of a request in flight are.
LEMMA SubRequest ==
  ASSUME SlotsOK, NEW r \in Requests, req[r] # Sub!Idle
  PROVE  /\ req[r] \in Sub!Request /\ req[r].got \in Sub!Shop /\ req[r].link \in 0 .. MaxLinks
         /\ req[r].got.expires \in Nat /\ req[r].got.pending \in 0 .. MaxLinks
         /\ req[r].got.status \in Sub!Statuses
         /\ req[r].pc \in {"loaded", "called", "activated"} /\ req[r].op \in Sub!Ops
  BY DEF SlotsOK, Sub!Request, Sub!Shop

\* The links of the requests in flight: a link that is being made is one
\* request's own and not sent yet; a link that is being confirmed is paid; a
\* link that was confirmed has its billing row.
LinksOK ==
  /\ \A l \in DOMAIN links : links[l].paid => links[l].sent
  /\ \A l \in Activated : l \in DOMAIN links /\ links[l].paid
  /\ shop.pending # 0 =>
       /\ shop.pending \in DOMAIN links /\ links[shop.pending].sent
       /\ shop.pending \notin Activated

Makes(q) == q.pc = "called" /\ q.op = "create"

\* Months that these links bought.
Plan == [l \in DOMAIN links |-> Months[links[l].cadence]]
Granted(S) == SumOf(Plan, S)

\* A copy of the row never promises more than the time granted without the
\* link it still waits for.
RequestOK(q) ==
  q # Sub!Idle =>
    /\ q.got.pending # 0 => q.got.pending \in DOMAIN links /\ links[q.got.pending].sent
    /\ Makes(q) => q.link \in DOMAIN links /\ ~ links[q.link].sent
    /\ q.pc = "called" /\ q.op # "create" =>
         q.link = q.got.pending /\ q.link # 0 /\ links[q.link].paid
    /\ q.pc = "activated" => q.link \in Activated
    /\ q.got.expires <= now + Granted(Activated \ {q.got.pending}) + comps

OwnLinks ==
  \A r, s \in Requests : r # s /\ Makes(req[r]) /\ Makes(req[s]) => req[r].link # req[s].link

SubInv ==
  /\ Sub!TypeOK
  /\ LinksOK
  /\ \A r \in Requests : RequestOK(req[r])
  /\ OwnLinks
  /\ shop.expires <= now + Granted(Activated) + comps

\* Where requests do not overlap: one slot, whose copy is the row until its
\* commit, and every link sent was applied, waits or was replaced.
OneByOne ==
  /\ \A r \in Requests : r # Sub!Alone => req[r] = Sub!Idle
  /\ \A r \in Requests : req[r].pc \in {"loaded", "called"} => req[r].got = shop
SentCovered ==
  \A l \in DOMAIN links :
    links[l].sent => l \in Activated \/ shop.pending = l \/ l \in dropped
SubSerial == ~ overlap => OneByOne /\ SentCovered

-----------------------------------------------------------------------------
\* A slot that takes a request keeps the types.
LEMMA SubSlot ==
  ASSUME SlotsOK, NEW r \in Requests, NEW q \in Sub!Request, req' = [req EXCEPT ![r] = q]
  PROVE  /\ SlotsOK'
         /\ req'[r] = q /\ \A s \in Requests : s # r => req'[s] = req[s]
  BY DEF SlotsOK

\* The gateway's links are numbered from 1, and the months of each are known.
LEMMA LinkType ==
  ASSUME links \in Seq([cadence : Sub!Cadences, paid : BOOLEAN, sent : BOOLEAN])
  PROVE  /\ DOMAIN links = 1 .. Len(links) /\ Len(links) \in Nat
         /\ \A l \in DOMAIN links :
              /\ links[l] \in [cadence : Sub!Cadences, paid : BOOLEAN, sent : BOOLEAN]
              /\ links[l].cadence \in Sub!Cadences /\ Months[links[l].cadence] \in Nat \ {0}
              /\ Plan[l] = Months[links[l].cadence] /\ Plan[l] \in Nat
<1> DEFINE T == [cadence : Sub!Cadences, paid : BOOLEAN, sent : BOOLEAN]
<1>1. DOMAIN links = 1 .. Len(links) /\ Len(links) \in Nat /\ \A l \in DOMAIN links : links[l] \in T
  <2> HIDE DEF T
  <2> QED
    BY LenProperties, ElementOfSeq DEF T
<1>2. \A l \in DOMAIN links : links[l].cadence \in Sub!Cadences
  BY <1>1
<1>3. \A c \in Sub!Cadences : Months[c] \in Nat \ {0}
  BY PlanAssumption, BoundsAssumption DEF Sub!Cadences
<1>4. \A l \in DOMAIN links : Plan[l] = Months[links[l].cadence]
  BY DEF Plan
<1> QED
  BY <1>1, <1>2, <1>3, <1>4

\* What the invariant says of a request that is not idle.
LEMMA BusyRequest ==
  ASSUME SubInv, NEW r \in Requests, req[r].pc \in {"loaded", "called", "activated"}
  PROVE  /\ req[r] # Sub!Idle
         /\ req[r].got.pending # 0 =>
              req[r].got.pending \in DOMAIN links /\ links[req[r].got.pending].sent
         /\ Makes(req[r]) => req[r].link \in DOMAIN links /\ ~ links[req[r].link].sent
         /\ req[r].pc = "called" /\ req[r].op # "create" =>
              /\ req[r].link = req[r].got.pending /\ req[r].link # 0
              /\ links[req[r].link].paid
         /\ req[r].pc = "activated" => req[r].link \in Activated
         /\ req[r].got.expires <= now + Granted(Activated \ {req[r].got.pending}) + comps
<1>1. req[r] # Sub!Idle
  BY DEF Sub!Idle
<1>2. RequestOK(req[r])
  BY DEF SubInv
<1> QED
  BY <1>1, <1>2 DEF RequestOK

\* What commits: create, the poll, the lazy end, a request, the admin.
LEMMA CommitsType ==
  ASSUME SubInv, NEW r \in Requests,
         \/ Sub!StorePending(r) \/ Sub!ActivatePaid(r) \/ Sub!Lapse(r) \/ Sub!RequestSell(r)
         \/ Sub!Approve(r) \/ Sub!Override(r)
  PROVE  shop' \in Sub!Shop
<1> DEFINE q == req[r]
<1>1. SlotsOK /\ shop \in Sub!Shop /\ now \in Nat /\ q # Sub!Idle
  BY DEF SubInv, Sub!TypeOK, SlotsOK, Sub!Idle, Sub!StorePending, Sub!ActivatePaid, Sub!Lapse,
           Sub!RequestSell,
         Sub!Approve, Sub!Override
<1>2. /\ q.got \in Sub!Shop /\ q.got.expires \in Nat /\ q.got.pending \in 0 .. MaxLinks
      /\ q.got.status \in Sub!Statuses /\ q.link \in 0 .. MaxLinks
  BY <1>1, SubRequest
<1>3. CASE Sub!StorePending(r)
  <2> DEFINE new == [q.got EXCEPT !.pending = q.link,
                                  !.status = IF @ = "approved" THEN @ ELSE "pending"]
  <2>1. new \in Sub!Shop
    <3> DEFINE st == IF q.got.status = "approved" THEN q.got.status ELSE "pending"
    <3>1. st \in Sub!Statuses
      BY <1>2 DEF Sub!Statuses
    <3>2. new = [[q.got EXCEPT !.pending = q.link] EXCEPT !.status = st]
      BY <1>2 DEF Sub!Shop
    <3> HIDE DEF st, new
    <3> QED
      BY <1>2, <3>1, <3>2 DEF Sub!Shop
  <2>2. Sub!Commit(r, new)
    BY <1>3 DEF Sub!StorePending
  <2> HIDE DEF new
  <2> QED
    BY <1>1, <1>2, <2>1, <2>2, CommitType
<1>4. CASE Sub!ActivatePaid(r)
  <2>1. Months[links[q.link].cadence] \in Nat
    <3>1. q.link \in DOMAIN links
      BY <1>1, <1>4 DEF SubInv, LinksOK, RequestOK, Sub!ActivatePaid
    <3> QED
      BY <3>1, LinkType DEF SubInv, Sub!TypeOK
  <2> DEFINE new == [status |-> "approved", expires |-> Sub!Extend(r),
                     pending |-> Sub!Pending(q.got)]
  <2>2. new \in Sub!Shop
    BY PlanAssumption, BoundsAssumption, <1>1, <1>2, <2>1 DEF Sub!Shop, Sub!Statuses, Sub!Extend,
             Sub!Base, Sub!Pending
  <2>3. Sub!Commit(r, new)
    BY <1>4 DEF Sub!ActivatePaid
  <2> HIDE DEF new
  <2> QED
    BY <1>1, <1>2, <2>2, <2>3, CommitType
<1>5. CASE Sub!Lapse(r)
  <2>1. Sub!Lapsed(q.got) \in Sub!Shop
    BY <1>2 DEF Sub!Lapsed, Sub!Shop, Sub!Statuses
  <2> QED
    BY <1>1, <1>2, <1>5, <2>1, CommitType DEF Sub!Lapse
<1>6. CASE Sub!RequestSell(r)
  <2>1. [q.got EXCEPT !.status = "pending"] \in Sub!Shop
    BY <1>2 DEF Sub!Shop, Sub!Statuses
  <2> QED
    BY <1>1, <1>2, <1>6, <2>1, CommitType DEF Sub!RequestSell
<1>7. CASE Sub!Approve(r)
  <2> DEFINE new == [status |-> "approved", expires |-> Sub!Comp(q.got), pending |-> 0]
  <2>1. new \in Sub!Shop
    BY PlanAssumption, BoundsAssumption, <1>1, <1>2 DEF Sub!Shop, Sub!Statuses, Sub!Comp
  <2>2. Sub!Commit(r, new)
    BY <1>7 DEF Sub!Approve
  <2> HIDE DEF new
  <2> QED
    BY <1>1, <1>2, <2>1, <2>2, CommitType
<1>8. CASE Sub!Override(r)
  <2>1. PICK st \in Sub!AdminStatuses : Sub!Commit(r, [q.got EXCEPT !.status = st])
    BY <1>8 DEF Sub!Override
  <2>2. [q.got EXCEPT !.status = st] \in Sub!Shop
    BY <1>2 DEF Sub!Shop, Sub!AdminStatuses
  <2> QED
    BY <1>1, <1>2, <2>1, <2>2, CommitType
<1> QED
  BY <1>3, <1>4, <1>5, <1>6, <1>7, <1>8

\* Making a link and sending it keep the type of the gateway's list.
LEMMA LinksType ==
  ASSUME SubInv, NEW r \in Requests,
         Sub!CreateLink(r) \/ Sub!StorePending(r) \/ \E l \in DOMAIN links : Sub!Pay(l)
  PROVE  links' \in Seq([cadence : Sub!Cadences, paid : BOOLEAN, sent : BOOLEAN])
<1> DEFINE T == [cadence : Sub!Cadences, paid : BOOLEAN, sent : BOOLEAN]
<1>1. links \in Seq(T)
  BY DEF SubInv, Sub!TypeOK
<1>2. \A l \in DOMAIN links : links[l] \in T
  BY <1>1, LinkType
<1>3. CASE Sub!CreateLink(r)
  <2>1. PICK c \in Sub!Cadences :
          links' = Append(links, [cadence |-> c, paid |-> FALSE, sent |-> FALSE])
    BY <1>3 DEF Sub!CreateLink
  <2> DEFINE new == [cadence |-> c, paid |-> FALSE, sent |-> FALSE]
  <2>2. new \in T
    OBVIOUS
  <2> HIDE DEF new, T
  <2> QED
    BY <1>1, <2>1, <2>2, AppendProperties DEF new, T
<1>4. ASSUME NEW l \in DOMAIN links, NEW x \in T, links' = [links EXCEPT ![l] = x]
      PROVE  links' \in Seq(T)
  <2> HIDE DEF T
  <2> QED
    BY <1>1, <1>4, ExceptSeq
<1>5. CASE Sub!StorePending(r)
  <2> DEFINE l == req[r].link
             x == [links[l] EXCEPT !.sent = TRUE]
  <2>1. links' = [links EXCEPT ![l] = x]
    BY <1>5 DEF Sub!StorePending
  <2>2. l \in DOMAIN links
    BY <1>5, BusyRequest DEF Sub!StorePending, Makes
  <2>3. x \in T
    BY <1>2, <2>2
  <2> HIDE DEF l, x
  <2> QED
    BY <1>4, <2>1, <2>2, <2>3
<1>6. CASE \E l \in DOMAIN links : Sub!Pay(l)
  <2>1. PICK l \in DOMAIN links : Sub!Pay(l)
    BY <1>6
  <2> DEFINE x == [links[l] EXCEPT !.paid = TRUE]
  <2>2. links' = [links EXCEPT ![l] = x]
    BY <2>1 DEF Sub!Pay
  <2>3. x \in T
    BY <1>2
  <2> HIDE DEF x
  <2> QED
    BY <1>4, <2>2, <2>3
<1> QED
  BY <1>3, <1>5, <1>6

\* Every step keeps the types.
LEMMA SubTypeStep ==
  ASSUME SubInv, [Sub!Next]_Sub!vars
  PROVE  Sub!TypeOK'
<1>1. /\ SlotsOK /\ Sub!TypeOK
      /\ \A r \in Requests : req[r] # Sub!Idle =>
           /\ req[r] \in Sub!Request /\ req[r].link \in 0 .. MaxLinks
           /\ req[r].got \in Sub!Shop /\ req[r].got.pending \in 0 .. MaxLinks
  <2>1. SlotsOK /\ Sub!TypeOK
    BY DEF SubInv, Sub!TypeOK, SlotsOK
  <2> QED
    BY <2>1, SubRequest
<1>2. ASSUME NEW l \in DOMAIN links, Sub!Pay(l)
      PROVE  Sub!TypeOK'
  <2>1. CASE Requests = {}
    <3> DEFINE T == [cadence : Sub!Cadences, paid : BOOLEAN, sent : BOOLEAN]
               x == [links[l] EXCEPT !.paid = TRUE]
    <3>1. links \in Seq(T) /\ x \in T /\ links' = [links EXCEPT ![l] = x]
      BY <1>1, <1>2, LinkType DEF Sub!TypeOK, Sub!Pay
    <3>2. links' \in Seq(T)
      <4> HIDE DEF T, x
      <4> QED
        BY <3>1, ExceptSeq
    <3> QED
      BY <1>1, <1>2, <3>2 DEF Sub!TypeOK, Sub!Pay, Sub!db
  <2>2. CASE Requests # {}
    BY <1>1, <1>2, <2>2, LinksType DEF Sub!TypeOK, Sub!Pay, Sub!db
  <2> QED
    BY <2>1, <2>2
<1>3. CASE Sub!Tick
  BY PlanAssumption, BoundsAssumption, <1>1, <1>3 DEF Sub!TypeOK, Sub!Tick, Sub!db
<1>4. ASSUME NEW r \in Requests, Sub!Load(r)
      PROVE  Sub!TypeOK'
  <2>1. PICK op \in Sub!Ops :
          req' = [req EXCEPT ![r] = [pc |-> "loaded", op |-> op, got |-> shop, link |-> 0]]
    BY <1>4 DEF Sub!Load
  <2>2. [pc |-> "loaded", op |-> op, got |-> shop, link |-> 0] \in Sub!Request
    BY PlanAssumption, BoundsAssumption, <1>1 DEF Sub!TypeOK, Sub!Request
  <2>3. SlotsOK'
    BY <1>1, <2>1, <2>2, SubSlot
  <2> QED
    BY <1>1, <1>4, <2>3 DEF Sub!TypeOK, SlotsOK, Sub!Load, Sub!db
<1>5. ASSUME NEW r \in Requests, Sub!CreateLink(r)
      PROVE  Sub!TypeOK'
  <2> DEFINE q == [req[r] EXCEPT !.pc = "called", !.link = Len(links) + 1]
  <2>1. Len(links) \in Nat /\ Len(links) + 1 \in 0 .. MaxLinks /\ req[r] # Sub!Idle
    BY PlanAssumption, BoundsAssumption, <1>1, <1>5, LinkType DEF Sub!CreateLink, Sub!TypeOK,
             Sub!Idle
  <2>2. q \in Sub!Request
    BY <1>1, <2>1 DEF Sub!Request
  <2>3. req' = [req EXCEPT ![r] = q]
    BY <1>5 DEF Sub!CreateLink
  <2> HIDE DEF q
  <2>4. SlotsOK'
    BY <1>1, <2>2, <2>3, SubSlot
  <2> QED
    BY <1>1, <1>5, <2>4, LinksType DEF Sub!TypeOK, SlotsOK, Sub!CreateLink, Sub!db
<1>6. ASSUME NEW r \in Requests, Sub!StorePending(r)
      PROVE  Sub!TypeOK'
  <2>1. SlotsOK'
    BY <1>1, <1>6, SubDone DEF Sub!StorePending
  <2>2. dropped' \subseteq Sub!Link
    BY <1>1, <1>6 DEF Sub!StorePending, Sub!TypeOK, Sub!Shop, Sub!Link
  <2> QED
    BY <1>1, <1>6, <2>1, <2>2, LinksType, CommitsType DEF Sub!TypeOK, SlotsOK, Sub!StorePending
<1>7. ASSUME NEW r \in Requests, Sub!Poll(r)
      PROVE  Sub!TypeOK'
  <2> DEFINE q == IF Sub!PaidAtGateway(req[r].got.pending)
                    THEN [req[r] EXCEPT !.pc = "called", !.link = req[r].got.pending]
                    ELSE [req[r] EXCEPT !.op = "status"]
  <2>1. req[r] # Sub!Idle
    BY <1>7 DEF Sub!Poll, Sub!Idle
  <2>2. q \in Sub!Request
    BY <1>1, <2>1 DEF Sub!Request, Sub!Ops
  <2>3. req' = [req EXCEPT ![r] = q]
    BY <1>7 DEF Sub!Poll
  <2> HIDE DEF q
  <2>4. SlotsOK'
    BY <1>1, <2>2, <2>3, SubSlot
  <2> QED
    BY <1>1, <1>7, <2>4 DEF Sub!TypeOK, SlotsOK, Sub!Poll, Sub!db
<1>8. ASSUME NEW r \in Requests, Sub!ActivatePaid(r)
      PROVE  Sub!TypeOK'
  <2>1. req[r] # Sub!Idle /\ req[r].link \in Sub!Link
    <3>1. req[r] # Sub!Idle /\ req[r].link # 0
      BY <1>8, BusyRequest DEF Sub!ActivatePaid
    <3> QED
      BY PlanAssumption, BoundsAssumption, <1>1, <3>1 DEF Sub!Link
  <2>2. [req[r] EXCEPT !.pc = "activated"] \in Sub!Request
    BY <1>1, <2>1 DEF Sub!Request
  <2>3. SlotsOK'
    BY <1>1, <1>8, <2>2, SubSlot DEF Sub!ActivatePaid
  <2>4. billing' \in Seq(Sub!Link)
    BY <1>1, <1>8, <2>1, AppendProperties DEF Sub!ActivatePaid, Sub!TypeOK
  <2> QED
    BY <1>1, <1>8, <2>3, <2>4, CommitsType DEF Sub!TypeOK, SlotsOK, Sub!ActivatePaid
<1>9. ASSUME NEW r \in Requests, Sub!IssueSubscription(r)
      PROVE  Sub!TypeOK'
  <2>1. req[r].link \in Sub!Link
    <3>1. req[r].link \in Activated
      BY <1>9, BusyRequest DEF Sub!IssueSubscription
    <3>2. Activated \subseteq Sub!Link
      BY <1>1, ElementOfSeq, LenProperties DEF Sub!TypeOK, Activated, Range
    <3> QED
      BY <3>1, <3>2
  <2>2. SlotsOK'
    BY <1>1, <1>9, SubDone DEF Sub!IssueSubscription
  <2> QED
    BY <1>1, <1>9, <2>1, <2>2 DEF Sub!TypeOK, SlotsOK, Sub!IssueSubscription
<1>10. ASSUME NEW r \in Requests, Sub!Lapse(r) \/ Sub!RequestSell(r) \/ Sub!Override(r)
       PROVE  Sub!TypeOK'
  <2>1. SlotsOK'
    BY <1>1, <1>10, SubDone DEF Sub!Lapse, Sub!RequestSell, Sub!Override
  <2>2. shop' \in Sub!Shop
    BY <1>10, CommitsType
  <2> QED
    BY <1>1, <1>10, <2>1, <2>2 DEF Sub!TypeOK, SlotsOK, Sub!Lapse, Sub!RequestSell, Sub!Override
<1>11. ASSUME NEW r \in Requests, Sub!Approve(r)
       PROVE  Sub!TypeOK'
  <2>1. SlotsOK'
    BY <1>1, <1>11, SubDone DEF Sub!Approve
  <2>2. dropped' \subseteq Sub!Link
    <3>1. dropped \subseteq 1 .. MaxLinks /\ shop.pending \in 0 .. MaxLinks /\ MaxLinks \in Nat
      BY PlanAssumption, BoundsAssumption, <1>1 DEF Sub!TypeOK, Sub!Shop, Sub!Link
    <3>2. dropped' = dropped \cup ({shop.pending} \ {0})
      BY <1>11 DEF Sub!Approve
    <3>3. shop.pending # 0 => shop.pending \in 1 .. MaxLinks
      BY <3>1
    <3> QED
      BY <3>1, <3>2, <3>3 DEF Sub!Link
  <2>3. comps' \in Nat
    <3>1. comps \in Nat /\ Months["monthly"] \in Nat
      BY PlanAssumption, BoundsAssumption, <1>1 DEF Sub!TypeOK
    <3>2. comps' = comps + Months["monthly"] \/ comps' = comps
      BY <1>11 DEF Sub!Approve
    <3> QED
      BY <3>1, <3>2
  <2> QED
    BY <1>1, <1>11, <2>1, <2>2, <2>3, CommitsType DEF Sub!TypeOK, SlotsOK, Sub!Approve
<1>12. ASSUME NEW r \in Requests, Sub!Return(r)
       PROVE  Sub!TypeOK'
  <2>1. SlotsOK'
    BY <1>1, <1>12, SubDone DEF Sub!Return
  <2> QED
    BY <1>1, <1>12, <2>1 DEF Sub!TypeOK, SlotsOK, Sub!Return, Sub!db
<1>13. CASE UNCHANGED Sub!vars
  BY <1>1, <1>13 DEF Sub!TypeOK, Sub!vars, Sub!db
<1> QED
  BY <1>2, <1>3, <1>4, <1>5, <1>6, <1>7, <1>8, <1>9, <1>10, <1>11, <1>12, <1>13 DEF Sub!Next

-----------------------------------------------------------------------------
\* What every step does to links and rows: nothing is taken back.
Forward ==
  /\ DOMAIN links \subseteq DOMAIN links'
  /\ \A l \in DOMAIN links : /\ links'[l].cadence = links[l].cadence
                             /\ links[l].sent => links'[l].sent
                             /\ links[l].paid => links'[l].paid
  /\ now <= now' /\ comps <= comps'
  /\ Activated \subseteq Activated' /\ Activated' \subseteq DOMAIN links'

\* Months bought by more links are no fewer, whatever the step.
LEMMA GrantedGrows ==
  ASSUME Sub!TypeOK, Sub!TypeOK', Forward, NEW S, NEW R,
         S \subseteq DOMAIN links, S \subseteq R, R \subseteq DOMAIN links'
  PROVE  Granted(S) \in Nat /\ SumOf(Plan', R) \in Nat /\ Granted(S) <= SumOf(Plan', R)
<1> DEFINE f == Plan
           g == Plan'
<1>2. IsFiniteSet(R) /\ IsFiniteSet(S)
  <2>1. DOMAIN links' = 1 .. Len(links') /\ Len(links') \in Nat
    BY LenProperties DEF Sub!TypeOK
  <2>2. IsFiniteSet(DOMAIN links')
    BY <2>1, FS_Interval
  <2> QED
    BY <2>2, FS_Subset
<1>3. \A l \in DOMAIN links : f[l] \in Nat /\ f[l] = Months[links[l].cadence]
  BY LinkType DEF Sub!TypeOK
<1>4. \A l \in DOMAIN links' : g[l] \in Nat /\ g[l] = Months[links'[l].cadence]
  <2> DEFINE T == [cadence : Sub!Cadences, paid : BOOLEAN, sent : BOOLEAN]
  <2>1. links' \in Seq(T)
    BY DEF Sub!TypeOK
  <2>2. \A l \in DOMAIN links' : links'[l] \in T
    <3> HIDE DEF T
    <3> QED
      BY <2>1, LenProperties, ElementOfSeq
  <2>3. \A l \in DOMAIN links' : Months[links'[l].cadence] \in Nat
    <3>1. \A l \in DOMAIN links' : links'[l].cadence \in Sub!Cadences
      BY <2>2
    <3> QED
      BY PlanAssumption, BoundsAssumption, <3>1 DEF Sub!Cadences
  <2>4. \A l \in DOMAIN links' : g[l] = Months[links'[l].cadence]
    BY DEF Plan
  <2> QED
    BY <2>3, <2>4
<1>5. \A l \in S : f[l] = g[l] /\ f[l] \in Nat
  BY <1>3, <1>4 DEF Forward
<1> HIDE DEF f, g
<1>6. SumOf(f, S) = SumOf(g, S)
  BY <1>2, <1>5, SumAgree
<1>7. \A l \in R : g[l] \in Nat
  BY <1>4
<1>8. SumOf(g, S) \in Nat /\ SumOf(g, R) \in Nat /\ SumOf(g, S) <= SumOf(g, R)
  BY <1>2, <1>7, SumGrows
<1> QED
  BY <1>6, <1>8 DEF f, g, Granted

\* A date that some links pay for is paid for by more of them.
LEMMA DateCovered ==
  ASSUME Sub!TypeOK, Sub!TypeOK', Forward, NEW x \in Nat, NEW S, NEW R,
         S \subseteq DOMAIN links, S \subseteq R, R \subseteq DOMAIN links',
         x <= now + Granted(S) + comps
  PROVE  x <= now' + SumOf(Plan', R) + comps'
<1>1. Granted(S) \in Nat /\ SumOf(Plan', R) \in Nat /\ Granted(S) <= SumOf(Plan', R)
  BY GrantedGrows
<1>2. now \in Nat /\ now' \in Nat /\ comps \in Nat /\ comps' \in Nat
  BY DEF Sub!TypeOK
<1>3. now <= now' /\ comps <= comps'
  BY DEF Forward
<1> QED
  BY <1>1, <1>2, <1>3

\* What is known of a request survives the steps of others.
LEMMA RequestKept ==
  ASSUME SubInv, Sub!TypeOK', Forward, NEW q \in Sub!Request \cup {Sub!Idle}, RequestOK(q),
         Makes(q) => ~ links'[q.link].sent
  PROVE  RequestOK(q)'
<1> SUFFICES ASSUME q # Sub!Idle PROVE RequestOK(q)'
  BY DEF RequestOK
<1> DEFINE p == q.got.pending
<1>1. q.got.expires \in Nat
  BY DEF Sub!Request, Sub!Shop
<1>2. Sub!TypeOK /\ Activated \subseteq DOMAIN links /\ Activated' \subseteq DOMAIN links'
  BY DEF SubInv, LinksOK, Forward
<1>3. Activated \ {p} \subseteq Activated' \ {p}
  BY DEF Forward
<1>4. q.got.expires <= now + Granted(Activated \ {p}) + comps
  BY DEF RequestOK
<1>5. q.got.expires <= now' + SumOf(Plan', Activated' \ {p}) + comps'
  BY <1>1, <1>2, <1>3, <1>4, DateCovered
<1>6. q.got.expires <= now' + Granted(Activated \ {p})' + comps'
  BY <1>5 DEF Granted
<1>7. /\ p # 0 => p \in DOMAIN links' /\ links'[p].sent
      /\ Makes(q) => q.link \in DOMAIN links' /\ ~ links'[q.link].sent
      /\ q.pc = "activated" => q.link \in Activated'
  BY DEF RequestOK, Forward
<1>8. q.pc = "called" /\ q.op # "create" =>
        q.link = q.got.pending /\ q.link # 0 /\ links'[q.link].paid
  BY DEF RequestOK, Forward
<1> QED
  BY <1>6, <1>7, <1>8 DEF RequestOK, Makes

\* The parts of a step that keeps the invariant.
LEMMA SubFrame ==
  ASSUME SubInv, Sub!TypeOK', Forward, LinksOK', OwnLinks',
         \A s \in Requests :
           \/ /\ req'[s] = req[s]
              /\ Makes(req[s]) => ~ links'[req[s].link].sent
           \/ RequestOK(req[s])',
         shop'.expires <= now' + Granted(Activated)' + comps'
  PROVE  SubInv'
<1>1. ASSUME NEW s \in Requests
      PROVE  RequestOK(req[s])'
  <2>1. CASE req'[s] = req[s] /\ (Makes(req[s]) => ~ links'[req[s].link].sent)
    <3> PICK q : q = req[s]
      OBVIOUS
    <3>1. q \in Sub!Request \cup {Sub!Idle} /\ RequestOK(q)
      BY DEF SubInv, Sub!TypeOK
    <3>2. RequestOK(q)'
      BY <2>1, <3>1, RequestKept
    <3> QED
      BY <2>1, <3>2
  <2> QED
    BY <2>1
<1> QED
  BY <1>1 DEF SubInv

\* The row's own date stays covered.
LEMMA OwnDate ==
  ASSUME SubInv, Sub!TypeOK', Forward
  PROVE  shop.expires <= now' + Granted(Activated)' + comps'
<1>1. /\ shop.expires \in Nat /\ Sub!TypeOK
      /\ Activated \subseteq DOMAIN links /\ Activated \subseteq Activated'
      /\ Activated' \subseteq DOMAIN links'
      /\ shop.expires <= now + Granted(Activated) + comps
  BY DEF SubInv, Sub!TypeOK, Sub!Shop, LinksOK, Forward
<1>2. PICK x \in Nat : x = shop.expires
  BY <1>1
<1>3. x <= now' + SumOf(Plan', Activated') + comps'
  BY <1>1, <1>2, DateCovered
<1> QED
  BY <1>2, <1>3 DEF Granted

\* And so is a copy's.
LEMMA CopiedDate ==
  ASSUME SubInv, Sub!TypeOK', Forward, NEW r \in Requests, req[r] # Sub!Idle
  PROVE  req[r].got.expires <= now' + Granted(Activated)' + comps'
<1> DEFINE S == Activated \ {req[r].got.pending}
<1>1. /\ Sub!TypeOK /\ S \subseteq DOMAIN links /\ S \subseteq Activated'
      /\ Activated' \subseteq DOMAIN links'
  BY DEF SubInv, LinksOK, Forward
<1>2. req[r].got.expires \in Nat
  <2>1. SlotsOK
    BY DEF SubInv, Sub!TypeOK, SlotsOK
  <2> QED
    BY <2>1, SubRequest
<1>3. req[r].got.expires <= now + Granted(S) + comps
  BY DEF SubInv, RequestOK
<1> HIDE DEF S
<1>4. PICK x \in Nat : x = req[r].got.expires
  BY <1>2
<1>5. x <= now' + SumOf(Plan', Activated') + comps'
  BY <1>1, <1>3, <1>4, DateCovered
<1> QED
  BY <1>4, <1>5 DEF Granted

\* A step that leaves gateway and billing alone takes nothing back.
LEMMA QuietForward ==
  ASSUME SubInv, Sub!TypeOK', links' = links, billing' = billing, now <= now', comps <= comps'
  PROVE  /\ Forward /\ Activated' = Activated
         /\ Granted(Activated)' = Granted(Activated)
<1>1. Activated' = Activated
  BY DEF Activated
<1>2. Plan' = Plan
  BY DEF Plan
<1> QED
  BY <1>1, <1>2 DEF Forward, Granted, SubInv, LinksOK

\* If the row keeps its link or drops it and no request takes a link, the rest
\* is a matter of the date and of the requests that change.
LEMMA QuietStep ==
  ASSUME SubInv, Sub!TypeOK', links' = links, billing' = billing,
         now <= now', comps <= comps',
         shop'.pending \in {0, shop.pending},
         shop'.expires <= now' + Granted(Activated)' + comps',
         \A s \in Requests :
           \/ req'[s] = req[s]
           \/ ~ Makes(req'[s]) /\ RequestOK(req[s])'
  PROVE  SubInv'
<1>1. Forward /\ Activated' = Activated
  BY QuietForward
<1>2. LinksOK'
  BY <1>1 DEF SubInv, LinksOK
<1>3. OwnLinks'
  BY DEF SubInv, OwnLinks, Makes
<1>4. ASSUME NEW s \in Requests, req'[s] = req[s], Makes(req[s])
      PROVE  ~ links'[req[s].link].sent
  BY <1>4, BusyRequest DEF Makes
<1> QED
  BY <1>1, <1>2, <1>3, <1>4, SubFrame

\* Time passes.
LEMMA SubTick ==
  ASSUME SubInv, Sub!TypeOK', Sub!Tick
  PROVE  SubInv'
<1>1. links' = links /\ billing' = billing /\ shop' = shop /\ req' = req /\ comps' = comps
  BY DEF Sub!Tick, Sub!db
<1>2. now <= now' /\ comps <= comps'
  BY <1>1 DEF Sub!Tick, SubInv, Sub!TypeOK
<1>3. shop'.expires <= now' + Granted(Activated)' + comps'
  BY <1>1, <1>2, QuietForward, OwnDate
<1> QED
  BY <1>1, <1>2, <1>3, QuietStep

\* A request is loaded: its copy is the row, whose link is not applied.
LEMMA SubLoad ==
  ASSUME SubInv, Sub!TypeOK', NEW r \in Requests, Sub!Load(r)
  PROVE  SubInv'
<1>1. /\ links' = links /\ billing' = billing /\ shop' = shop
      /\ now' = now /\ comps' = comps
  BY DEF Sub!Load, Sub!db
<1>2. now <= now' /\ comps <= comps'
  BY <1>1 DEF SubInv, Sub!TypeOK
<1>3. Forward /\ Activated' = Activated /\ Granted(Activated)' = Granted(Activated)
  BY <1>1, <1>2, QuietForward
<1>4. shop'.expires <= now' + Granted(Activated)' + comps'
  BY <1>1, <1>3 DEF SubInv
<1>5. SlotsOK
  BY DEF SubInv, Sub!TypeOK, SlotsOK
<1>6. PICK op \in Sub!Ops :
        req' = [req EXCEPT ![r] = [pc |-> "loaded", op |-> op, got |-> shop, link |-> 0]]
  BY DEF Sub!Load
<1>7. /\ req'[r] = [pc |-> "loaded", op |-> op, got |-> shop, link |-> 0]
      /\ \A s \in Requests : s # r => req'[s] = req[s]
  BY <1>5, <1>6 DEF SlotsOK
<1>8. Activated' \ {shop.pending} = Activated
  <2>1. shop.pending \notin Activated
    <3>1. 0 \notin Activated
      <4>1. Activated \subseteq DOMAIN links /\ Sub!TypeOK
        BY DEF SubInv, LinksOK
      <4> QED
        BY <4>1, LinkType DEF Sub!TypeOK
    <3> QED
      BY <3>1 DEF SubInv, LinksOK
  <2> QED
    BY <1>3, <2>1
<1>9. Granted(Activated \ {shop.pending})' = Granted(Activated)
  <2>1. Plan' = Plan
    BY <1>1 DEF Plan
  <2> QED
    BY <1>1, <1>8, <2>1 DEF Granted
<1>10. RequestOK(req[r])'
  <2> DEFINE q == [pc |-> "loaded", op |-> op, got |-> shop, link |-> 0]
  <2>1. q.pc = "loaded" /\ q.got = shop
    OBVIOUS
  <2>2. shop.expires <= now' + Granted(Activated \ {shop.pending})' + comps'
    BY <1>1, <1>9 DEF SubInv
  <2>3. shop.pending # 0 => shop.pending \in DOMAIN links' /\ links'[shop.pending].sent
    BY <1>1 DEF SubInv, LinksOK
  <2> HIDE DEF q
  <2>4. req'[r] = q
    BY <1>7 DEF q
  <2> QED
    BY <1>1, <2>1, <2>2, <2>3, <2>4 DEF RequestOK, Makes
<1>11. ~ Makes(req'[r])
  BY <1>7 DEF Makes
<1> QED
  BY <1>1, <1>2, <1>4, <1>7, <1>10, <1>11, QuietStep

\* The end of a request: what remains is the date.
LEMMA SubEnd ==
  ASSUME SubInv, Sub!TypeOK', NEW r \in Requests, Sub!Done(r),
         links' = links, billing' = billing, now' = now, comps <= comps',
         shop'.pending \in {0, shop.pending},
         shop'.expires <= now' + Granted(Activated)' + comps'
  PROVE  SubInv'
<1>1. SlotsOK
  BY DEF SubInv, Sub!TypeOK, SlotsOK
<1>2. req'[r] = Sub!Idle /\ \A s \in Requests : s # r => req'[s] = req[s]
  BY <1>1, SubDone
<1>3. ~ Makes(req'[r]) /\ RequestOK(req[r])'
  BY <1>2 DEF Makes, RequestOK, Sub!Idle
<1>4. now <= now'
  BY DEF SubInv, Sub!TypeOK
<1> QED
  BY <1>2, <1>3, <1>4, QuietStep

\* Requests that end without an UPDATE: refused, or after the invoice.
LEMMA SubReturn ==
  ASSUME SubInv, Sub!TypeOK', NEW r \in Requests, Sub!Return(r) \/ Sub!IssueSubscription(r)
  PROVE  SubInv'
<1>1. /\ links' = links /\ billing' = billing /\ now' = now /\ comps' = comps
      /\ shop' = shop /\ Sub!Done(r)
  BY DEF Sub!Return, Sub!IssueSubscription, Sub!db
<1>2. now <= now' /\ comps <= comps'
  BY <1>1 DEF SubInv, Sub!TypeOK
<1>3. shop'.expires <= now' + Granted(Activated)' + comps'
  BY <1>1, <1>2, QuietForward, OwnDate
<1> QED
  BY <1>1, <1>2, <1>3, SubEnd

\* What Commit writes, column by column.
LEMMA CommitIs ==
  ASSUME NEW r, NEW new, Sub!Commit(r, new)
  PROVE  /\ shop'.status = Sub!Flush(shop.status, req[r].got.status, new.status)
         /\ shop'.expires = Sub!Flush(shop.expires, req[r].got.expires, new.expires)
         /\ shop'.pending = Sub!Flush(shop.pending, req[r].got.pending, new.pending)
  BY DEF Sub!Commit

\* A commit of another status touches neither date nor link.
LEMMA StatusCommit ==
  ASSUME SubInv, NEW r \in Requests, req[r] # Sub!Idle, NEW st,
         Sub!Commit(r, [req[r].got EXCEPT !.status = st])
  PROVE  shop'.expires = shop.expires /\ shop'.pending = shop.pending
<1> DEFINE got == req[r].got
           new == [got EXCEPT !.status = st]
<1>1. got \in Sub!Shop
  <2>1. SlotsOK
    BY DEF SubInv, Sub!TypeOK, SlotsOK
  <2> QED
    BY <2>1, SubRequest
<1>2. new.expires = got.expires /\ new.pending = got.pending
  BY <1>1 DEF Sub!Shop
<1> HIDE DEF new
<1> QED
  BY <1>2, CommitIs DEF Sub!Flush, new

\* The lazy end, a request for approval and the admin's other statuses.
LEMMA SubStatus ==
  ASSUME SubInv, Sub!TypeOK', NEW r \in Requests,
         Sub!Lapse(r) \/ Sub!RequestSell(r) \/ Sub!Override(r)
  PROVE  SubInv'
<1>1. /\ links' = links /\ billing' = billing /\ now' = now /\ comps' = comps /\ Sub!Done(r)
      /\ req[r].pc = "loaded"
  BY DEF Sub!Lapse, Sub!RequestSell, Sub!Override
<1>2. now <= now' /\ comps <= comps' /\ req[r] # Sub!Idle
  <2>1. req[r] # Sub!Idle
    BY <1>1, BusyRequest
  <2> QED
    BY <1>1, <2>1 DEF SubInv, Sub!TypeOK
<1>3. shop'.expires = shop.expires /\ shop'.pending = shop.pending
  <2>1. PICK st : Sub!Commit(r, [req[r].got EXCEPT !.status = st])
    BY DEF Sub!Lapse, Sub!RequestSell, Sub!Override, Sub!Lapsed
  <2> QED
    BY <1>2, <2>1, StatusCommit
<1>4. shop'.expires <= now' + Granted(Activated)' + comps'
  BY <1>1, <1>2, <1>3, QuietForward, OwnDate
<1> QED
  BY <1>1, <1>2, <1>3, <1>4, SubEnd

\* The admin's approval gives a month where there is no date, and counts it.
LEMMA SubApprove ==
  ASSUME SubInv, Sub!TypeOK', NEW r \in Requests, Sub!Approve(r)
  PROVE  SubInv'
<1> DEFINE q == req[r]
           new == [status |-> "approved", expires |-> Sub!Comp(q.got), pending |-> 0]
           M == Months["monthly"]
<1>1. /\ links' = links /\ billing' = billing /\ now' = now /\ Sub!Done(r)
      /\ q.pc = "loaded" /\ Sub!Commit(r, new)
      /\ comps' = IF q.got.expires = 0 THEN comps + M ELSE comps
  BY DEF Sub!Approve
<1>2. now \in Nat /\ comps \in Nat /\ M \in Nat
  BY PlanAssumption, BoundsAssumption DEF SubInv, Sub!TypeOK
<1>3. comps <= comps' /\ now <= now'
  BY <1>1, <1>2
<1>4. Forward /\ Granted(Activated)' = Granted(Activated)
  BY <1>1, <1>3, QuietForward
<1>5. Granted(Activated) \in Nat
  BY <1>4, GrantedGrows DEF SubInv, LinksOK, Forward
<1>6. shop'.pending \in {0, shop.pending}
  <2>1. new.pending = 0
    OBVIOUS
  <2> HIDE DEF new
  <2> QED
    BY <1>1, <2>1, CommitIs DEF Sub!Flush
<1>7. shop'.expires <= now' + Granted(Activated)' + comps'
  <2>1. shop.expires <= now' + Granted(Activated)' + comps'
    BY <1>4, OwnDate
  <2>2. \/ shop'.expires = shop.expires
        \/ shop'.expires = Sub!Comp(q.got) /\ Sub!Comp(q.got) # q.got.expires
    <3>1. new.expires = Sub!Comp(q.got)
      OBVIOUS
    <3> HIDE DEF new
    <3>2. shop'.expires = Sub!Flush(shop.expires, q.got.expires, new.expires)
      BY <1>1, CommitIs
    <3> QED
      BY <3>1, <3>2 DEF Sub!Flush
  <2>3. CASE shop'.expires = Sub!Comp(q.got) /\ Sub!Comp(q.got) # q.got.expires
    <3>1. shop'.expires = now + M /\ comps' = comps + M
      BY <1>1, <2>3 DEF Sub!Comp
    <3>2. now + M <= now + Granted(Activated) + (comps + M)
      BY <1>2, <1>5
    <3> QED
      BY <1>1, <1>4, <3>1, <3>2
  <2> QED
    BY <2>1, <2>2, <2>3
<1> QED
  BY <1>1, <1>3, <1>6, <1>7, SubEnd

\* A poll takes the link of its copy, once the gateway says it is paid.
LEMMA SubPoll ==
  ASSUME SubInv, Sub!TypeOK', NEW r \in Requests, Sub!Poll(r)
  PROVE  SubInv'
<1> DEFINE p == req[r].got.pending
           q == IF Sub!PaidAtGateway(p) THEN [req[r] EXCEPT !.pc = "called", !.link = p]
                ELSE [req[r] EXCEPT !.op = "status"]
<1>1. /\ links' = links /\ billing' = billing /\ now' = now /\ comps' = comps
      /\ shop' = shop /\ req' = [req EXCEPT ![r] = q]
      /\ req[r].pc = "loaded" /\ req[r].op = "confirm" /\ p # 0
  BY DEF Sub!Poll, Sub!db
<1>2. now <= now' /\ comps <= comps'
  BY <1>1 DEF SubInv, Sub!TypeOK
<1>3. Forward /\ Activated' = Activated /\ Granted(Activated)' = Granted(Activated)
  BY <1>1, <1>2, QuietForward
<1>4. shop'.expires <= now' + Granted(Activated)' + comps'
  BY <1>1, <1>3, OwnDate
<1>5. SlotsOK
  BY DEF SubInv, Sub!TypeOK, SlotsOK
<1>6. req[r] # Sub!Idle /\ RequestOK(req[r])
  BY <1>1, BusyRequest DEF SubInv
<1>7. req[r] \in Sub!Request
  BY <1>5, <1>6, SubRequest
<1>8. /\ q.got = req[r].got /\ ~ Makes(q) /\ q.pc # "activated"
      /\ q.pc = "called" => q.link = p /\ links[p].paid
  BY <1>1, <1>7 DEF Sub!Request, Sub!PaidAtGateway, Makes
<1> HIDE DEF q
<1>9. req'[r] = q /\ \A s \in Requests : s # r => req'[s] = req[s]
  BY <1>1, <1>5 DEF SlotsOK
<1>10. Granted(Activated \ {p})' = Granted(Activated \ {p})
  <2>1. Plan' = Plan
    BY <1>1 DEF Plan
  <2>2. req'[r].got.pending = p
    BY <1>8, <1>9
  <2> PICK c : c = p
    OBVIOUS
  <2>3. Granted(Activated \ {c})' = Granted(Activated \ {c})
    BY <1>3, <2>1 DEF Granted
  <2> QED
    BY <2>2, <2>3
<1>11. RequestOK(req[r])'
  <2>1. /\ p # 0 => p \in DOMAIN links' /\ links'[p].sent
        /\ p \in DOMAIN links
    BY <1>1, <1>6 DEF RequestOK
  <2>2. req[r].got.expires <= now' + Granted(Activated \ {p})' + comps'
    BY <1>1, <1>6, <1>10 DEF RequestOK
  <2>3. req'[r].got = req[r].got /\ ~ Makes(req[r])'
    BY <1>8, <1>9 DEF Makes
  <2>4. req'[r].pc = "called" => req'[r].link = p /\ links'[p].paid /\ p # 0
    BY <1>1, <1>8, <1>9
  <2>5. req'[r].pc # "activated"
    BY <1>8, <1>9
  <2> QED
    BY <2>1, <2>2, <2>3, <2>4, <2>5 DEF RequestOK
<1>12. ~ Makes(req'[r])
  BY <1>8, <1>9
<1> QED
  BY <1>1, <1>2, <1>4, <1>9, <1>11, <1>12, QuietStep

\* The gateway takes the money of a link that was sent.
LEMMA SubPay ==
  ASSUME SubInv, Sub!TypeOK', NEW l \in DOMAIN links, Sub!Pay(l)
  PROVE  SubInv'
<1> DEFINE x == [links[l] EXCEPT !.paid = TRUE]
<1>1. /\ shop' = shop /\ billing' = billing /\ now' = now /\ comps' = comps /\ req' = req
      /\ links' = [links EXCEPT ![l] = x] /\ links[l].sent
  BY DEF Sub!Pay, Sub!db
<1>2. /\ x.paid = TRUE /\ x.sent = links[l].sent /\ x.cadence = links[l].cadence
  <2>1. links[l] \in [cadence : Sub!Cadences, paid : BOOLEAN, sent : BOOLEAN]
    BY LinkType DEF SubInv, Sub!TypeOK
  <2> QED
    BY <2>1
<1> HIDE DEF x
<1>3. /\ DOMAIN links' = DOMAIN links /\ links'[l] = x
      /\ \A k \in DOMAIN links : k # l => links'[k] = links[k]
  BY <1>1
<1>4. Activated' = Activated
  BY <1>1 DEF Activated
<1>5. Forward
  <2>1. now <= now' /\ comps <= comps'
    BY <1>1 DEF SubInv, Sub!TypeOK
  <2>2. \A k \in DOMAIN links : /\ links'[k].cadence = links[k].cadence
                                /\ links[k].sent => links'[k].sent
                                /\ links[k].paid => links'[k].paid
    BY <1>2, <1>3
  <2>3. Activated \subseteq DOMAIN links
    BY DEF SubInv, LinksOK
  <2>4. /\ DOMAIN links \subseteq DOMAIN links' /\ Activated \subseteq Activated'
        /\ Activated' \subseteq DOMAIN links'
    BY <1>3, <1>4, <2>3
  <2> QED
    BY <2>1, <2>2, <2>4 DEF Forward
<1>6. LinksOK'
  <2>1. \A k \in DOMAIN links' : links'[k].paid => links'[k].sent
    BY <1>1, <1>2, <1>3 DEF SubInv, LinksOK
  <2>2. \A k \in Activated' : k \in DOMAIN links' /\ links'[k].paid
    BY <1>2, <1>3, <1>4 DEF SubInv, LinksOK
  <2>3. shop'.pending # 0 => /\ shop'.pending \in DOMAIN links' /\ links'[shop'.pending].sent
                            /\ shop'.pending \notin Activated'
    BY <1>1, <1>2, <1>3, <1>4 DEF SubInv, LinksOK
  <2> QED
    BY <2>1, <2>2, <2>3 DEF LinksOK
<1>7. OwnLinks'
  BY <1>1 DEF SubInv, OwnLinks, Makes
<1>8. ASSUME NEW s \in Requests, Makes(req[s])
      PROVE  ~ links'[req[s].link].sent
  <2>1. req[s].link \in DOMAIN links /\ ~ links[req[s].link].sent
    BY <1>8, BusyRequest DEF Makes
  <2> QED
    BY <1>1, <1>3, <2>1
<1>9. shop'.expires <= now' + Granted(Activated)' + comps'
  BY <1>1, <1>5, OwnDate
<1> QED
  BY <1>1, <1>5, <1>6, <1>7, <1>8, <1>9, SubFrame

\* A new link is the request's own and not sent yet.
LEMMA SubCreate ==
  ASSUME SubInv, Sub!TypeOK', NEW r \in Requests, Sub!CreateLink(r)
  PROVE  SubInv'
<1> DEFINE n == Len(links) + 1
           q == [req[r] EXCEPT !.pc = "called", !.link = n]
<1>1. PICK c \in Sub!Cadences :
        links' = Append(links, [cadence |-> c, paid |-> FALSE, sent |-> FALSE])
  BY DEF Sub!CreateLink
<1>2. /\ shop' = shop /\ billing' = billing /\ now' = now /\ comps' = comps
      /\ req' = [req EXCEPT ![r] = q] /\ req[r].pc = "loaded" /\ req[r].op = "create"
  BY DEF Sub!CreateLink, Sub!db
<1> DEFINE T == [cadence : Sub!Cadences, paid : BOOLEAN, sent : BOOLEAN]
           new == [cadence |-> c, paid |-> FALSE, sent |-> FALSE]
<1>3. /\ DOMAIN links' = DOMAIN links \cup {n} /\ links'[n] = new /\ n \notin DOMAIN links
      /\ \A l \in DOMAIN links : links'[l] = links[l]
  <2>1. links \in Seq(T) /\ new \in T
    BY DEF SubInv, Sub!TypeOK
  <2>2. DOMAIN links = 1 .. Len(links) /\ Len(links) \in Nat
    BY <2>1, LinkType
  <2> HIDE DEF T, new
  <2>3. /\ Len(links') = Len(links) + 1 /\ links'[n] = new /\ links' \in Seq(T)
        /\ \A l \in 1 .. Len(links) : links'[l] = links[l]
    BY <1>1, <2>1, AppendProperties DEF new
  <2>4. DOMAIN links' = 1 .. Len(links')
    BY <2>3, LenProperties
  <2> QED
    BY <2>2, <2>3, <2>4
<1>4. ~ new.sent /\ ~ new.paid /\ n # 0
  <2>1. Len(links) \in Nat
    BY LinkType DEF SubInv, Sub!TypeOK
  <2> QED
    BY <2>1
<1> HIDE DEF new, n
<1>5. Activated' = Activated /\ Activated \subseteq DOMAIN links
  BY <1>2 DEF Activated, SubInv, LinksOK
<1>6. Forward
  <2>1. now <= now' /\ comps <= comps'
    BY <1>2 DEF SubInv, Sub!TypeOK
  <2>2. \A k \in DOMAIN links : /\ links'[k].cadence = links[k].cadence
                                /\ links[k].sent => links'[k].sent
                                /\ links[k].paid => links'[k].paid
    BY <1>3
  <2>3. /\ DOMAIN links \subseteq DOMAIN links' /\ Activated \subseteq Activated'
        /\ Activated' \subseteq DOMAIN links'
    BY <1>3, <1>5
  <2> QED
    BY <2>1, <2>2, <2>3 DEF Forward
<1>7. LinksOK'
  <2>1. \A k \in DOMAIN links' : links'[k].paid => links'[k].sent
    BY <1>3, <1>4 DEF SubInv, LinksOK
  <2>2. \A k \in Activated' : k \in DOMAIN links' /\ links'[k].paid
    BY <1>3, <1>5 DEF SubInv, LinksOK
  <2>3. shop'.pending # 0 => /\ shop'.pending \in DOMAIN links' /\ links'[shop'.pending].sent
                            /\ shop'.pending \notin Activated'
    BY <1>2, <1>3, <1>5 DEF SubInv, LinksOK
  <2> QED
    BY <2>1, <2>2, <2>3 DEF LinksOK
<1>8. SlotsOK /\ req[r] # Sub!Idle /\ RequestOK(req[r])
  BY <1>2, BusyRequest DEF SubInv, Sub!TypeOK, SlotsOK
<1>9. req[r] \in Sub!Request
  BY <1>8, SubRequest
<1>10. /\ q.got = req[r].got /\ q.pc = "called" /\ q.op = "create" /\ q.link = n
  BY <1>2, <1>9 DEF Sub!Request
<1> HIDE DEF q
<1>11. req'[r] = q /\ \A s \in Requests : s # r => req'[s] = req[s]
  BY <1>2, <1>8 DEF SlotsOK
<1>12. ASSUME NEW s \in Requests, Makes(req[s])
       PROVE  /\ ~ links'[req[s].link].sent /\ req[s].link \in DOMAIN links
  <2>1. req[s].link \in DOMAIN links /\ ~ links[req[s].link].sent
    BY <1>12, BusyRequest DEF Makes
  <2> QED
    BY <1>3, <2>1
<1>13. OwnLinks'
  <2> SUFFICES ASSUME NEW s \in Requests, NEW t \in Requests, s # t,
                      Makes(req'[s]), Makes(req'[t])
               PROVE  req'[s].link # req'[t].link
    BY DEF OwnLinks, Makes
  <2>1. CASE s # r /\ t # r
    BY <1>11, <2>1 DEF SubInv, OwnLinks
  <2>2. CASE s = r
    BY <1>3, <1>10, <1>11, <1>12, <2>2
  <2>3. CASE t = r
    BY <1>3, <1>10, <1>11, <1>12, <2>3
  <2> QED
    BY <2>1, <2>2, <2>3
<1>14. RequestOK(req[r])'
  <2> PICK p : p = req[r].got.pending
    OBVIOUS
  <2>1. /\ p # 0 => p \in DOMAIN links' /\ links'[p].sent
    BY <1>3, <1>8 DEF RequestOK
  <2>2. req[r].got.expires <= now' + Granted(Activated \ {p})' + comps'
    <3>1. req[r].got.expires \in Nat
      BY <1>8, SubRequest
    <3>2. req[r].got.expires <= now + Granted(Activated \ {p}) + comps
      BY <1>8 DEF RequestOK
    <3> PICK x \in Nat : x = req[r].got.expires
      BY <3>1
    <3>3. Activated \ {p} \subseteq DOMAIN links /\ Activated' \ {p} \subseteq DOMAIN links'
      BY <1>3, <1>5
    <3>4. x <= now' + SumOf(Plan', Activated' \ {p}) + comps'
      BY <1>5, <1>6, <3>2, <3>3, DateCovered DEF SubInv
    <3> QED
      BY <3>4 DEF Granted
  <2>3. req'[r].got = req[r].got /\ req'[r].pc = "called" /\ req'[r].op = "create"
    BY <1>10, <1>11
  <2>4. req'[r].link \in DOMAIN links' /\ ~ links'[req'[r].link].sent
    BY <1>3, <1>4, <1>10, <1>11
  <2> QED
    BY <2>1, <2>2, <2>3, <2>4 DEF RequestOK, Makes
<1>15. shop'.expires <= now' + Granted(Activated)' + comps'
  BY <1>2, <1>6, OwnDate
<1> QED
  BY <1>6, <1>7, <1>11, <1>12, <1>13, <1>14, <1>15, SubFrame

\* The link is stored and sent: it replaces the row's link, and no other
\* request makes the same one.
LEMMA SubStore ==
  ASSUME SubInv, Sub!TypeOK', NEW r \in Requests, Sub!StorePending(r)
  PROVE  SubInv'
<1> DEFINE q == req[r]
           l == q.link
           x == [links[l] EXCEPT !.sent = TRUE]
           new == [q.got EXCEPT !.pending = q.link,
                                !.status = IF @ = "approved" THEN @ ELSE "pending"]
<1>1. /\ links' = [links EXCEPT ![l] = x] /\ billing' = billing /\ now' = now /\ comps' = comps
      /\ q.pc = "called" /\ q.op = "create" /\ Sub!Commit(r, new) /\ Sub!Done(r)
  BY DEF Sub!StorePending
<1>2. SlotsOK /\ q # Sub!Idle /\ Makes(q) /\ l \in DOMAIN links /\ ~ links[l].sent
  BY <1>1, BusyRequest DEF SubInv, Sub!TypeOK, SlotsOK, Makes
<1>3. shop'.expires = shop.expires /\ shop'.pending \in {shop.pending, l}
  <2>1. q.got \in Sub!Shop
    BY <1>2, SubRequest
  <2>2. new.expires = q.got.expires /\ new.pending = l
    BY <2>1 DEF Sub!Shop
  <2> HIDE DEF new, l
  <2>3. /\ shop'.expires = Sub!Flush(shop.expires, q.got.expires, new.expires)
        /\ shop'.pending = Sub!Flush(shop.pending, q.got.pending, new.pending)
    BY <1>1, CommitIs
  <2> QED
    BY <2>2, <2>3 DEF Sub!Flush
<1>4. x.paid = links[l].paid /\ x.sent = TRUE /\ x.cadence = links[l].cadence
  <2>1. links[l] \in [cadence : Sub!Cadences, paid : BOOLEAN, sent : BOOLEAN]
    BY <1>2, LinkType DEF SubInv, Sub!TypeOK
  <2> QED
    BY <2>1
<1> HIDE DEF x, new
<1>5. /\ DOMAIN links' = DOMAIN links /\ links'[l] = x
      /\ \A k \in DOMAIN links : k # l => links'[k] = links[k]
  BY <1>1, <1>2
<1>6. /\ Activated' = Activated /\ Activated \subseteq DOMAIN links
      /\ l \notin Activated
  BY <1>1, <1>2 DEF Activated, SubInv, LinksOK
<1> HIDE DEF l
<1>7. Forward
  <2>1. now <= now' /\ comps <= comps'
    BY <1>1 DEF SubInv, Sub!TypeOK
  <2>2. \A k \in DOMAIN links : /\ links'[k].cadence = links[k].cadence
                                /\ links[k].sent => links'[k].sent
                                /\ links[k].paid => links'[k].paid
    BY <1>4, <1>5
  <2>3. /\ DOMAIN links \subseteq DOMAIN links' /\ Activated \subseteq Activated'
        /\ Activated' \subseteq DOMAIN links'
    BY <1>5, <1>6
  <2> QED
    BY <2>1, <2>2, <2>3 DEF Forward
<1>8. LinksOK'
  <2>1. \A k \in DOMAIN links' : links'[k].paid => links'[k].sent
    BY <1>4, <1>5 DEF SubInv, LinksOK
  <2>2. \A k \in Activated' : k \in DOMAIN links' /\ links'[k].paid
    BY <1>4, <1>5, <1>6 DEF SubInv, LinksOK
  <2>3. shop'.pending # 0 => /\ shop'.pending \in DOMAIN links' /\ links'[shop'.pending].sent
                             /\ shop'.pending \notin Activated'
    BY <1>2, <1>3, <1>4, <1>5, <1>6 DEF SubInv, LinksOK
  <2> QED
    BY <2>1, <2>2, <2>3 DEF LinksOK
<1>9. req'[r] = Sub!Idle /\ \A s \in Requests : s # r => req'[s] = req[s]
  BY <1>1, <1>2, SubDone
<1>10. RequestOK(req[r])' /\ ~ Makes(req'[r])
  BY <1>9 DEF Makes, RequestOK, Sub!Idle
<1>11. ASSUME NEW s \in Requests, s # r, Makes(req[s])
       PROVE  ~ links'[req[s].link].sent
  <2>1. req[s].link \in DOMAIN links /\ ~ links[req[s].link].sent
    BY <1>11, BusyRequest DEF Makes
  <2>2. req[s].link # l
    BY <1>2, <1>11 DEF SubInv, OwnLinks, l
  <2> QED
    BY <1>5, <2>1, <2>2
<1>12. OwnLinks'
  <2> SUFFICES ASSUME NEW s \in Requests, NEW t \in Requests, s # t,
                      Makes(req'[s]), Makes(req'[t])
               PROVE  req'[s].link # req'[t].link
    BY DEF OwnLinks, Makes
  <2>1. s # r /\ t # r
    BY <1>10
  <2> QED
    BY <1>9, <2>1 DEF SubInv, OwnLinks
<1>13. shop'.expires <= now' + Granted(Activated)' + comps'
  BY <1>3, <1>7, OwnDate
<1> QED
  BY <1>7, <1>8, <1>9, <1>10, <1>11, <1>12, <1>13, SubFrame

\* The heart of the matter: whatever the copy is worth, adding the plan of its
\* link stays within the time bought, for the copy was loaded without it.
LEMMA SubActivate ==
  ASSUME SubInv, Sub!TypeOK', NEW r \in Requests, Sub!ActivatePaid(r)
  PROVE  SubInv'
<1> DEFINE q == req[r]
           l == q.link
           A == Activated
           new == [status |-> "approved", expires |-> Sub!Extend(r), pending |-> Sub!Pending(q.got)]
           q1 == [q EXCEPT !.pc = "activated"]
<1>1. /\ links' = links /\ billing' = Append(billing, l) /\ now' = now /\ comps' = comps
      /\ q.pc = "called" /\ q.op = "confirm" /\ Sub!Commit(r, new)
      /\ req' = [req EXCEPT ![r] = q1]
  BY DEF Sub!ActivatePaid
<1>2. /\ SlotsOK /\ q # Sub!Idle /\ RequestOK(q) /\ ~ Makes(q)
      /\ l = q.got.pending /\ l # 0 /\ links[l].paid /\ l \in DOMAIN links
  BY <1>1, BusyRequest DEF SubInv, Sub!TypeOK, SlotsOK, Makes
<1>3. /\ q \in Sub!Request /\ q.got.expires \in Nat
  BY <1>2, SubRequest
<1>4. q1.got = q.got /\ q1.pc = "activated" /\ q1.link = l
  BY <1>3 DEF Sub!Request
<1>5. new.expires = Sub!Extend(r) /\ new.pending = 0
  BY DEF Sub!Pending
<1> HIDE DEF new, q1
<1>6. shop'.pending = 0 /\ shop'.expires \in {shop.expires, Sub!Extend(r)}
  <2>1. /\ shop'.expires = Sub!Flush(shop.expires, q.got.expires, new.expires)
        /\ shop'.pending = Sub!Flush(shop.pending, q.got.pending, new.pending)
    BY <1>1, CommitIs
  <2> QED
    BY <1>2, <1>5, <2>1 DEF Sub!Flush
<1>7. A' = A \cup {l} /\ A \subseteq DOMAIN links
  <2>1. billing \in Seq(Sub!Link) /\ l \in Sub!Link
    <3>1. l \in 0 .. MaxLinks
      BY <1>2, SubRequest
    <3> QED
      BY PlanAssumption, BoundsAssumption, <1>2, <3>1 DEF SubInv, Sub!TypeOK, Sub!Link
  <2> HIDE DEF l
  <2>2. /\ Len(billing') = Len(billing) + 1 /\ billing'[Len(billing) + 1] = l
        /\ billing' \in Seq(Sub!Link) /\ \A i \in 1 .. Len(billing) : billing'[i] = billing[i]
    BY <1>1, <2>1, AppendProperties
  <2>3. /\ DOMAIN billing = 1 .. Len(billing) /\ DOMAIN billing' = 1 .. Len(billing')
        /\ Len(billing) \in Nat
    BY <2>1, <2>2, LenProperties
  <2>4. DOMAIN billing' = DOMAIN billing \cup {Len(billing) + 1}
    BY <2>2, <2>3
  <2>5. A' = {billing'[i] : i \in DOMAIN billing'} /\ A = {billing[i] : i \in DOMAIN billing}
    BY DEF Activated, Range
  <2>6. A' = A \cup {l}
    BY <2>2, <2>3, <2>4, <2>5
  <2> QED
    BY <2>6 DEF SubInv, LinksOK
<1>8. Forward
  <2>1. now <= now' /\ comps <= comps'
    BY <1>1 DEF SubInv, Sub!TypeOK
  <2> QED
    BY <1>1, <1>2, <1>7, <2>1 DEF Forward
<1>9. LinksOK'
  <2>1. \A k \in A' : k \in DOMAIN links' /\ links'[k].paid
    BY <1>1, <1>2, <1>7 DEF SubInv, LinksOK
  <2> QED
    BY <1>1, <1>6, <2>1 DEF SubInv, LinksOK
<1>10. req'[r] = q1 /\ \A s \in Requests : s # r => req'[s] = req[s]
  BY <1>1, <1>2 DEF SlotsOK
<1>11. ~ Makes(req'[r])
  BY <1>4, <1>10 DEF Makes
<1>12. OwnLinks'
  BY <1>10, <1>11 DEF SubInv, OwnLinks, Makes
<1>13. ASSUME NEW s \in Requests, Makes(req[s])
       PROVE  ~ links'[req[s].link].sent
  BY <1>1, <1>13, BusyRequest DEF Makes
<1>14. RequestOK(req[r])'
  <2>1. l \in DOMAIN links' /\ links'[l].sent /\ l \in Activated'
    BY <1>1, <1>2, <1>7 DEF RequestOK
  <2>2. q.got.expires <= now' + SumOf(Plan', Activated' \ {l}) + comps'
    <3>1. q.got.expires <= now + Granted(A \ {l}) + comps
      BY <1>2 DEF RequestOK
    <3>2. /\ A \ {l} \subseteq DOMAIN links /\ A \ {l} \subseteq Activated' \ {l}
          /\ Activated' \ {l} \subseteq DOMAIN links'
      BY <1>7, <1>8 DEF Forward
    <3> HIDE DEF l, A
    <3> PICK x \in Nat : x = q.got.expires
      BY <1>3
    <3>3. x <= now' + SumOf(Plan', Activated' \ {l}) + comps'
      BY <1>8, <3>1, <3>2, DateCovered DEF SubInv
    <3> QED
      BY <3>3
  <2>3. req'[r].got.pending = l /\ req'[r].got = q.got
    BY <1>2, <1>4, <1>10
  <2>4. req'[r].got.expires <= now' + Granted(Activated \ {req[r].got.pending})' + comps'
    BY <2>2, <2>3 DEF Granted
  <2> QED
    BY <1>4, <1>10, <1>11, <2>1, <2>3, <2>4 DEF RequestOK, Makes
<1>15. shop'.expires <= now' + Granted(Activated)' + comps'
  <2>1. CASE shop'.expires = shop.expires
    BY <1>8, <2>1, OwnDate
  <2>2. CASE shop'.expires = Sub!Extend(r)
    <3> DEFINE M == Months[links[l].cadence]
               G == Granted(A \ {l})
    <3>1. Plan[l] = M /\ M \in Nat /\ \A k \in DOMAIN links : Plan[k] \in Nat
      BY <1>2, LinkType DEF SubInv, Sub!TypeOK
    <3>2. IsFiniteSet(A \ {l})
      <4>1. DOMAIN links = 1 .. Len(links) /\ Len(links) \in Nat
        BY LinkType DEF SubInv, Sub!TypeOK
      <4>2. IsFiniteSet(DOMAIN links)
        BY <4>1, FS_Interval
      <4> QED
        BY <1>7, <4>2, FS_Subset
    <3>3. Granted(Activated)' = G + M
      <4>1. Plan' = Plan
        BY <1>1 DEF Plan
      <4>2. A' \ {l} = A \ {l} /\ l \in A' /\ A' \subseteq DOMAIN links
        BY <1>2, <1>7
      <4>3. IsFiniteSet(A')
        <5>1. IsFiniteSet((A \ {l}) \cup {l}) /\ A' = (A \ {l}) \cup {l}
          BY <1>7, <3>2, FS_AddElement
        <5> QED
          BY <5>1
      <4> DEFINE f == Plan
                 S == A'
      <4>4. \A k \in S : f[k] \in Nat
        BY <3>1, <4>2
      <4>5. f[l] = M /\ f[l] \in Nat /\ SumOf(f, A \ {l}) = G
        BY <3>1 DEF Granted
      <4>6. Granted(Activated)' = SumOf(f, S)
        BY <4>1 DEF Granted
      <4> HIDE DEF f, S, M, G
      <4>7. SumOf(f, S) = f[l] + SumOf(f, S \ {l})
        <5>1. \A k \in S : f[k] \in Int
          BY <4>4
        <5>2. IsFiniteSet(S) /\ l \in S
          BY <4>2, <4>3 DEF S
        <5> HIDE DEF l
        <5> QED
          BY <5>1, <5>2, SumPick
      <4>8. SumOf(f, S \ {l}) = G /\ G \in Nat
        <5>1. S \ {l} = A \ {l}
          BY <4>2 DEF S
        <5>2. G \in Nat
          BY <1>7, <1>8, GrantedGrows DEF SubInv, Forward, G
        <5> HIDE DEF l
        <5> QED
          BY <4>5, <5>1, <5>2
      <4> HIDE DEF l
      <4> QED
        BY <4>5, <4>6, <4>7, <4>8
    <3>4. G \in Nat
      BY <1>7, <1>8, GrantedGrows DEF SubInv, Forward
    <3>5. Sub!Base(q.got) \in {q.got.expires, now}
      BY DEF Sub!Base
    <3>6. Sub!Extend(r) = Sub!Base(q.got) + M
      BY DEF Sub!Extend
    <3>7. q.got.expires <= now + G + comps
      BY <1>2 DEF RequestOK
    <3>8. now \in Nat /\ comps \in Nat
      BY DEF SubInv, Sub!TypeOK
    <3> HIDE DEF M, G, l, q
    <3>9. Sub!Base(q.got) + M <= now + (G + M) + comps
      BY <1>3, <3>1, <3>4, <3>5, <3>7, <3>8
    <3> QED
      BY <1>1, <2>2, <3>3, <3>6, <3>9
  <2> QED
    BY <1>6, <2>1, <2>2
<1> QED
  BY <1>8, <1>9, <1>10, <1>12, <1>13, <1>14, <1>15, SubFrame

\* Every step keeps what holds however requests overlap.
LEMMA SubStep ==
  ASSUME SubInv, [Sub!Next]_Sub!vars
  PROVE  SubInv'
<1>1. Sub!TypeOK'
  BY SubTypeStep
<1>2. CASE UNCHANGED Sub!vars
  <2>1. /\ links' = links /\ billing' = billing /\ shop' = shop /\ req' = req
        /\ now' = now /\ comps' = comps
    BY <1>2 DEF Sub!vars
  <2>2. now <= now' /\ comps <= comps'
    BY <2>1 DEF SubInv, Sub!TypeOK
  <2>3. shop'.expires <= now' + Granted(Activated)' + comps'
    BY <2>1, <2>2, <1>1, QuietForward, OwnDate
  <2> QED
    BY <1>1, <2>1, <2>2, <2>3, QuietStep
<1> QED
  BY <1>1, <1>2, SubTick, SubPay, SubLoad, SubCreate, SubStore, SubPoll, SubActivate, SubReturn,
     SubStatus, SubApprove DEF Sub!Next

\* A shop without a subscription.
LEMMA SubInit ==
  ASSUME Sub!Init
  PROVE  SubInv
<1>1. Sub!TypeOK
  <2>1. /\ <<>> \in Seq(Sub!Link)
        /\ <<>> \in Seq([cadence : Sub!Cadences, paid : BOOLEAN, sent : BOOLEAN])
    OBVIOUS
  <2> QED
    BY PlanAssumption, BoundsAssumption, <2>1 DEF Sub!Init, Sub!TypeOK, Sub!Shop, Sub!Statuses
<1>2. Activated = {} /\ \A r \in Requests : req[r] = Sub!Idle
  BY DEF Sub!Init, Activated, Range
<1>3. LinksOK
  BY <1>2 DEF Sub!Init, LinksOK
<1>4. \A r \in Requests : RequestOK(req[r]) /\ ~ Makes(req[r])
  BY <1>2 DEF RequestOK, Makes, Sub!Idle
<1>5. OwnLinks
  BY <1>4 DEF OwnLinks
<1>6. Granted(Activated) = 0
  <2> DEFINE f == Plan
  <2> HIDE DEF f
  <2>1. SumOf(f, {}) = 0
    BY FS_EmptySet, SumStep
  <2> QED
    BY <1>2, <2>1 DEF Granted, f
<1>7. shop.expires <= now + Granted(Activated) + comps
  BY <1>6 DEF Sub!Init
<1> QED
  BY <1>1, <1>3, <1>4, <1>5, <1>7 DEF SubInv

\* The months bought are the sum over the links that were applied.
LEMMA BoughtIs ==
  ASSUME SubInv
  PROVE  Bought = Granted(Activated)
<1> DEFINE f == Plan
           S == Activated
<1>1. {l \in Activated : links[l].paid} = S /\ S \subseteq DOMAIN links
  BY DEF SubInv, LinksOK
<1>2. IsFiniteSet(S)
  <2>1. DOMAIN links = 1 .. Len(links) /\ Len(links) \in Nat
    BY LinkType DEF SubInv, Sub!TypeOK
  <2>2. IsFiniteSet(DOMAIN links)
    BY <2>1, FS_Interval
  <2> QED
    BY <1>1, <2>2, FS_Subset
<1> DEFINE P(h) == h = [s \in SUBSET S |->
                          IF s = {} THEN 0
                          ELSE Months[links[Pick(s)].cadence] + h[s \ {Pick(s)}]]
           h1 == CHOOSE h : P(h)
<1>3. Bought = h1[S]
  BY <1>1 DEF Bought, MapThenSumSet, MapThenFoldSet, Pick
<1>4. \A h : P(h) <=> Adds(f, h, S)
  <2>1. \A s \in SUBSET S : s # {} => Pick(s) \in DOMAIN links
    BY <1>1 DEF Pick
  <2>2. ASSUME NEW h, NEW s \in SUBSET S
        PROVE  Body(f, h, s) = IF s = {} THEN 0
                               ELSE Months[links[Pick(s)].cadence] + h[s \ {Pick(s)}]
    BY <2>1 DEF Body, Plan
  <2> HIDE DEF S, f
  <2> QED
    BY <2>2 DEF Adds
<1> HIDE DEF S, P, f
<1>5. \E h : P(h)
  <2>1. \E h : Adds(f, h, S)
    BY <1>2, AddsExists
  <2> QED
    BY <1>4, <2>1
<1>6. P(h1)
  BY <1>5
<1> HIDE DEF h1
<1>7. SumOf(f, S) = h1[S]
  BY <1>2, <1>4, <1>6, SumIs
<1> QED
  BY <1>3, <1>7 DEF S, f, Granted

-----------------------------------------------------------------------------
\* Where requests do not overlap, the request that takes a step is the only one.
LEMMA SubAlone ==
  ASSUME OneByOne, NEW r \in Requests, req[r].pc \in {"loaded", "called", "activated"}
  PROVE  r = Sub!Alone /\ (req[r].pc # "activated" => req[r].got = shop)
<1>1. req[r] # Sub!Idle
  BY DEF Sub!Idle
<1> QED
  BY <1>1 DEF OneByOne

\* One slot is in use after a step of its request.
LEMMA OneByOneKept ==
  ASSUME OneByOne, Sub!Alone' = Sub!Alone, NEW r \in Requests, r = Sub!Alone,
         \A s \in Requests : s # r => req'[s] = req[s],
         req'[r].pc \in {"loaded", "called"} => req'[r].got = shop'
  PROVE  OneByOne'
<1>1. ASSUME NEW s \in Requests, s # Sub!Alone
      PROVE  req'[s] = Sub!Idle /\ ~ (req'[s].pc \in {"loaded", "called"})
  BY <1>1 DEF OneByOne, Sub!Idle
<1> QED
  BY <1>1 DEF OneByOne, Sub!Idle

\* A request that ends leaves the slot free.
LEMMA OneByOneDone ==
  ASSUME SubInv, OneByOne, Sub!Alone' = Sub!Alone, NEW r \in Requests, r = Sub!Alone, Sub!Done(r)
  PROVE  OneByOne'
<1>1. req'[r] = Sub!Idle /\ \A s \in Requests : s # r => req'[s] = req[s]
  BY SubDone DEF SubInv, Sub!TypeOK, SlotsOK
<1> QED
  BY <1>1, OneByOneKept DEF Sub!Idle

\* The slot and its copy, step by step.
LEMMA OneByOneStep ==
  ASSUME SubInv, ~ overlap, OneByOne, [Sub!Next]_Sub!vars
  PROVE  OneByOne'
<1>0. Sub!Alone' = Sub!Alone
  BY DEF Sub!Alone
<1>1. ASSUME req' = req, shop' = shop PROVE OneByOne'
  BY <1>0, <1>1 DEF OneByOne, Sub!Idle
<1>2. CASE Sub!Tick \/ (\E l \in DOMAIN links : Sub!Pay(l)) \/ UNCHANGED Sub!vars
  BY <1>1, <1>2 DEF Sub!Tick, Sub!Pay, Sub!vars, Sub!db
<1>3. SlotsOK
  BY DEF SubInv, Sub!TypeOK, SlotsOK
<1>4. ASSUME NEW r \in Requests, Sub!Load(r) PROVE OneByOne'
  <2>1. PICK op \in Sub!Ops :
          req' = [req EXCEPT ![r] = [pc |-> "loaded", op |-> op, got |-> shop, link |-> 0]]
    BY <1>4 DEF Sub!Load
  <2>2. /\ req'[r] = [pc |-> "loaded", op |-> op, got |-> shop, link |-> 0]
        /\ \A s \in Requests : s # r => req'[s] = req[s]
    BY <1>3, <2>1 DEF SlotsOK
  <2>3. r = Sub!Alone /\ shop' = shop
    BY <1>4 DEF Sub!Load, Sub!db
  <2>4. req'[r].got = shop'
    BY <2>2, <2>3
  <2> QED
    BY <1>0, <2>2, <2>3, <2>4, OneByOneKept
<1>5. ASSUME NEW r \in Requests, Sub!CreateLink(r) \/ Sub!Poll(r) PROVE OneByOne'
  <2>1. shop' = shop /\ req[r].pc = "loaded"
    BY <1>5 DEF Sub!CreateLink, Sub!Poll, Sub!db
  <2>2. r = Sub!Alone /\ req[r].got = shop /\ req[r] # Sub!Idle
    BY <2>1, SubAlone DEF Sub!Idle
  <2>3. req[r] \in Sub!Request
    BY <1>3, <2>2, SubRequest
  <2>4. PICK q : req' = [req EXCEPT ![r] = q] /\ q.got = req[r].got
    <3>1. CASE Sub!CreateLink(r)
      <4> DEFINE q == [req[r] EXCEPT !.pc = "called", !.link = Len(links) + 1]
      <4>1. q.got = req[r].got
        BY <2>3 DEF Sub!Request
      <4>2. req' = [req EXCEPT ![r] = q]
        BY <3>1 DEF Sub!CreateLink
      <4> HIDE DEF q
      <4> QED
        BY <4>1, <4>2
    <3>2. CASE Sub!Poll(r)
      <4> DEFINE q == IF Sub!PaidAtGateway(req[r].got.pending)
                        THEN [req[r] EXCEPT !.pc = "called", !.link = req[r].got.pending]
                        ELSE [req[r] EXCEPT !.op = "status"]
      <4>1. q.got = req[r].got
        BY <2>3 DEF Sub!Request
      <4>2. req' = [req EXCEPT ![r] = q]
        BY <3>2 DEF Sub!Poll
      <4> HIDE DEF q
      <4> QED
        BY <4>1, <4>2
    <3> QED
      BY <1>5, <3>1, <3>2
  <2>5. req'[r] = q /\ \A s \in Requests : s # r => req'[s] = req[s]
    BY <1>3, <2>4 DEF SlotsOK
  <2>6. req'[r].got = shop'
    BY <2>1, <2>2, <2>4, <2>5
  <2> QED
    BY <1>0, <2>2, <2>5, <2>6, OneByOneKept
<1>6. ASSUME NEW r \in Requests, Sub!ActivatePaid(r) PROVE OneByOne'
  <2>1. /\ req[r].pc = "called" /\ req' = [req EXCEPT ![r].pc = "activated"]
    BY <1>6 DEF Sub!ActivatePaid
  <2>2. r = Sub!Alone /\ req[r] # Sub!Idle
    BY <2>1, SubAlone DEF Sub!Idle
  <2>3. req[r] \in Sub!Request
    BY <1>3, <2>2, SubRequest
  <2>4. [req[r] EXCEPT !.pc = "activated"].pc = "activated"
    BY <2>3 DEF Sub!Request
  <2>5. req'[r].pc = "activated" /\ \A s \in Requests : s # r => req'[s] = req[s]
    BY <1>3, <2>1, <2>4 DEF SlotsOK
  <2> QED
    BY <1>0, <2>2, <2>5, OneByOneKept
<1>7. ASSUME NEW r \in Requests,
             \/ Sub!StorePending(r) \/ Sub!IssueSubscription(r) \/ Sub!Lapse(r)
             \/ Sub!RequestSell(r) \/ Sub!Approve(r) \/ Sub!Override(r)
      PROVE  OneByOne'
  <2>1. Sub!Done(r) /\ req[r].pc \in {"loaded", "called", "activated"}
    BY <1>7 DEF Sub!StorePending, Sub!IssueSubscription, Sub!Lapse, Sub!RequestSell, Sub!Approve,
             Sub!Override
  <2> QED
    BY <1>0, <2>1, SubAlone, OneByOneDone
<1>8. ASSUME NEW r \in Requests, Sub!Return(r) PROVE OneByOne'
  <2>1. Sub!Done(r) /\ r = Sub!Alone
    BY <1>8 DEF Sub!Return, OneByOne
  <2> QED
    BY <1>0, <2>1, OneByOneDone
<1> QED
  BY <1>2, <1>4, <1>5, <1>6, <1>7, <1>8 DEF Sub!Next

\* What the row's date and link become, one request at a time.
LEMMA SerialCommit ==
  ASSUME OneByOne, NEW r \in Requests, req[r].pc \in {"loaded", "called"},
         NEW new, Sub!Commit(r, new)
  PROVE  shop'.expires = new.expires /\ shop'.pending = new.pending
<1>1. req[r].got = shop
  BY DEF OneByOne
<1> QED
  BY <1>1, CommitIs DEF Sub!Flush

\* Links sent stay accounted for: a link leaves the row when it is applied,
\* when a newer one takes its place or when the admin clears it.
LEMMA SentStep ==
  ASSUME SubInv, SubInv', ~ overlap, OneByOne, SentCovered, [Sub!Next]_Sub!vars
  PROVE  SentCovered'
<1>1. ASSUME shop'.pending = shop.pending, billing' = billing, dropped' = dropped,
             \A l \in DOMAIN links' : links'[l].sent => l \in DOMAIN links /\ links[l].sent
      PROVE  SentCovered'
  <2>1. Activated' = Activated
    BY <1>1 DEF Activated
  <2> QED
    BY <1>1, <2>1 DEF SentCovered
<1>2. CASE UNCHANGED Sub!vars
  BY <1>1, <1>2 DEF Sub!vars
<1>3. CASE Sub!Tick
  BY <1>1, <1>3 DEF Sub!Tick, Sub!db
<1>4. ASSUME NEW l \in DOMAIN links, Sub!Pay(l) PROVE SentCovered'
  <2>1. /\ shop' = shop /\ billing' = billing /\ dropped' = dropped
        /\ links' = [links EXCEPT ![l].paid = TRUE] /\ links[l].sent
    BY <1>4 DEF Sub!Pay, Sub!db
  <2>2. DOMAIN links' = DOMAIN links /\ \A k \in DOMAIN links : k # l => links'[k] = links[k]
    BY <2>1
  <2> QED
    BY <1>1, <2>1, <2>2
<1>5. ASSUME NEW r \in Requests,
             \/ Sub!Load(r) \/ Sub!Poll(r) \/ Sub!IssueSubscription(r) \/ Sub!Return(r)
      PROVE  SentCovered'
  BY <1>1, <1>5 DEF Sub!Load, Sub!Poll, Sub!IssueSubscription, Sub!Return, Sub!db
<1>6. ASSUME NEW r \in Requests, Sub!CreateLink(r) PROVE SentCovered'
  <2>1. PICK c \in Sub!Cadences :
          links' = Append(links, [cadence |-> c, paid |-> FALSE, sent |-> FALSE])
    BY <1>6 DEF Sub!CreateLink
  <2>2. shop' = shop /\ billing' = billing /\ dropped' = dropped
    BY <1>6 DEF Sub!CreateLink, Sub!db
  <2> DEFINE T == [cadence : Sub!Cadences, paid : BOOLEAN, sent : BOOLEAN]
             new == [cadence |-> c, paid |-> FALSE, sent |-> FALSE]
  <2>3. links \in Seq(T) /\ new \in T /\ ~ new.sent
    BY DEF SubInv, Sub!TypeOK
  <2>4. DOMAIN links = 1 .. Len(links) /\ Len(links) \in Nat
    BY <2>3, LinkType
  <2> HIDE DEF T, new
  <2>5. /\ Len(links') = Len(links) + 1 /\ links'[Len(links) + 1] = new /\ links' \in Seq(T)
        /\ \A l \in 1 .. Len(links) : links'[l] = links[l]
    BY <2>1, <2>3, AppendProperties DEF new
  <2>6. DOMAIN links' = 1 .. Len(links')
    BY <2>5, LenProperties
  <2>7. \A l \in DOMAIN links' : links'[l].sent => l \in DOMAIN links /\ links[l].sent
    BY <2>3, <2>4, <2>5, <2>6
  <2> QED
    BY <1>1, <2>2, <2>7
<1>7. ASSUME NEW r \in Requests, Sub!StorePending(r) PROVE SentCovered'
  <2> DEFINE l == req[r].link
             new == [req[r].got EXCEPT !.pending = req[r].link,
                                       !.status = IF @ = "approved" THEN @ ELSE "pending"]
  <2>1. /\ req[r].pc = "called" /\ req[r].op = "create" /\ Sub!Commit(r, new)
        /\ links' = [links EXCEPT ![l].sent = TRUE] /\ billing' = billing
        /\ dropped' = dropped \cup ({shop.pending} \ {0})
    BY <1>7 DEF Sub!StorePending
  <2>2. req[r].got \in Sub!Shop
    BY <2>1, SubRequest, BusyRequest DEF SubInv, Sub!TypeOK, SlotsOK
  <2>3. new.pending = l
    BY <2>2 DEF Sub!Shop
  <2> HIDE DEF new, l
  <2>4. shop'.pending = l
    BY <2>1, <2>3, SerialCommit
  <2>5. DOMAIN links' = DOMAIN links /\ \A k \in DOMAIN links : k # l => links'[k] = links[k]
    BY <2>1
  <2>6. Activated' = Activated /\ 0 \notin DOMAIN links
    <3>1. 0 \notin DOMAIN links
      BY LinkType DEF SubInv, Sub!TypeOK
    <3> QED
      BY <2>1, <3>1 DEF Activated
  <2> QED
    BY <2>1, <2>4, <2>5, <2>6 DEF SentCovered
<1>8. ASSUME NEW r \in Requests, Sub!ActivatePaid(r) PROVE SentCovered'
  <2>1. /\ links' = links /\ billing' = Append(billing, req[r].link) /\ dropped' = dropped
        /\ req[r].pc = "called" /\ req[r].op = "confirm"
    BY <1>8 DEF Sub!ActivatePaid
  <2>2. req[r].link = shop.pending
    BY <2>1, BusyRequest, SubAlone
  <2>3. Activated \subseteq Activated' /\ shop.pending \in Activated'
    <3>1. billing \in Seq(Sub!Link) /\ billing' \in Seq(Sub!Link)
      BY DEF SubInv, Sub!TypeOK
    <3>2. req[r].link \in Sub!Link
      <4>1. req[r] # Sub!Idle /\ req[r].link # 0
        BY <2>1, BusyRequest
      <4>2. req[r].link \in 0 .. MaxLinks
        BY <4>1, SubRequest DEF SubInv, Sub!TypeOK, SlotsOK
      <4> QED
        BY PlanAssumption, BoundsAssumption, <4>1, <4>2 DEF Sub!Link
    <3> PICK l : l = req[r].link
      OBVIOUS
    <3>3. /\ Len(billing') = Len(billing) + 1 /\ billing'[Len(billing) + 1] = l
          /\ \A i \in 1 .. Len(billing) : billing'[i] = billing[i]
      BY <2>1, <3>1, <3>2, AppendProperties
    <3>4. /\ DOMAIN billing = 1 .. Len(billing) /\ DOMAIN billing' = 1 .. Len(billing')
          /\ Len(billing) \in Nat
      BY <3>1, LenProperties
    <3>5. /\ Activated' = {billing'[i] : i \in DOMAIN billing'}
          /\ Activated = {billing[i] : i \in DOMAIN billing}
      BY DEF Activated, Range
    <3>6. l \in Activated'
      <4>1. Len(billing) + 1 \in DOMAIN billing'
        BY <3>3, <3>4
      <4> QED
        BY <3>3, <3>5, <4>1
    <3>7. Activated \subseteq Activated'
      <4>1. \A i \in DOMAIN billing : i \in DOMAIN billing' /\ billing'[i] = billing[i]
        BY <3>3, <3>4
      <4> QED
        BY <3>5, <4>1
    <3> QED
      BY <2>2, <3>6, <3>7
  <2> QED
    BY <2>1, <2>3 DEF SentCovered
<1>9. ASSUME NEW r \in Requests, Sub!Lapse(r) \/ Sub!RequestSell(r) \/ Sub!Override(r)
      PROVE  SentCovered'
  <2>1. PICK st : Sub!Commit(r, [req[r].got EXCEPT !.status = st])
    BY <1>9 DEF Sub!Lapse, Sub!RequestSell, Sub!Override, Sub!Lapsed
  <2>2. req[r] # Sub!Idle
    BY <1>9 DEF Sub!Lapse, Sub!RequestSell, Sub!Override, Sub!Idle
  <2>3. shop'.pending = shop.pending
    BY <2>1, <2>2, StatusCommit
  <2> QED
    BY <1>1, <1>9, <2>3 DEF Sub!Lapse, Sub!RequestSell, Sub!Override
<1>10. ASSUME NEW r \in Requests, Sub!Approve(r) PROVE SentCovered'
  <2>1. links' = links /\ billing' = billing /\ dropped' = dropped \cup ({shop.pending} \ {0})
    BY <1>10 DEF Sub!Approve
  <2>2. Activated' = Activated /\ 0 \notin DOMAIN links
    <3>1. 0 \notin DOMAIN links
      BY LinkType DEF SubInv, Sub!TypeOK
    <3> QED
      BY <2>1, <3>1 DEF Activated
  <2> QED
    BY <2>1, <2>2 DEF SentCovered
<1> QED
  BY <1>2, <1>3, <1>4, <1>5, <1>6, <1>7, <1>8, <1>9, <1>10 DEF Sub!Next

\* A running plan keeps its date, one request at a time.
RunningPlanKept ==
  ~ overlap /\ shop.status = "approved" /\ shop.expires > now => shop'.expires >= shop.expires

LEMMA PlanStep ==
  ASSUME SubInv, SubSerial, [Sub!Next]_Sub!vars
  PROVE  RunningPlanKept
<1> SUFFICES ASSUME ~ overlap, shop.status = "approved", shop.expires > now
             PROVE  shop'.expires >= shop.expires
  BY DEF RunningPlanKept
<1>1. OneByOne /\ now \in Nat /\ shop.expires \in Nat
  BY DEF SubSerial, SubInv, Sub!TypeOK, Sub!Shop
<1>2. CASE shop' = shop
  BY <1>1, <1>2
<1>3. ASSUME NEW r \in Requests, Sub!StorePending(r) PROVE shop'.expires >= shop.expires
  <2> DEFINE new == [req[r].got EXCEPT !.pending = req[r].link,
                                       !.status = IF @ = "approved" THEN @ ELSE "pending"]
  <2>1. req[r].pc = "called" /\ Sub!Commit(r, new)
    BY <1>3 DEF Sub!StorePending
  <2>2. req[r].got \in Sub!Shop /\ req[r].got = shop
    BY <1>1, <2>1, SubRequest, BusyRequest, SubAlone DEF SubInv, Sub!TypeOK, SlotsOK
  <2>3. new.expires = shop.expires
    BY <2>2 DEF Sub!Shop
  <2> HIDE DEF new
  <2>4. shop'.expires = shop.expires
    BY <1>1, <2>1, <2>3, SerialCommit
  <2> QED
    BY <1>1, <2>4
<1>4. ASSUME NEW r \in Requests, Sub!ActivatePaid(r) PROVE shop'.expires >= shop.expires
  <2> DEFINE new == [status |-> "approved", expires |-> Sub!Extend(r),
                     pending |-> Sub!Pending(req[r].got)]
             M == Months[links[req[r].link].cadence]
  <2>1. req[r].pc = "called" /\ req[r].op = "confirm" /\ Sub!Commit(r, new)
    BY <1>4 DEF Sub!ActivatePaid
  <2>2. req[r].got = shop
    BY <1>1, <2>1, SubAlone
  <2>3. M \in Nat
    <3>1. req[r].link \in DOMAIN links
      BY <2>1, BusyRequest
    <3> QED
      BY <3>1, LinkType DEF SubInv, Sub!TypeOK
  <2>4. new.expires = shop.expires + M
    BY <2>2 DEF Sub!Extend, Sub!Base
  <2> HIDE DEF new, M
  <2>5. shop'.expires = shop.expires + M
    BY <1>1, <2>1, <2>4, SerialCommit
  <2> QED
    BY <1>1, <2>3, <2>5
<1>5. ASSUME NEW r \in Requests, Sub!Lapse(r) \/ Sub!RequestSell(r) \/ Sub!Override(r)
      PROVE  shop'.expires >= shop.expires
  <2>1. PICK st : Sub!Commit(r, [req[r].got EXCEPT !.status = st])
    BY <1>5 DEF Sub!Lapse, Sub!RequestSell, Sub!Override, Sub!Lapsed
  <2>2. req[r] # Sub!Idle
    BY <1>5 DEF Sub!Lapse, Sub!RequestSell, Sub!Override, Sub!Idle
  <2>3. shop'.expires = shop.expires
    BY <2>1, <2>2, StatusCommit
  <2> QED
    BY <1>1, <2>3
<1>6. ASSUME NEW r \in Requests, Sub!Approve(r) PROVE shop'.expires >= shop.expires
  <2> DEFINE new == [status |-> "approved", expires |-> Sub!Comp(req[r].got), pending |-> 0]
  <2>1. req[r].pc = "loaded" /\ Sub!Commit(r, new)
    BY <1>6 DEF Sub!Approve
  <2>2. req[r].got = shop
    BY <1>1, <2>1, SubAlone
  <2>3. new.expires = shop.expires
    BY <1>1, <2>2 DEF Sub!Comp
  <2> HIDE DEF new
  <2>4. shop'.expires = shop.expires
    BY <1>1, <2>1, <2>3, SerialCommit
  <2> QED
    BY <1>1, <2>4
<1>7. ASSUME NEW r \in Requests,
             \/ Sub!Load(r) \/ Sub!CreateLink(r) \/ Sub!Poll(r)
             \/ Sub!IssueSubscription(r) \/ Sub!Return(r)
      PROVE  shop' = shop
  BY <1>7 DEF Sub!Load, Sub!CreateLink, Sub!Poll, Sub!IssueSubscription, Sub!Return, Sub!db
<1>8. CASE Sub!Tick \/ (\E l \in DOMAIN links : Sub!Pay(l)) \/ UNCHANGED Sub!vars
  BY <1>2, <1>8 DEF Sub!Tick, Sub!Pay, Sub!vars, Sub!db
<1> QED
  BY <1>2, <1>3, <1>4, <1>5, <1>6, <1>7, <1>8 DEF Sub!Next

-----------------------------------------------------------------------------
\* For any plans and any number of overlapping requests, the rows, links and
\* requests of a subscription keep its invariant.
THEOREM SubInvHolds ==
  Sub!Spec => []SubInv
<1>1. Sub!Init => SubInv
  BY SubInit
<1>2. SubInv /\ [Sub!Next]_Sub!vars => SubInv'
  BY SubStep
<1> QED
  BY <1>1, <1>2, PTL DEF Sub!Spec

\* _activate_paid never grants time that was not bought or given.
THEOREM SubNeverOvergranted ==
  Sub!Spec => []NeverOvergranted
<1>1. SubInv => NeverOvergranted
  BY BoughtIs DEF SubInv, NeverOvergranted
<1> QED
  BY <1>1, SubInvHolds, PTL

\* One request at a time, copies and links stay as SubSerial says.
THEOREM SubSerialHolds ==
  Sub!Spec => []SubSerial
<1>1. Sub!Init => SubSerial
  BY DEF Sub!Init, SubSerial, OneByOne, SentCovered, Sub!Idle
<1>2. SubInv /\ SubInv' /\ SubSerial /\ [Sub!Next]_Sub!vars => SubSerial'
  <2>1. ASSUME [Sub!Next]_Sub!vars PROVE overlap' = overlap
    BY <2>1 DEF Sub!Next, Sub!vars, Sub!Tick, Sub!Pay, Sub!Load, Sub!CreateLink, Sub!StorePending,
             Sub!Poll,
                Sub!ActivatePaid, Sub!IssueSubscription, Sub!Lapse, Sub!RequestSell, Sub!Approve,
                Sub!Override, Sub!Return
  <2> QED
    BY <2>1, OneByOneStep, SentStep DEF SubSerial
<1> QED
  BY <1>1, <1>2, SubInvHolds, PTL DEF Sub!Spec

\* One request at a time, money paid for a plan is applied, waits, or was
\* replaced by a newer link or by the admin.
THEOREM SubPaidAccounted ==
  Sub!Spec => []PaidAccounted
<1>1. SubInv /\ SubSerial => PaidAccounted
  BY DEF SubInv, LinksOK, SubSerial, SentCovered, PaidAccounted
<1> QED
  BY <1>1, SubInvHolds, SubSerialHolds, PTL

\* One request at a time, no handler shortens a running plan.
THEOREM SubPaidTimeKept ==
  Sub!Spec => PaidTimeKept
<1>1. SubInv /\ SubSerial /\ [Sub!Next]_Sub!vars
        => [~ overlap /\ shop.status = "approved" /\ shop.expires > now
              => shop'.expires >= shop.expires]_shop
  BY PlanStep DEF RunningPlanKept
<1> QED
  BY <1>1, SubInvHolds, SubSerialHolds, PTL DEF Sub!Spec, PaidTimeKept

\* Profile, billing rows, links and copies keep the types of their columns.
THEOREM SubTypeCorrect ==
  Sub!Spec => []Sub!TypeOK
<1>1. SubInv => Sub!TypeOK
  BY DEF SubInv
<1> QED
  BY <1>1, SubInvHolds, PTL
=============================================================================
