----------------------------- MODULE OtpProofs ------------------------------
(***************************************************************************)
(* For every number of phones, codes and overlapping requests, with Redis   *)
(* failing at any moment: a code is accepted only for its phone and, where  *)
(* it resets a password or confirms an admin, for its purpose; no account   *)
(* changes its kind; and where requests do not overlap and no key was left  *)
(* behind, no code is accepted twice.                                       *)
(***************************************************************************)
EXTENDS Otp, SequenceTheorems, WellFoundedInduction, TLAPS

-----------------------------------------------------------------------------
(***************************************************************************)
(* The inductive invariant: whatever carries a code, a row, a key of Redis  *)
(* or a request, carries the phone and the purpose that code was made for.  *)
(***************************************************************************)
\* Code c was made for phone x and purpose p.
MadeFor(sn, c, x, p) == c \in 1 .. Len(sn) /\ sn[c] = [phone |-> x, purpose |-> p]

RowOK(w, sn) == MadeFor(sn, w.code, w.phone, w.purpose)
RowsOK == \A i \in DOMAIN rows : RowOK(rows[i], sent)

CacheOK ==
  \A p \in Purposes, x \in Phones : cache[p][x] # 0 => MadeFor(sent, cache[p][x], x, p)

ReqOK(q, sn) ==
  q # Idle =>
    /\ q.pc \in {"stored", "checked", "deleted"} => MadeFor(sn, q.code, q.phone, q.purpose)
    /\ q.pc \in {"checked", "deleted"} =>
         /\ q.op \in Checkers
         /\ q.op \in {"reset", "confirm"} => q.purpose = Purpose(q.op)
RequestsOK == \A r \in Requests : ReqOK(req[r], sent)

AcceptedMade == \A a \in accepted : a.code \in 1 .. Len(sent)

Inv ==
  /\ TypeOK
  /\ made = Len(sent)
  /\ Len(rows) <= MaxRows
  /\ RowsOK
  /\ CacheOK
  /\ RequestsOK
  /\ AcceptedMade
  /\ PurposeHonoured

-----------------------------------------------------------------------------
(***************************************************************************)
(* Where requests do not overlap.  A code that was accepted is spent: its   *)
(* rows are used and no key holds it.  For that, a code has at most one     *)
(* unused row, the request in flight holds that row, and a request about to *)
(* commit has removed the keys.                                             *)
(***************************************************************************)
OneUnused ==
  \A i, j \in DOMAIN rows :
    ~ rows[i].used /\ ~ rows[j].used /\ rows[i].code = rows[j].code => i = j

Uncached(c, keys) == \A p \in Purposes, x \in Phones : keys[p][x] # c

Spent ==
  \A a \in accepted :
    /\ \A i \in DOMAIN rows : rows[i].code = a.code => rows[i].used
    /\ Uncached(a.code, cache)

HoldsRow(q, rws) ==
  q.pc \in {"checked", "deleted"} =>
    q.row \in DOMAIN rws /\ rws[q.row].code = q.code /\ ~ rws[q.row].used

HoldsFresh(q, acc, keys) ==
  /\ q.pc \in {"stored", "checked", "deleted"} => \A a \in acc : a.code # q.code
  /\ q.pc = "deleted" => Uncached(q.code, keys)

OthersIdle == \A r \in Requests : r # Alone => req[r] = Idle
RowsHeld == \A r \in Requests : HoldsRow(req[r], rows)
CodesFresh == \A r \in Requests : HoldsFresh(req[r], accepted, cache)

SerialInv ==
  ~ overlap =>
    /\ OthersIdle /\ OneUnused /\ RowsHeld
    /\ ~ undeleted => twice = {} /\ Spent /\ CodesFresh

-----------------------------------------------------------------------------
\* The newest of some rows is one of them: a bounded set of numbers has a
\* greatest element.
LEMMA NewestIsIn ==
  ASSUME NEW n \in Nat, NEW I, I \subseteq 1 .. n, I # {}
  PROVE  Newest(I) \in I
<1> DEFINE D == {n - i : i \in I}
           R == OpToRel(<, Nat)
<1>1. D \subseteq Nat /\ D # {}
  OBVIOUS
<1>2. IsWellFoundedOn(R, Nat)
  BY NatLessThanWellFounded
<1>3. PICK d \in D : \A e \in D : ~ (<<e, d>> \in R)
  <2> HIDE DEF D, R
  <2> QED
    BY <1>1, <1>2, WFMin
<1>4. \A e \in D : d <= e
  <2> TAKE e \in D
  <2>1. d \in Nat /\ e \in Nat
    BY <1>1
  <2>2. ~ (e < d)
    <3> SUFFICES ASSUME e < d PROVE FALSE
      OBVIOUS
    <3>1. <<e, d>> \in R
      BY <2>1 DEF OpToRel
    <3> QED
      BY <1>3, <3>1
  <2> QED
    BY <2>1, <2>2
<1>5. PICK m \in I : d = n - m
  OBVIOUS
<1>6. \A j \in I : j <= m
  <2> TAKE j \in I
  <2>1. n - j \in D
    OBVIOUS
  <2>2. n - m <= n - j
    BY <1>4, <1>5, <2>1
  <2>3. j \in Int /\ m \in Int
    OBVIOUS
  <2> QED
    BY <2>2, <2>3
<1>7. \E i \in I : \A j \in I : j <= i
  BY <1>5, <1>6
<1> QED
  BY <1>7 DEF Newest

\* A request in flight, field by field.
LEMMA Shape ==
  ASSUME Inv, NEW r \in Requests, req[r] # Idle
  PROVE  /\ req[r] \in Request
         /\ req[r].pc \in {"begun", "inserted", "stored", "checked", "deleted"}
         /\ req[r].op \in Ops /\ req[r].phone \in Phones /\ req[r].purpose \in Purposes
         /\ req[r].code \in 0 .. MaxCodes /\ req[r].row \in 0 .. MaxRows
         /\ req[r].usr \in User
         /\ ReqOK(req[r], sent)
  BY DEF Inv, TypeOK, RequestsOK, Request

\* The rows of the table.
LEMMA RowShape ==
  ASSUME Inv, NEW i \in DOMAIN rows
  PROVE  /\ rows[i] \in Row /\ RowOK(rows[i], sent)
         /\ i \in 1 .. Len(rows) /\ Len(rows) \in Nat
<1>1. rows \in Seq(Row) /\ RowOK(rows[i], sent)
  BY DEF Inv, TypeOK, RowsOK
<1> QED
  BY <1>1, ElementOfSeq, LenProperties

\* The codes made before stay the codes they were.
SentStays(s, t) == Len(s) <= Len(t) /\ \A c \in 1 .. Len(s) : t[c] = s[c]

\* A code stays made for its phone and purpose when others are sent.
LEMMA MadeForStays ==
  ASSUME NEW s, NEW t, Len(s) \in Nat, Len(t) \in Nat, SentStays(s, t),
         NEW c, NEW x, NEW p, MadeFor(s, c, x, p)
  PROVE  MadeFor(t, c, x, p)
  BY DEF SentStays, MadeFor

\* One request moves on, the others keep what they know.
LEMMA RequestsStay ==
  ASSUME Inv, NEW r \in Requests, NEW q \in Request \cup {Idle},
         req' = [req EXCEPT ![r] = q], ReqOK(q, sent'),
         Len(sent) \in Nat, Len(sent') \in Nat, SentStays(sent, sent')
  PROVE  req' \in [Requests -> Request \cup {Idle}] /\ RequestsOK'
<1>1. req' \in [Requests -> Request \cup {Idle}]
  BY DEF Inv, TypeOK
<1>2. ASSUME NEW s \in Requests
      PROVE  ReqOK(req'[s], sent')
  <2>1. CASE s = r
    BY <2>1 DEF Inv, TypeOK
  <2>2. CASE s # r
    <3>1. req'[s] = req[s] /\ ReqOK(req[s], sent)
      BY <2>2 DEF Inv, TypeOK, RequestsOK
    <3> QED
      BY <3>1, MadeForStays DEF ReqOK
  <2> QED
    BY <2>1, <2>2
<1> QED
  BY <1>1, <1>2 DEF RequestsOK

\* The history of codes sent.
LEMMA SentIsSeq ==
  ASSUME Inv
  PROVE  /\ sent \in Seq([phone : Phones, purpose : Purposes])
         /\ Len(sent) \in Nat /\ SentStays(sent, sent)
<1>1. sent \in Seq([phone : Phones, purpose : Purposes])
  BY DEF Inv, TypeOK
<1> QED
  BY <1>1, LenProperties DEF SentStays

\* A step of one request that makes and accepts no code, reduced to what it
\* does to the rows, the keys and the users.
LEMMA Step ==
  ASSUME Inv, NEW r \in Requests, NEW q \in Request \cup {Idle},
         req' = [req EXCEPT ![r] = q], ReqOK(q, sent),
         UNCHANGED <<made, redis, sent, accepted, twice, overlap>>, undeleted' \in BOOLEAN,
         users' \in [Phones -> User],
         \A x \in Phones : users'[x].verified => users[x].verified,
         rows' \in Seq(Row), Len(rows') <= MaxRows, RowsOK',
         cache' \in [Purposes -> [Phones -> 0 .. MaxCodes]], CacheOK'
  PROVE  Inv'
<1>1. req' \in [Requests -> Request \cup {Idle}] /\ RequestsOK'
  BY SentIsSeq, RequestsStay
<1>2. TypeOK'
  BY <1>1 DEF Inv, TypeOK
<1>3. PurposeHonoured'
  BY DEF Inv, PurposeHonoured
<1>4. AcceptedMade' /\ made' = Len(sent')
  BY DEF Inv, AcceptedMade
<1> QED
  BY <1>1, <1>2, <1>3, <1>4 DEF Inv

\* The same, where the step leaves the tables and the keys alone.
LEMMA ReqStep ==
  ASSUME Inv, NEW r \in Requests, NEW q \in Request \cup {Idle},
         req' = [req EXCEPT ![r] = q], ReqOK(q, sent),
         UNCHANGED <<store, redis, made, ghost, overlap>>
  PROVE  Inv'
<1>1. /\ users' = users /\ rows' = rows /\ cache' = cache /\ sent' = sent
      /\ UNCHANGED <<made, redis, sent, accepted, twice, overlap>> /\ undeleted' = undeleted
  BY DEF store, ghost
<1>2. /\ users' \in [Phones -> User] /\ rows' \in Seq(Row) /\ undeleted' \in BOOLEAN
      /\ Len(rows') <= MaxRows
      /\ cache' \in [Purposes -> [Phones -> 0 .. MaxCodes]]
      /\ \A x \in Phones : users'[x].verified => users[x].verified
  BY <1>1 DEF Inv, TypeOK
<1>3. RowsOK' /\ CacheOK'
  BY <1>1 DEF Inv, RowsOK, CacheOK
<1> QED
  BY <1>1, <1>2, <1>3, Step

\* A row is added to the table.
LEMMA RowAdded ==
  ASSUME Inv, NEW w \in Row, rows' = Append(rows, w), RowOK(w, sent'),
         Len(sent) \in Nat, Len(sent') \in Nat, SentStays(sent, sent')
  PROVE  /\ rows' \in Seq(Row) /\ RowsOK'
         /\ Len(rows) \in Nat /\ Len(rows') = Len(rows) + 1
         /\ DOMAIN rows = 1 .. Len(rows) /\ DOMAIN rows' = 1 .. Len(rows) + 1
         /\ \A i \in DOMAIN rows : rows'[i] = rows[i]
         /\ rows'[Len(rows) + 1] = w
<1>1. rows \in Seq(Row)
  BY DEF Inv, TypeOK
<1>2. /\ rows' \in Seq(Row) /\ Len(rows') = Len(rows) + 1
      /\ \A i \in 1 .. Len(rows) : rows'[i] = rows[i]
      /\ rows'[Len(rows) + 1] = w
  BY <1>1, AppendProperties
<1>3. Len(rows) \in Nat /\ DOMAIN rows = 1 .. Len(rows) /\ DOMAIN rows' = 1 .. Len(rows')
  BY <1>1, <1>2, LenProperties
<1>4. ASSUME NEW i \in DOMAIN rows' PROVE RowOK(rows'[i], sent')
  <2>1. CASE i \in 1 .. Len(rows)
    <3>1. RowOK(rows[i], sent)
      BY <1>3, <2>1, RowShape
    <3> QED
      BY <1>2, <2>1, <3>1, MadeForStays DEF RowOK
  <2>2. CASE i = Len(rows) + 1
    BY <1>2, <2>2
  <2> QED
    BY <1>2, <1>3, <2>1, <2>2
<1> QED
  BY <1>2, <1>3, <1>4 DEF RowsOK

\* A row is marked, as used or as expired, wherever the index points.
LEMMA RowMarked ==
  ASSUME Inv, NEW i \in Nat, sent' = sent,
         \/ rows' = [rows EXCEPT ![i].used = TRUE]
         \/ rows' = [rows EXCEPT ![i].expired = TRUE]
  PROVE  /\ rows' \in Seq(Row) /\ RowsOK'
         /\ DOMAIN rows' = DOMAIN rows /\ Len(rows') = Len(rows)
         /\ \A j \in DOMAIN rows : /\ rows'[j].code = rows[j].code
                                   /\ rows[j].used => rows'[j].used
                                   /\ rows'[j].used => rows[j].used \/ j = i
<1>1. rows \in Seq(Row) /\ Len(rows) \in Nat /\ DOMAIN rows = 1 .. Len(rows)
  <2>1. rows \in Seq(Row)
    BY DEF Inv, TypeOK
  <2> QED
    BY <2>1, LenProperties
<1>2. DOMAIN rows' = DOMAIN rows
  OBVIOUS
<1>3. ASSUME NEW j \in DOMAIN rows
      PROVE  /\ rows'[j] \in Row
             /\ rows'[j].code = rows[j].code /\ rows'[j].phone = rows[j].phone
             /\ rows'[j].purpose = rows[j].purpose
             /\ rows[j].used => rows'[j].used
             /\ rows'[j].used => rows[j].used \/ j = i
  <2>1. rows[j] \in Row
    BY RowShape
  <2>2. CASE j = i
    <3>1. \/ rows'[j] = [rows[j] EXCEPT !.used = TRUE]
          \/ rows'[j] = [rows[j] EXCEPT !.expired = TRUE]
      BY <2>2
    <3> QED
      BY <2>1, <2>2, <3>1 DEF Row
  <2>3. CASE j # i
    <3>1. rows'[j] = rows[j]
      BY <2>3
    <3> QED
      BY <2>1, <3>1
  <2> QED
    BY <2>2, <2>3
<1>4. rows' \in Seq(Row)
  <2>1. rows' = [j \in 1 .. Len(rows) |-> rows'[j]]
    BY <1>1
  <2>2. \A j \in 1 .. Len(rows) : rows'[j] \in Row
    BY <1>1, <1>3
  <2> QED
    BY <1>1, <2>1, <2>2, IsASeq
<1>5. RowsOK'
  <2>1. ASSUME NEW j \in DOMAIN rows PROVE RowOK(rows'[j], sent')
    BY <1>3, RowShape DEF RowOK
  <2> QED
    BY <1>2, <2>1 DEF RowsOK
<1>6. Len(rows') = Len(rows)
  BY <1>1, <1>2, <1>4, LenProperties
<1> QED
  BY <1>2, <1>3, <1>4, <1>5, <1>6

-----------------------------------------------------------------------------
(***************************************************************************)
(* The actions.                                                             *)
(***************************************************************************)
\* A new code is made for the phone and the purpose its row and its request
\* carry.
LEMMA StoreCodeStep ==
  ASSUME Inv, NEW r \in Requests, NEW op \in Ops, NEW x \in Phones, NEW p \in Purposes,
         StoreCode(r, op, x, p)
  PROVE  Inv'
<1> DEFINE e == [phone |-> x, purpose |-> p]
           w == [phone |-> x, code |-> made + 1, purpose |-> p, used |-> FALSE,
                 expired |-> FALSE]
           q == [pc |-> "stored", op |-> op, phone |-> x, purpose |-> p,
                 code |-> made + 1, row |-> 0, usr |-> users[x]]
<1>1. made \in Nat /\ made + 1 \in Codes /\ MaxCodes \in Nat /\ MaxRows \in Nat
  BY BoundsAssumption DEF StoreCode, Inv, TypeOK, Codes
<1>2. /\ sent' \in Seq([phone : Phones, purpose : Purposes])
      /\ Len(sent') = made + 1 /\ SentStays(sent, sent') /\ sent'[made + 1] = e
  <2>1. sent' = Append(sent, e) /\ made = Len(sent)
    BY DEF StoreCode, Inv
  <2>2. e \in [phone : Phones, purpose : Purposes]
    OBVIOUS
  <2> HIDE DEF e
  <2> QED
    BY <1>1, <2>1, <2>2, SentIsSeq, AppendProperties DEF SentStays
<1>3. MadeFor(sent', made + 1, x, p)
  BY <1>1, <1>2 DEF MadeFor
<1>4. w \in Row /\ RowOK(w, sent')
  BY <1>1, <1>3 DEF Row, RowOK
<1>5. rows' = Append(rows, w)
  BY DEF StoreCode
<1>6. rows' \in Seq(Row) /\ RowsOK' /\ Len(rows') <= MaxRows
  <2> HIDE DEF w
  <2>1. Len(sent) \in Nat /\ Len(sent') \in Nat
    BY <1>1, <1>2, SentIsSeq
  <2> QED
    BY <1>1, <1>2, <1>4, <1>5, <2>1, RowAdded DEF StoreCode
<1>7. q \in Request
  BY <1>1 DEF Request, Inv, TypeOK, Codes
<1>8. ReqOK(q, sent')
  BY <1>3 DEF ReqOK
<1>9. req' = [req EXCEPT ![r] = q]
  BY DEF StoreCode, Enter
<1> HIDE DEF q, w, e
<1>10. req' \in [Requests -> Request \cup {Idle}] /\ RequestsOK'
  <2>1. Len(sent) \in Nat /\ Len(sent') \in Nat /\ SentStays(sent, sent')
    BY <1>1, <1>2, SentIsSeq
  <2> QED
    BY <1>7, <1>8, <1>9, <2>1, RequestsStay
<1>11. /\ users' = users /\ cache' = cache /\ redis' = redis /\ accepted' = accepted
       /\ twice' = twice /\ undeleted' = undeleted /\ overlap' = overlap /\ made' = made + 1
  BY DEF StoreCode
<1>12. TypeOK'
  <2>1. made' \in 0 .. MaxCodes
    BY <1>1, <1>11 DEF Codes
  <2> QED
    BY <1>2, <1>6, <1>10, <1>11, <2>1 DEF Inv, TypeOK
<1>13. CacheOK'
  BY <1>1, <1>2, <1>11, SentIsSeq, MadeForStays DEF Inv, CacheOK
<1>14. AcceptedMade' /\ PurposeHonoured'
  BY <1>1, <1>2, <1>11, SentIsSeq DEF Inv, AcceptedMade, PurposeHonoured, SentStays
<1> QED
  BY <1>2, <1>6, <1>10, <1>11, <1>12, <1>13, <1>14 DEF Inv

\* A code is made by send_otp, admin_resend_confirmation and admin_register.
LEMMA SendersStep ==
  ASSUME Inv, NEW r \in Requests,
         SendOtp(r) \/ AdminResendConfirmation(r) \/ RegisterCode(r)
  PROVE  Inv'
<1>1. CASE SendOtp(r)
  <2>1. PICK x \in Phones, p \in Purposes : StoreCode(r, "send", x, p)
    BY <1>1 DEF SendOtp
  <2> QED
    BY <2>1, StoreCodeStep DEF Ops, Senders, Purposes
<1>2. CASE AdminResendConfirmation(r)
  <2>1. PICK x \in Phones : StoreCode(r, "resend", x, "admin_confirm")
    BY <1>2 DEF AdminResendConfirmation
  <2> QED
    BY <2>1, StoreCodeStep DEF Ops, Senders, Purposes
<1>3. CASE RegisterCode(r)
  <2>1. req[r] # Idle /\ StoreCode(r, "register", req[r].phone, "admin_confirm")
    BY <1>3 DEF RegisterCode, Idle
  <2>2. req[r].phone \in Phones
    BY <2>1, Shape
  <2> QED
    BY <2>1, <2>2, StoreCodeStep DEF Ops, Senders, Purposes
<1> QED
  BY <1>1, <1>2, <1>3

\* admin_register has found no admin.
LEMMA BeginRegisterStep ==
  ASSUME Inv, NEW r \in Requests, BeginRegister(r)
  PROVE  Inv'
<1>1. PICK x \in Phones :
        /\ Enter(r, "begun", "register", x, "admin_confirm", 0, 0)
        /\ UNCHANGED <<store, redis, made, ghost, overlap>>
  BY DEF BeginRegister
<1> DEFINE q == [pc |-> "begun", op |-> "register", phone |-> x, purpose |-> "admin_confirm",
                 code |-> 0, row |-> 0, usr |-> users[x]]
<1>2. q \in Request
  BY BoundsAssumption DEF Request, Inv, TypeOK, Ops, Senders, Purposes
<1>3. ReqOK(q, sent)
  BY DEF ReqOK
<1>4. req' = [req EXCEPT ![r] = q]
  BY <1>1 DEF Enter
<1> HIDE DEF q
<1> QED
  BY <1>1, <1>2, <1>3, <1>4, ReqStep

\* The admin is inserted, not verified.
LEMMA InsertAdminStep ==
  ASSUME Inv, NEW r \in Requests, InsertAdmin(r)
  PROVE  Inv'
<1> DEFINE q == [req[r] EXCEPT !.pc = "inserted"]
<1>1. req[r] # Idle /\ req[r].pc = "begun"
  BY DEF InsertAdmin, Idle
<1>2. q \in Request /\ ReqOK(q, sent)
  BY <1>1, Shape DEF Request, ReqOK
<1>3. req' = [req EXCEPT ![r] = q]
  BY DEF InsertAdmin, Inv, TypeOK
<1>4. /\ UNCHANGED <<made, redis, sent, accepted, twice, overlap>>
      /\ undeleted' = undeleted /\ rows' = rows /\ cache' = cache
      /\ users' = [users EXCEPT ![req[r].phone].role = "admin"]
  BY DEF InsertAdmin, ghost
<1>5. users' \in [Phones -> User] /\ \A x \in Phones : users'[x].verified => users[x].verified
  <2> DEFINE x0 == req[r].phone
             u0 == [users[x0] EXCEPT !.role = "admin"]
  <2>1. users \in [Phones -> User] /\ x0 \in Phones
    BY <1>1, Shape DEF Inv, TypeOK
  <2>2. u0 \in User /\ u0.verified = users[x0].verified
    BY <2>1 DEF User, Roles
  <2>3. users' = [users EXCEPT ![x0] = u0]
    BY <1>4, <2>1
  <2> HIDE DEF u0, x0
  <2> QED
    BY <2>1, <2>2, <2>3
<1>6. /\ rows' \in Seq(Row) /\ Len(rows') <= MaxRows /\ undeleted' \in BOOLEAN
      /\ cache' \in [Purposes -> [Phones -> 0 .. MaxCodes]]
  BY <1>4 DEF Inv, TypeOK
<1>7. RowsOK' /\ CacheOK'
  BY <1>4 DEF Inv, RowsOK, CacheOK
<1> HIDE DEF q
<1> QED
  BY <1>2, <1>3, <1>4, <1>5, <1>6, <1>7, Step

\* An idle slot has read nothing.
LEMMA IdleOK == Idle \in Request \cup {Idle} /\ ReqOK(Idle, sent)
  BY DEF ReqOK

\* The key gets the code its request made.
LEMMA CacheCodeStep ==
  ASSUME Inv, NEW r \in Requests, CacheCode(r)
  PROVE  Inv'
<1> DEFINE q == req[r]
<1>1. req[r] # Idle /\ q.pc = "stored"
  BY DEF CacheCode, Idle
<1>2. /\ q.purpose \in Purposes /\ q.phone \in Phones /\ q.code \in 0 .. MaxCodes
      /\ MadeFor(sent, q.code, q.phone, q.purpose)
  BY <1>1, Shape DEF ReqOK
<1>3. /\ UNCHANGED <<made, redis, sent, accepted, twice, overlap>>
      /\ undeleted' = undeleted /\ rows' = rows /\ users' = users
      /\ cache' = IF redis THEN [cache EXCEPT ![q.purpose][q.phone] = q.code] ELSE cache
      /\ req' = [req EXCEPT ![r] = Idle]
  BY DEF CacheCode, Done, ghost
<1>4. cache \in [Purposes -> [Phones -> 0 .. MaxCodes]]
  BY DEF Inv, TypeOK
<1>5. \A p \in Purposes, x \in Phones :
        \/ cache'[p][x] = cache[p][x]
        \/ p = q.purpose /\ x = q.phone /\ cache'[p][x] = q.code
  BY <1>2, <1>3, <1>4
<1>6. cache' \in [Purposes -> [Phones -> 0 .. MaxCodes]]
  BY <1>2, <1>3, <1>4
<1>7. CacheOK'
  BY <1>2, <1>3, <1>5 DEF Inv, CacheOK
<1>8. /\ rows' \in Seq(Row) /\ Len(rows') <= MaxRows /\ undeleted' \in BOOLEAN
      /\ users' \in [Phones -> User]
      /\ \A x \in Phones : users'[x].verified => users[x].verified
  BY <1>3 DEF Inv, TypeOK
<1>9. RowsOK'
  BY <1>3 DEF Inv, RowsOK
<1> QED
  BY <1>3, <1>6, <1>7, <1>8, <1>9, IdleOK, Step

\* What a check may find: rows of the phone with the code, not used.
LEMMA FoundRow ==
  ASSUME Inv, NEW x \in Phones, NEW c, NEW I, I \subseteq Unused(x, c), I # {}
  PROVE  /\ Newest(I) \in I /\ Newest(I) \in DOMAIN rows /\ Newest(I) \in Nat
         /\ Newest(I) \in 0 .. MaxRows
         /\ rows[Newest(I)].purpose \in Purposes
         /\ MadeFor(sent, c, x, rows[Newest(I)].purpose)
         /\ ~ rows[Newest(I)].used /\ rows[Newest(I)].code = c
<1> DEFINE i == Newest(I)
<1>1. rows \in Seq(Row)
  BY DEF Inv, TypeOK
<1>2. Len(rows) \in Nat /\ DOMAIN rows = 1 .. Len(rows)
  BY <1>1, LenProperties
<1>3. /\ I \subseteq DOMAIN rows
      /\ \A j \in I : rows[j].phone = x /\ rows[j].code = c /\ ~ rows[j].used
  BY DEF Unused, Unused_OfPhone
<1>4. i \in I
  <2> HIDE DEF i
  <2> QED
    BY <1>2, <1>3, NewestIsIn DEF i
<1> HIDE DEF i
<1>5. rows[i] \in Row /\ RowOK(rows[i], sent) /\ i \in Nat
  BY <1>2, <1>3, <1>4, RowShape
<1> QED
  BY <1>2, <1>3, <1>4, <1>5, BoundsAssumption DEF Row, RowOK, i, Inv

\* What a request is once its code was checked.
Checked(op, x, p, c, i) ==
  [pc |-> "checked", op |-> op, phone |-> x, purpose |-> p, code |-> c, row |-> i,
   usr |-> users[x]]

\* A request that found its code.
LEMMA CheckedOK ==
  ASSUME Inv, NEW op \in Checkers, NEW x \in Phones, NEW p \in Purposes, NEW c,
         NEW i \in 0 .. MaxRows, MadeFor(sent, c, x, p),
         op \in {"reset", "confirm"} => p = Purpose(op)
  PROVE  Checked(op, x, p, c, i) \in Request /\ ReqOK(Checked(op, x, p, c, i), sent)
<1>1. c \in 0 .. MaxCodes
  BY BoundsAssumption, SentIsSeq DEF MadeFor, Inv, TypeOK
<1>2. users[x] \in User /\ op \in Ops
  BY DEF Inv, TypeOK, Ops
<1> QED
  BY <1>1, <1>2 DEF Checked, Request, ReqOK

\* The purpose of each check is one of the purposes.
LEMMA PurposeType == ASSUME NEW op PROVE Purpose(op) \in Purposes
  BY DEF Purpose, Purposes

\* A cached code was made for its key's phone and purpose; so is the row that
\* is inserted for it.
LEMMA CheckCachedStep ==
  ASSUME Inv, NEW r \in Requests, CheckCached(r)
  PROVE  Inv'
<1>1. PICK op \in Checkers, x \in Phones :
        LET c == cache[Purpose(op)][x]
            found == Unused(x, c)
        IN  /\ c # 0
            /\ IF found # {}
                 THEN /\ Enter(r, "checked", op, x, rows[Newest(found)].purpose, c, Newest(found))
                      /\ UNCHANGED rows
                 ELSE /\ Len(rows) < MaxRows
                      /\ rows' = Append(rows, [phone |-> x, code |-> c, purpose |-> Purpose(op),
                                               used |-> FALSE, expired |-> FALSE])
                      /\ Enter(r, "checked", op, x, Purpose(op), c, Len(rows) + 1)
            /\ UNCHANGED <<users, cache, redis, made, ghost, overlap>>
  BY DEF CheckCached
<1> DEFINE c == cache[Purpose(op)][x]
           found == Unused(x, c)
<1>2. MadeFor(sent, c, x, Purpose(op)) /\ Purpose(op) \in Purposes /\ c \in 0 .. MaxCodes
  BY <1>1, PurposeType DEF Inv, CacheOK, TypeOK
<1>3. /\ UNCHANGED <<made, redis, sent, accepted, twice, overlap>>
      /\ undeleted' = undeleted /\ users' = users /\ cache' = cache /\ sent' = sent
  BY <1>1 DEF ghost
<1>4. /\ undeleted' \in BOOLEAN /\ users' \in [Phones -> User]
      /\ \A y \in Phones : users'[y].verified => users[y].verified
      /\ cache' \in [Purposes -> [Phones -> 0 .. MaxCodes]]
  BY <1>3 DEF Inv, TypeOK
<1>5. CacheOK'
  BY <1>3 DEF Inv, CacheOK
<1>6. CASE found # {}
  <2> DEFINE i == Newest(found)
             q == Checked(op, x, rows[i].purpose, c, i)
  <2>1. /\ i \in 0 .. MaxRows /\ rows[i].purpose \in Purposes
        /\ MadeFor(sent, c, x, rows[i].purpose)
    BY <1>6, FoundRow
  <2>2. rows[i].purpose = Purpose(op)
    BY <1>2, <2>1 DEF MadeFor
  <2>3. req' = [req EXCEPT ![r] = q] /\ rows' = rows
    BY <1>1, <1>6 DEF Enter, Checked
  <2> HIDE DEF i, c, found
  <2>4. q \in Request /\ ReqOK(q, sent)
    BY <2>1, <2>2, CheckedOK
  <2>5. rows' \in Seq(Row) /\ Len(rows') <= MaxRows /\ RowsOK'
    BY <1>3, <2>3 DEF Inv, TypeOK, RowsOK
  <2> HIDE DEF q
  <2> QED
    BY <1>3, <1>4, <1>5, <2>3, <2>4, <2>5, Step
<1>7. CASE found = {}
  <2> DEFINE w == [phone |-> x, code |-> c, purpose |-> Purpose(op), used |-> FALSE,
                   expired |-> FALSE]
             q == Checked(op, x, Purpose(op), c, Len(rows) + 1)
  <2>1. w \in Row /\ RowOK(w, sent')
    BY <1>1, <1>2, <1>3 DEF Row, RowOK, Codes
  <2>2. rows' = Append(rows, w) /\ Len(rows) < MaxRows /\ req' = [req EXCEPT ![r] = q]
    BY <1>1, <1>7 DEF Enter, Checked
  <2> HIDE DEF w, c, found
  <2>3. Len(sent) \in Nat /\ Len(sent') \in Nat /\ SentStays(sent, sent')
    BY <1>3, SentIsSeq
  <2>4. /\ rows' \in Seq(Row) /\ RowsOK' /\ Len(rows) \in Nat
        /\ Len(rows') = Len(rows) + 1
    BY <2>1, <2>2, <2>3, RowAdded
  <2>5. Len(rows) + 1 \in 0 .. MaxRows /\ Len(rows') <= MaxRows
    BY <2>2, <2>4, BoundsAssumption
  <2>6. q \in Request /\ ReqOK(q, sent)
    BY <1>2, <2>5, CheckedOK
  <2> HIDE DEF q
  <2> QED
    BY <1>3, <1>4, <1>5, <2>2, <2>4, <2>5, <2>6, Step
<1> QED
  BY <1>6, <1>7

\* The table is asked for the purpose where it matters.
LEMMA CheckRowStep ==
  ASSUME Inv, NEW r \in Requests, CheckRow(r)
  PROVE  Inv'
<1>1. PICK op \in Checkers, x \in Phones, c \in 1 .. made :
        LET found == {i \in Unused(x, c) : PurposeFits(op, i)}
        IN  /\ found # {}
            /\ Enter(r, "checked", op, x, rows[Newest(found)].purpose, c, Newest(found))
            /\ UNCHANGED <<store, redis, made, ghost, overlap>>
  BY DEF CheckRow
<1> DEFINE found == {i \in Unused(x, c) : PurposeFits(op, i)}
           i == Newest(found)
           q == Checked(op, x, rows[i].purpose, c, i)
<1>2. found \subseteq Unused(x, c) /\ found # {}
  BY <1>1
<1>3. req' = [req EXCEPT ![r] = q]
  BY <1>1 DEF Enter, Checked
<1>4. \A j \in found : op \in {"reset", "confirm"} => rows[j].purpose = Purpose(op)
  BY DEF PurposeFits
<1> HIDE DEF found
<1>5. /\ i \in 0 .. MaxRows /\ rows[i].purpose \in Purposes /\ i \in found
      /\ MadeFor(sent, c, x, rows[i].purpose)
  BY <1>2, FoundRow
<1> HIDE DEF i
<1>6. q \in Request /\ ReqOK(q, sent)
  BY <1>4, <1>5, CheckedOK
<1> HIDE DEF q
<1> QED
  BY <1>1, <1>3, <1>6, ReqStep

\* The keys are deleted after the commit.
LEMMA DeleteKeysStep ==
  ASSUME Inv, NEW r \in Requests, DeleteKeys(r)
  PROVE  Inv'
<1> DEFINE q0 == req[r]
           u == IF ReadsLate(q0.op) THEN users[q0.phone] ELSE q0.usr
           q == [req[r] EXCEPT !.pc = "deleted", !.usr = u]
<1>1. req[r] # Idle /\ q0.pc = "checked"
  BY DEF DeleteKeys, Idle
<1>2. u \in User
  BY <1>1, Shape DEF Inv, TypeOK
<1>3. req' = [req EXCEPT ![r] = q]
  BY DEF DeleteKeys, Inv, TypeOK
<1> HIDE DEF u
<1>4. q \in Request /\ ReqOK(q, sent)
  BY <1>1, <1>2, Shape DEF Request, ReqOK
<1>5. /\ UNCHANGED <<made, redis, sent, accepted, twice, overlap>> /\ sent' = sent
      /\ rows' = rows /\ users' = users /\ undeleted' = (undeleted \/ ~ redis)
  BY DEF DeleteKeys
<1>6. /\ rows' \in Seq(Row) /\ Len(rows') <= MaxRows /\ users' \in [Phones -> User]
      /\ \A x \in Phones : users'[x].verified => users[x].verified
      /\ undeleted' \in BOOLEAN
  BY <1>5 DEF Inv, TypeOK
<1>7. RowsOK'
  BY <1>5 DEF Inv, RowsOK
<1>8. CacheOK' /\ cache' \in [Purposes -> [Phones -> 0 .. MaxCodes]]
  <2>1. cache \in [Purposes -> [Phones -> 0 .. MaxCodes]]
    BY DEF Inv, TypeOK
  <2>2. CASE redis
    <3>1. cache' = [p \in Purposes |-> IF p \in Keys(q0) THEN [cache[p] EXCEPT ![q0.phone] = 0]
                                       ELSE cache[p]]
      BY <2>2 DEF DeleteKeys
    <3>2. \A p \in Purposes, x \in Phones : cache'[p][x] = cache[p][x] \/ cache'[p][x] = 0
      BY <2>1, <3>1
    <3>3. cache' \in [Purposes -> [Phones -> 0 .. MaxCodes]]
      <4>1. 0 \in 0 .. MaxCodes
        BY BoundsAssumption
      <4>2. \A p \in Purposes : cache[p] \in [Phones -> 0 .. MaxCodes]
        BY <2>1
      <4>3. \A p \in Purposes : [cache[p] EXCEPT ![q0.phone] = 0] \in [Phones -> 0 .. MaxCodes]
        BY <4>1, <4>2
      <4> QED
        BY <3>1, <4>2, <4>3
    <3>4. CacheOK'
      BY <1>5, <3>2 DEF Inv, CacheOK
    <3> QED
      BY <3>3, <3>4
  <2>3. CASE ~ redis
    <3>1. cache' = cache
      BY <2>3 DEF DeleteKeys
    <3> QED
      BY <1>5, <2>1, <3>1 DEF Inv, CacheOK
  <2> QED
    BY <2>2, <2>3
<1> HIDE DEF q
<1> QED
  BY <1>3, <1>4, <1>5, <1>6, <1>7, <1>8, Step

\* The code is accepted for the operation, the phone and the purpose it was
\* made for, and a confirmed admin has it on record.
LEMMA UseCodeStep ==
  ASSUME Inv, NEW r \in Requests, UseCode(r)
  PROVE  Inv'
<1> DEFINE q == req[r]
           a0 == [op |-> q.op, phone |-> q.phone, code |-> q.code]
           u0 == [role |-> Flush(users[q.phone].role, q.usr.role, NewRole(q)),
                  verified |-> users[q.phone].verified \/ Verifies(q)]
<1>1. req[r] # Idle /\ q.pc = "deleted"
  BY DEF UseCode, Idle
<1>2. /\ q.op \in Checkers /\ q.phone \in Phones /\ q.row \in Nat /\ q.usr \in User
      /\ MadeFor(sent, q.code, q.phone, q.purpose)
      /\ q.op \in {"reset", "confirm"} => q.purpose = Purpose(q.op)
  BY <1>1, Shape, BoundsAssumption DEF ReqOK
<1>3. /\ users' = [users EXCEPT ![q.phone] = u0]
      /\ rows' = [rows EXCEPT ![q.row].used = TRUE]
      /\ accepted' = accepted \cup {a0}
      /\ twice' \subseteq twice \cup {q.code}
      /\ req' = [req EXCEPT ![r] = Idle]
      /\ cache' = cache /\ redis' = redis /\ made' = made /\ sent' = sent
      /\ undeleted' = undeleted /\ overlap' = overlap
  BY DEF UseCode, MarkUsed, Done
<1>4. u0 \in User /\ users[q.phone].verified \in BOOLEAN
  <2>1. users[q.phone] \in User
    BY <1>2 DEF Inv, TypeOK
  <2>2. NewRole(q) \in Roles
    BY <1>2 DEF NewRole, User, Roles
  <2> QED
    BY <2>1, <2>2 DEF User, Flush, Verifies
<1>5. users' \in [Phones -> User]
  BY <1>2, <1>3, <1>4 DEF Inv, TypeOK
<1>6. \A x \in Phones : users'[x].verified => \/ users[x].verified
                                              \/ x = q.phone /\ q.op = "confirm"
  BY <1>2, <1>3 DEF Inv, TypeOK, Verifies
<1>7. q.code \in Codes /\ q.code \in 1 .. Len(sent)
  BY <1>2, SentIsSeq, BoundsAssumption DEF MadeFor, Codes, Inv, TypeOK
<1>8. a0 \in [op : Checkers, phone : Phones, code : Codes]
  BY <1>2, <1>7
<1>9. rows' \in Seq(Row) /\ RowsOK' /\ Len(rows') = Len(rows)
  BY <1>2, <1>3, RowMarked
<1>10. req' \in [Requests -> Request \cup {Idle}] /\ RequestsOK'
  <2>1. Len(sent) \in Nat /\ Len(sent') \in Nat /\ SentStays(sent, sent') /\ ReqOK(Idle, sent')
    BY <1>3, SentIsSeq DEF ReqOK
  <2> QED
    BY <1>3, <2>1, RequestsStay
<1>11. TypeOK'
  BY <1>3, <1>5, <1>7, <1>8, <1>9, <1>10 DEF Inv, TypeOK
<1>12. CacheOK' /\ AcceptedMade' /\ made' = Len(sent') /\ Len(rows') <= MaxRows
  BY <1>3, <1>7, <1>9 DEF Inv, CacheOK, AcceptedMade
<1>13. PurposeHonoured'
  <2>1. ASSUME NEW a \in accepted'
        PROVE  /\ sent'[a.code].phone = a.phone
               /\ a.op \in {"reset", "confirm"} => sent'[a.code].purpose = Purpose(a.op)
    <3>1. CASE a \in accepted
      BY <1>3, <3>1 DEF Inv, PurposeHonoured
    <3>2. CASE a = a0
      BY <1>2, <1>3, <3>2 DEF MadeFor
    <3> QED
      BY <1>3, <3>1, <3>2
  <2>2. ASSUME NEW x \in Phones, users'[x].verified
        PROVE  \E a \in accepted' : a.op = "confirm" /\ a.phone = x
    <3>1. CASE users[x].verified
      BY <1>3, <3>1 DEF Inv, PurposeHonoured
    <3>2. CASE x = q.phone /\ q.op = "confirm"
      <4>1. a0 \in accepted' /\ a0.op = "confirm" /\ a0.phone = x
        BY <1>3, <3>2
      <4> QED
        BY <4>1
    <3> QED
      BY <1>6, <2>2, <3>1, <3>2
  <2> QED
    BY <2>1, <2>2 DEF PurposeHonoured
<1> QED
  BY <1>9, <1>10, <1>11, <1>12, <1>13 DEF Inv

\* A request ends, or its process dies.
LEMMA ReturnStep ==
  ASSUME Inv, NEW r \in Requests, Return(r)
  PROVE  Inv'
<1>1. req' = [req EXCEPT ![r] = Idle] /\ UNCHANGED <<store, redis, made, ghost, overlap>>
  BY DEF Return, Done
<1> QED
  BY <1>1, IdleOK, ReqStep

\* Time and Redis: rows expire, keys are kept or lost.
LEMMA EnvironmentStep ==
  ASSUME Inv, UNCHANGED <<users, made, req, ghost, overlap>>, redis' \in BOOLEAN,
         rows' \in Seq(Row), RowsOK', Len(rows') <= MaxRows,
         cache' \in [Purposes -> [Phones -> 0 .. MaxCodes]], CacheOK'
  PROVE  Inv'
<1>1. /\ users' = users /\ made' = made /\ req' = req /\ overlap' = overlap
      /\ sent' = sent /\ accepted' = accepted /\ twice' = twice /\ undeleted' = undeleted
  BY DEF ghost
<1>2. TypeOK'
  BY <1>1 DEF Inv, TypeOK
<1> QED
  BY <1>1, <1>2 DEF Inv, RequestsOK, AcceptedMade, PurposeHonoured

\* A code expires.
LEMMA ExpireStep ==
  ASSUME Inv, NEW i \in DOMAIN rows, Expire(i)
  PROVE  Inv'
<1> DEFINE K(p, x) == cache[p][x] = rows[i].code
                      /\ \A j \in 1 .. i - 1 : rows[j].code # rows[i].code
<1>1. /\ UNCHANGED <<users, made, req, ghost, overlap>> /\ redis' \in BOOLEAN /\ sent' = sent
      /\ rows' = [rows EXCEPT ![i].expired = TRUE]
      /\ cache' = [p \in Purposes |-> [x \in Phones |-> IF K(p, x) THEN 0 ELSE cache[p][x]]]
  BY DEF Expire, ghost, Inv, TypeOK
<1>2. rows' \in Seq(Row) /\ RowsOK' /\ Len(rows') <= MaxRows
  <2>1. i \in Nat
    BY RowShape
  <2>2. rows' \in Seq(Row) /\ RowsOK' /\ Len(rows') = Len(rows)
    BY <1>1, <2>1, RowMarked
  <2> QED
    BY <2>2 DEF Inv
<1>3. CacheOK' /\ cache' \in [Purposes -> [Phones -> 0 .. MaxCodes]]
  <2>1. cache' \in [Purposes -> [Phones -> 0 .. MaxCodes]]
    BY <1>1, BoundsAssumption DEF Inv, TypeOK
  <2>2. \A p \in Purposes, x \in Phones : cache'[p][x] = cache[p][x] \/ cache'[p][x] = 0
    BY <1>1
  <2> QED
    BY <1>1, <2>1, <2>2 DEF Inv, CacheOK
<1> QED
  BY <1>1, <1>2, <1>3, EnvironmentStep

\* Redis fails, or comes back with or without its keys.
LEMMA RedisStep ==
  ASSUME Inv, RedisDown \/ RedisUp
  PROVE  Inv'
<1>1. /\ UNCHANGED <<users, made, req, ghost, overlap>> /\ redis' \in BOOLEAN
      /\ sent' = sent /\ rows' = rows
  BY DEF RedisDown, RedisUp, store, ghost
<1>2. cache' = cache \/ cache' = [p \in Purposes |-> [x \in Phones |-> 0]]
  BY DEF RedisDown, RedisUp, store
<1>3. rows' \in Seq(Row) /\ Len(rows') <= MaxRows /\ RowsOK'
  BY <1>1 DEF Inv, TypeOK, RowsOK
<1>4. CacheOK' /\ cache' \in [Purposes -> [Phones -> 0 .. MaxCodes]]
  <2>1. CASE cache' = cache
    BY <1>1, <2>1 DEF Inv, TypeOK, CacheOK
  <2>2. CASE cache' = [p \in Purposes |-> [x \in Phones |-> 0]]
    <3>1. 0 \in 0 .. MaxCodes
      BY BoundsAssumption
    <3> QED
      BY <2>2, <3>1 DEF CacheOK
  <2> QED
    BY <1>2, <2>1, <2>2
<1> QED
  BY <1>1, <1>3, <1>4, EnvironmentStep

-----------------------------------------------------------------------------
\* No code was sent: the invariant holds.
LEMMA InitInv == Init => Inv
<1> SUFFICES ASSUME Init PROVE Inv
  OBVIOUS
<1>1. Len(sent) = 0 /\ Len(rows) = 0 /\ DOMAIN rows = {} /\ 0 \in 0 .. MaxCodes
  BY BoundsAssumption DEF Init
<1>2. TypeOK
  <2>1. users \in [Phones -> User]
    BY DEF Init, User, Roles
  <2>2. rows \in Seq(Row) /\ sent \in Seq([phone : Phones, purpose : Purposes])
    BY DEF Init
  <2>3. cache \in [Purposes -> [Phones -> 0 .. MaxCodes]]
    BY <1>1 DEF Init
  <2> QED
    BY <1>1, <2>1, <2>2, <2>3 DEF Init, TypeOK
<1>3. RowsOK /\ CacheOK /\ RequestsOK /\ AcceptedMade /\ PurposeHonoured
  BY <1>1 DEF Init, RowsOK, CacheOK, RequestsOK, ReqOK, AcceptedMade, PurposeHonoured
<1> QED
  BY <1>1, <1>2, <1>3, BoundsAssumption DEF Init, Inv

\* Every step keeps the invariant.
LEMMA NextInv == Inv /\ [Next]_vars => Inv'
<1> SUFFICES ASSUME Inv, [Next]_vars PROVE Inv'
  OBVIOUS
<1>1. CASE UNCHANGED vars
  BY <1>1 DEF vars, Inv, TypeOK, RowsOK, CacheOK, RequestsOK, AcceptedMade, PurposeHonoured
<1>2. ASSUME NEW r \in Requests,
             \/ SendOtp(r) \/ AdminResendConfirmation(r) \/ CacheCode(r)
             \/ BeginRegister(r) \/ InsertAdmin(r) \/ RegisterCode(r)
             \/ CheckCached(r) \/ CheckRow(r) \/ DeleteKeys(r) \/ UseCode(r) \/ Return(r)
      PROVE  Inv'
  BY <1>2, SendersStep, BeginRegisterStep, InsertAdminStep, CacheCodeStep, CheckCachedStep,
     CheckRowStep, DeleteKeysStep, UseCodeStep, ReturnStep
<1>3. ASSUME NEW i \in DOMAIN rows, Expire(i)
      PROVE  Inv'
  BY <1>3, ExpireStep
<1>4. CASE RedisDown \/ RedisUp
  BY <1>4, RedisStep
<1> QED
  BY <1>1, <1>2, <1>3, <1>4 DEF Next

\* The strengthened invariant holds for every number of phones, codes and
\* overlapping requests of auth.py, Redis failing at any moment.
THEOREM InvHolds == Spec => []Inv
  BY InitInv, NextInv, PTL DEF Spec

\* Users, rows, keys and requests of auth.py keep their types.
THEOREM TypeCorrect == Spec => []TypeOK
<1>1. Inv => TypeOK
  BY DEF Inv
<1> QED
  BY <1>1, InvHolds, PTL

\* Whatever requests overlap and however Redis fails, _check_otp accepts a code
\* only for the phone and, to reset a password or confirm an admin, only for
\* the purpose it was made for.
THEOREM PurposesHonoured == Spec => []PurposeHonoured
<1>1. Inv => PurposeHonoured
  BY DEF Inv
<1> QED
  BY <1>1, InvHolds, PTL

\* No login and no registration of auth.py turns an account into one of
\* another kind: what a request read of an existing user is what it leaves.
THEOREM RolesKept == Spec => RoleKept
<1>1. ASSUME Inv, [Next]_vars, NEW x \in Phones, users[x].role # "none"
      PROVE  users'[x].role = users[x].role
  <2>1. users \in [Phones -> User]
    BY <1>1 DEF Inv, TypeOK
  <2>2. ASSUME NEW r \in Requests, InsertAdmin(r)
        PROVE  users'[x].role = users[x].role
    BY <1>1, <2>1, <2>2 DEF InsertAdmin
  <2>3. ASSUME NEW r \in Requests, UseCode(r)
        PROVE  users'[x].role = users[x].role
    <3>1. CASE x # req[r].phone
      BY <2>1, <2>3, <3>1 DEF UseCode
    <3>2. CASE x = req[r].phone
      <4>1. req[r].usr.role # "none"
        BY <1>1, <2>3, <3>2 DEF UseCode
      <4>2. users'[x].role = Flush(users[x].role, req[r].usr.role, NewRole(req[r]))
        BY <2>1, <2>3, <3>2 DEF UseCode
      <4> QED
        BY <4>1, <4>2 DEF Flush, NewRole
    <3> QED
      BY <3>1, <3>2
  <2>4. CASE users' = users
    BY <2>4
  <2>5. ASSUME NEW r \in Requests,
               \/ SendOtp(r) \/ AdminResendConfirmation(r) \/ RegisterCode(r)
               \/ CacheCode(r) \/ BeginRegister(r)
               \/ CheckCached(r) \/ CheckRow(r) \/ DeleteKeys(r) \/ Return(r)
        PROVE  users' = users
    <3>1. SendOtp(r) \/ AdminResendConfirmation(r) \/ RegisterCode(r) => users' = users
      BY DEF SendOtp, AdminResendConfirmation, RegisterCode, StoreCode
    <3>2. CacheCode(r) \/ BeginRegister(r) \/ DeleteKeys(r) \/ Return(r) => users' = users
      BY DEF CacheCode, BeginRegister, DeleteKeys, Return, store
    <3>3. CheckCached(r) \/ CheckRow(r) => users' = users
      BY DEF CheckCached, CheckRow, store
    <3> QED
      BY <2>5, <3>1, <3>2, <3>3
  <2>6. ASSUME (\E i \in DOMAIN rows : Expire(i)) \/ RedisDown \/ RedisUp \/ UNCHANGED vars
        PROVE  users' = users
    BY <2>6 DEF Expire, RedisDown, RedisUp, store, vars
  <2> QED
    BY <1>1, <2>2, <2>3, <2>4, <2>5, <2>6 DEF Next
<1>2. Inv /\ [Next]_vars =>
        [\A x \in Phones : users[x].role # "none" => users'[x].role = users[x].role]_vars
  BY <1>1
<1> QED
  BY <1>2, InvHolds, PTL DEF Spec, RoleKept

-----------------------------------------------------------------------------
(***************************************************************************)
(* One request at a time.                                                   *)
(***************************************************************************)
\* An idle slot holds nothing.
LEMMA IdleHolds ==
  ASSUME NEW rws, NEW acc, NEW keys
  PROVE  HoldsRow(Idle, rws) /\ HoldsFresh(Idle, acc, keys)
  BY DEF HoldsRow, HoldsFresh, Idle

\* A step of the only request.
LEMMA SerialStep ==
  ASSUME Inv, SerialInv, ~ overlap, NEW r \in Requests, r = Alone, NEW q,
         req' = [req EXCEPT ![r] = q], OneUnused', HoldsRow(q, rows'),
         ~ undeleted' => twice' = {} /\ Spent' /\ HoldsFresh(q, accepted', cache')
  PROVE  SerialInv'
<1>1. \A s \in Requests : req'[s] = IF s = r THEN q ELSE Idle
  BY DEF Inv, TypeOK, SerialInv, OthersIdle
<1>2. Alone' = Alone
  BY DEF Alone
<1>3. OthersIdle'
  BY <1>1, <1>2 DEF OthersIdle
<1>4. RowsHeld'
  BY <1>1, IdleHolds DEF RowsHeld
<1>5. ~ undeleted' => CodesFresh'
  BY <1>1, IdleHolds DEF CodesFresh
<1> QED
  BY <1>3, <1>4, <1>5 DEF SerialInv

\* The request that acts is the only one.
LEMMA ItIsAlone ==
  ASSUME SerialInv, ~ overlap, NEW r \in Requests, req[r] # Idle \/ \E op : Open(r, op)
  PROVE  r = Alone
  BY DEF SerialInv, OthersIdle, Open

\* A step that leaves rows, keys and accepted codes alone.
LEMMA SerialQuiet ==
  ASSUME Inv, SerialInv, ~ overlap, NEW r \in Requests, r = Alone, NEW q,
         req' = [req EXCEPT ![r] = q],
         UNCHANGED <<rows, cache, accepted, twice, undeleted>>,
         HoldsRow(q, rows),
         ~ undeleted => HoldsFresh(q, accepted, cache)
  PROVE  SerialInv'
<1>1. rows' = rows /\ cache' = cache /\ accepted' = accepted /\ twice' = twice
      /\ undeleted' = undeleted
  OBVIOUS
<1>2. OneUnused' /\ (~ undeleted' => twice' = {} /\ Spent')
  BY <1>1 DEF SerialInv, OneUnused, Spent
<1>3. HoldsRow(q, rows')
  BY <1>1
<1>4. ~ undeleted' => HoldsFresh(q, accepted', cache')
  BY <1>1
<1> QED
  BY <1>2, <1>3, <1>4, SerialStep

\* A new code is on no row and on no list.
LEMMA SerialStoreCode ==
  ASSUME Inv, SerialInv, ~ overlap, NEW r \in Requests, r = Alone, NEW op \in Ops,
         NEW x \in Phones, NEW p \in Purposes, StoreCode(r, op, x, p)
  PROVE  SerialInv'
<1> DEFINE w == [phone |-> x, code |-> made + 1, purpose |-> p, used |-> FALSE,
                 expired |-> FALSE]
           q == [pc |-> "stored", op |-> op, phone |-> x, purpose |-> p,
                 code |-> made + 1, row |-> 0, usr |-> users[x]]
<1>1. /\ rows' = Append(rows, w) /\ req' = [req EXCEPT ![r] = q]
      /\ cache' = cache /\ accepted' = accepted /\ twice' = twice /\ undeleted' = undeleted
  BY DEF StoreCode, Enter
<1>2. rows \in Seq(Row) /\ made \in Nat /\ made = Len(sent)
  BY BoundsAssumption DEF Inv, TypeOK
<1>3. w \in Row
  BY <1>2, BoundsAssumption DEF StoreCode, Row, Codes
<1>4. w.code = made + 1 /\ q.code = made + 1 /\ q.pc = "stored"
  OBVIOUS
<1> HIDE DEF w, q
<1>5. /\ DOMAIN rows' = DOMAIN rows \cup {Len(rows) + 1}
      /\ \A i \in DOMAIN rows : rows'[i] = rows[i]
      /\ rows'[Len(rows) + 1] = w
  BY <1>1, <1>2, <1>3, AppendProperties, LenProperties
<1>6. \A i \in DOMAIN rows : rows[i].code \in 1 .. made
  BY <1>2, RowShape DEF RowOK, MadeFor
<1>7. \A a \in accepted : a.code \in 1 .. made
  BY <1>2 DEF Inv, AcceptedMade
<1>8. OneUnused'
  BY <1>2, <1>4, <1>5, <1>6 DEF SerialInv, OneUnused
<1>9. ~ undeleted' => twice' = {} /\ Spent'
  BY <1>1, <1>2, <1>4, <1>5, <1>7 DEF SerialInv, Spent
<1>10. HoldsRow(q, rows') /\ HoldsFresh(q, accepted', cache')
  BY <1>1, <1>2, <1>4, <1>7 DEF HoldsRow, HoldsFresh
<1> QED
  BY <1>1, <1>8, <1>9, <1>10, SerialStep

\* The steps of a request that accept nothing and insert no row.
LEMMA SerialReads ==
  ASSUME Inv, SerialInv, ~ overlap, NEW r \in Requests,
         BeginRegister(r) \/ InsertAdmin(r) \/ Return(r)
  PROVE  SerialInv'
<1>1. UNCHANGED <<rows, cache, accepted, twice, undeleted>>
  BY DEF BeginRegister, InsertAdmin, Return, store, ghost
<1>2. r = Alone
  BY ItIsAlone DEF BeginRegister, InsertAdmin, Return, Idle
<1>3. CASE BeginRegister(r)
  <2>1. PICK x \in Phones : Enter(r, "begun", "register", x, "admin_confirm", 0, 0)
    BY <1>3 DEF BeginRegister
  <2> DEFINE q == [pc |-> "begun", op |-> "register", phone |-> x,
                   purpose |-> "admin_confirm", code |-> 0, row |-> 0, usr |-> users[x]]
  <2>2. req' = [req EXCEPT ![r] = q]
    BY <2>1 DEF Enter
  <2>3. HoldsRow(q, rows) /\ HoldsFresh(q, accepted, cache)
    BY DEF HoldsRow, HoldsFresh
  <2> HIDE DEF q
  <2> QED
    BY <1>1, <1>2, <2>2, <2>3, SerialQuiet
<1>4. CASE InsertAdmin(r)
  <2> DEFINE q == [req[r] EXCEPT !.pc = "inserted"]
  <2>1. req[r] # Idle
    BY <1>4 DEF InsertAdmin, Idle
  <2>2. req' = [req EXCEPT ![r] = q]
    BY <1>4 DEF InsertAdmin, Inv, TypeOK
  <2>3. HoldsRow(q, rows) /\ HoldsFresh(q, accepted, cache)
    BY <2>1, Shape DEF HoldsRow, HoldsFresh, Request
  <2> HIDE DEF q
  <2> QED
    BY <1>1, <1>2, <2>2, <2>3, SerialQuiet
<1>5. CASE Return(r)
  BY <1>1, <1>2, <1>5, IdleHolds, SerialQuiet DEF Return, Done
<1> QED
  BY <1>3, <1>4, <1>5

\* A code is sent by the only request.
LEMMA SerialSenders ==
  ASSUME Inv, SerialInv, ~ overlap, NEW r \in Requests,
         SendOtp(r) \/ AdminResendConfirmation(r) \/ RegisterCode(r)
  PROVE  SerialInv'
<1>1. r = Alone
  BY ItIsAlone DEF SendOtp, AdminResendConfirmation, RegisterCode, Idle
<1>2. CASE SendOtp(r)
  <2>1. PICK x \in Phones, p \in Purposes : StoreCode(r, "send", x, p)
    BY <1>2 DEF SendOtp
  <2> QED
    BY <1>1, <2>1, SerialStoreCode DEF Ops, Senders, Purposes
<1>3. CASE AdminResendConfirmation(r)
  <2>1. PICK x \in Phones : StoreCode(r, "resend", x, "admin_confirm")
    BY <1>3 DEF AdminResendConfirmation
  <2> QED
    BY <1>1, <2>1, SerialStoreCode DEF Ops, Senders, Purposes
<1>4. CASE RegisterCode(r)
  <2>1. req[r] # Idle /\ StoreCode(r, "register", req[r].phone, "admin_confirm")
    BY <1>4 DEF RegisterCode, Idle
  <2>2. req[r].phone \in Phones
    BY <2>1, Shape
  <2> QED
    BY <1>1, <2>1, <2>2, SerialStoreCode DEF Ops, Senders, Purposes
<1> QED
  BY <1>2, <1>3, <1>4

\* The key gets a code that was never accepted.
LEMMA SerialCacheCode ==
  ASSUME Inv, SerialInv, ~ overlap, NEW r \in Requests, CacheCode(r)
  PROVE  SerialInv'
<1> DEFINE q == req[r]
<1>1. req[r] # Idle /\ q.pc = "stored"
  BY DEF CacheCode, Idle
<1>2. r = Alone
  BY <1>1, ItIsAlone
<1>3. /\ cache' = IF redis THEN [cache EXCEPT ![q.purpose][q.phone] = q.code] ELSE cache
      /\ req' = [req EXCEPT ![r] = Idle] /\ rows' = rows /\ accepted' = accepted
      /\ twice' = twice /\ undeleted' = undeleted
  BY DEF CacheCode, Done, ghost
<1>4. \A p \in Purposes, x \in Phones : cache'[p][x] \in {cache[p][x], q.code}
  BY <1>3 DEF Inv, TypeOK
<1>5. ~ undeleted => \A a \in accepted : a.code # q.code
  BY <1>1 DEF SerialInv, CodesFresh, HoldsFresh
<1>6. OneUnused'
  BY <1>3 DEF SerialInv, OneUnused
<1> HIDE DEF q
<1>7. ~ undeleted' => twice' = {} /\ Spent'
  BY <1>3, <1>4, <1>5 DEF SerialInv, Spent, Uncached
<1> QED
  BY <1>2, <1>3, <1>6, <1>7, IdleHolds, SerialStep

\* What a check found is an unused row of a code that was not accepted.
LEMMA SerialFound ==
  ASSUME Inv, SerialInv, ~ overlap, NEW r \in Requests, r = Alone,
         NEW op, NEW x \in Phones, NEW p, NEW c, NEW I, I \subseteq Unused(x, c), I # {},
         req' = [req EXCEPT ![r] = Checked(op, x, p, c, Newest(I))],
         UNCHANGED <<rows, cache, accepted, twice, undeleted>>
  PROVE  SerialInv'
<1> DEFINE i == Newest(I)
           q == Checked(op, x, p, c, i)
<1>1. i \in DOMAIN rows /\ ~ rows[i].used /\ rows[i].code = c
  BY FoundRow
<1> HIDE DEF i
<1>2. q.pc = "checked" /\ q.row = i /\ q.code = c
  BY DEF Checked
<1> HIDE DEF q
<1>3. HoldsRow(q, rows)
  BY <1>1, <1>2 DEF HoldsRow
<1>4. ~ undeleted => HoldsFresh(q, accepted, cache)
  BY <1>1, <1>2 DEF SerialInv, Spent, HoldsFresh
<1>5. req' = [req EXCEPT ![r] = q]
  BY DEF q, i
<1> QED
  BY <1>3, <1>4, <1>5, SerialQuiet

\* A code is found in the table by the only request.
LEMMA SerialCheckRow ==
  ASSUME Inv, SerialInv, ~ overlap, NEW r \in Requests, CheckRow(r)
  PROVE  SerialInv'
<1>1. PICK op \in Checkers, x \in Phones, c \in 1 .. made :
        LET found == {i \in Unused(x, c) : PurposeFits(op, i)}
        IN  /\ Open(r, op) /\ found # {}
            /\ Enter(r, "checked", op, x, rows[Newest(found)].purpose, c, Newest(found))
            /\ UNCHANGED <<store, redis, made, ghost, overlap>>
  BY DEF CheckRow
<1> DEFINE found == {i \in Unused(x, c) : PurposeFits(op, i)}
<1>2. found \subseteq Unused(x, c) /\ found # {}
  BY <1>1
<1>3. req' = [req EXCEPT ![r] = Checked(op, x, rows[Newest(found)].purpose, c, Newest(found))]
  BY <1>1 DEF Enter, Checked
<1>4. r = Alone /\ UNCHANGED <<rows, cache, accepted, twice, undeleted>>
  BY <1>1, ItIsAlone DEF store, ghost
<1> HIDE DEF found
<1> QED
  BY <1>2, <1>3, <1>4, SerialFound

\* A cached code was not accepted; its fresh row is its only unused one.
LEMMA SerialCheckCached ==
  ASSUME Inv, SerialInv, ~ overlap, NEW r \in Requests, CheckCached(r)
  PROVE  SerialInv'
<1>1. PICK op \in Checkers, x \in Phones :
        LET c == cache[Purpose(op)][x]
            found == Unused(x, c)
        IN  /\ Open(r, op) /\ c # 0
            /\ IF found # {}
                 THEN /\ Enter(r, "checked", op, x, rows[Newest(found)].purpose, c, Newest(found))
                      /\ UNCHANGED rows
                 ELSE /\ rows' = Append(rows, [phone |-> x, code |-> c, purpose |-> Purpose(op),
                                               used |-> FALSE, expired |-> FALSE])
                      /\ Enter(r, "checked", op, x, Purpose(op), c, Len(rows) + 1)
            /\ UNCHANGED <<users, cache, redis, made, ghost, overlap>>
  BY DEF CheckCached
<1> DEFINE c == cache[Purpose(op)][x]
           found == Unused(x, c)
<1>2. r = Alone
  BY <1>1, ItIsAlone
<1>3. /\ cache' = cache /\ accepted' = accepted /\ twice' = twice
      /\ undeleted' = undeleted /\ sent' = sent
  BY <1>1 DEF ghost
<1>4. MadeFor(sent, c, x, Purpose(op)) /\ Purpose(op) \in Purposes /\ c \in 1 .. MaxCodes
  BY <1>1, PurposeType DEF Inv, CacheOK, TypeOK
<1>5. CASE found # {}
  <2>1. /\ req' = [req EXCEPT ![r] = Checked(op, x, rows[Newest(found)].purpose, c,
                                           Newest(found))]
        /\ UNCHANGED rows
    BY <1>1, <1>5 DEF Enter, Checked
  <2>2. found \subseteq Unused(x, c)
    OBVIOUS
  <2> HIDE DEF found, c
  <2> QED
    BY <1>2, <1>3, <1>5, <2>1, <2>2, SerialFound
<1>6. CASE found = {}
  <2> DEFINE w == [phone |-> x, code |-> c, purpose |-> Purpose(op), used |-> FALSE,
                   expired |-> FALSE]
             q == Checked(op, x, Purpose(op), c, Len(rows) + 1)
  <2>1. rows' = Append(rows, w) /\ req' = [req EXCEPT ![r] = q]
    BY <1>1, <1>6 DEF Enter, Checked
  <2>2. w \in Row /\ RowOK(w, sent')
    BY <1>3, <1>4 DEF Row, RowOK, Codes
  <2>3. w.code = c /\ ~ w.used /\ q.pc = "checked" /\ q.row = Len(rows) + 1 /\ q.code = c
    BY DEF Checked
  <2>4. \A i \in DOMAIN rows : rows[i].code = c => rows[i].used
    <3> SUFFICES ASSUME NEW i \in DOMAIN rows, rows[i].code = c, ~ rows[i].used PROVE FALSE
      BY RowShape DEF Row
    <3>1. rows[i].phone = x
      <4>1. MadeFor(sent, c, rows[i].phone, rows[i].purpose)
        BY RowShape DEF RowOK
      <4> HIDE DEF c
      <4> QED
        BY <1>4, <4>1 DEF MadeFor
    <3> QED
      BY <1>6, <3>1 DEF Unused, Unused_OfPhone
  <2>5. ~ undeleted => \A a \in accepted : a.code # c
    BY <1>4 DEF SerialInv, Spent, Uncached
  <2> HIDE DEF w, c, found, q
  <2>6. Len(sent) \in Nat /\ Len(sent') \in Nat /\ SentStays(sent, sent')
    BY <1>3, SentIsSeq
  <2>7. /\ Len(rows) \in Nat
        /\ DOMAIN rows = 1 .. Len(rows) /\ DOMAIN rows' = 1 .. Len(rows) + 1
        /\ \A i \in DOMAIN rows : rows'[i] = rows[i]
        /\ rows'[Len(rows) + 1] = w
    BY <2>1, <2>2, <2>6, RowAdded
  <2>8. OneUnused'
    BY <2>3, <2>4, <2>7 DEF SerialInv, OneUnused
  <2>9. HoldsRow(q, rows')
    BY <2>3, <2>7 DEF HoldsRow
  <2>10. ~ undeleted' => twice' = {} /\ Spent' /\ HoldsFresh(q, accepted', cache')
    BY <1>3, <2>3, <2>5, <2>7 DEF SerialInv, Spent, HoldsFresh
  <2> QED
    BY <1>2, <2>1, <2>8, <2>9, <2>10, SerialStep
<1> QED
  BY <1>5, <1>6

\* Redis answered, or it is on record that a key stayed.
LEMMA SerialDeleteKeys ==
  ASSUME Inv, SerialInv, ~ overlap, NEW r \in Requests, DeleteKeys(r)
  PROVE  SerialInv'
<1> DEFINE q0 == req[r]
           u == IF ReadsLate(q0.op) THEN users[q0.phone] ELSE q0.usr
           q == [req[r] EXCEPT !.pc = "deleted", !.usr = u]
<1>1. req[r] # Idle /\ q0.pc = "checked"
  BY DEF DeleteKeys, Idle
<1>2. r = Alone
  BY <1>1, ItIsAlone
<1>3. req' = [req EXCEPT ![r] = q] /\ rows' = rows /\ accepted' = accepted /\ twice' = twice
      /\ undeleted' = (undeleted \/ ~ redis)
  BY DEF DeleteKeys, Inv, TypeOK
<1>4. /\ q0 \in Request /\ MadeFor(sent, q0.code, q0.phone, q0.purpose)
      /\ q0.phone \in Phones /\ q0.op \in Checkers
      /\ q0.op \in {"reset", "confirm"} => q0.purpose = Purpose(q0.op)
  BY <1>1, Shape DEF ReqOK
<1>5. q.pc = "deleted" /\ q.row = q0.row /\ q.code = q0.code
  BY <1>4 DEF Request
<1>6. HoldsRow(q, rows')
  BY <1>1, <1>3, <1>5 DEF SerialInv, RowsHeld, HoldsRow
<1>7. OneUnused'
  BY <1>3 DEF SerialInv, OneUnused
<1>8. ASSUME ~ undeleted'
      PROVE  twice' = {} /\ Spent' /\ HoldsFresh(q, accepted', cache')
  <2>1. ~ undeleted /\ redis
    BY <1>3, <1>8
  <2>2. cache' = [p \in Purposes |-> IF p \in Keys(q0) THEN [cache[p] EXCEPT ![q0.phone] = 0]
                                     ELSE cache[p]]
    BY <2>1 DEF DeleteKeys
  <2>3. cache \in [Purposes -> [Phones -> 0 .. MaxCodes]]
    BY DEF Inv, TypeOK
  <2>4. \A p \in Purposes, x \in Phones : cache'[p][x] \in {cache[p][x], 0}
    BY <2>2, <2>3
  <2>5. q0.purpose \in Keys(q0)
    BY <1>4 DEF Keys
  <2>6. q0.code \in Nat \ {0}
    BY <1>4, SentIsSeq DEF MadeFor
  <2>7. Uncached(q0.code, cache')
    <3> SUFFICES ASSUME NEW p \in Purposes, NEW x \in Phones, cache'[p][x] = q0.code
                 PROVE  FALSE
      BY DEF Uncached
    <3>1. cache[p][x] = q0.code /\ cache[p][x] # 0
      BY <2>4, <2>6
    <3>2. MadeFor(sent, q0.code, x, p)
      BY <3>1 DEF Inv, CacheOK
    <3>3. x = q0.phone /\ p = q0.purpose
      BY <1>4, <3>2 DEF MadeFor
    <3>4. cache'[p][x] = 0
      BY <2>2, <2>3, <2>5, <3>3
    <3> QED
      BY <2>6, <3>4
  <2>8. \A a \in accepted : a.code # q0.code /\ a.code \in Nat \ {0}
    BY <1>1, <2>1, SentIsSeq DEF SerialInv, CodesFresh, HoldsFresh, Inv, AcceptedMade
  <2>9. Spent'
    BY <1>3, <2>1, <2>4, <2>8 DEF SerialInv, Spent, Uncached
  <2>10. twice' = {}
    BY <1>3, <2>1 DEF SerialInv
  <2> HIDE DEF q, q0
  <2> QED
    BY <1>3, <1>5, <2>7, <2>8, <2>9, <2>10 DEF HoldsFresh
<1> HIDE DEF q
<1> QED
  BY <1>2, <1>3, <1>6, <1>7, <1>8, SerialStep

\* The last unused row of the code is used up with the commit that accepts it.
LEMMA SerialUseCode ==
  ASSUME Inv, SerialInv, ~ overlap, NEW r \in Requests, UseCode(r)
  PROVE  SerialInv'
<1> DEFINE q == req[r]
           a0 == [op |-> q.op, phone |-> q.phone, code |-> q.code]
<1>1. req[r] # Idle /\ q.pc = "deleted"
  BY DEF UseCode, Idle
<1>2. r = Alone
  BY <1>1, ItIsAlone
<1>3. /\ rows' = [rows EXCEPT ![q.row].used = TRUE]
      /\ accepted' = accepted \cup {a0}
      /\ twice' = IF \E a \in accepted : a.code = q.code THEN twice \cup {q.code} ELSE twice
      /\ req' = [req EXCEPT ![r] = Idle]
      /\ cache' = cache /\ sent' = sent /\ undeleted' = undeleted
  BY DEF UseCode, MarkUsed, Done
<1>4. q.row \in DOMAIN rows /\ rows[q.row].code = q.code /\ ~ rows[q.row].used
  BY <1>1 DEF SerialInv, RowsHeld, HoldsRow
<1>5. q.row \in Nat
  BY <1>4, RowShape
<1>6. /\ DOMAIN rows' = DOMAIN rows
      /\ \A j \in DOMAIN rows : /\ rows'[j].code = rows[j].code
                                /\ rows[j].used => rows'[j].used
  BY <1>3, <1>5, RowMarked
<1>7. rows'[q.row].used
  <2>1. rows[q.row] \in Row
    BY <1>4, RowShape
  <2> QED
    BY <1>3, <1>4, <2>1 DEF Row
<1>8. OneUnused'
  BY <1>6 DEF SerialInv, OneUnused
<1>9. ASSUME ~ undeleted'
      PROVE  twice' = {} /\ Spent'
  <2>1. ~ undeleted
    BY <1>3, <1>9
  <2>2. (\A a \in accepted : a.code # q.code) /\ Uncached(q.code, cache)
    BY <1>1, <2>1 DEF SerialInv, CodesFresh, HoldsFresh
  <2>3. twice' = {}
    BY <1>3, <2>1, <2>2 DEF SerialInv
  <2>4. \A j \in DOMAIN rows' : rows'[j].code = q.code => rows'[j].used
    <3> SUFFICES ASSUME NEW j \in DOMAIN rows, rows[j].code = q.code PROVE rows'[j].used
      BY <1>6
    <3>1. CASE rows[j].used
      BY <1>6, <3>1
    <3>2. CASE ~ rows[j].used
      <4>1. j = q.row
        BY <1>4, <3>2 DEF SerialInv, OneUnused
      <4> QED
        BY <1>7, <4>1
    <3> QED
      BY <3>1, <3>2
  <2>5. ASSUME NEW a \in accepted'
        PROVE  /\ \A i \in DOMAIN rows' : rows'[i].code = a.code => rows'[i].used
               /\ Uncached(a.code, cache')
    <3>1. CASE a \in accepted
      BY <1>3, <1>6, <2>1, <3>1 DEF SerialInv, Spent
    <3>2. CASE a = a0
      BY <1>3, <2>2, <2>4, <3>2
    <3> QED
      BY <1>3, <3>1, <3>2
  <2>6. Spent'
    BY <2>5 DEF Spent
  <2> QED
    BY <2>3, <2>6
<1> QED
  BY <1>2, <1>3, <1>8, <1>9, IdleHolds, SerialStep

\* Time and Redis use no row and add no key.
LEMMA SerialEnvironment ==
  ASSUME Inv, SerialInv, ~ overlap,
         (\E i \in DOMAIN rows : Expire(i)) \/ RedisDown \/ RedisUp
  PROVE  SerialInv'
<1>1. /\ req' = req /\ accepted' = accepted /\ twice' = twice /\ undeleted' = undeleted
      /\ sent' = sent
  BY DEF Expire, RedisDown, RedisUp, store, ghost
<1>2. \A p \in Purposes, x \in Phones : cache'[p][x] \in {cache[p][x], 0}
  BY DEF Expire, RedisDown, RedisUp, store
<1>3. /\ DOMAIN rows' = DOMAIN rows
      /\ \A j \in DOMAIN rows : rows'[j].code = rows[j].code /\ rows'[j].used = rows[j].used
  <2>1. ASSUME NEW i \in DOMAIN rows, Expire(i)
        PROVE  /\ DOMAIN rows' = DOMAIN rows
               /\ \A j \in DOMAIN rows : /\ rows'[j].code = rows[j].code
                                         /\ rows'[j].used = rows[j].used
    <3>1. rows' = [rows EXCEPT ![i].expired = TRUE]
      BY <2>1 DEF Expire
    <3>2. \A j \in DOMAIN rows : rows[j] \in Row
      BY RowShape
    <3> QED
      BY <3>1, <3>2 DEF Row
  <2>2. CASE RedisDown \/ RedisUp
    BY <2>2 DEF RedisDown, RedisUp, store
  <2> QED
    BY <2>1, <2>2
<1>4. ASSUME NEW c \in Nat \ {0}, Uncached(c, cache)
      PROVE  Uncached(c, cache')
  BY <1>2, <1>4 DEF Uncached
<1>5. OneUnused' /\ RowsHeld'
  BY <1>1, <1>3 DEF SerialInv, OneUnused, RowsHeld, HoldsRow
<1>6. OthersIdle'
  BY <1>1 DEF SerialInv, OthersIdle, Alone
<1>7. ASSUME ~ undeleted'
      PROVE  twice' = {} /\ Spent' /\ CodesFresh'
  <2>1. \A a \in accepted : a.code \in Nat \ {0}
    BY SentIsSeq DEF Inv, AcceptedMade
  <2>2. twice' = {} /\ Spent'
    BY <1>1, <1>3, <1>4, <1>7, <2>1 DEF SerialInv, Spent
  <2>3. ASSUME NEW r \in Requests
        PROVE  HoldsFresh(req[r], accepted, cache')
    <3>1. HoldsFresh(req[r], accepted, cache)
      BY <1>1, <1>7 DEF SerialInv, CodesFresh
    <3>2. req[r].pc = "deleted" => req[r].code \in Nat \ {0}
      <4> SUFFICES ASSUME req[r].pc = "deleted" PROVE req[r].code \in Nat \ {0}
        OBVIOUS
      <4>1. req[r] # Idle
        BY DEF Idle
      <4> QED
        <5>1. MadeFor(sent, req[r].code, req[r].phone, req[r].purpose)
          BY <4>1, Shape DEF ReqOK
        <5> QED
          BY <5>1, SentIsSeq DEF MadeFor
    <3> QED
      BY <1>4, <3>1, <3>2 DEF HoldsFresh
  <2> QED
    BY <1>1, <2>2, <2>3 DEF CodesFresh
<1> QED
  BY <1>5, <1>6, <1>7 DEF SerialInv

\* No code was accepted yet.
LEMMA SerialInit == Init => SerialInv
<1> SUFFICES ASSUME Init PROVE SerialInv
  OBVIOUS
<1>1. OthersIdle /\ OneUnused /\ twice = {} /\ Spent
  BY DEF Init, OthersIdle, OneUnused, Spent
<1>2. RowsHeld /\ CodesFresh
  BY IdleHolds DEF Init, RowsHeld, CodesFresh
<1> QED
  BY <1>1, <1>2 DEF SerialInv

\* Every step keeps codes spent once.
LEMMA SerialNext == Inv /\ SerialInv /\ [Next]_vars => SerialInv'
<1> SUFFICES ASSUME Inv, SerialInv, [Next]_vars PROVE SerialInv'
  OBVIOUS
<1>1. CASE UNCHANGED vars
  BY <1>1 DEF vars, SerialInv, OthersIdle, Alone, OneUnused, RowsHeld, Spent, CodesFresh
<1>2. CASE Next
  <2>1. overlap' = overlap
    <3>1. ASSUME NEW r \in Requests,
                 \/ SendOtp(r) \/ AdminResendConfirmation(r) \/ CacheCode(r)
                 \/ BeginRegister(r) \/ InsertAdmin(r) \/ RegisterCode(r)
          PROVE  overlap' = overlap
      BY <3>1 DEF SendOtp, AdminResendConfirmation, RegisterCode, StoreCode, BeginRegister,
         InsertAdmin, CacheCode
    <3>2. ASSUME NEW r \in Requests,
                 \/ CheckCached(r) \/ CheckRow(r) \/ DeleteKeys(r) \/ UseCode(r) \/ Return(r)
          PROVE  overlap' = overlap
      BY <3>2 DEF CheckCached, CheckRow, DeleteKeys, UseCode, Return
    <3>3. ASSUME (\E i \in DOMAIN rows : Expire(i)) \/ RedisDown \/ RedisUp
          PROVE  overlap' = overlap
      BY <3>3 DEF Expire, RedisDown, RedisUp
    <3> QED
      BY <1>2, <3>1, <3>2, <3>3 DEF Next
  <2>2. CASE overlap
    BY <2>1, <2>2 DEF SerialInv
  <2>3. CASE ~ overlap
    BY <1>2, <2>3, SerialReads, SerialSenders, SerialCacheCode, SerialCheckCached,
       SerialCheckRow, SerialDeleteKeys, SerialUseCode, SerialEnvironment DEF Next
  <2> QED
    BY <2>2, <2>3
<1> QED
  BY <1>1, <1>2

\* One request at a time and with every deletion done, no code of auth.py is
\* accepted twice, whichever commit a request died at.
THEOREM CodesUsedOnce == Spec => []OneUse
<1>1. SerialInv => OneUse
  BY DEF SerialInv, OneUse
<1> QED
  BY <1>1, InvHolds, SerialInit, SerialNext, PTL DEF Spec
=============================================================================
