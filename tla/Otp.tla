-------------------------------- MODULE Otp --------------------------------
(***************************************************************************)
(* One-time codes and the accounts they open: auth_service auth.py.  A code *)
(* is a row of otp_codes and, as a shortcut, a Redis key per purpose and    *)
(* phone.  Redis may be unreachable at any moment: every helper of          *)
(* package/redis/client.py then fails quietly and the code falls back to    *)
(* the table.  Requests overlap and die as in SupplierPurchase.             *)
(*                                                                          *)
(* Codes are random; the n-th one sent is represented by n.  Names, mail    *)
(* and tokens are left out: that a code was accepted is recorded.           *)
(***************************************************************************)
EXTENDS Integers, Sequences, FiniteSets, Columns

CONSTANTS
  Requests,    \* request slots
  Phones,
  MayOverlap,  \* the operations called where requests overlap
  MaxCodes,    \* bound: codes made
  MaxRows      \* bound: rows of otp_codes

ASSUME BoundsAssumption == MaxCodes \in Nat /\ MaxRows \in Nat

VARIABLES
  users,       \* users by phone: [role, verified]
  rows,        \* otp_codes: [phone, code, purpose, used, expired]
  cache,       \* Redis otp:<purpose>:<phone>; 0 is no key
  redis,       \* Redis is reachable
  made,        \* codes made so far
  req,         \* the requests in flight
  sent,        \* history: the phone and purpose each code was made for
  accepted,    \* history: [op, phone, code] of every code accepted
  twice,       \* history: codes accepted more than once
  undeleted,   \* history: a redis_delete failed
  overlap      \* whether requests overlap in this behaviour; never changes

store == <<users, rows, cache>>
ghost == <<sent, accepted, twice, undeleted>>
vars == <<users, rows, cache, redis, made, req, sent, accepted, twice,
          undeleted, overlap>>

\* "none": no such user.  "retailer" stands for riders too, who sign in alike.
Roles == {"none", "customer", "retailer", "admin"}
User == [role : Roles, verified : BOOLEAN]
\* "other": a purpose no handler asks for; send_otp takes any.
Purposes == {"login", "reset", "admin_confirm", "other"}
Codes == 1 .. MaxCodes
Row == [phone : Phones, code : Codes, purpose : Purposes, used : BOOLEAN,
        expired : BOOLEAN]

\* login: verify_otp_and_login; shop: retailer_otp_login; staff: the logins of
\* an existing admin, retailer or rider with a code.
Senders == {"send", "register", "resend"}
Checkers == {"login", "shop", "staff", "reset", "confirm"}
Ops == Senders \cup Checkers
ASSUME OverlapAssumption == MayOverlap \subseteq Ops

\* row: the row _check_otp returned; usr: the user read; code 0: not made yet.
Request == [pc : {"begun", "inserted", "stored", "checked", "deleted"}, op : Ops,
            phone : Phones, purpose : Purposes, code : 0 .. MaxCodes,
            row : 0 .. MaxRows, usr : User]
Idle == [pc |-> "idle"]
\* The slot of all requests where none overlap.
Alone == CHOOSE r \in Requests : TRUE

Init ==
  /\ users = [x \in Phones |-> [role |-> "none", verified |-> FALSE]]
  /\ rows = <<>>
  /\ cache = [p \in Purposes |-> [x \in Phones |-> 0]]
  /\ redis = TRUE
  /\ made = 0
  /\ req = [r \in Requests |-> Idle]
  /\ sent = <<>>
  /\ accepted = {}
  /\ twice = {}
  /\ undeleted = FALSE
  /\ overlap \in BOOLEAN

-----------------------------------------------------------------------------
Open(r, op) ==
  /\ req[r] = Idle
  /\ IF overlap THEN op \in MayOverlap ELSE r = Alone

Enter(r, pc, op, x, purpose, code, row) ==
  req' = [req EXCEPT ![r] = [pc |-> pc, op |-> op, phone |-> x,
                             purpose |-> purpose, code |-> code, row |-> row,
                             usr |-> users[x]]]

Done(r) == req' = [req EXCEPT ![r] = Idle]

-----------------------------------------------------------------------------
(***************************************************************************)
(* Making a code: send_otp for the phone and the purpose its caller names,  *)
(* whether or not they are the caller's; admin_register and                 *)
(* admin_resend_confirmation for the confirmation of the admin's address.   *)
(***************************************************************************)
\* The row is committed, then (CacheCode) the key is written and the code
\* delivered.
StoreCode(r, op, x, purpose) ==
  /\ made < MaxCodes /\ Len(rows) < MaxRows
  /\ made' = made + 1
  /\ sent' = Append(sent, [phone |-> x, purpose |-> purpose])
  /\ rows' = Append(rows, [phone |-> x, code |-> made + 1, purpose |-> purpose,
                           used |-> FALSE, expired |-> FALSE])
  /\ Enter(r, "stored", op, x, purpose, made + 1, 0)
  /\ UNCHANGED <<users, cache, redis, accepted, twice, undeleted, overlap>>

SendOtp(r) ==
  \E x \in Phones, p \in Purposes : Open(r, "send") /\ StoreCode(r, "send", x, p)

AdminResendConfirmation(r) ==
  \E x \in Phones :
    /\ Open(r, "resend")
    /\ users[x].role = "admin" /\ ~ users[x].verified
    /\ StoreCode(r, "resend", x, "admin_confirm")

\* admin_register refuses when it finds an admin.
RegistrationOpen == \A x \in Phones : users[x].role # "admin"

BeginRegister(r) ==
  \E x \in Phones :
    /\ Open(r, "register")
    /\ RegistrationOpen
    /\ users[x].role = "none"
    /\ Enter(r, "begun", "register", x, "admin_confirm", 0, 0)
    /\ UNCHANGED <<store, redis, made, ghost, overlap>>

\* Its first commit (the phone is unique in users), and its second.
InsertAdmin(r) ==
  /\ req[r].pc = "begun"
  /\ users[req[r].phone].role = "none"
  /\ users' = [users EXCEPT ![req[r].phone].role = "admin"]
  /\ req' = [req EXCEPT ![r].pc = "inserted"]
  /\ UNCHANGED <<rows, cache, redis, made, ghost, overlap>>

RegisterCode(r) ==
  /\ req[r].pc = "inserted"
  /\ StoreCode(r, "register", req[r].phone, "admin_confirm")

CacheCode(r) ==
  LET q == req[r]
  IN  /\ q.pc = "stored"
      /\ cache' = IF redis THEN [cache EXCEPT ![q.purpose][q.phone] = q.code] ELSE cache
      /\ Done(r)
      /\ UNCHANGED <<users, rows, redis, made, ghost, overlap>>

-----------------------------------------------------------------------------
(***************************************************************************)
(* _check_otp.                                                              *)
(***************************************************************************)
\* The purpose a handler passes; the logins pass none.
Purpose(op) ==
  CASE op = "reset" -> "reset" [] op = "confirm" -> "admin_confirm" [] OTHER -> "login"

\* Unused rows of a code; only the table look-up asks for the purpose.
Unused_OfPhone(x, c) == {i \in DOMAIN rows : rows[i].phone = x /\ rows[i].code = c}
Unused(x, c) == {i \in Unused_OfPhone(x, c) : ~ rows[i].used}

PurposeFits_Any(op, i) == TRUE
PurposeFits(op, i) ==
  op \in {"reset", "confirm"} => rows[i].purpose = Purpose(op)

Newest(I) == CHOOSE i \in I : \A j \in I : j <= i

\* Which users the handlers let through before they look at the code.
Admitted(op, u) ==
  CASE op = "staff" -> u.role = "retailer" \/ (u.role = "admin" /\ u.verified)
    [] op = "confirm" -> u.role = "admin" /\ ~ u.verified
    [] OTHER -> TRUE

\* A cached code is taken without a look at the row's expiry; with no unused
\* row left, a fresh one is inserted and committed.
CheckCached(r) ==
  \E op \in Checkers, x \in Phones :
    LET c == cache[Purpose(op)][x]
        found == Unused(x, c)
    IN  /\ Open(r, op)
        /\ redis
        /\ Admitted(op, users[x])
        /\ c # 0
        /\ IF found # {}
             THEN /\ Enter(r, "checked", op, x, rows[Newest(found)].purpose, c, Newest(found))
                  /\ UNCHANGED rows
             ELSE /\ Len(rows) < MaxRows
                  /\ rows' = Append(rows, [phone |-> x, code |-> c, purpose |-> Purpose(op),
                                           used |-> FALSE, expired |-> FALSE])
                  /\ Enter(r, "checked", op, x, Purpose(op), c, Len(rows) + 1)
        /\ UNCHANGED <<users, cache, redis, made, ghost, overlap>>

CheckRow(r) ==
  \E op \in Checkers, x \in Phones, c \in 1 .. made :
    LET found == {i \in Unused(x, c) : PurposeFits(op, i)}
    IN  /\ Open(r, op)
        /\ Admitted(op, users[x])
        /\ redis => cache[Purpose(op)][x] # c
        /\ found # {}
        /\ ~ rows[Newest(found)].expired
        /\ Enter(r, "checked", op, x, rows[Newest(found)].purpose, c, Newest(found))
        /\ UNCHANGED <<store, redis, made, ghost, overlap>>

-----------------------------------------------------------------------------
(***************************************************************************)
(* Using the code: the keys are deleted first, then is_used and the user    *)
(* are committed together.                                                  *)
(***************************************************************************)
\* The logins delete the login key and that of the row's purpose, the others
\* the key of their own purpose.
Keys(q) == IF q.op \in {"reset", "confirm"} THEN {Purpose(q.op)} ELSE {"login", q.purpose}

\* The handlers that read the user after the code was checked.
ReadsLate(op) == op \in {"login", "shop", "reset"}

DeleteKeys(r) ==
  LET q == req[r]
  IN  /\ q.pc = "checked"
      /\ q.op = "reset" => users[q.phone].role # "none"
      /\ cache' = IF redis THEN [p \in Purposes |->
                                   IF p \in Keys(q) THEN [cache[p] EXCEPT ![q.phone] = 0]
                                   ELSE cache[p]]
                  ELSE cache
      /\ undeleted' = (undeleted \/ ~ redis)
      /\ req' = [req EXCEPT ![r].pc = "deleted",
                            ![r].usr = IF ReadsLate(q.op) THEN users[q.phone] ELSE @]
      /\ UNCHANGED <<users, rows, redis, made, sent, accepted, twice, overlap>>

\* The user after the code was accepted, and whether the handler allows it: a
\* login of the wrong kind is refused here, and the transaction rolled back.
Allowed(q) ==
  CASE q.op = "login" -> q.usr.role \in {"none", "customer"}
    [] q.op = "shop" -> q.usr.role \in {"none", "retailer"}
    [] OTHER -> TRUE
NewRole_OfLogin(q) == IF q.op = "shop" THEN "retailer" ELSE "customer"
NewRole(q) ==
  IF q.usr.role # "none" THEN q.usr.role
  ELSE IF q.op = "shop" THEN "retailer" ELSE "customer"

Verifies(q) == q.op = "confirm"

\* Two requests that create the same user: the second fails on the unique
\* phone.
MarkUsed_Skipped(q) == UNCHANGED rows
MarkUsed(q) == rows' = [rows EXCEPT ![q.row].used = TRUE]

UseCode(r) ==
  LET q == req[r]
  IN  /\ q.pc = "deleted"
      /\ Allowed(q)
      /\ q.usr.role = "none" => users[q.phone].role = "none"
      /\ users' = [users EXCEPT ![q.phone] =
                     [role |-> Flush(@.role, q.usr.role, NewRole(q)),
                      verified |-> @.verified \/ Verifies(q)]]
      /\ MarkUsed(q)
      /\ accepted' = accepted \cup {[op |-> q.op, phone |-> q.phone, code |-> q.code]}
      /\ twice' = IF \E a \in accepted : a.code = q.code THEN twice \cup {q.code} ELSE twice
      /\ Done(r)
      /\ UNCHANGED <<cache, redis, made, sent, undeleted, overlap>>

-----------------------------------------------------------------------------
\* A request ends: refused, finished, or its process died.
Return(r) ==
  /\ req[r] # Idle
  /\ Done(r)
  /\ UNCHANGED <<store, redis, made, ghost, overlap>>

\* The lifetime of a row passes.  The key of a code goes with the row that
\* was stored with it: both lifetimes start within the same request.
Expire(i) ==
  /\ ~ rows[i].expired
  /\ rows' = [rows EXCEPT ![i].expired = TRUE]
  /\ cache' = [p \in Purposes |-> [x \in Phones |->
                 IF cache[p][x] = rows[i].code /\ \A j \in 1 .. i - 1 : rows[j].code # rows[i].code
                   THEN 0 ELSE cache[p][x]]]
  /\ UNCHANGED <<users, redis, made, req, ghost, overlap>>

RedisDown ==
  /\ redis
  /\ redis' = FALSE
  /\ UNCHANGED <<store, made, req, ghost, overlap>>

\* It comes back with its keys, or restarted without them.
RedisUp ==
  /\ ~ redis
  /\ redis' = TRUE
  /\ cache' \in {cache, [p \in Purposes |-> [x \in Phones |-> 0]]}
  /\ UNCHANGED <<users, rows, made, req, ghost, overlap>>

Next ==
  \/ \E r \in Requests :
       \/ SendOtp(r) \/ AdminResendConfirmation(r) \/ CacheCode(r)
       \/ BeginRegister(r) \/ InsertAdmin(r) \/ RegisterCode(r)
       \/ CheckCached(r) \/ CheckRow(r) \/ DeleteKeys(r) \/ UseCode(r) \/ Return(r)
  \/ \E i \in DOMAIN rows : Expire(i)
  \/ RedisDown \/ RedisUp

Spec == Init /\ [][Next]_vars

-----------------------------------------------------------------------------
\* Redis keys, code rows, users and what an OTP request read keep the
\* shapes auth.py gives them.
TypeOK ==
  /\ users \in [Phones -> User]
  /\ rows \in Seq(Row)
  /\ cache \in [Purposes -> [Phones -> 0 .. MaxCodes]]
  /\ redis \in BOOLEAN /\ undeleted \in BOOLEAN /\ overlap \in BOOLEAN
  /\ made \in 0 .. MaxCodes
  /\ req \in [Requests -> Request \cup {Idle}]
  /\ sent \in Seq([phone : Phones, purpose : Purposes])
  /\ accepted \subseteq [op : Checkers, phone : Phones, code : Codes]
  /\ twice \subseteq Codes

\* A code opens one session: is_used and the deleted keys keep it from being
\* accepted again, also when Redis was away while the code was stored or
\* looked up.  Only a deletion that failed, or overlapping requests, undo it.
OneUse == ~ overlap /\ ~ undeleted => twice = {}

\* However requests overlap and Redis fails, a password is reset, and an
\* admin's address confirmed, only with a code made for that purpose and
\* that phone, and every login with a code made for its phone; an admin who is
\* verified (and so may sign in) has confirmed such a code.  It does not say
\* who asked for the code or received it: send_otp makes one for any phone and
\* purpose, and mails it to the address its caller gives.
PurposeHonoured ==
  /\ \A a \in accepted :
       /\ sent[a.code].phone = a.phone
       /\ a.op \in {"reset", "confirm"} => sent[a.code].purpose = Purpose(a.op)
  /\ \A x \in Phones :
       users[x].verified => \E a \in accepted : a.op = "confirm" /\ a.phone = x

\* An account keeps its kind: no login turns a retailer, a rider or an admin
\* into another kind of user, however requests overlap and Redis fails.
RoleKept ==
  [][\A x \in Phones : users[x].role # "none" => users'[x].role = users[x].role]_vars
=============================================================================
