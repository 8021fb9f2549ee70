--------------------------- MODULE SessionsProofs ----------------------------
(***************************************************************************)
(* For every number of processes, requests, users, sockets and token pairs,  *)
(* whatever overlaps, restarts and outages there are: a revoked token is     *)
(* refused by all who can know, a user marked online has a refresh token     *)
(* left, and a user shown online has an open socket.  Without overlap and    *)
(* with Redis up, a login has one good refresh token.                        *)
(***************************************************************************)
EXTENDS Sessions, SequenceTheorems, TLAPS

-----------------------------------------------------------------------------
(***************************************************************************)
(* The inductive invariant, in parts.                                        *)
(***************************************************************************)

\* A request names a pair of its user and revokes tokens that were issued: a
\* refresh the refresh token it came with, a logout its access token and one more.
RequestOK(q) ==
  q # Idle =>
    /\ q.left \subseteq Issued
    /\ q.op # "login" => q.pair \in DOMAIN pairs /\ pairs[q.pair].user = q.user
    /\ q.pc = "begun" /\ q.op = "refresh" => q.left = {<<q.pair, "refresh">>}
    /\ q.op = "logout" => \E k \in Issued : q.left \subseteq {<<q.pair, "access">>, k}
    /\ q.op \in {"login", "online", "offline"} => q.left = {}
RequestsOK == \A r \in Requests : RequestOK(req[r])

SocketsOK == \A s \in Sockets : sockets[s] # Closed => sockets[s].token \in Issued

\* A pair descends from a login before it.
LoginsOK == \A n \in DOMAIN pairs : pairs[n].login <= n

Shape == TypeOK /\ RequestsOK /\ SocketsOK /\ LoginsOK

\* What was revoked is written down where it was, up to its last seconds.
RevokedKept ==
  \A x \in revoked : life[x.token] = "valid" =>
    IF x.by = "redis" THEN x.token \in bl ELSE x.token \in mem[x.by]

\* A user marked online has a refresh token, or a request that is about to issue
\* the next or to mark him offline.  The token is not named by a logout of his
\* that read him offline: such a logout will leave is_online alone.
Settling(r, u) ==
  /\ req[r] # Idle /\ req[r].user = u
  /\ \/ req[r].op \in {"login", "refresh"} /\ req[r].pc = "marked"
     \/ req[r].op = "refresh" /\ req[r].pc = "revoked"
     \/ req[r].op = "logout" /\ req[r].pc = "revoked" /\ req[r].was
Blind(r, u) == req[r] # Idle /\ req[r].op = "logout" /\ req[r].user = u /\ ~ req[r].was
Safe(n, u) ==
  /\ pairs[n].user = u /\ Good(n)
  /\ \A r \in Requests : Blind(r, u) => <<n, "refresh">> \notin req[r].left
Kept(u) == (\E n \in DOMAIN pairs : Safe(n, u)) \/ (\E r \in Requests : Settling(r, u))
SessionKept == ~ cut => \A u \in Users \ elsewhere : online[u] => Kept(u)

\* The last that the admin's screen will hear of a user: the last message about
\* him, or, when none is under way, what the screen shows.
About(u, i) == i \in DOMAIN news /\ news[i].user = u
LastOn(u) ==
  \/ \E i \in DOMAIN news : /\ About(u, i) /\ news[i].online
                            /\ \A k \in DOMAIN news : About(u, k) => k <= i
  \/ shown[u] /\ \A k \in DOMAIN news : ~ About(u, k)
HasSocket(u) == \E s \in Sockets : sockets[s].st = "ready" /\ SocketUser(s) = u
NewsTrue == \A u \in Users \ unsettled : LastOn(u) => HasSocket(u)

Inv == Shape /\ RevokedKept /\ RevokedRefused /\ SessionKept /\ NewsTrue

\* One request at a time, and Redis is told of every revocation.
OneRequest == \A r, s \in Requests : req[r] # Idle /\ req[s] # Idle => r = s
RedisTold ==
  /\ redis /\ \A p \in Processes : link[p] # "off"
  /\ \A x \in revoked : x.by = "redis"

\* The good refresh tokens of a login: at most one, the one that a refresh under
\* way has shown, and none once it has revoked that one.
Begun(r) == req[r] # Idle /\ req[r].op = "refresh" /\ req[r].pc = "begun"
Spent(r) == req[r] # Idle /\ req[r].op = "refresh" /\ req[r].pc \in {"revoked", "marked"}
Fresh == \A k \in DOMAIN pairs : life[<<k, "refresh">>] = "valid"
Chain ==
  /\ \A m, n \in DOMAIN pairs :
       pairs[m].login = pairs[n].login /\ Good(m) /\ Good(n) => m = n
  /\ \A r \in Requests : Begun(r) => Good(req[r].pair)
  /\ \A r \in Requests, n \in DOMAIN pairs :
       Spent(r) /\ pairs[n].login = pairs[req[r].pair].login => ~ Good(n)
Serial == OneRequest /\ RedisTold /\ (Fresh => Chain)
SerialInv == ~ overlap /\ ~ faulty => Serial

-----------------------------------------------------------------------------
\* A pair is issued.
LEMMA Issues ==
  ASSUME Shape, NEW u \in Users, NEW login \in 0 .. Len(pairs), Issue(u, login)
  PROVE  /\ pairs' \in Seq(Pair) /\ Len(pairs') = Len(pairs) + 1 /\ Len(pairs') <= MaxPairs
         /\ DOMAIN pairs = 1 .. Len(pairs) /\ DOMAIN pairs' = 1 .. Len(pairs) + 1
         /\ \A n \in DOMAIN pairs : pairs'[n] = pairs[n]
         /\ pairs'[Len(pairs) + 1] = [user |-> u, login |-> NewLogin(login)]
         /\ NewLogin(login) \in 1 .. Len(pairs) + 1
         /\ Issued \subseteq Issued'
         /\ LoginsOK'
         /\ elsewhere' = elsewhere \ {u}
<1> DEFINE new == [user |-> u, login |-> NewLogin(login)]
           k == Len(pairs)
<1>1. pairs \in Seq(Pair) /\ k \in Nat /\ k < MaxPairs /\ MaxPairs \in Nat
  BY BoundsAssumption DEF Shape, TypeOK, Issue
<1>2. NewLogin(login) \in 1 .. k + 1 /\ NewLogin(login) \in 1 .. MaxPairs
  BY <1>1 DEF NewLogin
<1>3. new \in Pair
  BY <1>2 DEF Pair
<1>4. pairs' = Append(pairs, new)
  BY DEF Issue
<1>n. new.login = NewLogin(login)
  OBVIOUS
<1> HIDE DEF new
<1>5. /\ pairs' \in Seq(Pair) /\ Len(pairs') = k + 1
      /\ DOMAIN pairs = 1 .. k /\ DOMAIN pairs' = 1 .. k + 1
      /\ \A n \in DOMAIN pairs : pairs'[n] = pairs[n]
      /\ pairs'[k + 1] = new
  BY <1>1, <1>3, <1>4
<1>6. Issued \subseteq Issued'
  BY <1>1, <1>5 DEF Issued
<1>7. LoginsOK'
  <2> SUFFICES ASSUME NEW n \in DOMAIN pairs' PROVE pairs'[n].login <= n
    BY DEF LoginsOK
  <2>1. CASE n \in DOMAIN pairs
    BY <1>5, <2>1 DEF Shape, LoginsOK
  <2>2. CASE n = k + 1
    BY <1>1, <1>2, <1>5, <1>n, <2>2
  <2> QED
    BY <1>1, <1>5, <2>1, <2>2
<1>8. elsewhere' = elsewhere \ {u}
  BY DEF Issue
<1> QED
  BY <1>1, <1>2, <1>5, <1>6, <1>7, <1>8 DEF new

\* What an action that issues no pair has to keep for the shape to stay.
LEMMA SameShape ==
  ASSUME Shape, pairs' = pairs, life' \in [Token -> {"valid", "last", "expired"}],
         bl' \subseteq Issued, mem' \in [Processes -> SUBSET Issued],
         link' \in [Processes -> {"new", "ok", "off"}],
         online' \in [Users -> BOOLEAN], shown' \in [Users -> BOOLEAN],
         req' \in [Requests -> Request \cup {Idle}], \A r \in Requests : RequestOK(req'[r]),
         sockets' \in [Sockets -> Socket \cup {Closed}],
         \A s \in Sockets : sockets'[s] # Closed => sockets'[s].token \in Issued,
         news' \in Seq([user : Users, online : BOOLEAN]),
         revoked' \subseteq [token : Issued, by : Processes \cup {"redis"}],
         redis' \in BOOLEAN, late' \in BOOLEAN, faulty' \in BOOLEAN, cut' \in BOOLEAN,
         overlap' = overlap, elsewhere' \subseteq Users, unsettled' \subseteq Users
  PROVE  Shape'
<1>1. Issued' = Issued
  BY DEF Issued
<1>2. TypeOK'
  BY <1>1 DEF Shape, TypeOK
<1>3. RequestsOK'
  <2>1. \A r \in Requests : RequestOK(req[r])'
    BY <1>1 DEF RequestOK
  <2> QED
    BY <2>1 DEF RequestsOK
<1>4. SocketsOK'
  BY <1>1 DEF SocketsOK
<1>5. LoginsOK'
  BY DEF Shape, LoginsOK
<1> QED
  BY <1>2, <1>3, <1>4, <1>5 DEF Shape

\* A request moves to q.
LEMMA RequestMoves ==
  ASSUME Shape, NEW r \in Requests, NEW q \in Request \cup {Idle}, RequestOK(q),
         req' = [req EXCEPT ![r] = q]
  PROVE  /\ req' \in [Requests -> Request \cup {Idle}]
         /\ \A s \in Requests : RequestOK(req'[s])
<1>1. req \in [Requests -> Request \cup {Idle}] /\ \A s \in Requests : RequestOK(req[s])
  BY DEF Shape, TypeOK, RequestsOK
<1>2. \A s \in Requests : req'[s] = IF s = r THEN q ELSE req[s]
  BY <1>1
<1> QED
  BY <1>1, <1>2

\* An idle slot names no pair.
LEMMA IdleOK == RequestOK(Idle)
  BY DEF RequestOK

\* The tokens of an issued pair.
LEMMA PairTokens ==
  ASSUME Shape, NEW n \in DOMAIN pairs, NEW k \in {"access", "refresh"}
  PROVE  /\ <<n, k>> \in Issued /\ <<n, k>> \in Token /\ n \in 1 .. MaxPairs
         /\ pairs[n].user \in Users /\ pairs[n].login \in 1 .. MaxPairs
<1>1. pairs \in Seq(Pair) /\ Len(pairs) <= MaxPairs
  BY DEF Shape, TypeOK
<1>2. n \in 1 .. MaxPairs /\ pairs[n] \in Pair
  BY <1>1, BoundsAssumption
<1> QED
  BY <1>2 DEF Issued, Token, Pair

\* A request enters, having read is_online of its user.
LEMMA Enters ==
  ASSUME Shape, NEW r \in Requests, NEW op \in Ops, NEW p \in Processes, NEW u \in Users,
         NEW n \in 0 .. MaxPairs, NEW left, left \subseteq Issued,
         Enter(r, op, p, u, n, left),
         op # "login" => n \in DOMAIN pairs /\ pairs[n].user = u,
         op = "refresh" => left = {<<n, "refresh">>},
         op = "logout" => \E k \in Issued : left \subseteq {<<n, "access">>, k},
         op \in {"login", "online", "offline"} => left = {}
  PROVE  /\ req' \in [Requests -> Request \cup {Idle}] /\ \A x \in Requests : RequestOK(req'[x])
         /\ \A x \in Requests : x # r => req'[x] = req[x]
         /\ req'[r] # Idle /\ req'[r].pc = "begun" /\ req'[r].op = op /\ req'[r].user = u
         /\ req'[r].pair = n /\ req'[r].left = left /\ req'[r].was = online[u]
<1> DEFINE q == [pc |-> "begun", op |-> op, p |-> p, user |-> u, pair |-> n, left |-> left,
                 was |-> online[u]]
<1>1. left \subseteq Token /\ online[u] \in BOOLEAN
  BY DEF Issued, Shape, TypeOK
<1>2. q \in Request
  BY <1>1 DEF Request
<1>3. /\ q.pc = "begun" /\ q.op = op /\ q.user = u /\ q.pair = n /\ q.left = left
      /\ q.was = online[u] /\ q # Idle
  BY DEF Idle
<1>4. req' = [req EXCEPT ![r] = q]
  BY DEF Enter
<1> HIDE DEF q
<1>5. RequestOK(q)
  BY <1>3 DEF RequestOK
<1>6. req \in [Requests -> Request \cup {Idle}]
  BY DEF Shape, TypeOK
<1> QED
  BY <1>2, <1>3, <1>4, <1>5, <1>6, RequestMoves

\* What Begin lets in.
LEMMA Begins ==
  ASSUME Shape, NEW r \in Requests, NEW p \in Processes, NEW op \in Ops \ {"login"},
         Begin(r, p, op)
  PROVE  \E n \in DOMAIN pairs, k \in {"access", "refresh"}, left \in SUBSET Issued :
           /\ Open(r) /\ Decodes(p, <<n, k>>) /\ Connect(p)
           /\ late' = (late \/ Known(p, <<n, k>>))
           /\ Enter(r, op, p, pairs[n].user, n, left)
           /\ op = "refresh" => k = "refresh" /\ left = {<<n, "refresh">>}
           /\ op = "logout" => \E t \in Issued : left \subseteq {<<n, "access">>, t}
           /\ op \in {"online", "offline"} => left = {}
<1>1. PICK n \in DOMAIN pairs :
        LET j == <<n, IF op = "refresh" THEN "refresh" ELSE "access">>
            u == pairs[n].user
        IN  /\ Open(r) /\ Decodes(p, j) /\ Connect(p) /\ late' = (late \/ Known(p, j))
            /\ \E left \in ToRevoke(op, j) : Enter(r, op, p, u, n, left)
  BY DEF Begin
<1> DEFINE k == IF op = "refresh" THEN "refresh" ELSE "access"
           j == <<n, k>>
<1>2. PICK left \in ToRevoke(op, j) : Enter(r, op, p, pairs[n].user, n, left)
  BY <1>1
<1>3. j \in Issued
  BY PairTokens
<1>4. /\ Open(r) /\ Decodes(p, <<n, k>>) /\ Connect(p)
      /\ late' = (late \/ Known(p, <<n, k>>))
  BY <1>1
<1>5. /\ k \in {"access", "refresh"}
      /\ op = "refresh" => k = "refresh" /\ j = <<n, "refresh">>
      /\ op = "logout" => j = <<n, "access">>
  OBVIOUS
<1> HIDE DEF j
<1>6. /\ left \subseteq Issued
      /\ op = "refresh" => left = {j}
      /\ op = "logout" => \E t \in Issued : left \subseteq {j, t}
      /\ op \in {"online", "offline"} => left = {}
  BY <1>2, <1>3 DEF ToRevoke, Ops
<1> HIDE DEF k
<1> QED
  BY <1>2, <1>4, <1>5, <1>6

\* The token that is revoked next is one of those to be revoked.
LEMMA NextIsLeft ==
  ASSUME NEW q, q.left # {}
  PROVE  NextToken(q) \in q.left
  BY DEF NextToken

\* One token of a request is revoked.
LEMMA Revokes ==
  ASSUME Shape, NEW r \in Requests, RevokeNext(r)
  PROVE  \E j \in Issued, by \in Processes \cup {"redis"}, q1 \in Request :
           /\ req[r] \in Request /\ req[r] # Idle /\ RequestOK(req[r]) /\ req[r].pc = "begun"
           /\ req[r].p \in Processes /\ req[r].op \in {"refresh", "logout"}
           /\ j \in req[r].left /\ pairs[j[1]].user \in Users
           /\ j = <<req[r].pair, "access">> \/ req[r].left = {j}
           /\ by = IF Reach(req[r].p) THEN "redis" ELSE req[r].p
           /\ BlacklistToken(req[r].p, j) /\ Connect(req[r].p)
           /\ revoked' = revoked \cup {[token |-> j, by |-> by]}
           /\ elsewhere' = IF pairs[j[1]].user = req[r].user THEN elsewhere
                           ELSE elsewhere \cup {pairs[j[1]].user}
           /\ req' = [req EXCEPT ![r] = q1] /\ q1 # Idle
           /\ q1.op = req[r].op /\ q1.user = req[r].user /\ q1.pair = req[r].pair
           /\ q1.was = req[r].was /\ q1.left = req[r].left \ {j}
           /\ q1.pc = IF req[r].left = {j} THEN "revoked" ELSE "begun"
           /\ UNCHANGED <<pairs, life, redis, online, late, faulty, cut, overlap>>
           /\ UNCHANGED <<sockets, news, shown, unsettled>>
<1> DEFINE q == req[r]
           j == NextToken(q)
           by == IF Reach(q.p) THEN "redis" ELSE q.p
           left == q.left \ {j}
           pc == IF q.left = {j} THEN "revoked" ELSE "begun"
           q1 == [q EXCEPT !.left = left, !.pc = pc]
<1>1. /\ q.pc = "begun" /\ q.left # {} /\ BlacklistToken(q.p, j) /\ Connect(q.p)
      /\ revoked' = revoked \cup {[token |-> j, by |-> by]}
      /\ elsewhere' = IF pairs[j[1]].user = q.user THEN elsewhere
                      ELSE elsewhere \cup {pairs[j[1]].user}
      /\ req' = [req EXCEPT ![r] = q1]
      /\ UNCHANGED <<pairs, life, redis, online, late, faulty, cut, overlap>>
      /\ UNCHANGED <<sockets, news, shown, unsettled>>
  BY DEF RevokeNext, tokenVars, socketVars
<1>2. q # Idle
  BY <1>1 DEF Idle
<1>3. /\ req \in [Requests -> Request \cup {Idle}] /\ q \in Request /\ RequestOK(q)
      /\ pairs \in Seq(Pair)
  BY <1>2 DEF Shape, TypeOK, RequestsOK
<1>4. q.p \in Processes /\ q.left \subseteq Issued /\ q.op \in Ops
  BY <1>2, <1>3 DEF Request, RequestOK
<1>5. q.op \in {"refresh", "logout"}
  BY <1>1, <1>2, <1>3, <1>4 DEF RequestOK, Ops
<1>6. j \in q.left /\ j \in Issued
  BY <1>1, <1>4, NextIsLeft
<1>7. j[1] \in DOMAIN pairs
  BY <1>6 DEF Issued
<1>8. pairs[j[1]].user \in Users
  BY <1>7, PairTokens
<1>10. j = <<q.pair, "access">> \/ q.left = {j}
  <2>1. CASE <<q.pair, "access">> \in q.left
    BY <2>1 DEF NextToken
  <2>2. CASE <<q.pair, "access">> \notin q.left
    <3>1. q.op = "refresh" => q.left = {<<q.pair, "refresh">>}
      BY <1>1, <1>2, <1>3 DEF RequestOK
    <3>2. q.op = "logout" => \E k : q.left \subseteq {k}
      BY <1>2, <1>3, <2>2 DEF RequestOK
    <3> QED
      BY <1>5, <1>6, <3>1, <3>2
  <2> QED
    BY <2>1, <2>2
<1>9. left \subseteq Token /\ pc \in {"begun", "revoked"} /\ by \in Processes \cup {"redis"}
  BY <1>4 DEF Issued
<1>11. q1 \in Request
  BY <1>3, <1>9 DEF Request
<1>12. /\ q1.op = q.op /\ q1.user = q.user /\ q1.pair = q.pair /\ q1.was = q.was
       /\ q1.left = left /\ q1.pc = pc
  BY <1>3 DEF Request
<1>13. q1 # Idle
  BY <1>9, <1>12 DEF Idle
<1> HIDE DEF q1, j, by, left, pc
<1>14. /\ by = IF Reach(q.p) THEN "redis" ELSE q.p
       /\ left = q.left \ {j}
       /\ pc = IF q.left = {j} THEN "revoked" ELSE "begun"
  BY DEF by, left, pc
<1> HIDE DEF q
<1>15. /\ q \in Request /\ q # Idle /\ RequestOK(q) /\ q.pc = "begun"
       /\ q.p \in Processes /\ q.op \in {"refresh", "logout"}
       /\ j \in q.left /\ pairs[j[1]].user \in Users
       /\ j = <<q.pair, "access">> \/ q.left = {j}
       /\ by = IF Reach(q.p) THEN "redis" ELSE q.p
       /\ BlacklistToken(q.p, j) /\ Connect(q.p)
       /\ revoked' = revoked \cup {[token |-> j, by |-> by]}
       /\ elsewhere' = IF pairs[j[1]].user = q.user THEN elsewhere
                       ELSE elsewhere \cup {pairs[j[1]].user}
       /\ req' = [req EXCEPT ![r] = q1] /\ q1 # Idle
       /\ q1.op = q.op /\ q1.user = q.user /\ q1.pair = q.pair
       /\ q1.was = q.was /\ q1.left = q.left \ {j}
       /\ q1.pc = IF q.left = {j} THEN "revoked" ELSE "begun"
       /\ UNCHANGED <<pairs, life, redis, online, late, faulty, cut, overlap>>
       /\ UNCHANGED <<sockets, news, shown, unsettled>>
  BY <1>1, <1>2, <1>3, <1>4, <1>5, <1>6, <1>8, <1>10, <1>12, <1>13, <1>14
<1> QED
  BY <1>6, <1>9, <1>11, <1>15 DEF q

\* A request moves on without new tokens to revoke.
LEMMA PhaseMoves ==
  ASSUME Shape, NEW r \in Requests, req[r] # Idle, NEW pc \in {"revoked", "marked"},
         req' = [req EXCEPT ![r].pc = pc]
  PROVE  /\ req' \in [Requests -> Request \cup {Idle}] /\ \A x \in Requests : RequestOK(req'[x])
         /\ \A x \in Requests : x # r => req'[x] = req[x]
         /\ req'[r] # Idle /\ req'[r].pc = pc /\ req'[r].op = req[r].op
         /\ req'[r].user = req[r].user /\ req'[r].pair = req[r].pair
         /\ req'[r].left = req[r].left /\ req'[r].was = req[r].was
<1> DEFINE q == [req[r] EXCEPT !.pc = pc]
<1>1. req \in [Requests -> Request \cup {Idle}] /\ req[r] \in Request /\ RequestOK(req[r])
  BY DEF Shape, TypeOK, RequestsOK
<1>2. q \in Request /\ req' = [req EXCEPT ![r] = q]
  BY <1>1 DEF Request
<1>3. /\ q.pc = pc /\ q.op = req[r].op /\ q.user = req[r].user /\ q.pair = req[r].pair
      /\ q.left = req[r].left /\ q.was = req[r].was
  BY <1>1 DEF Request
<1> HIDE DEF q
<1>4. q # Idle /\ RequestOK(q)
  BY <1>1, <1>3 DEF RequestOK, Idle
<1> QED
  BY <1>1, <1>2, <1>3, <1>4, RequestMoves

\* The user of a request in flight.
LEMMA RequestType ==
  ASSUME Shape, NEW r \in Requests, req[r] # Idle
  PROVE  /\ req[r] \in Request /\ req[r].user \in Users /\ req[r].op \in Ops
         /\ req[r].p \in Processes /\ req[r].was \in BOOLEAN /\ RequestOK(req[r])
<1>1. req[r] \in Request /\ RequestOK(req[r])
  BY DEF Shape, TypeOK, RequestsOK
<1> QED
  BY <1>1 DEF Request

\* A request ends.
LEMMA RequestEnds ==
  ASSUME Shape, NEW r \in Requests, req' = [req EXCEPT ![r] = Idle]
  PROVE  /\ req' \in [Requests -> Request \cup {Idle}] /\ \A x \in Requests : RequestOK(req'[x])
         /\ \A x \in Requests : x # r => req'[x] = req[x]
         /\ req'[r] = Idle
  BY IdleOK, RequestMoves DEF Shape, TypeOK

\* The pair that a login or a refresh under way will issue.
LEMMA IssuesFor ==
  ASSUME Shape, NEW r \in Requests, IssuePair(r)
  PROVE  \E u \in Users, login \in 0 .. Len(pairs) :
           /\ Issue(u, login) /\ u = req[r].user
           /\ req[r] # Idle /\ req[r].pc = "marked" /\ req[r].op \in {"login", "refresh"}
           /\ req[r].op = "login" => login = 0
           /\ req[r].op = "refresh" => /\ req[r].pair \in DOMAIN pairs
                                       /\ login = pairs[req[r].pair].login /\ login # 0
           /\ req' = [req EXCEPT ![r] = Idle]
           /\ UNCHANGED <<life, redis, bl, mem, link, online, revoked, late, faulty, cut, overlap>>
           /\ UNCHANGED <<sockets, news, shown, unsettled>>
<1> DEFINE q == req[r]
           login == IF q.op = "login" THEN 0 ELSE pairs[q.pair].login
<1>1. /\ q.pc = "marked" /\ q.op \in {"login", "refresh"} /\ Issue(q.user, login)
      /\ req' = [req EXCEPT ![r] = Idle]
      /\ UNCHANGED <<life, redis, bl, mem, link, online, revoked, late, faulty, cut, overlap>>
      /\ UNCHANGED <<sockets, news, shown, unsettled>>
  BY DEF IssuePair, redisVars, socketVars
<1>2. q # Idle
  BY <1>1 DEF Idle
<1>3. q.user \in Users /\ RequestOK(q)
  BY <1>2, RequestType
<1>4. pairs \in Seq(Pair) /\ Len(pairs) \in Nat
  BY DEF Shape, TypeOK
<1>5. q.op = "refresh" =>
        q.pair \in DOMAIN pairs /\ login = pairs[q.pair].login /\ login \in 1 .. Len(pairs)
  <2> SUFFICES ASSUME q.op = "refresh"
               PROVE  q.pair \in DOMAIN pairs /\ pairs[q.pair].login \in 1 .. Len(pairs)
    OBVIOUS
  <2>1. q.pair \in DOMAIN pairs
    BY <1>2, <1>3 DEF RequestOK
  <2>2. pairs[q.pair].login <= q.pair
    BY <2>1 DEF Shape, LoginsOK
  <2>3. pairs[q.pair].login \in 1 .. MaxPairs
    BY <2>1, PairTokens
  <2>4. q.pair \in 1 .. Len(pairs)
    BY <1>4, <2>1
  <2> QED
    BY <1>4, <2>1, <2>2, <2>3, <2>4, BoundsAssumption
<1>6. login \in 0 .. Len(pairs) /\ (q.op = "refresh" => login # 0)
      /\ (q.op = "login" => login = 0)
  BY <1>1, <1>4, <1>5
<1> HIDE DEF login
<1> QED
  BY <1>1, <1>2, <1>3, <1>5, <1>6

\* A socket moves to k.
LEMMA SocketMoves ==
  ASSUME Shape, NEW s \in Sockets, NEW k \in Socket \cup {Closed},
         k # Closed => k.token \in Issued, sockets' = [sockets EXCEPT ![s] = k]
  PROVE  /\ sockets' \in [Sockets -> Socket \cup {Closed}]
         /\ \A x \in Sockets : sockets'[x] # Closed => sockets'[x].token \in Issued
<1>1. /\ sockets \in [Sockets -> Socket \cup {Closed}]
      /\ \A x \in Sockets : sockets[x] # Closed => sockets[x].token \in Issued
  BY DEF Shape, TypeOK, SocketsOK
<1>2. \A x \in Sockets : sockets'[x] = IF x = s THEN k ELSE sockets[x]
  BY <1>1
<1> QED
  BY <1>1, <1>2

\* The user of an open socket, and what is published about him.
LEMMA SocketUserType ==
  ASSUME Shape, NEW s \in Sockets, sockets[s] # Closed
  PROVE  SocketUser(s) \in Users /\ sockets[s].token \in Issued /\ sockets[s] \in Socket
<1>1. sockets[s] \in Socket /\ sockets[s].token \in Issued
  BY DEF Shape, TypeOK, SocketsOK
<1>2. sockets[s].token[1] \in DOMAIN pairs /\ pairs \in Seq(Pair)
  BY <1>1 DEF Issued, Shape, TypeOK
<1>3. pairs[sockets[s].token[1]] \in Pair
  BY <1>2
<1> QED
  BY <1>1, <1>3 DEF SocketUser, Pair

\* Messages are about users.
LEMMA NewsUsers ==
  ASSUME Shape
  PROVE  \A i \in DOMAIN news : news[i].user \in Users
<1> DEFINE M == [user : Users, online : BOOLEAN]
<1>1. news \in Seq(M)
  BY DEF Shape, TypeOK
<1> HIDE DEF M
<1>2. \A i \in DOMAIN news : news[i] \in M
  BY <1>1
<1> QED
  BY <1>2 DEF M

\* A message joins the queue.
LEMMA Publishes ==
  ASSUME Shape, NEW u \in Users, NEW on \in BOOLEAN, Publish(u, on)
  PROVE  /\ news' \in Seq([user : Users, online : BOOLEAN])
         /\ Len(news') = Len(news) + 1
         /\ DOMAIN news = 1 .. Len(news) /\ DOMAIN news' = 1 .. Len(news) + 1
         /\ \A i \in DOMAIN news : news'[i] = news[i]
         /\ news'[Len(news) + 1] = [user |-> u, online |-> on]
<1> DEFINE m == [user |-> u, online |-> on]
<1>1. m \in [user : Users, online : BOOLEAN] /\ news \in Seq([user : Users, online : BOOLEAN])
  BY DEF Shape, TypeOK
<1>2. news' = Append(news, m)
  BY DEF Publish
<1> HIDE DEF m
<1>3. /\ news' \in Seq([user : Users, online : BOOLEAN]) /\ Len(news') = Len(news) + 1
      /\ DOMAIN news = 1 .. Len(news) /\ DOMAIN news' = 1 .. Len(news) + 1
      /\ \A i \in DOMAIN news : news'[i] = news[i]
      /\ news'[Len(news) + 1] = m
  BY <1>1, <1>2
<1> QED
  BY <1>3 DEF m

\* get_redis leaves one of its three answers.
LEMMA ConnectType ==
  ASSUME Shape, NEW p \in Processes, Connect(p)
  PROVE  link' \in [Processes -> {"new", "ok", "off"}]
  BY DEF Connect, Shape, TypeOK

\* A pair is issued while one request ends or stays as it is.
LEMMA IssueShape ==
  ASSUME Shape, NEW u \in Users, NEW login \in 0 .. Len(pairs), Issue(u, login),
         req' \in [Requests -> Request \cup {Idle}], \A r \in Requests : RequestOK(req'[r]),
         UNCHANGED <<life, redis, bl, mem, link, online, revoked, late, faulty, cut, overlap>>,
         UNCHANGED <<sockets, news, shown, unsettled>>
  PROVE  Shape'
<1>1. /\ pairs' \in Seq(Pair) /\ Len(pairs') <= MaxPairs /\ Issued \subseteq Issued'
      /\ DOMAIN pairs \subseteq DOMAIN pairs' /\ LoginsOK' /\ elsewhere' \subseteq Users
      /\ \A n \in DOMAIN pairs : pairs'[n] = pairs[n]
  <2>1. /\ pairs' \in Seq(Pair) /\ Len(pairs') <= MaxPairs /\ Issued \subseteq Issued'
        /\ DOMAIN pairs = 1 .. Len(pairs) /\ DOMAIN pairs' = 1 .. Len(pairs) + 1
        /\ LoginsOK' /\ elsewhere' = elsewhere \ {u}
        /\ \A n \in DOMAIN pairs : pairs'[n] = pairs[n]
    BY Issues
  <2>2. Len(pairs) \in Nat /\ elsewhere \subseteq Users
    BY DEF Shape, TypeOK
  <2>3. DOMAIN pairs \subseteq DOMAIN pairs'
    BY <2>1, <2>2
  <2> QED
    BY <2>1, <2>2, <2>3
<1>2. /\ life' = life /\ redis' = redis /\ bl' = bl /\ mem' = mem /\ link' = link
      /\ sockets' = sockets /\ news' = news /\ shown' = shown /\ unsettled' = unsettled
      /\ revoked' = revoked /\ late' = late /\ faulty' = faulty /\ cut' = cut
      /\ overlap' = overlap /\ online' = online
  OBVIOUS
<1>3. mem' \in [Processes -> SUBSET Issued']
  BY <1>1, <1>2 DEF Shape, TypeOK
<1>4. revoked' \subseteq [token : Issued', by : Processes \cup {"redis"}]
  BY <1>1, <1>2 DEF Shape, TypeOK
<1>5. TypeOK'
  BY <1>1, <1>2, <1>3, <1>4 DEF Shape, TypeOK
<1>6. RequestsOK'
  BY <1>1 DEF RequestsOK, RequestOK
<1>7. SocketsOK'
  BY <1>1, <1>2 DEF Shape, SocketsOK
<1> QED
  BY <1>1, <1>5, <1>6, <1>7 DEF Shape

\* The shape is inductive: one step per action.
LEMMA ShapeStep ==
  ASSUME Shape, [Next]_vars
  PROVE  Shape'
<1>0. /\ life \in [Token -> {"valid", "last", "expired"}] /\ bl \subseteq Issued
      /\ mem \in [Processes -> SUBSET Issued] /\ link \in [Processes -> {"new", "ok", "off"}]
      /\ online \in [Users -> BOOLEAN] /\ shown \in [Users -> BOOLEAN]
      /\ req \in [Requests -> Request \cup {Idle}] /\ pairs \in Seq(Pair)
      /\ sockets \in [Sockets -> Socket \cup {Closed}]
      /\ news \in Seq([user : Users, online : BOOLEAN])
      /\ revoked \subseteq [token : Issued, by : Processes \cup {"redis"}]
      /\ redis \in BOOLEAN /\ late \in BOOLEAN /\ faulty \in BOOLEAN /\ cut \in BOOLEAN
      /\ elsewhere \subseteq Users /\ unsettled \subseteq Users
      /\ \A r \in Requests : RequestOK(req[r])
      /\ \A s \in Sockets : sockets[s] # Closed => sockets[s].token \in Issued
  BY DEF Shape, TypeOK, RequestsOK, SocketsOK
<1>1. CASE GuestLogin
  <2>1. PICK u \in Users : Issue(u, 0)
    BY <1>1 DEF GuestLogin
  <2>2. 0 \in 0 .. Len(pairs)
    BY <1>0
  <2>3. /\ UNCHANGED <<life, redis, bl, mem, link, online, revoked, late, faulty, cut, overlap>>
        /\ UNCHANGED <<sockets, news, shown, unsettled>> /\ req' = req
    BY <1>1 DEF GuestLogin, redisVars, socketVars
  <2> QED
    BY <1>0, <2>1, <2>2, <2>3, IssueShape
<1>2. CASE RedisDown
  BY <1>0, <1>2, SameShape DEF RedisDown, tokenVars, socketVars
<1>3. CASE RedisUp
  <2>1. /\ bl' \subseteq Issued /\ redis' \in BOOLEAN
        /\ revoked' \subseteq [token : Issued, by : Processes \cup {"redis"}]
    BY <1>0, <1>3 DEF RedisUp
  <2>2. CASE UNCHANGED <<news, unsettled>>
    <3>1. news' = news /\ unsettled' = unsettled
      BY <2>2
    <3> QED
      BY <1>0, <1>3, <2>1, <3>1, SameShape DEF RedisUp, tokenVars
  <2>3. CASE news' = <<>> /\ unsettled' = unsettled \cup {news[i].user : i \in DOMAIN news}
    <3>1. news' \in Seq([user : Users, online : BOOLEAN])
      BY <2>3
    <3>3. \A i \in DOMAIN news : news[i].user \in Users
      BY NewsUsers
    <3>4. unsettled' \subseteq Users
      BY <1>0, <2>3, <3>3
    <3> QED
      BY <1>0, <1>3, <2>1, <3>1, <3>4, SameShape DEF RedisUp, tokenVars
  <2> QED
    BY <1>3, <2>2, <2>3 DEF RedisUp
<1>4. CASE ShowNews
  <2>1. news # <<>> /\ news' = Tail(news)
        /\ shown' = [shown EXCEPT ![Head(news).user] = Head(news).online]
    BY <1>4 DEF ShowNews
  <2>2. Head(news) \in [user : Users, online : BOOLEAN]
        /\ Tail(news) \in Seq([user : Users, online : BOOLEAN])
    <3> DEFINE M == [user : Users, online : BOOLEAN]
    <3>1. news \in Seq(M)
      BY <1>0
    <3> HIDE DEF M
    <3>2. Head(news) \in M /\ Tail(news) \in Seq(M)
      BY <2>1, <3>1
    <3> QED
      BY <3>2 DEF M
  <2>3. shown' \in [Users -> BOOLEAN]
    <3>1. Head(news).user \in Users /\ Head(news).online \in BOOLEAN
      BY <2>2
    <3> QED
      BY <1>0, <2>1, <3>1
  <2> QED
    BY <1>0, <1>4, <2>1, <2>2, <2>3, SameShape DEF ShowNews, tokenVars, redisVars
<1>5. ASSUME NEW p \in Processes, ApiCall(p)
      PROVE  Shape'
  <2>1. PICK j \in Issued : late' = (late \/ Known(p, j)) /\ Connect(p)
    BY <1>5 DEF ApiCall
  <2>2. late' \in BOOLEAN
    BY <2>1
  <2>3. link' \in [Processes -> {"new", "ok", "off"}]
    BY <2>1, ConnectType
  <2> QED
    BY <1>0, <1>5, <2>2, <2>3, SameShape DEF ApiCall, tokenVars, socketVars
<1>6. ASSUME NEW p \in Processes, Restart(p)
      PROVE  Shape'
  <2>1. mem' = [mem EXCEPT ![p] = {}] /\ link' = [link EXCEPT ![p] = "new"]
    BY <1>6 DEF Restart
  <2>2. /\ mem' \in [Processes -> SUBSET Issued]
        /\ link' \in [Processes -> {"new", "ok", "off"}]
    BY <1>0, <2>1
  <2>3. req' \in [Requests -> Request \cup {Idle}] /\ \A r \in Requests : req'[r] \in {Idle, req[r]}
    BY <1>0, <1>6 DEF Restart
  <2>4. \A r \in Requests : RequestOK(req'[r])
    BY <1>0, <2>3, IdleOK
  <2>5. cut' \in BOOLEAN
    BY <1>6 DEF Restart
  <2>6. revoked' \subseteq [token : Issued, by : Processes \cup {"redis"}]
    BY <1>0, <1>6 DEF Restart
  <2> QED
    BY <1>0, <1>6, <2>2, <2>3, <2>4, <2>5, <2>6, SameShape
    DEF Restart, tokenVars, socketVars
<1>7. ASSUME NEW p \in Processes, NEW r \in Requests, NEW op \in Ops \ {"login"},
             Begin(r, p, op)
      PROVE  Shape'
  <2>1. PICK n \in DOMAIN pairs, k \in {"access", "refresh"}, left \in SUBSET Issued :
          /\ Open(r) /\ Decodes(p, <<n, k>>) /\ Connect(p)
          /\ late' = (late \/ Known(p, <<n, k>>))
          /\ Enter(r, op, p, pairs[n].user, n, left)
          /\ op = "refresh" => k = "refresh" /\ left = {<<n, "refresh">>}
          /\ op = "logout" => \E t \in Issued : left \subseteq {<<n, "access">>, t}
          /\ op \in {"online", "offline"} => left = {}
    BY <1>7, Begins, Zenon
  <2>2. late' \in BOOLEAN
    BY <2>1
  <2>3. link' \in [Processes -> {"new", "ok", "off"}]
    BY <2>1, ConnectType
  <2>4. n \in 0 .. MaxPairs /\ pairs[n].user \in Users
    <3>1. n \in 1 .. MaxPairs /\ pairs[n].user \in Users
      BY PairTokens
    <3> QED
      BY <3>1, BoundsAssumption
  <2>5. req' \in [Requests -> Request \cup {Idle}] /\ \A x \in Requests : RequestOK(req'[x])
    <3>1. Enter(r, op, p, pairs[n].user, n, left) /\ left \subseteq Issued /\ op \in Ops
      BY <1>7, <2>1
    <3>2. /\ op = "refresh" => left = {<<n, "refresh">>}
          /\ op = "logout" => \E t \in Issued : left \subseteq {<<n, "access">>, t}
          /\ op \in {"login", "online", "offline"} => left = {}
      BY <1>7, <2>1
    <3> QED
      BY <2>4, <3>1, <3>2, Enters
  <2> QED
    BY <1>0, <1>7, <2>2, <2>3, <2>5, SameShape DEF Begin, tokenVars, socketVars
<1>8. ASSUME NEW r \in Requests, RevokeNext(r)
      PROVE  Shape'
  <2>1. PICK j \in Issued, by \in Processes \cup {"redis"}, q1 \in Request :
           /\ req[r] \in Request /\ req[r] # Idle /\ RequestOK(req[r]) /\ req[r].pc = "begun"
           /\ req[r].p \in Processes /\ req[r].op \in {"refresh", "logout"}
           /\ j \in req[r].left /\ pairs[j[1]].user \in Users
           /\ BlacklistToken(req[r].p, j) /\ Connect(req[r].p)
           /\ revoked' = revoked \cup {[token |-> j, by |-> by]}
           /\ elsewhere' = IF pairs[j[1]].user = req[r].user THEN elsewhere
                           ELSE elsewhere \cup {pairs[j[1]].user}
           /\ req' = [req EXCEPT ![r] = q1] /\ q1 # Idle
           /\ q1.op = req[r].op /\ q1.user = req[r].user /\ q1.pair = req[r].pair
           /\ q1.was = req[r].was /\ q1.left = req[r].left \ {j}
           /\ q1.pc = IF req[r].left = {j} THEN "revoked" ELSE "begun"
           /\ UNCHANGED <<pairs, life, redis, online, late, faulty, cut, overlap>>
           /\ UNCHANGED <<sockets, news, shown, unsettled>>
    BY <1>8, Revokes
  <2>2. revoked' \subseteq [token : Issued, by : Processes \cup {"redis"}]
    BY <1>0, <2>1
  <2>3. bl' \subseteq Issued /\ mem' \in [Processes -> SUBSET Issued]
    BY <1>0, <2>1 DEF BlacklistToken
  <2>4. link' \in [Processes -> {"new", "ok", "off"}]
    BY <2>1, ConnectType
  <2>5. elsewhere' \subseteq Users
    BY <1>0, <2>1
  <2>6. RequestOK(q1)
    <3>1. req[r].op = "refresh" => req[r].left = {j}
      BY <2>1 DEF RequestOK
    <3> QED
      BY <2>1, <3>1 DEF RequestOK
  <2>7. req' \in [Requests -> Request \cup {Idle}] /\ \A x \in Requests : RequestOK(req'[x])
    BY <2>1, <2>6, RequestMoves
  <2> QED
    BY <1>0, <2>1, <2>2, <2>3, <2>4, <2>5, <2>7, SameShape
<1>9. ASSUME NEW r \in Requests, IssuePair(r)
      PROVE  Shape'
  <2>1. PICK u \in Users, login \in 0 .. Len(pairs) :
          /\ Issue(u, login) /\ req' = [req EXCEPT ![r] = Idle]
          /\ UNCHANGED <<life, redis, bl, mem, link, online, revoked, late, faulty, cut, overlap>>
          /\ UNCHANGED <<sockets, news, shown, unsettled>>
    BY <1>9, IssuesFor
  <2>2. req' \in [Requests -> Request \cup {Idle}] /\ \A x \in Requests : RequestOK(req'[x])
    BY <2>1, RequestEnds
  <2> QED
    BY <2>1, <2>2, IssueShape
<1>b. ASSUME NEW r \in Requests, req[r] # Idle, SetOnline(req[r]) \/ SetOffline(req[r])
      PROVE  online' \in [Users -> BOOLEAN]
  <2>1. req[r].was \in BOOLEAN
    BY <1>b, RequestType
  <2> QED
    BY <1>0, <1>b, <2>1 DEF SetOnline, SetOffline, Flush
<1>c. ASSUME NEW r \in Requests, MarkOnline(r)
      PROVE  Shape'
  <2>1. req[r] # Idle /\ SetOnline(req[r]) /\ req' = [req EXCEPT ![r].pc = "marked"]
    BY <1>c DEF MarkOnline, Idle
  <2>2. req' \in [Requests -> Request \cup {Idle}] /\ \A x \in Requests : RequestOK(req'[x])
    BY <2>1, PhaseMoves
  <2> QED
    BY <1>0, <1>b, <1>c, <2>1, <2>2, SameShape DEF MarkOnline, tokenVars, redisVars, socketVars
<1>d. ASSUME NEW r \in Requests, ClaimPresence(r)
      PROVE  Shape'
  <2>1. /\ req[r] # Idle /\ (SetOnline(req[r]) \/ SetOffline(req[r]))
        /\ req' = [req EXCEPT ![r].pc = "marked"]
        /\ elsewhere' \subseteq elsewhere \cup {req[r].user}
    BY <1>d DEF ClaimPresence, Idle
  <2>2. req' \in [Requests -> Request \cup {Idle}] /\ \A x \in Requests : RequestOK(req'[x])
    BY <2>1, PhaseMoves
  <2>3. elsewhere' \subseteq Users
    BY <1>0, <2>1, RequestType
  <2> QED
    BY <1>0, <1>b, <1>d, <2>1, <2>2, <2>3, SameShape
    DEF ClaimPresence, tokenVars, redisVars, socketVars
<1>e. ASSUME NEW r \in Requests, TellPresence(r)
      PROVE  Shape'
  <2> DEFINE v == req[r].user
             on == req[r].op = "online"
  <2>1. /\ req[r] # Idle /\ Connect(req[r].p) /\ req' = [req EXCEPT ![r] = Idle]
        /\ \/ news' = news /\ unsettled' = unsettled
           \/ Publish(v, on) /\ unsettled' \subseteq unsettled \cup {v}
    BY <1>e DEF TellPresence, Idle
  <2>2. req' \in [Requests -> Request \cup {Idle}] /\ \A x \in Requests : RequestOK(req'[x])
    BY <2>1, RequestEnds
  <2>3. v \in Users /\ on \in BOOLEAN /\ req[r].p \in Processes
    BY <2>1, RequestType
  <2>4. link' \in [Processes -> {"new", "ok", "off"}]
    BY <2>1, <2>3, ConnectType
  <2> HIDE DEF v, on
  <2>5. news' \in Seq([user : Users, online : BOOLEAN]) /\ unsettled' \subseteq Users
    BY <1>0, <2>1, <2>3, Publishes
  <2> QED
    BY <1>0, <1>e, <2>2, <2>4, <2>5, SameShape DEF TellPresence, tokenVars
<1>f. ASSUME NEW r \in Requests, Fail(r)
      PROVE  Shape'
  <2>1. /\ req' \in [Requests -> Request \cup {Idle}] /\ \A x \in Requests : RequestOK(req'[x])
        /\ cut' \in BOOLEAN
    BY <1>f, RequestEnds DEF Fail, Halfway
  <2> QED
    BY <1>0, <1>f, <2>1, SameShape DEF Fail, tokenVars, redisVars, socketVars
<1>g. ASSUME NEW p \in Processes, NEW r \in Requests, BeginLogin(r, p)
      PROVE  Shape'
  <2>1. PICK u \in Users : Enter(r, "login", p, u, 0, {})
    BY <1>g DEF BeginLogin
  <2>2. 0 \in 0 .. MaxPairs /\ {} \subseteq Issued /\ "login" \in Ops
    BY BoundsAssumption DEF Ops
  <2>3. req' \in [Requests -> Request \cup {Idle}] /\ \A x \in Requests : RequestOK(req'[x])
    BY <1>g, <2>1, <2>2, Enters
  <2> QED
    BY <1>0, <1>g, <2>3, SameShape DEF BeginLogin, tokenVars, redisVars, socketVars
<1>h. CASE RealtimeRestart
  <2>1. /\ sockets' = [s \in Sockets |-> Closed] /\ news' = <<>>
        /\ unsettled' = unsettled
                \cup {SocketUser(s) : s \in {t \in Sockets : sockets[t].st = "ready"}}
                \cup {news[i].user : i \in DOMAIN news}
    BY <1>h DEF RealtimeRestart
  <2>2. \A s \in Sockets : sockets[s].st = "ready" => SocketUser(s) \in Users
    BY SocketUserType DEF Closed
  <2>3. \A i \in DOMAIN news : news[i].user \in Users
    BY NewsUsers
  <2>4. unsettled' \subseteq Users
    BY <1>0, <2>1, <2>2, <2>3
  <2>5. /\ sockets' \in [Sockets -> Socket \cup {Closed}]
        /\ \A x \in Sockets : sockets'[x] # Closed => sockets'[x].token \in Issued
        /\ news' \in Seq([user : Users, online : BOOLEAN])
    BY <2>1
  <2> QED
    BY <1>0, <1>h, <2>4, <2>5, SameShape DEF RealtimeRestart, tokenVars, redisVars
<1>10. ASSUME NEW r \in Requests, FinishLogout(r)
       PROVE  Shape'
  <2>1. req[r] # Idle /\ SetOffline(req[r]) /\ req' = [req EXCEPT ![r] = Idle]
    BY <1>10 DEF FinishLogout, Idle
  <2>2. req' \in [Requests -> Request \cup {Idle}] /\ \A x \in Requests : RequestOK(req'[x])
    BY <2>1, RequestEnds
  <2> QED
    BY <1>0, <1>b, <1>10, <2>1, <2>2, SameShape
    DEF FinishLogout, tokenVars, redisVars, socketVars
<1>11. ASSUME NEW j \in Issued, Age(j)
       PROVE  Shape'
  <2>1. life' \in [Token -> {"valid", "last", "expired"}] /\ bl' \subseteq Issued
    BY <1>0, <1>11 DEF Age
  <2> QED
    BY <1>0, <1>11, <2>1, SameShape DEF Age, socketVars
<1>12. ASSUME NEW s \in Sockets, SocketConnect(s)
       PROVE  Shape'
  <2>1. PICK j \in Issued : sockets' = [sockets EXCEPT ![s] = [st |-> "checking", token |-> j]]
    BY <1>12 DEF SocketConnect
  <2> DEFINE k == [st |-> "checking", token |-> j]
  <2>2. k \in Socket /\ k.token \in Issued
    BY DEF Socket, Issued
  <2> HIDE DEF k
  <2>3. /\ sockets' \in [Sockets -> Socket \cup {Closed}]
        /\ \A x \in Sockets : sockets'[x] # Closed => sockets'[x].token \in Issued
    BY <2>1, <2>2, SocketMoves DEF k
  <2> QED
    BY <1>0, <1>12, <2>3, SameShape DEF SocketConnect, tokenVars, redisVars
<1>13. ASSUME NEW s \in Sockets, SocketReady(s)
       PROVE  Shape'
  <2>1. /\ sockets[s].st = "checking" /\ sockets' = [sockets EXCEPT ![s].st = "ready"]
        /\ Publish(SocketUser(s), TRUE)
    BY <1>13 DEF SocketReady
  <2>2. sockets[s] # Closed
    BY <2>1 DEF Closed
  <2>3. SocketUser(s) \in Users /\ sockets[s].token \in Issued /\ sockets[s] \in Socket
    BY <2>2, SocketUserType
  <2> DEFINE k == [sockets[s] EXCEPT !.st = "ready"]
  <2>4. k \in Socket /\ k.token \in Issued
    BY <2>3 DEF Socket
  <2>5. sockets' = [sockets EXCEPT ![s] = k]
    BY <2>1
  <2> HIDE DEF k
  <2>6. /\ sockets' \in [Sockets -> Socket \cup {Closed}]
        /\ \A x \in Sockets : sockets'[x] # Closed => sockets'[x].token \in Issued
    BY <2>4, <2>5, SocketMoves
  <2>7. news' \in Seq([user : Users, online : BOOLEAN])
    BY <2>1, <2>3, Publishes
  <2>8. late' \in BOOLEAN
    BY <1>13 DEF SocketReady
  <2> QED
    BY <1>0, <1>13, <2>6, <2>7, <2>8, SameShape DEF SocketReady, tokenVars, redisVars
<1>14. ASSUME NEW s \in Sockets, sockets' = [sockets EXCEPT ![s] = Closed]
       PROVE  /\ sockets' \in [Sockets -> Socket \cup {Closed}]
              /\ \A x \in Sockets : sockets'[x] # Closed => sockets'[x].token \in Issued
  BY <1>14, SocketMoves
<1>15. ASSUME NEW s \in Sockets, SocketRefused(s)
       PROVE  Shape'
  BY <1>0, <1>14, <1>15, SameShape DEF SocketRefused, tokenVars, redisVars
<1>16. ASSUME NEW s \in Sockets, PresencePing(s)
       PROVE  Shape'
  <2>0. sockets[s].st = "ready" /\ Publish(SocketUser(s), TRUE)
    BY <1>16 DEF PresencePing
  <2>1. sockets[s] # Closed
    BY <2>0 DEF Closed
  <2>2. news' \in Seq([user : Users, online : BOOLEAN])
    BY <2>0, <2>1, SocketUserType, Publishes
  <2> QED
    BY <1>0, <1>16, <2>2, SameShape DEF PresencePing, tokenVars, redisVars
<1>17. ASSUME NEW s \in Sockets, Disconnect(s)
       PROVE  Shape'
  <2>0. /\ sockets[s].st = "ready" /\ Publish(SocketUser(s), FALSE)
        /\ unsettled' = unsettled \ {SocketUser(s)}
    BY <1>17 DEF Disconnect, OfflineNews
  <2>1. sockets[s] # Closed
    BY <2>0 DEF Closed
  <2>2. news' \in Seq([user : Users, online : BOOLEAN]) /\ unsettled' \subseteq Users
    BY <1>0, <2>0, <2>1, SocketUserType, Publishes
  <2> QED
    BY <1>0, <1>14, <1>17, <2>2, SameShape DEF Disconnect, tokenVars, redisVars
<1>18. ASSUME NEW s \in Sockets, Leave(s)
       PROVE  Shape'
  <2>1. sockets[s] # Closed
    BY <1>18 DEF Leave, Closed
  <2>2. SocketUser(s) \in Users
    BY <2>1, SocketUserType
  <2>3. CASE UNCHANGED <<news, unsettled>>
    <3>1. news' = news /\ unsettled' = unsettled
      BY <2>3
    <3> QED
      BY <1>0, <1>14, <1>18, <3>1, SameShape DEF Leave, tokenVars, redisVars
  <2>4. CASE Publish(SocketUser(s), TRUE) /\ unsettled' = unsettled \cup {SocketUser(s)}
    <3>1. news' \in Seq([user : Users, online : BOOLEAN])
      BY <2>2, <2>4, Publishes
    <3>2. unsettled' \subseteq Users
      BY <1>0, <2>2, <2>4
    <3> QED
      BY <1>0, <1>14, <1>18, <3>1, <3>2, SameShape DEF Leave, tokenVars, redisVars
  <2> QED
    BY <1>18, <2>3, <2>4 DEF Leave
<1>19. CASE UNCHANGED vars
  BY <1>0, <1>19, SameShape DEF vars, tokenVars, redisVars, socketVars
<1> QED
  BY <1>1, <1>2, <1>3, <1>4, <1>5, <1>6, <1>7, <1>8, <1>9, <1>10, <1>11, <1>12, <1>13, <1>15,
     <1>16, <1>17, <1>18, <1>19, <1>c, <1>d, <1>e, <1>f, <1>g, <1>h DEF Next

-----------------------------------------------------------------------------
\* What a process has to know of a revoked token it finds.
LEMMA KnownIsFound ==
  ASSUME Shape, RevokedKept, NEW p \in Processes, NEW j \in Issued, Known(p, j)
  PROVE  Blacklisted(p, j)
<1>1. PICK x \in revoked : x.token = j /\ (x.by = p \/ (x.by = "redis" /\ Reach(p)))
  BY DEF Known
<1>2. life[x.token] = "valid"
  BY <1>1 DEF Known
<1>3. IF x.by = "redis" THEN x.token \in bl ELSE x.token \in mem[x.by]
  BY <1>2 DEF RevokedKept
<1>4. p # "redis"
  BY ProcessesAssumption
<1> QED
  BY <1>1, <1>3, <1>4 DEF Blacklisted

\* What a process writes down stays written where it was told, and so no one
\* lets a revoked token in.
LEMMA KnownStep ==
  ASSUME Shape, RevokedKept, RevokedRefused, [Next]_vars
  PROVE  RevokedKept' /\ RevokedRefused'
<1>0. /\ revoked \subseteq [token : Issued, by : Processes \cup {"redis"}]
      /\ life \in [Token -> {"valid", "last", "expired"}]
      /\ mem \in [Processes -> SUBSET Issued] /\ Issued \subseteq Token
      /\ late = FALSE /\ late \in BOOLEAN
  BY DEF Shape, TypeOK, Issued, RevokedRefused
<1>a. ASSUME revoked' = revoked, life' = life, bl' = bl, mem' = mem
      PROVE  RevokedKept'
  BY <1>a DEF RevokedKept
<1>1. CASE GuestLogin
  BY <1>0, <1>1, <1>a DEF GuestLogin, redisVars, RevokedRefused
<1>2. CASE RedisDown
  BY <1>0, <1>2, <1>a DEF RedisDown, tokenVars, RevokedRefused
<1>3. CASE RedisUp
  <2>1. life' = life /\ mem' = mem /\ late' = late
    BY <1>3 DEF RedisUp, tokenVars
  <2>2. CASE UNCHANGED <<bl, revoked>>
    BY <1>0, <1>a, <2>1, <2>2 DEF RevokedRefused
  <2>3. CASE bl' = {} /\ revoked' = {x \in revoked : x.by # "redis"}
    BY <1>0, <2>1, <2>3 DEF RevokedKept, RevokedRefused
  <2> QED
    BY <1>3, <2>2, <2>3 DEF RedisUp
<1>4. CASE ShowNews
  BY <1>0, <1>4, <1>a DEF ShowNews, tokenVars, redisVars, RevokedRefused
<1>5. ASSUME NEW p \in Processes, ApiCall(p)
      PROVE  RevokedKept' /\ RevokedRefused'
  <2>1. PICK j \in Issued : Decodes(p, j) /\ late' = (late \/ Known(p, j))
    BY <1>5 DEF ApiCall
  <2>2. ~ Known(p, j)
    BY <2>1, KnownIsFound DEF Decodes
  <2> QED
    BY <1>0, <1>5, <1>a, <2>1, <2>2 DEF ApiCall, tokenVars, RevokedRefused
<1>6. ASSUME NEW p \in Processes, Restart(p)
      PROVE  RevokedKept' /\ RevokedRefused'
  <2>1. /\ mem' = [mem EXCEPT ![p] = {}] /\ revoked' = {x \in revoked : x.by # p}
        /\ life' = life /\ bl' = bl /\ late' = late
    BY <1>6 DEF Restart, tokenVars
  <2>2. \A x \in revoked' : x \in revoked /\ x.by \in Processes \cup {"redis"} /\ x.by # p
    BY <1>0, <2>1
  <2>3. \A q \in Processes : q # p => mem'[q] = mem[q]
    BY <1>0, <2>1
  <2> QED
    BY <1>0, <2>1, <2>2, <2>3 DEF RevokedKept, RevokedRefused
<1>7. ASSUME NEW p \in Processes, NEW r \in Requests, NEW op \in Ops \ {"login"},
             Begin(r, p, op)
      PROVE  RevokedKept' /\ RevokedRefused'
  <2>1. PICK n \in DOMAIN pairs, k \in {"access", "refresh"}, left \in SUBSET Issued :
          /\ Open(r) /\ Decodes(p, <<n, k>>) /\ Connect(p)
          /\ late' = (late \/ Known(p, <<n, k>>))
          /\ Enter(r, op, p, pairs[n].user, n, left)
          /\ op = "refresh" => k = "refresh" /\ left = {<<n, "refresh">>}
          /\ op = "logout" => \E t \in Issued : left \subseteq {<<n, "access">>, t}
          /\ op \in {"online", "offline"} => left = {}
    BY <1>7, Begins, Zenon
  <2> DEFINE j == <<n, k>>
  <2>2. j \in Issued
    BY PairTokens
  <2>3. Decodes(p, j) /\ late' = (late \/ Known(p, j))
    BY <2>1
  <2> HIDE DEF j
  <2>4. ~ Known(p, j)
    BY <2>2, <2>3, KnownIsFound DEF Decodes
  <2>5. ~ late'
    BY <1>0, <2>3, <2>4
  <2> QED
    BY <1>7, <1>a, <2>5 DEF Begin, tokenVars, RevokedRefused
<1>8. ASSUME NEW r \in Requests, RevokeNext(r)
      PROVE  RevokedKept' /\ RevokedRefused'
  <2> DEFINE q == req[r]
  <2>1. PICK j \in Issued, by \in Processes \cup {"redis"} :
          /\ q.p \in Processes /\ by = IF Reach(q.p) THEN "redis" ELSE q.p
          /\ BlacklistToken(q.p, j)
          /\ revoked' = revoked \cup {[token |-> j, by |-> by]}
          /\ UNCHANGED <<pairs, life, redis, online, late, faulty, cut, overlap>>
    BY <1>8, Revokes
  <2>2. q.p # "redis"
    BY <2>1, ProcessesAssumption
  <2> HIDE DEF q
  <2>3. bl \subseteq bl' /\ \A p \in Processes : mem[p] \subseteq mem'[p]
    BY <1>0, <2>1 DEF BlacklistToken
  <2>4. life[j] = "valid" => IF by = "redis" THEN j \in bl' ELSE j \in mem'[by]
    BY <1>0, <2>1, <2>2 DEF BlacklistToken
  <2> DEFINE x1 == [token |-> j, by |-> by]
  <2>5. x1.token = j /\ x1.by = by
    OBVIOUS
  <2>6. \A x \in revoked : x.by \in Processes \cup {"redis"}
    BY <1>0
  <2>7. revoked' = revoked \cup {x1}
    BY <2>1
  <2> HIDE DEF x1
  <2>8. RevokedKept'
    BY <2>1, <2>3, <2>4, <2>5, <2>6, <2>7 DEF RevokedKept
  <2> QED
    BY <1>0, <2>1, <2>8 DEF RevokedRefused
<1>9. ASSUME NEW r \in Requests,
             \/ MarkOnline(r) \/ IssuePair(r) \/ FinishLogout(r)
             \/ ClaimPresence(r) \/ TellPresence(r) \/ Fail(r)
      PROVE  RevokedKept' /\ RevokedRefused'
  <2>1. revoked' = revoked /\ life' = life /\ bl' = bl /\ mem' = mem /\ late' = late
    BY <1>9
    DEF MarkOnline, IssuePair, FinishLogout, ClaimPresence, TellPresence, Fail, tokenVars,
        redisVars
  <2> QED
    BY <1>0, <1>a, <2>1 DEF RevokedRefused
<1>10. ASSUME NEW p \in Processes, NEW r \in Requests, BeginLogin(r, p)
       PROVE  RevokedKept' /\ RevokedRefused'
  BY <1>0, <1>10, <1>a DEF BeginLogin, tokenVars, redisVars, RevokedRefused
<1>16. CASE RealtimeRestart
  BY <1>0, <1>16, <1>a DEF RealtimeRestart, tokenVars, redisVars, RevokedRefused
<1>11. ASSUME NEW j \in Issued, Age(j)
       PROVE  RevokedKept' /\ RevokedRefused'
  <2>1. /\ \A k \in Token : k # j => life'[k] = life[k]
        /\ life'[j] # "valid" /\ bl \ {j} \subseteq bl'
        /\ mem' = mem /\ revoked' = revoked /\ late' = late
    BY <1>0, <1>11 DEF Age
  <2>2. \A x \in revoked : x.token \in Token
    BY <1>0
  <2> QED
    BY <1>0, <2>1, <2>2 DEF RevokedKept, RevokedRefused
<1>12. ASSUME NEW s \in Sockets, SocketConnect(s)
       PROVE  RevokedKept' /\ RevokedRefused'
  BY <1>0, <1>12, <1>a DEF SocketConnect, tokenVars, redisVars, RevokedRefused
<1>13. ASSUME NEW s \in Sockets, SocketReady(s)
       PROVE  RevokedKept' /\ RevokedRefused'
  <2> DEFINE j == sockets[s].token
             x == [token |-> j, by |-> "redis"]
  <2>1. j \notin bl /\ late' = (late \/ (life[j] = "valid" /\ \E y \in revoked : y = x))
    BY <1>13 DEF SocketReady
  <2>2. x.token = j /\ x.by = "redis"
    OBVIOUS
  <2> HIDE DEF x, j
  <2>3. ~ (life[j] = "valid" /\ x \in revoked)
    BY <2>1, <2>2 DEF RevokedKept
  <2>4. ~ late'
    BY <1>0, <2>1, <2>3
  <2> QED
    BY <1>13, <1>a, <2>4 DEF SocketReady, tokenVars, redisVars, RevokedRefused
<1>14. ASSUME NEW s \in Sockets,
              SocketRefused(s) \/ PresencePing(s) \/ Disconnect(s) \/ Leave(s)
       PROVE  RevokedKept' /\ RevokedRefused'
  <2>1. revoked' = revoked /\ life' = life /\ bl' = bl /\ mem' = mem /\ late' = late
    BY <1>14 DEF SocketRefused, PresencePing, Disconnect, Leave, tokenVars, redisVars
  <2> QED
    BY <1>0, <1>a, <2>1 DEF RevokedRefused
<1>15. CASE UNCHANGED vars
  BY <1>0, <1>15, <1>a DEF vars, RevokedRefused
<1> QED
  BY <1>1, <1>2, <1>3, <1>4, <1>5, <1>6, <1>7, <1>8, <1>9, <1>10, <1>11, <1>12, <1>13, <1>14,
     <1>15, <1>16 DEF Next

-----------------------------------------------------------------------------
\* A pair just issued has a good refresh token.
LEMMA NewIsGood ==
  ASSUME Shape, NEW n, n \notin DOMAIN pairs
  PROVE  Good(n) /\ <<n, "refresh">> \notin Issued
<1>1. \A x \in revoked : x.token \in Issued
  BY DEF Shape, TypeOK
<1>2. <<n, "refresh">> \notin Issued
  BY DEF Issued
<1> QED
  BY <1>1, <1>2 DEF Good

\* What was owed to a user stays owed to him.
LEMMA KeptStays ==
  ASSUME NEW u \in Users, Kept(u), DOMAIN pairs \subseteq DOMAIN pairs',
         \A n \in DOMAIN pairs : pairs'[n] = pairs[n], revoked' \subseteq revoked,
         \A r \in Requests : Settling(r, u) => req'[r] = req[r],
         \A r \in Requests : Blind(r, u)' => req'[r] = req[r]
  PROVE  Kept(u)'
<1>1. ASSUME NEW n \in DOMAIN pairs, Safe(n, u)
      PROVE  Safe(n, u)'
  <2>1. Good(n)'
    BY <1>1 DEF Safe, Good
  <2>2. \A r \in Requests : Blind(r, u)' => <<n, "refresh">> \notin req'[r].left
    BY <1>1 DEF Safe, Blind
  <2> QED
    BY <1>1, <2>1, <2>2 DEF Safe
<1>2. ASSUME NEW r \in Requests, Settling(r, u)
      PROVE  Settling(r, u)'
  BY <1>2 DEF Settling
<1> QED
  BY <1>1, <1>2 DEF Kept

\* A user marked online keeps a refresh token, or a request still owes him
\* one: one step per action.
LEMMA SessionStep ==
  ASSUME Shape, SessionKept, [Next]_vars
  PROVE  SessionKept'
<1>0. /\ req \in [Requests -> Request \cup {Idle}] /\ pairs \in Seq(Pair)
      /\ online \in [Users -> BOOLEAN] /\ cut \in BOOLEAN
      /\ \A r \in Requests : RequestOK(req[r])
  BY DEF Shape, TypeOK, RequestsOK
\* Nothing is added to what was revoked, and no one is marked online.
<1>a. ASSUME pairs' = pairs, \A u \in Users : online'[u] => online[u],
             revoked' \subseteq revoked, elsewhere \subseteq elsewhere', cut => cut',
             \A u \in Users, r \in Requests :
               ~ cut' /\ online'[u] /\ Settling(r, u) => req'[r] = req[r],
             \A u \in Users, r \in Requests :
               online'[u] /\ Blind(r, u)' => req'[r] = req[r]
      PROVE  SessionKept'
  <2> SUFFICES ASSUME ~ cut', NEW u \in Users, u \notin elsewhere', online'[u]
               PROVE  Kept(u)'
    BY DEF SessionKept
  <2>1. Kept(u)
    BY <1>a DEF SessionKept
  <2> QED
    BY <1>a, <2>1, KeptStays
<1>x. ASSUME UNCHANGED <<pairs, online, revoked, elsewhere, cut, req>>
      PROVE  SessionKept'
  BY <1>x, <1>a
\* v is issued a pair.
<1>b. ASSUME NEW v \in Users, NEW login \in 0 .. Len(pairs), Issue(v, login),
             online' = online, revoked' = revoked, cut' = cut,
             \A r \in Requests :
               req'[r] = req[r] \/ (req'[r] = Idle /\ req[r].user = v)
      PROVE  SessionKept'
  <2>1. /\ DOMAIN pairs = 1 .. Len(pairs) /\ DOMAIN pairs' = 1 .. Len(pairs) + 1
        /\ \A n \in DOMAIN pairs : pairs'[n] = pairs[n]
        /\ pairs'[Len(pairs) + 1] = [user |-> v, login |-> NewLogin(login)]
        /\ elsewhere' = elsewhere \ {v}
    BY <1>b, Issues
  <2>2. PICK k : k = Len(pairs) + 1
    OBVIOUS
  <2>3. Len(pairs) \in Nat
    BY <1>0
  <2>4. k \in DOMAIN pairs' /\ k \notin DOMAIN pairs /\ DOMAIN pairs \subseteq DOMAIN pairs'
    BY <2>1, <2>2, <2>3
  <2>5. pairs'[k].user = v
    BY <2>1, <2>2
  <2> SUFFICES ASSUME ~ cut, NEW u \in Users, u \notin elsewhere', online[u]
               PROVE  Kept(u)'
    BY <1>b DEF SessionKept
  <2>6. CASE u = v
    <3>1. Good(k) /\ <<k, "refresh">> \notin Issued
      BY <2>4, NewIsGood
    <3>2. Good(k)'
      BY <1>b, <3>1 DEF Good
    <3>3. \A r \in Requests : Blind(r, u)' => req'[r] = req[r] /\ req[r].left \subseteq Issued
      BY <1>0, <1>b DEF Blind, RequestOK
    <3>4. \A r \in Requests : Blind(r, u)' => <<k, "refresh">> \notin req'[r].left
      BY <3>1, <3>3
    <3>5. Safe(k, u)'
      BY <2>5, <2>6, <3>2, <3>4 DEF Safe
    <3> QED
      BY <2>4, <3>5 DEF Kept
  <2>7. CASE u # v
    <3>1. u \notin elsewhere
      BY <2>1, <2>7
    <3>2. Kept(u)
      BY <3>1 DEF SessionKept
    <3>3. \A r \in Requests : Settling(r, u) \/ Blind(r, u)' => req'[r] = req[r]
      BY <1>b, <2>7 DEF Settling, Blind
    <3> QED
      BY <1>b, <2>1, <2>4, <3>2, <3>3, KeptStays
  <2> QED
    BY <2>6, <2>7
<1>1. CASE GuestLogin
  <2>1. PICK u \in Users : Issue(u, 0) /\ UNCHANGED <<req, online, revoked, cut>>
    BY <1>1 DEF GuestLogin
  <2>2. 0 \in 0 .. Len(pairs)
    BY <1>0
  <2> QED
    BY <1>b, <2>1, <2>2
<1>2. CASE RedisDown
  BY <1>2, <1>x DEF RedisDown, tokenVars
<1>3. CASE RedisUp
  <2>1. UNCHANGED <<pairs, online, elsewhere, cut, req>> /\ revoked' \subseteq revoked
    BY <1>3 DEF RedisUp, tokenVars
  <2> QED
    BY <1>a, <2>1
<1>4. CASE ShowNews
  BY <1>4, <1>x DEF ShowNews, tokenVars
<1>5. ASSUME NEW p \in Processes, ApiCall(p)
      PROVE  SessionKept'
  BY <1>5, <1>x DEF ApiCall, tokenVars
\* A request ends without having gone halfway.
<1>c. ASSUME NEW S \in SUBSET Requests,
             \A r \in Requests : req'[r] = IF r \in S THEN Idle ELSE req[r],
             cut' = (cut \/ \E r \in S : Halfway(req[r])),
             pairs' = pairs, online' = online, elsewhere' = elsewhere, revoked' \subseteq revoked
      PROVE  SessionKept'
  <2>1. \A u \in Users, r \in Requests : Settling(r, u) => Halfway(req[r])
    BY DEF Settling, Halfway
  <2>2. \A u \in Users, r \in Requests : ~ cut' /\ Settling(r, u) => req'[r] = req[r]
    BY <1>c, <2>1
  <2>3. \A u \in Users, r \in Requests : Blind(r, u)' => req'[r] = req[r]
    BY <1>c DEF Blind
  <2> QED
    BY <1>a, <1>c, <2>2, <2>3
<1>6. ASSUME NEW p \in Processes, Restart(p)
      PROVE  SessionKept'
  <2> DEFINE dying == {r \in Requests : req[r] # Idle /\ req[r].p = p}
  <2>1. /\ req' = [r \in Requests |-> IF r \in dying THEN Idle ELSE req[r]]
        /\ revoked' \subseteq revoked /\ pairs' = pairs /\ online' = online
        /\ elsewhere' = elsewhere
        /\ cut' = (cut \/ \E r \in dying : Halfway(req[r]))
    BY <1>6 DEF Restart, tokenVars
  <2>2. dying \subseteq Requests
    OBVIOUS
  <2> HIDE DEF dying
  <2>3. \A r \in Requests : req'[r] = IF r \in dying THEN Idle ELSE req[r]
    BY <2>1
  <2> QED
    BY <1>c, <2>1, <2>2, <2>3
<1>7. ASSUME NEW r \in Requests, Fail(r)
      PROVE  SessionKept'
  <2> DEFINE S == {r}
  <2>1. \A x \in Requests : req'[x] = IF x \in S THEN Idle ELSE req[x]
    BY <1>0, <1>7 DEF Fail
  <2>2. /\ cut' = (cut \/ \E x \in S : Halfway(req[x]))
        /\ pairs' = pairs /\ online' = online /\ elsewhere' = elsewhere /\ revoked' = revoked
    BY <1>7 DEF Fail, tokenVars
  <2>3. S \in SUBSET Requests
    OBVIOUS
  <2> HIDE DEF S
  <2> QED
    BY <1>c, <2>1, <2>2, <2>3
\* A request enters: a logout that read its user online is not blind.
<1>d. ASSUME NEW r \in Requests, req[r] = Idle,
             \A x \in Requests : x # r => req'[x] = req[x],
             req'[r].was = online[req'[r].user],
             UNCHANGED <<pairs, online, revoked, elsewhere, cut>>
      PROVE  SessionKept'
  <2>1. \A u \in Users, x \in Requests : Settling(x, u) => req'[x] = req[x]
    BY <1>d DEF Settling
  <2>2. \A u \in Users, x \in Requests : online[u] /\ Blind(x, u)' => req'[x] = req[x]
    BY <1>d DEF Blind
  <2> QED
    BY <1>a, <1>d, <2>1, <2>2
<1>8. ASSUME NEW p \in Processes, NEW r \in Requests, BeginLogin(r, p)
      PROVE  SessionKept'
  <2>1. PICK u \in Users : Enter(r, "login", p, u, 0, {})
    BY <1>8 DEF BeginLogin
  <2>2. 0 \in 0 .. MaxPairs /\ {} \subseteq Issued /\ "login" \in Ops
    BY BoundsAssumption DEF Ops
  <2>3. /\ \A x \in Requests : x # r => req'[x] = req[x]
        /\ req'[r].user = u /\ req'[r].was = online[u]
    BY <1>8, <2>1, <2>2, Enters
  <2> QED
    BY <1>8, <1>d, <2>3 DEF BeginLogin, Open, tokenVars
<1>9. ASSUME NEW p \in Processes, NEW r \in Requests, NEW op \in Ops \ {"login"},
             Begin(r, p, op)
      PROVE  SessionKept'
  <2>1. PICK n \in DOMAIN pairs, k \in {"access", "refresh"}, left \in SUBSET Issued :
          /\ Open(r) /\ Decodes(p, <<n, k>>) /\ Connect(p)
          /\ late' = (late \/ Known(p, <<n, k>>))
          /\ Enter(r, op, p, pairs[n].user, n, left)
          /\ op = "refresh" => k = "refresh" /\ left = {<<n, "refresh">>}
          /\ op = "logout" => \E t \in Issued : left \subseteq {<<n, "access">>, t}
          /\ op \in {"online", "offline"} => left = {}
    BY <1>9, Begins, Zenon
  <2>2. n \in 0 .. MaxPairs /\ pairs[n].user \in Users
    <3>1. n \in 1 .. MaxPairs /\ pairs[n].user \in Users
      BY PairTokens
    <3> QED
      BY <3>1, BoundsAssumption
  <2>3. Enter(r, op, p, pairs[n].user, n, left) /\ left \subseteq Issued /\ op \in Ops
    BY <1>9, <2>1
  <2>4. /\ op = "refresh" => left = {<<n, "refresh">>}
        /\ op = "logout" => \E t \in Issued : left \subseteq {<<n, "access">>, t}
        /\ op \in {"login", "online", "offline"} => left = {}
    BY <1>9, <2>1
  <2>5. /\ \A x \in Requests : x # r => req'[x] = req[x]
        /\ req'[r].user = pairs[n].user /\ req'[r].was = online[pairs[n].user]
    BY <2>2, <2>3, <2>4, Enters
  <2>6. req[r] = Idle /\ UNCHANGED <<pairs, online, revoked, elsewhere, cut>>
    BY <1>9, <2>1 DEF Open, Begin, tokenVars
  <2> QED
    BY <1>d, <2>5, <2>6
<1>10. ASSUME NEW r \in Requests, RevokeNext(r)
       PROVE  SessionKept'
  <2> DEFINE q == req[r]
  <2>1. PICK j \in Issued, by \in Processes \cup {"redis"}, q1 \in Request :
          /\ q # Idle /\ RequestOK(q) /\ q.pc = "begun" /\ q.op \in {"refresh", "logout"}
          /\ j \in q.left /\ pairs[j[1]].user \in Users
          /\ j = <<q.pair, "access">> \/ q.left = {j}
          /\ revoked' = revoked \cup {[token |-> j, by |-> by]}
          /\ elsewhere' = IF pairs[j[1]].user = q.user THEN elsewhere
                          ELSE elsewhere \cup {pairs[j[1]].user}
          /\ req' = [req EXCEPT ![r] = q1] /\ q1 # Idle
          /\ q1.op = q.op /\ q1.user = q.user /\ q1.was = q.was
          /\ q1.left = q.left \ {j}
          /\ q1.pc = IF q.left = {j} THEN "revoked" ELSE "begun"
          /\ UNCHANGED <<pairs, life, redis, online, late, faulty, cut, overlap>>
    BY <1>10, Revokes
  <2>2. req'[r] = q1 /\ \A s \in Requests : s # r => req'[s] = req[s]
    BY <1>0, <2>1
  <2> SUFFICES ASSUME ~ cut, NEW u \in Users, u \notin elsewhere', online[u]
               PROVE  Kept(u)'
    BY <2>1 DEF SessionKept
  <2>3. u \notin elsewhere /\ (pairs[j[1]].user = u => q.user = u)
    BY <2>1
  <2>4. Kept(u)
    BY <2>3 DEF SessionKept
  <2>5. ASSUME NEW s \in Requests, Settling(s, u)
        PROVE  Kept(u)'
    <3>1. s # r
      BY <2>1, <2>5 DEF Settling
    <3>2. Settling(s, u)'
      BY <2>2, <2>5, <3>1 DEF Settling
    <3> QED
      BY <3>2 DEF Kept
  <2>6. ASSUME NEW n \in DOMAIN pairs, Safe(n, u)
        PROVE  Kept(u)'
    <3>1. PICK t : t = <<n, "refresh">>
      OBVIOUS
    <3>2. CASE j # t
      <4>1. \A x \in revoked' : x.token # t
        BY <2>1, <2>6, <3>1, <3>2 DEF Safe, Good
      <4>2. \A s \in Requests : Blind(s, u)' => Blind(s, u) /\ req'[s].left \subseteq req[s].left
        BY <2>1, <2>2 DEF Blind
      <4>3. Safe(n, u)'
        BY <2>1, <2>6, <3>1, <4>1, <4>2 DEF Safe, Good
      <4> QED
        BY <2>1, <4>3 DEF Kept
    <3>3. CASE j = t
      <4>1. j[1] = n /\ j # <<q.pair, "access">>
        BY <3>1, <3>3
      <4>2. q.user = u /\ q.left = {j}
        BY <2>1, <2>3, <2>6, <4>1 DEF Safe
      <4>3. q.op = "logout" => q.was
        BY <2>1, <2>6, <3>1, <3>3, <4>2 DEF Safe, Blind
      <4>4. Settling(r, u)'
        BY <2>1, <2>2, <4>2, <4>3 DEF Settling
      <4> QED
        BY <4>4 DEF Kept
    <3> QED
      BY <3>2, <3>3
  <2> QED
    BY <2>4, <2>5, <2>6 DEF Kept
<1>11. ASSUME NEW r \in Requests, MarkOnline(r)
       PROVE  SessionKept'
  <2> DEFINE v == req[r].user
  <2>1. /\ req[r] # Idle /\ req[r].op \in {"login", "refresh"}
        /\ online' = [online EXCEPT ![v] = Flush(@, req[r].was, TRUE)]
        /\ req' = [req EXCEPT ![r].pc = "marked"]
        /\ UNCHANGED <<pairs, revoked, elsewhere, cut>>
    BY <1>11 DEF MarkOnline, SetOnline, Idle, tokenVars
  <2>2. /\ \A x \in Requests : x # r => req'[x] = req[x]
        /\ req'[r] # Idle /\ req'[r].pc = "marked" /\ req'[r].op = req[r].op
        /\ req'[r].user = v
    BY <2>1, PhaseMoves
  <2>3. v \in Users
    BY <2>1, RequestType
  <2> HIDE DEF v
  <2> SUFFICES ASSUME ~ cut, NEW u \in Users, u \notin elsewhere, online'[u]
               PROVE  Kept(u)'
    BY <2>1 DEF SessionKept
  <2>4. CASE u = v
    <3>1. Settling(r, u)'
      BY <2>1, <2>2, <2>4 DEF Settling
    <3> QED
      BY <3>1 DEF Kept
  <2>5. CASE u # v
    <3>1. online[u]
      BY <1>0, <2>1, <2>3, <2>5
    <3>2. Kept(u)
      BY <3>1 DEF SessionKept
    <3>3. \A x \in Requests : Settling(x, u) \/ Blind(x, u)' => req'[x] = req[x]
      BY <2>1, <2>2, <2>5 DEF Settling, Blind, v
    <3> QED
      BY <2>1, <3>2, <3>3, KeptStays
  <2> QED
    BY <2>4, <2>5
<1>12. ASSUME NEW r \in Requests, IssuePair(r)
       PROVE  SessionKept'
  <2>1. PICK u \in Users, login \in 0 .. Len(pairs) :
          /\ Issue(u, login) /\ u = req[r].user
          /\ req' = [req EXCEPT ![r] = Idle]
          /\ UNCHANGED <<life, redis, bl, mem, link, online, revoked, late, faulty, cut, overlap>>
    BY <1>12, IssuesFor
  <2>2. \A x \in Requests : req'[x] = req[x] \/ (req'[x] = Idle /\ req[x].user = u)
    BY <1>0, <2>1
  <2> QED
    BY <1>b, <2>1, <2>2
<1>13. ASSUME NEW r \in Requests, FinishLogout(r)
       PROVE  SessionKept'
  <2> DEFINE v == req[r].user
  <2>1. /\ req[r] # Idle /\ req[r].op = "logout"
        /\ online' = [online EXCEPT ![v] = Flush(@, req[r].was, FALSE)]
        /\ req' = [req EXCEPT ![r] = Idle]
        /\ UNCHANGED <<pairs, revoked, elsewhere, cut>>
    BY <1>13 DEF FinishLogout, SetOffline, Idle, tokenVars
  <2>2. v \in Users /\ req[r].was \in BOOLEAN
    BY <2>1, RequestType
  <2>3. \A u \in Users : online'[u] => online[u] /\ (u = v => ~ req[r].was)
    BY <1>0, <2>1, <2>2 DEF Flush
  <2>4. req'[r] = Idle /\ \A x \in Requests : x # r => req'[x] = req[x]
    BY <1>0, <2>1
  <2>5. \A u \in Users, x \in Requests : online'[u] /\ Settling(x, u) => req'[x] = req[x]
    BY <2>1, <2>3, <2>4 DEF Settling
  <2>6. \A u \in Users, x \in Requests : Blind(x, u)' => req'[x] = req[x]
    BY <2>4 DEF Blind
  <2> QED
    BY <1>a, <2>1, <2>3, <2>5, <2>6
<1>14. ASSUME NEW r \in Requests, ClaimPresence(r)
       PROVE  SessionKept'
  <2> DEFINE v == req[r].user
  <2>0. /\ req[r].pc = "begun" /\ req[r].op \in {"online", "offline"}
        /\ IF req[r].op = "online" THEN SetOnline(req[r]) ELSE SetOffline(req[r])
        /\ elsewhere' = IF req[r].op = "online" THEN elsewhere \cup {v} ELSE elsewhere
        /\ req' = [req EXCEPT ![r].pc = "marked"]
        /\ UNCHANGED <<pairs, revoked, cut>>
    BY <1>14 DEF ClaimPresence, tokenVars
  <2>a. req[r].op = "online" =>
          /\ online' = [online EXCEPT ![v] = Flush(@, req[r].was, TRUE)]
          /\ elsewhere' = elsewhere \cup {v}
    BY <2>0 DEF SetOnline
  <2>b. req[r].op = "offline" =>
          /\ online' = [online EXCEPT ![v] = Flush(@, req[r].was, FALSE)]
          /\ elsewhere' = elsewhere
    BY <2>0 DEF SetOffline
  <2>1. /\ req[r] # Idle /\ req[r].op \in {"online", "offline"}
        /\ req' = [req EXCEPT ![r].pc = "marked"]
        /\ UNCHANGED <<pairs, revoked, cut>>
    BY <2>0 DEF Idle
  <2>2. /\ \A x \in Requests : x # r => req'[x] = req[x]
        /\ req'[r] # Idle /\ req'[r].op = req[r].op
    BY <2>1, PhaseMoves
  <2>3. v \in Users /\ req[r].was \in BOOLEAN
    BY <2>1, RequestType
  <2> HIDE DEF v
  <2>4. \A u \in Users : u \notin elsewhere' /\ online'[u] => online[u]
    BY <1>0, <2>1, <2>3, <2>a, <2>b DEF Flush
  <2> SUFFICES ASSUME ~ cut, NEW u \in Users, u \notin elsewhere', online'[u]
               PROVE  Kept(u)'
    BY <2>1 DEF SessionKept
  <2>5. Kept(u)
    BY <2>1, <2>4, <2>a, <2>b DEF SessionKept
  <2>6. \A x \in Requests : Settling(x, u) \/ Blind(x, u)' => req'[x] = req[x]
    BY <2>1, <2>2 DEF Settling, Blind
  <2> QED
    BY <2>1, <2>5, <2>6, KeptStays
<1>15. ASSUME NEW r \in Requests, TellPresence(r)
       PROVE  SessionKept'
  <2>1. /\ req[r] # Idle /\ req[r].op \in {"online", "offline"}
        /\ req' = [req EXCEPT ![r] = Idle]
        /\ UNCHANGED <<pairs, online, revoked, elsewhere, cut>>
    BY <1>15 DEF TellPresence, Idle, tokenVars
  <2>2. req'[r] = Idle /\ \A x \in Requests : x # r => req'[x] = req[x]
    BY <1>0, <2>1
  <2>3. \A u \in Users, x \in Requests : Settling(x, u) \/ Blind(x, u)' => req'[x] = req[x]
    BY <2>1, <2>2 DEF Settling, Blind
  <2> QED
    BY <1>a, <2>1, <2>3
<1>16. ASSUME NEW j \in Issued, Age(j)
       PROVE  SessionKept'
  BY <1>16, <1>x DEF Age
<1>17. ASSUME \/ RealtimeRestart
              \/ \E s \in Sockets : \/ SocketConnect(s) \/ SocketReady(s) \/ SocketRefused(s)
                                   \/ PresencePing(s) \/ Disconnect(s) \/ Leave(s)
       PROVE  SessionKept'
  <2>1. UNCHANGED <<pairs, online, revoked, elsewhere, cut, req>>
    BY <1>17
    DEF RealtimeRestart, SocketConnect, SocketReady, SocketRefused, PresencePing, Disconnect,
        Leave, tokenVars
  <2> QED
    BY <1>x, <2>1
<1>18. CASE UNCHANGED vars
  BY <1>18, <1>x DEF vars
<1> QED
  BY <1>1, <1>2, <1>3, <1>4, <1>5, <1>6, <1>7, <1>8, <1>9, <1>10, <1>11, <1>12, <1>13, <1>14,
     <1>15, <1>16, <1>17, <1>18 DEF Next

-----------------------------------------------------------------------------
\* A message about v is the last that the admin's screen will hear of him; of
\* the others it hears what it would have.
LEMMA PublishedLast ==
  ASSUME Shape, NEW v \in Users, NEW on \in BOOLEAN, Publish(v, on), shown' = shown,
         NEW u \in Users, LastOn(u)'
  PROVE  IF u = v THEN on ELSE LastOn(u)
<1>1. /\ DOMAIN news = 1 .. Len(news) /\ DOMAIN news' = 1 .. Len(news) + 1
      /\ \A i \in DOMAIN news : news'[i] = news[i]
      /\ news'[Len(news) + 1] = [user |-> v, online |-> on]
  BY Publishes
<1>2. Len(news) \in Nat
  BY DEF Shape, TypeOK
<1>l. PICK last : last = Len(news) + 1
  OBVIOUS
<1>3. news'[last].user = v /\ news'[last].online = on
  BY <1>1, <1>l
<1>4. /\ last \in DOMAIN news' /\ last \notin DOMAIN news
      /\ \A i \in DOMAIN news : i < last
      /\ \A i \in DOMAIN news' : (i \in DOMAIN news \/ i = last)
      /\ \A i \in DOMAIN news : i \in DOMAIN news'
  BY <1>1, <1>2, <1>l
<1>5. \A i \in DOMAIN news : About(u, i)' <=> About(u, i)
  BY <1>1, <1>4 DEF About
<1>6. About(u, last)' <=> u = v
  BY <1>3, <1>4 DEF About
<1>7. DOMAIN news \subseteq Nat
  BY <1>1, <1>2
<1>8. CASE \E i \in DOMAIN news' : /\ About(u, i)' /\ news'[i].online
                                   /\ \A k \in DOMAIN news' : About(u, k)' => k <= i
  <2>1. PICK i \in DOMAIN news' : /\ About(u, i)' /\ news'[i].online
                                  /\ \A k \in DOMAIN news' : About(u, k)' => k <= i
    BY <1>8
  <2>2. CASE i = last
    BY <1>3, <1>6, <2>1, <2>2
  <2>3. CASE i # last
    <3>1. i \in DOMAIN news /\ About(u, i) /\ news[i].online
      BY <1>1, <1>4, <1>5, <2>1, <2>3
    <3>2. \A k \in DOMAIN news : About(u, k) => k <= i
      BY <1>4, <1>5, <2>1
    <3>3. last \in Nat /\ i \in Nat /\ i < last
      BY <1>2, <1>4, <1>7, <1>l, <3>1
    <3>4. u # v
      BY <1>4, <1>6, <2>1, <3>3
    <3> QED
      BY <3>1, <3>2, <3>4 DEF LastOn
  <2> QED
    BY <2>2, <2>3
<1>9. CASE shown'[u] /\ \A k \in DOMAIN news' : ~ About(u, k)'
  <2>1. u # v
    BY <1>4, <1>6, <1>9
  <2>2. \A k \in DOMAIN news : ~ About(u, k)
    BY <1>4, <1>5, <1>9
  <2> QED
    BY <1>9, <2>1, <2>2 DEF LastOn
<1> QED
  BY <1>8, <1>9 DEF LastOn

\* Showing a message changes nothing of what the screen hears last.
LEMMA ShownLast ==
  ASSUME Shape, ShowNews, NEW u \in Users, LastOn(u)'
  PROVE  LastOn(u)
<1> DEFINE M == [user : Users, online : BOOLEAN]
<1>1. /\ news \in Seq(M) /\ news # <<>> /\ news' = Tail(news) /\ shown \in [Users -> BOOLEAN]
      /\ shown' = [shown EXCEPT ![Head(news).user] = Head(news).online]
  BY DEF ShowNews, Shape, TypeOK
<1> HIDE DEF M
<1> DEFINE n == Len(news)
<1>2. /\ n \in Nat /\ n >= 1 /\ DOMAIN news = 1 .. n /\ DOMAIN news' = 1 .. n - 1
      /\ \A i \in 1 .. n - 1 : news'[i] = news[i + 1]
      /\ Head(news) = news[1] /\ news[1] \in M
  BY <1>1
<1>3. news[1].user \in Users /\ news[1].online \in BOOLEAN
  BY <1>2 DEF M
<1>4. /\ shown'[news[1].user] = news[1].online
      /\ \A v \in Users : v # news[1].user => shown'[v] = shown[v]
  BY <1>1, <1>2, <1>3
<1> HIDE DEF n
<1>5. \A i \in 1 .. n - 1 : About(u, i)' <=> About(u, i + 1)
  BY <1>2 DEF About
<1>6. CASE \E i \in DOMAIN news' : /\ About(u, i)' /\ news'[i].online
                                   /\ \A k \in DOMAIN news' : About(u, k)' => k <= i
  <2>1. PICK i \in 1 .. n - 1 : /\ About(u, i)' /\ news'[i].online
                                /\ \A k \in 1 .. n - 1 : About(u, k)' => k <= i
    BY <1>2, <1>6
  <2>2. i + 1 \in 1 .. n /\ About(u, i + 1) /\ news[i + 1].online
    BY <1>2, <1>5, <2>1
  <2>3. ASSUME NEW k \in 1 .. n, About(u, k)
        PROVE  k <= i + 1
    <3>1. CASE k = 1
      BY <2>1, <3>1, <1>2
    <3>2. CASE k # 1
      <4>1. k - 1 \in 1 .. n - 1 /\ (k - 1) + 1 = k
        BY <1>2, <3>2
      <4>2. About(u, k - 1)'
        BY <1>5, <2>3, <4>1
      <4>3. k - 1 <= i
        BY <2>1, <4>1, <4>2
      <4> QED
        BY <1>2, <4>3
    <3> QED
      BY <3>1, <3>2
  <2> QED
    BY <1>2, <2>2, <2>3 DEF LastOn
<1>7. CASE shown'[u] /\ \A k \in DOMAIN news' : ~ About(u, k)'
  <2>1. \A k \in 1 .. n : About(u, k) => k = 1
    <3> SUFFICES ASSUME NEW k \in 1 .. n, About(u, k), k # 1
                 PROVE  FALSE
      OBVIOUS
    <3>1. k - 1 \in 1 .. n - 1 /\ (k - 1) + 1 = k
      BY <1>2
    <3>2. About(u, k - 1)'
      BY <1>5, <3>1
    <3> QED
      BY <1>2, <1>7, <3>1, <3>2
  <2>2. CASE news[1].user = u
    <3>1. 1 \in DOMAIN news /\ About(u, 1) /\ news[1].online
      BY <1>2, <1>4, <1>7, <2>2 DEF About
    <3>2. \A k \in DOMAIN news : About(u, k) => k <= 1
      BY <1>2, <2>1
    <3> QED
      BY <3>1, <3>2 DEF LastOn
  <2>3. CASE news[1].user # u
    <3>1. shown[u]
      BY <1>4, <1>7, <2>3
    <3>2. \A k \in DOMAIN news : ~ About(u, k)
      BY <1>2, <2>1, <2>3 DEF About
    <3> QED
      BY <3>1, <3>2 DEF LastOn
  <2> QED
    BY <2>2, <2>3
<1> QED
  BY <1>6, <1>7 DEF LastOn

\* The user of an open socket does not change when a pair is issued.
LEMMA SameSocketUser ==
  ASSUME Shape, sockets' = sockets,
         DOMAIN pairs \subseteq DOMAIN pairs', \A n \in DOMAIN pairs : pairs'[n] = pairs[n],
         NEW u \in Users, HasSocket(u)
  PROVE  HasSocket(u)'
<1>1. PICK s \in Sockets : sockets[s].st = "ready" /\ SocketUser(s) = u
  BY DEF HasSocket
<1>2. sockets[s] # Closed
  BY <1>1 DEF Closed
<1>3. sockets[s].token[1] \in DOMAIN pairs
  BY <1>2 DEF Shape, SocketsOK, Issued
<1>4. SocketUser(s)' = u
  BY <1>1, <1>3 DEF SocketUser
<1> QED
  BY <1>1, <1>4 DEF HasSocket

\* The last news of a user who is not unsettled is true: one step per action.
LEMMA NewsStep ==
  ASSUME Shape, NewsTrue, [Next]_vars
  PROVE  NewsTrue'
<1>0. /\ sockets \in [Sockets -> Socket \cup {Closed}] /\ pairs \in Seq(Pair)
      /\ shown \in [Users -> BOOLEAN] /\ unsettled \subseteq Users
  BY DEF Shape, TypeOK
<1>a. ASSUME news' = news, shown' = shown, sockets' = sockets, unsettled' = unsettled,
             DOMAIN pairs \subseteq DOMAIN pairs', \A n \in DOMAIN pairs : pairs'[n] = pairs[n]
      PROVE  NewsTrue'
  <2> SUFFICES ASSUME NEW u \in Users \ unsettled, LastOn(u)'
               PROVE  HasSocket(u)'
    BY <1>a DEF NewsTrue
  <2>1. LastOn(u)
    BY <1>a DEF LastOn, About
  <2>2. HasSocket(u)
    BY <2>1 DEF NewsTrue
  <2> QED
    BY <1>a, <2>2, SameSocketUser
<1>b. ASSUME news' = news, shown' = shown, sockets' = sockets, unsettled' = unsettled,
             pairs' = pairs
      PROVE  NewsTrue'
  BY <1>a, <1>b
<1>c. ASSUME NEW u \in Users, NEW login \in 0 .. Len(pairs), Issue(u, login),
             UNCHANGED <<sockets, news, shown, unsettled>>
      PROVE  NewsTrue'
  <2>1. /\ DOMAIN pairs = 1 .. Len(pairs) /\ DOMAIN pairs' = 1 .. Len(pairs) + 1
        /\ \A n \in DOMAIN pairs : pairs'[n] = pairs[n]
    BY <1>c, Issues
  <2>2. Len(pairs) \in Nat
    BY <1>0
  <2>3. DOMAIN pairs \subseteq DOMAIN pairs'
    BY <2>1, <2>2
  <2> QED
    BY <1>a, <1>c, <2>1, <2>3
\* A socket that was not ready changes, and the pairs do not.
<1>d. ASSUME NEW s \in Sockets, sockets[s].st # "ready", NEW k, pairs' = pairs,
             sockets' = [sockets EXCEPT ![s] = k], NEW u \in Users, HasSocket(u)
      PROVE  HasSocket(u)'
  <2>1. PICK x \in Sockets : sockets[x].st = "ready" /\ SocketUser(x) = u
    BY <1>d DEF HasSocket
  <2>2. sockets'[x] = sockets[x]
    BY <1>0, <1>d, <2>1
  <2> QED
    BY <1>d, <2>1, <2>2 DEF HasSocket, SocketUser
<1>1. CASE GuestLogin
  <2>1. PICK u \in Users : Issue(u, 0)
    BY <1>1 DEF GuestLogin
  <2>2. 0 \in 0 .. Len(pairs)
    BY <1>0
  <2> QED
    BY <1>1, <1>c, <2>1, <2>2 DEF GuestLogin, socketVars
<1>2. CASE RedisDown
  BY <1>2, <1>b DEF RedisDown, tokenVars, socketVars
<1>3. CASE RedisUp
  <2>1. pairs' = pairs /\ sockets' = sockets /\ shown' = shown
    BY <1>3 DEF RedisUp, tokenVars
  <2>2. CASE UNCHANGED <<news, unsettled>>
    BY <1>b, <2>1, <2>2
  <2>3. CASE news' = <<>> /\ unsettled' = unsettled \cup {news[i].user : i \in DOMAIN news}
    <3> SUFFICES ASSUME NEW u \in Users \ unsettled', LastOn(u)'
                 PROVE  HasSocket(u)'
      BY DEF NewsTrue
    <3>1. DOMAIN news' = {}
      BY <2>3
    <3>2. shown[u] /\ u \in Users \ unsettled /\ \A k \in DOMAIN news : ~ About(u, k)
      BY <2>1, <2>3, <3>1 DEF LastOn, About
    <3>3. HasSocket(u)
      BY <3>2 DEF LastOn, NewsTrue
    <3> QED
      BY <2>1, <3>3 DEF HasSocket, SocketUser
  <2> QED
    BY <1>3, <2>2, <2>3 DEF RedisUp
<1>4. CASE ShowNews
  <2>1. pairs' = pairs /\ sockets' = sockets /\ unsettled' = unsettled
    BY <1>4 DEF ShowNews, tokenVars
  <2> SUFFICES ASSUME NEW u \in Users \ unsettled, LastOn(u)'
               PROVE  HasSocket(u)'
    BY <2>1 DEF NewsTrue
  <2>2. HasSocket(u)
    BY <1>4, ShownLast DEF NewsTrue
  <2> QED
    BY <2>1, <2>2 DEF HasSocket, SocketUser
<1>5. ASSUME NEW p \in Processes,
             \/ ApiCall(p) \/ Restart(p)
             \/ \E r \in Requests : \/ BeginLogin(r, p)
                                   \/ \E op \in Ops \ {"login"} : Begin(r, p, op)
      PROVE  NewsTrue'
  <2>1. UNCHANGED <<pairs, sockets, news, shown, unsettled>>
    BY <1>5 DEF ApiCall, Restart, BeginLogin, Begin, tokenVars, socketVars
  <2> QED
    BY <1>b, <2>1
<1>6. ASSUME NEW r \in Requests,
             \/ RevokeNext(r) \/ MarkOnline(r) \/ FinishLogout(r)
             \/ ClaimPresence(r) \/ Fail(r)
      PROVE  NewsTrue'
  <2>1. UNCHANGED <<pairs, sockets, news, shown, unsettled>>
    BY <1>6
    DEF RevokeNext, MarkOnline, FinishLogout, ClaimPresence, Fail, tokenVars, socketVars
  <2> QED
    BY <1>b, <2>1
<1>7. ASSUME NEW r \in Requests, IssuePair(r)
      PROVE  NewsTrue'
  <2>1. PICK u \in Users, login \in 0 .. Len(pairs) :
          Issue(u, login) /\ UNCHANGED <<sockets, news, shown, unsettled>>
    BY <1>7, IssuesFor
  <2> QED
    BY <1>c, <2>1
\* /retailer/presence announces its user without a socket, or tells of no one.
<1>16. ASSUME NEW r \in Requests, TellPresence(r)
       PROVE  NewsTrue'
  <2> DEFINE v == req[r].user
             on == req[r].op = "online"
  <2>1. /\ req[r] # Idle /\ pairs' = pairs /\ sockets' = sockets /\ shown' = shown
        /\ \/ news' = news /\ unsettled' = unsettled
           \/ /\ Publish(v, on)
              /\ unsettled' = IF on THEN unsettled \cup {v} ELSE unsettled \ {v}
    BY <1>16 DEF TellPresence, Idle, tokenVars
  <2>2. v \in Users /\ on \in BOOLEAN
    BY <2>1, RequestType
  <2> HIDE DEF v, on
  <2>3. CASE news' = news /\ unsettled' = unsettled
    BY <1>b, <2>1, <2>3
  <2>4. CASE Publish(v, on) /\ unsettled' = IF on THEN unsettled \cup {v} ELSE unsettled \ {v}
    <3> SUFFICES ASSUME NEW u \in Users \ unsettled', LastOn(u)'
                 PROVE  HasSocket(u)'
      BY DEF NewsTrue
    <3>1. IF u = v THEN on ELSE LastOn(u)
      BY <2>1, <2>2, <2>4, PublishedLast
    <3>2. u # v /\ u \notin unsettled
      BY <2>2, <2>4, <3>1
    <3>3. HasSocket(u)
      BY <3>1, <3>2 DEF NewsTrue
    <3> QED
      BY <2>1, <3>3 DEF HasSocket, SocketUser
  <2> QED
    BY <2>1, <2>3, <2>4
<1>17. CASE RealtimeRestart
  <2>1. /\ news' = <<>> /\ shown' = shown
        /\ unsettled' = unsettled
                \cup {SocketUser(s) : s \in {t \in Sockets : sockets[t].st = "ready"}}
                \cup {news[i].user : i \in DOMAIN news}
    BY <1>17 DEF RealtimeRestart
  <2> SUFFICES ASSUME NEW u \in Users \ unsettled', LastOn(u)'
               PROVE  FALSE
    BY DEF NewsTrue
  <2>2. DOMAIN news' = {}
    BY <2>1
  <2>3. shown[u] /\ u \in Users \ unsettled /\ \A k \in DOMAIN news : ~ About(u, k)
    BY <2>1, <2>2 DEF LastOn, About
  <2>4. HasSocket(u)
    BY <2>3 DEF LastOn, NewsTrue
  <2> QED
    BY <2>1, <2>4 DEF HasSocket
<1>8. ASSUME NEW j \in Issued, Age(j)
      PROVE  NewsTrue'
  BY <1>8, <1>b DEF Age, socketVars
<1>9. ASSUME NEW s \in Sockets, SocketConnect(s)
      PROVE  NewsTrue'
  <2>1. /\ sockets[s].st # "ready" /\ \E k : sockets' = [sockets EXCEPT ![s] = k]
        /\ news' = news /\ shown' = shown /\ unsettled' = unsettled /\ pairs' = pairs
    <3>1. sockets[s] = Closed
      BY <1>9 DEF SocketConnect
    <3>2. sockets[s].st # "ready"
      BY <3>1 DEF Closed
    <3> QED
      BY <1>9, <3>2 DEF SocketConnect, tokenVars
  <2> SUFFICES ASSUME NEW u \in Users \ unsettled, LastOn(u)'
               PROVE  HasSocket(u)'
    BY <2>1 DEF NewsTrue
  <2>2. HasSocket(u)
    BY <2>1 DEF LastOn, About, NewsTrue
  <2> QED
    BY <1>d, <2>1, <2>2
<1>10. ASSUME NEW s \in Sockets, SocketReady(s)
       PROVE  NewsTrue'
  <2>0. PICK v : v = SocketUser(s)
    OBVIOUS
  <2> DEFINE k == [sockets[s] EXCEPT !.st = "ready"]
  <2>1. /\ sockets[s].st = "checking" /\ sockets' = [sockets EXCEPT ![s].st = "ready"]
        /\ Publish(v, TRUE) /\ shown' = shown /\ unsettled' = unsettled /\ pairs' = pairs
    BY <1>10, <2>0 DEF SocketReady, tokenVars
  <2>2. sockets[s] # Closed
    BY <2>1 DEF Closed
  <2>3. v \in Users /\ sockets[s] \in Socket
    BY <2>0, <2>2, SocketUserType
  <2>4. sockets' = [sockets EXCEPT ![s] = k] /\ k.st = "ready" /\ k.token = sockets[s].token
    BY <2>1, <2>3 DEF Socket
  <2>5. HasSocket(v)'
    BY <1>0, <2>0, <2>1, <2>4 DEF HasSocket, SocketUser
  <2> HIDE DEF k
  <2> SUFFICES ASSUME NEW u \in Users \ unsettled, LastOn(u)'
               PROVE  HasSocket(u)'
    BY <2>1 DEF NewsTrue
  <2>6. CASE u = v
    BY <2>5, <2>6
  <2>7. CASE u # v
    <3>1. LastOn(u)
      BY <2>1, <2>3, <2>7, PublishedLast
    <3>2. HasSocket(u)
      BY <3>1 DEF NewsTrue
    <3>3. sockets[s].st # "ready"
      BY <2>1
    <3> QED
      BY <1>d, <2>1, <2>4, <3>2, <3>3
  <2> QED
    BY <2>6, <2>7
<1>11. ASSUME NEW s \in Sockets, SocketRefused(s)
       PROVE  NewsTrue'
  <2>1. /\ sockets[s].st # "ready" /\ sockets' = [sockets EXCEPT ![s] = Closed]
        /\ news' = news /\ shown' = shown /\ unsettled' = unsettled /\ pairs' = pairs
    BY <1>11 DEF SocketRefused, tokenVars
  <2> SUFFICES ASSUME NEW u \in Users \ unsettled, LastOn(u)'
               PROVE  HasSocket(u)'
    BY <2>1 DEF NewsTrue
  <2>2. HasSocket(u)
    BY <2>1 DEF LastOn, About, NewsTrue
  <2> QED
    BY <1>d, <2>1, <2>2
<1>12. ASSUME NEW s \in Sockets, PresencePing(s)
       PROVE  NewsTrue'
  <2> DEFINE v == SocketUser(s)
  <2>1. /\ sockets[s].st = "ready" /\ sockets' = sockets
        /\ Publish(v, TRUE) /\ shown' = shown /\ unsettled' = unsettled /\ pairs' = pairs
    BY <1>12 DEF PresencePing, tokenVars
  <2>2. sockets[s] # Closed
    BY <2>1 DEF Closed
  <2>3. v \in Users
    BY <2>2, SocketUserType
  <2>4. HasSocket(v)
    BY <2>1 DEF HasSocket
  <2> HIDE DEF v
  <2> SUFFICES ASSUME NEW u \in Users \ unsettled, LastOn(u)'
               PROVE  HasSocket(u)'
    BY <2>1 DEF NewsTrue
  <2>5. u # v => LastOn(u)
    BY <2>1, <2>3, PublishedLast
  <2>6. HasSocket(u)
    BY <2>4, <2>5 DEF NewsTrue
  <2> QED
    BY <2>1, <2>6 DEF HasSocket, SocketUser
<1>13. ASSUME NEW s \in Sockets, Disconnect(s)
       PROVE  NewsTrue'
  <2> DEFINE v == SocketUser(s)
  <2>1. /\ sockets[s].st = "ready" /\ sockets' = [sockets EXCEPT ![s] = Closed]
        /\ Publish(v, FALSE) /\ shown' = shown /\ unsettled' = unsettled \ {v}
        /\ pairs' = pairs
    BY <1>13 DEF Disconnect, OfflineNews, tokenVars
  <2>2. sockets[s] # Closed
    BY <2>1 DEF Closed
  <2>3. v \in Users
    BY <2>2, SocketUserType
  <2>4. \A x \in Sockets : x # s => sockets'[x] = sockets[x]
    BY <1>0, <2>1
  <2> SUFFICES ASSUME NEW u \in Users \ unsettled', LastOn(u)'
               PROVE  HasSocket(u)'
    BY DEF NewsTrue
  <2>5. u # v /\ LastOn(u)
    <3> HIDE DEF v
    <3> QED
      BY <2>1, <2>3, PublishedLast
  <2>a. u \notin unsettled
    BY <2>1, <2>5
  <2>6. PICK x \in Sockets : sockets[x].st = "ready" /\ SocketUser(x) = u
    BY <2>5, <2>a DEF NewsTrue, HasSocket
  <2>7. sockets'[x] = sockets[x]
    BY <2>4, <2>5, <2>6
  <2> QED
    BY <2>1, <2>6, <2>7 DEF HasSocket, SocketUser
<1>14. ASSUME NEW s \in Sockets, Leave(s)
       PROVE  NewsTrue'
  <2> DEFINE v == SocketUser(s)
  <2>1. /\ sockets[s].st = "checking" /\ sockets' = [sockets EXCEPT ![s] = Closed]
        /\ shown' = shown /\ pairs' = pairs
    BY <1>14 DEF Leave, tokenVars
  <2>2. sockets[s] # Closed /\ sockets[s].st # "ready"
    BY <2>1 DEF Closed
  <2>3. v \in Users
    BY <2>2, SocketUserType
  <2> HIDE DEF v
  <2>4. CASE UNCHANGED <<news, unsettled>>
    <3>1. news' = news /\ unsettled' = unsettled
      BY <2>4
    <3> SUFFICES ASSUME NEW u \in Users \ unsettled, LastOn(u)'
                 PROVE  HasSocket(u)'
      BY <3>1 DEF NewsTrue
    <3>2. HasSocket(u)
      BY <2>1, <3>1 DEF LastOn, About, NewsTrue
    <3> QED
      BY <1>d, <2>1, <2>2, <3>2
  <2>5. CASE Publish(v, TRUE) /\ unsettled' = unsettled \cup {v}
    <3> SUFFICES ASSUME NEW u \in Users \ unsettled', LastOn(u)'
                 PROVE  HasSocket(u)'
      BY DEF NewsTrue
    <3>1. u # v /\ u \in Users \ unsettled
      BY <2>5
    <3>2. LastOn(u)
      BY <2>1, <2>3, <2>5, <3>1, PublishedLast
    <3>3. HasSocket(u)
      BY <3>1, <3>2 DEF NewsTrue
    <3> QED
      BY <1>d, <2>1, <2>2, <3>1, <3>3
  <2> QED
    BY <1>14, <2>4, <2>5 DEF Leave, v
<1>15. CASE UNCHANGED vars
  BY <1>15, <1>b DEF vars
<1> QED
  BY <1>1, <1>2, <1>3, <1>4, <1>5, <1>6, <1>7, <1>8, <1>9, <1>10, <1>11, <1>12, <1>13, <1>14,
     <1>15, <1>16, <1>17 DEF Next

-----------------------------------------------------------------------------
\* What was revoked stays as it was while a pair is issued or a request moves.
LEMMA SerialSame ==
  ASSUME SerialInv, pairs' = pairs, revoked' = revoked, overlap' = overlap,
         faulty' = faulty, redis' = redis, link' = link,
         \A k \in DOMAIN pairs :
           life'[<<k, "refresh">>] = "valid" => life[<<k, "refresh">>] = "valid",
         \A r \in Requests :
           \/ req'[r] \in {Idle, req[r]}
           \/ Spent(r) /\ req'[r].pc # "begun" /\ req'[r].pair = req[r].pair
           \/ req[r] # Idle /\ req'[r] # Idle /\ req'[r].op # "refresh"
  PROVE  SerialInv'
<1> SUFFICES ASSUME ~ overlap, ~ faulty
             PROVE  Serial'
  BY DEF SerialInv
<1>1. OneRequest /\ RedisTold /\ (Fresh => Chain)
  BY DEF SerialInv, Serial
<1>2. OneRequest'
  BY <1>1 DEF OneRequest, Spent
<1>3. RedisTold'
  BY <1>1 DEF RedisTold
<1>4. Fresh' => Chain'
  <2> SUFFICES ASSUME Fresh'
               PROVE  Chain'
    OBVIOUS
  <2>1. Fresh
    BY DEF Fresh
  <2>2. Chain
    BY <1>1, <2>1
  <2>3. \A n : Good(n)' <=> Good(n)
    BY DEF Good
  <2>4. \A r \in Requests : Begun(r)' => Begun(r) /\ req'[r].pair = req[r].pair
    BY DEF Begun, Spent
  <2>5. \A r \in Requests : Spent(r)' => Spent(r) /\ req'[r].pair = req[r].pair
    BY DEF Spent
  <2> QED
    BY <2>2, <2>3, <2>4, <2>5 DEF Chain
<1> QED
  BY <1>2, <1>3, <1>4 DEF Serial

\* A pair is issued that descends from a login without a good refresh token.
LEMMA SerialIssue ==
  ASSUME Shape, SerialInv, NEW u \in Users, NEW login \in 0 .. Len(pairs), Issue(u, login),
         UNCHANGED <<life, redis, link, revoked, overlap, faulty>>,
         \A r \in Requests : req'[r] \in {Idle, req[r]},
         ~ overlap /\ ~ faulty /\ Fresh =>
           /\ \A n \in DOMAIN pairs : pairs[n].login = NewLogin(login) => ~ Good(n)
           /\ \A r \in Requests : Spent(r)' => pairs[req[r].pair].login # NewLogin(login)
  PROVE  SerialInv'
<1>0. PICK k : k = Len(pairs)
  OBVIOUS
<1>1. /\ DOMAIN pairs = 1 .. k /\ DOMAIN pairs' = 1 .. k + 1
      /\ \A n \in DOMAIN pairs : pairs'[n] = pairs[n]
      /\ pairs'[k + 1] = [user |-> u, login |-> NewLogin(login)]
  BY <1>0, Issues
<1>2. k \in Nat /\ pairs'[k + 1].login = NewLogin(login)
  BY <1>0, <1>1 DEF Shape, TypeOK
<1> SUFFICES ASSUME ~ overlap, ~ faulty
             PROVE  Serial'
  BY DEF SerialInv
<1>3. OneRequest /\ RedisTold /\ (Fresh => Chain)
  BY DEF SerialInv, Serial
<1>4. OneRequest'
  BY <1>3 DEF OneRequest
<1>5. RedisTold'
  BY <1>3 DEF RedisTold
<1>6. Fresh' => Chain'
  <2> SUFFICES ASSUME Fresh'
               PROVE  Chain'
    OBVIOUS
  <2>1. Fresh
    <3>1. life' = life /\ DOMAIN pairs \subseteq DOMAIN pairs'
      BY <1>1, <1>2
    <3> QED
      BY <3>1 DEF Fresh
  <2>2. Chain
    BY <1>3, <2>1
  <2>3. \A n : Good(n)' <=> Good(n)
    BY DEF Good
  <2>4. \A r \in Requests : (Begun(r)' \/ Spent(r)') => req'[r] = req[r]
    BY DEF Begun, Spent
  <2>5. \A r \in Requests : (Begun(r)' => Begun(r)) /\ (Spent(r)' => Spent(r))
    BY <2>4 DEF Begun, Spent
  <2>6. \A r \in Requests : Begun(r) \/ Spent(r) => req[r].pair \in DOMAIN pairs
    BY DEF Shape, RequestsOK, RequestOK, Begun, Spent
  <2>7. \A m, n \in DOMAIN pairs' :
          (pairs'[m].login = pairs'[n].login /\ Good(m)' /\ Good(n)') => m = n
    <3> SUFFICES ASSUME NEW m \in DOMAIN pairs', NEW n \in DOMAIN pairs',
                        pairs'[m].login = pairs'[n].login, Good(m), Good(n)
                 PROVE  m = n
      BY <2>3
    <3>1. (m \in DOMAIN pairs \/ m = k + 1) /\ (n \in DOMAIN pairs \/ n = k + 1)
      BY <1>1, <1>2
    <3>2. CASE m \in DOMAIN pairs /\ n \in DOMAIN pairs
      BY <1>1, <2>2, <3>2 DEF Chain
    <3>3. CASE m \in DOMAIN pairs /\ n = k + 1
      BY <1>1, <1>2, <2>1, <3>3
    <3>4. CASE m = k + 1 /\ n \in DOMAIN pairs
      BY <1>1, <1>2, <2>1, <3>4
    <3> QED
      BY <3>1, <3>2, <3>3, <3>4
  <2>8. \A r \in Requests : Begun(r)' => Good(req[r].pair)'
    BY <2>2, <2>3, <2>4, <2>5 DEF Chain
  <2>9. ASSUME NEW r \in Requests, NEW n \in DOMAIN pairs', Spent(r)',
               pairs'[n].login = pairs'[req'[r].pair].login
        PROVE  ~ Good(n)'
    <3>1. Spent(r) /\ req'[r] = req[r] /\ req[r].pair \in DOMAIN pairs
      BY <2>4, <2>5, <2>6, <2>9 DEF Spent
    <3>2. pairs'[n].login = pairs[req[r].pair].login
      BY <1>1, <2>9, <3>1
    <3>3. CASE n \in DOMAIN pairs
      BY <1>1, <2>2, <2>3, <3>1, <3>2, <3>3 DEF Chain
    <3>4. CASE n = k + 1
      BY <1>2, <2>1, <2>9, <3>2, <3>4
    <3> QED
      BY <1>1, <1>2, <3>3, <3>4
  <2> QED
    BY <2>7, <2>8, <2>9 DEF Chain
<1> QED
  BY <1>4, <1>5, <1>6 DEF Serial

\* Get_redis finds Redis while it is up.
LEMMA ConnectsOn ==
  ASSUME Shape, NEW p \in Processes, Connect(p), redis, \A o \in Processes : link[o] # "off"
  PROVE  \A o \in Processes : link'[o] # "off"
<1>1. link \in [Processes -> {"new", "ok", "off"}]
  BY DEF Shape, TypeOK
<1>2. \A o \in Processes :
        link'[o] = IF o # p \/ link[o] # "new" THEN link[o] ELSE "ok"
  BY <1>1 DEF Connect
<1> QED
  BY <1>2

\* The chain of refresh tokens of a login is inductive: one step per action.
LEMMA SerialStep ==
  ASSUME Shape, RevokedKept, SerialInv, [Next]_vars
  PROVE  SerialInv'
<1>0. /\ life \in [Token -> {"valid", "last", "expired"}] /\ pairs \in Seq(Pair)
      /\ revoked \subseteq [token : Issued, by : Processes \cup {"redis"}]
      /\ req \in [Requests -> Request \cup {Idle}]
      /\ link \in [Processes -> {"new", "ok", "off"}] /\ faulty \in BOOLEAN
      /\ \A r \in Requests : RequestOK(req[r])
      /\ \A k \in DOMAIN pairs : <<k, "refresh">> \in Token
  <2>1. \A k \in DOMAIN pairs : k \in 1 .. MaxPairs
    BY BoundsAssumption DEF Shape, TypeOK
  <2> QED
    BY <2>1 DEF Shape, TypeOK, RequestsOK, Token
<1>a. ASSUME UNCHANGED <<pairs, life, redis, link, req, revoked, faulty, overlap>>
      PROVE  SerialInv'
  BY <1>a, SerialSame
\* No pair descends from the login that a new one begins.
<1>b. \A n \in DOMAIN pairs : pairs[n].login # NewLogin(0)
  <2>1. DOMAIN pairs = 1 .. Len(pairs) /\ Len(pairs) \in Nat
    BY <1>0
  <2>2. NewLogin(0) = Len(pairs) + 1
    BY DEF NewLogin
  <2>3. \A n \in DOMAIN pairs : pairs[n] \in Pair /\ pairs[n].login <= n
    BY <1>0 DEF Shape, LoginsOK
  <2> QED
    BY <2>1, <2>2, <2>3, BoundsAssumption DEF Pair
<1>c. \A r \in Requests : Spent(r) => req[r].pair \in DOMAIN pairs
  BY <1>0 DEF Spent, RequestOK
<1>1. CASE GuestLogin
  <2>1. PICK u \in Users : Issue(u, 0)
    BY <1>1 DEF GuestLogin
  <2>2. 0 \in 0 .. Len(pairs)
    BY <1>0
  <2>3. UNCHANGED <<life, redis, link, req, revoked, overlap, faulty>>
    BY <1>1 DEF GuestLogin, redisVars
  <2>4. \A r \in Requests : Spent(r)' => pairs[req[r].pair].login # NewLogin(0)
    BY <1>b, <1>c, <2>3 DEF Spent
  <2> QED
    BY <1>b, <2>1, <2>2, <2>3, <2>4, SerialIssue
<1>2. CASE RedisDown
  BY <1>2 DEF RedisDown, SerialInv
<1>3. CASE RedisUp
  <2>1. ~ redis /\ overlap' = overlap /\ faulty' = faulty
    BY <1>3 DEF RedisUp
  <2> QED
    BY <2>1 DEF SerialInv, Serial, RedisTold
<1>4. CASE ShowNews
  BY <1>4, <1>a DEF ShowNews, tokenVars, redisVars
<1>5. ASSUME NEW p \in Processes, ApiCall(p)
      PROVE  SerialInv'
  <2>1. Connect(p) /\ UNCHANGED <<pairs, life, redis, req, revoked, faulty, overlap>>
    BY <1>5 DEF ApiCall, tokenVars
  <2> SUFFICES ASSUME ~ overlap, ~ faulty
               PROVE  Serial'
    BY <2>1 DEF SerialInv
  <2>2. OneRequest /\ RedisTold /\ (Fresh => Chain)
    BY DEF SerialInv, Serial
  <2>3. RedisTold'
    BY <2>1, <2>2, ConnectsOn DEF RedisTold
  <2>4. OneRequest' /\ (Fresh' => Chain')
    BY <2>1, <2>2 DEF OneRequest, Fresh, Chain, Good, Begun, Spent
  <2> QED
    BY <2>3, <2>4 DEF Serial
<1>6. ASSUME NEW p \in Processes, Restart(p)
      PROVE  SerialInv'
  <2>1. /\ link' = [link EXCEPT ![p] = "new"] /\ revoked' = {x \in revoked : x.by # p}
        /\ UNCHANGED <<pairs, life, redis, faulty, overlap>>
        /\ \A r \in Requests : req'[r] \in {Idle, req[r]}
    BY <1>6 DEF Restart, tokenVars
  <2> SUFFICES ASSUME ~ overlap, ~ faulty
               PROVE  Serial'
    BY <2>1 DEF SerialInv
  <2>2. OneRequest /\ RedisTold /\ (Fresh => Chain)
    BY DEF SerialInv, Serial
  <2>3. revoked' = revoked
    BY <2>1, <2>2, ProcessesAssumption DEF RedisTold
  <2>4. RedisTold'
    BY <1>0, <2>1, <2>2, <2>3 DEF RedisTold
  <2>5. OneRequest'
    BY <2>1, <2>2 DEF OneRequest
  <2>6. \A r \in Requests : (Begun(r)' \/ Spent(r)') => req'[r] = req[r]
    BY <2>1 DEF Begun, Spent
  <2>7. Fresh' => Chain'
    <3> SUFFICES ASSUME Chain
                 PROVE  Chain'
      BY <2>1, <2>2 DEF Fresh
    <3>1. \A n : Good(n)' <=> Good(n)
      BY <2>3 DEF Good
    <3>2. \A r \in Requests : (Begun(r)' => Begun(r)) /\ (Spent(r)' => Spent(r))
      BY <2>6 DEF Begun, Spent
    <3>3. pairs' = pairs
      BY <2>1
    <3> QED
      BY <2>6, <3>1, <3>2, <3>3 DEF Chain
  <2> QED
    BY <2>4, <2>5, <2>7 DEF Serial
\* A request enters while there is no other.
<1>d. ASSUME NEW r \in Requests, Open(r), \A x \in Requests : x # r => req'[x] = req[x],
             req'[r].op = "refresh" => req'[r].pc = "begun" /\ (Fresh => Good(req'[r].pair)),
             ~ faulty => (RedisTold => RedisTold'),
             UNCHANGED <<pairs, life, revoked, faulty, overlap>>,
             ~ overlap => SerialInv
      PROVE  SerialInv'
  <2> SUFFICES ASSUME ~ overlap, ~ faulty
               PROVE  Serial'
    BY <1>d DEF SerialInv
  <2>1. OneRequest /\ RedisTold /\ (Fresh => Chain)
    BY <1>d DEF SerialInv, Serial
  <2>2. \A s \in Requests : req[s] = Idle
    BY <1>d DEF Open, Quiet
  <2>3. \A s \in Requests : s # r => req'[s] = Idle
    BY <1>d, <2>2
  <2>4. OneRequest'
    BY <2>3 DEF OneRequest
  <2>5. \A s \in Requests : ~ Spent(s)' /\ (Begun(s)' => s = r /\ req'[r].op = "refresh")
    BY <1>d, <2>3 DEF Spent, Begun
  <2>6. Fresh' => Chain'
    <3> SUFFICES ASSUME Fresh'
                 PROVE  Chain'
      OBVIOUS
    <3>1. Fresh
      BY <1>d DEF Fresh
    <3>2. \A k : Good(k)' <=> Good(k)
      BY <1>d DEF Good
    <3>3. \A s \in Requests : Begun(s)' => Good(req[s].pair)'
      BY <1>d, <2>5, <3>1, <3>2
    <3> QED
      BY <1>d, <2>1, <2>5, <3>1, <3>2, <3>3 DEF Chain
  <2> QED
    BY <1>d, <2>1, <2>4, <2>6 DEF Serial
<1>e. ASSUME NEW p \in Processes, Connect(p), UNCHANGED <<redis, revoked>>
      PROVE  RedisTold => RedisTold'
  BY <1>e, ConnectsOn DEF RedisTold
<1>7. ASSUME NEW p \in Processes, NEW r \in Requests, NEW op \in Ops \ {"login"},
             Begin(r, p, op)
      PROVE  SerialInv'
  <2>1. PICK n \in DOMAIN pairs, k \in {"access", "refresh"}, left \in SUBSET Issued :
          /\ Open(r) /\ Decodes(p, <<n, k>>) /\ Connect(p)
          /\ late' = (late \/ Known(p, <<n, k>>))
          /\ Enter(r, op, p, pairs[n].user, n, left)
          /\ op = "refresh" => k = "refresh" /\ left = {<<n, "refresh">>}
          /\ op = "logout" => \E t \in Issued : left \subseteq {<<n, "access">>, t}
          /\ op \in {"online", "offline"} => left = {}
    BY <1>7, Begins, Zenon
  <2>2. n \in 0 .. MaxPairs /\ pairs[n].user \in Users
    <3>1. n \in 1 .. MaxPairs /\ pairs[n].user \in Users
      BY PairTokens
    <3> QED
      BY <3>1, BoundsAssumption
  <2>3. Enter(r, op, p, pairs[n].user, n, left) /\ left \subseteq Issued /\ op \in Ops
    BY <1>7, <2>1
  <2>4. /\ op = "refresh" => left = {<<n, "refresh">>}
        /\ op = "logout" => \E t \in Issued : left \subseteq {<<n, "access">>, t}
        /\ op \in {"login", "online", "offline"} => left = {}
    BY <1>7, <2>1
  <2>5. /\ \A x \in Requests : x # r => req'[x] = req[x]
        /\ req'[r].pc = "begun" /\ req'[r].op = op /\ req'[r].pair = n
    BY <2>2, <2>3, <2>4, Enters
  <2>6. UNCHANGED <<pairs, life, redis, revoked, faulty, overlap>>
    BY <1>7 DEF Begin, tokenVars
  <2>7. ASSUME RedisTold, Fresh, op = "refresh"
        PROVE  Good(n)
    <3> DEFINE j == <<n, "refresh">>
    <3>1. life[j] = "valid"
      BY <2>7 DEF Fresh
    <3>2. Decodes(p, j)
      BY <2>1, <2>7
    <3>3. redis /\ link[p] # "off" /\ \A x \in revoked : x.by = "redis"
      BY <2>7 DEF RedisTold
    <3> HIDE DEF j
    <3>4. j \notin bl
      BY <3>2, <3>3 DEF Decodes, Blacklisted, Reach
    <3>5. \A x \in revoked : x.token # j
      BY <3>1, <3>3, <3>4 DEF RevokedKept
    <3> QED
      BY <3>5 DEF Good, j
  <2>8. CASE overlap \/ faulty
    BY <2>6, <2>8 DEF SerialInv
  <2>9. CASE ~ overlap /\ ~ faulty
    <3>1. RedisTold
      BY <2>9 DEF SerialInv, Serial
    <3>2. Open(r) /\ (RedisTold => RedisTold')
      BY <1>e, <2>1, <2>6
    <3> QED
      BY <1>d, <2>5, <2>6, <2>7, <3>1, <3>2
  <2> QED
    BY <2>8, <2>9
<1>8. ASSUME NEW r \in Requests, RevokeNext(r)
      PROVE  SerialInv'
  <2> DEFINE q == req[r]
  <2>1. PICK j \in Issued, by \in Processes \cup {"redis"}, q1 \in Request :
          /\ q # Idle /\ RequestOK(q) /\ q.pc = "begun" /\ q.p \in Processes
          /\ j \in q.left /\ by = IF Reach(q.p) THEN "redis" ELSE q.p
          /\ Connect(q.p) /\ revoked' = revoked \cup {[token |-> j, by |-> by]}
          /\ req' = [req EXCEPT ![r] = q1] /\ q1.op = q.op /\ q1.pair = q.pair
          /\ q1.pc = IF q.left = {j} THEN "revoked" ELSE "begun"
          /\ UNCHANGED <<pairs, life, redis, online, late, faulty, cut, overlap>>
    BY <1>8, Revokes
  <2> DEFINE x1 == [token |-> j, by |-> by]
  <2>2. x1.token = j /\ x1.by = by /\ revoked' = revoked \cup {x1}
    BY <2>1
  <2>3. q.op = "refresh" => q.pair \in DOMAIN pairs /\ j = <<q.pair, "refresh">> /\ q.left = {j}
    BY <2>1 DEF RequestOK
  <2> SUFFICES ASSUME ~ overlap, ~ faulty
               PROVE  Serial'
    BY <2>1 DEF SerialInv
  <2>4. OneRequest /\ RedisTold /\ (Fresh => Chain)
    BY DEF SerialInv, Serial
  <2>5. by = "redis"
    BY <2>1, <2>4 DEF RedisTold, Reach
  <2> HIDE DEF x1
  <2>6. req'[r] = q1 /\ \A s \in Requests : s # r => req'[s] = req[s] /\ req[s] = Idle
    BY <1>0, <2>1, <2>4 DEF OneRequest
  <2>7. OneRequest'
    BY <2>6 DEF OneRequest
  <2>8. RedisTold'
    <3>1. \A o \in Processes : link'[o] # "off"
      BY <2>1, <2>4, ConnectsOn DEF RedisTold
    <3> QED
      BY <2>1, <2>2, <2>4, <2>5, <3>1 DEF RedisTold
  <2>9. \A s \in Requests : ~ Begun(s)' /\ (Spent(s)' => s = r /\ q.op = "refresh")
    BY <2>1, <2>3, <2>6 DEF Begun, Spent
  <2>10. \A n : Good(n)' => Good(n)
    BY <2>2 DEF Good
  <2>11. Fresh' => Chain'
    <3> SUFFICES ASSUME Fresh'
                 PROVE  Chain'
      OBVIOUS
    <3>1. Chain
      BY <2>1, <2>4 DEF Fresh
    <3>2. ASSUME NEW n \in DOMAIN pairs, q.op = "refresh",
                 pairs[n].login = pairs[q.pair].login
          PROVE  ~ Good(n)'
      <4>1. Begun(r)
        BY <2>1, <3>2 DEF Begun
      <4>2. Good(q.pair)
        BY <3>1, <4>1 DEF Chain
      <4>a. PICK w : w = q.pair
        OBVIOUS
      <4>3. ~ Good(w)'
        BY <2>2, <2>3, <3>2, <4>a DEF Good
      <4>4. Good(n) => n = w
        BY <2>3, <3>1, <3>2, <4>2, <4>a DEF Chain
      <4> QED
        BY <2>10, <4>3, <4>4
    <3>3. \A s \in Requests, n \in DOMAIN pairs :
            Spent(s)' /\ pairs[n].login = pairs[req'[s].pair].login => ~ Good(n)'
      BY <2>1, <2>6, <2>9, <3>2
    <3> QED
      BY <2>1, <2>9, <2>10, <3>1, <3>3 DEF Chain
  <2> QED
    BY <2>7, <2>8, <2>11 DEF Serial
<1>9. ASSUME NEW r \in Requests, IssuePair(r)
      PROVE  SerialInv'
  <2> DEFINE q == req[r]
  <2>1. PICK u \in Users, login \in 0 .. Len(pairs) :
          /\ Issue(u, login) /\ u = q.user
          /\ q # Idle /\ q.pc = "marked" /\ q.op \in {"login", "refresh"}
          /\ q.op = "login" => login = 0
          /\ q.op = "refresh" => /\ q.pair \in DOMAIN pairs
                                 /\ login = pairs[q.pair].login /\ login # 0
          /\ req' = [req EXCEPT ![r] = Idle]
          /\ UNCHANGED <<life, redis, bl, mem, link, online, revoked, late, faulty, cut, overlap>>
    BY <1>9, IssuesFor
  <2>2. req'[r] = Idle /\ \A s \in Requests : s # r => req'[s] = req[s]
    BY <1>0, <2>1
  <2>3. ASSUME ~ overlap, ~ faulty, Fresh
        PROVE  /\ \A n \in DOMAIN pairs : pairs[n].login = NewLogin(login) => ~ Good(n)
               /\ \A s \in Requests : ~ Spent(s)'
    <3>1. OneRequest /\ Chain
      BY <2>3 DEF SerialInv, Serial
    <3>2. \A s \in Requests : req'[s] = Idle
      BY <2>1, <2>2, <3>1 DEF OneRequest
    <3>3. \A s \in Requests : ~ Spent(s)'
      BY <3>2 DEF Spent
    <3>4. CASE q.op = "login"
      BY <1>b, <2>1, <3>3, <3>4
    <3>5. CASE q.op = "refresh"
      <4>1. Spent(r) /\ NewLogin(login) = pairs[q.pair].login
        BY <2>1, <3>5 DEF Spent, NewLogin
      <4> QED
        BY <3>1, <3>3, <4>1 DEF Chain
    <3> QED
      BY <2>1, <3>4, <3>5
  <2>4. \A s \in Requests : req'[s] \in {Idle, req[s]}
    BY <2>2
  <2>5. UNCHANGED <<life, redis, link, revoked, overlap, faulty>>
    BY <2>1
  <2> QED
    BY <2>1, <2>3, <2>4, <2>5, SerialIssue
<1>10. ASSUME NEW r \in Requests, FinishLogout(r) \/ Fail(r)
       PROVE  SerialInv'
  <2>1. /\ req' = [req EXCEPT ![r] = Idle]
        /\ UNCHANGED <<pairs, life, redis, link, revoked, faulty, overlap>>
    BY <1>10 DEF FinishLogout, Fail, tokenVars, redisVars
  <2>2. \A s \in Requests : req'[s] \in {Idle, req[s]}
    BY <1>0, <2>1
  <2> QED
    BY <2>1, <2>2, SerialSame
<1>14. ASSUME NEW r \in Requests, MarkOnline(r) \/ ClaimPresence(r)
       PROVE  SerialInv'
  <2>1. /\ req[r] # Idle /\ req' = [req EXCEPT ![r].pc = "marked"]
        /\ req[r].op = "refresh" => req[r].pc = "revoked"
        /\ UNCHANGED <<pairs, life, redis, link, revoked, faulty, overlap>>
    BY <1>14 DEF MarkOnline, ClaimPresence, Idle, tokenVars, redisVars
  <2>2. /\ \A s \in Requests : s # r => req'[s] = req[s]
        /\ req'[r] # Idle /\ req'[r].pc = "marked" /\ req'[r].op = req[r].op
        /\ req'[r].pair = req[r].pair
    BY <2>1, PhaseMoves
  <2>3. req[r].op = "refresh" => Spent(r)
    BY <2>1 DEF Spent
  <2> QED
    BY <2>1, <2>2, <2>3, SerialSame
<1>15. ASSUME NEW r \in Requests, TellPresence(r)
       PROVE  SerialInv'
  <2>1. /\ req[r] # Idle /\ Connect(req[r].p) /\ req' = [req EXCEPT ![r] = Idle]
        /\ UNCHANGED <<pairs, life, redis, revoked, faulty, overlap>>
    BY <1>15 DEF TellPresence, Idle, tokenVars
  <2>2. req[r].p \in Processes
    BY <2>1, RequestType
  <2>3. RedisTold => RedisTold'
    BY <1>e, <2>1, <2>2
  <2>4. \A s \in Requests : req'[s] \in {Idle, req[s]}
    BY <1>0, <2>1
  <2> SUFFICES ASSUME ~ overlap, ~ faulty
               PROVE  Serial'
    BY <2>1 DEF SerialInv
  <2>5. OneRequest /\ RedisTold /\ (Fresh => Chain)
    BY DEF SerialInv, Serial
  <2>6. OneRequest'
    BY <2>4, <2>5 DEF OneRequest
  <2>7. Fresh' => Chain'
    <3> SUFFICES ASSUME Fresh'
                 PROVE  Chain'
      OBVIOUS
    <3>1. Chain /\ pairs' = pairs
      BY <2>1, <2>5 DEF Fresh
    <3>2. \A s \in Requests : Begun(s)' => Begun(s) /\ req'[s] = req[s]
      BY <2>4 DEF Begun
    <3>3. \A s \in Requests : Spent(s)' => Spent(s) /\ req'[s] = req[s]
      BY <2>4 DEF Spent
    <3>4. \A n : Good(n)' <=> Good(n)
      BY <2>1 DEF Good
    <3> QED
      BY <3>1, <3>2, <3>3, <3>4 DEF Chain
  <2> QED
    BY <2>3, <2>5, <2>6, <2>7 DEF Serial
<1>16. ASSUME NEW p \in Processes, NEW r \in Requests, BeginLogin(r, p)
       PROVE  SerialInv'
  <2>1. PICK u \in Users : Enter(r, "login", p, u, 0, {})
    BY <1>16 DEF BeginLogin
  <2>2. 0 \in 0 .. MaxPairs /\ {} \subseteq Issued /\ "login" \in Ops
    BY BoundsAssumption DEF Ops
  <2>3. /\ \A x \in Requests : x # r => req'[x] = req[x]
        /\ req'[r].op = "login"
    BY <1>16, <2>1, <2>2, Enters
  <2>4. Open(r) /\ UNCHANGED <<pairs, life, redis, link, revoked, faulty, overlap>>
    BY <1>16 DEF BeginLogin, tokenVars, redisVars
  <2>5. RedisTold => RedisTold'
    BY <2>4 DEF RedisTold
  <2> QED
    BY <1>d, <2>3, <2>4, <2>5
<1>11. ASSUME NEW j \in Issued, Age(j)
       PROVE  SerialInv'
  <2>1. \A k \in Token : life'[k] = "valid" => life[k] = "valid"
    BY <1>0, <1>11 DEF Age
  <2>2. UNCHANGED <<pairs, revoked, overlap, faulty, redis, link, req>>
    BY <1>11 DEF Age
  <2> QED
    BY <1>0, <2>1, <2>2, SerialSame
<1>12. ASSUME NEW s \in Sockets,
              \/ SocketConnect(s) \/ SocketReady(s) \/ SocketRefused(s)
              \/ PresencePing(s) \/ Disconnect(s) \/ Leave(s)
       PROVE  SerialInv'
  <2>1. UNCHANGED <<pairs, life, redis, link, req, revoked, faulty, overlap>>
    BY <1>12
    DEF SocketConnect, SocketReady, SocketRefused, PresencePing, Disconnect, Leave, tokenVars,
        redisVars
  <2> QED
    BY <1>a, <2>1
<1>17. CASE RealtimeRestart
  <2>1. UNCHANGED <<pairs, life, redis, link, req, revoked, faulty, overlap>>
    BY <1>17 DEF RealtimeRestart, tokenVars, redisVars
  <2> QED
    BY <1>a, <2>1
<1>13. CASE UNCHANGED vars
  BY <1>13, <1>a DEF vars
<1> QED
  BY <1>1, <1>2, <1>3, <1>4, <1>5, <1>6, <1>7, <1>8, <1>9, <1>10, <1>11, <1>12, <1>13, <1>14,
     <1>15, <1>16, <1>17 DEF Next

-----------------------------------------------------------------------------
\* No pair, no request and no socket: the invariant holds at first.
LEMMA InitInv ==
  ASSUME Init
  PROVE  Inv /\ SerialInv
<1>1. pairs = <<>> /\ DOMAIN pairs = {} /\ Len(pairs) = 0 /\ news = <<>> /\ DOMAIN news = {}
  BY DEF Init
<1>2. /\ life \in [Token -> {"valid", "last", "expired"}] /\ bl = {} /\ revoked = {}
      /\ mem \in [Processes -> SUBSET Issued] /\ link \in [Processes -> {"new", "ok", "off"}]
      /\ online \in [Users -> BOOLEAN] /\ shown \in [Users -> BOOLEAN]
      /\ unsettled = {} /\ elsewhere = {}
      /\ req \in [Requests -> Request \cup {Idle}] /\ \A r \in Requests : req[r] = Idle
      /\ sockets \in [Sockets -> Socket \cup {Closed}] /\ \A s \in Sockets : sockets[s] = Closed
      /\ redis = TRUE /\ late = FALSE /\ faulty = FALSE /\ cut = FALSE /\ overlap \in BOOLEAN
      /\ \A p \in Processes : link[p] # "off"
      /\ \A u \in Users : ~ online[u] /\ ~ shown[u]
  BY DEF Init
<1>3. pairs \in Seq(Pair) /\ news \in Seq([user : Users, online : BOOLEAN])
  BY <1>1
<1>4. TypeOK
  <2>1. Len(pairs) <= MaxPairs
    BY <1>1, BoundsAssumption
  <2>2. bl \subseteq Issued /\ unsettled \subseteq Users /\ elsewhere \subseteq Users
        /\ revoked \subseteq [token : Issued, by : Processes \cup {"redis"}]
        /\ {redis, late, faulty, cut, overlap} \subseteq BOOLEAN
    BY <1>2
  <2> QED
    BY <1>2, <1>3, <2>1, <2>2 DEF TypeOK
<1>5. RequestsOK /\ SocketsOK /\ LoginsOK
  BY <1>1, <1>2 DEF RequestsOK, RequestOK, SocketsOK, LoginsOK
<1>6. RevokedKept /\ RevokedRefused /\ SessionKept
  BY <1>2 DEF RevokedKept, RevokedRefused, SessionKept
<1>7. NewsTrue
  BY <1>1, <1>2 DEF NewsTrue, LastOn
<1>8. OneRequest /\ RedisTold /\ Chain
  BY <1>1, <1>2 DEF OneRequest, RedisTold, Chain, Begun, Spent
<1> QED
  BY <1>4, <1>5, <1>6, <1>7, <1>8 DEF Inv, Shape, SerialInv, Serial

\* The invariants hold in every state of auth.py, the blacklist and server.ts,
\* whatever overlaps, restarts and outages there are.
THEOREM InvHolds == Spec => [](Inv /\ SerialInv)
<1>1. Init => Inv /\ SerialInv
  BY InitInv
<1>2. Inv /\ SerialInv /\ [Next]_vars => (Inv /\ SerialInv)'
  <2> SUFFICES ASSUME Inv, SerialInv, [Next]_vars
               PROVE  Inv' /\ SerialInv'
    OBVIOUS
  <2>1. Shape /\ RevokedKept /\ RevokedRefused /\ SessionKept /\ NewsTrue
    BY DEF Inv
  <2>2. Shape'
    BY <2>1, ShapeStep
  <2>3. RevokedKept' /\ RevokedRefused'
    BY <2>1, KnownStep
  <2>4. SessionKept' /\ NewsTrue'
    BY <2>1, SessionStep, NewsStep
  <2>5. SerialInv'
    BY <2>1, SerialStep
  <2> QED
    BY <2>2, <2>3, <2>4, <2>5 DEF Inv
<1> QED
  BY <1>1, <1>2, PTL DEF Spec

\* Tokens, requests, sockets and messages keep their types.
THEOREM TypeCorrect == Spec => []TypeOK
<1>1. Inv => TypeOK
  BY DEF Inv, Shape
<1> QED
  BY <1>1, InvHolds, PTL

\* decode_token and userFromToken accept no token that they can know to be
\* revoked.
THEOREM RevokedStaysOut == Spec => []RevokedRefused
<1>1. Inv => RevokedRefused
  BY DEF Inv
<1> QED
  BY <1>1, InvHolds, PTL

\* While no request is under way and none died halfway, a user that
\* _issue_tokens marked online has a refresh token that was not revoked.  Users
\* marked by /retailer/presence, and users a token of whom another user revoked,
\* are excepted until their next pair.
THEOREM OnlineKeepsSession == Spec => []OnlineHasSession
<1>1. Inv => OnlineHasSession
  <2> SUFFICES ASSUME SessionKept, ~ cut, Quiet, NEW u \in Users \ elsewhere, online[u]
               PROVE  \E n \in DOMAIN pairs : pairs[n].user = u /\ Good(n)
    BY DEF Inv, OnlineHasSession
  <2>1. \A r \in Requests : ~ Settling(r, u)
    BY DEF Quiet, Settling
  <2>2. Kept(u)
    BY DEF SessionKept
  <2> QED
    BY <2>1, <2>2 DEF Kept, Safe
<1> QED
  BY <1>1, InvHolds, PTL

\* The admin's screen of server.ts shows no user online without an open socket,
\* once the messages about him arrived.  Users announced by /retailer/presence,
\* by a socket that left during its check or before a message was lost are
\* excepted until they are next announced offline.
THEOREM ShownIsConnected == Spec => []ShownHasSocket
<1>1. Inv => ShownHasSocket
  <2> SUFFICES ASSUME NewsTrue, news = <<>>, NEW u \in Users \ unsettled, shown[u]
               PROVE  HasSocket(u)
    BY DEF Inv, ShownHasSocket, HasSocket
  <2>1. DOMAIN news = {}
    OBVIOUS
  <2>2. LastOn(u)
    BY <2>1 DEF LastOn
  <2> QED
    BY <2>2 DEF NewsTrue
<1> QED
  BY <1>1, InvHolds, PTL

\* refresh_tokens, one request at a time and with Redis up, leaves a login at
\* most one refresh token that was not revoked.
THEOREM ChainOfRefresh == Spec => []OneGoodRefresh
<1>1. SerialInv => OneGoodRefresh
  BY DEF SerialInv, Serial, Fresh, Chain, OneGoodRefresh
<1> QED
  BY <1>1, InvHolds, PTL
=============================================================================
