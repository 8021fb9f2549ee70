------------------------------ MODULE Sessions ------------------------------
(***************************************************************************)
(* Token pairs, their revocation and the sockets opened with them:           *)
(* auth_service auth.py (logins, refresh, logout), package/common/auth       *)
(* (jwt.py, blacklist.py, guards.py), package/redis/client.py, the presence  *)
(* call of store_ops (retailer_bff.py) and the realtime server               *)
(* (realtime/src/server.ts).                                                 *)
(*                                                                           *)
(* A revoked token is a key in Redis, or, when Redis cannot be reached, an   *)
(* entry in the memory of the process that revoked it.  A process whose      *)
(* first use of Redis fails never tries again (get_redis).  The realtime     *)
(* server looks only at Redis, and waits for it.                             *)
(*                                                                           *)
(* Tokens are named by the pair they came with; signatures always verify.    *)
(***************************************************************************)
EXTENDS Integers, Sequences, FiniteSets, Columns

CONSTANTS
  Processes,   \* API processes
  Requests,    \* request slots
  Users,
  Retailers,   \* the users with the role retailer
  Sockets,
  MaxPairs,    \* bound: token pairs issued
  MaxAged,     \* bound: tokens that grow old
  MaxNews      \* bound: presence messages under way

ASSUME ProcessesAssumption == "redis" \notin Processes
ASSUME RetailersAssumption == Retailers \subseteq Users
ASSUME BoundsAssumption == MaxPairs \in Nat /\ MaxAged \in Nat /\ MaxNews \in Nat

VARIABLES
  pairs,       \* the pairs issued: [user, login], the latter the pair the login gave
  life,        \* of each token: "valid", "last" (its last seconds) or "expired"
  redis,       \* Redis is up
  bl,          \* the tokens with a key jwt:bl:<jti> in Redis
  mem,         \* _memory of each process
  link,        \* what get_redis of each process found
  online,      \* users.is_online
  req,         \* the requests in flight
  sockets,     \* the sockets of the realtime server
  news,        \* presence messages published and not yet shown
  shown,       \* what the admin's screen shows of each user
  revoked,     \* history: tokens revoked, and who was told: Redis or a process
  late,        \* history: a token was accepted although known to be revoked
  faulty,      \* history: Redis failed
  cut,         \* history: a request died between its steps
  elsewhere,   \* history: users whom /retailer/presence marked online or a token
               \* of whom another user revoked, since they last got a pair
  unsettled,   \* history: users announced online without a socket, or not
               \* announced offline, since they last were announced offline
  overlap      \* whether requests overlap in this behaviour; never changes

tokenVars == <<pairs, life>>
redisVars == <<redis, bl, mem, link>>
socketVars == <<sockets, news, shown, unsettled>>
vars == <<pairs, life, redis, bl, mem, link, online, req, sockets, news, shown,
          revoked, late, faulty, cut, elsewhere, unsettled, overlap>>

Token == (1 .. MaxPairs) \X {"access", "refresh"}
Issued == {j \in Token : j[1] \in DOMAIN pairs}
Pair == [user : Users, login : 1 .. MaxPairs]

Ops == {"login", "refresh", "logout", "online", "offline"}

\* pair: 0 where there is none; left: the tokens still to blacklist; was:
\* is_online of the user as the request read it.
Request == [pc : {"begun", "revoked", "marked"}, op : Ops, p : Processes, user : Users,
            pair : 0 .. MaxPairs, left : SUBSET Token, was : BOOLEAN]
Idle == [pc |-> "idle"]
Socket == [st : {"checking", "ready"}, token : Token]
Closed == [st |-> "closed"]

Init ==
  /\ pairs = <<>>
  /\ life = [j \in Token |-> "valid"]
  /\ redis = TRUE
  /\ bl = {}
  /\ mem = [p \in Processes |-> {}]
  /\ link = [p \in Processes |-> "new"]
  /\ online = [u \in Users |-> FALSE]
  /\ req = [r \in Requests |-> Idle]
  /\ sockets = [s \in Sockets |-> Closed]
  /\ news = <<>>
  /\ shown = [u \in Users |-> FALSE]
  /\ revoked = {}
  /\ late = FALSE
  /\ faulty = FALSE
  /\ cut = FALSE
  /\ elsewhere = {}
  /\ unsettled = {}
  /\ overlap \in BOOLEAN

-----------------------------------------------------------------------------
(***************************************************************************)
(* package/redis/client.py and package/common/auth.                          *)
(***************************************************************************)
Reach(p) == redis /\ link[p] # "off"

Connect(p) ==
  link' = [link EXCEPT ![p] = IF @ # "new" THEN @ ELSE IF redis THEN "ok" ELSE "off"]

\* is_blacklisted
Blacklisted_RedisOnly(p, j) == Reach(p) /\ j \in bl
Blacklisted(p, j) == (Reach(p) /\ j \in bl) \/ j \in mem[p]

\* decode_token.  The lifetime of a key is cut to whole seconds, so that it
\* may go before its token does (KeyGone).
Decodes(p, j) == life[j] # "expired" /\ ~ Blacklisted(p, j)

\* blacklist_token: nothing is written for a token with less than a second
\* to live.
BlacklistToken_Skipped(p, j) == UNCHANGED <<bl, mem>>
BlacklistToken_Memory(p, j) ==
  /\ mem' = [mem EXCEPT ![p] = @ \cup {j}]
  /\ UNCHANGED bl
BlacklistToken(p, j) ==
  LET kept == life[j] = "valid"
  IN  /\ bl' = IF kept /\ Reach(p) THEN bl \cup {j} ELSE bl
      /\ mem' = IF kept /\ ~ Reach(p) THEN [mem EXCEPT ![p] = @ \cup {j}] ELSE mem

\* Whether process p has to know that j was revoked: it wrote that down
\* itself, or reaches the Redis that was told.  A token is owed nothing in
\* its last seconds.
Known(p, j) ==
  /\ life[j] = "valid"
  /\ \E x \in revoked : x.token = j /\ (x.by = p \/ (x.by = "redis" /\ Reach(p)))

-----------------------------------------------------------------------------
Quiet == \A r \in Requests : req[r] = Idle
Open(r) == req[r] = Idle /\ (overlap \/ Quiet)

\* The login a new pair descends from; 0 begins one.
NewLogin(login) == IF login = 0 THEN Len(pairs) + 1 ELSE login

\* create_token_pair
Issue(u, login) ==
  /\ Len(pairs) < MaxPairs
  /\ pairs' = Append(pairs, [user |-> u, login |-> NewLogin(login)])
  /\ elsewhere' = elsewhere \ {u}

Enter(r, op, p, u, n, left) ==
  req' = [req EXCEPT ![r] = [pc |-> "begun", op |-> op, p |-> p, user |-> u, pair |-> n,
                             left |-> left, was |-> online[u]]]

\* Any login has found its user.
BeginLogin(r, p) ==
  /\ Open(r)
  /\ \E u \in Users : Enter(r, "login", p, u, 0, {})
  /\ UNCHANGED <<tokenVars, redisVars, online, socketVars, revoked, late, faulty, cut,
                 elsewhere, overlap>>

\* guest_login makes a user, and marks no one online.
GuestLogin ==
  \E u \in Users :
    /\ \A n \in DOMAIN pairs : pairs[n].user # u
    /\ Issue(u, 0)
    /\ UNCHANGED <<life, redisVars, online, req, socketVars, revoked, late, faulty, cut,
                   overlap>>

\* require_access_token of any other call.
ApiCall(p) ==
  \E j \in Issued :
    /\ j[2] = "access"
    /\ Decodes(p, j)
    /\ late' = (late \/ Known(p, j))
    /\ Connect(p)
    /\ UNCHANGED <<tokenVars, redis, bl, mem, online, req, socketVars, revoked, faulty, cut,
                   elsewhere, overlap>>

\* The tokens a request is to revoke: the body of /logout may name one more,
\* of whatever pair and user.
ToRevoke(op, j) ==
  IF op = "refresh" THEN {{j}}
  ELSE IF op = "logout" THEN {{j}} \cup {{j, k} : k \in Issued}
  ELSE {{}}

\* The check that refresh_tokens, /logout and /retailer/presence begin with.
Begin(r, p, op) ==
  \E n \in DOMAIN pairs :
    LET j == <<n, IF op = "refresh" THEN "refresh" ELSE "access">>
        u == pairs[n].user
    IN  /\ Open(r)
        /\ Decodes(p, j)
        /\ op \in {"online", "offline"} => u \in Retailers
        /\ late' = (late \/ Known(p, j))
        /\ Connect(p)
        /\ \E left \in ToRevoke(op, j) : Enter(r, op, p, u, n, left)
        /\ UNCHANGED <<tokenVars, redis, bl, mem, online, socketVars, revoked, faulty, cut,
                       elsewhere, overlap>>

\* The access token of the call comes first.
NextToken(q) ==
  IF <<q.pair, "access">> \in q.left THEN <<q.pair, "access">> ELSE CHOOSE k \in q.left : TRUE

\* blacklist_token takes any token with a signature, whoever's it is.
RevokeNext(r) ==
  LET q == req[r]
      j == NextToken(q)
      owner == pairs[j[1]].user
  IN  /\ q.pc = "begun" /\ q.left # {}
      /\ BlacklistToken(q.p, j) /\ Connect(q.p)
      /\ revoked' = revoked \cup {[token |-> j, by |-> IF Reach(q.p) THEN "redis" ELSE q.p]}
      /\ elsewhere' = IF owner = q.user THEN elsewhere ELSE elsewhere \cup {owner}
      /\ req' = [req EXCEPT ![r] = [q EXCEPT !.left = q.left \ {j},
                                             !.pc = IF q.left = {j} THEN "revoked" ELSE "begun"]]
      /\ UNCHANGED <<tokenVars, redis, online, socketVars, late, faulty, cut, overlap>>

\* presence.set_online and set_offline commit is_online where it differs from
\* what the request had read.
SetOnline(q) == online' = [online EXCEPT ![q.user] = Flush(@, q.was, TRUE)]
SetOffline_Skipped(q) == UNCHANGED online
SetOffline(q) == online' = [online EXCEPT ![q.user] = Flush(@, q.was, FALSE)]

\* _issue_tokens: first is_online, then the pair.
MarkOnline(r) ==
  LET q == req[r]
  IN  /\ \/ q.pc = "begun" /\ q.op = "login"
         \/ q.pc = "revoked" /\ q.op = "refresh"
      /\ SetOnline(q)
      /\ req' = [req EXCEPT ![r].pc = "marked"]
      /\ UNCHANGED <<tokenVars, redisVars, socketVars, revoked, late, faulty, cut, elsewhere,
                     overlap>>

IssuePair(r) ==
  LET q == req[r]
  IN  /\ q.pc = "marked" /\ q.op \in {"login", "refresh"}
      /\ Issue(q.user, IF q.op = "login" THEN 0 ELSE pairs[q.pair].login)
      /\ req' = [req EXCEPT ![r] = Idle]
      /\ UNCHANGED <<life, redisVars, online, socketVars, revoked, late, faulty, cut, overlap>>

FinishLogout(r) ==
  LET q == req[r]
  IN  /\ q.pc = "revoked" /\ q.op = "logout"
      /\ SetOffline(q)
      /\ req' = [req EXCEPT ![r] = Idle]
      /\ UNCHANGED <<tokenVars, redisVars, socketVars, revoked, late, faulty, cut, elsewhere,
                     overlap>>

\* /retailer/presence commits is_online either way.
ClaimPresence(r) ==
  LET q == req[r]
  IN  /\ q.pc = "begun" /\ q.op \in {"online", "offline"}
      /\ IF q.op = "online" THEN SetOnline(q) ELSE SetOffline(q)
      /\ elsewhere' = IF q.op = "online" THEN elsewhere \cup {q.user} ELSE elsewhere
      /\ req' = [req EXCEPT ![r].pc = "marked"]
      /\ UNCHANGED <<tokenVars, redisVars, socketVars, revoked, late, faulty, cut, overlap>>

\* What lies between the commits of a request.
Halfway(q) == q.op \in {"login", "refresh", "logout"} /\ q.pc \in {"revoked", "marked"}

\* A request fails, or its caller never gets the answer.
Fail(r) ==
  /\ req[r] # Idle
  /\ req' = [req EXCEPT ![r] = Idle]
  /\ cut' = (cut \/ Halfway(req[r]))
  /\ UNCHANGED <<tokenVars, redisVars, online, socketVars, revoked, late, faulty, elsewhere,
                 overlap>>

\* A process restarts: its memory and its requests are gone, and with the
\* memory what it wrote down for itself.
Restart(p) ==
  LET dying == {r \in Requests : req[r] # Idle /\ req[r].p = p}
  IN  /\ mem' = [mem EXCEPT ![p] = {}]
      /\ link' = [link EXCEPT ![p] = "new"]
      /\ req' = [r \in Requests |-> IF r \in dying THEN Idle ELSE req[r]]
      /\ revoked' = {x \in revoked : x.by # p}
      /\ cut' = (cut \/ \E r \in dying : Halfway(req[r]))
      /\ UNCHANGED <<tokenVars, redis, bl, online, socketVars, late, faulty, elsewhere, overlap>>

\* Time passes for a token: its last seconds begin, or they end.  Its key may
\* be gone as soon as they begin.
Age(j) ==
  /\ \/ /\ life[j] = "valid"
        /\ Cardinality({k \in Token : life[k] # "valid"}) < MaxAged
        /\ life' = [life EXCEPT ![j] = "last"]
        /\ bl' \in {bl, bl \ {j}}
     \/ /\ life[j] = "last"
        /\ life' = [life EXCEPT ![j] = "expired"]
        /\ bl' = bl \ {j}
  /\ UNCHANGED <<pairs, redis, mem, link, online, req, socketVars, revoked, late, faulty, cut,
                 elsewhere, overlap>>

RedisDown ==
  /\ redis
  /\ redis' = FALSE
  /\ faulty' = TRUE
  /\ UNCHANGED <<tokenVars, bl, mem, link, online, req, socketVars, revoked, late, cut,
                 elsewhere, overlap>>

\* It comes back with its keys or without.  The realtime server sends what it
\* had to publish before or after it is subscribed again: then a message is
\* lost.
RedisUp ==
  /\ ~ redis
  /\ redis' = TRUE
  /\ \/ UNCHANGED <<bl, revoked>>
     \/ bl' = {} /\ revoked' = {x \in revoked : x.by # "redis"}
  /\ \/ UNCHANGED <<news, unsettled>>
     \/ /\ news' = <<>>
        /\ unsettled' = unsettled \cup {news[i].user : i \in DOMAIN news}
  /\ UNCHANGED <<tokenVars, mem, link, online, req, sockets, shown, late, faulty, cut,
                 elsewhere, overlap>>

-----------------------------------------------------------------------------
(***************************************************************************)
(* realtime/src/server.ts                                                    *)
(***************************************************************************)
SocketUser(s) == pairs[sockets[s].token[1]].user

\* publishPresence
Publish(u, on) ==
  /\ Len(news) < MaxNews
  /\ news' = Append(news, [user |-> u, online |-> on])

SocketConnect(s) ==
  /\ sockets[s] = Closed
  /\ \E j \in Issued :
       /\ j[2] = "access" /\ life[j] # "expired"
       /\ sockets' = [sockets EXCEPT ![s] = [st |-> "checking", token |-> j]]
  /\ UNCHANGED <<tokenVars, redisVars, online, req, news, shown, revoked, late, faulty, cut,
                 elsewhere, unsettled, overlap>>

\* userFromToken answers; the check may end after the socket is gone (Leave).
SocketReady(s) ==
  LET j == sockets[s].token
  IN  /\ sockets[s].st = "checking"
      /\ redis
      /\ j \notin bl
      /\ sockets' = [sockets EXCEPT ![s].st = "ready"]
      /\ Publish(SocketUser(s), TRUE)
      /\ late' = \/ late
                 \/ life[j] = "valid" /\ \E x \in revoked : x = [token |-> j, by |-> "redis"]
      /\ UNCHANGED <<tokenVars, redisVars, online, req, shown, revoked, faulty, cut,
                     elsewhere, unsettled, overlap>>

\* A refused token: the socket stays, without a user and without rooms.
SocketRefused(s) ==
  /\ sockets[s].st = "checking"
  /\ redis /\ sockets[s].token \in bl
  /\ sockets' = [sockets EXCEPT ![s] = Closed]
  /\ UNCHANGED <<tokenVars, redisVars, online, req, news, shown, revoked, late, faulty, cut,
                 elsewhere, unsettled, overlap>>

PresencePing(s) ==
  /\ sockets[s].st = "ready"
  /\ Publish(SocketUser(s), TRUE)
  /\ UNCHANGED <<tokenVars, redisVars, online, req, sockets, shown, revoked, late, faulty, cut,
                 elsewhere, unsettled, overlap>>

\* disconnect of a socket with a user
OfflineNews_Skipped(s) == UNCHANGED news
OfflineNews(s) == Publish(SocketUser(s), FALSE)

Disconnect(s) ==
  /\ sockets[s].st = "ready"
  /\ OfflineNews(s)
  /\ unsettled' = unsettled \ {SocketUser(s)}
  /\ sockets' = [sockets EXCEPT ![s] = Closed]
  /\ UNCHANGED <<tokenVars, redisVars, online, req, shown, revoked, late, faulty, cut,
                 elsewhere, overlap>>

\* disconnect before the check has ended: nothing is published, and when it
\* ends well the user is announced although the socket is gone.
Leave(s) ==
  /\ sockets[s].st = "checking"
  /\ sockets' = [sockets EXCEPT ![s] = Closed]
  /\ \/ UNCHANGED <<news, unsettled>>
     \/ /\ redis /\ sockets[s].token \notin bl
        /\ Publish(SocketUser(s), TRUE)
        /\ unsettled' = unsettled \cup {SocketUser(s)}
  /\ UNCHANGED <<tokenVars, redisVars, online, req, shown, revoked, late, faulty, cut,
                 elsewhere, overlap>>

\* emit_presence of /retailer/presence, without a socket.  The message is lost
\* where Redis is not reached or no one listens.
TellPresence(r) ==
  LET q == req[r]
      on == q.op = "online"
  IN  /\ q.pc = "marked" /\ q.op \in {"online", "offline"}
      /\ Connect(q.p)
      /\ \/ UNCHANGED <<news, unsettled>>
         \/ /\ Reach(q.p)
            /\ Publish(q.user, on)
            /\ unsettled' = IF on THEN unsettled \cup {q.user} ELSE unsettled \ {q.user}
      /\ req' = [req EXCEPT ![r] = Idle]
      /\ UNCHANGED <<tokenVars, redis, bl, mem, online, sockets, shown, revoked, late, faulty,
                     cut, elsewhere, overlap>>

\* The realtime server restarts: its sockets close, and what it had to publish
\* or to hand on is lost.
RealtimeRestart ==
  /\ sockets' = [s \in Sockets |-> Closed]
  /\ news' = <<>>
  /\ unsettled' = unsettled \cup {SocketUser(s) : s \in {t \in Sockets : sockets[t].st = "ready"}}
                            \cup {news[i].user : i \in DOMAIN news}
  /\ UNCHANGED <<tokenVars, redisVars, online, req, shown, revoked, late, faulty, cut,
                 elsewhere, overlap>>

\* The message passes through Redis to the sockets of the admins.
ShowNews ==
  /\ redis /\ news # <<>>
  /\ shown' = [shown EXCEPT ![Head(news).user] = Head(news).online]
  /\ news' = Tail(news)
  /\ UNCHANGED <<tokenVars, redisVars, online, req, sockets, revoked, late, faulty, cut,
                 elsewhere, unsettled, overlap>>

Next ==
  \/ GuestLogin \/ RedisDown \/ RedisUp \/ RealtimeRestart \/ ShowNews
  \/ \E p \in Processes :
       \/ ApiCall(p) \/ Restart(p)
       \/ \E r \in Requests :
            \/ BeginLogin(r, p)
            \/ \E op \in Ops \ {"login"} : Begin(r, p, op)
  \/ \E r \in Requests :
       \/ RevokeNext(r) \/ MarkOnline(r) \/ IssuePair(r) \/ FinishLogout(r)
       \/ ClaimPresence(r) \/ TellPresence(r) \/ Fail(r)
  \/ \E j \in Issued : Age(j)
  \/ \E s \in Sockets :
       \/ SocketConnect(s) \/ SocketReady(s) \/ SocketRefused(s)
       \/ PresencePing(s) \/ Disconnect(s) \/ Leave(s)

Spec == Init /\ [][Next]_vars

-----------------------------------------------------------------------------
\* Token pairs, the blacklist, the session registry and the sockets hold
\* only values auth.py and server.ts write.
TypeOK ==
  /\ pairs \in Seq(Pair) /\ Len(pairs) <= MaxPairs
  /\ life \in [Token -> {"valid", "last", "expired"}]
  /\ bl \subseteq Issued
  /\ mem \in [Processes -> SUBSET Issued]
  /\ link \in [Processes -> {"new", "ok", "off"}]
  /\ online \in [Users -> BOOLEAN] /\ shown \in [Users -> BOOLEAN]
  /\ req \in [Requests -> Request \cup {Idle}]
  /\ sockets \in [Sockets -> Socket \cup {Closed}]
  /\ news \in Seq([user : Users, online : BOOLEAN])
  /\ revoked \subseteq [token : Issued, by : Processes \cup {"redis"}]
  /\ {redis, late, faulty, cut, overlap} \subseteq BOOLEAN
  /\ elsewhere \subseteq Users /\ unsettled \subseteq Users

\* A revoked token opens nothing: no API call, refresh, logout or socket is
\* let in with it by a process that can know, whatever restarts, outages and
\* overlaps there were.  (blacklist.py; a process that cannot reach Redis
\* knows only its own revocations, and the last seconds of a token are open.)
RevokedRefused == ~ late

\* The refresh tokens of one login form a chain of which at most the last is
\* good: one request at a time, with Redis up, a login never has two (except
\* that a token in its last second can be exchanged again and again).
Good(n) == \A x \in revoked : x.token # <<n, "refresh">>
OneGoodRefresh ==
  ~ overlap /\ ~ faulty =>
    \A m, n \in DOMAIN pairs :
      (/\ pairs[m].login = pairs[n].login
       /\ Good(m) /\ Good(n)
       /\ \A k \in DOMAIN pairs : life[<<k, "refresh">>] = "valid") => m = n

\* A user whom a login or a refresh marked online still has a refresh token:
\* _issue_tokens ends in a pair, and whoever revokes a token of his own gets the
\* next pair or is marked offline, also where stale reads keep set_offline from
\* writing.  Excepted are requests that died between their steps, users marked
\* by /retailer/presence, and users a token of whom another user named at
\* /logout.
OnlineHasSession ==
  ~ cut /\ Quiet =>
    \A u \in Users \ elsewhere :
      online[u] => \E n \in DOMAIN pairs : pairs[n].user = u /\ Good(n)

\* Once the messages have arrived, a user the admin sees online has an open
\* socket of server.ts, unless, since he was last announced offline, the
\* presence call announced him, a socket left during its check, a message was
\* lost or the realtime server restarted.
ShownHasSocket ==
  news = <<>> =>
    \A u \in Users \ unsettled :
      shown[u] => \E s \in Sockets : sockets[s].st = "ready" /\ SocketUser(s) = u
=============================================================================
