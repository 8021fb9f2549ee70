---------------------------- MODULE WalletProofs ----------------------------
(***************************************************************************)
(* For every set of users, amounts and overlapping requests: a wallet holds *)
(* no more than its transactions, but for the rounding of uneven amounts,   *)
(* points no more than a tenth of the money added, and referral rewards are *)
(* paired with bonuses; and in executions without overlap the wallet is the *)
(* sum of its transactions, but for that rounding.                          *)
(***************************************************************************)
EXTENDS Wallet, FiniteSetTheorems, TLAPS

-----------------------------------------------------------------------------
(***************************************************************************)
(* The arithmetic of rounding.  Above: more than the transactions by no     *)
(* more than the rounding of n amounts; Near: either way.                   *)
(***************************************************************************)
Above(b, l, n) == 2 * (b - l) <= Slack(n)
Near(b, l, n) == Above(b, l, n) /\ 2 * (l - b) <= Slack(n)

\* Quotient and remainder of an amount in paise.
LEMMA Division ==
  ASSUME NEW x \in Nat
  PROVE  /\ x = (Paisa * (x \div Paisa)) + (x % Paisa)
         /\ x \div Paisa \in Nat /\ x % Paisa \in Nat /\ x % Paisa < Paisa /\ x % Paisa <= x
<1>1. x = (Paisa * (x \div Paisa)) + (x % Paisa) /\ x % Paisa \in 0 .. Paisa - 1
  BY PaisaAssumption
<1>2. x \div Paisa \in Nat
  BY PaisaAssumption
<1>3. Paisa * (x \div Paisa) \in Nat
  BY <1>2, PaisaAssumption
<1> QED
  BY <1>1, <1>2, <1>3, PaisaAssumption

\* Multiples of a paisa are whole.
LEMMA Multiples == \A k \in Nat : Paisa * k \in Nat /\ Whole(Paisa * k)
  BY PaisaAssumption DEF Whole

\* Whole amounts add up to whole amounts.
LEMMA WholeSum ==
  ASSUME NEW x \in Nat, NEW y \in Nat, Whole(x), Whole(y)
  PROVE  Whole(x + y)
<1> DEFINE k == x \div Paisa
           m == y \div Paisa
<1>1. x = Paisa * k /\ y = Paisa * m /\ k \in Nat /\ m \in Nat
  <2>1. /\ x = (Paisa * k) + (x % Paisa) /\ x % Paisa = 0 /\ k \in Nat
        /\ y = (Paisa * m) + (y % Paisa) /\ y % Paisa = 0 /\ m \in Nat
    BY Division DEF Whole
  <2> HIDE DEF k, m
  <2>2. Paisa * k \in Nat /\ Paisa * m \in Nat
    BY <2>1, Multiples
  <2> QED
    BY <2>1, <2>2
<1>2. Whole(Paisa * (k + m))
  BY <1>1, Multiples
<1> HIDE DEF k, m
<1>3. x + y = Paisa * (k + m)
  BY <1>1, PaisaAssumption
<1> QED
  BY <1>2, <1>3

\* Nothing is a whole amount.
LEMMA WholeZero == Whole(0)
  BY PaisaAssumption DEF Whole

\* A rounded balance is whole and at most half a paisa off, and a whole one
\* is left as it is.
LEMMA RoundedIs ==
  ASSUME NEW x \in Nat, NEW y \in Rounded(x)
  PROVE  /\ y \in Nat /\ Whole(y)
         /\ 2 * (y - x) <= Paisa /\ 2 * (x - y) <= Paisa
         /\ Whole(x) => y = x
<1> DEFINE k == x \div Paisa
           d == x % Paisa
<1>1. x = (Paisa * k) + d /\ k \in Nat /\ d \in Nat /\ d < Paisa
  BY Division
<1>2. y = x - d \/ y = x - d + Paisa
  BY DEF Rounded, Neighbours
<1>3. 2 * (y - x) <= Paisa /\ 2 * (x - y) <= Paisa
  BY DEF Rounded
<1>4. Whole(x) => d = 0
  BY DEF Whole
<1>5. Paisa * k \in Nat /\ Whole(Paisa * k) /\ Whole(Paisa * (k + 1))
  BY <1>1, Multiples
<1> HIDE DEF k, d
<1>6. Paisa * (k + 1) = (Paisa * k) + Paisa
  BY <1>1, PaisaAssumption
<1> DEFINE z == Paisa * k
<1>7. x - d = z /\ z \in Nat /\ Whole(z) /\ Whole(z + Paisa)
  BY <1>1, <1>5, <1>6, PaisaAssumption
<1> HIDE DEF z
<1>8. y = z \/ y = z + Paisa
  BY <1>2, <1>7
<1> QED
  BY <1>1, <1>3, <1>4, <1>7, <1>8, PaisaAssumption

\* The slack of several amounts is the sum of theirs.
LEMMA SlackSum ==
  ASSUME NEW m \in Nat, NEW n \in Nat
  PROVE  Slack(m) \in Nat /\ Slack(m + n) = Slack(m) + Slack(n)
  BY PaisaAssumption DEF Slack

\* A transaction or two more do no harm.
LEMMA AboveStays ==
  ASSUME NEW b \in Int, NEW l \in Nat, NEW l2 \in Nat, NEW n \in Nat, NEW n2 \in Nat,
         l <= l2, n <= n2, Above(b, l, n)
  PROVE  Above(b, l2, n2)
<1>1. n2 - n \in Nat /\ n2 = n + (n2 - n)
  OBVIOUS
<1>2. Slack(n2) = Slack(n) + Slack(n2 - n) /\ Slack(n2 - n) \in Nat /\ Slack(n) \in Nat
  BY <1>1, SlackSum
<1> QED
  BY <1>2 DEF Above

\* A credit written as the rounded sum keeps both bounds.
LEMMA CreditIs ==
  ASSUME NEW b \in Nat, Whole(b), NEW a \in Nat, NEW y \in Rounded(b + a),
         NEW l \in Nat, NEW n \in Nat
  PROVE  /\ y \in Nat /\ Whole(y)
         /\ Above(b, l, n) => Above(y, l + a, n + Uneven(a))
         /\ Near(b, l, n) => Near(y, l + a, n + Uneven(a))
<1>1. /\ y \in Nat /\ Whole(y)
      /\ 2 * (y - (b + a)) <= Paisa /\ 2 * ((b + a) - y) <= Paisa
      /\ Whole(b + a) => y = b + a
  BY RoundedIs
<1>2. Uneven(a) \in Nat /\ (Uneven(a) = IF Whole(a) THEN 0 ELSE 1)
  BY DEF Uneven
<1>3. Slack(n) \in Nat /\ Slack(n + Uneven(a)) = Slack(n) + Slack(Uneven(a))
  BY <1>2, SlackSum
<1>4. Slack(0) = 0 /\ Slack(1) = Paisa
  BY PaisaAssumption DEF Slack
<1>5. 2 * (y - (b + a)) <= Slack(Uneven(a)) /\ 2 * ((b + a) - y) <= Slack(Uneven(a))
  <2>1. CASE Whole(a)
    <3>1. y = b + a
      BY <1>1, <2>1, WholeSum
    <3> QED
      BY <1>1, <1>2, <1>4, <2>1, <3>1
  <2>2. CASE ~ Whole(a)
    BY <1>1, <1>2, <1>4, <2>2
  <2> QED
    BY <2>1, <2>2
<1>6. Slack(Uneven(a)) \in Nat
  BY <1>2, SlackSum
<1> QED
  BY <1>1, <1>3, <1>5, <1>6 DEF Above, Near

\* Ten rupees are a positive amount.
LEMMA TenIsNat == Ten \in Nat \ {0}
  BY PaisaAssumption DEF Ten

\* The points of an amount are worth at most the amount.
LEMMA PointsBound ==
  ASSUME NEW a \in Nat
  PROVE  Points(a) \in Nat /\ Points(a) * Ten <= a
  BY PaisaAssumption DEF Points, Ten

\* Points are worth the sum of their worths.
LEMMA Worths ==
  ASSUME NEW p \in Nat, NEW k \in Nat
  PROVE  (p + k) * Ten = (p * Ten) + (k * Ten) /\ p * Ten \in Nat /\ k * Ten \in Nat
  BY TenIsNat

\* The amounts are numbers.
LEMMA AmountIsNat == Amounts \subseteq Nat /\ Reward \in Nat
<1>1. 100 * Paisa \in Nat /\ 5000000 * Paisa \in Nat
  BY PaisaAssumption
<1> QED
  BY <1>1, AmountsAssumption

-----------------------------------------------------------------------------
(***************************************************************************)
(* The inductive invariant.  A commit writes the balance, the points and    *)
(* the count its request read plus something, so the bounds must hold of    *)
(* every snapshot in flight, against sums that only grow: led, un, add, rew *)
(* for ledger, uneven, added and rewards.                                   *)
(***************************************************************************)
ReqOK(q, led, un, add, rew) ==
  q # Idle =>
    /\ q.op = "add" => q.pc # "second"
    /\ q.op = "refer" =>
         /\ q.pc # "loyalty"
         /\ q.first # q.owner /\ q.second = q.owner
         /\ q.cnt <= rew[q.owner]
    /\ q.pc \in {"second", "loyalty"} => q.held
    /\ q.pc # "first" => Whole(q.bal1) /\ Above(q.bal1, led[q.first], un[q.first])
    /\ q.pc = "last" /\ q.op = "refer" =>
         Whole(q.bal2) /\ Above(q.bal2, led[q.second], un[q.second])
    /\ q.pc = "last" /\ q.op = "add" =>
         (q.pts * Ten) + (IF q.held THEN 0 ELSE q.amt) <= add[q.first]

RequestsOK == \A r \in Requests : ReqOK(req[r], ledger, uneven, added, rewards)

\* A referral whose first half is committed: the bonus is booked, the reward
\* is not yet.
Halfway(q, o) == q.pc = "last" /\ q.op = "refer" /\ ~ q.held /\ q.owner = o
HalfwayFor(rq, o) == {r \in Requests : Halfway(rq[r], o)}

\* Bonuses are ahead of rewards by the referrals that are halfway, or more:
\* some of them died there.
BonusesAhead ==
  \A o \in Users : rewards[o] + Cardinality(HalfwayFor(req, o)) <= bonuses[o]

CountsRewarded == \A o \in Users : count[o] <= rewards[o]

\* A balance is whole and no more than its transactions.
BackedBy(b, l, n) == b # None => Whole(b) /\ Above(b, l, n)
BalancesBacked == \A u \in Users : BackedBy(balance[u], ledger[u], uneven[u])
PointsBacked == \A u \in Users : points[u] * Ten <= added[u]

Inv ==
  /\ TypeOK
  /\ RequestsOK
  /\ BalancesBacked
  /\ PointsBacked
  /\ CountsRewarded
  /\ BonusesAhead

-----------------------------------------------------------------------------
\* A request in flight, field by field.
LEMMA Shape ==
  ASSUME Inv, NEW r \in Requests, req[r] # Idle
  PROVE  /\ req[r] \in Request
         /\ req[r].pc \in {"first", "second", "loyalty", "last"}
         /\ req[r].op \in {"add", "refer"}
         /\ req[r].first \in Users /\ req[r].second \in Users /\ req[r].owner \in Users
         /\ req[r].amt \in Nat /\ req[r].bal1 \in Nat /\ req[r].bal2 \in Nat
         /\ req[r].pts \in Nat /\ req[r].cnt \in Nat
         /\ req[r].held \in BOOLEAN
         /\ ReqOK(req[r], ledger, uneven, added, rewards)
  BY DEF Inv, TypeOK, RequestsOK, Request

\* What a commit only adds to.
Grows ==
  /\ ledger' \in [Users -> Nat] /\ uneven' \in [Users -> Nat]
  /\ added' \in [Users -> Nat] /\ rewards' \in [Users -> Nat]
  /\ \A u \in Users : /\ ledger[u] <= ledger'[u] /\ uneven[u] <= uneven'[u]
                       /\ added[u] <= added'[u] /\ rewards[u] <= rewards'[u]

\* One request moves on, the others keep what they read.
LEMMA RequestsStay ==
  ASSUME Inv, Grows, NEW r \in Requests, NEW q \in Request \cup {Idle},
         req' = [req EXCEPT ![r] = q], ReqOK(q, ledger', uneven', added', rewards')
  PROVE  /\ req' \in [Requests -> Request \cup {Idle}]
         /\ RequestsOK'
<1>1. req' \in [Requests -> Request \cup {Idle}]
  BY DEF Inv, TypeOK
<1>2. ASSUME NEW s \in Requests
      PROVE  ReqOK(req'[s], ledger', uneven', added', rewards')
  <2>1. CASE s = r
    BY <2>1 DEF Inv, TypeOK
  <2>2. CASE s # r /\ req[s] # Idle
    <3>1. req'[s] = req[s]
      BY <2>2 DEF Inv, TypeOK
    <3>2. /\ added[req[s].first] <= added'[req[s].first]
          /\ rewards[req[s].owner] <= rewards'[req[s].owner]
          /\ added[req[s].first] \in Nat /\ rewards[req[s].owner] \in Nat
          /\ added'[req[s].first] \in Nat /\ rewards'[req[s].owner] \in Nat
      BY <2>2, Shape DEF Grows, Inv, TypeOK
    <3>3. \A u \in Users : \A b \in Nat :
            Above(b, ledger[u], uneven[u]) => Above(b, ledger'[u], uneven'[u])
      BY AboveStays DEF Grows, Inv, TypeOK
    <3>4. req[s].pts * Ten \in Nat
      BY <2>2, Shape, TenIsNat
    <3> QED
      BY <2>2, <3>1, <3>2, <3>3, <3>4, Shape DEF ReqOK
  <2>3. CASE s # r /\ req[s] = Idle
    BY <2>3 DEF Inv, TypeOK, ReqOK
  <2> QED
    BY <2>1, <2>2, <2>3
<1> QED
  BY <1>1, <1>2 DEF RequestsOK

\* How the number of halfway referrals follows one request.
LEMMA HalfwayCount ==
  ASSUME Inv, NEW r \in Requests, NEW q, req' = [req EXCEPT ![r] = q], NEW o \in Users
  PROVE  /\ Cardinality(HalfwayFor(req, o)) \in Nat /\ Cardinality(HalfwayFor(req', o)) \in Nat
         /\ ~ Halfway(q, o) => Cardinality(HalfwayFor(req', o)) <= Cardinality(HalfwayFor(req, o))
         /\ ~ Halfway(q, o) /\ Halfway(req[r], o)
              => Cardinality(HalfwayFor(req', o)) = Cardinality(HalfwayFor(req, o)) - 1
         /\ Cardinality(HalfwayFor(req', o)) <= Cardinality(HalfwayFor(req, o)) + 1
<1>1. IsFiniteSet(HalfwayFor(req, o))
  BY RequestsAssumption, FS_Subset DEF HalfwayFor
<1>2. HalfwayFor(req', o) = IF Halfway(q, o) THEN HalfwayFor(req, o) \cup {r}
                            ELSE HalfwayFor(req, o) \ {r}
  BY DEF HalfwayFor, Inv, TypeOK
<1>3. r \in HalfwayFor(req, o) <=> Halfway(req[r], o)
  BY DEF HalfwayFor
<1>4. Cardinality(HalfwayFor(req, o)) \in Nat
  BY <1>1, FS_CardinalityType
<1>5. Cardinality(HalfwayFor(req, o) \cup {r})
        = IF r \in HalfwayFor(req, o) THEN Cardinality(HalfwayFor(req, o))
          ELSE Cardinality(HalfwayFor(req, o)) + 1
  BY <1>1, FS_AddElement
<1>6. Cardinality(HalfwayFor(req, o) \ {r})
        = IF r \in HalfwayFor(req, o) THEN Cardinality(HalfwayFor(req, o)) - 1
          ELSE Cardinality(HalfwayFor(req, o))
  BY <1>1, FS_RemoveElement
<1>7. r \in HalfwayFor(req, o) => Cardinality(HalfwayFor(req, o)) # 0
  BY <1>1, FS_EmptySet
<1> QED
  BY <1>2, <1>3, <1>4, <1>5, <1>6, <1>7

\* What a step of request q, which becomes q2, does for the owner of a code:
\* nothing, a bonus, a bonus and a reward, or the reward of a referral that
\* was halfway.
Paired(q, q2, o) ==
  \/ rewards'[o] = rewards[o] /\ bonuses'[o] = bonuses[o] /\ ~ Halfway(q2, o)
  \/ rewards'[o] = rewards[o] /\ bonuses'[o] = bonuses[o] + 1
  \/ rewards'[o] = rewards[o] + 1 /\ bonuses'[o] = bonuses[o] + 1 /\ ~ Halfway(q2, o)
  \/ /\ rewards'[o] = rewards[o] + 1 /\ bonuses'[o] = bonuses[o]
     /\ Halfway(q, o) /\ ~ Halfway(q2, o)

\* A step of one request, reduced to what it does to the rows.
LEMMA Step ==
  ASSUME Inv, Grows, NEW r \in Requests, NEW q \in Request \cup {Idle},
         req' = [req EXCEPT ![r] = q], ReqOK(q, ledger', uneven', added', rewards'),
         balance' \in [Users -> Column], points' \in [Users -> Column],
         count' \in [Users -> Column], bonuses' \in [Users -> Nat], overlap' = overlap,
         BalancesBacked', PointsBacked', CountsRewarded',
         \A o \in Users : Paired(req[r], q, o)
  PROVE  Inv'
<1>1. TypeOK' /\ RequestsOK'
  BY RequestsStay DEF Inv, TypeOK, Grows
<1>2. ASSUME NEW o \in Users
      PROVE  rewards'[o] + Cardinality(HalfwayFor(req', o)) <= bonuses'[o]
  <2>1. rewards[o] \in Nat /\ bonuses[o] \in Nat /\ rewards'[o] \in Nat /\ bonuses'[o] \in Nat
    BY DEF Inv, TypeOK, Grows
  <2>2. rewards[o] + Cardinality(HalfwayFor(req, o)) <= bonuses[o]
    BY DEF Inv, BonusesAhead
  <2>3. /\ Cardinality(HalfwayFor(req, o)) \in Nat /\ Cardinality(HalfwayFor(req', o)) \in Nat
        /\ ~ Halfway(q, o) => Cardinality(HalfwayFor(req', o)) <= Cardinality(HalfwayFor(req, o))
        /\ ~ Halfway(q, o) /\ Halfway(req[r], o)
             => Cardinality(HalfwayFor(req', o)) = Cardinality(HalfwayFor(req, o)) - 1
        /\ Cardinality(HalfwayFor(req', o)) <= Cardinality(HalfwayFor(req, o)) + 1
    BY HalfwayCount
  <2> QED
    BY <2>1, <2>2, <2>3 DEF Paired
<1>3. BonusesAhead'
  BY <1>2 DEF BonusesAhead
<1> QED
  BY <1>1, <1>3 DEF Inv

\* An empty wallet is backed by nothing.
LEMMA OpenedBacked ==
  ASSUME Inv, ledger' = ledger, uneven' = uneven,
         \A u \in Users : balance'[u] = balance[u] \/ balance'[u] = 0
  PROVE  BalancesBacked'
<1>1. ASSUME NEW u \in Users
      PROVE  BackedBy(balance'[u], ledger[u], uneven[u])
  <2>1. CASE balance'[u] = balance[u]
    BY <2>1 DEF Inv, BalancesBacked
  <2>2. CASE balance'[u] = 0
    <3>1. ledger[u] \in Nat /\ Slack(uneven[u]) \in Nat
      BY SlackSum DEF Inv, TypeOK
    <3>2. Above(0, ledger[u], uneven[u])
      BY <3>1 DEF Above
    <3> QED
      BY <2>2, <3>2, WholeZero DEF BackedBy
  <2> QED
    BY <2>1, <2>2
<1> QED
  BY <1>1 DEF BalancesBacked

\* A step that writes no transaction and gives a request what it read.
LEMMA ReadStep ==
  ASSUME Inv, NEW r \in Requests, NEW q \in Request \cup {Idle},
         req' = [req EXCEPT ![r] = q], ReqOK(q, ledger, uneven, added, rewards),
         \A o \in Users : ~ Halfway(q, o) \/ Halfway(req[r], o),
         balance' \in [Users -> Column],
         \A u \in Users : balance'[u] = balance[u] \/ balance'[u] = 0,
         UNCHANGED <<points, count, txns, overlap>>
  PROVE  Inv'
<1>1. /\ ledger' = ledger /\ uneven' = uneven /\ added' = added
      /\ rewards' = rewards /\ bonuses' = bonuses
      /\ points' = points /\ count' = count /\ overlap' = overlap
  BY DEF txns
<1>2. Grows
  BY <1>1 DEF Grows, Inv, TypeOK
<1>3. PointsBacked' /\ CountsRewarded'
  BY <1>1 DEF Inv, PointsBacked, CountsRewarded
<1>7. BalancesBacked'
  BY <1>1, OpenedBacked
<1>4. TypeOK' /\ RequestsOK'
  BY <1>1, <1>2, RequestsStay DEF Inv, TypeOK
<1>5. ASSUME NEW o \in Users
      PROVE  rewards'[o] + Cardinality(HalfwayFor(req', o)) <= bonuses'[o]
  <2>1. rewards[o] \in Nat /\ bonuses[o] \in Nat
    BY DEF Inv, TypeOK
  <2>2. rewards[o] + Cardinality(HalfwayFor(req, o)) <= bonuses[o]
    BY DEF Inv, BonusesAhead
  <2>3. HalfwayFor(req', o) \subseteq HalfwayFor(req, o)
    BY DEF HalfwayFor, Inv, TypeOK
  <2>4. IsFiniteSet(HalfwayFor(req, o))
    BY RequestsAssumption, FS_Subset DEF HalfwayFor
  <2>5. Cardinality(HalfwayFor(req', o)) <= Cardinality(HalfwayFor(req, o))
    BY <2>3, <2>4, FS_Subset
  <2>6. Cardinality(HalfwayFor(req, o)) \in Nat /\ Cardinality(HalfwayFor(req', o)) \in Nat
    BY HalfwayCount
  <2> QED
    BY <1>1, <2>1, <2>2, <2>5, <2>6
<1>6. BonusesAhead'
  BY <1>5 DEF BonusesAhead
<1> QED
  BY <1>3, <1>4, <1>6, <1>7 DEF Inv

-----------------------------------------------------------------------------
(***************************************************************************)
(* The actions.                                                             *)
(***************************************************************************)
LEMMA OpenAccountStep ==
  ASSUME Inv, NEW u \in Users, OpenAccount(u)
  PROVE  Inv'
<1>1. /\ ledger' = ledger /\ uneven' = uneven /\ added' = added
      /\ rewards' = rewards /\ bonuses' = bonuses
      /\ req' = req /\ overlap' = overlap
  BY DEF OpenAccount, txns
<1>2. /\ balance' \in [Users -> Column] /\ points' \in [Users -> Column]
      /\ count' \in [Users -> Column]
  BY DEF OpenAccount, Inv, TypeOK, Column
<1>3. \A v \in Users : /\ balance'[v] = balance[v] \/ balance'[v] = 0
                       /\ points'[v] = points[v] \/ points'[v] = 0
                       /\ count'[v] = count[v] \/ count'[v] = 0
  BY DEF OpenAccount, Inv, TypeOK
<1>4. BalancesBacked' /\ PointsBacked' /\ CountsRewarded'
  <2>1. BalancesBacked'
    BY <1>1, <1>3, OpenedBacked
  <2>2. PointsBacked'
    BY <1>1, <1>3, TenIsNat DEF Inv, TypeOK, PointsBacked
  <2>3. CountsRewarded'
    BY <1>1, <1>3 DEF Inv, TypeOK, CountsRewarded
  <2> QED
    BY <2>1, <2>2, <2>3
<1>5. BonusesAhead'
  BY <1>1 DEF Inv, BonusesAhead, HalfwayFor
<1> QED
  BY <1>1, <1>2, <1>4, <1>5 DEF Inv, TypeOK, RequestsOK

\* A request arrives.
LEMMA BeginStep ==
  ASSUME Inv, NEW r \in Requests, NEW op \in {"add", "refer"}, NEW f \in Users,
         NEW s \in Users, NEW o \in Users, NEW a \in Nat, NEW c \in Nat,
         op = "refer" => f # o /\ s = o /\ c <= rewards[o],
         Begin(r, op, f, s, o, a, c)
  PROVE  Inv'
<1> DEFINE q == [pc |-> "first", op |-> op, first |-> f, second |-> s, owner |-> o, amt |-> a,
                 bal1 |-> 0, bal2 |-> 0, pts |-> 0, cnt |-> c, held |-> FALSE]
<1>1. req' = [req EXCEPT ![r] = q] /\ UNCHANGED <<balance, points, count, txns, overlap>>
  BY DEF Begin
<1>2. q \in Request
  BY DEF Request
<1>3. ReqOK(q, ledger, uneven, added, rewards) /\ \A x \in Users : ~ Halfway(q, x)
  BY DEF ReqOK, Halfway
<1>4. balance' \in [Users -> Column] /\ \A u \in Users : balance'[u] = balance[u]
  BY <1>1 DEF Inv, TypeOK
<1> HIDE DEF q
<1> QED
  BY <1>1, <1>2, <1>3, <1>4, ReadStep

\* A request to add money arrives.
LEMMA AddMoneyStep ==
  ASSUME Inv, NEW r \in Requests, AddMoney(r)
  PROVE  Inv'
<1>1. PICK u \in Users, a \in Amounts : Begin(r, "add", u, u, u, a, 0)
  BY DEF AddMoney
<1>2. a \in Nat
  BY AmountIsNat
<1> QED
  BY <1>1, <1>2, BeginStep

\* A request to apply a referral arrives.
LEMMA ApplyReferralStep ==
  ASSUME Inv, NEW r \in Requests, ApplyReferral(r)
  PROVE  Inv'
<1>1. PICK u \in Users, o \in Users :
        CodeFits(u, o) /\ Begin(r, "refer", u, o, o, Reward, count[o])
  BY DEF ApplyReferral, Credited
<1>2. u # o /\ count[o] \in Nat /\ count[o] <= rewards[o]
  BY <1>1 DEF CodeFits, Inv, TypeOK, Column, CountsRewarded
<1>3. Reward \in Nat
  BY AmountIsNat
<1> QED
  BY <1>1, <1>2, <1>3, BeginStep

\* The first wallet is read.
LEMMA FirstWalletStep ==
  ASSUME Inv, NEW r \in Requests, FirstWallet(r)
  PROVE  Inv'
<1> DEFINE b == balance[req[r].first]
           q == [req[r] EXCEPT !.pc = IF req[r].op = "add" THEN "loyalty" ELSE "second",
                               !.bal1 = IF b = None THEN 0 ELSE b, !.held = TRUE]
<1>1. req[r] # Idle /\ req[r].pc = "first"
  BY DEF FirstWallet, Idle
<1>2. req' = [req EXCEPT ![r] = q]
  BY DEF FirstWallet, Inv, TypeOK
<1>3. /\ b \in Column /\ BackedBy(b, ledger[req[r].first], uneven[req[r].first])
      /\ Whole(0) /\ Above(0, ledger[req[r].first], uneven[req[r].first])
  <2>1. req[r].first \in Users
    BY <1>1, Shape
  <2>2. ledger[req[r].first] \in Nat /\ Slack(uneven[req[r].first]) \in Nat
    BY <2>1, SlackSum DEF Inv, TypeOK
  <2>3. Above(0, ledger[req[r].first], uneven[req[r].first])
    BY <2>2 DEF Above
  <2> QED
    BY <2>1, <2>3, WholeZero DEF Inv, TypeOK, BalancesBacked
<1>4. q \in Request
  BY <1>1, <1>3, Shape DEF Request, Column
<1>5. ReqOK(q, ledger, uneven, added, rewards)
  BY <1>1, <1>3, Shape DEF ReqOK, Request, BackedBy
<1>6. \A o \in Users : ~ Halfway(q, o)
  BY <1>1, Shape DEF Halfway, Request
<1>7. UNCHANGED <<points, count, txns, overlap>>
  BY DEF FirstWallet, BookNothing
<1>8. /\ balance' \in [Users -> Column]
      /\ \A u \in Users : balance'[u] = balance[u] \/ balance'[u] = 0
  BY <1>1, Shape DEF FirstWallet, Inv, TypeOK, Column
<1> HIDE DEF q
<1> QED
  BY <1>2, <1>4, <1>5, <1>6, <1>7, <1>8, ReadStep

\* The referrer's wallet is read.
LEMMA SecondWalletFoundStep ==
  ASSUME Inv, NEW r \in Requests, SecondWalletFound(r)
  PROVE  Inv'
<1> DEFINE b == balance[req[r].second]
           q == [req[r] EXCEPT !.pc = "last", !.bal2 = b]
<1>1. req[r] # Idle /\ req[r].pc = "second"
  BY DEF SecondWalletFound, Idle
<1>2. req' = [req EXCEPT ![r] = q]
  BY DEF SecondWalletFound, Inv, TypeOK
<1>3. b \in Nat /\ Whole(b) /\ Above(b, ledger[req[r].second], uneven[req[r].second])
  BY <1>1, Shape DEF SecondWalletFound, Inv, TypeOK, BalancesBacked, BackedBy, Column
<1>4. q \in Request
  BY <1>1, <1>3, Shape DEF Request
<1>5. ReqOK(q, ledger, uneven, added, rewards)
  BY <1>1, <1>3, Shape DEF ReqOK, Request
<1>6. \A o \in Users : ~ Halfway(q, o)
  BY <1>1, Shape DEF Halfway, Request, ReqOK
<1>7. UNCHANGED <<balance, points, count, txns, overlap>>
  BY DEF SecondWalletFound, BookNothing
<1>8. balance' \in [Users -> Column] /\ \A u \in Users : balance'[u] = balance[u]
  BY <1>7 DEF Inv, TypeOK
<1> HIDE DEF q
<1> QED
  BY <1>2, <1>4, <1>5, <1>6, <1>7, <1>8, ReadStep

\* The loyalty row is read.
LEMMA LoyaltyFoundStep ==
  ASSUME Inv, NEW r \in Requests, LoyaltyFound(r)
  PROVE  Inv'
<1> DEFINE p == points[req[r].first]
           q == [req[r] EXCEPT !.pc = "last", !.pts = p]
<1>1. req[r] # Idle /\ req[r].pc = "loyalty"
  BY DEF LoyaltyFound, Idle
<1>2. req' = [req EXCEPT ![r] = q]
  BY DEF LoyaltyFound, Inv, TypeOK
<1>3. p \in Nat /\ p * Ten <= added[req[r].first] /\ added[req[r].first] \in Nat
  BY <1>1, Shape DEF LoyaltyFound, Inv, TypeOK, PointsBacked, Column
<1>9. p * Ten \in Nat
  BY <1>3, TenIsNat
<1>4. q \in Request
  BY <1>1, <1>3, Shape DEF Request
<1>5. ReqOK(q, ledger, uneven, added, rewards)
  BY <1>1, <1>3, <1>9, Shape DEF ReqOK, Request
<1>6. \A o \in Users : ~ Halfway(q, o)
  BY <1>1, Shape DEF Halfway, Request, ReqOK
<1>7. UNCHANGED <<balance, points, count, txns, overlap>>
  BY DEF LoyaltyFound, BookNothing
<1>8. balance' \in [Users -> Column] /\ \A u \in Users : balance'[u] = balance[u]
  BY <1>7 DEF Inv, TypeOK
<1> HIDE DEF q
<1> QED
  BY <1>2, <1>4, <1>5, <1>6, <1>7, <1>8, ReadStep

\* A request ends, or its process dies.
LEMMA ReturnStep ==
  ASSUME Inv, NEW r \in Requests, Return(r)
  PROVE  Inv'
<1>1. req' = [req EXCEPT ![r] = Idle] /\ UNCHANGED <<balance, points, count, txns, overlap>>
  BY DEF Return
<1>2. ReqOK(Idle, ledger, uneven, added, rewards) /\ \A o \in Users : ~ Halfway(Idle, o)
  BY DEF ReqOK, Halfway, Idle
<1>3. balance' \in [Users -> Column] /\ \A u \in Users : balance'[u] = balance[u]
  BY <1>1 DEF Inv, TypeOK
<1> QED
  BY <1>1, <1>2, <1>3, ReadStep

\* The rows a commit books for the users in `paid'.
BookedRows(q, paid) ==
  /\ Grows
  /\ bonuses' \in [Users -> Nat]
  /\ \A u \in Users :
       /\ ledger'[u] = ledger[u] + IF u \in paid THEN q.amt ELSE 0
       /\ uneven'[u] = uneven[u] + IF u \in paid THEN Uneven(q.amt) ELSE 0
       /\ added'[u] = added[u] + IF q.op = "add" /\ u \in paid THEN q.amt ELSE 0
       /\ rewards'[u] = rewards[u] + IF q.op = "refer" /\ u = q.owner /\ u \in paid
                                       THEN 1 ELSE 0
       /\ bonuses'[u] = bonuses[u] + IF q.op = "refer" /\ u = q.owner /\ paid \ {q.owner} # {}
                                       THEN 1 ELSE 0

\* The transactions a commit books.
LEMMA Booked ==
  ASSUME Inv, NEW r \in Requests, req[r] # Idle, NEW paid,
         Book(req[r], paid), BookKinds(req[r], paid)
  PROVE  BookedRows(req[r], paid)
<1>1. req[r].amt \in Nat /\ Uneven(req[r].amt) \in Nat
  BY Shape DEF Uneven
<1>2. /\ ledger \in [Users -> Nat] /\ uneven \in [Users -> Nat] /\ added \in [Users -> Nat]
      /\ rewards \in [Users -> Nat] /\ bonuses \in [Users -> Nat]
  BY DEF Inv, TypeOK
<1>3. /\ ledger' \in [Users -> Nat] /\ uneven' \in [Users -> Nat] /\ added' \in [Users -> Nat]
      /\ rewards' \in [Users -> Nat] /\ bonuses' \in [Users -> Nat]
  BY <1>1, <1>2 DEF Book, BookKinds
<1> QED
  BY <1>1, <1>2, <1>3 DEF Book, BookKinds, Grows, BookedRows

\* A balance that is left alone, or that of a new account.
LEMMA KeptBacked ==
  ASSUME Inv, Grows, NEW u \in Users, balance'[u] = balance[u] \/ balance'[u] = 0
  PROVE  BackedBy(balance'[u], ledger'[u], uneven'[u])
<1>1. /\ ledger[u] \in Nat /\ uneven[u] \in Nat /\ ledger'[u] \in Nat /\ uneven'[u] \in Nat
      /\ ledger[u] <= ledger'[u] /\ uneven[u] <= uneven'[u] /\ balance[u] \in Column
  BY DEF Inv, TypeOK, Grows
<1>2. CASE balance'[u] = balance[u]
  <2>1. BackedBy(balance[u], ledger[u], uneven[u])
    BY DEF Inv, BalancesBacked
  <2>2. CASE balance[u] = None
    BY <1>2, <2>2 DEF BackedBy
  <2>3. CASE balance[u] # None
    <3>1. balance[u] \in Int
      BY <1>1, <2>3 DEF Column
    <3>2. Above(balance[u], ledger'[u], uneven'[u])
      BY <1>1, <2>1, <2>3, <3>1, AboveStays DEF BackedBy
    <3> QED
      BY <1>2, <2>1, <2>3, <3>2 DEF BackedBy
  <2> QED
    BY <2>2, <2>3
<1>3. CASE balance'[u] = 0
  <2>1. Above(0, ledger'[u], uneven'[u])
    <3>1. Slack(uneven'[u]) \in Nat
      BY <1>1, SlackSum
    <3> QED
      BY <1>1, <3>1 DEF Above
  <2> QED
    BY <1>3, <2>1, WholeZero DEF BackedBy
<1> QED
  BY <1>2, <1>3

\* A balance that was read, plus an amount.
LEMMA CreditBacked ==
  ASSUME Inv, NEW u \in Users, NEW b \in Nat, NEW a \in Nat,
         Whole(b), Above(b, ledger[u], uneven[u]), balance'[u] \in Rounded(b + a),
         ledger'[u] = ledger[u] + a, uneven'[u] = uneven[u] + Uneven(a)
  PROVE  BackedBy(balance'[u], ledger'[u], uneven'[u])
<1>1. ledger[u] \in Nat /\ uneven[u] \in Nat
  BY DEF Inv, TypeOK
<1> DEFINE y == balance'[u]
<1>2. y \in Rounded(b + a)
  OBVIOUS
<1> HIDE DEF y
<1>3. Whole(y) /\ Above(y, ledger[u] + a, uneven[u] + Uneven(a))
  BY <1>1, <1>2, CreditIs
<1> QED
  BY <1>3 DEF BackedBy, y

\* Points that are left alone, or those of a new row.
LEMMA PointsStay ==
  ASSUME Inv, Grows, \A u \in Users : points'[u] = points[u] \/ points'[u] = 0
  PROVE  PointsBacked'
<1>1. ASSUME NEW u \in Users
      PROVE  points'[u] * Ten <= added'[u]
  <2>1. /\ added[u] \in Nat /\ added'[u] \in Nat /\ added[u] <= added'[u]
        /\ points[u] * Ten <= added[u] /\ points[u] \in Int
    BY DEF Inv, TypeOK, Grows, PointsBacked, Column, None
  <2>2. points[u] * Ten \in Int /\ 0 * Ten = 0
    BY <2>1, TenIsNat
  <2> QED
    BY <2>1, <2>2
<1> QED
  BY <1>1, TenIsNat DEF PointsBacked, Ten

\* The rows of a bonus that is committed alone.
LEMMA SecondWalletNewRows ==
  ASSUME Inv, NEW r \in Requests, SecondWalletNew(r)
  PROVE  /\ req[r] # Idle /\ req[r].pc = "second" /\ balance[req[r].second] = None
         /\ req[r] \in Request /\ req[r].op = "refer" /\ req[r].first # req[r].owner
         /\ req[r].second = req[r].owner
         /\ req[r].bal1 \in Nat /\ req[r].amt \in Nat /\ req[r].cnt \in Nat
         /\ req[r].first \in Users /\ req[r].second \in Users /\ req[r].owner \in Users
         /\ Whole(req[r].bal1) /\ req[r].cnt <= rewards[req[r].owner]
         /\ Above(req[r].bal1, ledger[req[r].first], uneven[req[r].first])
         /\ Grows /\ bonuses' \in [Users -> Nat]
         /\ \A u \in Users :
              /\ ledger'[u] = ledger[u] + IF u = req[r].first THEN req[r].amt ELSE 0
              /\ uneven'[u] = uneven[u] + IF u = req[r].first THEN Uneven(req[r].amt) ELSE 0
              /\ added'[u] = added[u] + 0
              /\ rewards'[u] = rewards[u] + 0
              /\ bonuses'[u] = bonuses[u] + IF u = req[r].owner THEN 1 ELSE 0
<1>1. req[r] # Idle /\ req[r].pc = "second" /\ balance[req[r].second] = None
  BY DEF SecondWalletNew, Idle
<1>2. /\ req[r] \in Request /\ req[r].op = "refer" /\ req[r].first # req[r].owner
      /\ req[r].second = req[r].owner
      /\ req[r].bal1 \in Nat /\ req[r].amt \in Nat /\ req[r].cnt \in Nat
      /\ req[r].first \in Users /\ req[r].second \in Users /\ req[r].owner \in Users
      /\ Whole(req[r].bal1) /\ req[r].cnt <= rewards[req[r].owner]
      /\ Above(req[r].bal1, ledger[req[r].first], uneven[req[r].first])
  BY <1>1, Shape DEF ReqOK
<1>3. /\ Grows /\ bonuses' \in [Users -> Nat]
      /\ \A u \in Users :
           /\ ledger'[u] = ledger[u] + IF u = req[r].first THEN req[r].amt ELSE 0
           /\ uneven'[u] = uneven[u] + IF u = req[r].first THEN Uneven(req[r].amt) ELSE 0
           /\ added'[u] = added[u] + 0
           /\ rewards'[u] = rewards[u] + 0
           /\ bonuses'[u] = bonuses[u] + IF u = req[r].owner THEN 1 ELSE 0
  <2>1. Book(req[r], {req[r].first}) /\ BookKinds(req[r], {req[r].first})
    BY DEF SecondWalletNew
  <2>2. {req[r].first} \ {req[r].owner} # {}
    BY <1>2
  <2>3. BookedRows(req[r], {req[r].first})
    BY <1>1, <2>1, Booked
  <2> QED
    BY <1>2, <2>2, <2>3 DEF BookedRows
<1> QED
  BY <1>1, <1>2, <1>3

\* The bonus is committed alone: the referral is halfway.
LEMMA SecondWalletNewStep ==
  ASSUME Inv, NEW r \in Requests, SecondWalletNew(r)
  PROVE  Inv'
<1> DEFINE q0 == req[r]
           q == [req[r] EXCEPT !.pc = "last", !.bal2 = 0, !.held = FALSE]
<1>1. req[r] # Idle /\ q0.pc = "second" /\ balance[q0.second] = None
  BY SecondWalletNewRows
<1>2. /\ q0 \in Request /\ q0.op = "refer" /\ q0.first # q0.owner /\ q0.second = q0.owner
      /\ q0.bal1 \in Nat /\ q0.amt \in Nat /\ q0.cnt \in Nat
      /\ q0.first \in Users /\ q0.second \in Users /\ q0.owner \in Users
      /\ Whole(q0.bal1) /\ q0.cnt <= rewards[q0.owner]
      /\ Above(q0.bal1, ledger[q0.first], uneven[q0.first])
  BY SecondWalletNewRows
<1>3. req' = [req EXCEPT ![r] = q]
  BY DEF SecondWalletNew, Inv, TypeOK
<1>4. /\ Grows /\ bonuses' \in [Users -> Nat]
      /\ \A u \in Users :
           /\ ledger'[u] = ledger[u] + IF u = q0.first THEN q0.amt ELSE 0
           /\ uneven'[u] = uneven[u] + IF u = q0.first THEN Uneven(q0.amt) ELSE 0
           /\ added'[u] = added[u] + 0
           /\ rewards'[u] = rewards[u] + 0
           /\ bonuses'[u] = bonuses[u] + IF u = q0.owner THEN 1 ELSE 0
  BY SecondWalletNewRows
<1>5. \A u \in Users : /\ ledger[u] \in Nat /\ added[u] \in Nat /\ rewards[u] \in Nat
                       /\ uneven[u] \in Nat /\ bonuses[u] \in Nat /\ balance[u] \in Column
                       /\ count[u] <= rewards[u]
  BY DEF Inv, TypeOK, CountsRewarded
<1>6. PICK b \in Rounded(q0.bal1 + q0.amt) :
        balance' = [balance EXCEPT ![q0.first] = b, ![q0.second] = 0]
  BY DEF SecondWalletNew
<1>7. points' = points /\ count' = count /\ overlap' = overlap
  BY DEF SecondWalletNew
<1>16. b \in Nat
  BY <1>2, RoundedIs
<1>8. balance' \in [Users -> Column]
  BY <1>2, <1>6, <1>16 DEF Inv, TypeOK, Column
<1>9. ASSUME NEW u \in Users
      PROVE  BackedBy(balance'[u], ledger'[u], uneven'[u])
  <2>1. CASE u = q0.first
    <3>1. balance'[u] = b
      BY <1>2, <1>6, <2>1 DEF Inv, TypeOK
    <3>2. ledger'[u] = ledger[u] + q0.amt /\ uneven'[u] = uneven[u] + Uneven(q0.amt)
      BY <1>4, <2>1
    <3> HIDE DEF q0
    <3> QED
      BY <1>2, <2>1, <3>1, <3>2, CreditBacked
  <2>2. CASE u # q0.first
    <3>1. balance'[u] = balance[u] \/ balance'[u] = 0
      BY <1>2, <1>6, <2>2 DEF Inv, TypeOK
    <3> QED
      BY <1>4, <3>1, KeptBacked
  <2> QED
    BY <2>1, <2>2
<1>10. BalancesBacked' /\ PointsBacked' /\ CountsRewarded'
  <2>1. BalancesBacked'
    BY <1>9 DEF BalancesBacked
  <2>2. PointsBacked'
    BY <1>4, <1>7, PointsStay
  <2>3. CountsRewarded'
    BY <1>4, <1>5, <1>7 DEF CountsRewarded
  <2> QED
    BY <2>1, <2>2, <2>3
<1>11. q \in Request
  BY <1>2 DEF Request
<1>12. ReqOK(q, ledger', uneven', added', rewards')
  <2>1. Above(q0.bal1, ledger'[q0.first], uneven'[q0.first])
    <3>1. /\ ledger[q0.first] \in Nat /\ ledger'[q0.first] \in Nat
          /\ uneven[q0.first] \in Nat /\ uneven'[q0.first] \in Nat
          /\ ledger[q0.first] <= ledger'[q0.first] /\ uneven[q0.first] <= uneven'[q0.first]
      BY <1>2, <1>4, <1>5 DEF Grows
    <3> HIDE DEF q0
    <3> QED
      BY <1>2, <3>1, AboveStays
  <2>2. Above(0, ledger'[q0.second], uneven'[q0.second])
    <3>1. ledger'[q0.second] \in Nat /\ Slack(uneven'[q0.second]) \in Nat
      BY <1>2, <1>4, SlackSum DEF Grows
    <3> QED
      BY <3>1 DEF Above
  <2> QED
    BY <1>2, <1>4, <1>5, <2>1, <2>2, WholeZero DEF ReqOK, Request
<1>13. \A o \in Users : ~ Halfway(q, o) \/ o = q0.owner
  BY <1>2 DEF Halfway, Request
<1>14. points' \in [Users -> Column] /\ count' \in [Users -> Column]
  BY <1>7 DEF Inv, TypeOK
<1> HIDE DEF q, q0
<1>15. \A o \in Users : Paired(req[r], q, o)
  BY <1>4, <1>5, <1>13 DEF Paired
<1> QED
  BY <1>3, <1>4, <1>7, <1>8, <1>10, <1>11, <1>12, <1>14, <1>15, Step

\* The rows of money that is committed without its points.
LEMMA LoyaltyNewRows ==
  ASSUME Inv, NEW r \in Requests, LoyaltyNew(r)
  PROVE  /\ req[r] # Idle /\ req[r].pc = "loyalty"
         /\ req[r] \in Request /\ req[r].op = "add" /\ req[r].bal1 \in Nat /\ req[r].amt \in Nat
         /\ req[r].first \in Users /\ Whole(req[r].bal1)
         /\ Above(req[r].bal1, ledger[req[r].first], uneven[req[r].first])
         /\ Grows /\ bonuses' \in [Users -> Nat]
         /\ \A u \in Users :
              /\ ledger'[u] = ledger[u] + IF u = req[r].first THEN req[r].amt ELSE 0
              /\ uneven'[u] = uneven[u] + IF u = req[r].first THEN Uneven(req[r].amt) ELSE 0
              /\ added'[u] = added[u] + IF u = req[r].first THEN req[r].amt ELSE 0
              /\ rewards'[u] = rewards[u] + 0
              /\ bonuses'[u] = bonuses[u] + 0
<1>1. req[r] # Idle /\ req[r].pc = "loyalty"
  BY DEF LoyaltyNew, Idle
<1>2. /\ req[r] \in Request /\ req[r].op = "add" /\ req[r].bal1 \in Nat /\ req[r].amt \in Nat
      /\ req[r].first \in Users /\ Whole(req[r].bal1)
      /\ Above(req[r].bal1, ledger[req[r].first], uneven[req[r].first])
  BY <1>1, Shape DEF ReqOK
<1>3. /\ Grows /\ bonuses' \in [Users -> Nat]
      /\ \A u \in Users :
           /\ ledger'[u] = ledger[u] + IF u = req[r].first THEN req[r].amt ELSE 0
           /\ uneven'[u] = uneven[u] + IF u = req[r].first THEN Uneven(req[r].amt) ELSE 0
           /\ added'[u] = added[u] + IF u = req[r].first THEN req[r].amt ELSE 0
           /\ rewards'[u] = rewards[u] + 0
           /\ bonuses'[u] = bonuses[u] + 0
  <2>1. Book(req[r], {req[r].first}) /\ BookKinds(req[r], {req[r].first})
    BY DEF LoyaltyNew
  <2>2. BookedRows(req[r], {req[r].first})
    BY <1>1, <2>1, Booked
  <2> QED
    BY <1>2, <2>2 DEF BookedRows
<1> QED
  BY <1>1, <1>2, <1>3

\* The money is committed without its points.
LEMMA LoyaltyNewStep ==
  ASSUME Inv, NEW r \in Requests, LoyaltyNew(r)
  PROVE  Inv'
<1> DEFINE q0 == req[r]
           q == [req[r] EXCEPT !.pc = "last", !.pts = 0, !.held = FALSE]
<1>1. req[r] # Idle /\ q0.pc = "loyalty"
  BY LoyaltyNewRows
<1>2. /\ q0 \in Request /\ q0.op = "add" /\ q0.bal1 \in Nat /\ q0.amt \in Nat
      /\ q0.first \in Users /\ Whole(q0.bal1)
      /\ Above(q0.bal1, ledger[q0.first], uneven[q0.first])
  BY LoyaltyNewRows
<1>3. req' = [req EXCEPT ![r] = q]
  BY DEF LoyaltyNew, Inv, TypeOK
<1>4. /\ Grows /\ bonuses' \in [Users -> Nat]
      /\ \A u \in Users :
           /\ ledger'[u] = ledger[u] + IF u = q0.first THEN q0.amt ELSE 0
           /\ uneven'[u] = uneven[u] + IF u = q0.first THEN Uneven(q0.amt) ELSE 0
           /\ added'[u] = added[u] + IF u = q0.first THEN q0.amt ELSE 0
           /\ rewards'[u] = rewards[u] + 0
           /\ bonuses'[u] = bonuses[u] + 0
  BY LoyaltyNewRows
<1>5. \A u \in Users : /\ ledger[u] \in Nat /\ added[u] \in Nat /\ rewards[u] \in Nat
                       /\ uneven[u] \in Nat /\ bonuses[u] \in Nat /\ count[u] <= rewards[u]
  BY DEF Inv, TypeOK, CountsRewarded
<1>15. PICK b \in Rounded(q0.bal1 + q0.amt) : balance' = [balance EXCEPT ![q0.first] = b]
  BY DEF LoyaltyNew
<1>16. b \in Nat
  BY <1>2, RoundedIs
<1>6. /\ points' = [points EXCEPT ![q0.first] = 0]
      /\ count' = count /\ overlap' = overlap
  BY DEF LoyaltyNew
<1>7. /\ balance' \in [Users -> Column] /\ points' \in [Users -> Column]
      /\ count' \in [Users -> Column]
  BY <1>2, <1>6, <1>15, <1>16 DEF Inv, TypeOK, Column
<1>8. ASSUME NEW u \in Users
      PROVE  BackedBy(balance'[u], ledger'[u], uneven'[u])
  <2>1. CASE u = q0.first
    <3>1. balance'[u] = b
      BY <1>2, <1>15, <2>1 DEF Inv, TypeOK
    <3>2. ledger'[u] = ledger[u] + q0.amt /\ uneven'[u] = uneven[u] + Uneven(q0.amt)
      BY <1>4, <2>1
    <3> HIDE DEF q0
    <3> QED
      BY <1>2, <2>1, <3>1, <3>2, CreditBacked
  <2>2. CASE u # q0.first
    <3>1. balance'[u] = balance[u]
      BY <1>2, <1>15, <2>2 DEF Inv, TypeOK
    <3> QED
      BY <1>4, <3>1, KeptBacked
  <2> QED
    BY <2>1, <2>2
<1>10. BalancesBacked' /\ PointsBacked' /\ CountsRewarded'
  <2>1. BalancesBacked'
    BY <1>8 DEF BalancesBacked
  <2>2. \A u \in Users : points'[u] = points[u] \/ points'[u] = 0
    BY <1>2, <1>6 DEF Inv, TypeOK
  <2>3. PointsBacked'
    BY <1>4, <2>2, PointsStay
  <2>4. CountsRewarded'
    BY <1>4, <1>5, <1>6 DEF CountsRewarded
  <2> QED
    BY <2>1, <2>3, <2>4
<1>11. q \in Request
  BY <1>2 DEF Request
<1>12. ReqOK(q, ledger', uneven', added', rewards')
  <2>1. Above(q0.bal1, ledger'[q0.first], uneven'[q0.first])
    <3>1. /\ ledger[q0.first] \in Nat /\ ledger'[q0.first] \in Nat
          /\ uneven[q0.first] \in Nat /\ uneven'[q0.first] \in Nat
          /\ ledger[q0.first] <= ledger'[q0.first] /\ uneven[q0.first] <= uneven'[q0.first]
      BY <1>2, <1>4, <1>5 DEF Grows
    <3> HIDE DEF q0
    <3> QED
      BY <1>2, <3>1, AboveStays
  <2>2. 0 * Ten = 0
    BY TenIsNat
  <2> QED
    BY <1>2, <1>4, <1>5, <2>1, <2>2 DEF ReqOK, Request
<1>13. \A o \in Users : ~ Halfway(q, o)
  BY <1>2 DEF Halfway, Request
<1> HIDE DEF q, q0
<1>14. \A o \in Users : Paired(req[r], q, o)
  BY <1>4, <1>5, <1>13 DEF Paired
<1> QED
  BY <1>3, <1>4, <1>6, <1>7, <1>10, <1>11, <1>12, <1>14, Step

\* The rows of money, unless they are booked already.
LEMMA FinishAddRows ==
  ASSUME Inv, NEW r \in Requests, FinishAdd(r)
  PROVE  /\ req[r] # Idle /\ req[r].pc = "last" /\ req[r].op = "add"
         /\ req[r] \in Request /\ req[r].bal1 \in Nat /\ req[r].amt \in Nat /\ req[r].pts \in Nat
         /\ req[r].held \in BOOLEAN /\ req[r].first \in Users /\ Whole(req[r].bal1)
         /\ Above(req[r].bal1, ledger[req[r].first], uneven[req[r].first])
         /\ (req[r].pts * Ten) + (IF req[r].held THEN 0 ELSE req[r].amt) <= added[req[r].first]
         /\ Grows /\ bonuses' \in [Users -> Nat]
         /\ \A u \in Users :
              /\ ledger'[u] = ledger[u] + IF req[r].held /\ u = req[r].first THEN req[r].amt ELSE 0
              /\ uneven'[u] = uneven[u] + IF req[r].held /\ u = req[r].first
                                            THEN Uneven(req[r].amt) ELSE 0
              /\ added'[u] = added[u] + IF req[r].held /\ u = req[r].first THEN req[r].amt ELSE 0
              /\ rewards'[u] = rewards[u] + 0
              /\ bonuses'[u] = bonuses[u] + 0
<1> DEFINE paid == IF req[r].held THEN {req[r].first} ELSE {}
<1>1. req[r] # Idle /\ req[r].pc = "last" /\ req[r].op = "add"
  BY DEF FinishAdd, Idle
<1>2. /\ req[r] \in Request /\ req[r].bal1 \in Nat /\ req[r].amt \in Nat /\ req[r].pts \in Nat
      /\ req[r].held \in BOOLEAN /\ req[r].first \in Users /\ Whole(req[r].bal1)
      /\ Above(req[r].bal1, ledger[req[r].first], uneven[req[r].first])
      /\ (req[r].pts * Ten) + (IF req[r].held THEN 0 ELSE req[r].amt) <= added[req[r].first]
  BY <1>1, Shape DEF ReqOK
<1>3. /\ Grows /\ bonuses' \in [Users -> Nat]
      /\ \A u \in Users :
           /\ ledger'[u] = ledger[u] + IF req[r].held /\ u = req[r].first THEN req[r].amt ELSE 0
           /\ uneven'[u] = uneven[u] + IF req[r].held /\ u = req[r].first
                                         THEN Uneven(req[r].amt) ELSE 0
           /\ added'[u] = added[u] + IF req[r].held /\ u = req[r].first THEN req[r].amt ELSE 0
           /\ rewards'[u] = rewards[u] + 0
           /\ bonuses'[u] = bonuses[u] + 0
  <2>1. Book(req[r], paid) /\ BookKinds(req[r], paid)
    BY DEF FinishAdd
  <2>2. \A u : u \in paid <=> req[r].held /\ u = req[r].first
    BY <1>2
  <2> HIDE DEF paid
  <2>3. BookedRows(req[r], paid)
    BY <1>1, <2>1, Booked
  <2> QED
    BY <1>1, <1>2, <2>2, <2>3 DEF BookedRows
<1> QED
  BY <1>1, <1>2, <1>3

\* The money is added.
LEMMA FinishAddStep ==
  ASSUME Inv, NEW r \in Requests, FinishAdd(r)
  PROVE  Inv'
<1> DEFINE q0 == req[r]
<1>1. req[r] # Idle /\ q0.pc = "last" /\ q0.op = "add"
  BY FinishAddRows
<1>2. /\ q0 \in Request /\ q0.bal1 \in Nat /\ q0.amt \in Nat /\ q0.pts \in Nat
      /\ q0.held \in BOOLEAN /\ q0.first \in Users /\ Whole(q0.bal1)
      /\ Above(q0.bal1, ledger[q0.first], uneven[q0.first])
      /\ (q0.pts * Ten) + (IF q0.held THEN 0 ELSE q0.amt) <= added[q0.first]
  BY FinishAddRows
<1>3. req' = [req EXCEPT ![r] = Idle]
  BY DEF FinishAdd
<1>4. /\ Grows /\ bonuses' \in [Users -> Nat]
      /\ \A u \in Users :
           /\ ledger'[u] = ledger[u] + IF q0.held /\ u = q0.first THEN q0.amt ELSE 0
           /\ uneven'[u] = uneven[u] + IF q0.held /\ u = q0.first THEN Uneven(q0.amt) ELSE 0
           /\ added'[u] = added[u] + IF q0.held /\ u = q0.first THEN q0.amt ELSE 0
           /\ rewards'[u] = rewards[u] + 0
           /\ bonuses'[u] = bonuses[u] + 0
  BY FinishAddRows
<1>5. \A u \in Users : /\ ledger[u] \in Nat /\ added[u] \in Nat /\ rewards[u] \in Nat
                       /\ bonuses[u] \in Nat /\ balance[u] \in Column /\ points[u] \in Column
                       /\ points[u] * Ten <= added[u] /\ count[u] <= rewards[u]
  BY DEF Inv, TypeOK, PointsBacked, CountsRewarded
<1>6. /\ points' = [points EXCEPT ![q0.first] = NewPoints(q0, @)]
      /\ count' = count /\ overlap' = overlap
  BY DEF FinishAdd
<1>7. /\ \A u \in Users : (u = q0.first /\ q0.held) \/ balance'[u] = balance[u]
      /\ q0.held => balance'[q0.first] \in Rounded(q0.bal1 + q0.amt)
      /\ balance' \in [Users -> Column]
  <2>1. CASE q0.held
    <3>1. PICK b \in Rounded(q0.bal1 + q0.amt) : balance' = [balance EXCEPT ![q0.first] = b]
      BY <2>1 DEF FinishAdd
    <3>2. b \in Nat
      BY <1>2, RoundedIs
    <3> QED
      BY <1>2, <2>1, <3>1, <3>2 DEF Inv, TypeOK, Column
  <2>2. CASE ~ q0.held
    BY <2>2 DEF FinishAdd, Inv, TypeOK
  <2> QED
    BY <2>1, <2>2
<1>8. /\ NewPoints(q0, points[q0.first]) \in Column
      /\ NewPoints(q0, points[q0.first]) * Ten
           <= added[q0.first] + IF q0.held THEN q0.amt ELSE 0
  <2>1. Points(q0.amt) \in Nat /\ Points(q0.amt) * Ten <= q0.amt
    BY <1>2, PointsBound
  <2>2. CASE Points(q0.amt) = 0
    <3>1. NewPoints(q0, points[q0.first]) = points[q0.first]
      BY <2>2 DEF NewPoints
    <3>2. points[q0.first] * Ten \in Int
      BY <1>2, <1>5, TenIsNat DEF Column, None
    <3> QED
      BY <1>2, <1>5, <3>1, <3>2
  <2>3. CASE Points(q0.amt) # 0
    <3>1. NewPoints(q0, points[q0.first]) = q0.pts + Points(q0.amt)
      BY <2>3 DEF NewPoints
    <3>2. /\ (q0.pts + Points(q0.amt)) * Ten = (q0.pts * Ten) + (Points(q0.amt) * Ten)
          /\ q0.pts * Ten \in Nat /\ Points(q0.amt) * Ten \in Nat
      BY <1>2, <2>1, Worths
    <3> QED
      BY <1>2, <1>5, <2>1, <3>1, <3>2 DEF Column
  <2> QED
    BY <2>2, <2>3
<1>9. points' \in [Users -> Column] /\ count' \in [Users -> Column]
  BY <1>2, <1>6, <1>8 DEF Inv, TypeOK
<1>10. ASSUME NEW u \in Users
       PROVE  BackedBy(balance'[u], ledger'[u], uneven'[u])
  <2>1. CASE u = q0.first /\ q0.held
    <3>1. /\ ledger'[u] = ledger[u] + q0.amt /\ uneven'[u] = uneven[u] + Uneven(q0.amt)
          /\ balance'[u] \in Rounded(q0.bal1 + q0.amt)
      BY <1>4, <1>7, <2>1
    <3> HIDE DEF q0
    <3> QED
      BY <1>2, <2>1, <3>1, CreditBacked
  <2>2. CASE balance'[u] = balance[u]
    BY <1>4, <2>2, KeptBacked
  <2> QED
    BY <1>7, <2>1, <2>2
<1>11. BalancesBacked' /\ PointsBacked' /\ CountsRewarded'
  <2>1. BalancesBacked'
    BY <1>10 DEF BalancesBacked
  <2>2. ASSUME NEW u \in Users
        PROVE  points'[u] * Ten <= added'[u]
    <3>1. CASE u = q0.first
      BY <1>2, <1>4, <1>6, <1>8, <3>1 DEF Inv, TypeOK
    <3>2. CASE u # q0.first
      BY <1>2, <1>4, <1>5, <1>6, <3>2 DEF Inv, TypeOK
    <3> QED
      BY <3>1, <3>2
  <2>3. PointsBacked'
    BY <2>2 DEF PointsBacked, Ten
  <2>4. CountsRewarded'
    BY <1>4, <1>5, <1>6 DEF CountsRewarded
  <2> QED
    BY <2>1, <2>3, <2>4
<1>12. ReqOK(Idle, ledger', uneven', added', rewards') /\ \A o \in Users : ~ Halfway(Idle, o)
  BY DEF ReqOK, Halfway, Idle
<1> HIDE DEF q0
<1>13. \A o \in Users : Paired(req[r], Idle, o)
  BY <1>4, <1>5, <1>12 DEF Paired
<1> QED
  BY <1>3, <1>4, <1>6, <1>7, <1>9, <1>11, <1>12, <1>13, Step

\* The rows of a reward, with those of the bonus unless they are booked already.
LEMMA FinishReferralRows ==
  ASSUME Inv, NEW r \in Requests, FinishReferral(r)
  PROVE  /\ req[r] # Idle /\ req[r].pc = "last" /\ req[r].op = "refer"
         /\ req[r] \in Request /\ req[r].first # req[r].owner
         /\ req[r].second = req[r].owner
         /\ req[r].bal1 \in Nat /\ req[r].bal2 \in Nat /\ req[r].amt \in Nat /\ req[r].cnt \in Nat
         /\ req[r].held \in BOOLEAN /\ req[r].first \in Users /\ req[r].owner \in Users
         /\ Whole(req[r].bal1) /\ Whole(req[r].bal2)
         /\ Above(req[r].bal1, ledger[req[r].first], uneven[req[r].first])
         /\ Above(req[r].bal2, ledger[req[r].owner], uneven[req[r].owner])
         /\ req[r].cnt <= rewards[req[r].owner]
         /\ Grows /\ bonuses' \in [Users -> Nat]
         /\ \A u \in Users :
              /\ ledger'[u] = ledger[u] + IF u = req[r].owner \/ (req[r].held /\ u = req[r].first)
                                            THEN req[r].amt ELSE 0
              /\ uneven'[u] = uneven[u] + IF u = req[r].owner \/ (req[r].held /\ u = req[r].first)
                                            THEN Uneven(req[r].amt) ELSE 0
              /\ added'[u] = added[u] + 0
              /\ rewards'[u] = rewards[u] + IF u = req[r].owner THEN 1 ELSE 0
              /\ bonuses'[u] = bonuses[u] + IF u = req[r].owner /\ req[r].held THEN 1 ELSE 0
<1> DEFINE paid == {req[r].second} \cup (IF req[r].held THEN {req[r].first} ELSE {})
<1>1. req[r] # Idle /\ req[r].pc = "last" /\ req[r].op = "refer"
  BY DEF FinishReferral, Idle
<1>2. /\ req[r] \in Request /\ req[r].first # req[r].owner
      /\ req[r].second = req[r].owner
      /\ req[r].bal1 \in Nat /\ req[r].bal2 \in Nat /\ req[r].amt \in Nat /\ req[r].cnt \in Nat
      /\ req[r].held \in BOOLEAN /\ req[r].first \in Users /\ req[r].owner \in Users
      /\ Whole(req[r].bal1) /\ Whole(req[r].bal2)
      /\ Above(req[r].bal1, ledger[req[r].first], uneven[req[r].first])
      /\ Above(req[r].bal2, ledger[req[r].owner], uneven[req[r].owner])
      /\ req[r].cnt <= rewards[req[r].owner]
  BY <1>1, Shape DEF ReqOK
<1>3. /\ Grows /\ bonuses' \in [Users -> Nat]
      /\ \A u \in Users :
           /\ ledger'[u] = ledger[u] + IF u = req[r].owner \/ (req[r].held /\ u = req[r].first)
                                         THEN req[r].amt ELSE 0
           /\ uneven'[u] = uneven[u] + IF u = req[r].owner \/ (req[r].held /\ u = req[r].first)
                                         THEN Uneven(req[r].amt) ELSE 0
           /\ added'[u] = added[u] + 0
           /\ rewards'[u] = rewards[u] + IF u = req[r].owner THEN 1 ELSE 0
           /\ bonuses'[u] = bonuses[u] + IF u = req[r].owner /\ req[r].held THEN 1 ELSE 0
  <2>1. Book(req[r], paid) /\ BookKinds(req[r], paid)
    BY DEF FinishReferral
  <2>2. \A u : u \in paid <=> (u = req[r].owner \/ (req[r].held /\ u = req[r].first))
    BY <1>2
  <2>3. (paid \ {req[r].owner} # {}) <=> req[r].held
    BY <1>2
  <2> HIDE DEF paid
  <2>4. BookedRows(req[r], paid)
    BY <1>1, <2>1, Booked
  <2> QED
    BY <1>1, <1>2, <2>2, <2>3, <2>4 DEF BookedRows
<1> QED
  BY <1>1, <1>2, <1>3

\* The reward, with the bonus unless that is booked already.
LEMMA FinishReferralStep ==
  ASSUME Inv, NEW r \in Requests, FinishReferral(r)
  PROVE  Inv'
<1> DEFINE q0 == req[r]
<1>1. req[r] # Idle /\ q0.pc = "last" /\ q0.op = "refer"
  BY FinishReferralRows
<1>2. /\ q0 \in Request /\ q0.first # q0.owner /\ q0.second = q0.owner
      /\ q0.bal1 \in Nat /\ q0.bal2 \in Nat /\ q0.amt \in Nat /\ q0.cnt \in Nat
      /\ q0.held \in BOOLEAN /\ q0.first \in Users /\ q0.owner \in Users
      /\ Whole(q0.bal1) /\ Whole(q0.bal2)
      /\ Above(q0.bal1, ledger[q0.first], uneven[q0.first])
      /\ Above(q0.bal2, ledger[q0.owner], uneven[q0.owner])
      /\ q0.cnt <= rewards[q0.owner]
  BY FinishReferralRows
<1>3. req' = [req EXCEPT ![r] = Idle]
  BY DEF FinishReferral
<1>4. /\ Grows /\ bonuses' \in [Users -> Nat]
      /\ \A u \in Users :
           /\ ledger'[u] = ledger[u] + IF u = q0.owner \/ (q0.held /\ u = q0.first)
                                         THEN q0.amt ELSE 0
           /\ uneven'[u] = uneven[u] + IF u = q0.owner \/ (q0.held /\ u = q0.first)
                                         THEN Uneven(q0.amt) ELSE 0
           /\ added'[u] = added[u] + 0
           /\ rewards'[u] = rewards[u] + IF u = q0.owner THEN 1 ELSE 0
           /\ bonuses'[u] = bonuses[u] + IF u = q0.owner /\ q0.held THEN 1 ELSE 0
  BY FinishReferralRows
<1>5. \A u \in Users : /\ ledger[u] \in Nat /\ added[u] \in Nat /\ rewards[u] \in Nat
                       /\ bonuses[u] \in Nat /\ balance[u] \in Column /\ count[u] \in Column
                       /\ count[u] <= rewards[u]
  BY DEF Inv, TypeOK, CountsRewarded
<1>14. PICK b \in IF q0.held THEN Rounded(q0.bal1 + q0.amt) ELSE {balance[q0.first]},
            c \in Rounded(q0.bal2 + q0.amt) :
          balance' = [balance EXCEPT ![q0.first] = b, ![q0.second] = c]
  BY DEF FinishReferral
<1>15. b \in Column /\ c \in Nat
  <2>1. c \in Nat
    BY <1>2, RoundedIs
  <2>2. CASE q0.held
    BY <1>2, <2>1, <2>2, RoundedIs DEF Column
  <2>3. CASE ~ q0.held
    BY <1>2, <1>5, <2>1, <2>3
  <2> QED
    BY <2>2, <2>3
<1>6. /\ count' = [count EXCEPT ![q0.owner] = q0.cnt + 1]
      /\ points' = points /\ overlap' = overlap
  BY DEF FinishReferral, NewCount
<1>7. /\ balance' \in [Users -> Column] /\ points' \in [Users -> Column]
      /\ count' \in [Users -> Column]
  BY <1>2, <1>6, <1>14, <1>15 DEF Inv, TypeOK, Column
<1>8. ASSUME NEW u \in Users
      PROVE  BackedBy(balance'[u], ledger'[u], uneven'[u])
  <2>1. CASE u = q0.owner
    <3>1. /\ ledger'[u] = ledger[u] + q0.amt /\ uneven'[u] = uneven[u] + Uneven(q0.amt)
          /\ balance'[u] = c
      BY <1>2, <1>4, <1>14, <2>1 DEF Inv, TypeOK
    <3> HIDE DEF q0
    <3> QED
      BY <1>2, <1>14, <2>1, <3>1, CreditBacked
  <2>2. CASE u = q0.first /\ q0.held
    <3>1. /\ ledger'[u] = ledger[u] + q0.amt /\ uneven'[u] = uneven[u] + Uneven(q0.amt)
          /\ balance'[u] = b /\ b \in Rounded(q0.bal1 + q0.amt)
      BY <1>2, <1>4, <1>14, <2>2 DEF Inv, TypeOK
    <3> HIDE DEF q0
    <3> QED
      BY <1>2, <2>2, <3>1, CreditBacked
  <2>3. CASE u # q0.owner /\ ~ (u = q0.first /\ q0.held)
    <3>1. balance'[u] = balance[u]
      BY <1>2, <1>14, <2>3 DEF Inv, TypeOK
    <3> QED
      BY <1>4, <3>1, KeptBacked
  <2> QED
    BY <2>1, <2>2, <2>3
<1>9. \A u \in Users : count'[u] <= rewards'[u]
  BY <1>2, <1>4, <1>5, <1>6 DEF Inv, TypeOK, Column, None
<1>10. BalancesBacked' /\ PointsBacked' /\ CountsRewarded'
  <2>1. PointsBacked'
    BY <1>4, <1>6, PointsStay
  <2> QED
    BY <1>8, <1>9, <2>1 DEF BalancesBacked, CountsRewarded
<1>11. ReqOK(Idle, ledger', uneven', added', rewards') /\ \A o \in Users : ~ Halfway(Idle, o)
  BY DEF ReqOK, Halfway, Idle
<1>12. ~ q0.held => Halfway(q0, q0.owner)
  BY <1>1 DEF Halfway
<1> HIDE DEF q0
<1>13. \A o \in Users : Paired(q0, Idle, o)
  BY <1>2, <1>4, <1>5, <1>11, <1>12 DEF Paired
<1> QED
  BY <1>3, <1>4, <1>6, <1>7, <1>10, <1>11, <1>13, Step DEF q0

\* Without wallets the invariant holds.
LEMMA InitInv == Init => Inv
<1> SUFFICES ASSUME Init PROVE Inv
  OBVIOUS
<1>1. TypeOK
  BY DEF Init, TypeOK, Column
<1>2. RequestsOK
  BY DEF Init, RequestsOK, ReqOK
<1>3. BalancesBacked /\ PointsBacked /\ CountsRewarded
  <2>1. \A u \in Users : /\ balance[u] = -1 /\ points[u] = -1 /\ count[u] = -1
                         /\ ledger[u] = 0 /\ added[u] = 0 /\ rewards[u] = 0
    BY DEF Init, None
  <2> QED
    BY <2>1, TenIsNat DEF BalancesBacked, BackedBy, None, PointsBacked, CountsRewarded
<1>4. ASSUME NEW o \in Users
      PROVE  rewards[o] + Cardinality(HalfwayFor(req, o)) <= bonuses[o]
  <2>1. HalfwayFor(req, o) = {}
    BY DEF Init, HalfwayFor, Halfway, Idle
  <2>2. Cardinality(HalfwayFor(req, o)) = 0
    BY <2>1, FS_EmptySet
  <2> QED
    BY <2>2 DEF Init
<1> QED
  BY <1>1, <1>2, <1>3, <1>4 DEF Inv, BonusesAhead

\* Every step keeps the invariant.
LEMMA NextInv == Inv /\ [Next]_vars => Inv'
<1> SUFFICES ASSUME Inv, [Next]_vars PROVE Inv'
  OBVIOUS
<1>1. CASE UNCHANGED vars
  BY <1>1 DEF vars, Inv, TypeOK, RequestsOK, BalancesBacked, PointsBacked, CountsRewarded,
              BonusesAhead
<1>2. CASE \E u \in Users : OpenAccount(u)
  BY <1>2, OpenAccountStep
<1>3. ASSUME NEW r \in Requests,
             \/ AddMoney(r) \/ ApplyReferral(r) \/ FirstWallet(r) \/ SecondWalletFound(r)
             \/ SecondWalletNew(r) \/ LoyaltyFound(r) \/ LoyaltyNew(r) \/ FinishAdd(r)
             \/ FinishReferral(r) \/ Return(r)
      PROVE  Inv'
  BY <1>3, AddMoneyStep, ApplyReferralStep, FirstWalletStep, SecondWalletFoundStep,
     SecondWalletNewStep, LoyaltyFoundStep, LoyaltyNewStep, FinishAddStep,
     FinishReferralStep, ReturnStep
<1> QED
  BY <1>1, <1>2, <1>3 DEF Next

\* The strengthened invariant holds for every set of users, amounts and
\* overlapping requests of engagement.py.
THEOREM InvHolds == Spec => []Inv
  BY InitInv, NextInv, PTL DEF Spec

\* Every row and every snapshot of engagement.py keeps its type.
THEOREM TypeCorrect == Spec => []TypeOK
<1>1. Inv => TypeOK
  BY DEF Inv
<1> QED
  BY <1>1, InvHolds, PTL

\* However wallet_add_money and apply_referral overlap or die between their
\* commits, no balance exceeds its transactions by more than the rounding of
\* the amounts that are no whole paise, and no points a tenth of the money
\* added.
THEOREM NothingMade == Spec => []NothingFromNothing
<1>1. ASSUME Inv, NEW u \in Users
      PROVE  2 * (balance[u] - ledger[u]) <= Slack(uneven[u])
  <2>1. ledger[u] \in Nat /\ Slack(uneven[u]) \in Nat
    BY <1>1, SlackSum DEF Inv, TypeOK
  <2>2. BackedBy(balance[u], ledger[u], uneven[u])
    BY <1>1 DEF Inv, BalancesBacked
  <2> QED
    BY <2>1, <2>2 DEF BackedBy, Above, None
<1>2. Inv => NothingFromNothing
  BY <1>1 DEF Inv, PointsBacked, NothingFromNothing
<1> QED
  BY <1>2, InvHolds, PTL

\* However apply_referral overlaps itself or dies between its commits, a code
\* counts no more referrals than were rewarded, and no more are rewarded than
\* got their bonus.
THEOREM ReferralsArePaired == Spec => []ReferralsPaired
<1>1. ASSUME Inv, NEW o \in Users
      PROVE  count[o] <= rewards[o] /\ rewards[o] <= bonuses[o]
  <2>1. IsFiniteSet(HalfwayFor(req, o))
    BY RequestsAssumption, FS_Subset DEF HalfwayFor
  <2>2. Cardinality(HalfwayFor(req, o)) \in Nat
    BY <2>1, FS_CardinalityType
  <2>3. rewards[o] \in Nat /\ bonuses[o] \in Nat
    BY <1>1 DEF Inv, TypeOK
  <2>4. rewards[o] + Cardinality(HalfwayFor(req, o)) <= bonuses[o]
    BY <1>1 DEF Inv, BonusesAhead
  <2> QED
    BY <1>1, <2>2, <2>3, <2>4 DEF Inv, CountsRewarded
<1>2. Inv => ReferralsPaired
  BY <1>1 DEF ReferralsPaired
<1> QED
  BY <1>2, InvHolds, PTL

-----------------------------------------------------------------------------
(***************************************************************************)
(* One request at a time.  Then what the request read is what the tables    *)
(* still hold, and the lost updates are gone.                               *)
(***************************************************************************)
Alone == \A r, s \in Requests : req[r] # Idle /\ req[s] # Idle => r = s

Held(bal, u) == IF bal[u] = None THEN 0 ELSE bal[u]

WalletsNear == \A u \in Users : Near(Held(balance, u), ledger[u], uneven[u])
AllCounted == \A u \in Users : rewards[u] = IF count[u] = None THEN 0 ELSE count[u]
Agrees == WalletsNear /\ AllCounted

\* A request whose snapshots are current.
Current(q, bal, cnt) ==
  q # Idle =>
    /\ q.held => q.pc # "first" /\ q.bal1 = Held(bal, q.first)
    /\ q.pc = "last" /\ q.op = "refer" => q.bal2 = Held(bal, q.second)
    /\ q.op = "refer" => cnt[q.owner] # None /\ q.cnt = cnt[q.owner]

AllCurrent == \A r \in Requests : Current(req[r], balance, count)

SerialInv == ~ overlap => Alone /\ Agrees /\ AllCurrent

\* The step of the only request.
LEMMA SerialStep ==
  ASSUME Inv, ~ overlap, NEW r \in Requests, NEW q, req' = [req EXCEPT ![r] = q],
         \A s \in Requests \ {r} : req[s] = Idle,
         Agrees', Current(q, balance', count')
  PROVE  SerialInv'
<1>1. \A s \in Requests : req'[s] = IF s = r THEN q ELSE Idle
  BY DEF Inv, TypeOK
<1>2. Alone'
  BY <1>1 DEF Alone
<1>3. AllCurrent'
  BY <1>1 DEF AllCurrent, Current
<1> QED
  BY <1>2, <1>3 DEF SerialInv

\* An account that is opened holds as much as none.
LEMMA SameHeld ==
  ASSUME \A u \in Users : balance'[u] = balance[u] \/ (balance[u] = None /\ balance'[u] = 0)
  PROVE  \A u \in Users : Held(balance', u) = Held(balance, u)
  BY DEF Held, None

\* A step that books nothing and changes no count.
LEMMA SerialRead ==
  ASSUME Inv, SerialInv, ~ overlap, NEW r \in Requests, NEW q, req' = [req EXCEPT ![r] = q],
         \A s \in Requests \ {r} : req[s] = Idle,
         UNCHANGED <<count, txns>>, Current(q, balance', count),
         \A u \in Users : balance'[u] = balance[u] \/ (balance[u] = None /\ balance'[u] = 0)
  PROVE  SerialInv'
<1>1. ledger' = ledger /\ uneven' = uneven /\ rewards' = rewards /\ count' = count
  BY DEF txns
<1>2. WalletsNear'
  BY <1>1, SameHeld DEF SerialInv, Agrees, WalletsNear
<1>3. AllCounted'
  BY <1>1 DEF SerialInv, Agrees, AllCounted
<1> QED
  BY <1>1, <1>2, <1>3, SerialStep DEF Agrees

\* The request that arrives has read the counter of today.
LEMMA SerialBegin ==
  ASSUME Inv, SerialInv, NEW r \in Requests, NEW op, NEW f, NEW s, NEW o, NEW a, NEW c,
         op = "refer" => count[o] # None /\ c = count[o],
         Begin(r, op, f, s, o, a, c)
  PROVE  SerialInv'
<1> SUFFICES ASSUME ~ overlap PROVE SerialInv'
  BY DEF SerialInv, Begin
<1> DEFINE q == [pc |-> "first", op |-> op, first |-> f, second |-> s, owner |-> o, amt |-> a,
                 bal1 |-> 0, bal2 |-> 0, pts |-> 0, cnt |-> c, held |-> FALSE]
<1>1. /\ req' = [req EXCEPT ![r] = q] /\ UNCHANGED <<balance, count, txns>>
      /\ \A t \in Requests : req[t] = Idle
  BY DEF Begin, Open, Quiet
<1>2. Current(q, balance', count)
  BY DEF Current
<1> HIDE DEF q
<1> QED
  BY <1>1, <1>2, SerialRead

\* Both requests do.
LEMMA SerialBegins ==
  ASSUME Inv, SerialInv, NEW r \in Requests, AddMoney(r) \/ ApplyReferral(r)
  PROVE  SerialInv'
<1>1. CASE AddMoney(r)
  <2>1. PICK u \in Users, a \in Amounts : Begin(r, "add", u, u, u, a, 0)
    BY <1>1 DEF AddMoney
  <2> QED
    BY <2>1, SerialBegin
<1>2. CASE ApplyReferral(r)
  <2>1. PICK u \in Users, o \in Users :
          count[o] # None /\ Begin(r, "refer", u, o, o, Reward, count[o])
    BY <1>2 DEF ApplyReferral, Credited, CodeFits
  <2> QED
    BY <2>1, SerialBegin
<1> QED
  BY <1>1, <1>2

\* A code is opened with a counter of zero.
LEMMA SerialOpen ==
  ASSUME Inv, SerialInv, NEW u \in Users, OpenAccount(u)
  PROVE  SerialInv'
<1>1. /\ overlap' = overlap /\ ledger' = ledger /\ uneven' = uneven
      /\ rewards' = rewards /\ req' = req
  BY DEF OpenAccount, txns
<1> SUFFICES ASSUME ~ overlap PROVE SerialInv'
  BY <1>1 DEF SerialInv
<1>2. \A r \in Requests : req[r] = Idle
  BY DEF OpenAccount, Quiet
<1>3. \A v \in Users : /\ balance'[v] = balance[v] \/ (balance[v] = None /\ balance'[v] = 0)
                       /\ count'[v] = count[v] \/ (count[v] = None /\ count'[v] = 0)
  BY DEF OpenAccount, Inv, TypeOK
<1>4. Agrees'
  <2>1. WalletsNear'
    BY <1>1, <1>3, SameHeld DEF SerialInv, Agrees, WalletsNear
  <2>2. AllCounted'
    BY <1>1, <1>3 DEF SerialInv, Agrees, AllCounted, None
  <2> QED
    BY <2>1, <2>2 DEF Agrees
<1> QED
  BY <1>1, <1>2, <1>4 DEF SerialInv, Alone, AllCurrent, Current

\* The request that moves is the only one.
LEMMA OnlyOne ==
  ASSUME SerialInv, ~ overlap, NEW r \in Requests, req[r] # Idle
  PROVE  \A s \in Requests \ {r} : req[s] = Idle
  BY DEF SerialInv, Alone

\* Steps that read or end write nothing.
LEMMA SerialReads ==
  ASSUME Inv, SerialInv, NEW r \in Requests,
         FirstWallet(r) \/ SecondWalletFound(r) \/ LoyaltyFound(r) \/ Return(r)
  PROVE  SerialInv'
<1>1. req[r] # Idle /\ overlap' = overlap /\ UNCHANGED <<count, txns>>
  BY DEF FirstWallet, SecondWalletFound, LoyaltyFound, Return, BookNothing, Idle
<1> SUFFICES ASSUME ~ overlap PROVE SerialInv'
  BY <1>1 DEF SerialInv
<1> DEFINE q0 == req[r]
<1>2. /\ q0 \in Request /\ q0.first \in Users /\ q0.second \in Users
      /\ q0.op \in {"add", "refer"}
      /\ ReqOK(q0, ledger, uneven, added, rewards) /\ Current(q0, balance, count)
  BY <1>1, Shape DEF SerialInv, AllCurrent
<1>3. CASE FirstWallet(r)
  <2> DEFINE b == balance[req[r].first]
             q == [req[r] EXCEPT !.pc = IF req[r].op = "add" THEN "loyalty" ELSE "second",
                                 !.bal1 = IF b = None THEN 0 ELSE b, !.held = TRUE]
  <2>1. req' = [req EXCEPT ![r] = q]
    BY <1>3 DEF FirstWallet, Inv, TypeOK
  <2>2. Current(q, balance', count)
    BY <1>1, <1>2, <1>3 DEF FirstWallet, Current, Request, Held, None, Inv, TypeOK
  <2>3. \A u \in Users : balance'[u] = balance[u] \/ (balance[u] = None /\ balance'[u] = 0)
    BY <1>3 DEF FirstWallet, Inv, TypeOK
  <2> HIDE DEF q
  <2> QED
    BY <1>1, <2>1, <2>2, <2>3, OnlyOne, SerialRead
<1>4. CASE SecondWalletFound(r)
  <2> DEFINE q == [req[r] EXCEPT !.pc = "last", !.bal2 = balance[req[r].second]]
  <2>1. req' = [req EXCEPT ![r] = q] /\ balance' = balance
    BY <1>4 DEF SecondWalletFound, Inv, TypeOK
  <2>2. Current(q, balance', count)
    BY <1>1, <1>2, <1>4, <2>1 DEF SecondWalletFound, Current, Request, Held
  <2> HIDE DEF q
  <2> QED
    BY <1>1, <2>1, <2>2, OnlyOne, SerialRead
<1>5. CASE LoyaltyFound(r)
  <2> DEFINE q == [req[r] EXCEPT !.pc = "last", !.pts = points[req[r].first]]
  <2>1. req' = [req EXCEPT ![r] = q] /\ balance' = balance
    BY <1>5 DEF LoyaltyFound, Inv, TypeOK
  <2>2. Current(q, balance', count)
    BY <1>1, <1>2, <1>5, <2>1 DEF LoyaltyFound, Current, Request, ReqOK
  <2> HIDE DEF q
  <2> QED
    BY <1>1, <2>1, <2>2, OnlyOne, SerialRead
<1>6. CASE Return(r)
  <2>1. req' = [req EXCEPT ![r] = Idle] /\ balance' = balance
    BY <1>6 DEF Return
  <2>2. Current(Idle, balance', count)
    BY DEF Current
  <2> QED
    BY <1>1, <2>1, <2>2, OnlyOne, SerialRead
<1> QED
  BY <1>3, <1>4, <1>5, <1>6

\* In the commits below the only request writes what it read plus something,
\* and what it read is what the tables hold: a wallet that is left alone, or
\* that of a new account.
LEMMA KeptNear ==
  ASSUME Inv, Agrees, NEW u \in Users, Held(balance', u) = Held(balance, u),
         ledger'[u] = ledger[u], uneven'[u] = uneven[u]
  PROVE  Near(Held(balance', u), ledger'[u], uneven'[u])
  BY DEF Agrees, WalletsNear

\* A wallet that is credited.
LEMMA CreditNear ==
  ASSUME Inv, Agrees, NEW u \in Users, NEW b \in Nat, NEW a \in Nat,
         Whole(b), b = Held(balance, u), balance'[u] \in Rounded(b + a),
         ledger'[u] = ledger[u] + a, uneven'[u] = uneven[u] + Uneven(a)
  PROVE  Near(Held(balance', u), ledger'[u], uneven'[u])
<1>1. ledger[u] \in Nat /\ uneven[u] \in Nat /\ Near(b, ledger[u], uneven[u])
  BY DEF Inv, TypeOK, Agrees, WalletsNear
<1> DEFINE y == balance'[u]
<1>2. y \in Rounded(b + a)
  OBVIOUS
<1> HIDE DEF y
<1>3. y \in Nat /\ Near(y, ledger[u] + a, uneven[u] + Uneven(a))
  BY <1>1, <1>2, CreditIs
<1>4. Held(balance', u) = y
  BY <1>3 DEF Held, None, y
<1> QED
  BY <1>3, <1>4

\* The bonus is committed with the new account of the owner.
LEMMA SerialSecondWalletNew ==
  ASSUME Inv, SerialInv, ~ overlap, NEW r \in Requests, SecondWalletNew(r)
  PROVE  SerialInv'
<1> DEFINE q0 == req[r]
           q == [req[r] EXCEPT !.pc = "last", !.bal2 = 0, !.held = FALSE]
<1>1. /\ req[r] # Idle /\ q0 \in Request /\ balance[q0.second] = None
      /\ q0.first \in Users /\ q0.second \in Users /\ q0.amt \in Nat
      /\ q0.first # q0.second /\ q0.bal1 \in Nat /\ Whole(q0.bal1)
  BY SecondWalletNewRows
<1>2. \A u \in Users :
        /\ ledger'[u] = ledger[u] + IF u = q0.first THEN q0.amt ELSE 0
        /\ uneven'[u] = uneven[u] + IF u = q0.first THEN Uneven(q0.amt) ELSE 0
        /\ rewards'[u] = rewards[u] + 0
  BY SecondWalletNewRows
<1>3. q0.bal1 = Held(balance, q0.first) /\ Current(q0, balance, count)
  BY <1>1, Shape DEF SerialInv, AllCurrent, Current, ReqOK, SecondWalletNew
<1>4. \A u \in Users : ledger[u] \in Nat /\ uneven[u] \in Nat /\ rewards[u] \in Nat
  BY DEF Inv, TypeOK
<1>5. PICK b \in Rounded(q0.bal1 + q0.amt) :
        balance' = [balance EXCEPT ![q0.first] = b, ![q0.second] = 0]
  BY DEF SecondWalletNew
<1>6. count' = count
  BY DEF SecondWalletNew
<1>7. ASSUME NEW u \in Users
      PROVE  Near(Held(balance', u), ledger'[u], uneven'[u])
  <2>1. CASE u = q0.first
    <3>1. /\ ledger'[u] = ledger[u] + q0.amt /\ uneven'[u] = uneven[u] + Uneven(q0.amt)
          /\ balance'[u] = b
      BY <1>1, <1>2, <1>5, <2>1 DEF Inv, TypeOK
    <3> HIDE DEF q0
    <3> QED
      BY <1>1, <1>3, <1>5, <2>1, <3>1, CreditNear DEF SerialInv
  <2>2. CASE u # q0.first
    <3>1. Held(balance', u) = Held(balance, u)
      BY <1>1, <1>5, <2>2 DEF Inv, TypeOK, Held, None
    <3>2. ledger'[u] = ledger[u] /\ uneven'[u] = uneven[u]
      BY <1>2, <1>4, <2>2
    <3> QED
      BY <3>1, <3>2, KeptNear DEF SerialInv
  <2> QED
    BY <2>1, <2>2
<1>8. Agrees'
  <2>1. AllCounted'
    BY <1>2, <1>4, <1>6 DEF SerialInv, Agrees, AllCounted
  <2> QED
    BY <1>7, <2>1 DEF Agrees, WalletsNear
<1>9. Current(q, balance', count')
  BY <1>1, <1>3, <1>5, <1>6 DEF Current, Request, Held, Inv, TypeOK
<1>10. req' = [req EXCEPT ![r] = q]
  BY DEF SecondWalletNew, Inv, TypeOK
<1> HIDE DEF q
<1> QED
  BY <1>1, <1>8, <1>9, <1>10, OnlyOne, SerialStep

\* A loyalty row is made, and with it what was held is committed.
LEMMA SerialLoyaltyNew ==
  ASSUME Inv, SerialInv, ~ overlap, NEW r \in Requests, LoyaltyNew(r)
  PROVE  SerialInv'
<1> DEFINE q0 == req[r]
           q == [req[r] EXCEPT !.pc = "last", !.pts = 0, !.held = FALSE]
<1>1. /\ req[r] # Idle /\ q0 \in Request /\ q0.op = "add"
      /\ q0.first \in Users /\ q0.amt \in Nat /\ q0.bal1 \in Nat /\ Whole(q0.bal1)
  BY LoyaltyNewRows
<1>2. \A u \in Users :
        /\ ledger'[u] = ledger[u] + IF u = q0.first THEN q0.amt ELSE 0
        /\ uneven'[u] = uneven[u] + IF u = q0.first THEN Uneven(q0.amt) ELSE 0
        /\ rewards'[u] = rewards[u] + 0
  BY LoyaltyNewRows
<1>3. q0.bal1 = Held(balance, q0.first)
  BY <1>1, Shape DEF SerialInv, AllCurrent, Current, ReqOK, LoyaltyNew
<1>4. \A u \in Users : ledger[u] \in Nat /\ uneven[u] \in Nat /\ rewards[u] \in Nat
  BY DEF Inv, TypeOK
<1>5. PICK b \in Rounded(q0.bal1 + q0.amt) : balance' = [balance EXCEPT ![q0.first] = b]
  BY DEF LoyaltyNew
<1>6. count' = count
  BY DEF LoyaltyNew
<1>7. ASSUME NEW u \in Users
      PROVE  Near(Held(balance', u), ledger'[u], uneven'[u])
  <2>1. CASE u = q0.first
    <3>1. /\ ledger'[u] = ledger[u] + q0.amt /\ uneven'[u] = uneven[u] + Uneven(q0.amt)
          /\ balance'[u] = b
      BY <1>1, <1>2, <1>5, <2>1 DEF Inv, TypeOK
    <3> HIDE DEF q0
    <3> QED
      BY <1>1, <1>3, <1>5, <2>1, <3>1, CreditNear DEF SerialInv
  <2>2. CASE u # q0.first
    <3>1. Held(balance', u) = Held(balance, u)
      BY <1>1, <1>5, <2>2 DEF Inv, TypeOK, Held
    <3>2. ledger'[u] = ledger[u] /\ uneven'[u] = uneven[u]
      BY <1>2, <1>4, <2>2
    <3> QED
      BY <3>1, <3>2, KeptNear DEF SerialInv
  <2> QED
    BY <2>1, <2>2
<1>8. Agrees'
  <2>1. AllCounted'
    BY <1>2, <1>4, <1>6 DEF SerialInv, Agrees, AllCounted
  <2> QED
    BY <1>7, <2>1 DEF Agrees, WalletsNear
<1>9. Current(q, balance', count')
  BY <1>1 DEF Current, Request
<1>10. req' = [req EXCEPT ![r] = q]
  BY DEF LoyaltyNew, Inv, TypeOK
<1> HIDE DEF q
<1> QED
  BY <1>1, <1>8, <1>9, <1>10, OnlyOne, SerialStep

\* The money is added to the balance of today.
LEMMA SerialFinishAdd ==
  ASSUME Inv, SerialInv, ~ overlap, NEW r \in Requests, FinishAdd(r)
  PROVE  SerialInv'
<1> DEFINE q0 == req[r]
<1>1. /\ req[r] # Idle /\ q0.first \in Users /\ q0.amt \in Nat /\ q0.held \in BOOLEAN
      /\ q0.bal1 \in Nat /\ Whole(q0.bal1)
      /\ \A u \in Users :
           /\ ledger'[u] = ledger[u] + IF q0.held /\ u = q0.first THEN q0.amt ELSE 0
           /\ uneven'[u] = uneven[u] + IF q0.held /\ u = q0.first THEN Uneven(q0.amt) ELSE 0
           /\ rewards'[u] = rewards[u] + 0
  BY FinishAddRows
<1>2. q0.held => q0.bal1 = Held(balance, q0.first)
  BY <1>1 DEF SerialInv, AllCurrent, Current
<1>3. \A u \in Users : ledger[u] \in Nat /\ uneven[u] \in Nat /\ rewards[u] \in Nat
  BY DEF Inv, TypeOK
<1>4. /\ \A u \in Users : (u = q0.first /\ q0.held) \/ balance'[u] = balance[u]
      /\ q0.held => balance'[q0.first] \in Rounded(q0.bal1 + q0.amt)
      /\ count' = count
  BY <1>1 DEF FinishAdd, Inv, TypeOK
<1>5. ASSUME NEW u \in Users
      PROVE  Near(Held(balance', u), ledger'[u], uneven'[u])
  <2>1. CASE u = q0.first /\ q0.held
    <3>1. /\ ledger'[u] = ledger[u] + q0.amt /\ uneven'[u] = uneven[u] + Uneven(q0.amt)
          /\ balance'[u] \in Rounded(q0.bal1 + q0.amt)
      BY <1>1, <1>4, <2>1
    <3> HIDE DEF q0
    <3> QED
      BY <1>1, <1>2, <2>1, <3>1, CreditNear DEF SerialInv
  <2>2. CASE ~ (u = q0.first /\ q0.held)
    <3>1. ledger'[u] = ledger[u] /\ uneven'[u] = uneven[u] /\ balance'[u] = balance[u]
      BY <1>1, <1>3, <1>4, <2>2
    <3> QED
      BY <3>1, KeptNear DEF SerialInv, Held
  <2> QED
    BY <2>1, <2>2
<1>6. Agrees'
  <2>1. AllCounted'
    BY <1>1, <1>3, <1>4 DEF SerialInv, Agrees, AllCounted
  <2> QED
    BY <1>5, <2>1 DEF Agrees, WalletsNear
<1>7. Current(Idle, balance', count')
  BY DEF Current
<1>8. req' = [req EXCEPT ![r] = Idle]
  BY DEF FinishAdd
<1> QED
  BY <1>1, <1>6, <1>7, <1>8, OnlyOne, SerialStep

\* The rewards are added to the balances of today.
LEMMA SerialFinishReferral ==
  ASSUME Inv, SerialInv, ~ overlap, NEW r \in Requests, FinishReferral(r)
  PROVE  SerialInv'
<1> DEFINE q0 == req[r]
<1>1. /\ req[r] # Idle /\ q0.pc = "last" /\ q0.op = "refer"
      /\ q0.first \in Users /\ q0.owner \in Users /\ q0.amt \in Nat
      /\ q0.first # q0.owner /\ q0.second = q0.owner
      /\ q0.held \in BOOLEAN /\ q0.cnt \in Nat
      /\ q0.bal1 \in Nat /\ Whole(q0.bal1) /\ q0.bal2 \in Nat /\ Whole(q0.bal2)
      /\ \A u \in Users :
           /\ ledger'[u] = ledger[u] + IF u = q0.owner \/ (q0.held /\ u = q0.first)
                                         THEN q0.amt ELSE 0
           /\ uneven'[u] = uneven[u] + IF u = q0.owner \/ (q0.held /\ u = q0.first)
                                         THEN Uneven(q0.amt) ELSE 0
           /\ rewards'[u] = rewards[u] + IF u = q0.owner THEN 1 ELSE 0
  BY FinishReferralRows
<1>2. /\ q0.held => q0.bal1 = Held(balance, q0.first)
      /\ q0.bal2 = Held(balance, q0.owner)
      /\ count[q0.owner] # None /\ q0.cnt = count[q0.owner]
  BY <1>1 DEF SerialInv, AllCurrent, Current
<1>3. \A u \in Users : ledger[u] \in Nat /\ uneven[u] \in Nat /\ rewards[u] \in Nat
  BY DEF Inv, TypeOK
<1>4. PICK b \in IF q0.held THEN Rounded(q0.bal1 + q0.amt) ELSE {balance[q0.first]},
           c \in Rounded(q0.bal2 + q0.amt) :
         balance' = [balance EXCEPT ![q0.first] = b, ![q0.second] = c]
  BY DEF FinishReferral
<1>5. count' = [count EXCEPT ![q0.owner] = q0.cnt + 1]
  BY DEF FinishReferral, NewCount
<1>6. ASSUME NEW u \in Users
      PROVE  Near(Held(balance', u), ledger'[u], uneven'[u])
  <2>1. CASE u = q0.owner
    <3>1. /\ ledger'[u] = ledger[u] + q0.amt /\ uneven'[u] = uneven[u] + Uneven(q0.amt)
          /\ balance'[u] = c
      BY <1>1, <1>4, <2>1 DEF Inv, TypeOK
    <3> HIDE DEF q0
    <3> QED
      BY <1>1, <1>2, <1>4, <2>1, <3>1, CreditNear DEF SerialInv
  <2>2. CASE u = q0.first /\ q0.held
    <3>1. /\ ledger'[u] = ledger[u] + q0.amt /\ uneven'[u] = uneven[u] + Uneven(q0.amt)
          /\ balance'[u] = b /\ b \in Rounded(q0.bal1 + q0.amt)
      BY <1>1, <1>4, <2>2 DEF Inv, TypeOK
    <3> HIDE DEF q0
    <3> QED
      BY <1>1, <1>2, <2>2, <3>1, CreditNear DEF SerialInv
  <2>3. CASE u # q0.owner /\ ~ (u = q0.first /\ q0.held)
    <3>1. balance'[u] = balance[u]
      BY <1>1, <1>4, <2>3 DEF Inv, TypeOK
    <3>2. ledger'[u] = ledger[u] /\ uneven'[u] = uneven[u]
      BY <1>1, <1>3, <2>3
    <3> QED
      BY <3>1, <3>2, KeptNear DEF SerialInv, Held
  <2> QED
    BY <2>1, <2>2, <2>3
<1>7. Agrees'
  <2>1. AllCounted'
    BY <1>1, <1>2, <1>3, <1>5 DEF SerialInv, Agrees, AllCounted, Inv, TypeOK, None
  <2> QED
    BY <1>6, <2>1 DEF Agrees, WalletsNear
<1>8. Current(Idle, balance', count')
  BY DEF Current
<1>9. req' = [req EXCEPT ![r] = Idle]
  BY DEF FinishReferral
<1> QED
  BY <1>1, <1>7, <1>8, <1>9, OnlyOne, SerialStep

\* Without transactions every wallet is empty.
LEMMA SerialInit == Init => SerialInv
<1> SUFFICES ASSUME Init PROVE SerialInv
  OBVIOUS
<1>1. WalletsNear
  <2>1. Slack(0) = 0
    BY PaisaAssumption DEF Slack
  <2>2. \A u \in Users : Held(balance, u) = 0 /\ ledger[u] = 0 /\ uneven[u] = 0
    BY DEF Init, Held
  <2> QED
    BY <2>1, <2>2 DEF WalletsNear, Near, Above
<1>2. AllCounted
  BY DEF Init, AllCounted, None
<1>3. Alone /\ AllCurrent
  BY DEF Init, Alone, AllCurrent, Current
<1> QED
  BY <1>1, <1>2, <1>3 DEF SerialInv, Agrees

\* Every step keeps every wallet what its transactions add up to.
LEMMA SerialNext == Inv /\ SerialInv /\ [Next]_vars => SerialInv'
<1> SUFFICES ASSUME Inv, SerialInv, [Next]_vars PROVE SerialInv'
  OBVIOUS
<1>1. CASE UNCHANGED vars
  BY <1>1 DEF vars, SerialInv, Alone, Agrees, WalletsNear, AllCounted, AllCurrent
<1>2. CASE \E u \in Users : OpenAccount(u)
  BY <1>2, SerialOpen
<1>3. ASSUME NEW r \in Requests, AddMoney(r) \/ ApplyReferral(r)
      PROVE  SerialInv'
  BY <1>3, SerialBegins
<1>4. ASSUME NEW r \in Requests,
             FirstWallet(r) \/ SecondWalletFound(r) \/ LoyaltyFound(r) \/ Return(r)
      PROVE  SerialInv'
  BY <1>4, SerialReads
<1>5. ASSUME NEW r \in Requests,
             SecondWalletNew(r) \/ LoyaltyNew(r) \/ FinishAdd(r) \/ FinishReferral(r)
      PROVE  SerialInv'
  <2>1. overlap' = overlap
    BY <1>5 DEF SecondWalletNew, LoyaltyNew, FinishAdd, FinishReferral
  <2>2. CASE overlap
    BY <2>1, <2>2 DEF SerialInv
  <2>3. CASE ~ overlap
    BY <1>5, <2>3, SerialSecondWalletNew, SerialLoyaltyNew, SerialFinishAdd,
       SerialFinishReferral
  <2> QED
    BY <2>2, <2>3
<1> QED
  BY <1>1, <1>2, <1>3, <1>4, <1>5 DEF Next

\* One request at a time, whichever of its commits wallet_add_money or
\* apply_referral dies at, the wallet is what its transactions add up to, but
\* for the rounding of the amounts that are no whole paise, and a code has
\* counted every reward.
THEOREM SerialLedgerAgrees == Spec => []LedgerAgrees
<1>1. SerialInv => LedgerAgrees
  BY DEF SerialInv, Agrees, WalletsNear, AllCounted, Held, Near, Above, LedgerAgrees
<1> QED
  BY <1>1, InvHolds, SerialInit, SerialNext, PTL DEF Spec
=============================================================================
