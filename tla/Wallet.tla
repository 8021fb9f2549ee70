------------------------------- MODULE Wallet -------------------------------
(***************************************************************************)
(* Wallet, loyalty points and referrals of the customers: order_service     *)
(* engagement.py.  The helpers _wallet and _loyalty insert a missing row    *)
(* and commit, and with it whatever the caller had changed so far: adding   *)
(* money and applying a referral code take one to three commits.            *)
(*                                                                          *)
(* The rows of wallet_txns are kept as their sums.  An amount is stored as  *)
(* the caller sent it, the balance is rounded to the paisa: money is        *)
(* counted in a unit that splits the paisa.  The second of two requests     *)
(* that insert the same account fails on its unique user.                   *)
(***************************************************************************)
EXTENDS Integers, FiniteSets

CONSTANTS
  Requests,    \* request slots
  Users,
  Paisa,       \* units in a paisa
  Amounts,     \* sums that are added
  Reward       \* reward_amount of a referral code

ASSUME RequestsAssumption == IsFiniteSet(Requests)
ASSUME PaisaAssumption == Paisa \in Nat \ {0}
\* From one rupee to 50,000 rupees.
ASSUME AmountsAssumption ==
  /\ Amounts \subseteq (100 * Paisa) .. (5000000 * Paisa)
  /\ Reward \in Nat \ {0}

VARIABLES
  balance,     \* wallet_accounts.balance; None: no row
  points,      \* loyalty_accounts.lifetime_points; None: no row
  count,       \* referral_codes.referred_count; None: no code
  ledger,      \* wallet_txns: the amounts of each user summed
  uneven,      \* wallet_txns: number of rows whose amount is no whole paisa
  added,       \* wallet_txns: those of Added Money alone
  bonuses,     \* wallet_txns: number of Referral bonus rows, by owner of the code
  rewards,     \* wallet_txns: number of Referral reward rows, by owner
  req,         \* the requests in flight
  overlap      \* whether requests overlap in this behaviour; never changes

txns == <<ledger, uneven, added, bonuses, rewards>>
vars == <<balance, points, count, ledger, uneven, added, bonuses, rewards, req, overlap>>

None == -1
Column == Nat \cup {None}

\* first, second: the users credited; amt: the sum; bal: the balance read for
\* each; pts, cnt: the other columns read; held: the first credit is not
\* committed yet.
Request == [pc : {"first", "second", "loyalty", "last"}, op : {"add", "refer"},
            first : Users, second : Users, owner : Users, amt : Nat, bal1 : Nat, bal2 : Nat,
            pts : Nat, cnt : Nat, held : BOOLEAN]
Idle == [pc |-> "idle"]
Quiet == \A r \in Requests : req[r] = Idle

Init ==
  /\ balance = [u \in Users |-> None]
  /\ points = [u \in Users |-> None]
  /\ count = [u \in Users |-> None]
  /\ ledger = [u \in Users |-> 0]
  /\ uneven = [u \in Users |-> 0]
  /\ added = [u \in Users |-> 0]
  /\ bonuses = [u \in Users |-> 0]
  /\ rewards = [u \in Users |-> 0]
  /\ req = [r \in Requests |-> Idle]
  /\ overlap \in BOOLEAN

-----------------------------------------------------------------------------
(***************************************************************************)
(* The balance after a credit: round(balance + amount, 2).  Half a paisa is *)
(* rounded up or down, as the float nearest to the sum lies.                *)
(***************************************************************************)
Whole(x) == x % Paisa = 0

Neighbours(x) == {x - (x % Paisa), x - (x % Paisa) + Paisa}

Rounded_Up(x) == IF Whole(x) THEN {x} ELSE {x - (x % Paisa) + Paisa}
Rounded(x) == {y \in Neighbours(x) : 2 * (y - x) <= Paisa /\ 2 * (x - y) <= Paisa}

-----------------------------------------------------------------------------
Open(r) == req[r] = Idle /\ (overlap \/ Quiet)

\* A GET of the wallet or of the referral code opens the missing row.
OpenAccount(u) ==
  /\ \/ /\ balance[u] = None
        /\ balance' = [balance EXCEPT ![u] = 0]
        /\ UNCHANGED <<points, count>>
     \/ /\ points[u] = None
        /\ points' = [points EXCEPT ![u] = 0]
        /\ UNCHANGED <<balance, count>>
     \/ /\ count[u] = None
        /\ count' = [count EXCEPT ![u] = 0]
        /\ UNCHANGED <<balance, points>>
  /\ overlap \/ Quiet
  /\ UNCHANGED <<txns, req, overlap>>

Begin(r, op, first, second, owner, amt, cnt) ==
  /\ Open(r)
  /\ req' = [req EXCEPT ![r] = [pc |-> "first", op |-> op, first |-> first, second |-> second,
                                owner |-> owner, amt |-> amt, bal1 |-> 0, bal2 |-> 0,
                                pts |-> 0, cnt |-> cnt, held |-> FALSE]]
  /\ UNCHANGED <<balance, points, count, txns, overlap>>

\* wallet_add_money
AddMoney(r) ==
  \E u \in Users, a \in Amounts : Begin(r, "add", u, u, u, a, 0)

\* apply_referral: the user is credited first, then the owner of the code.
Credited_OwnerFirst(u, o) == <<o, u>>
Credited(u, o) == <<u, o>>

CodeFits(u, o) == u # o /\ count[o] # None

ApplyReferral(r) ==
  \E u, o \in Users :
    /\ CodeFits(u, o)
    /\ Begin(r, "refer", Credited(u, o)[1], Credited(u, o)[2], o, Reward, count[o])

-----------------------------------------------------------------------------
(***************************************************************************)
(* The rows a commit writes.                                                *)
(***************************************************************************)
Uneven(amt) == IF Whole(amt) THEN 0 ELSE 1

\* Each of the users in `paid' gets a row.
Book(q, paid) ==
  /\ ledger' = [u \in Users |-> ledger[u] + IF u \in paid THEN q.amt ELSE 0]
  /\ uneven' = [u \in Users |-> uneven[u] + IF u \in paid THEN Uneven(q.amt) ELSE 0]

BookKinds(q, paid) ==
  /\ added' = [u \in Users |-> added[u] + IF q.op = "add" /\ u \in paid THEN q.amt ELSE 0]
  /\ rewards' = [o \in Users |-> rewards[o] + IF q.op = "refer" /\ o = q.owner /\ o \in paid
                                                THEN 1 ELSE 0]
  /\ bonuses' = [o \in Users |-> bonuses[o] + IF /\ q.op = "refer" /\ o = q.owner
                                                 /\ paid \ {q.owner} # {}
                                                THEN 1 ELSE 0]

BookNothing == UNCHANGED txns

-----------------------------------------------------------------------------
(***************************************************************************)
(* The accounts, in the order they are looked up.                           *)
(***************************************************************************)
FirstWallet(r) ==
  LET q == req[r]
  IN  /\ q.pc = "first"
      /\ balance' = [balance EXCEPT ![q.first] = IF @ = None THEN 0 ELSE @]
      /\ req' = [req EXCEPT ![r].pc = IF q.op = "add" THEN "loyalty" ELSE "second",
                            ![r].bal1 = IF balance[q.first] = None THEN 0 ELSE balance[q.first],
                            ![r].held = TRUE]
      /\ BookNothing
      /\ UNCHANGED <<points, count, overlap>>

SecondWalletFound(r) ==
  LET q == req[r]
  IN  /\ q.pc = "second" /\ balance[q.second] # None
      /\ req' = [req EXCEPT ![r].pc = "last", ![r].bal2 = balance[q.second]]
      /\ BookNothing
      /\ UNCHANGED <<balance, points, count, overlap>>

\* The commit of the new account takes the first credit with it.
SecondWalletNew(r) ==
  LET q == req[r]
  IN  /\ q.pc = "second" /\ balance[q.second] = None
      /\ \E b \in Rounded(q.bal1 + q.amt) :
           balance' = [balance EXCEPT ![q.first] = b, ![q.second] = 0]
      /\ Book(q, {q.first}) /\ BookKinds(q, {q.first})
      /\ req' = [req EXCEPT ![r].pc = "last", ![r].bal2 = 0, ![r].held = FALSE]
      /\ UNCHANGED <<points, count, overlap>>

LoyaltyFound(r) ==
  LET q == req[r]
  IN  /\ q.pc = "loyalty" /\ points[q.first] # None
      /\ req' = [req EXCEPT ![r].pc = "last", ![r].pts = points[q.first]]
      /\ BookNothing
      /\ UNCHANGED <<balance, points, count, overlap>>

LoyaltyNew(r) ==
  LET q == req[r]
  IN  /\ q.pc = "loyalty" /\ points[q.first] = None
      /\ \E b \in Rounded(q.bal1 + q.amt) : balance' = [balance EXCEPT ![q.first] = b]
      /\ Book(q, {q.first}) /\ BookKinds(q, {q.first})
      /\ points' = [points EXCEPT ![q.first] = 0]
      /\ req' = [req EXCEPT ![r].pc = "last", ![r].pts = 0, ![r].held = FALSE]
      /\ UNCHANGED <<count, overlap>>

-----------------------------------------------------------------------------
\* One point for every ten rupees.
Ten == 1000 * Paisa
Points(amt) == amt \div Ten

\* An unchanged column is not written.
NewPoints(q, cur) == IF Points(q.amt) = 0 THEN cur ELSE q.pts + Points(q.amt)

FinishAdd(r) ==
  LET q == req[r]
      paid == IF q.held THEN {q.first} ELSE {}
  IN  /\ q.pc = "last" /\ q.op = "add"
      /\ IF q.held
           THEN \E b \in Rounded(q.bal1 + q.amt) : balance' = [balance EXCEPT ![q.first] = b]
           ELSE balance' = balance
      /\ Book(q, paid) /\ BookKinds(q, paid)
      /\ points' = [points EXCEPT ![q.first] = NewPoints(q, @)]
      /\ req' = [req EXCEPT ![r] = Idle]
      /\ UNCHANGED <<count, overlap>>

NewCount_Kept(q) == q.cnt
NewCount(q) == q.cnt + 1

FinishReferral(r) ==
  LET q == req[r]
      paid == {q.second} \cup (IF q.held THEN {q.first} ELSE {})
  IN  /\ q.pc = "last" /\ q.op = "refer"
      /\ \E b \in IF q.held THEN Rounded(q.bal1 + q.amt) ELSE {balance[q.first]} :
           \E c \in Rounded(q.bal2 + q.amt) :
             balance' = [balance EXCEPT ![q.first] = b, ![q.second] = c]
      /\ Book(q, paid) /\ BookKinds(q, paid)
      /\ count' = [count EXCEPT ![q.owner] = NewCount(q)]
      /\ req' = [req EXCEPT ![r] = Idle]
      /\ UNCHANGED <<points, overlap>>

\* A request ends early: an error, or its process died.
Return(r) ==
  /\ req[r] # Idle
  /\ req' = [req EXCEPT ![r] = Idle]
  /\ UNCHANGED <<balance, points, count, txns, overlap>>

Next ==
  \/ \E u \in Users : OpenAccount(u)
  \/ \E r \in Requests :
       \/ AddMoney(r) \/ ApplyReferral(r) \/ FirstWallet(r) \/ SecondWalletFound(r)
       \/ SecondWalletNew(r) \/ LoyaltyFound(r) \/ LoyaltyNew(r) \/ FinishAdd(r)
       \/ FinishReferral(r) \/ Return(r)

Spec == Init /\ [][Next]_vars

-----------------------------------------------------------------------------
\* Balances, transactions, referral rows and the snapshots of engagement.py
\* keep the types of their columns.
TypeOK ==
  /\ balance \in [Users -> Column]
  /\ points \in [Users -> Column]
  /\ count \in [Users -> Column]
  /\ ledger \in [Users -> Nat] /\ uneven \in [Users -> Nat] /\ added \in [Users -> Nat]
  /\ bonuses \in [Users -> Nat] /\ rewards \in [Users -> Nat]
  /\ req \in [Requests -> Request \cup {Idle}]
  /\ overlap \in BOOLEAN

\* What the rounding of n uneven amounts can come to, in half units.
Slack(n) == Paisa * n

\* However requests overlap and die, a wallet holds no more than the rows of
\* its transactions add up to, half a paisa for every amount that is no whole
\* paisa apart, and the points no more than a tenth of the money added:
\* credits and points can be lost, never made.
NothingFromNothing ==
  \A u \in Users :
    /\ 2 * (balance[u] - ledger[u]) <= Slack(uneven[u])
    /\ points[u] * Ten <= added[u]

\* However requests overlap and die, nobody is rewarded for a referral whose
\* user got no bonus, and a code counts no referral that was not rewarded.
ReferralsPaired ==
  \A o \in Users : count[o] <= rewards[o] /\ rewards[o] <= bonuses[o]

\* One request at a time, the wallet is what its transactions add up to, half
\* a paisa for every amount that is no whole paisa apart, and a code has
\* counted all its rewards, whichever commit a request died at.
LedgerAgrees ==
  ~ overlap =>
    \A u \in Users :
      LET held == IF balance[u] = None THEN 0 ELSE balance[u]
      IN  /\ 2 * (held - ledger[u]) <= Slack(uneven[u])
          /\ 2 * (ledger[u] - held) <= Slack(uneven[u])
          /\ rewards[u] = IF count[u] = None THEN 0 ELSE count[u]
=============================================================================
