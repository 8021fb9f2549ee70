# SweetCrust: a TLA+ model of the marketplace's stateful core

SweetCrust is a bakery marketplace: 27 FastAPI services, a Fastify gateway and a
Socket.IO server over **one shared MySQL database** and one Redis. The services are
thin; the difficulty is that many of them write the same rows, that no request takes
a row lock or checks a version, and that money, riders, language models and an
unreliable cache outside the system act in between. This directory models that core,
checks it with TLC, and proves part of it with TLAPS.

## 1. Inventory

| Part | State | Operations | Talks to |
|---|---|---|---|
| Supplier purchases (`store_ops_service` purchases.py, pay_rules.py, invoices.py) | purchase orders, supplier's payable balance, stock, stock movements, invoices | create, accept, reject, pay, Razorpay create/verify, issue invoice | Razorpay |
| Order payments (`payment_service` payments.py; refunds in `store_ops_service` misc.py; the staff's payment link in orders.py) | order (status, payment status, method), payment rows, invoice | Razorpay create, verify, webhook, process (confirm/decline), refund, get invoice, payment link | Razorpay, order row |
| Delivery (`store_ops_service` orders.py, `rider_service` rider.py, `picking_service`, `order_service` returns.py) | order (status, rider, offer deadline), tracking rows, return requests | pick, pack, offer, assign, any status; accept, reject, lazy expiry, trip steps, deliver; cancel, return | order row, rider app |
| Cart and checkout (`cart_service`, `checkout_service`, `order_service` orders.py; stock forms of `inventory_service`) | cart lines, product stock, orders with items | add, patch, save for later, restore, remove, checkout (two commits), reorder; staff stock updates | stock, payments |
| B2B credit (`store_ops_service` credit.py, billing.py) | outstanding balance, ledger, orders' paid amounts, invoices | collection allocated oldest bill first, by the bakery or the shop (`pay_udhaar`) | orders, invoices |
| One-time codes and accounts (`auth_service` auth.py) | users, otp_codes rows, Redis keys | send, login, retailer login, reset, admin register, resend, confirm | Redis, mail |
| Tokens and presence (`auth_service` auth.py, `store_ops_service` retailer_bff.py, `package/common/auth`, `package/redis`, `realtime/src/server.ts`) | token pairs, blacklist (Redis or process memory), is_online, sockets | login, guest login, refresh, logout, guarded call, `/retailer/presence`, connect, disconnect, ping, presence messages | Redis |
| Sell subscription (`store_ops_service` sell.py, shops.py) | retailer profile: status, expiry, pending payment link; billing rows, invoices | request a link, confirm, status poll, lazy expiry, admin approve and override | Razorpay (polled, no webhook) |
| Wallet, points, referrals (`order_service` engagement.py) | wallet, transactions, loyalty points, referral codes | open code, add money, apply referral | - |
| Support chat (`support_service` chats.py, `ai_service` chat.py, `store_ops_service` misc.py) | conversation with two unread counters, messages with read marks | customer and admin send and open, assistant answers and escalates, admin takes over | language model |
| Gateway (`gateway/src/plugins/proxy.ts`) | none | prefix proxy | all services |
| Shared package (`package/`) | sessions, Redis client, rate limits, mail | - | all services |

The remaining services (catalogue, search, pricing, forecast, analytics,
notifications, ratings, location, profile edits) are queries or single-row forms.
`admin_service`, `payments_service` and `delivery_service` are older copies.
Several services hold copies of one `orders.py` or `auth.py`; the gateway's prefix
table says which copy a call reaches, and that matters: `reorder` goes to
`order_service`, whose copy of `add_to_cart` is older than the cart's; and
`/api/v1/retailer` goes to `store_ops_service`, whose `create_bulk_order` refuses, so
that the bulk orders of `inventory_service` (whose router is not mounted) and the
`debit_credit` they would call are never reached.

**What is hard here.**

* *Stale writes.* `package/database/async_session.py` builds sessions with
  `expire_on_commit=False` over MySQL's REPEATABLE READ. A request computes on a
  snapshot; its commit writes, column by column, the columns it changed.
* *Calls between read and write.* Razorpay and the language model are called between
  a SELECT and its commit, for seconds.
* *Several commits in one handler.* `checkout`, `process_payment`, the invoices after a
  payment or a collection, `is_online` and then the tokens, a question and its answer.
  Helpers such as `_wallet` commit on their caller's behalf. A crash in between leaves the
  first part.
* *Unreliable delivery.* Razorpay repeats webhooks, before and after the customer's
  `verify`; an early return that answers 2xx ends the retries. Presence goes through
  Redis publish/subscribe, which loses what nobody listens to.
* *Redis outages.* Every helper fails quietly: codes fall back to the table,
  revocations to the memory of one process, and a process that could not connect once
  never tries again.
* *Time without timers.* A rider's offer lasts 45 seconds and only the rider's own next
  request ends it; a subscription expires when somebody looks; a revocation key lives
  for whole seconds.
* *Numbers.* One paisa of tolerance in the payment rules, stock and debt clamped at
  zero, a balance rounded to the paisa beside transactions that are not.
* *The caller's choice.* Which purchase order a Razorpay payment is verified on, for which
  purpose a code is sent, whose refresh token a logout names: the caller says so.

What makes each part correct: purchases — no PO credited twice for one payment, received
once, balance equals dues, 80% first; payments — a payment recorded iff it was made, rows
agreeing; delivery — nobody has an order he did not take on, offers end; cart — one shop
per cart and order, stock equals what was not sold; credit — an account book; codes — used
once, for what they were sent; tokens — a revoked one is dead, presence tells the truth;
subscriptions — time for money and money for time; wallet — nothing from nothing; chat —
counters and read marks agree with what was listed.

## 2. Plan

Done: `SupplierPurchase`, `OrderPayment`, `Delivery`, `CartCheckout`, `Credit` with its
abstract `Khata`, `Otp`, `Sessions`, `Subscription`, `Wallet`, `Chat`, and the proofs of
all of them. Left: `OrderLife`, the order row of `OrderPayment`, `Delivery` and
`CartCheckout` composed, against an abstract life cycle; today each of the three
contains the others' writes to its columns as environment actions.

## 3. How the modules are built

**Requests.** The specifications share one scheme. `req[r]` (in `CartCheckout` `calls[r]`)
is a request in flight: `Load` (or a `Start…`, `Begin` action) takes the snapshot the
handler's SELECTs return; the action named after the handler is its commit; `Return` (and
`Fail` in `OrderPayment`) ends a request that was refused or died. A handler with several
commits is several actions with a `pc` between them.

**Serial and overlapping.** `SupplierPurchase` and `OrderPayment` are serial when
`Requests` has one element. The other modules choose `overlap` (`overlapping`) once, in
`Init`: in behaviours without it one request runs at a time, with it the requests overlap
(`MayOverlap` names the operations, where all of them would be too many). What the code
keeps only one request at a time is stated as `~ overlap => …`; everything else holds in
both. So one run explores both, and a property's text says which of the two it survives.

**`Columns`.** `Flush(cur, loaded, new)` is what a commit does to one column: an
unchanged column is not in the UPDATE, a changed one overwrites whatever is there.
It models SQLAlchemy's unit of work, which is outside this repository.

**Terms.** `CheckoutTerms` and `SubscriptionTerms` state what the cart and the
subscription promise of the tables alone, next to the tables' variables and the
assumptions on their contents; `CartCheckout` and `Subscription` extend them with the
requests that are to keep these promises. `ShopProofs`, which is about three systems
at once, extends `SupplierPurchase` and both `…Terms`, and instantiates the two with
requests under the names `Cart` and `Sub`.

| Module | Code | State and actions |
|---|---|---|
| `SupplierPurchase` | purchases.py, pay_rules.py, invoices.py | `po`, `payable`, `stock`, `avail`, `movements`, `refs`/`invoiced`, gateway `rz`/`authorised`; `AcceptPurchase`, `PayPurchase`, ... carry the functions' names. Money in paise; `_apply_receive` is `ReceiveGoods`, `AddPayable`, `IsPending`. `StartVerify` takes any authorised Razorpay order with any PO and amount, as the route does. The history variables `settled`, `applied`, `cash` only serve properties and bounds. |
| `OrderPayment` | payments.py, refund_payment, the staff's payment link, status updates | one order, its payment rows in id order, the invoice's unique column, the gateway (`linkOpen`, `authorised`, `refunded`, `acked`); payments made for other orders are `Elsewhere`, and `WebhookSecret` says whether the optional secret is set. `OpenLink` then `RazorpayCreate` are the gateway call and the commit of `razorpay_create`, `GetOrderPayment` the commit inside `get_order_payment`, `ProcessPayment` then `SettlePayment`/`DeclinePayment` the two commits of `process_payment`; `PaymentLink` is the staff's. `recorded`, `missed` (answered "payment missing") and `bare` (a link without a payment row) are history. |
| `Delivery` | store_ops orders.py, rider.py, picking.py, returns.py | one order (`status`, `rider`, `exp`), its tracking rows and return requests, offers numbered in order with `lapsed` the deadlines that passed. `StaffUpdate` is `update_order_status`, of which offer and assign are uses. `agreed` is history. |
| `CheckoutTerms` | products, cart_items, orders | stock, lines, orders and movements; `Remaining` is checkout's `max(0, stock - qty)`, `Active` the lines `cart_summary` lists; the properties. |
| `CartCheckout` | cart, checkout and order services, products.py | cart lines (a deleted row stays as "gone", so ids are never reused), stock, orders, booked stock movements; `CheckoutOrder` and `CheckoutItems` are the two commits, `ReorderItem` one turn of `reorder`'s loop. |
| `Credit` | credit.py | one shop: `owed`, its wholesale orders of the past in any state, the ledger from its last old entry on, invoices. A collection commits balance, entry and orders together (`CreditPayment`), then its invoices one by one; `CloseOrder` is a delivery or a declined payment that closes an order meanwhile. |
| `Khata` | - | what `Credit` promises, without requests and rows: the amount owed and the open amount of each bill, `Collect` and `Close`. `Credit` implements it (`Book == INSTANCE Khata WITH …`, `ImplementsKhata == Book!Spec`). |
| `Otp` | auth.py (codes, accounts), redis client | users, `otp_codes` rows, the Redis key of each purpose and phone, and whether Redis answers. A code may be asked for any phone and purpose (`other` stands for the free-form ones). The check and the use of a code are a request of several steps; the keys are deleted before the commit that marks the row used. `sent`, `accepted`, `twice`, `undeleted` are history. |
| `Sessions` | auth.py (logins, refresh, logout), retailer_bff.py (presence), jwt.py, blacklist.py, guards.py, client.py, server.ts | pairs of tokens, each token's remaining life, `bl` (Redis) and `mem` (per process), each process's `link` to Redis, `online`; sockets, the `news` under way to the realtime server and what the admin is `shown`. A login commits `is_online` (`MarkOnline`), then makes the pair (`IssuePair`); a logout may name any refresh token besides its own access token; `/retailer/presence` commits `is_online` (`ClaimPresence`), then publishes (`TellPresence`); `RealtimeRestart` closes all sockets. `late`, `faulty`, `cut`, `elsewhere`, `unsettled` are history. |
| `SubscriptionTerms` | retailer_profiles, notifications | the row, billing rows, links and clock; the properties. `comps` and `dropped` are history. |
| `Subscription` | sell.py, shops.set_sell_subscription | the columns of the retailer's profile, billing rows, invoices, the gateway's links, the clock. A confirmation reads, asks the gateway, then commits. |
| `Wallet` | engagement.py | balances, points and codes (or no row), sums of the transactions. Money is counted in fractions of a paisa (`Paisa` of them): the balance is `Rounded`, the transaction is not, and `uneven` counts those that are no whole paisa. The commits that `_wallet` and `_loyalty` make are steps of their own. |
| `Chat` | chats.py, chat.py, api.py, misc.py | one conversation row, its messages, and what was listed for whom (`seenA`, `seenC`, history; the answer may still be lost on its way). A question, its answer and an escalation are commits of one request. |
| `MC…` | - | constants, symmetry and bounds for TLC |
| `…Proofs` | - | theorems |

Operators with an underscore (`Mine_Anyone`, `AlreadyPaid_Never`) are faulty variants
of the definition they precede; no specification uses them. They show that each
property notices a plausible mistake. Each module with requests states its `TypeOK`, and it
is proved for all of them; the runs of the first two check it as well.

## 4. Runs

Runs that pass:

| Run | Shows |
|---|---|
| `purchase_serial` | One request at a time, crashes between commits: the supplier's balance covers exactly the dues, stock is explained by movements, no PO is credited twice for one payment (verified on whatever PO and with whatever amount), the 80%-first rule holds and no money moves before goods. |
| `payment_serial` | All operations, with repeated webhooks, refunds and crashes, payments of other orders, and no webhook secret, so that any body is believed: payment and order rows agree, and only `process_payment` and refunds take a payment out of paid. |
| `payment_overlap` | Two overlapping requests: with a webhook secret every Razorpay id on a row was authorised; a webhook is answered without a record only when the staff issued a link for an order without a payment row; and any other money taken is recorded in the end. |
| `delivery` | Kitchen, staff, two riders, the customer. One request at a time: assigned only to a rider who accepted or was put on the job; tracking shows that rider; only the rider gives up his own open offer. Overlapping too: an offer to a rider ends. |
| `checkout` | One request at a time: a second shop comes into the cart only through reorder or a saved line, an order's shop sells its items, stock changes are booked, and checkout takes nothing out of the cart that it does not order. Overlapping: lost updates oversell, they never hide goods. |
| `credit` | Overlapping: no order is credited with more than its total. One at a time: the ledger is a chain that ends in the balance, and the account implements `Khata`, whose collections clear the oldest bills first and take as much off the debt as off the bills. |
| `otp` | Codes for any phone and purpose. Overlapping, with Redis coming and going: a code serves only its phone and (for resets and admins) its purpose, a verified admin confirmed one, no login changes the kind of an account. One at a time: a code is accepted once, unless its key could not be deleted. |
| `sessions` | Two processes, outages, restarts, expiring keys: a revoked token is refused by everyone who can know; a user whom a login or refresh marked online has a refresh token, unless a request died halfway or somebody else revoked it; and presence shown at rest is backed by a socket, unless the presence call, a lost message or a restart put it there. One at a time with Redis up: a login has one good refresh token. |
| `subscription` | Overlapping: no more time than was paid for or given, although a link confirmed twice is applied twice. One at a time: a paid link is applied, pending or replaced, and a running plan never gets shorter. |
| `wallet` | Overlapping: balances, points and rewards can be lost but, half a paisa for each uneven amount apart, not made; nobody is rewarded for a referral whose user got no bonus. One at a time: the wallet is the sum of its transactions, up to the same rounding. |
| `chat` | Overlapping: nothing is marked read that was not listed for the reader; a conversation taken from the assistant says so. One at a time: both counters are exact. |

One run ends in a violation, a disagreement between the code and its own words (quoted
in `PROJECT.json`, "findings"): in `purchase_double_apply`, `create_razorpay_pay`
restores an old note column over the marker that remembers an applied payment;
verifying again credits it twice.

**Bounds.** One order, cart, shop or conversation, one to two POs or users: handlers
touch one of each, and rows of different orders meet only in stock and balance, which
the PO and product instances share. Two request slots are enough for a stale write
(one reads, the other commits, the first writes). `MaxFailures`, `MaxPayments`,
`MaxOffers`, `MaxReturns`, `MaxLines`, `MaxOrders`, `MaxWrites`, `MaxEntries`,
`MaxCodes`, `MaxRows`, `MaxPairs`, `MaxAged`, `MaxNews`, `MaxLinks`,
`MaxNow`, `MaxMessages` cap counters and sequences at the smallest value at which every
operation can follow every other; the constraints in the MC modules (`Bounded`) cap
`MaxQty` and `MaxLedger`.

* Purchases: bills of 11 and 5 paise and payments of 4 and 8 meet the 80% threshold
  exactly, within the paisa of tolerance, and overshoot what is due by one. Credit: up
  to two orders of 1 or 3 in any state, debts of 2 and 5, collections of 2 and 4, that
  pay one order partly, one and a part of the next, or more than is owed. Subscription:
  a yearly plan is two months, so that plans of different length overlap within `MaxNow`.
* Wallet: a paisa has four units. One amount is half a paisa off (and may be rounded
  either way) and earns no point, one is a quarter off and earns one.
* `Otp`: two codes and three rows, one of which `_check_otp` inserts itself; of rows that
  outlive their time only one is followed.
* `Sessions`: in one behaviour requests overlap, or Redis fails, or tokens age, or a
  request dies halfway, or a user is marked or revoked from elsewhere, not several of
  these; sockets are explored with one pair, and with Redis failing one user; states
  with the last pair are checked and not extended. `CartCheckout`: overlapping requests
  with two lines of at most two.
* `Calls`, `StaffSets` and `MayOverlap` restrict an instance to some operations where
  the full one is too large.

Deadlock is checked in every run.

**Fairness.** `payment_overlap`: requests that are being handled go on (weak fairness
of `Handle`; no handler waits for another) and Razorpay repeats an unanswered webhook
(strong fairness of `Redeliver`, because a slot may be busy). `Fail` is bounded, not
fair. `delivery`: requests end (weak), deadlines pass (weak), the rider's app keeps
asking for its orders, and not every one of these requests fails (strong, `Poll` and
`ClearExpiredOffer`). Without the rider's polling the property is false: the code has
no other way to end an offer. The other runs check safety and assume no fairness.

## 5. Proofs

Every theorem holds for all values of the constants that satisfy the modules'
assumptions: any number of requests, rows, users, messages and amounts. TLC checked
each inductive invariant on the instance of the module's run before it was proved.
The proofs of one module have one shape: `Inv`, inductive whatever overlaps;
`SerialInv`, inductive relative to it where requests do not overlap (`CartInv` and
`CartCurrent`, `SubInv` and `SubSerial` for the two instances of `ShopProofs`); one lemma per
action for each; and the theorems that follow.

**Why the properties are not inductive.** A commit writes what its request read,
possibly long ago, so whatever is claimed of a table must be claimed of every snapshot
in flight, in a form that stays true while the tables move on. `Inv` finds for each
module what can be said of an old snapshot: sums and sequences that only grow, columns
that never go back. Where requests do not overlap it is the other way round: the
snapshot *is* the row until the request writes (`AllCurrent`, `Current`), and the work
is in the steps between two commits of one request, where it may die.

| Module | Whatever overlaps | The invariant | One request at a time | The invariant |
|---|---|---|---|---|
| `ShopProofs`, purchases | `PayRulesKept`, `GoodsBeforeMoney` | the 80% rule of one row's amount, of rows and snapshots; movements only grow | `NeverCreditedTwice`, `PayableIsDues`, `StockIsMovements` | the note of a PO keeps the marker of every payment applied to it (`Marked`); a PO not received is unpaid (`UnpaidBefore`) and moved nothing (`MovedOnce`); balance and stock as sums over the POs (`DuesCovered`, `StockAddsUp`) |
| `ShopProofs`, cart | `CartStockNotUnderstated` | shelf and every copy of it are at least what the orders explain, and orders only grow (`ShelfExplained`); a checkout between its commits has an empty order of its own, for the shop of its first line (`OrdersOK`); copies are of rows still there (`CopiesOK`) | `CartSecondShopSource`, `CartOrderFitsShop`, `CartStockChangesBooked`, `CartNothingLost` (action properties) | one slot, whose copies of cart and stock are the tables, at both snapshots of checkout (`CartCurrent`) |
| `ShopProofs`, subscription | `SubNeverOvergranted` | below (`SubInv`) | `SubPaidAccounted`, `SubPaidTimeKept` (an action property) | a copy is the row until its commit (`OneByOne`); every link that was sent is applied, pending or replaced (`SentCovered`) |
| `OrderPaymentProofs` | `RowsBacked`, `NoWebhookDropped` | with a webhook secret, ids of rows and snapshots are of payments that were made (`Backed`); nobody pays before a link exists, and a link without a payment row is a bare one of the staff (`LinkHasRow`) | `RowsAgree`, `PaidStays` (an action property) | only a refund holds another than the newest row |
| `DeliveryProofs` | types | - | `AssigneesAgreed`, `TrackingIsRider`, `OwnOfferOnly` (an action property) | there is one tracking row (`OneRow`), and it keeps the last rider after he left |
| `CreditProofs` | `NoOrderOverpaid` | an order keeps its total, so that a bound on the order read (`SnapshotOK`) is a bound on today's | `LedgerIsChain`, `AccountIsKhata` | below |
| `OtpProofs` | `PurposesHonoured`, `RolesKept` (an action property) | whatever carries a code - row, key, request - carries the phone and purpose it was made for | `CodesUsedOnce` | an accepted code is spent: its rows are used and no key holds it (`Spent`); an unspent one has one unused row (`OneUnused`), which the request in flight holds |
| `SessionsProofs` | `RevokedStaysOut`, `OnlineKeepsSession`, `ShownIsConnected` | a revocation is kept where it was told, up to the last seconds (`RevokedKept`); an online user has a token that no request is about to revoke, or a request about to settle it (`SessionKept`), unless a request died halfway or he is in `elsewhere`; the last news under way about a user is true (`NewsTrue`), unless he is in `unsettled` | `ChainOfRefresh` (with Redis up) | of a login at most one refresh token is good: the one that a refresh under way has shown, and none once it has revoked that one (`Chain`) |
| `WalletProofs` | `NothingMade`, `ReferralsArePaired` | balances, and balances read, are within the slack of sums that only grow (`BalancesBacked`, `RequestsOK`); bonuses lead rewards by the referrals that are halfway (`BonusesAhead`, a count of requests) | `SerialLedgerAgrees` | `Agrees` of the tables, within the same slack both ways, and `Current` of the one snapshot |
| `ChatProofs` | `MarkedWasShown`, `HandoverAnnounced` | handing over is never taken back; what was listed stays listed | `CountersExact` | a viewer has listed every message |

Each module also proves its types (`TypeCorrect`; `CartTypeCorrect`, `SubTypeCorrect`).
About purchases and `OrderPayment`, which are serial by having one slot, the theorems of
the second kind assume `OneSlot`, the instance of `purchase_serial` and `payment_serial`; in
the others they are about the behaviours with `~ overlap` of the one specification.

**No time for nothing.** Two confirmations of one link both extend the plan, so the
expiry is not the sum of what was applied. What saves `NeverOvergranted` is that both
extend the *same* date: `SubInv` says that a copy that still waits for a link has an
expiry covered by the links activated *without* that one
(`RequestOK`: `Granted(Activated \ {pending})`). The copy can be as old as it likes,
since the right-hand side only grows, and the link it applies adds its months once to
the sum, however often it is applied. `LinksOK` adds that a pending link has not been
activated yet, which is what makes that term the row's own when it is read.

**What is missing on the shelf.** Checkouts that overlap both deduct from the stock they
read and one deduction is lost; `ShelfExplained` is the direction that survives. It is
about *every* copy of the stock, because a commit writes `Remaining` of its copy, and
about the orders as they are at that moment: the commit adds to `Sold` what it takes
off. `SumChanges` (a sum whose terms change at one place) does the arithmetic for any
number of orders; the clamp at zero makes it an inequality even in serial
behaviours, where `CartStockChangesBooked` says exactly what happens at the clamp.

**Half a paisa.** `Rounded` moves a sum by at most half a paisa and a whole sum not at
all, since balances stay whole (`WholeSum`, `RoundedIs`). So every row of an uneven
amount adds at most half a paisa to what a wallet and its transactions differ by:
`Above` and `Near` carry that slack from row to row (`AboveStays`, `CreditIs`).

**The refinement.** `AccountIsKhata` is the step simulation behind `ImplementsKhata`:
`CreditPayment` is `Collect`, `CloseOrder` is `Close`, the rest stutter. What the mapping
needs is `KhataInv`: until it writes, the only request knows the orders as they are. An
order's bill is nothing once its status is paid, since the loop of
`_allocate_collection_to_orders` skips by status and the khata counts amounts. `FlowsIs`
says what that loop does to any number of bills: it clears a prefix, pays one bill in
part at most, and takes off what it was given, less what remains. Debt and bills start
unrelated (the past left them so) and fall together from there.

**Sums.** The properties speak of sums over rows. Neither the induction theorems
of the library nor the recursive definitions can be used directly, so the lemmas
`Induction`, `SumsExist` and `OpenIs` (`CreditProofs`: the prefix sums of `Khata`) and the
lemmas around `SumOf` (`ShopProofs`: sums over a finite set) derive the
recursion equations by taking least elements (`NatLessThanWellFounded`, `WFMin`) of a *set* of
counterexamples. Everything after that uses the equations only.

**Assumptions.** Positive quantities, amounts and totals of old orders; natural debts,
stock and bounds; plans of at least a month (`PlanAssumption`); amounts added to a wallet
between 1 and 50,000 rupees, which the route checks, and a paisa of at least one unit
(`PaisaAssumption`); finitely many POs (`POsAssumption`) and, in `Wallet`, request slots
(`RequestsAssumption`), because sums and counts run over them; retailers are users; values
that stand for "none" (`NoRz`, `NoPay`, `NoRider`) are not ids, "redis" is not a process.
`WebhookSecret` is either value; `MayOverlap`, `Calls` and `StaffSets` name operations and
statuses, any of them. All are checked by TLC on every instance.

**Only model-checked.** `OfferEnds` and `EventuallyRecorded`, since liveness under
fairness and ENABLED are beyond the prover. Every other property of a passing run is
stated by a theorem.

## 6. What the models allow

Behaviours the models contain because the code does, and about which the repository
says nothing (or, where marked, something else). They are the reason for the
`~ overlap` in a property, or for a case its text excepts.

* Delivery: after the customer cancels an offered order, its rider can still set it to
  picked_up without having accepted; trip steps are refused only for an open offer. An
  accept and a re-offer that overlap leave the order assigned to a rider who accepted
  nothing; a rejection under way withdraws the offer made meanwhile to another rider.
  An offer without a rider never expires. `mark_delivered` may be repeated, and a
  delivered order that staff set to delivered again can be returned again.
* Cart: `reorder`'s older copy of `add_to_cart`, and a restored line, mix shops in one
  cart (check_marketplace.py:108 expects a conflict). The stock test of `add_to_cart`
  looks at the added quantity only and checkout clamps at zero, so repeated adds sell
  more than there is.
* Purchases: nothing ties a Razorpay payment to the PO it was made for, nor the amount to
  what was paid: a caller who verifies it on two POs has it credited on both, once each
  (`CreditedOnce` is about one PO). Two overlapping accepts book the goods twice; two cash
  payments of the same amount on one PO share an invoice reference, so the second gets no
  invoice, and an invoice that fails after the payment committed is not retried.
* Payments: money paid on a link that the staff issued for an order without a payment row
  is acknowledged ("payment missing") and never recorded; without a webhook secret, which
  is the default, any body marks an order as paid; verify accepts a payment that was made
  for another order. A webhook repeated after a refund marks the row paid again; verify
  sets an order to payment_received whatever its status; overlapping first requests insert
  two payment rows.
* Credit: of two overlapping collections one is lost, to the balance and to the orders,
  while its ledger entry stays. The account never grows: the terms that `approve_shop` and
  `patch_shop` write are read only by code that no request reaches.
* Codes: whoever asks for a code names the phone, the purpose (`admin_confirm` too) and
  the address it is mailed to. A code whose Redis key could not be deleted is accepted
  again through a fresh row. Two first admins that register at the same time both succeed.
* Tokens: overlapping refreshes both get a pair; a logout revokes whatever refresh token it
  names; a login that dies after it committed `is_online` leaves a user online without a
  token, and `/retailer/presence` marks one online, and tells the admin so, without a
  socket; a token in its last second is not
  revoked at all, because the key's lifetime is cut to whole seconds; access tokens of
  earlier pairs stay good after refresh and logout. A socket that leaves while its
  token is being checked leaves its user shown as online.
* Subscriptions: a second payment link replaces a first one that may have been paid;
  overlapping confirmations bill twice, though they never grant twice.
* Wallet: an amount of 1.006 leaves a balance of 1.01 above a transaction of 1.006, again
  with each; overlapping credits are lost while their transactions stay; a referral can
  be applied any number of times.
* Chat: the assistant goes on answering after an admin took over; an admin who opens
  the thread marks the assistant's messages read for the customer.

## 7. Not modelled

Amounts, taxes and discounts of customer orders; e-mail, notifications and events
(published after the commit and allowed to get lost; no handler reads them back);
customer statistics; rider profile, availability and location; coupons; password and
Google logins (they end in the same `_issue_tokens`); rate limit counters (INCR and
EXPIRE are two commands: a failure in between leaves a counter without an end);
Socket.IO rooms and the fan-out of order, chat and location events, which keep no
state; the shop's back-office forms behind the subscription gate; and the parts in
section 1 without a module, for the reasons in `PROJECT.json`, "components". They are
by far the largest share of the repository's lines: single-row forms, list queries,
response formatting, analytics, prompts, and copies of the modelled files in other
services. A copy is modelled only where it differs in a way that a modelled row feels
(`reorder`).

Money columns are `float`, and a database column may keep fewer digits of a large sum than
the process computed with: the models round where the code rounds and nowhere else. Of the
shop's profile, what `approve_shop` and `patch_shop` write (credit terms, zone, phone) is
left out, and so is the chat of a shop in its own app (`store_ops_service`
retailer_bff.py), which sends and opens with the steps of misc.py, seen from the other
side; `Chat` follows a customer, or a shop that goes through `support_service`. In `Chat`,
an admin's opening of a thread is one step: event, unread query and listing follow the
commit in misc.py and may fail, so `seenA` says what was listed for the admin, not what
reached him.

Refunds are of the whole amount. "accepted", "packed" and "cancelled" each stand for
the stages the handlers treat alike.
