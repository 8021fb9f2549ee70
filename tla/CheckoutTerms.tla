--------------------------- MODULE CheckoutTerms ---------------------------
(***************************************************************************)
(* What the cart and its checkout promise, stated of the tables: stock,     *)
(* cart lines and orders tell one story, and a cart of one shop is sold by  *)
(* that shop.  CartCheckout has the requests that are to keep these terms.  *)
(***************************************************************************)
EXTENDS Integers, Sequences, FiniteSets, FiniteSetsExt

CONSTANTS
  Products,
  Shop,        \* products.supplier_user_id
  InitQty,     \* products.stock_qty at the start
  Quantities,  \* quantities the customer asks for
  StockSets,   \* stock levels the staff write
  MaxWrites    \* bound: stock updates by the staff

ASSUME ShelfAssumption == InitQty \in [Products -> Nat]
ASSUME QuantitiesAssumption == Quantities \subseteq Nat \ {0}
ASSUME StaffAssumption == StockSets \subseteq Nat /\ MaxWrites \in Nat

VARIABLES
  stock_qty,   \* products.stock_qty
  lines,       \* cart_items in id order; a deleted row stays as "gone"
  orders,      \* orders with their order_items
  moved,       \* stock_movements: the sum of change_qty of each product
  writes,      \* stock updates so far
  calls,       \* the requests in flight
  overlapping  \* whether requests overlap in this behaviour; never changes

-----------------------------------------------------------------------------
Active(ls) == {i \in DOMAIN ls : ls[i].state = "active"}

Remaining(have, sold) == IF have > sold THEN have - sold ELSE 0

Sold(p) == MapThenSumSet(LAMBDA o : orders[o].items[p], DOMAIN orders)

\* All active lines of the cart are of one shop.
SingleShop(ls) == \A i, j \in Active(ls) : Shop[ls[i].prod] = Shop[ls[j].prod]

\* Requests in flight of one of these operations.
Running(ops) == \E r \in DOMAIN calls : calls[r].pc # "idle" /\ calls[r].op \in ops

\* A second shop comes into the cart only through reorder (which runs an older
\* copy of add_to_cart) or by restoring a saved line: cart_service's
\* add_to_cart keeps a single-shop cart single-shop.
\* (Of requests that do not overlap, like the next three.)
SecondShopSource ==
  [][~ overlapping /\ SingleShop(lines) /\ ~ SingleShop(lines')
       => Running({"reorder", "restore"})]_lines

\* The order that checkout completes from a single-shop cart goes to the shop
\* that sells every item on it.
OrderFitsShop ==
  [][~ overlapping /\ SingleShop(lines)
       => \A o \in DOMAIN orders, p \in Products :
            ~ orders[o].done /\ orders'[o].items[p] > 0 => Shop[p] = orders[o].shop]_orders

\* The stock changes by what the completed order sold, as far as there is any,
\* and by what the staff booked; only the product form changes it unbooked.
\* This holds too when a checkout died between its commits and is retried.
StockChangesBooked ==
  [][~ overlapping /\ ~ Running({"edit"})
       => \A p \in Products :
            stock_qty'[p] =
              Remaining(stock_qty[p], Sold(p)' - Sold(p)) + moved'[p] - moved[p]
     ]_<<stock_qty, orders, moved>>

\* What checkout takes out of the cart is on the order it completes: saved
\* lines and lines the summary did not list stay.
NothingLost ==
  [][~ overlapping =>
     \A o \in DOMAIN orders :
       ~ orders[o].done /\ orders'[o].done
         => \A i \in DOMAIN lines :
              lines[i].state # "gone" /\ lines'[i].state = "gone"
                => orders'[o].items[lines[i].prod] >= lines[i].qty]_orders

\* However requests overlap, checkouts never make the stock look smaller than
\* the orders placed explain: a lost update oversells, it hides no goods.
StockNotUnderstated ==
  writes = 0 => \A p \in Products : stock_qty[p] >= Remaining(InitQty[p], Sold(p))
=============================================================================
