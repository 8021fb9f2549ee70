--------------------------- MODULE CartCheckout ----------------------------
(***************************************************************************)
(* One customer's cart and its checkout: cart_service orders.py (add,       *)
(* patch, remove), checkout_service orders.py (checkout, in two commits)    *)
(* and order_service orders.py (reorder, which fills the cart through that  *)
(* service's own copy of add_to_cart), with the staff's stock updates       *)
(* (inventory_service products.py).  Requests overlap as in                 *)
(* SupplierPurchase, and a process may die between the steps of a request.  *)
(*                                                                          *)
(* Prices, coupons and addresses are left out: a checkout they would stop   *)
(* is one that ends without a commit.                                       *)
(***************************************************************************)
EXTENDS CheckoutTerms, Columns

CONSTANTS
  Requests,    \* request slots
  MayOverlap,  \* the operations called where requests overlap
  MaxLines,    \* bound: cart_items rows ever inserted
  MaxOrders    \* bound: orders placed

vars == <<stock_qty, lines, orders, moved, writes, calls, overlapping>>

States == {"active", "saved", "gone"}
Line == [prod : Products, qty : Nat, state : States]
\* `done': the second commit of checkout wrote items, payment and stock.
Order == [shop : {Shop[p] : p \in Products}, items : [Products -> Nat],
          done : BOOLEAN]
Ops == {"add", "quantity", "save", "restore", "remove", "checkout", "reorder",
        "stock", "edit"}
ASSUME CallsAssumption == MayOverlap \subseteq Ops

\* want: what add or reorder still has to put in the cart (for the staff, the
\* product marked 1); id: a cart line or an order; ls, later: the lines at the
\* first and the second snapshot.
Request == [pc : {"loaded", "header"}, op : Ops, want : [Products -> Nat],
            id : Nat, qty : Nat, st : [Products -> Nat], ls : Seq(Line),
            later : Seq(Line)]
Idle == [pc |-> "idle"]
Nothing == [p \in Products |-> 0]
\* The slot of all requests where none overlap.
Alone == CHOOSE r \in Requests : TRUE

Init ==
  /\ stock_qty = InitQty
  /\ lines = <<>>
  /\ orders = <<>>
  /\ moved = Nothing
  /\ writes = 0
  /\ overlapping \in BOOLEAN
  /\ calls = [r \in Requests |-> Idle]

-----------------------------------------------------------------------------
\* A deleted row.
Deleted(l) == [l EXCEPT !.state = "gone", !.qty = 0]

\* Quantity of a product in the cart, summed over its lines.
InCart(ls, p) == MapThenSumSet(LAMBDA i : ls[i].qty, {i \in Active(ls) : ls[i].prod = p})

Load(r, op, want, id, qty) ==
  /\ calls[r] = Idle
  /\ IF overlapping THEN op \in MayOverlap ELSE r = Alone
  /\ calls' = [calls EXCEPT ![r] = [pc |-> "loaded", op |-> op, want |-> want,
                                    id |-> id, qty |-> qty, st |-> stock_qty,
                                    ls |-> lines, later |-> <<>>]]
  /\ UNCHANGED <<stock_qty, lines, orders, moved, writes, overlapping>>

At(r, pc, ops) == calls[r].pc = pc /\ calls[r].op \in ops
Done(r) == calls' = [calls EXCEPT ![r] = Idle]

-----------------------------------------------------------------------------
(***************************************************************************)
(* Filling the cart.                                                        *)
(***************************************************************************)
StartAdd(r) ==
  \E p \in Products, n \in Quantities :
    Load(r, "add", [Nothing EXCEPT ![p] = n], 0, 0)

StartReorder(r) ==
  \E o \in DOMAIN orders : Load(r, "reorder", orders[o].items, o, 0)

InStock_Skipped(q, p) == TRUE
InStock(q, p) == q.st[p] >= q.want[p]

\* Lines of other shops, which add_to_cart deletes.
Foreign_None(q, p) == {}
Foreign(q, p) == {i \in Active(q.ls) : Shop[q.ls[i].prod] # Shop[p]}

\* The rows after the product was added: `gone' are deleted; an active line of
\* the product grows from the quantity read, else a line is inserted.  A line
\* that was deleted meanwhile cannot be updated: the request fails.
PutInCart(q, p, gone) ==
  LET mine == {i \in Active(q.ls) : q.ls[i].prod = p}
      kept == [i \in DOMAIN lines |->
                 IF i \in gone THEN Deleted(lines[i]) ELSE lines[i]]
  IN  IF mine # {}
        THEN /\ lines[Min(mine)].state # "gone"
             /\ lines' = [kept EXCEPT ![Min(mine)].qty = q.ls[Min(mine)].qty + q.want[p]]
        ELSE /\ Len(lines) < MaxLines
             /\ lines' = Append(kept, [prod |-> p, qty |-> q.want[p], state |-> "active"])

\* cart_service's add_to_cart.
AddToCart(r) ==
  /\ At(r, "loaded", {"add"})
  /\ \E p \in Products :
       /\ calls[r].want[p] > 0
       /\ InStock(calls[r], p)
       /\ PutInCart(calls[r], p, Foreign(calls[r], p))
  /\ Done(r)
  /\ UNCHANGED <<stock_qty, orders, moved, writes, overlapping>>

\* One turn of reorder's loop: order_service's add_to_cart, which commits and
\* knows nothing of shops; the next turn reads afresh.
ReorderItem(r) ==
  LET q == calls[r]
  IN  /\ At(r, "loaded", {"reorder"})
      /\ \E p \in Products :
           /\ q.want[p] > 0
           /\ InStock(q, p)
           /\ PutInCart(q, p, {})
           /\ calls' = [calls EXCEPT ![r] = [q EXCEPT !.want[p] = 0, !.st = stock_qty,
                                                      !.ls = lines']]
      /\ UNCHANGED <<stock_qty, orders, moved, writes, overlapping>>

-----------------------------------------------------------------------------
(***************************************************************************)
(* Changing a line: patch_cart_item and remove_cart_item.                   *)
(***************************************************************************)
StartLine(r) ==
  \E i \in DOMAIN lines :
    /\ lines[i].state # "gone"
    /\ \/ \E n \in Quantities : Load(r, "quantity", Nothing, i, n)
       \/ \E op \in {"save", "restore", "remove"} : Load(r, op, Nothing, i, 0)

PatchCartItem(r) ==
  LET q == calls[r]
      l == q.ls[q.id]
      row == lines[q.id]
  IN  /\ At(r, "loaded", {"quantity", "save", "restore"})
      /\ row.state # "gone"
      /\ lines' = [lines EXCEPT ![q.id] =
           [row EXCEPT
              !.qty = IF q.op = "quantity" THEN Flush(row.qty, l.qty, q.qty) ELSE row.qty,
              !.state = CASE q.op = "save" -> Flush(row.state, l.state, "saved")
                          [] q.op = "restore" -> Flush(row.state, l.state, "active")
                          [] OTHER -> row.state]]
      /\ Done(r)
      /\ UNCHANGED <<stock_qty, orders, moved, writes, overlapping>>

RemoveCartItem(r) ==
  /\ At(r, "loaded", {"remove"})
  /\ lines' = [lines EXCEPT ![calls[r].id] = Deleted(@)]
  /\ Done(r)
  /\ UNCHANGED <<stock_qty, orders, moved, writes, overlapping>>

-----------------------------------------------------------------------------
(***************************************************************************)
(* checkout.  The first commit inserts the order, for the shop of the first *)
(* line; the second writes what the summary listed, and empties the cart as *)
(* it was when the second transaction began.                                *)
(***************************************************************************)
StartCheckout(r) == Load(r, "checkout", Nothing, 0, 0)

\* The order goes to the shop of the first line of the summary.
HeadShop_Any(ls) == Shop[ls[1].prod]
HeadShop(ls) == Shop[ls[Min(Active(ls))].prod]

CheckoutOrder(r) ==
  LET q == calls[r]
  IN  /\ At(r, "loaded", {"checkout"})
      /\ Active(q.ls) # {}
      /\ Len(orders) < MaxOrders
      /\ orders' = Append(orders, [shop |-> HeadShop(q.ls),
                                   items |-> Nothing, done |-> FALSE])
      /\ calls' = [calls EXCEPT ![r] = [q EXCEPT !.pc = "header", !.st = stock_qty,
                                                 !.later = lines,
                                                 !.id = Len(orders) + 1]]
      /\ UNCHANGED <<stock_qty, lines, moved, writes, overlapping>>

\* What an order takes from the stock of a product.
Taken_Twice(n) == 2 * n
Taken(n) == n

\* Which rows the second commit deletes.
Emptied_Saved(later) == {i \in DOMAIN later : later[i].state \in {"active", "saved"}}
Emptied(later) == Active(later)

CheckoutItems(r) ==
  LET q == calls[r]
      sold == [p \in Products |-> InCart(q.ls, p)]
  IN  /\ At(r, "header", {"checkout"})
      /\ orders' = [orders EXCEPT ![q.id] = [@ EXCEPT !.items = sold, !.done = TRUE]]
      /\ stock_qty' = [p \in Products |->
                         Flush(stock_qty[p], q.st[p], Remaining(q.st[p], Taken(sold[p])))]
      /\ lines' = [i \in DOMAIN lines |->
                     IF i \in Emptied(q.later) THEN Deleted(lines[i])
                     ELSE lines[i]]
      /\ Done(r)
      /\ UNCHANGED <<moved, writes, overlapping>>

(***************************************************************************)
(* The staff: update_stock writes the level and books the difference to the *)
(* level it read; the product form (update_product) writes the level alone. *)
(***************************************************************************)
StartStock(r) ==
  \E p \in Products, n \in StockSets, op \in {"stock", "edit"} :
    Load(r, op, [Nothing EXCEPT ![p] = 1], 0, n)

Delta_Absolute(q, p) == q.qty
Delta(q, p) == q.qty - q.st[p]

UpdateStock(r) ==
  LET q == calls[r]
  IN  /\ At(r, "loaded", {"stock", "edit"})
      /\ writes < MaxWrites
      /\ writes' = writes + 1
      /\ \E p \in Products :
           /\ q.want[p] = 1
           /\ stock_qty' = [stock_qty EXCEPT ![p] = Flush(@, q.st[p], q.qty)]
           /\ moved' = IF q.op = "stock" THEN [moved EXCEPT ![p] = @ + Delta(q, p)]
                       ELSE moved
      /\ Done(r)
      /\ UNCHANGED <<lines, orders, overlapping>>

-----------------------------------------------------------------------------
\* Any request may end early: refused (stock, an empty cart, the minimum order
\* value, the address), at the end of reorder's loop, or because it failed.
Return(r) ==
  /\ calls[r] # Idle
  /\ Done(r)
  /\ UNCHANGED <<stock_qty, lines, orders, moved, writes, overlapping>>

Next ==
  \E r \in Requests :
    \/ StartAdd(r) \/ StartReorder(r) \/ StartLine(r) \/ StartCheckout(r)
    \/ AddToCart(r) \/ ReorderItem(r) \/ PatchCartItem(r) \/ RemoveCartItem(r)
    \/ CheckoutOrder(r) \/ CheckoutItems(r)
    \/ StartStock(r) \/ UpdateStock(r) \/ Return(r)

Spec == Init /\ [][Next]_vars

-----------------------------------------------------------------------------
\* Cart lines, stock, orders and the snapshots of cart, checkout and
\* reorder requests stay within the values their columns hold.
TypeOK ==
  /\ stock_qty \in [Products -> Nat]
  /\ lines \in Seq(Line)
  /\ orders \in Seq(Order)
  /\ moved \in [Products -> Int]
  /\ writes \in 0 .. MaxWrites
  /\ calls \in [Requests -> Request \cup {Idle}]
  /\ overlapping \in BOOLEAN
=============================================================================
