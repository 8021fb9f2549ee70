------------------------------- MODULE Khata -------------------------------
(***************************************************************************)
(* What the collections of a shop's udhaar account promise, without         *)
(* requests, snapshots or ledger rows: the khata is the amount owed and the *)
(* open amount of every bill, oldest first.                                 *)
(***************************************************************************)
EXTENDS Integers, Sequences

CONSTANT
  Tolerance   \* a collection may exceed what is owed by this much

VARIABLES
  owed,       \* what the shop owes
  due         \* the open amount of each bill, oldest first

vars == <<owed, due>>

Init == owed \in Nat /\ due \in Seq(Nat)

\* What the first n bills of a khata still amount to.
Open(s, n) ==
  LET sum[k \in 0 .. n] == IF k = 0 THEN 0 ELSE s[k] + sum[k - 1]
  IN  sum[n]

\* A collection settles the oldest bills first: those before some bill k are
\* cleared, k is cleared or partly paid, the later ones are untouched.  The
\* bills fall by what the shop's debt falls by, except that a collection
\* beyond the debt (up to the tolerance) may still reach the bills, and one
\* beyond the bills, once all are cleared, the debt.
Collect ==
  /\ Len(due') = Len(due)
  /\ \E k \in 1 .. Len(due) + 1 :
       /\ \A i \in 1 .. k - 1 : due'[i] = 0
       /\ \A i \in k + 1 .. Len(due) : due'[i] = due[i]
       /\ k <= Len(due) => due'[k] \in 0 .. due[k]
  /\ LET settled == Open(due, Len(due)) - Open(due', Len(due))
     IN  /\ settled <= owed - owed' + Tolerance
         /\ owed - owed' <= settled \/ \A i \in 1 .. Len(due) : due'[i] = 0
  /\ owed' \in 0 .. owed

\* A bill is struck out (its goods were handed over); the debt stays.
Close ==
  /\ \E k \in 1 .. Len(due) : due' = [due EXCEPT ![k] = 0]
  /\ UNCHANGED owed

Next == Collect \/ Close
Spec == Init /\ [][Next]_vars
=============================================================================
