------------------------------ MODULE Settlement ------------------------------
(***************************************************************************)
(* What the settlement of orders promises, for one storage node: an hour   *)
(* earns orders until it is paid, each action of an hour is paid once, for *)
(* orders the hour earned and no others, and the customer is billed at     *)
(* most once for an order, which the node is paid for.                     *)
(***************************************************************************)
EXTENDS Integers

CONSTANTS Orders, Windows, windowOf, action

VARIABLES
  earned,   \* orders the node has stored
  paid,     \* order -> how often it was paid to the node
  billed    \* order -> how often it was billed

vars == <<earned, paid, billed>>

Init ==
  /\ earned = {}
  /\ paid = [o \in Orders |-> 0]
  /\ billed = [o \in Orders |-> 0]

Earn(o) ==
  /\ o \notin earned
  /\ \A p \in Orders : windowOf[p] = windowOf[o] => paid[p] = 0
  /\ earned' = earned \cup {o}
  /\ UNCHANGED <<paid, billed>>

Pay(w, orders) ==
  /\ \A o \in orders : o \in earned /\ windowOf[o] = w
  /\ \A o \in orders, p \in Orders : windowOf[p] = w /\ action[p] = action[o] => paid[p] = 0
  /\ paid' = [o \in Orders |-> IF o \in orders THEN 1 ELSE paid[o]]
  /\ UNCHANGED <<earned, billed>>

Bill(orders) ==
  /\ \A o \in orders : paid[o] = 1 /\ billed[o] = 0
  /\ billed' = [o \in Orders |-> IF o \in orders THEN 1 ELSE billed[o]]
  /\ UNCHANGED <<earned, paid>>

Next ==
  \/ \E o \in Orders : Earn(o)
  \/ \E w \in Windows, orders \in SUBSET Orders : Pay(w, orders)
  \/ \E orders \in SUBSET Orders : Bill(orders)

Spec == Init /\ [][Next]_vars
=============================================================================
