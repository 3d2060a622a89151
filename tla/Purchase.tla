-------------------------------- MODULE Purchase --------------------------------
(* What the marketplace promises about whatever it sells by subscription: a      *)
(* member's plan, a listing's package, its placements.  An order is opened, paid *)
(* for and over, and never changes; and at no time has the customer, or is the   *)
(* customer billed for, anything that no order paid for includes.                *)

CONSTANTS Orders, Goods

VARIABLES
  life,     \* of each order: not there, open at the checkout, paid, over
  order,    \* what each order is for
  held,     \* what the customer has
  billed    \* what the next periods will be billed for

vars == <<life, order, held, billed>>

Init ==
  /\ life = [o \in Orders |-> "none"]
  /\ order = [o \in Orders |-> {}]
  /\ held = {}
  /\ billed = {}

(* What the customer has paid for at some time.                                  *)
Owned == UNION {order[o] : o \in {p \in Orders : life[p] \in {"paid", "over"}}}

Open(o) ==
  /\ life[o] = "none"
  /\ life' = [life EXCEPT ![o] = "open"]
  /\ \E goods \in SUBSET Goods : order' = [order EXCEPT ![o] = goods]
  /\ UNCHANGED <<held, billed>>

(* Paying hands out nothing yet, and renews what the order is for, or nothing.   *)
Pay(o) ==
  /\ life[o] = "open"
  /\ life' = [life EXCEPT ![o] = "paid"]
  /\ billed' \in {billed, billed \cup order[o]}
  /\ UNCHANGED <<order, held>>

(* An order ends by itself, or as another takes its place.                       *)
End(o) ==
  /\ life[o] = "paid"
  /\ life' = [life EXCEPT ![o] = "over"]
  /\ billed' \subseteq billed
  /\ held' \subseteq Owned
  /\ UNCHANGED order

HandOut == held' \subseteq Owned /\ UNCHANGED <<life, order, billed>>

Reprice == billed' \subseteq Owned /\ UNCHANGED <<life, order, held>>

Next ==
  \/ HandOut
  \/ Reprice
  \/ \E o \in Orders : Open(o) \/ Pay(o) \/ End(o)

Spec == Init /\ [][Next]_vars
================================================================================
