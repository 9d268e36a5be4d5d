--------------------------- MODULE OrderLifecycle ---------------------------
(***************************************************************************)
(* The status machine of an order when requests are handled one at a time. *)
(* The edges are those of the product specification (section 21.2, quoted  *)
(* in orders.service.ts), and two that the code adds: a payment that comes *)
(* after the order was cancelled revives it, and a refund may be granted   *)
(* over a complaint on an order in any charged state.                      *)
(***************************************************************************)
CONSTANT Orders

VARIABLES
  status,     \* [Orders -> status]
  charged     \* orders the customer's card was charged for

lifecycleVars == <<status, charged>>

Edges ==
  { <<"absent", "draft">>,
    <<"draft", "pending_payment">>,
    <<"pending_payment", "cancelled">>,
    <<"confirmed", "assigned">>,
    <<"assigned", "in_progress">>,
    <<"in_progress", "completed_pending_approval">>,
    <<"completed_pending_approval", "closed">>,
    <<"completed_pending_approval", "disputed">>,
    <<"disputed", "closed">> }

LifecycleInit ==
  /\ status = [o \in Orders |-> "absent"]
  /\ charged = {}

Charge(o) ==
  /\ status[o] \in {"pending_payment", "cancelled"} \/ o \in charged
  /\ charged' = charged \cup {o}
  /\ UNCHANGED status

Follow(o) ==
  /\ \E edge \in Edges : status[o] = edge[1]
                           /\ status' = [status EXCEPT ![o] = edge[2]]
  /\ UNCHANGED charged

Confirm(o) ==
  /\ o \in charged
  /\ status[o] \in {"pending_payment", "cancelled"}
  /\ status' = [status EXCEPT ![o] = "confirmed"]
  /\ UNCHANGED charged

Refund(o) ==
  /\ o \in charged
  /\ status' = [status EXCEPT ![o] = "refunded"]
  /\ UNCHANGED charged

LifecycleNext ==
  \E o \in Orders : Charge(o) \/ Follow(o) \/ Confirm(o) \/ Refund(o)

LifecycleSpec == LifecycleInit /\ [][LifecycleNext]_lifecycleVars
=============================================================================
