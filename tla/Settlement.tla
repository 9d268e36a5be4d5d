----------------------------- MODULE Settlement -----------------------------
(***************************************************************************)
(* What the marketplace promises about money: the customer is charged      *)
(* first, work is delivered only for a charged order, a partner earns only *)
(* from delivered work, and only money that was charged is returned.  None *)
(* of it is ever taken back.                                               *)
(***************************************************************************)
CONSTANT Orders

VARIABLES
  charged,     \* orders the customer's card was charged for
  delivered,   \* orders completed with their evidence
  earned,      \* orders that owe a partner money
  returned     \* orders with money returned to the customer

settlementVars == <<charged, delivered, earned, returned>>

SettlementInit ==
  /\ charged = {}
  /\ delivered = {}
  /\ earned = {}
  /\ returned = {}

Charge(o) ==
  /\ charged' = charged \cup {o}
  /\ UNCHANGED <<delivered, earned, returned>>

Deliver(o) ==
  /\ o \in charged
  /\ delivered' = delivered \cup {o}
  /\ UNCHANGED <<charged, earned, returned>>

Earn(o) ==
  /\ o \in delivered
  /\ earned' = earned \cup {o}
  /\ UNCHANGED <<charged, delivered, returned>>

Return(o) ==
  /\ o \in charged
  /\ returned' = returned \cup {o}
  /\ UNCHANGED <<charged, delivered, earned>>

SettlementNext ==
  \E o \in Orders : Charge(o) \/ Deliver(o) \/ Earn(o) \/ Return(o)

SettlementSpec == SettlementInit /\ [][SettlementNext]_settlementVars
=============================================================================
