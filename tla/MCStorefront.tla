---------------------------- MODULE MCStorefront ----------------------------
(* Model checking of Storefront: next to the visits that nothing turns,    *)
(* of customers who are signed in and order the default plan for a plot,   *)
(* any others.                                                             *)
EXTENDS Storefront

CONSTANT Steady

BoundedInit == Init /\ \A v \in Steady : page[v].user

BoundedNext == \E v \in Visits : Forward(v) \/ (v \notin Steady /\ Turn(v))

BoundedSpec == BoundedInit /\ [][BoundedNext]_vars

SteadyEntries ==
  \A v \in Steady : wish[v].plan = Default /\ wish[v].location # "help"
=============================================================================
