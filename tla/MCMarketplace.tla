--------------------------- MODULE MCMarketplace ---------------------------
(* Model checking of Marketplace on small instances.                       *)
EXTENDS Marketplace, FiniteSets, TLC

CONSTANT MaxInFlight   \* how many requests and sweeps are in flight at a time

Symmetry == Permutations(PayRequests) \cup Permutations(OrderRequests)
              \cup Permutations(DeskRequests)

InFlight ==
  Cardinality({r \in PayRequests : pay[r].at # "idle"})
    + Cardinality({j \in OrderRequests : job[j].at # "idle"})
    + Cardinality({d \in DeskRequests : desk[d].at # "idle"})
    + (IF sla.job = None THEN 0 ELSE 1)

(* The behaviours of Marketplace with bounded concurrency.                 *)
BoundedSpec == Init /\ [][Next /\ InFlight' <= MaxInFlight]_vars

(* Those in which nothing overlaps that handles the same order, and none   *)
(* is confirmed that has gone on.                                          *)
SerialSpec ==
  Init /\ [][Next /\ InFlight' <= MaxInFlight /\ OneAtATime' /\ NoLateConfirmation']_vars

FairBoundedSpec == BoundedSpec /\ Fairness /\ <>[][Work]_vars
=============================================================================
