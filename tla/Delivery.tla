------------------------------ MODULE Delivery ------------------------------
(***************************************************************************)
(* What an offline queue promises: actions are queued in their order and   *)
(* never dropped, one is carried out only if it was queued and whatever it *)
(* needs was carried out before, and only an action that was carried out   *)
(* is reported as done.  A report may be taken back, to try again; what    *)
(* was carried out stays so.                                               *)
(***************************************************************************)
EXTENDS Naturals

CONSTANTS
  Actions,   \* numbered in the order in which they are queued
  Needs      \* [Actions -> SUBSET Actions], what has to come before

VARIABLES queued, carriedOut, reported

deliveryVars == <<queued, carriedOut, reported>>

DeliveryInit == queued = {} /\ carriedOut = {} /\ reported = {}

Queue(k) ==
  /\ k \notin queued
  /\ \A j \in Actions : j < k => j \in queued
  /\ queued' = queued \cup {k}
  /\ UNCHANGED <<carriedOut, reported>>

CarryOut(k) ==
  /\ k \in queued
  /\ Needs[k] \subseteq carriedOut
  /\ carriedOut' = carriedOut \cup {k}
  /\ UNCHANGED <<queued, reported>>

Report(k) ==
  /\ k \in carriedOut
  /\ reported' = reported \cup {k}
  /\ UNCHANGED <<queued, carriedOut>>

TryAgain ==
  /\ reported' \subseteq reported
  /\ UNCHANGED <<queued, carriedOut>>

DeliveryNext ==
  \/ \E k \in Actions : Queue(k) \/ CarryOut(k) \/ Report(k)
  \/ TryAgain

DeliverySpec == DeliveryInit /\ [][DeliveryNext]_deliveryVars
=============================================================================
