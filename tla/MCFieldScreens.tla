--------------------------- MODULE MCFieldScreens ---------------------------
(* Model checking of FieldScreens with Outbox.  Once the order is          *)
(* completed the partner leaves the screens alone; what was queued before  *)
(* is still sent.  The notifications are followed from one place: the      *)
(* partner waits on the last screen and all he queued has been answered.   *)
EXTENDS FieldScreens

Leaves == status = "completed_pending_approval" => UNCHANGED screenVars

Waits ==
  /\ screen.queued /\ locating = 0 /\ putting = <<>>
  /\ \A i \in DOMAIN rows : rows[i].status \in {"synced", "failed"}

Bounded == Leaves /\ (notice # notice' \/ task # task' => status # status' \/ Waits)

BoundedSpec == Init /\ [][Next /\ Bounded]_vars

(* Nothing goes wrong but what the partner taps.                           *)
CalmSpec == Init /\ [][Work]_vars /\ Fairness
=============================================================================
