---------------------------- MODULE MCFieldQueue ----------------------------
(* Model checking of FieldQueue.                                           *)
EXTENDS FieldQueue, TLC

Symmetry == Permutations(Calls)

(* The worker is stopped with a row still syncing, and no app start to     *)
(* come writes it back: the page is open.                                  *)
LeavesRow ==
  /\ flush["worker"].key # None /\ flush'["worker"] = FlushIdle
  /\ row'[flush["worker"].key] = "syncing"
  /\ flush["page"].at # "closed"

(* Liveness of the two contexts but for that: Next without it.             *)
FinishingNext ==
  \/ Work
  \/ \E x \in Clients : SendInVain(x) \/ (Close(x) /\ ~LeavesRow)
  \/ \E x \in Clients : LoseAnswer(x) /\ UNCHANGED <<queueVars, orderVars>>
  \/ \E c \in Calls : Die(c) /\ UNCHANGED <<queueVars, orderVars>>

FinishingSpec == Init /\ [][FinishingNext]_vars /\ Fairness
=============================================================================
