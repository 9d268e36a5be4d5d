-------------------------- MODULE SettlementProofs --------------------------
(***************************************************************************)
(* Marketplace implements Settlement, and a webhook event is marked only   *)
(* behind everything it stands for, for any number of orders, partners,    *)
(* complaints, tokens and overlapping requests.  Where requests on one     *)
(* order do not overlap, it implements OrderLifecycle too; and where, in   *)
(* addition, no status goes back, each order has one payout at most.       *)
(***************************************************************************)
EXTENDS SafetyProofs

ChargedOrders   == {o \in Orders : Charged(o)}
DeliveredOrders == {o \in Orders : order[o].completed}
EarnedOrders    == {o \in Orders : \E p \in Partners : payouts[o][p] > 0}
ReturnedOrders  == {o \in Orders : Returned(o)}

Ledger == <<ChargedOrders, DeliveredOrders, EarnedOrders, ReturnedOrders>>

-----------------------------------------------------------------------------
(* Which steps move which set                                              *)

(* Rows that a step leaves alone leave their sets alone.                   *)
LEMMA LedgerFramed ==
  /\ UNCHANGED <<payment, form>> => UNCHANGED <<ChargedOrders, ReturnedOrders>>
  /\ UNCHANGED order => UNCHANGED DeliveredOrders
  /\ UNCHANGED payouts => UNCHANGED EarnedOrders
BY DEF ChargedOrders, ReturnedOrders, DeliveredOrders, EarnedOrders, Charged, Returned, Paid

(* A status that is written leaves the completion alone.                   *)
LEMMA DeliveredFramed ==
  ASSUME TablesTyped, NEW o \in Orders, NEW s, SetStatus(o, s)
  PROVE  UNCHANGED DeliveredOrders
BY StatusWritten DEF DeliveredOrders

(* Nothing new is paid or returned: nothing new is charged or returned.    *)
LEMMA MoneyFramed ==
  ASSUME MoneyInv, NothingTakenBack
  PROVE  /\ (\A t \in Tokens : Paid(t)' => Paid(t)) => UNCHANGED ChargedOrders
         /\ (\A t \in Tokens : form'[t] = "returned" => form[t] = "returned")
              => UNCHANGED ReturnedOrders
<1>1. \A t \in Tokens : Paid(t) => payment'[t].order = payment[t].order
  BY DEF MoneyInv, FormsTell, NothingTakenBack
<1>2. \A t \in Tokens : form[t] = "returned" => Paid(t)
  BY DEF Paid
<1>3. ASSUME \A t \in Tokens : Paid(t)' => Paid(t) PROVE UNCHANGED ChargedOrders
  <2>1. ASSUME NEW o \in Orders PROVE Charged(o)' => Charged(o)
    BY <1>1, <1>3 DEF Charged
  <2> QED
    BY <2>1 DEF ChargedOrders, NothingTakenBack
<1>4. ASSUME \A t \in Tokens : form'[t] = "returned" => form[t] = "returned"
      PROVE  UNCHANGED ReturnedOrders
  <2>1. ASSUME NEW o \in Orders PROVE Returned(o)' => Returned(o)
    BY <1>1, <1>2, <1>4 DEF Returned
  <2> QED
    BY <2>1 DEF ReturnedOrders, NothingTakenBack
<1> QED
  BY <1>3, <1>4

(* PaymentsService charges one order at a time.                            *)
LEMMA CheckoutSettles ==
  ASSUME TypeInv, MoneyInv, NothingTakenBack, CheckoutNext, PaymentsFrame
  PROVE  /\ UNCHANGED <<DeliveredOrders, EarnedOrders, ReturnedOrders>>
         /\ \/ UNCHANGED ChargedOrders
            \/ \E o \in Orders : ChargedOrders' = ChargedOrders \cup {o}
<1> USE DEF TypeInv
<1>1. UNCHANGED EarnedOrders
  BY LedgerFramed DEF PaymentsFrame, fulfilmentVars
<1>2. UNCHANGED ReturnedOrders
  BY MoneyFramed, CheckoutKeepsPayments
<1>3. UNCHANGED DeliveredOrders
  <2>1. ASSUME NEW r \in PayRequests, RecordIntent(r) PROVE UNCHANGED DeliveredOrders
    BY <2>1, DeliveredFramed DEF RecordIntent, PayTyped, PayFits
  <2>2. ASSUME NEW r \in PayRequests, ConfirmOrder(r) PROVE UNCHANGED DeliveredOrders
    BY <2>2, PayRow, DeliveredFramed DEF ConfirmOrder
  <2>3. ASSUME ~ \E r \in PayRequests : RecordIntent(r) \/ ConfirmOrder(r)
        PROVE  UNCHANGED order
    BY <2>3
    DEF CheckoutNext, CheckoutWork, PayStep, BeginIntent, InitializeForm, RefuseForm, PayForm, DeclineForm,
        Callback, Webhook, FinalizeRow, AuditConfirm, NotifyConfirm, MarkEvent, AbortPay,
        tables
  <2> QED
    BY <2>1, <2>2, <2>3, LedgerFramed
<1>4. CASE \E t \in Tokens : PayForm(t)
  <2>1. PICK t \in Tokens : PayForm(t)
    BY <1>4
  <2>2. payment[t].order \in Orders
    BY <2>1 DEF PayForm, PayTyped
  <2>3. /\ \A u \in Tokens : u # t => form'[u] = form[u]
        /\ form'[t] = "paid" /\ UNCHANGED payment
    BY <2>1 DEF PayForm, PayTyped, CheckoutTypeOK
  <2>4. \A o \in Orders : Charged(o)' <=> Charged(o) \/ o = payment[t].order
    BY <2>3 DEF Charged, Paid, NothingTakenBack
  <2> QED
    BY <1>1, <1>2, <1>3, <2>2, <2>4 DEF ChargedOrders
<1>5. CASE ~ \E t \in Tokens : PayForm(t)
  <2>1. \A t \in Tokens : form'[t] # form[t] => form'[t] = "open"
    BY <1>5
    DEF CheckoutNext, CheckoutWork, PayStep, BeginIntent, InitializeForm, RefuseForm, RecordIntent,
        DeclineForm, Callback, Webhook, FinalizeRow, ConfirmOrder, AuditConfirm,
        NotifyConfirm, MarkEvent, AbortPay, PayTyped, CheckoutTypeOK
  <2>2. \A t \in Tokens : Paid(t)' => Paid(t)
    BY <2>1 DEF Paid
  <2> QED
    BY <1>1, <1>2, <1>3, <2>2, MoneyFramed
<1> QED
  BY <1>4, <1>5

(* ComplaintsService returns the money of one charged order at a time.     *)
LEMMA DisputesSettle ==
  ASSUME TypeInv, MoneyInv, NothingTakenBack, DisputesNext, DeskFrame
  PROVE  /\ UNCHANGED <<ChargedOrders, DeliveredOrders, EarnedOrders>>
         /\ \/ UNCHANGED ReturnedOrders
            \/ \E o \in ChargedOrders : ReturnedOrders' = ReturnedOrders \cup {o}
<1> USE DEF TypeInv
<1>1. UNCHANGED EarnedOrders
  BY LedgerFramed DEF DeskFrame, fulfilmentVars
<1>2. UNCHANGED DeliveredOrders
  <2>1. ASSUME NEW d \in DeskRequests, CloseDispute(d) \/ RefundOrder(d)
        PROVE  UNCHANGED DeliveredOrders
    BY <2>1, DeskRow, DeliveredFramed DEF CloseDispute, RefundOrder
  <2>2. ASSUME ~ \E d \in DeskRequests : CloseDispute(d) \/ RefundOrder(d)
        PROVE  UNCHANGED order
    BY <2>2
    DEF DisputesNext, DisputesWork, DeskStep, BeginInvestigate, BeginResolve, BeginRefund, Investigate,
        Resolve, ReadDisputed, NotifyResolved, FindPayment, ReturnMoney, MarkRefunded,
        ReadRefunded, AuditDesk, AbortDesk, tables
  <2> QED
    BY <2>1, <2>2, LedgerFramed
<1>3. CASE \E d \in DeskRequests : ReturnMoney(d)
  <2>1. PICK d \in DeskRequests : ReturnMoney(d)
    BY <1>3
  <2> DEFINE t == desk[d].token
  <2>2. t \in Tokens /\ payment[t].order \in Orders
    BY <2>1 DEF ReturnMoney, DeskTyped, DeskFits, PayTyped
  <2>3. /\ \A u \in Tokens : u # t => form'[u] = form[u]
        /\ form'[t] = "returned" /\ form[t] \in {"paid", "returned"}
        /\ UNCHANGED payment
    BY <2>1, <2>2 DEF ReturnMoney, PayTyped, CheckoutTypeOK
  <2>4. UNCHANGED ChargedOrders
    <3>1. \A u \in Tokens : Paid(u)' => Paid(u)
      BY <2>3 DEF Paid
    <3> QED
      BY <3>1, MoneyFramed
  <2>5. payment[t].order \in ChargedOrders
    BY <2>2, <2>3 DEF ChargedOrders, Charged, Paid
  <2>6. \A o \in Orders : Returned(o)' <=> Returned(o) \/ o = payment[t].order
    BY <2>2, <2>3 DEF Returned
  <2>7. ReturnedOrders' = ReturnedOrders \cup {payment[t].order}
    BY <2>2, <2>6 DEF ReturnedOrders
  <2> QED
    BY <1>1, <1>2, <2>4, <2>5, <2>7
<1>4. CASE ~ \E d \in DeskRequests : ReturnMoney(d)
  <2>1. UNCHANGED form
    BY <1>4
    DEF DisputesNext, DisputesWork, DeskStep, BeginInvestigate, BeginResolve, BeginRefund, Investigate,
        Resolve, ReadDisputed, NotifyResolved, CloseDispute, FindPayment, MarkRefunded,
        ReadRefunded, RefundOrder, AuditDesk, AbortDesk, checkoutVars
  <2>2. (\A t \in Tokens : Paid(t)' => Paid(t))
          /\ \A t \in Tokens : form'[t] = "returned" => form[t] = "returned"
    BY <2>1 DEF Paid
  <2> QED
    BY <1>1, <1>2, <2>2, MoneyFramed
<1> QED
  BY <1>3, <1>4

(* A payout makes its order earned.                                        *)
LEMMA PayoutEarns ==
  ASSUME JobTyped, NEW o \in Orders, NEW p \in Partners \cup {None}, CreatePayout(o, p)
  PROVE  UNCHANGED EarnedOrders \/ EarnedOrders' = EarnedOrders \cup {o}
<1>1. CASE p = None
  BY <1>1, LedgerFramed DEF CreatePayout
<1>2. CASE p # None
  <2>1. \A i \in Orders : i # o => payouts'[i] = payouts[i]
    BY <1>2 DEF CreatePayout, JobTyped, FulfilmentTypeOK
  <2>2. p \in Partners /\ payouts'[o][p] = payouts[o][p] + 1 /\ payouts[o][p] \in Nat
    BY <1>2 DEF CreatePayout, JobTyped, FulfilmentTypeOK
  <2>3. payouts'[o][p] > 0
    BY <2>2
  <2> QED
    BY <2>1, <2>2, <2>3 DEF EarnedOrders
<1> QED
  BY <1>1, <1>2

(* OrdersService delivers on charged orders and pays for delivered ones.   *)
LEMMA FulfilmentSettles ==
  ASSUME TypeInv, ClaimsInv, FulfilmentNext, OrdersFrame
  PROVE  /\ UNCHANGED <<ChargedOrders, ReturnedOrders>>
         /\ \/ UNCHANGED <<DeliveredOrders, EarnedOrders>>
            \/ \E o \in ChargedOrders : /\ DeliveredOrders' = DeliveredOrders \cup {o}
                                        /\ UNCHANGED EarnedOrders
            \/ \E o \in DeliveredOrders : /\ EarnedOrders' = EarnedOrders \cup {o}
                                          /\ UNCHANGED DeliveredOrders
<1> USE DEF TypeInv
<1> DEFINE Goal == \/ UNCHANGED <<DeliveredOrders, EarnedOrders>>
                   \/ \E o \in ChargedOrders : /\ DeliveredOrders' = DeliveredOrders \cup {o}
                                               /\ UNCHANGED EarnedOrders
                   \/ \E o \in DeliveredOrders : /\ EarnedOrders' = EarnedOrders \cup {o}
                                                 /\ UNCHANGED DeliveredOrders
<1>1. UNCHANGED <<ChargedOrders, ReturnedOrders>>
  BY LedgerFramed DEF OrdersFrame, checkoutVars
<1>2. ASSUME NEW o \in Orders, CreateOrder(o) PROVE Goal
  BY <1>2, DeliveredFramed, LedgerFramed DEF CreateOrder, fulfilmentVars
<1>3. ASSUME NEW j \in OrderRequests, Complete(j) PROVE Goal
  <2>1. /\ job[j].order \in ChargedOrders /\ UNCHANGED EarnedOrders
    BY <1>3, JobRow, LedgerFramed DEF Complete, At, ClaimsInv, JobClaim, ChargedOrders
  <2>2. \A o \in Orders : order'[o].completed <=> order[o].completed \/ o = job[j].order
    BY <1>3 DEF Complete, TablesTyped, TablesTypeOK, OrderRow
  <2>3. DeliveredOrders' = DeliveredOrders \cup {job[j].order}
    BY <2>1, <2>2 DEF DeliveredOrders, ChargedOrders
  <2> QED
    BY <2>1, <2>3
<1>4. ASSUME NEW j \in OrderRequests, Approve(j) PROVE Goal
  <2>1. /\ job[j].order \in DeliveredOrders /\ job[j].order \in Orders
        /\ job[j].partner \in Partners \cup {None}
    BY <1>4, JobRow DEF Approve, At, ClaimsInv, JobClaim, Done, Evidenced, DeliveredOrders
  <2>2. UNCHANGED DeliveredOrders
    BY <1>4, <2>1, DeliveredFramed DEF Approve
  <2>3. UNCHANGED EarnedOrders \/ EarnedOrders' = EarnedOrders \cup {job[j].order}
    BY <1>4, <2>1, PayoutEarns DEF Approve
  <2> QED
    BY <2>1, <2>2, <2>3
<1>5. ASSUME NEW j \in OrderRequests, Assign(j) \/ Start(j) PROVE Goal
  <2>1. \A o \in Orders : order'[o].completed = order[o].completed
    BY <1>5, JobRow, StatusWritten DEF Assign, Start, At, TablesTyped, TablesTypeOK, OrderRow
  <2>2. UNCHANGED DeliveredOrders
    BY <2>1 DEF DeliveredOrders
  <2> QED
    BY <1>5, <2>2, LedgerFramed DEF Assign, Start
<1>6. ASSUME NEW j \in OrderRequests, NEW k \in Complaints, Complain(j, k) PROVE Goal
  <2>1. UNCHANGED DeliveredOrders
    BY <1>6, JobRow, DeliveredFramed, LedgerFramed DEF Complain, At
  <2> QED
    BY <1>6, <2>1, LedgerFramed DEF Complain
<1>7. ASSUME NEW j \in OrderRequests,
             \/ \E p \in Partners, d \in {"active", "rejected"} : BeginVet(j, p, d)
             \/ \E o \in Orders, p \in Partners :
                  \/ BeginAssign(j, o, p)
                  \/ BeginStart(j, o, p)
                  \/ \E kind \in PhotoKinds : BeginEvidence(j, o, p, kind)
                  \/ BeginComplete(j, o, p)
             \/ \E o \in Orders : BeginApprove(j, o) \/ BeginComplaint(j, o)
             \/ Vet(j) \/ CheckPartner(j) \/ StoreEvidence(j) \/ ReportForReview(j)
             \/ CheckPhotos(j) \/ AuditJob(j) \/ NotifyJob(j) \/ AbortJob(j)
      PROVE  UNCHANGED <<order, payouts>>
  BY <1>7 DEF BeginVet, BeginAssign, BeginStart, BeginEvidence, BeginComplete, BeginApprove,
              BeginComplaint, JobBegin, Vet, CheckPartner, StoreEvidence, ReportForReview,
              CheckPhotos, AuditJob, NotifyJob, AbortJob, tables
<1>8. ASSUME NEW p \in Partners, Onboard(p) PROVE UNCHANGED <<order, payouts>>
  BY <1>8 DEF Onboard, tables
<1> QED
  BY <1>1, <1>2, <1>3, <1>4, <1>5, <1>6, <1>7, <1>8, LedgerFramed
  DEF FulfilmentNext, FulfilmentWork, JobStep

(* SlaService pays for delivered orders.                                   *)
LEMMA SweepsSettle ==
  ASSUME TypeInv, ClaimsInv, SweepsNext, SlaFrame
  PROVE  /\ UNCHANGED <<ChargedOrders, DeliveredOrders, ReturnedOrders>>
         /\ \/ UNCHANGED EarnedOrders
            \/ \E o \in DeliveredOrders : EarnedOrders' = EarnedOrders \cup {o}
<1> USE DEF TypeInv
<1>1. UNCHANGED <<ChargedOrders, ReturnedOrders>>
  BY LedgerFramed DEF SlaFrame, checkoutVars
<1>2. ASSUME NEW o \in Orders, AutoClose(o)
      PROVE  /\ o \in DeliveredOrders /\ UNCHANGED DeliveredOrders
             /\ UNCHANGED EarnedOrders \/ EarnedOrders' = EarnedOrders \cup {o}
  <2>1. o \in DeliveredOrders /\ sla.owed[o] \in Partners \cup {None}
    BY <1>2 DEF AutoClose, Take, ClaimsInv, SlaClaim, Done, Evidenced, DeliveredOrders,
                SweepsTypeOK, Sweep
  <2>2. UNCHANGED DeliveredOrders
    BY <1>2, DeliveredFramed DEF AutoClose
  <2> QED
    BY <1>2, <2>1, <2>2, PayoutEarns, LedgerFramed DEF AutoClose
<1>3. ASSUME NEW o \in Orders, CancelUnpaid(o)
      PROVE  UNCHANGED <<DeliveredOrders, EarnedOrders>>
  BY <1>3, DeliveredFramed, LedgerFramed DEF CancelUnpaid, fulfilmentVars
<1>4. ASSUME \/ \E o \in Orders : AuditSweep(o) \/ NotifySweep(o)
             \/ AbortSweep
             \/ \E which \in Sweeps : BeginSweep(which)
      PROVE  UNCHANGED <<DeliveredOrders, EarnedOrders>>
  BY <1>4, LedgerFramed
  DEF AuditSweep, NotifySweep, AbortSweep, BeginSweep, tables, fulfilmentVars
<1> QED
  BY <1>1, <1>2, <1>3, <1>4 DEF SweepsNext, SweepsWork, SweepStep

-----------------------------------------------------------------------------
(* The refinement                                                          *)

(* The variables of Settlement, as Marketplace substitutes them.           *)
LEMMA LedgerIs ==
  /\ UNCHANGED (Settled!settlementVars) <=> UNCHANGED Ledger
  /\ Settled!SettlementInit <=> Ledger = <<{}, {}, {}, {}>>
  /\ Settled!SettlementNext <=>
       \E o \in Orders :
         \/ /\ ChargedOrders' = ChargedOrders \cup {o}
            /\ UNCHANGED <<DeliveredOrders, EarnedOrders, ReturnedOrders>>
         \/ /\ o \in ChargedOrders
            /\ DeliveredOrders' = DeliveredOrders \cup {o}
            /\ UNCHANGED <<ChargedOrders, EarnedOrders, ReturnedOrders>>
         \/ /\ o \in DeliveredOrders
            /\ EarnedOrders' = EarnedOrders \cup {o}
            /\ UNCHANGED <<ChargedOrders, DeliveredOrders, ReturnedOrders>>
         \/ /\ o \in ChargedOrders
            /\ ReturnedOrders' = ReturnedOrders \cup {o}
            /\ UNCHANGED <<ChargedOrders, DeliveredOrders, EarnedOrders>>
BY DEF Ledger, ChargedOrders, DeliveredOrders, EarnedOrders, ReturnedOrders,
       Settled!settlementVars, Settled!SettlementInit, Settled!SettlementNext,
       Settled!Charge, Settled!Deliver, Settled!Earn, Settled!Return

(* In the initial state nothing is charged, delivered, earned or returned. *)
LEMMA SettlementStarts == Init => Settled!SettlementInit
<1> SUFFICES ASSUME Init PROVE Ledger = <<{}, {}, {}, {}>>
  BY LedgerIs
<1>1. \A t \in Tokens : ~Paid(t) /\ form[t] # "returned"
  BY DEF Init, CheckoutInit, Paid
<1>2. \A o \in Orders : ~order[o].completed
  BY DEF Init, TablesInit
<1>3. \A o \in Orders, p \in Partners : ~(payouts[o][p] > 0)
  BY DEF Init, FulfilmentInit
<1> QED
  BY <1>1, <1>2, <1>3
  DEF Ledger, ChargedOrders, DeliveredOrders, EarnedOrders, ReturnedOrders, Charged, Returned

(* Every step charges, delivers, earns or returns for one order, or none.  *)
LEMMA SettlementSteps ==
  ASSUME Invariant, [Next]_vars
  PROVE  [Settled!SettlementNext]_(Settled!settlementVars)
<1> USE DEF Invariant
<1>1. NothingTakenBack
  BY Monotone
<1>2. SUFFICES Settled!SettlementNext \/ UNCHANGED Ledger
  BY LedgerIs
<1>3. CASE CheckoutNext /\ PaymentsFrame
  BY <1>1, <1>3, CheckoutSettles, LedgerIs DEF Ledger
<1>4. CASE DisputesNext /\ DeskFrame
  <2>1. \A o \in ChargedOrders : o \in Orders
    BY DEF ChargedOrders
  <2> QED
    BY <1>1, <1>4, <2>1, DisputesSettle, LedgerIs DEF Ledger
<1>5. CASE FulfilmentNext /\ OrdersFrame
  <2>1. \A o \in ChargedOrders \cup DeliveredOrders : o \in Orders
    BY DEF ChargedOrders, DeliveredOrders
  <2> QED
    BY <1>5, <2>1, FulfilmentSettles, LedgerIs DEF Ledger
<1>6. CASE SweepsNext /\ SlaFrame
  <2>1. \A o \in DeliveredOrders : o \in Orders
    BY DEF DeliveredOrders
  <2> QED
    BY <1>6, <2>1, SweepsSettle, LedgerIs DEF Ledger
<1>7. ASSUME NEW o \in Orders, Elapse(o), ClockFrame PROVE UNCHANGED Ledger
  <2>1. \A i \in Orders : order'[i].completed = order[i].completed
    BY <1>7 DEF Elapse, TypeInv, TablesTyped, TablesTypeOK, OrderRow
  <2> QED
    BY <1>7, <2>1, LedgerFramed DEF ClockFrame, checkoutVars, fulfilmentVars, Ledger, DeliveredOrders
<1>8. CASE UNCHANGED vars
  BY <1>8, LedgerFramed DEF vars, tables, checkoutVars, fulfilmentVars, Ledger
<1> QED
  BY <1>3, <1>4, <1>5, <1>6, <1>7, <1>8 DEF Next

(* However requests, sweeps, webhooks and crashes interleave, the API      *)
(* charges before work is delivered, pays for delivered work only, and     *)
(* returns only what was charged (payments.service.ts:437-457,             *)
(* orders.service.ts:486-590, complaints.service.ts:202-228).              *)
THEOREM SettlementImplemented == Spec => ImplementsSettlement
<1>1. Spec => []Invariant
  BY Inductive
<1>2. Init => Settled!SettlementInit
  BY SettlementStarts
<1>3. Invariant /\ [Next]_vars => [Settled!SettlementNext]_(Settled!settlementVars)
  BY SettlementSteps
<1> QED
  BY <1>1, <1>2, <1>3, PTL DEF Spec, ImplementsSettlement, Settled!SettlementSpec

-----------------------------------------------------------------------------
(* Webhook events                                                          *)

(* What a confirmation has left behind stays.                              *)
LEMMA ConfirmationKept ==
  ASSUME NothingTakenBack, NEW t \in Tokens, Exists(t)
  PROVE  (Recorded(t) => Recorded(t)') /\ (Announced(t) => Announced(t)')
BY DEF NothingTakenBack, Recorded, Announced

(* A request that did not move keeps its claim.                            *)
LEMMA MarkClaimKept ==
  ASSUME PayTyped, NothingTakenBack, NEW r \in PayRequests, MarkClaim(r), pay'[r] = pay[r]
  PROVE  MarkClaim(r)'
<1>1. pay[r].at \in {"notify", "mark"} => pay[r].token \in Tokens /\ Exists(pay[r].token)
  BY PayRow
<1> QED
  BY <1>1, ConfirmationKept DEF MarkClaim

(* A marked event keeps what it has left behind.                           *)
LEMMA MarkedKept ==
  ASSUME MoneyInv, NothingTakenBack, MarkInv, UNCHANGED processed,
         NEW t \in Tokens, <<t, "succeeded">> \in processed'
  PROVE  Recorded(t)' /\ Announced(t)'
<1>1. Exists(t)
  BY DEF MoneyInv, FormsTell
<1> QED
  BY <1>1, ConfirmationKept DEF MarkInv

(* A success is marked by the last step of a request that has recorded and *)
(* announced the confirmation.                                             *)
LEMMA MarkInvStep ==
  ASSUME KeepsConfirmations, Invariant, MarkInv, [Next]_vars
  PROVE  MarkInv'
<1> USE DEF Invariant, TypeInv
<1>1. NothingTakenBack
  BY Monotone
<1>2. ASSUME UNCHANGED <<processed, pay>> PROVE MarkInv'
  <2>1. \A s \in PayRequests : MarkClaim(s)'
    BY <1>1, <1>2, MarkClaimKept DEF MarkInv
  <2> QED
    BY <1>1, <1>2, <2>1, MarkedKept DEF MarkInv
<1>3. ASSUME NEW r \in PayRequests,
             \/ \E o \in Orders : BeginIntent(r, o)
             \/ \E t \in Tokens : InitializeForm(r, t) \/ Callback(r, t)
             \/ \E t \in Tokens, outcome \in Outcomes : Webhook(r, t, outcome)
             \/ RefuseForm(r) \/ RecordIntent(r) \/ ConfirmOrder(r) \/ AbortPay(r)
      PROVE  MarkInv'
  <2>1. UNCHANGED processed /\ pay'[r].at \in {"initialize", "record", "pay", "audit", "idle"}
    <3>1. pay \in [PayRequests -> PayTask]
      BY DEF PayTyped, CheckoutTypeOK
    <3>2. CASE (\E o \in Orders : BeginIntent(r, o)) \/ (\E t \in Tokens : Callback(r, t))
                 \/ \E t \in Tokens, outcome \in Outcomes : Webhook(r, t, outcome)
      BY <3>1, <3>2 DEF BeginIntent, Callback, Webhook, PayIdle
    <3>3. CASE (\E t \in Tokens : InitializeForm(r, t)) \/ ConfirmOrder(r)
      BY <3>1, <3>3 DEF InitializeForm, ConfirmOrder, PayGoto, PayTask
    <3>4. CASE RefuseForm(r) \/ RecordIntent(r) \/ AbortPay(r)
      BY <3>1, <3>4 DEF RefuseForm, RecordIntent, AbortPay, PayEnd, PayIdle
    <3> QED
      BY <1>3, <3>2, <3>3, <3>4
  <2>2. \A s \in PayRequests : s # r => pay'[s] = pay[s]
    BY <1>3
    DEF BeginIntent, InitializeForm, Callback, Webhook, RefuseForm, RecordIntent, ConfirmOrder,
        AbortPay, PayGoto, PayEnd, PayTyped, CheckoutTypeOK
  <2>3. \A s \in PayRequests : MarkClaim(s)'
    BY <1>1, <2>1, <2>2, MarkClaimKept DEF MarkInv, MarkClaim
  <2> QED
    BY <1>1, <2>1, <2>3, MarkedKept DEF MarkInv
<1>4. ASSUME NEW r \in PayRequests, FinalizeRow(r) PROVE MarkInv'
  <2>1. UNCHANGED processed /\ pay'[r].at # "notify"
          /\ (pay'[r].at = "mark" => pay'[r].outcome = "failed")
    BY <1>4 DEF FinalizeRow, PayGoto, PayEnd, PayIdle, PayTyped, CheckoutTypeOK, PayTask
  <2>2. \A s \in PayRequests : s # r => pay'[s] = pay[s]
    BY <1>4 DEF FinalizeRow, PayGoto, PayEnd, PayTyped, CheckoutTypeOK
  <2>3. \A s \in PayRequests : MarkClaim(s)'
    BY <1>1, <2>1, <2>2, MarkClaimKept DEF MarkInv, MarkClaim
  <2> QED
    BY <1>1, <2>1, <2>3, MarkedKept DEF MarkInv
<1>5. ASSUME NEW r \in PayRequests, AuditConfirm(r) PROVE MarkInv'
  <2>1. UNCHANGED <<processed, payment>> /\ pay'[r].at = "notify"
          /\ pay'[r].token = pay[r].token
          /\ \A s \in PayRequests : s # r => pay'[s] = pay[s]
    BY <1>5 DEF AuditConfirm, PayGoto, PayTyped, CheckoutTypeOK, PayTask
  <2>2. <<"order.confirm", payment[pay[r].token].order>> \in audit'
    BY <1>5 DEF AuditConfirm, Audit, KeepsConfirmations
  <2>3. MarkClaim(r)'
    BY <2>1, <2>2 DEF MarkClaim, Recorded
  <2>4. \A s \in PayRequests : MarkClaim(s)'
    BY <1>1, <2>1, <2>3, MarkClaimKept DEF MarkInv
  <2> QED
    BY <1>1, <2>1, <2>4, MarkedKept DEF MarkInv
<1>6. ASSUME NEW r \in PayRequests, NotifyConfirm(r) PROVE MarkInv'
  <2>1. /\ UNCHANGED <<processed, payment, audit>>
        /\ \A s \in PayRequests : s # r => pay'[s] = pay[s]
        /\ pay'[r].at # "notify"
        /\ pay'[r].at = "mark" => pay'[r].token = pay[r].token
    BY <1>6 DEF NotifyConfirm, PayGoto, PayEnd, PayIdle, PayTyped, CheckoutTypeOK, PayTask
  <2>2. <<"order_confirmed", payment[pay[r].token].order>> \in notices'
    BY <1>6 DEF NotifyConfirm, Notify, KeepsConfirmations
  <2>3. Recorded(pay[r].token)
    BY <1>6 DEF NotifyConfirm, MarkInv, MarkClaim
  <2>4. MarkClaim(r)'
    BY <2>1, <2>2, <2>3 DEF MarkClaim, Recorded, Announced
  <2>5. \A s \in PayRequests : MarkClaim(s)'
    BY <1>1, <2>1, <2>4, MarkClaimKept DEF MarkInv
  <2> QED
    BY <1>1, <2>1, <2>5, MarkedKept DEF MarkInv
<1>7. ASSUME NEW r \in PayRequests, MarkEvent(r) PROVE MarkInv'
  <2>1. UNCHANGED <<payment, tables>>
    BY <1>7 DEF MarkEvent
  <2>2. \A s \in PayRequests : IF s = r THEN pay'[s].at = "idle" ELSE pay'[s] = pay[s]
    BY <1>7 DEF MarkEvent, PayEnd, PayIdle, PayTyped, CheckoutTypeOK
  <2>3. \A s \in PayRequests : MarkClaim(s)'
    BY <1>1, <2>2, MarkClaimKept DEF MarkInv, MarkClaim
  <2>4. ASSUME NEW t \in Tokens, <<t, "succeeded">> \in processed'
        PROVE  Recorded(t) /\ Announced(t)
    BY <1>7, <2>4 DEF MarkEvent, MarkInv, MarkClaim
  <2> QED
    BY <2>1, <2>3, <2>4 DEF MarkInv, Recorded, Announced, tables
<1>8. ASSUME NEW t \in Tokens, PayForm(t) \/ DeclineForm(t) PROVE UNCHANGED <<processed, pay>>
  BY <1>8 DEF PayForm, DeclineForm
<1>9. CASE CheckoutNext
  BY <1>2, <1>3, <1>4, <1>5, <1>6, <1>7, <1>8, <1>9 DEF CheckoutNext, CheckoutWork, PayStep
<1>10. CASE DisputesNext
  <2>1. UNCHANGED <<processed, pay>>
    BY <1>10
    DEF DisputesNext, DisputesWork, DeskStep, BeginInvestigate, BeginResolve, BeginRefund, Investigate,
        Resolve, ReadDisputed, NotifyResolved, CloseDispute, FindPayment, ReturnMoney,
        MarkRefunded, ReadRefunded, RefundOrder, AuditDesk, AbortDesk, checkoutVars
  <2> QED
    BY <1>2, <2>1
<1> QED
  BY <1>2, <1>9, <1>10
  DEF Next, OrdersFrame, SlaFrame, ClockFrame, vars, checkoutVars

(* An event that is marked processed, and so is answered as a duplicate    *)
(* from then on, was paid, and its confirmation is in the audit log and    *)
(* announced: whichever step a crash or a second delivery interrupts,      *)
(* marking comes last (payments.service.ts:281-306).  The instance must    *)
(* keep the two records.                                                   *)
THEOREM ProcessedFinal == KeepsConfirmations => (Spec => []ProcessedIsFinal)
<1> SUFFICES ASSUME KeepsConfirmations PROVE Spec => []ProcessedIsFinal
  OBVIOUS
<1>1. Init => MarkInv
  BY DEF Init, CheckoutInit, MarkInv, MarkClaim, PayIdle
<1>2. Invariant /\ MarkInv /\ [Next]_vars => MarkInv'
  BY MarkInvStep
<1>3. Invariant /\ MarkInv => ProcessedIsFinal
  BY DEF Invariant, MoneyInv, FormsTell, MarkInv, Recorded, Announced, ProcessedIsFinal
<1> QED
  BY <1>1, <1>2, <1>3, Inductive, PTL DEF Spec

(* No step, of whichever service, takes back that an order was charged,    *)
(* evidenced, complained about or refunded, that a complaint was taken up  *)
(* or that a payment was made: what a handler read before it awaited may   *)
(* be stale, but not wrong about these.                                    *)
THEOREM FactsKept == Spec => [][NothingTakenBack]_vars
<1>1. Invariant /\ [Next]_vars => [NothingTakenBack]_vars
  BY Monotone DEF Invariant
<1> QED
  BY <1>1, Inductive, PTL DEF Spec

-----------------------------------------------------------------------------
(* The status machine, when nothing overlaps that handles the same order   *)

StatusKept(o) == order'[o].status = order[o].status

(* Of two that handle an order, one is the other.                          *)
LEMMA Alone ==
  ASSUME OneAtATime, NEW o \in Orders, NEW h \in Handling(o), NEW i \in Handling(o)
  PROVE  h = i
BY DEF OneAtATime

(* Who is begun on an order handles it.                                    *)
LEMMA Handles ==
  /\ \A r \in PayRequests :
       /\ pay[r].at \in {"initialize", "record"} =>
            <<"payment", r>> \in Handling(pay[r].order)
       /\ pay[r].at \notin {"idle", "initialize", "record"} =>
            <<"payment", r>> \in Handling(payment[pay[r].token].order)
  /\ \A j \in OrderRequests :
       job[j].at # "idle" => <<"order", j>> \in Handling(job[j].order)
  /\ \A d \in DeskRequests :
       desk[d].at # "idle" => <<"complaint", d>> \in Handling(OrderOf(d))
  /\ \A o \in sla.todo : <<"sweep", sla.job>> \in Handling(o)
BY DEF Handling, PayOrder

(* A step in which one of those that handle an order writes its status, or *)
(* no one writes any, leaves the others as they were read.                 *)
LEMMA FreshKept ==
  ASSUME TypeInv, NothingTakenBack, OneAtATime, FreshInv,
         NEW h, \A o \in Orders : StatusKept(o) \/ h \in Handling(o)
  PROVE  /\ \A r \in PayRequests :
              pay'[r] = pay[r] /\ h # <<"payment", r>> => PayFresh(r)'
         /\ \A j \in OrderRequests :
              job'[j] = job[j] /\ h # <<"order", j>> => JobFresh(j)'
         /\ \A d \in DeskRequests :
              desk'[d] = desk[d] /\ h # <<"complaint", d>> => DeskFresh(d)'
         /\ sla' = sla /\ h # <<"sweep", sla.job>> => SlaFresh'
<1> USE DEF TypeInv
<1>1. ASSUME NEW r \in PayRequests, pay'[r] = pay[r], h # <<"payment", r>>
      PROVE  PayFresh(r)'
  <2>1. CASE pay[r].at \in {"initialize", "record"}
    <3>1. pay[r].order \in Orders /\ <<"payment", r>> \in Handling(pay[r].order)
      BY <2>1, Handles DEF PayTyped, PayFits
    <3>2. StatusKept(pay[r].order)
      BY <1>1, <3>1, Alone
    <3> QED
      BY <1>1, <3>2 DEF FreshInv, PayFresh, StatusKept
  <2> QED
    BY <1>1, <2>1 DEF PayFresh
<1>2. ASSUME NEW j \in OrderRequests, job'[j] = job[j], h # <<"order", j>>
      PROVE  JobFresh(j)'
  <2>1. CASE job[j].at \in {"check", "write"} /\ job[j].op \notin {"active", "rejected"}
    <3>1. job[j].order \in Orders /\ <<"order", j>> \in Handling(job[j].order)
      BY <2>1, Handles, JobRow
    <3>2. StatusKept(job[j].order)
      BY <1>2, <3>1, Alone
    <3> QED
      BY <1>2, <3>2 DEF FreshInv, JobFresh, StatusKept, AsRead
  <2> QED
    BY <1>2, <2>1 DEF JobFresh, AsRead
<1>3. ASSUME NEW d \in DeskRequests, desk'[d] = desk[d], h # <<"complaint", d>>
      PROVE  DeskFresh(d)'
  <2>1. CASE desk[d].at \in {"notify", "close"}
    <3>1. OrderOf(d) \in Orders /\ <<"complaint", d>> \in Handling(OrderOf(d))
      BY <2>1, Handles, DeskRow
    <3>2. StatusKept(OrderOf(d))
      BY <1>3, <3>1, Alone
    <3>3. OrderOf(d)' = OrderOf(d)
      BY <1>3, <2>1, DeskRow DEF OrderOf, NothingTakenBack
    <3> QED
      BY <1>3, <3>2, <3>3 DEF FreshInv, DeskFresh, StatusKept
  <2> QED
    BY <1>3, <2>1 DEF DeskFresh
<1>4. ASSUME sla' = sla, h # <<"sweep", sla.job>> PROVE SlaFresh'
  <2>1. ASSUME NEW o \in sla.todo PROVE StatusKept(o)
    BY <1>4, <2>1, Handles, Alone DEF SweepsTypeOK, Sweep
  <2> QED
    BY <1>4, <2>1 DEF FreshInv, SlaFresh, StatusKept
<1> QED
  BY <1>1, <1>2, <1>3, <1>4

(* No order goes back to its draft, and a payment belongs to one that has  *)
(* left it.                                                                *)
LEMMA PlacedKept ==
  ASSUME TypeInv, NothingTakenBack, Placed,
         \A o \in Orders : StatusKept(o) \/ order[o].status = "absent"
                             \/ order'[o].status \notin {"absent", "draft"},
         \A t \in Tokens : ~Exists(t) /\ Exists(t)' =>
           order'[payment'[t].order].status \notin {"absent", "draft"}
  PROVE  Placed'
BY DEF Placed, StatusKept, NothingTakenBack, TypeInv, PayTyped

(* The steps of PaymentsService.                                           *)
LEMMA CheckoutFresh ==
  ASSUME TypeInv, NothingTakenBack, OneAtATime, FreshInv, CheckoutNext, PaymentsFrame
  PROVE  FreshInv'
<1> USE DEF TypeInv
<1>1. ASSUME NEW h, \A o \in Orders : StatusKept(o) \/ h \in Handling(o),
             h[1] = "payment",
             \A r \in PayRequests :
               \/ pay'[r] = pay[r] /\ h # <<"payment", r>>
               \/ PayFresh(r)',
             Placed'
      PROVE  FreshInv'
  <2>1. /\ \A r \in PayRequests : PayFresh(r)'
        /\ \A j \in OrderRequests : JobFresh(j)'
        /\ \A d \in DeskRequests : DeskFresh(d)'
        /\ SlaFresh'
    <3>1. /\ \A j \in OrderRequests : h # <<"order", j>>
          /\ \A d \in DeskRequests : h # <<"complaint", d>>
          /\ h # <<"sweep", sla.job>>
      BY <1>1
    <3> QED
      BY <1>1, <3>1, FreshKept DEF PaymentsFrame, fulfilmentVars
  <2> QED
    BY <1>1, <2>1 DEF FreshInv
<1>2. ASSUME NEW r \in PayRequests, RecordIntent(r) PROVE FreshInv'
  <2> DEFINE w == pay[r].order
  <2>1. w \in Orders /\ pay[r].token \in Tokens
    BY <1>2 DEF RecordIntent, PayTyped, PayFits
  <2>2. \A o \in Orders : order'[o].status = IF o = w THEN "pending_payment"
                                                      ELSE order[o].status
    BY <1>2, <2>1, StatusWritten DEF RecordIntent
  <2>3. \A s \in PayRequests : IF s = r THEN pay'[s].at = "idle" ELSE pay'[s] = pay[s]
    BY <1>2 DEF RecordIntent, PayEnd, PayIdle, PayTyped, CheckoutTypeOK
  <2>4. <<"payment", r>> \in Handling(w)
    BY <1>2, Handles DEF RecordIntent
  <2>5. \A t \in Tokens : payment'[t] = IF t = pay[r].token
            THEN [order |-> w, status |-> "requires_action", nth |-> inserted + 1]
            ELSE payment[t]
    BY <1>2 DEF RecordIntent, PayTyped, CheckoutTypeOK
  <2>6. Placed'
    <3>1. \A t \in Tokens : ~Exists(t) /\ Exists(t)' =>
            order'[payment'[t].order].status \notin {"absent", "draft"}
      BY <2>1, <2>2, <2>5 DEF Exists
    <3>2. \A o \in Orders : StatusKept(o) \/ order[o].status = "absent"
                             \/ order'[o].status \notin {"absent", "draft"}
      BY <2>2 DEF StatusKept
    <3> QED
      BY <3>1, <3>2, PlacedKept DEF FreshInv
  <2>7. \A s \in PayRequests : (pay'[s] = pay[s] /\ <<"payment", r>> # <<"payment", s>>)
                                 \/ PayFresh(s)'
    BY <2>3 DEF PayFresh
  <2>8. \A o \in Orders : StatusKept(o) \/ <<"payment", r>> \in Handling(o)
    BY <2>2, <2>4 DEF StatusKept
  <2> QED
    BY <2>6, <2>7, <2>8, <1>1
<1>3. ASSUME NEW r \in PayRequests, ConfirmOrder(r) PROVE FreshInv'
  <2> DEFINE w == payment[pay[r].token].order
  <2>1. w \in Orders
    BY <1>3, PayRow DEF ConfirmOrder
  <2>2. \A o \in Orders : order'[o].status = IF o = w THEN "confirmed" ELSE order[o].status
    BY <1>3, <2>1, StatusWritten DEF ConfirmOrder
  <2>3. \A s \in PayRequests : IF s = r THEN pay'[s].at = "audit" ELSE pay'[s] = pay[s]
    BY <1>3 DEF ConfirmOrder, PayGoto, PayTyped, CheckoutTypeOK, PayTask
  <2>4. <<"payment", r>> \in Handling(w)
    BY <1>3, Handles DEF ConfirmOrder
  <2>5. Placed'
    BY <1>3, <2>2, PlacedKept DEF ConfirmOrder, FreshInv, StatusKept, Exists
  <2>6. \A s \in PayRequests : (pay'[s] = pay[s] /\ <<"payment", r>> # <<"payment", s>>)
                                 \/ PayFresh(s)'
    BY <2>3 DEF PayFresh
  <2>7. \A o \in Orders : StatusKept(o) \/ <<"payment", r>> \in Handling(o)
    BY <2>2, <2>4 DEF StatusKept
  <2> QED
    BY <2>5, <2>6, <2>7, <1>1
<1>4. ASSUME UNCHANGED order, \A t \in Tokens : Exists(t)' => Exists(t),
             \A s \in PayRequests :
               \/ pay'[s] = pay[s]
               \/ pay'[s].at \in {"initialize", "record"} =>
                    order[pay'[s].order].status \in {"draft", "pending_payment"}
      PROVE  FreshInv'
  <2> DEFINE h == <<"payment", "none">>
  <2>1. Placed'
    BY <1>4, PlacedKept DEF FreshInv, StatusKept
  <2>2. ASSUME NEW s \in PayRequests PROVE PayFresh(s)'
    BY <1>4 DEF FreshInv, PayFresh
  <2>3. \A o \in Orders : StatusKept(o) \/ h \in Handling(o)
    BY <1>4 DEF StatusKept
  <2>4. \A s \in PayRequests : (pay'[s] = pay[s] /\ h # <<"payment", s>>)
                                   \/ PayFresh(s)'
    BY <2>2
  <2>5. h[1] = "payment"
    OBVIOUS
  <2> HIDE DEF h
  <2> QED
    BY <2>1, <2>3, <2>4, <2>5, <1>1
<1>5. ASSUME NEW r \in PayRequests, NEW o \in Orders, BeginIntent(r, o) PROVE FreshInv'
  BY <1>4, <1>5 DEF BeginIntent, tables, Exists, PayTyped, CheckoutTypeOK, PayIdle
<1>6. ASSUME NEW r \in PayRequests, NEW t \in Tokens, InitializeForm(r, t) PROVE FreshInv'
  <2>1. pay'[r].order = pay[r].order
    BY <1>6 DEF InitializeForm, PayTyped, CheckoutTypeOK, PayTask
  <2>2. order[pay[r].order].status \in {"draft", "pending_payment"}
    BY <1>6 DEF InitializeForm, FreshInv, PayFresh
  <2>3. \A s \in PayRequests : s # r => pay'[s] = pay[s]
    BY <1>6 DEF InitializeForm, PayTyped, CheckoutTypeOK
  <2> QED
    BY <1>4, <1>6, <2>1, <2>2, <2>3 DEF InitializeForm, tables, Exists
<1>7. ASSUME NEW r \in PayRequests,
             \/ \E t \in Tokens : Callback(r, t)
             \/ \E t \in Tokens, outcome \in Outcomes : Webhook(r, t, outcome)
             \/ RefuseForm(r) \/ FinalizeRow(r) \/ AuditConfirm(r) \/ NotifyConfirm(r)
             \/ MarkEvent(r) \/ AbortPay(r)
      PROVE  FreshInv'
  <2>1. UNCHANGED order
    BY <1>7 DEF Callback, Webhook, RefuseForm, FinalizeRow, AuditConfirm, NotifyConfirm,
                MarkEvent, AbortPay, tables
  <2>2. \A t \in Tokens : Exists(t)' => Exists(t)
    <3>1. CASE FinalizeRow(r)
      BY <3>1, PayRow DEF FinalizeRow, Exists, PayTyped, CheckoutTypeOK, PaymentRow
    <3> QED
      BY <1>7, <3>1 DEF Callback, Webhook, RefuseForm, AuditConfirm, NotifyConfirm,
                        MarkEvent, AbortPay, Exists
  <2>3. \A s \in PayRequests : s # r => pay'[s] = pay[s]
    BY <1>7 DEF Callback, Webhook, RefuseForm, FinalizeRow, AuditConfirm, NotifyConfirm,
                MarkEvent, AbortPay, PayGoto, PayEnd, PayTyped, CheckoutTypeOK
  <2>4. pay'[r].at \notin {"initialize", "record"}
    <3>1. CASE (\E t \in Tokens : Callback(r, t))
                 \/ \E t \in Tokens, outcome \in Outcomes : Webhook(r, t, outcome)
      BY ZenonT(60), <3>1 DEF Callback, Webhook, PayIdle, PayTyped, CheckoutTypeOK
    <3>2. CASE FinalizeRow(r) \/ AuditConfirm(r) \/ NotifyConfirm(r)
      BY <3>2 DEF FinalizeRow, AuditConfirm, NotifyConfirm, PayGoto, PayEnd, PayIdle,
                  PayTyped, CheckoutTypeOK, PayTask
    <3>3. CASE RefuseForm(r) \/ MarkEvent(r) \/ AbortPay(r)
      BY <3>3 DEF RefuseForm, MarkEvent, AbortPay, PayEnd, PayIdle, PayTyped, CheckoutTypeOK
    <3> QED
      BY <1>7, <3>1, <3>2, <3>3
  <2> QED
    BY <1>4, <2>1, <2>2, <2>3, <2>4
<1>8. ASSUME NEW t \in Tokens, PayForm(t) \/ DeclineForm(t) PROVE FreshInv'
  BY <1>4, <1>8 DEF PayForm, DeclineForm, tables, Exists
<1> QED
  BY <1>2, <1>3, <1>5, <1>6, <1>7, <1>8 DEF CheckoutNext, CheckoutWork, PayStep

(* The steps of OrdersService: the next status is what the next step of    *)
(* the request finds, and nothing else is written.                         *)
LEMMA FulfilmentFresh ==
  ASSUME TypeInv, NothingTakenBack, OneAtATime, FreshInv, FulfilmentNext, OrdersFrame
  PROVE  FreshInv'
<1> USE DEF TypeInv
<1>1. ASSUME NEW h, \A o \in Orders : StatusKept(o) \/ h \in Handling(o),
             h[1] = "order",
             \A o \in Orders : StatusKept(o) \/ order[o].status = "absent"
                                 \/ order'[o].status \notin {"absent", "draft"},
             \A j \in OrderRequests : (job'[j] = job[j] /\ h # <<"order", j>>) \/ JobFresh(j)'
      PROVE  FreshInv'
  <2>1. /\ \A r \in PayRequests : h # <<"payment", r>>
        /\ \A d \in DeskRequests : h # <<"complaint", d>>
        /\ h # <<"sweep", sla.job>>
    BY <1>1
  <2>2. Placed'
    BY <1>1, PlacedKept DEF FreshInv, OrdersFrame, checkoutVars, Exists
  <2> QED
    BY <1>1, <2>1, <2>2, FreshKept DEF FreshInv, OrdersFrame, checkoutVars
<1>2. ASSUME UNCHANGED order,
             \A j \in OrderRequests : job'[j] = job[j] \/ JobFresh(j)'
      PROVE  FreshInv'
  <2> DEFINE h == <<"order", "none">>
  <2>1. \A o \in Orders : StatusKept(o)
    BY <1>2 DEF StatusKept
  <2>2. \A j \in OrderRequests : JobFresh(j)'
    BY <1>2 DEF FreshInv, JobFresh
  <2>3. h[1] = "order"
    OBVIOUS
  <2> HIDE DEF h
  <2> QED
    BY <2>1, <2>2, <2>3, <1>1
<1>3. ASSUME NEW j \in OrderRequests, NEW s, s \notin {"absent", "draft"},
             job[j].at # "idle", job[j].op \notin {"active", "rejected"},
             \A o \in Orders : o # job[j].order => StatusKept(o),
             order'[job[j].order].status = s,
             \A i \in OrderRequests : i # j => job'[i] = job[i],
             job'[j].at \notin {"check", "write"}
      PROVE  FreshInv'
  <2> DEFINE h == <<"order", j>>
  <2>1. h \in Handling(job[j].order)
    BY <1>3, Handles
  <2>2. \A o \in Orders : StatusKept(o) \/ h \in Handling(o)
    BY <1>3, <2>1
  <2>3. \A o \in Orders : StatusKept(o) \/ order[o].status = "absent"
                            \/ order'[o].status \notin {"absent", "draft"}
    BY <1>3
  <2>4. \A i \in OrderRequests : (job'[i] = job[i] /\ h # <<"order", i>>) \/ JobFresh(i)'
    BY <1>3 DEF JobFresh
  <2>5. h[1] = "order"
    OBVIOUS
  <2> HIDE DEF h
  <2> QED
    BY <2>2, <2>3, <2>4, <2>5, <1>1
<1>4. ASSUME NEW o \in Orders, CreateOrder(o) PROVE FreshInv'
  <2> DEFINE h == <<"order", "none">>
  <2>1. \A i \in Orders : order'[i].status = IF i = o THEN "draft" ELSE order[i].status
    BY <1>4, StatusWritten DEF CreateOrder
  <2>2. order[o].status = "absent"
    BY <1>4 DEF CreateOrder
  <2>3. UNCHANGED job
    BY <1>4 DEF CreateOrder, fulfilmentVars
  <2>4. Placed'
    BY <2>1, <2>2, PlacedKept DEF FreshInv, StatusKept, OrdersFrame, checkoutVars, Exists
  <2>5. \A r \in PayRequests : PayFresh(r)'
    BY <2>1, <2>2 DEF FreshInv, PayFresh, OrdersFrame, checkoutVars, PayTyped, PayFits
  <2>6. \A j \in OrderRequests : JobFresh(j)'
    <3>1. ASSUME NEW j \in OrderRequests PROVE JobFresh(j)'
      <4>1. CASE job[j].at \in {"check", "write"} /\ job[j].op \notin {"active", "rejected"}
        <5>1. job[j].order \in Orders
          BY <4>1, JobRow
        <5> QED
          BY <2>1, <2>2, <2>3, <5>1 DEF FreshInv, JobFresh, AsRead
      <4> QED
        BY <2>3, <4>1 DEF JobFresh, AsRead
    <3> QED
      BY <3>1
  <2>7. \A d \in DeskRequests : DeskFresh(d)'
    <3>1. UNCHANGED <<desk, complaint>>
      BY <1>4 DEF CreateOrder, OrdersFrame
    <3> QED
      BY <2>1, <2>2, <3>1, DeskRow DEF FreshInv, DeskFresh, OrderOf
  <2>8. SlaFresh'
    BY <2>1, <2>2 DEF FreshInv, SlaFresh, OrdersFrame, SweepsTypeOK, Sweep
  <2> QED
    BY <2>4, <2>5, <2>6, <2>7, <2>8 DEF FreshInv
<1>5. ASSUME NEW j \in OrderRequests, Assign(j) \/ Start(j) \/ Complete(j) PROVE FreshInv'
  <2> DEFINE s == order'[job[j].order].status
  <2>1. job[j].order \in Orders /\ job[j].at # "idle" /\ job[j].op \notin {"active", "rejected"}
    BY <1>5, JobRow DEF Assign, Start, Complete, At
  <2>2. \A o \in Orders : o # job[j].order => StatusKept(o)
    BY <1>5, <2>1, StatusWritten DEF Assign, Start, Complete, StatusKept, TablesTyped, TablesTypeOK
  <2>3. s \notin {"absent", "draft"}
    <3>1. CASE Assign(j) \/ Complete(j)
      BY <2>1, <3>1, AssignWritten, CompleteWritten
    <3>2. CASE Start(j)
      BY <2>1, <3>2, StatusWritten DEF Start
    <3> QED
      BY <1>5, <3>1, <3>2
  <2>4. /\ \A i \in OrderRequests : i # j => job'[i] = job[i]
        /\ job'[j].at = "audit"
    BY <1>5 DEF Assign, Start, Complete, JobGoto, JobTyped, FulfilmentTypeOK, Job
  <2> QED
    BY <2>1, <2>2, <2>3, <2>4, <1>3
<1>6. ASSUME NEW j \in OrderRequests, Approve(j) PROVE FreshInv'
  <2>1. job[j].order \in Orders /\ job[j].at # "idle" /\ job[j].op \notin {"active", "rejected"}
    BY <1>6, JobRow DEF Approve, At
  <2>2. \A o \in Orders : order'[o].status = IF o = job[j].order THEN "closed" ELSE order[o].status
    BY <1>6, <2>1, StatusWritten DEF Approve
  <2>3. /\ \A i \in OrderRequests : i # j => job'[i] = job[i]
        /\ job'[j].at = "audit"
    BY <1>6 DEF Approve, JobGoto, JobTyped, FulfilmentTypeOK, Job
  <2> QED
    BY <2>1, <2>2, <2>3, <1>3 DEF StatusKept
<1>7. ASSUME NEW j \in OrderRequests, NEW k \in Complaints, Complain(j, k) PROVE FreshInv'
  <2>1. job[j].order \in Orders /\ job[j].at # "idle" /\ job[j].op \notin {"active", "rejected"}
    BY <1>7, JobRow DEF Complain, At
  <2>2. /\ \A i \in OrderRequests : i # j => job'[i] = job[i]
        /\ job'[j].at \in {"audit", "notify"}
    BY <1>7 DEF Complain, JobGoto, JobTyped, FulfilmentTypeOK, Job
  <2>3. CASE job[j].dispute
    <3>1. \A o \in Orders : order'[o].status = IF o = job[j].order THEN "disputed"
                                                                  ELSE order[o].status
      BY <1>7, <2>1, <2>3, StatusWritten DEF Complain
    <3> QED
      BY <2>1, <2>2, <3>1, <1>3 DEF StatusKept
  <2>4. CASE ~job[j].dispute
    BY <1>2, <1>7, <2>2, <2>4 DEF Complain, JobFresh
  <2> QED
    BY <2>3, <2>4
<1>8. ASSUME UNCHANGED order, NEW j \in OrderRequests,
             \A i \in OrderRequests : i # j => job'[i] = job[i],
             JobFresh(j)'
      PROVE  FreshInv'
  BY <1>2, <1>8
<1>9. ASSUME NEW j \in OrderRequests,
             \/ \E p \in Partners, d \in {"active", "rejected"} : BeginVet(j, p, d)
             \/ \E o \in Orders, p \in Partners :
                  \/ BeginAssign(j, o, p)
                  \/ BeginStart(j, o, p)
                  \/ \E kind \in PhotoKinds : BeginEvidence(j, o, p, kind)
                  \/ BeginComplete(j, o, p)
             \/ \E o \in Orders : BeginApprove(j, o) \/ BeginComplaint(j, o)
      PROVE  FreshInv'
  <2>1. /\ UNCHANGED order
        /\ \A i \in OrderRequests : i # j => job'[i] = job[i]
    BY <1>9 DEF BeginVet, BeginAssign, BeginStart, BeginEvidence, BeginComplete, BeginApprove,
                BeginComplaint, JobBegin, tables, JobTyped, FulfilmentTypeOK
  <2>2. job \in [OrderRequests -> Job]
    BY DEF JobTyped, FulfilmentTypeOK
  <2>3. JobFresh(j)'
    <3>1. CASE \E p \in Partners, d \in {"active", "rejected"} : BeginVet(j, p, d)
      BY <2>2, <3>1 DEF BeginVet, JobBegin, JobIdle, JobFresh, AsRead
    <3>2. ASSUME NEW o \in Orders, NEW p \in Partners,
                 BeginAssign(j, o, p) \/ BeginStart(j, o, p) \/ BeginComplete(j, o, p)
          PROVE  JobFresh(j)'
      <4>1. /\ job'[j].order = o /\ ~job'[j].dispute
            /\ \/ job'[j].op = "assign" /\ order[o].status = "confirmed"
               \/ job'[j].op = "start" /\ order[o].status = "assigned"
               \/ job'[j].op = "complete" /\ order[o].status = "in_progress"
        BY <2>2, <3>2 DEF BeginAssign, BeginStart, BeginComplete, JobBegin, JobIdle
      <4> QED
        BY <2>1, <4>1 DEF JobFresh, AsRead
    <3>3. CASE \E o \in Orders, p \in Partners, kind \in PhotoKinds :
                 BeginEvidence(j, o, p, kind)
      BY <2>2, <3>3 DEF BeginEvidence, JobBegin, JobIdle, JobFresh, AsRead
    <3>4. ASSUME NEW o \in Orders, BeginApprove(j, o) \/ BeginComplaint(j, o)
          PROVE  JobFresh(j)'
      <4>1. /\ job'[j].order = o
            /\ \/ /\ job'[j].op = "approve" /\ ~job'[j].dispute
                  /\ order[o].status = "completed_pending_approval"
               \/ /\ job'[j].op = "complain"
                  /\ job'[j].dispute => order[o].status = "completed_pending_approval"
        BY <2>2, <3>4 DEF BeginApprove, BeginComplaint, JobBegin, JobIdle
      <4> QED
        BY <2>1, <4>1 DEF JobFresh, AsRead
    <3> QED
      BY <1>9, <3>1, <3>2, <3>3, <3>4
  <2> QED
    BY <2>1, <2>3, <1>8
<1>10. ASSUME NEW j \in OrderRequests,
              \/ Vet(j) \/ CheckPartner(j) \/ StoreEvidence(j) \/ ReportForReview(j)
              \/ CheckPhotos(j) \/ AuditJob(j) \/ NotifyJob(j) \/ AbortJob(j)
       PROVE  FreshInv'
  <2>1. /\ UNCHANGED order
        /\ \A i \in OrderRequests : i # j => job'[i] = job[i]
    BY <1>10 DEF Vet, CheckPartner, StoreEvidence, ReportForReview, CheckPhotos, AuditJob,
                 NotifyJob, AbortJob, JobGoto, JobEnd, tables, JobTyped, FulfilmentTypeOK
  <2>2. job[j] \in Job
    BY DEF JobTyped, FulfilmentTypeOK
  <2>3. \/ \E stage \in {"review", "audit", "notify"} : job'[j] = [job[j] EXCEPT !.at = stage]
        \/ job'[j] = JobIdle
        \/ job'[j] = [job[j] EXCEPT !.at = "write"] /\ job[j].at = "check"
    <3>1. CASE CheckPartner(j) \/ CheckPhotos(j)
      BY <3>1 DEF CheckPartner, CheckPhotos, At, JobGoto, JobEnd, JobTyped, FulfilmentTypeOK
    <3>2. CASE Vet(j) \/ StoreEvidence(j) \/ ReportForReview(j)
      BY <3>2 DEF Vet, StoreEvidence, ReportForReview, JobGoto, JobEnd, JobTyped, FulfilmentTypeOK
    <3>3. CASE AuditJob(j) \/ NotifyJob(j) \/ AbortJob(j)
      BY <3>3 DEF AuditJob, NotifyJob, AbortJob, JobGoto, JobEnd, JobTyped, FulfilmentTypeOK
    <3> QED
      BY <1>10, <3>1, <3>2, <3>3
  <2>4. \/ job'[j].at \notin {"check", "write"}
        \/ /\ job[j].at = "check"
           /\ job'[j].op = job[j].op /\ job'[j].order = job[j].order
           /\ job'[j].dispute = job[j].dispute
    BY <2>2, <2>3 DEF JobIdle, Job
  <2>5. JobFresh(j)'
    BY <2>1, <2>4 DEF FreshInv, JobFresh
  <2> QED
    BY <2>1, <2>5, <1>8
<1>11. ASSUME NEW p \in Partners, Onboard(p) PROVE FreshInv'
  BY <1>2, <1>11 DEF Onboard, tables
<1> QED
  BY <1>4, <1>5, <1>6, <1>7, <1>9, <1>10, <1>11 DEF FulfilmentNext, FulfilmentWork, JobStep

(* The steps of ComplaintsService.                                         *)
LEMMA DisputesFresh ==
  ASSUME TypeInv, NothingTakenBack, OneAtATime, FreshInv, DisputesNext, DeskFrame
  PROVE  FreshInv'
<1> USE DEF TypeInv
<1>1. ASSUME NEW h, \A o \in Orders : StatusKept(o) \/ h \in Handling(o),
             h[1] = "complaint",
             \A o \in Orders : StatusKept(o) \/ order'[o].status \notin {"absent", "draft"},
             \A d \in DeskRequests : (desk'[d] = desk[d] /\ h # <<"complaint", d>>)
                                       \/ DeskFresh(d)'
      PROVE  FreshInv'
  <2>1. /\ \A r \in PayRequests : h # <<"payment", r>>
        /\ \A j \in OrderRequests : h # <<"order", j>>
        /\ h # <<"sweep", sla.job>>
    BY <1>1
  <2>2. \A t \in Tokens : Exists(t)' => Exists(t)
    <3>1. ASSUME NEW d \in DeskRequests, MarkRefunded(d) PROVE \A t \in Tokens : Exists(t)' => Exists(t)
      BY <3>1 DEF MarkRefunded, DeskTyped, DeskFits, PayTyped, CheckoutTypeOK, Exists
    <3>2. ASSUME ~ \E d \in DeskRequests : MarkRefunded(d) PROVE UNCHANGED payment
      BY <3>2
      DEF DisputesNext, DisputesWork, DeskStep, BeginInvestigate, BeginResolve, BeginRefund,
          Investigate, Resolve, ReadDisputed, NotifyResolved, CloseDispute, FindPayment,
          ReturnMoney, ReadRefunded, RefundOrder, AuditDesk, AbortDesk, checkoutVars
    <3> QED
      BY <3>1, <3>2 DEF Exists
  <2>3. Placed'
    BY <1>1, <2>2, PlacedKept DEF FreshInv
  <2>4. UNCHANGED pay
    BY DEF DisputesNext, DisputesWork, DeskStep, BeginInvestigate, BeginResolve, BeginRefund,
           Investigate, Resolve, ReadDisputed, NotifyResolved, CloseDispute, FindPayment,
           ReturnMoney, MarkRefunded, ReadRefunded, RefundOrder, AuditDesk, AbortDesk, checkoutVars
  <2> QED
    BY <1>1, <2>1, <2>3, <2>4, FreshKept DEF FreshInv, DeskFrame, fulfilmentVars
<1>2. ASSUME UNCHANGED order, NEW d \in DeskRequests,
             \A e \in DeskRequests : e # d => desk'[e] = desk[e],
             DeskFresh(d)'
      PROVE  FreshInv'
  <2> DEFINE h == <<"complaint", "none">>
  <2>1. \A o \in Orders : StatusKept(o)
    BY <1>2 DEF StatusKept
  <2>2. \A e \in DeskRequests : DeskFresh(e)'
    <3>1. ASSUME NEW e \in DeskRequests, e # d PROVE DeskFresh(e)'
      <4>1. CASE desk[e].at \in {"notify", "close"}
        <5>1. OrderOf(e)' = OrderOf(e)
          BY <1>2, <3>1, <4>1, DeskRow DEF OrderOf, NothingTakenBack
        <5> QED
          BY <1>2, <3>1, <5>1 DEF FreshInv, DeskFresh
      <4> QED
        BY <1>2, <3>1, <4>1 DEF DeskFresh
    <3> QED
      BY <1>2, <3>1
  <2>3. h[1] = "complaint"
    OBVIOUS
  <2> HIDE DEF h
  <2> QED
    BY <2>1, <2>2, <2>3, <1>1
<1>3. ASSUME NEW d \in DeskRequests, CloseDispute(d) \/ RefundOrder(d) PROVE FreshInv'
  <2> DEFINE h == <<"complaint", d>>
  <2>1. OrderOf(d) \in Orders /\ desk[d].at # "idle"
    BY <1>3, DeskRow DEF CloseDispute, RefundOrder
  <2>2. PICK s \in {"closed", "refunded"} :
          \A o \in Orders : order'[o].status = IF o = OrderOf(d) THEN s ELSE order[o].status
    BY <1>3, <2>1, StatusWritten DEF CloseDispute, RefundOrder
  <2>3. \A e \in DeskRequests : IF e = d THEN desk'[e].at \in {"auditReject", "auditRefund"}
                                         ELSE desk'[e] = desk[e]
    BY <1>3 DEF CloseDispute, RefundOrder, DeskGoto, DeskTyped, DisputesTypeOK, Desk
  <2>4. \A o \in Orders : StatusKept(o) \/ h \in Handling(o)
    BY <2>1, <2>2, Handles DEF StatusKept
  <2>5. \A o \in Orders : StatusKept(o) \/ order'[o].status \notin {"absent", "draft"}
    BY <2>2 DEF StatusKept
  <2>6. \A e \in DeskRequests : (desk'[e] = desk[e] /\ h # <<"complaint", e>>) \/ DeskFresh(e)'
    BY <2>3 DEF DeskFresh
  <2>7. h[1] = "complaint"
    OBVIOUS
  <2> HIDE DEF h
  <2> QED
    BY <2>4, <2>5, <2>6, <2>7, <1>1
<1>4. ASSUME NEW d \in DeskRequests, ReadDisputed(d) PROVE FreshInv'
  <2>1. /\ UNCHANGED <<order, complaint>>
        /\ \A e \in DeskRequests : e # d => desk'[e] = desk[e]
        /\ desk'[d].complaint = desk[d].complaint
        /\ desk'[d].disputed = (order[OrderOf(d)].status = "disputed")
    BY <1>4 DEF ReadDisputed, tables, DeskTyped, DisputesTypeOK, Desk
  <2>2. DeskFresh(d)'
    BY <2>1 DEF DeskFresh, OrderOf
  <2> QED
    BY <2>1, <2>2, <1>2
<1>5. ASSUME NEW d \in DeskRequests, NotifyResolved(d) PROVE FreshInv'
  <2>1. /\ UNCHANGED <<order, complaint>>
        /\ \A e \in DeskRequests : e # d => desk'[e] = desk[e]
    BY <1>5 DEF NotifyResolved, DeskGoto, DeskEnd, DeskTyped, DisputesTypeOK
  <2>2. \/ /\ desk'[d].at = "close" /\ desk'[d].complaint = desk[d].complaint
           /\ desk'[d].disputed = desk[d].disputed
        \/ desk'[d].at = "idle"
    BY <1>5 DEF NotifyResolved, DeskGoto, DeskEnd, DeskIdle, DeskTyped, DisputesTypeOK, Desk
  <2>3. DeskFresh(d)'
    BY <1>5, <2>1, <2>2 DEF FreshInv, DeskFresh, OrderOf, NotifyResolved
  <2> QED
    BY <2>1, <2>3, <1>2
<1>6. ASSUME NEW d \in DeskRequests,
             \/ \E k \in Complaints :
                  \/ BeginInvestigate(d, k)
                  \/ \E outcome \in Resolutions : BeginResolve(d, k, outcome)
                  \/ BeginRefund(d, k)
             \/ Investigate(d) \/ Resolve(d) \/ FindPayment(d) \/ ReturnMoney(d)
             \/ MarkRefunded(d) \/ ReadRefunded(d) \/ AuditDesk(d) \/ AbortDesk(d)
      PROVE  FreshInv'
  <2>1. UNCHANGED order /\ \A e \in DeskRequests : e # d => desk'[e] = desk[e]
    BY <1>6 DEF BeginInvestigate, BeginResolve, BeginRefund, Investigate, Resolve, FindPayment,
                ReturnMoney, MarkRefunded, ReadRefunded, AuditDesk, AbortDesk, DeskGoto, DeskEnd,
                tables, DeskTyped, DisputesTypeOK
  <2>2. desk'[d].at \notin {"notify", "close"}
    <3>1. desk \in [DeskRequests -> Desk]
      BY DEF DeskTyped, DisputesTypeOK
    <3>2. CASE \E k \in Complaints :
                 \/ BeginInvestigate(d, k)
                 \/ \E outcome \in Resolutions : BeginResolve(d, k, outcome)
                 \/ BeginRefund(d, k)
      BY <3>1, <3>2 DEF BeginInvestigate, BeginResolve, BeginRefund, DeskIdle
    <3>3. CASE Investigate(d) \/ Resolve(d) \/ FindPayment(d) \/ AbortDesk(d)
      BY <3>1, <3>3 DEF Investigate, Resolve, FindPayment, AbortDesk, DeskGoto, DeskEnd,
                        DeskIdle, Desk
    <3>4. CASE ReturnMoney(d) \/ MarkRefunded(d) \/ ReadRefunded(d)
      BY <3>1, <3>4 DEF ReturnMoney, MarkRefunded, ReadRefunded, DeskGoto, DeskEnd, DeskIdle, Desk
    <3>5. CASE AuditDesk(d)
      BY <3>1, <3>5 DEF AuditDesk, DeskGoto, DeskEnd, DeskIdle, Desk
    <3> QED
      BY <1>6, <3>2, <3>3, <3>4, <3>5
  <2> QED
    BY <2>1, <2>2, <1>2 DEF DeskFresh
<1> QED
  BY <1>3, <1>4, <1>5, <1>6 DEF DisputesNext, DisputesWork, DeskStep

(* The steps of SlaService: a sweep finds the orders of its list as its    *)
(* query found them.                                                       *)
LEMMA SweepsFresh ==
  ASSUME TypeInv, NothingTakenBack, OneAtATime, FreshInv, SweepsNext, SlaFrame
  PROVE  FreshInv'
<1> USE DEF TypeInv
<1>1. ASSUME NEW h, \A o \in Orders : StatusKept(o) \/ h \in Handling(o),
             h[1] = "sweep",
             \A o \in Orders : StatusKept(o) \/ order'[o].status \notin {"absent", "draft"},
             SlaFresh'
      PROVE  FreshInv'
  <2>1. /\ \A r \in PayRequests : h # <<"payment", r>>
        /\ \A j \in OrderRequests : h # <<"order", j>>
        /\ \A d \in DeskRequests : h # <<"complaint", d>>
    BY <1>1
  <2>2. Placed'
    BY <1>1, PlacedKept DEF FreshInv, SlaFrame, checkoutVars, Exists
  <2>3. UNCHANGED job
    BY DEF SweepsNext, SweepsWork, SweepStep, BeginSweep, CancelUnpaid, AutoClose, AuditSweep,
           NotifySweep, AbortSweep, fulfilmentVars
  <2> QED
    BY <1>1, <2>1, <2>2, <2>3, FreshKept DEF FreshInv, SlaFrame, checkoutVars
<1>2. ASSUME UNCHANGED order, SlaFresh' PROVE FreshInv'
  <2> DEFINE h == <<"sweep", "none">>
  <2>1. \A o \in Orders : StatusKept(o)
    BY <1>2 DEF StatusKept
  <2>2. h[1] = "sweep"
    OBVIOUS
  <2> HIDE DEF h
  <2> QED
    BY <1>2, <2>1, <2>2, <1>1
<1>3. ASSUME NEW w \in Orders, CancelUnpaid(w) \/ AutoClose(w) PROVE FreshInv'
  <2> DEFINE h == <<"sweep", sla.job>>
  <2>1. PICK s \in {"cancelled", "closed"} :
          \A o \in Orders : order'[o].status = IF o = w THEN s ELSE order[o].status
    BY <1>3, StatusWritten DEF CancelUnpaid, AutoClose
  <2>2. h \in Handling(w)
    BY <1>3, Handles DEF CancelUnpaid, AutoClose, Take
  <2>3. \A o \in Orders : StatusKept(o) \/ h \in Handling(o)
    BY <2>1, <2>2 DEF StatusKept
  <2>4. SlaFresh'
    <3>1. sla'.todo = sla.todo /\ sla'.job = sla.job /\ sla'.auditing = w /\ sla.auditing = None
      BY <1>3 DEF CancelUnpaid, AutoClose, Take, SweepsTypeOK, Sweep
    <3>2. None \notin Orders /\ sla.todo \subseteq Orders
      BY NullAssumption DEF SweepsTypeOK, Sweep
    <3> QED
      BY <2>1, <3>1, <3>2 DEF FreshInv, SlaFresh
  <2>5. \A o \in Orders : StatusKept(o) \/ order'[o].status \notin {"absent", "draft"}
    BY <2>1 DEF StatusKept
  <2>6. h[1] = "sweep"
    OBVIOUS
  <2> HIDE DEF h
  <2> QED
    BY <2>3, <2>4, <2>5, <2>6, <1>1
<1>4. ASSUME NEW o \in Orders, AuditSweep(o) \/ NotifySweep(o) PROVE FreshInv'
  <2>1. /\ UNCHANGED order
        /\ \/ sla' = SweepIdle
           \/ /\ sla'.todo = sla.todo \ {o} /\ sla'.job = sla.job
              /\ sla'.auditing = None
              /\ sla.auditing \in {None, o}
    BY <1>4 DEF AuditSweep, NotifySweep, Take, SweepNext, SweepsTypeOK, Sweep
  <2>2. SlaFresh'
    BY <2>1, NullAssumption DEF FreshInv, SlaFresh, SweepIdle, SweepsTypeOK, Sweep
  <2> QED
    BY <2>1, <2>2, <1>2
<1>5. ASSUME AbortSweep \/ \E which \in Sweeps : BeginSweep(which) PROVE FreshInv'
  <2>1. UNCHANGED order
    BY <1>5 DEF AbortSweep, BeginSweep, tables
  <2>2. SlaFresh'
    BY <1>5, <2>1 DEF AbortSweep, BeginSweep, SweepIdle, SlaFresh, Selected, Sweeps
  <2> QED
    BY <2>1, <2>2, <1>2
<1> QED
  BY <1>3, <1>4, <1>5 DEF SweepsNext, SweepsWork, SweepStep

(* Every step keeps what was read about a status until it is written, if   *)
(* nothing overlaps that handles the same order.                           *)
LEMMA FreshStep ==
  ASSUME Invariant, OneAtATime, FreshInv, [Next]_vars
  PROVE  FreshInv'
<1> USE DEF Invariant
<1>1. NothingTakenBack
  BY Monotone
<1>2. ASSUME \A o \in Orders : StatusKept(o),
             UNCHANGED <<payment, pay, job, desk, complaint, sla>>
      PROVE  FreshInv'
  <2> DEFINE h == <<"nobody", "none">>
  <2>1. Placed'
    BY <1>1, <1>2, PlacedKept DEF FreshInv, Exists
  <2>2. h[1] = "nobody"
    OBVIOUS
  <2>3. /\ \A r \in PayRequests : h # <<"payment", r>>
        /\ \A j \in OrderRequests : h # <<"order", j>>
        /\ \A d \in DeskRequests : h # <<"complaint", d>>
        /\ h # <<"sweep", sla.job>>
    BY <2>2
  <2> HIDE DEF h
  <2> QED
    BY <1>1, <1>2, <2>1, <2>3, FreshKept DEF FreshInv
<1>3. CASE UNCHANGED vars
  BY <1>2, <1>3 DEF vars, tables, checkoutVars, fulfilmentVars, StatusKept
<1>4. ASSUME NEW o \in Orders, Elapse(o), ClockFrame PROVE FreshInv'
  <2>1. \A i \in Orders : StatusKept(i)
    BY <1>4 DEF Elapse, StatusKept, TypeInv, TablesTyped, TablesTypeOK, OrderRow
  <2> QED
    BY <1>2, <1>4, <2>1 DEF Elapse, ClockFrame, checkoutVars, fulfilmentVars
<1> QED
  BY <1>1, <1>3, <1>4, CheckoutFresh, FulfilmentFresh, DisputesFresh, SweepsFresh DEF Next

Statuses == [o \in Orders |-> order[o].status]

(* The variables of OrderLifecycle, as Marketplace substitutes them.       *)
LEMMA LifecycleIs ==
  /\ UNCHANGED (Lifecycle!lifecycleVars) <=> UNCHANGED <<Statuses, ChargedOrders>>
  /\ Lifecycle!LifecycleInit <=> Statuses = [o \in Orders |-> "absent"] /\ ChargedOrders = {}
  /\ \A o \in Orders :
       /\ Lifecycle!Charge(o) <=>
            /\ Statuses[o] \in {"pending_payment", "cancelled"} \/ o \in ChargedOrders
            /\ ChargedOrders' = ChargedOrders \cup {o}
            /\ UNCHANGED Statuses
       /\ Lifecycle!Follow(o) <=>
            /\ \E edge \in Lifecycle!Edges :
                 Statuses[o] = edge[1] /\ Statuses' = [Statuses EXCEPT ![o] = edge[2]]
            /\ UNCHANGED ChargedOrders
       /\ Lifecycle!Confirm(o) <=>
            /\ o \in ChargedOrders /\ Statuses[o] \in {"pending_payment", "cancelled"}
            /\ Statuses' = [Statuses EXCEPT ![o] = "confirmed"]
            /\ UNCHANGED ChargedOrders
       /\ Lifecycle!Refund(o) <=>
            /\ o \in ChargedOrders
            /\ Statuses' = [Statuses EXCEPT ![o] = "refunded"]
            /\ UNCHANGED ChargedOrders
BY DEF Statuses, ChargedOrders, Lifecycle!lifecycleVars, Lifecycle!LifecycleInit,
       Lifecycle!Charge, Lifecycle!Follow, Lifecycle!Confirm, Lifecycle!Refund

(* A status that is written is the only one that moves.                    *)
LEMMA StatusesMove ==
  /\ \A w \in Orders : \A s :
       (\A o \in Orders : order'[o].status = IF o = w THEN s ELSE order[o].status)
         => Statuses' = [Statuses EXCEPT ![w] = s]
  /\ (\A o \in Orders : StatusKept(o)) => UNCHANGED Statuses
BY DEF Statuses, StatusKept

(* A status written along an edge of the machine follows it.               *)
LEMMA Follows ==
  ASSUME UNCHANGED ChargedOrders, NEW w \in Orders, NEW s,
         <<order[w].status, s>> \in Lifecycle!Edges,
         \A o \in Orders : order'[o].status = IF o = w THEN s ELSE order[o].status
  PROVE  Lifecycle!Follow(w)
<1>1. Statuses' = [Statuses EXCEPT ![w] = s] /\ Statuses[w] = order[w].status
  BY StatusesMove DEF Statuses
<1>2. PICK edge \in Lifecycle!Edges : edge = <<order[w].status, s>>
  OBVIOUS
<1>3. edge[1] = order[w].status /\ edge[2] = s
  BY <1>2
<1> QED
  BY <1>1, <1>3, LifecycleIs

(* Every step of PaymentsService is one of the machine: a form is paid for *)
(* an order that is unpaid or was charged before, and a confirmation that  *)
(* is not late rests on a charge.                                          *)
LEMMA CheckoutLives ==
  ASSUME Invariant, NothingTakenBack, FreshInv, NoLateConfirmation, CheckoutNext, PaymentsFrame
  PROVE  Lifecycle!LifecycleNext \/ UNCHANGED <<Statuses, ChargedOrders>>
<1> USE DEF Invariant, TypeInv
<1>1. CASE \E t \in Tokens : PayForm(t)
  <2>1. PICK t \in Tokens : PayForm(t)
    BY <1>1
  <2> DEFINE w == payment[t].order
  <2>2. w \in Orders /\ Exists(t) /\ UNCHANGED <<order, payment>>
    BY <2>1 DEF PayForm, PayTyped, tables
  <2>3. Statuses[w] \in {"pending_payment", "cancelled"} \/ w \in ChargedOrders
    <3>1. order[w].status \notin {"absent", "draft"}
      BY <2>2 DEF FreshInv, Placed
    <3> QED
      BY <2>2, <3>1 DEF ClaimsInv, OrderClaim, UnpaidStatus, Statuses, ChargedOrders
  <2>4. ChargedOrders' = ChargedOrders \cup {w}
    <3>1. /\ \A u \in Tokens : u # t => form'[u] = form[u]
          /\ form'[t] = "paid"
      BY <2>1 DEF PayForm, PayTyped, CheckoutTypeOK
    <3>2. \A o \in Orders : Charged(o)' <=> Charged(o) \/ o = w
      BY <2>2, <3>1 DEF Charged, Paid, NothingTakenBack
    <3> QED
      BY <2>2, <3>2 DEF ChargedOrders
  <2>5. UNCHANGED Statuses
    BY <2>2, StatusesMove DEF StatusKept
  <2> QED
    BY <2>2, <2>3, <2>4, <2>5, LifecycleIs DEF Lifecycle!LifecycleNext
<1>2. CASE ~ \E t \in Tokens : PayForm(t)
  <2>1. UNCHANGED ChargedOrders
    <3>1. \A t \in Tokens : form'[t] # form[t] => form'[t] = "open"
      BY <1>2
      DEF CheckoutNext, CheckoutWork, PayStep, BeginIntent, InitializeForm, RefuseForm, RecordIntent,
          DeclineForm, Callback, Webhook, FinalizeRow, ConfirmOrder, AuditConfirm,
          NotifyConfirm, MarkEvent, AbortPay, PayTyped, CheckoutTypeOK
    <3>2. \A t \in Tokens : Paid(t)' => Paid(t)
      BY <3>1 DEF Paid
    <3> QED
      BY <3>2, MoneyFramed
  <2>2. ASSUME NEW r \in PayRequests, RecordIntent(r)
        PROVE  Lifecycle!LifecycleNext \/ UNCHANGED Statuses
    <3> DEFINE w == pay[r].order
    <3>1. w \in Orders /\ order[w].status \in {"draft", "pending_payment"}
      BY <2>2 DEF RecordIntent, PayTyped, PayFits, FreshInv, PayFresh
    <3>2. \A o \in Orders : order'[o].status = IF o = w THEN "pending_payment"
                                                        ELSE order[o].status
      BY <2>2, <3>1, StatusWritten DEF RecordIntent
    <3>3. CASE order[w].status = "draft"
      BY <2>1, <3>1, <3>2, <3>3, Follows DEF Lifecycle!Edges, Lifecycle!LifecycleNext
    <3>4. CASE order[w].status = "pending_payment"
      BY <3>2, <3>4, StatusesMove DEF StatusKept
    <3> QED
      BY <3>1, <3>3, <3>4
  <2>3. ASSUME NEW r \in PayRequests, ConfirmOrder(r)
        PROVE  Lifecycle!LifecycleNext \/ UNCHANGED Statuses
    <3> DEFINE w == payment[pay[r].token].order
    <3>1. w \in Orders /\ w \in ChargedOrders
      BY <2>3, PayRow DEF ConfirmOrder, MoneyInv, PayClaim, ChargedOrders, Charged
    <3>2. \A o \in Orders : order'[o].status = IF o = w THEN "confirmed" ELSE order[o].status
      BY <2>3, <3>1, StatusWritten DEF ConfirmOrder
    <3>3. Statuses' = [Statuses EXCEPT ![w] = "confirmed"]
      BY <3>1, <3>2, StatusesMove
    <3>4. order[w].status \in {"pending_payment", "cancelled", "confirmed"}
      BY <2>3 DEF ConfirmOrder, NoLateConfirmation
    <3>5. CASE order[w].status = "confirmed"
      BY <3>2, <3>5, StatusesMove DEF StatusKept
    <3>6. CASE order[w].status # "confirmed"
      <4>1. Statuses[w] \in {"pending_payment", "cancelled"}
        BY <3>1, <3>4, <3>6 DEF Statuses
      <4> QED
        BY <2>1, <3>1, <3>3, <4>1, LifecycleIs DEF Lifecycle!LifecycleNext
    <3> QED
      BY <3>5, <3>6
  <2>4. ASSUME ~ \E r \in PayRequests : RecordIntent(r) \/ ConfirmOrder(r)
        PROVE  UNCHANGED order
    BY <2>4
    DEF CheckoutNext, CheckoutWork, PayStep, BeginIntent, InitializeForm, RefuseForm, PayForm, DeclineForm,
        Callback, Webhook, FinalizeRow, AuditConfirm, NotifyConfirm, MarkEvent, AbortPay,
        tables
  <2> QED
    BY <2>1, <2>2, <2>3, <2>4 DEF Statuses
<1> QED
  BY <1>1, <1>2

(* Every step of OrdersService follows an edge, or moves no order.         *)
LEMMA FulfilmentLives ==
  ASSUME Invariant, FreshInv, FulfilmentNext, OrdersFrame
  PROVE  Lifecycle!LifecycleNext \/ UNCHANGED <<Statuses, ChargedOrders>>
<1> USE DEF Invariant, TypeInv
<1>1. UNCHANGED ChargedOrders
  BY LedgerFramed DEF OrdersFrame, checkoutVars
<1>2. ASSUME NEW o \in Orders, CreateOrder(o) PROVE Lifecycle!LifecycleNext
  <2>1. \A i \in Orders : order'[i].status = IF i = o THEN "draft" ELSE order[i].status
    BY <1>2, StatusWritten DEF CreateOrder
  <2>2. <<order[o].status, "draft">> \in Lifecycle!Edges
    BY <1>2 DEF CreateOrder, Lifecycle!Edges
  <2> QED
    BY <1>1, <2>1, <2>2, Follows DEF Lifecycle!LifecycleNext
<1>3. ASSUME NEW j \in OrderRequests, Assign(j) \/ Start(j) \/ Complete(j) \/ Approve(j)
      PROVE  Lifecycle!LifecycleNext
  <2>1. /\ job[j].order \in Orders /\ job[j].at = "write"
        /\ \/ Assign(j) /\ job[j].op = "assign"
           \/ Start(j) /\ job[j].op = "start"
           \/ Complete(j) /\ job[j].op = "complete"
           \/ Approve(j) /\ job[j].op = "approve"
    BY <1>3, JobRow DEF Assign, Start, Complete, Approve, At
  <2> DEFINE To(s) == /\ <<order[job[j].order].status, s>> \in Lifecycle!Edges
                      /\ \A o \in Orders : order'[o].status = IF o = job[j].order
                                                                THEN s ELSE order[o].status
  <2>2. order[job[j].order].status = AsRead[job[j].op]
    BY <2>1 DEF FreshInv, JobFresh, AsRead
  <2>3. \E s : To(s)
    <3>1. CASE Assign(j) /\ job[j].op = "assign"
      <4>1. To("assigned")
        BY <2>1, <2>2, <3>1, AssignWritten DEF AsRead, Lifecycle!Edges
      <4> QED
        BY <4>1
    <3>2. CASE Start(j) /\ job[j].op = "start"
      <4>1. To("in_progress")
        BY <2>1, <2>2, <3>2, StatusWritten DEF Start, AsRead, Lifecycle!Edges
      <4> QED
        BY <4>1
    <3>3. CASE Complete(j) /\ job[j].op = "complete"
      <4>1. To("completed_pending_approval")
        BY <2>1, <2>2, <3>3, CompleteWritten DEF AsRead, Lifecycle!Edges
      <4> QED
        BY <4>1
    <3>4. CASE Approve(j) /\ job[j].op = "approve"
      <4>1. To("closed")
        BY <2>1, <2>2, <3>4, StatusWritten DEF Approve, AsRead, Lifecycle!Edges
      <4> QED
        BY <4>1
    <3> QED
      BY <2>1, <3>1, <3>2, <3>3, <3>4
  <2>4. PICK s : To(s)
    BY <2>3
  <2>5. PICK w \in Orders : w = job[j].order
    BY <2>1
  <2>6. Lifecycle!Follow(w)
    BY <1>1, <2>4, <2>5, Follows
  <2> QED
    BY <2>6 DEF Lifecycle!LifecycleNext
<1>4. ASSUME NEW j \in OrderRequests, NEW k \in Complaints, Complain(j, k)
      PROVE  Lifecycle!LifecycleNext \/ UNCHANGED Statuses
  <2>1. CASE job[j].dispute
    <3>1. job[j].order \in Orders
      BY <1>4, JobRow DEF Complain, At
    <3>2. <<order[job[j].order].status, "disputed">> \in Lifecycle!Edges
      BY <1>4, <2>1 DEF Complain, At, FreshInv, JobFresh, Lifecycle!Edges
    <3>3. \A o \in Orders : order'[o].status = IF o = job[j].order THEN "disputed"
                                                                  ELSE order[o].status
      BY <1>4, <2>1, <3>1, StatusWritten DEF Complain
    <3>4. PICK w \in Orders : w = job[j].order
      BY <3>1
    <3>5. Lifecycle!Follow(w)
      BY <1>1, <3>2, <3>3, <3>4, Follows
    <3> QED
      BY <3>5 DEF Lifecycle!LifecycleNext
  <2>2. CASE ~job[j].dispute
    BY <1>4, <2>2 DEF Complain, Statuses
  <2> QED
    BY <2>1, <2>2
<1>5. ASSUME NEW j \in OrderRequests,
             \/ \E p \in Partners, d \in {"active", "rejected"} : BeginVet(j, p, d)
             \/ \E o \in Orders, p \in Partners :
                  \/ BeginAssign(j, o, p)
                  \/ BeginStart(j, o, p)
                  \/ \E kind \in PhotoKinds : BeginEvidence(j, o, p, kind)
                  \/ BeginComplete(j, o, p)
             \/ \E o \in Orders : BeginApprove(j, o) \/ BeginComplaint(j, o)
             \/ Vet(j) \/ CheckPartner(j) \/ StoreEvidence(j) \/ ReportForReview(j)
             \/ CheckPhotos(j) \/ AuditJob(j) \/ NotifyJob(j) \/ AbortJob(j)
      PROVE  UNCHANGED order
  BY <1>5 DEF BeginVet, BeginAssign, BeginStart, BeginEvidence, BeginComplete, BeginApprove,
              BeginComplaint, JobBegin, Vet, CheckPartner, StoreEvidence, ReportForReview,
              CheckPhotos, AuditJob, NotifyJob, AbortJob, tables
<1>6. ASSUME NEW p \in Partners, Onboard(p) PROVE UNCHANGED order
  BY <1>6 DEF Onboard, tables
<1>7. UNCHANGED order => UNCHANGED Statuses
  BY DEF Statuses
<1> QED
  BY <1>1, <1>2, <1>3, <1>4, <1>5, <1>6, <1>7 DEF FulfilmentNext, FulfilmentWork, JobStep

(* A rejected dispute closes what is disputed, and a refund is that of a   *)
(* charged order.                                                          *)
LEMMA DisputesLive ==
  ASSUME Invariant, NothingTakenBack, FreshInv, DisputesNext, DeskFrame
  PROVE  Lifecycle!LifecycleNext \/ UNCHANGED <<Statuses, ChargedOrders>>
<1> USE DEF Invariant, TypeInv
<1>1. UNCHANGED ChargedOrders
  BY DisputesSettle
<1>2. ASSUME NEW d \in DeskRequests, CloseDispute(d) PROVE Lifecycle!LifecycleNext
  <2>1. OrderOf(d) \in Orders
    BY <1>2, DeskRow DEF CloseDispute
  <2>2. <<order[OrderOf(d)].status, "closed">> \in Lifecycle!Edges
    <3>1. desk[d].disputed
      BY <1>2 DEF CloseDispute, ClaimsInv, DeskClaim
    <3> QED
      BY <1>2, <3>1 DEF CloseDispute, FreshInv, DeskFresh, Lifecycle!Edges
  <2>3. \A o \in Orders : order'[o].status = IF o = OrderOf(d) THEN "closed" ELSE order[o].status
    BY <1>2, <2>1, StatusWritten DEF CloseDispute
  <2>4. PICK w \in Orders : w = OrderOf(d)
    BY <2>1
  <2>5. Lifecycle!Follow(w)
    BY <1>1, <2>2, <2>3, <2>4, Follows
  <2> QED
    BY <2>5 DEF Lifecycle!LifecycleNext
<1>3. ASSUME NEW d \in DeskRequests, RefundOrder(d) PROVE Lifecycle!LifecycleNext
  <2>1. OrderOf(d) \in Orders
    BY <1>3, DeskRow DEF RefundOrder
  <2>2. OrderOf(d) \in ChargedOrders
    <3>1. Returned(OrderOf(d))
      BY <1>3 DEF RefundOrder, ClaimsInv, DeskClaim
    <3> QED
      BY <2>1, <3>1 DEF Returned, Charged, Paid, ChargedOrders
  <2>3. \A o \in Orders : order'[o].status = IF o = OrderOf(d) THEN "refunded" ELSE order[o].status
    BY <1>3, <2>1, StatusWritten DEF RefundOrder
  <2>4. Statuses' = [Statuses EXCEPT ![OrderOf(d)] = "refunded"]
    BY <2>1, <2>3, StatusesMove
  <2>5. PICK w \in Orders : w = OrderOf(d)
    BY <2>1
  <2>6. Lifecycle!Refund(w)
    BY <1>1, <2>2, <2>4, <2>5, LifecycleIs
  <2> QED
    BY <2>6 DEF Lifecycle!LifecycleNext
<1>4. ASSUME ~ \E d \in DeskRequests : CloseDispute(d) \/ RefundOrder(d) PROVE UNCHANGED order
  BY <1>4
  DEF DisputesNext, DisputesWork, DeskStep, BeginInvestigate, BeginResolve, BeginRefund, Investigate,
      Resolve, ReadDisputed, NotifyResolved, FindPayment, ReturnMoney, MarkRefunded,
      ReadRefunded, AuditDesk, AbortDesk, tables
<1> QED
  BY <1>1, <1>2, <1>3, <1>4 DEF Statuses

(* The sweeps cancel what is unpaid and close what awaits approval.        *)
LEMMA SweepsLive ==
  ASSUME Invariant, FreshInv, SweepsNext, SlaFrame
  PROVE  Lifecycle!LifecycleNext \/ UNCHANGED <<Statuses, ChargedOrders>>
<1> USE DEF Invariant, TypeInv
<1>1. UNCHANGED ChargedOrders
  BY LedgerFramed DEF SlaFrame, checkoutVars
<1>2. ASSUME NEW w \in Orders, CancelUnpaid(w) \/ AutoClose(w) PROVE Lifecycle!LifecycleNext
  <2>1. w \in sla.todo \ {sla.auditing}
    BY <1>2, NullAssumption DEF CancelUnpaid, AutoClose, Take
  <2>2. PICK s \in {"cancelled", "closed"} :
          /\ \A o \in Orders : order'[o].status = IF o = w THEN s ELSE order[o].status
          /\ <<order[w].status, s>> \in Lifecycle!Edges
    <3>1. CASE CancelUnpaid(w)
      BY <2>1, <3>1, StatusWritten DEF CancelUnpaid, FreshInv, SlaFresh, Lifecycle!Edges
    <3>2. CASE AutoClose(w)
      BY <2>1, <3>2, StatusWritten DEF AutoClose, FreshInv, SlaFresh, Lifecycle!Edges
    <3> QED
      BY <1>2, <3>1, <3>2
  <2>3. Lifecycle!Follow(w)
    BY <1>1, <2>2, Follows
  <2> QED
    BY <2>3 DEF Lifecycle!LifecycleNext
<1>3. ASSUME ~ \E o \in Orders : CancelUnpaid(o) \/ AutoClose(o) PROVE UNCHANGED order
  BY <1>3 DEF SweepsNext, SweepsWork, SweepStep, BeginSweep, AuditSweep, NotifySweep, AbortSweep,
              tables
<1> QED
  BY <1>1, <1>2, <1>3 DEF Statuses

(* Every step is one of the machine, or none.                              *)
LEMMA LifecycleSteps ==
  ASSUME Invariant, FreshInv, NoLateConfirmation, [Next]_vars
  PROVE  [Lifecycle!LifecycleNext]_(Lifecycle!lifecycleVars)
<1> SUFFICES Lifecycle!LifecycleNext \/ UNCHANGED <<Statuses, ChargedOrders>>
  BY LifecycleIs
<1>1. NothingTakenBack
  BY Monotone DEF Invariant
<1>2. CASE UNCHANGED vars
  BY <1>2, LedgerFramed DEF vars, tables, checkoutVars, Statuses
<1>3. ASSUME NEW o \in Orders, Elapse(o), ClockFrame PROVE UNCHANGED <<Statuses, ChargedOrders>>
  <2>1. \A i \in Orders : StatusKept(i)
    BY <1>3 DEF Elapse, StatusKept, Invariant, TypeInv, TablesTyped, TablesTypeOK, OrderRow
  <2> QED
    BY <1>3, <2>1, StatusesMove, LedgerFramed DEF ClockFrame, checkoutVars
<1> QED
  BY <1>1, <1>2, <1>3, CheckoutLives, FulfilmentLives, DisputesLive, SweepsLive DEF Next

(* While nothing overlaps that handles the same order, what was read about *)
(* its status holds until it is written.                                   *)
LEMMA StayFresh == Spec /\ []OneAtATime => []FreshInv
<1>1. Init => FreshInv
  BY DEF Init, TablesInit, CheckoutInit, DisputesInit, FulfilmentInit, SweepsInit, FreshInv,
         Placed, PayFresh, JobFresh, DeskFresh, SlaFresh, Exists, PayIdle, JobIdle, DeskIdle,
         SweepIdle
<1>2. Invariant /\ OneAtATime /\ FreshInv /\ [Next]_vars => FreshInv'
  BY FreshStep
<1> QED
  BY <1>1, <1>2, Inductive, PTL DEF Spec

(* Handled one request at a time, every order follows the status machine,  *)
(* and only along its edges: the checks of OrdersService, ComplaintsService*)
(* and SlaService (orders.service.ts:263-270,447-456,486-520,565-582,      *)
(* 611-634, complaints.service.ts:138-158, sla.service.ts:39-118) are      *)
(* sufficient for it, and what breaks the machine is the overlap, and a    *)
(* confirmation that comes when the order has gone on.                     *)
THEOREM LifecycleFollowed ==
  Spec /\ []OneAtATime /\ []NoLateConfirmation => FollowsLifecycle
<1>1. Init => Lifecycle!LifecycleInit
  <2> SUFFICES ASSUME Init PROVE Lifecycle!LifecycleInit
    OBVIOUS
  <2>1. ChargedOrders = {}
    BY DEF Init, CheckoutInit, ChargedOrders, Charged, Paid
  <2>2. Statuses = [o \in Orders |-> "absent"]
    BY DEF Init, TablesInit, Statuses
  <2> QED
    BY <2>1, <2>2, LifecycleIs
<1>2. Invariant /\ FreshInv /\ NoLateConfirmation /\ [Next]_vars
        => [Lifecycle!LifecycleNext]_(Lifecycle!lifecycleVars)
  BY LifecycleSteps
<1> QED
  BY <1>1, <1>2, StayFresh, Inductive, PTL
  DEF Spec, FollowsLifecycle, Lifecycle!LifecycleSpec

-----------------------------------------------------------------------------
(* What the overlap and the statuses that go back are to blame for         *)

(* A status never goes back: the step of StatusNeverGoesBack.              *)
Onwards == \A o \in Orders : Stage[order'[o].status] >= Stage[order[o].status]

(* Stages are numbers.                                                     *)
LEMMA Staged == TablesTyped => \A o \in Orders : Stage[order[o].status] \in Nat
BY DEF TablesTyped, TablesTypeOK, OrderRow, OrderStatus, Stage

(* Approving and closing find an order that awaits approval, on which no   *)
(* payout rests, and leave it closed.                                      *)
LEMMA PaidOutStep ==
  ASSUME Invariant, Invariant', FreshInv, PaidOut, Onwards, [Next]_vars
  PROVE  PaidOut'
<1> USE DEF Invariant, TypeInv
<1>1. ASSUME NEW o \in Orders, UNCHANGED payouts[o]
      PROVE  \A p \in Partners : PaidOutOnce(o, p)'
  <2>1. Stage[order'[o].status] >= Stage[order[o].status]
    BY DEF Onwards
  <2>2. Stage[order[o].status] \in Nat /\ Stage[order'[o].status] \in Nat
    BY Staged DEF TablesTyped, TablesTypeOK, OrderRow, OrderStatus, Stage
  <2>3. Stage[order[o].status] >= 8 => Stage[order'[o].status] >= 8
    BY <2>1, <2>2
  <2> QED
    BY <1>1, <2>3 DEF PaidOut, PaidOutOnce
<1>2. ASSUME NEW w \in Orders, NEW p \in Partners \cup {None}, CreatePayout(w, p),
             order[w].status = "completed_pending_approval", order'[w].status = "closed"
      PROVE  PaidOut'
  <2>1. \A o \in Orders : o # w => payouts'[o] = payouts[o]
    BY <1>2 DEF CreatePayout, JobTyped, FulfilmentTypeOK
  <2>2. \A q \in Partners : payouts[w][q] = 0
    BY <1>2 DEF PaidOut, PaidOutOnce, Stage, JobTyped, FulfilmentTypeOK
  <2>3. \A q \in Partners : payouts'[w][q] = IF q = p THEN 1 ELSE 0
    BY <1>2, <2>2, NullAssumption DEF CreatePayout, JobTyped, FulfilmentTypeOK
  <2>4. \A q \in Partners : PaidOutOnce(w, q)'
    BY <1>2, <2>3 DEF PaidOutOnce, Stage
  <2> QED
    BY <1>1, <2>1, <2>4 DEF PaidOut
<1>3. UNCHANGED payouts => PaidOut'
  BY <1>1 DEF PaidOut
<1>4. ASSUME NEW j \in OrderRequests, Approve(j) PROVE PaidOut'
  <2>1. /\ job[j].order \in Orders /\ job[j].partner \in Partners \cup {None}
        /\ job[j].at = "write" /\ job[j].op = "approve"
    BY <1>4, JobRow DEF Approve, At
  <2>2. order[job[j].order].status = "completed_pending_approval"
    BY <2>1 DEF FreshInv, JobFresh, AsRead
  <2>3. order'[job[j].order].status = "closed"
    BY <1>4, <2>1, StatusWritten DEF Approve
  <2>4. CreatePayout(job[j].order, job[j].partner)
    BY <1>4 DEF Approve
  <2> QED
    BY <1>2, <2>1, <2>2, <2>3, <2>4
<1>5. ASSUME NEW o \in Orders, AutoClose(o) PROVE PaidOut'
  <2>1. /\ order[o].status = "completed_pending_approval"
        /\ sla.owed[o] \in Partners \cup {None}
    BY <1>5, NullAssumption DEF AutoClose, Take, FreshInv, SlaFresh, SweepsTypeOK, Sweep
  <2>2. order'[o].status = "closed"
    BY <1>5, StatusWritten DEF AutoClose
  <2> QED
    BY <1>2, <1>3, <1>5, <2>1, <2>2 DEF AutoClose
<1>6. ASSUME ~ \E j \in OrderRequests : Approve(j), ~ \E o \in Orders : AutoClose(o)
      PROVE  UNCHANGED payouts
  <2>1. CASE FulfilmentNext
    <3>1. ASSUME NEW j \in OrderRequests,
                 \/ \E p \in Partners, d \in {"active", "rejected"} : BeginVet(j, p, d)
                 \/ \E o \in Orders, p \in Partners :
                      \/ BeginAssign(j, o, p)
                      \/ BeginStart(j, o, p)
                      \/ \E kind \in PhotoKinds : BeginEvidence(j, o, p, kind)
                      \/ BeginComplete(j, o, p)
                 \/ \E o \in Orders : BeginApprove(j, o) \/ BeginComplaint(j, o)
          PROVE  UNCHANGED payouts
      BY <3>1 DEF BeginVet, BeginAssign, BeginStart, BeginEvidence, BeginComplete, BeginApprove,
                  BeginComplaint, JobBegin
    <3>2. ASSUME NEW j \in OrderRequests, JobStep(j) \/ AbortJob(j) PROVE UNCHANGED payouts
      BY <1>6, <3>2
      DEF JobStep, Vet, CheckPartner, Assign, Start, StoreEvidence, ReportForReview, CheckPhotos,
          Complete, Complain, AuditJob, NotifyJob, AbortJob
    <3>3. ASSUME (\E o \in Orders : CreateOrder(o)) \/ \E p \in Partners : Onboard(p)
          PROVE  UNCHANGED payouts
      BY <3>3 DEF CreateOrder, Onboard, fulfilmentVars
    <3> QED
      BY <2>1, <3>1, <3>2, <3>3 DEF FulfilmentNext, FulfilmentWork
  <2>2. CASE SweepsNext
    BY <1>6, <2>2
    DEF SweepsNext, SweepsWork, SweepStep, BeginSweep, CancelUnpaid, AuditSweep, NotifySweep,
        AbortSweep, fulfilmentVars
  <2> QED
    BY <2>1, <2>2 DEF Next, PaymentsFrame, DeskFrame, ClockFrame, vars, fulfilmentVars
<1> QED
  BY <1>3, <1>4, <1>5, <1>6

(* An order has one payout at most, to one partner, provided that requests *)
(* on it do not overlap and that its status never goes back.  The API      *)
(* guarantees neither (orders.service.ts:565-582, sla.service.ts:93-108,   *)
(* payments.service.ts:437-457); the two together would do.                *)
THEOREM PaidOutOncePerOrder ==
  Spec /\ []OneAtATime /\ StatusNeverGoesBack => []OnePayoutPerOrder
<1>1. Init => PaidOut
  BY DEF Init, FulfilmentInit, PaidOut, PaidOutOnce
<1>2. Invariant /\ Invariant' /\ FreshInv /\ PaidOut /\ [Next]_vars /\ [Onwards]_order => PaidOut'
  <2> SUFFICES ASSUME Invariant, Invariant', FreshInv, PaidOut, [Next]_vars, [Onwards]_order
               PROVE  PaidOut'
    OBVIOUS
  <2>1. UNCHANGED order => Onwards
    BY Staged DEF Onwards, Invariant, TypeInv
  <2> QED
    BY <2>1, PaidOutStep
<1>3. Invariant /\ PaidOut => OnePayoutPerOrder
  BY DEF PaidOut, PaidOutOnce, OnePayoutPerOrder, Invariant, TypeInv, JobTyped, FulfilmentTypeOK
<1>4. StatusNeverGoesBack <=> [][Onwards]_order
  BY PTL DEF StatusNeverGoesBack, Onwards
<1> QED
  BY <1>1, <1>2, <1>3, <1>4, StayFresh, Inductive, PTL DEF Spec

(* A partner is written into an order with the status "assigned".          *)
LEMMA PartnerWritten ==
  ASSUME TypeInv, [Next]_vars, NEW o \in Orders, order'[o].partner # order[o].partner
  PROVE  order'[o].status = "assigned"
<1> USE DEF TypeInv
<1> DEFINE Goal == order'[o].partner = order[o].partner \/ order'[o].status = "assigned"
<1>1. ASSUME NEW i \in Orders, NEW s, SetStatus(i, s) PROVE Goal
  BY <1>1, StatusWritten
<1>2. CASE CheckoutNext
  <2>1. ASSUME NEW r \in PayRequests, RecordIntent(r) PROVE Goal
    BY <1>1, <2>1 DEF RecordIntent, PayTyped, PayFits
  <2>2. ASSUME NEW r \in PayRequests, ConfirmOrder(r) PROVE Goal
    BY <1>1, <2>2, PayRow DEF ConfirmOrder
  <2>3. ASSUME ~ \E r \in PayRequests : RecordIntent(r) \/ ConfirmOrder(r)
        PROVE  UNCHANGED order
    BY <1>2, <2>3
    DEF CheckoutNext, CheckoutWork, PayStep, BeginIntent, InitializeForm, RefuseForm, PayForm, DeclineForm,
        Callback, Webhook, FinalizeRow, AuditConfirm, NotifyConfirm, MarkEvent, AbortPay,
        tables
  <2> QED
    BY <2>1, <2>2, <2>3
<1>3. CASE DisputesNext
  <2>1. ASSUME NEW d \in DeskRequests, CloseDispute(d) \/ RefundOrder(d) PROVE Goal
    BY <1>1, <2>1, DeskRow DEF CloseDispute, RefundOrder
  <2>2. ASSUME ~ \E d \in DeskRequests : CloseDispute(d) \/ RefundOrder(d) PROVE UNCHANGED order
    BY <1>3, <2>2
    DEF DisputesNext, DisputesWork, DeskStep, BeginInvestigate, BeginResolve, BeginRefund, Investigate,
        Resolve, ReadDisputed, NotifyResolved, FindPayment, ReturnMoney, MarkRefunded,
        ReadRefunded, AuditDesk, AbortDesk, tables
  <2> QED
    BY <2>1, <2>2
<1>4. CASE FulfilmentNext
  <2>1. ASSUME NEW i \in Orders, CreateOrder(i) PROVE Goal
    BY <1>1, <2>1 DEF CreateOrder
  <2>2. ASSUME NEW j \in OrderRequests, Start(j) \/ Approve(j) PROVE Goal
    BY <1>1, <2>2, JobRow DEF Start, Approve, At
  <2>3. ASSUME NEW j \in OrderRequests, Assign(j) \/ Complete(j) PROVE Goal
    BY <2>3, AssignWritten, CompleteWritten
  <2>4. ASSUME NEW j \in OrderRequests, NEW k \in Complaints, Complain(j, k) PROVE Goal
    BY <1>1, <2>4, JobRow DEF Complain, At
  <2>5. ASSUME NEW j \in OrderRequests,
               \/ Vet(j) \/ CheckPartner(j) \/ StoreEvidence(j) \/ ReportForReview(j)
               \/ CheckPhotos(j) \/ AuditJob(j) \/ NotifyJob(j) \/ AbortJob(j)
        PROVE  UNCHANGED order
    BY <2>5
    DEF Vet, CheckPartner, StoreEvidence, ReportForReview, CheckPhotos, AuditJob, NotifyJob,
        AbortJob, tables
  <2>6. ASSUME NEW j \in OrderRequests, JobStep(j) \/ AbortJob(j) PROVE Goal
    BY <2>2, <2>3, <2>4, <2>5, <2>6 DEF JobStep
  <2>7. CASE FulfilmentWork /\ ~ (\E j \in OrderRequests : JobStep(j))
                            /\ ~ (\E i \in Orders : CreateOrder(i))
    <3>1. UNCHANGED order
      BY ZenonT(60), <2>7
      DEF FulfilmentWork, Onboard, BeginVet, BeginAssign, BeginStart, BeginEvidence,
          BeginComplete, BeginApprove, BeginComplaint, JobBegin, tables
    <3> QED BY <3>1
  <2> QED
    BY <1>4, <2>1, <2>6, <2>7 DEF FulfilmentNext
<1>5. CASE SweepsNext
  <2>1. ASSUME NEW i \in Orders, CancelUnpaid(i) \/ AutoClose(i) PROVE Goal
    BY <1>1, <2>1 DEF CancelUnpaid, AutoClose
  <2>2. ASSUME ~ \E i \in Orders : CancelUnpaid(i) \/ AutoClose(i) PROVE UNCHANGED order
    BY <1>5, <2>2 DEF SweepsNext, SweepsWork, SweepStep, BeginSweep, AuditSweep, NotifySweep,
                      AbortSweep, tables
  <2> QED
    BY <2>1, <2>2
<1>6. ASSUME NEW i \in Orders, Elapse(i) PROVE Goal
  BY <1>6 DEF Elapse, TablesTyped, TablesTypeOK, OrderRow
<1> QED
  BY <1>2, <1>3, <1>4, <1>5, <1>6 DEF Next, vars, tables

(* The escalation, which looks for confirmed orders without a partner      *)
(* (sla.service.ts:146-151), overlooks none as long as no status goes      *)
(* back: an order it does not see is one whose payment was confirmed again *)
(* after its assignment (payments.service.ts:437-457).                     *)
THEOREM EscalationSeesAll ==
  Spec /\ StatusNeverGoesBack =>
    [](\A o \in Orders : order[o].status = "confirmed" => order[o].partner = None)
<1>1. Init => PastConfirmed
  BY DEF Init, TablesInit, PastConfirmed
<1>2. Invariant /\ Invariant' /\ PastConfirmed /\ [Next]_vars /\ [Onwards]_order
        => PastConfirmed'
  <2> SUFFICES ASSUME Invariant, Invariant', PastConfirmed, [Next]_vars, [Onwards]_order,
                      NEW o \in Orders, order'[o].partner # None
               PROVE  Stage[order'[o].status] >= 4
    BY DEF PastConfirmed
  <2> USE DEF Invariant, TypeInv
  <2>1. CASE order'[o].partner = order[o].partner
    <3>1. Stage[order'[o].status] >= Stage[order[o].status] \/ UNCHANGED order
      BY DEF Onwards
    <3>2. Stage[order[o].status] >= 4 /\ Stage[order[o].status] \in Nat
      BY <2>1, Staged DEF PastConfirmed
    <3>3. Stage[order'[o].status] \in Nat
      BY DEF TablesTyped, TablesTypeOK, OrderRow, OrderStatus, Stage
    <3> QED
      BY <3>1, <3>2, <3>3
  <2>2. CASE order'[o].partner # order[o].partner
    <3>1. order'[o].status = "assigned"
      BY <2>2, PartnerWritten
    <3> QED
      BY <3>1 DEF Stage
  <2> QED
    BY <2>1, <2>2
<1>3. PastConfirmed =>
        \A o \in Orders : order[o].status = "confirmed" => order[o].partner = None
  BY DEF PastConfirmed, Stage
<1>4. StatusNeverGoesBack <=> [][Onwards]_order
  BY PTL DEF StatusNeverGoesBack, Onwards
<1> QED
  BY <1>1, <1>2, <1>3, <1>4, Inductive, PTL DEF Spec

(* A decision finds the partner as it was read.                            *)
LEMMA VetStep ==
  ASSUME TypeInv, OneVetting, VetFresh, [Next]_vars
  PROVE  /\ VetFresh'
         /\ [\A p \in Partners : partner[p] \in {"active", "rejected"}
                                   => partner'[p] = partner[p]]_partner
<1> USE DEF TypeInv
<1> DEFINE Kept == \A p \in Partners : partner[p] \in {"active", "rejected"}
                                         => partner'[p] = partner[p]
<1>1. job \in [OrderRequests -> Job] /\ partner \in [Partners -> PartnerStatus]
  BY DEF JobTyped, FulfilmentTypeOK
<1>2. ASSUME UNCHANGED partner,
             \A j \in OrderRequests :
               \/ job'[j] = job[j]
               \/ Vetting(j)' => partner[job'[j].partner] = "onboarding"
      PROVE  VetFresh' /\ UNCHANGED partner
  BY <1>2 DEF VetFresh, Vetting
<1>3. ASSUME NEW j \in OrderRequests, Vet(j) PROVE VetFresh' /\ Kept
  <2>1. Vetting(j) /\ job[j].partner \in Partners
    BY <1>3, JobRow DEF Vet, At, Vetting
  <2>2. \A p \in Partners : p # job[j].partner => partner'[p] = partner[p]
    BY <1>1, <1>3 DEF Vet
  <2>3. \A i \in OrderRequests : IF i = j THEN job'[i].at = "audit" ELSE job'[i] = job[i]
    BY <1>1, <1>3 DEF Vet, JobGoto, Job
  <2>4. \A i \in OrderRequests : i # j /\ Vetting(i) =>
          job[i].partner # job[j].partner /\ job[i].partner \in Partners
    BY <2>1, JobRow DEF OneVetting, Vetting
  <2>5. VetFresh'
    BY <2>2, <2>3, <2>4 DEF VetFresh, Vetting
  <2>6. Kept
    BY <2>1, <2>2 DEF VetFresh
  <2> QED
    BY <2>5, <2>6
<1>4. ASSUME NEW p \in Partners, Onboard(p) PROVE VetFresh' /\ Kept
  <2>1. \A q \in Partners : partner'[q] = IF q = p THEN "onboarding" ELSE partner[q]
    BY <1>1, <1>4 DEF Onboard
  <2>2. UNCHANGED job /\ partner[p] = "absent"
    BY <1>4 DEF Onboard
  <2>3. \A j \in OrderRequests : Vetting(j) => job[j].partner \in Partners
    BY JobRow DEF Vetting
  <2>4. VetFresh'
    BY <2>1, <2>2, <2>3 DEF VetFresh, Vetting
  <2> QED
    BY <2>1, <2>2, <2>4
<1>5. ASSUME NEW j \in OrderRequests, NEW p \in Partners, NEW d \in {"active", "rejected"},
             BeginVet(j, p, d)
      PROVE  VetFresh' /\ UNCHANGED partner
  BY <1>1, <1>2, <1>5 DEF BeginVet, JobBegin, JobIdle
<1>6. ASSUME NEW j \in OrderRequests,
             \/ \E o \in Orders, p \in Partners :
                  \/ BeginAssign(j, o, p)
                  \/ BeginStart(j, o, p)
                  \/ \E kind \in PhotoKinds : BeginEvidence(j, o, p, kind)
                  \/ BeginComplete(j, o, p)
             \/ \E o \in Orders : BeginApprove(j, o) \/ BeginComplaint(j, o)
      PROVE  VetFresh' /\ UNCHANGED partner
  <2>1. UNCHANGED partner /\ \A i \in OrderRequests : i # j => job'[i] = job[i]
    BY <1>1, <1>6 DEF BeginAssign, BeginStart, BeginEvidence, BeginComplete, BeginApprove,
                      BeginComplaint, JobBegin
  <2>2. job'[j].op \notin {"active", "rejected"}
    <3>1. CASE \E o \in Orders, p \in Partners :
                 BeginAssign(j, o, p) \/ BeginStart(j, o, p) \/ BeginComplete(j, o, p)
      BY ZenonT(60), <1>1, <3>1 DEF BeginAssign, BeginStart, BeginComplete, JobBegin, JobIdle
    <3>2. CASE \E o \in Orders, p \in Partners, kind \in PhotoKinds :
                 BeginEvidence(j, o, p, kind)
      BY <1>1, <3>2 DEF BeginEvidence, JobBegin, JobIdle
    <3>3. CASE \E o \in Orders : BeginApprove(j, o) \/ BeginComplaint(j, o)
      BY ZenonT(60), <1>1, <3>3 DEF BeginApprove, BeginComplaint, JobBegin, JobIdle
    <3> QED
      BY <1>6, <3>1, <3>2, <3>3
  <2> QED
    BY <1>2, <2>1, <2>2 DEF Vetting
<1>7. ASSUME NEW j \in OrderRequests,
             \/ CheckPartner(j) \/ Assign(j) \/ Start(j) \/ StoreEvidence(j)
             \/ ReportForReview(j) \/ CheckPhotos(j) \/ Complete(j) \/ Approve(j)
             \/ \E k \in Complaints : Complain(j, k)
             \/ AuditJob(j) \/ NotifyJob(j) \/ AbortJob(j)
      PROVE  VetFresh' /\ UNCHANGED partner
  <2>1. UNCHANGED partner /\ \A i \in OrderRequests : i # j => job'[i] = job[i]
    BY <1>1, <1>7
    DEF CheckPartner, Assign, Start, StoreEvidence, ReportForReview, CheckPhotos, Complete,
        Approve, Complain, AuditJob, NotifyJob, AbortJob, JobGoto, JobEnd
  <2>2. \/ job'[j] = JobIdle
        \/ \E stage \in {"review", "audit", "notify"} : job'[j] = [job[j] EXCEPT !.at = stage]
        \/ job'[j] = [job[j] EXCEPT !.at = "write"] /\ job[j].op \in {"assign", "complete"}
    <3>1. CASE CheckPartner(j) \/ CheckPhotos(j)
      BY <1>1, <3>1 DEF CheckPartner, CheckPhotos, At, JobGoto, JobEnd
    <3>2. CASE Assign(j) \/ Start(j) \/ Complete(j) \/ Approve(j)
                 \/ \E k \in Complaints : Complain(j, k)
      BY <1>1, <3>2 DEF Assign, Start, Complete, Approve, Complain, JobGoto
    <3>3. CASE StoreEvidence(j) \/ ReportForReview(j) \/ AuditJob(j) \/ NotifyJob(j)
                 \/ AbortJob(j)
      BY <1>1, <3>3 DEF StoreEvidence, ReportForReview, AuditJob, NotifyJob, AbortJob,
                        JobGoto, JobEnd
    <3> QED
      BY <1>7, <3>1, <3>2, <3>3
  <2>3. ~(job'[j].at = "write" /\ job'[j].op \in {"active", "rejected"})
    BY <1>1, <2>2 DEF JobIdle, Job
  <2> QED
    BY <1>2, <2>1, <2>3 DEF Vetting
<1>8. UNCHANGED <<job, partner>> => VetFresh' /\ UNCHANGED partner
  BY DEF VetFresh, Vetting
<1>9. CASE FulfilmentNext
  <2>1. ASSUME NEW o \in Orders, CreateOrder(o) PROVE UNCHANGED <<job, partner>>
    BY <2>1 DEF CreateOrder, fulfilmentVars
  <2> QED
    BY <1>3, <1>4, <1>5, <1>6, <1>7, <1>8, <1>9, <2>1 DEF FulfilmentNext, FulfilmentWork, JobStep
<1>10. CASE ~FulfilmentNext
  <2>1. SweepsNext => UNCHANGED <<job, partner>>
    BY DEF SweepsNext, SweepsWork, SweepStep, BeginSweep, CancelUnpaid, AutoClose, AuditSweep,
           NotifySweep, AbortSweep, fulfilmentVars
  <2>2. UNCHANGED <<job, partner>>
    BY <1>10, <2>1 DEF Next, PaymentsFrame, DeskFrame, ClockFrame, vars, fulfilmentVars
  <2> QED
    BY <1>8, <2>2
<1> QED
  BY <1>9, <1>10

(* A partner that was approved or rejected stays so, as the comment in     *)
(* partners.service.ts:123-125 says, as long as no two decisions on him    *)
(* overlap; the code reads and writes the row in two awaits.               *)
THEOREM DecisionFinal == Spec /\ []OneVetting => DecisionIsFinal
<1>1. Init => VetFresh
  BY DEF Init, FulfilmentInit, JobIdle, VetFresh, Vetting
<1>2. TypeInv /\ OneVetting /\ VetFresh /\ [Next]_vars
        => /\ VetFresh'
           /\ [\A p \in Partners : partner[p] \in {"active", "rejected"}
                                     => partner'[p] = partner[p]]_partner
  BY VetStep
<1> QED
  BY <1>1, <1>2, WellFormed, PTL DEF Spec, DecisionIsFinal
=============================================================================
