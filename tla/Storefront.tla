----------------------------- MODULE Storefront -----------------------------
(***************************************************************************)
(* Ordering on the web site: the wizard of siparis/page.tsx, one visit for *)
(* each tab, with the detour to /giris and the one to iyzico's page, and   *)
(* what its requests do at the API (GraveLocationsService.findOrCreate,    *)
(* OrdersService.create, PaymentsService.createIntent).                    *)
(***************************************************************************)
EXTENDS Naturals, Sequences

CONSTANTS
  Visits,
  Plots,       \* ada and parsel in a cemetery
  Plans,       \* what is ordered, the flowers included: it fixes the price
  Default,     \* the plan the page opens with
  MaxOrders,   \* no more than these orders and rows of graves are created
  None

ASSUME DefaultAssumption == Default \in Plans
ASSUME NoneAssumption == None \notin Plots \cup {"help"} /\ "help" \notin Plots
ASSUME MaxOrdersAssumption == MaxOrders \in Nat

VARIABLES
  page,      \* [Visits -> the page and its React state]
  draft,     \* [Visits -> sessionStorage]
  wish,      \* [Visits -> what the visitor entered last], a history variable
  request,   \* [Visits -> handleComplete, and the API at work for it]
  graves,    \* [Plots -> how many rows of grave_locations]
  orders     \* the rows of orders

vars == <<page, draft, wish, request, graves, orders>>

(* location is None until the fields of the step are complete; "help" when *)
(* the visitor does not know the plot.                                     *)
Form == [location : Plots \cup {"help", None}, plan : Plans, deceased : BOOLEAN]

OrderIds == 1 .. MaxOrders

Page ==
  [ at     : {"wizard", "giris", "iyzico"},
    step   : 0 .. 4,
    form   : Form,
    buyer  : BOOLEAN,                   \* the fields of step 3, never saved
    order  : OrderIds \cup {None},      \* createdOrderId
    result : {"none", "basarili", "hata"},   \* ?odeme=
    user   : BOOLEAN ]

Request ==
  [ at    : {"idle", "find", "insert", "count", "create", "created", "intent"},
    order : OrderIds \cup {None},       \* the row created or to be paid for
    number : 0 .. MaxOrders,            \* counted by an attempt that creates a row
    form : Form, wish : Form ]          \* the page's and the wish when it began

Order ==
  [ number : 1 .. MaxOrders, by : Visits, location : Plots \cup {"help"}, plan : Plans,
    status : {"draft", "pending_payment", "confirmed"} ]

TypeOK ==
  /\ page \in [Visits -> Page]
  /\ draft \in [Visits -> Form \cup {None}]
  /\ wish \in [Visits -> Form]
  /\ request \in [Visits -> Request]
  /\ graves \in [Plots -> 0 .. MaxOrders]
  /\ orders \in Seq(Order) /\ Len(orders) <= MaxOrders

EmptyForm == [location |-> None, plan |-> Default, deceased |-> FALSE]

FreshPage ==
  [ at |-> "wizard", step |-> 0, form |-> EmptyForm, buyer |-> FALSE, order |-> None,
    result |-> "none", user |-> FALSE ]

NoRequest ==
  [at |-> "idle", order |-> None, number |-> 0, form |-> EmptyForm, wish |-> EmptyForm]

Init ==
  /\ page \in [Visits -> {FreshPage, [FreshPage EXCEPT !.user = TRUE]}]
  /\ draft = [v \in Visits |-> None]
  /\ wish = [v \in Visits |-> EmptyForm]
  /\ request = [v \in Visits |-> NoRequest]
  /\ graves = [p \in Plots |-> 0] /\ orders = <<>>

validate(v, step) ==
  CASE step = 0 -> page[v].form.location # None
    [] step = 2 -> page[v].form.deceased
    [] step = 3 -> page[v].buyer
    [] OTHER    -> TRUE

At(v, step) == page[v].at = "wizard" /\ page[v].step = step

(* The button that leads to the payment is disabled while submitting, the  *)
(* one that leads back is not.                                             *)
MaySubmit(v) == At(v, 3) /\ request[v].at = "idle" /\ validate(v, 3)

Ask(v, at) == request' = [request EXCEPT ![v].at = at]
EndRequest(v) == request' = [request EXCEPT ![v] = NoRequest]

-----------------------------------------------------------------------------
(* The steps of the wizard *)

Enter(v, form) ==
  /\ page' = [page EXCEPT ![v].form = form]
  /\ wish' = [wish EXCEPT ![v] = form]
  /\ UNCHANGED <<draft, request, graves, orders>>

Locate(v) ==
  /\ At(v, 0)
  /\ \E l \in Plots \cup {"help"} : Enter(v, [page[v].form EXCEPT !.location = l])

ChoosePlan(v) ==
  /\ At(v, 1)
  /\ \E p \in Plans : Enter(v, [page[v].form EXCEPT !.plan = p])

NameDeceased(v) ==
  /\ At(v, 2)
  /\ Enter(v, [page[v].form EXCEPT !.deceased = TRUE])

FillBuyer(v) ==
  /\ At(v, 3)
  /\ page' = [page EXCEPT ![v].buyer = TRUE]
  /\ UNCHANGED <<draft, wish, request, graves, orders>>

(* Step 3 is left by handleComplete.                                       *)
goNext(v) ==
  /\ \E step \in 0 .. 2 :
       /\ At(v, step) /\ validate(v, step)
       /\ page' = [page EXCEPT ![v].step = step + 1]
  /\ UNCHANGED <<draft, wish, request, graves, orders>>

goBack(v) ==
  /\ \E step \in 1 .. 3 : At(v, step) /\ page' = [page EXCEPT ![v].step = step - 1]
  /\ UNCHANGED <<draft, wish, request, graves, orders>>

-----------------------------------------------------------------------------
(* The page is loaded *)

(* Its state is new but for a draft, which is read once and was saved at   *)
(* step 3; a result in the address shows the confirmation.                 *)
Mount(v, result, user) ==
  /\ page' = [page EXCEPT ![v] =
       [FreshPage EXCEPT
          !.form = IF draft[v] = None THEN EmptyForm ELSE draft[v],
          !.step = IF result # "none" THEN 4 ELSE IF draft[v] = None THEN 0 ELSE 3,
          !.result = result, !.user = user]]
  /\ draft' = [draft EXCEPT ![v] = None]
  /\ wish' = [wish EXCEPT ![v] = IF draft[v] = None THEN EmptyForm ELSE @]
  /\ request' = [request EXCEPT ![v] = NoRequest]

(* By the visitor, also instead of signing in or of paying.  AuthProvider  *)
(* refreshes the session, or there is none any more.                       *)
Load(v) ==
  /\ \E user \in BOOLEAN : Mount(v, "none", user)
  /\ UNCHANGED <<graves, orders>>

(* giris/page.tsx, login or register, and back to next=/siparis.           *)
SignIn(v) ==
  /\ page[v].at = "giris"
  /\ Mount(v, "none", TRUE)
  /\ UNCHANGED <<graves, orders>>

(* A refresh of the access token is refused while the page is open.        *)
SessionEnds(v) ==
  /\ page[v].at = "wizard" /\ page[v].user
  /\ page' = [page EXCEPT ![v].user = FALSE]
  /\ UNCHANGED <<draft, wish, request, graves, orders>>

(* "Tekrar dene" leads to the same route without the result: the component *)
(* is not mounted again and keeps its state.                               *)
TryAgain(v) ==
  /\ At(v, 4) /\ page[v].result = "hata"
  /\ page' = [page EXCEPT ![v].result = "none"]
  /\ UNCHANGED <<draft, wish, request, graves, orders>>

-----------------------------------------------------------------------------
(* handleComplete *)

(* Mutant of saveDraft: the plan is forgotten.                             *)
saveDraftWithoutPlan(v) ==
  draft' = [draft EXCEPT ![v] = [page[v].form EXCEPT !.plan = Default]]

saveDraft(v) == draft' = [draft EXCEPT ![v] = page[v].form]

SendToSignIn(v) ==
  /\ MaySubmit(v) /\ ~page[v].user
  /\ saveDraft(v)
  /\ page' = [page EXCEPT ![v].at = "giris"]
  /\ UNCHANGED <<wish, request, graves, orders>>

(* Mutant of Submit: a retry creates the order again.                      *)
SubmitAnew(v) ==
  /\ MaySubmit(v) /\ page[v].user
  /\ request' = [request EXCEPT ![v] =
       [NoRequest EXCEPT !.at = "find", !.form = page[v].form, !.wish = wish[v]]]
  /\ UNCHANGED <<page, draft, wish, graves, orders>>

(* A retry on the same page goes straight to the payment, whatever the     *)
(* form holds by now.                                                      *)
Submit(v) ==
  /\ MaySubmit(v) /\ page[v].user
  /\ request' = [request EXCEPT ![v] =
       [NoRequest EXCEPT !.at = IF page[v].order = None THEN "find" ELSE "intent",
                         !.order = page[v].order, !.form = page[v].form, !.wish = wish[v]]]
  /\ UNCHANGED <<page, draft, wish, graves, orders>>

(* findOrCreate looks for the plot, if it is known, ...                    *)
FindGrave(v) ==
  /\ request[v].at = "find"
  /\ LET l == request[v].form.location
     IN  Ask(v, IF l \in Plots /\ graves[l] > 0 THEN "count" ELSE "insert")
  /\ UNCHANGED <<page, draft, wish, graves, orders>>

(* ... and creates it.  A row without a plot is never looked for.          *)
InsertGrave(v) ==
  /\ request[v].at = "insert"
  /\ LET l == request[v].form.location
     IN  /\ l \in Plots => graves[l] < MaxOrders
         /\ graves' = [p \in Plots |-> IF p = l THEN graves[p] + 1 ELSE graves[p]]
  /\ Ask(v, "count")
  /\ UNCHANGED <<page, draft, wish, orders>>

(* generateOrderNumber counts ...                                          *)
CountOrders(v) ==
  /\ request[v].at = "count" /\ Len(orders) < MaxOrders
  /\ request' = [request EXCEPT ![v].at = "create", ![v].number = Len(orders) + 1]
  /\ UNCHANGED <<page, draft, wish, graves, orders>>

Taken(n) == \E i \in DOMAIN orders : orders[i].number = n

NewOrder(v) ==
  [ number |-> request[v].number, by |-> v, location |-> request[v].form.location,
    plan |-> request[v].form.plan, status |-> "draft" ]

(* Mutant of CreateOrder: no index on order_number.                        *)
CreateOrderUnchecked(v) ==
  /\ request[v].at = "create" /\ Len(orders) < MaxOrders
  /\ orders' = Append(orders, NewOrder(v))
  /\ request' = [request EXCEPT ![v].at = "created", ![v].order = Len(orders) + 1]
  /\ UNCHANGED <<page, draft, wish, graves>>

(* ... and the index on order_number refuses the number another creation   *)
(* has taken meanwhile.                                                    *)
CreateOrder(v) ==
  /\ request[v].at = "create" /\ Len(orders) < MaxOrders
  /\ IF Taken(request[v].number)
       THEN EndRequest(v) /\ UNCHANGED orders
       ELSE /\ orders' = Append(orders, NewOrder(v))
            /\ request' = [request EXCEPT ![v].at = "created", ![v].order = Len(orders) + 1]
  /\ UNCHANGED <<page, draft, wish, graves>>

LearnOrder(v) ==
  /\ request[v].at = "created"
  /\ page' = [page EXCEPT ![v].order = request[v].order]
  /\ Ask(v, "intent")
  /\ UNCHANGED <<draft, wish, graves, orders>>

(* createIntent, and off to iyzico's page.                                 *)
StartPayment(v) ==
  /\ request[v].at = "intent"
  /\ orders[request[v].order].status \in {"draft", "pending_payment"}
  /\ orders' = [orders EXCEPT ![request[v].order].status = "pending_payment"]
  /\ page' = [page EXCEPT ![v].at = "iyzico"]
  /\ draft' = [draft EXCEPT ![v] = None]
  /\ EndRequest(v)
  /\ UNCHANGED <<wish, graves>>

(* Any request may be refused, iyzico may have no page to offer, an answer *)
(* may be lost: the message is shown and the button comes back.            *)
Fail(v) ==
  /\ request[v].at # "idle"
  /\ EndRequest(v)
  /\ UNCHANGED <<page, draft, wish, graves, orders>>

(* iyzico takes the payment, or not, and the callback sends the browser    *)
(* back; the session is restored from the cookie, or is over.              *)
Pay(v) ==
  /\ page[v].at = "iyzico"
  /\ orders' = [orders EXCEPT ![page[v].order].status = "confirmed"]
  /\ \E user \in BOOLEAN : Mount(v, "basarili", user)
  /\ UNCHANGED graves

Decline(v) ==
  /\ page[v].at = "iyzico"
  /\ \E user \in BOOLEAN : Mount(v, "hata", user)
  /\ UNCHANGED <<graves, orders>>

-----------------------------------------------------------------------------
(* A visit that goes straight through ...                                  *)
Forward(v) ==
  \/ Locate(v) \/ ChoosePlan(v) \/ NameDeceased(v) \/ FillBuyer(v) \/ goNext(v)
  \/ SendToSignIn(v) \/ SignIn(v) \/ Submit(v)
  \/ FindGrave(v) \/ InsertGrave(v) \/ CountOrders(v) \/ CreateOrder(v)
  \/ LearnOrder(v) \/ StartPayment(v) \/ Pay(v)

(* ... and all that may turn it.                                           *)
Turn(v) ==
  \/ goBack(v) \/ Load(v) \/ SessionEnds(v) \/ TryAgain(v) \/ Fail(v) \/ Decline(v)

Next == \E v \in Visits : Forward(v) \/ Turn(v)

Spec == Init /\ [][Next]_vars

-----------------------------------------------------------------------------
(* An order is the one that a form describes; a visit leaves for iyzico.   *)
Matches(order, form) == order.location = form.location /\ order.plan = form.plan

PaymentBegins(v) == page[v].at = "wizard" /\ page'[v].at = "iyzico"

(* What an attempt orders, and what it then asks to be paid for, is what   *)
(* the visitor had entered when the button was pressed, through every      *)
(* detour to the sign-in page, every failure, every return and whatever is *)
(* entered meanwhile (page.tsx:107-131,149-166,265-301).  An attempt that  *)
(* finds the order of an earlier one is PaidAsEntered's.                   *)
OrderedAsEntered ==
  [][/\ \A v \in Visits, i \in OrderIds :
          i \in DOMAIN orders' \ DOMAIN orders /\ orders'[i].by = v
            => Matches(orders'[i], request[v].wish)
     /\ \A v \in Visits :
          PaymentBegins(v) /\ request[v].number > 0
            => Matches(orders[request[v].order], request[v].wish)]_vars

(* A page that knows of its order never goes over to another one, however  *)
(* often the payment is tried again (page.tsx:262-301).                    *)
RetryKeepsOrder ==
  [][\A v \in Visits : page[v].order # None => page'[v].order \in {page[v].order, None}]_vars

(* No two orders have the same number, though two creations may count the  *)
(* same rows (orders.service.ts:688-698).                                  *)
NumbersDiffer ==
  \A i, j \in DOMAIN orders : orders[i].number = orders[j].number => i = j

-----------------------------------------------------------------------------
(* What a comment says, and the code does not do *)

(* "Retry (e.g. iyzico's call failed and the user pressed again): an order *)
(* already created is not created again, or a second draft for the same    *)
(* place would be opened" (page.tsx:267-269): an order that is reused is    *)
(* the one that the form describes when the button is pressed.             *)
PaidAsEntered ==
  [][\A v \in Visits :
       PaymentBegins(v) => Matches(orders[request[v].order], request[v].wish)]_vars

(* "The confirmation step is built from the query parameter, it does not   *)
(* rely on the wizard's state" (page.tsx:96-101): the page says that the   *)
(* payment was received only when the visitor has paid.                    *)
ConfirmationIsTrue ==
  \A v \in Visits :
    page[v].at = "wizard" /\ page[v].step = 4 /\ page[v].result # "hata"
      => \E i \in DOMAIN orders : orders[i].by = v /\ orders[i].status = "confirmed"
=============================================================================
