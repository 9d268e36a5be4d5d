-------------------------- MODULE StorefrontProofs --------------------------
(***************************************************************************)
(* Proofs about Storefront, for any number of visits, plots, plans and     *)
(* orders.                                                                 *)
(***************************************************************************)
EXTENDS Storefront, TLAPS

Creating == {"find", "insert", "count", "create", "created"}

(* What a visit shows, has saved and asks for is what was entered, past    *)
(* the first step with a location, and a request that creates an order     *)
(* comes from a page that knows of none.                                   *)
GoodPage(p, w) == p.form = w /\ (p.step \in 1 .. 3 => w.location # None)
GoodDraft(d, p, w) == d # None => d = w /\ p.at = "giris" /\ p.step = 3
GoodRequest(r, p) ==
  r.at \in Creating =>
    /\ r.form = r.wish /\ p.order = None
    /\ r.at # "created" => r.form.location # None
    /\ r.at = "create" => r.number > 0

Agrees(v) ==
  /\ GoodPage(page[v], wish[v])
  /\ GoodDraft(draft[v], page[v], wish[v])
  /\ GoodRequest(request[v], page[v])

VisitInv == TypeOK /\ \A v \in Visits : Agrees(v)

-----------------------------------------------------------------------------
LEMMA EmptyFormTyped == EmptyForm \in Form
BY DefaultAssumption DEF EmptyForm, Form

LEMMA FreshPageTyped == FreshPage \in Page
BY EmptyFormTyped DEF FreshPage, Page

LEMMA NoRequestTyped == NoRequest \in Request
BY EmptyFormTyped, MaxOrdersAssumption DEF NoRequest, Request

(* Whoever leaves the tables alone and the other visits too has only its   *)
(* own visit to account for.                                               *)
LEMMA OneVisit ==
  ASSUME VisitInv, NEW v \in Visits, NEW p \in Page, NEW d \in Form \cup {None},
         NEW w \in Form, NEW r \in Request,
         page' = [page EXCEPT ![v] = p], draft' = [draft EXCEPT ![v] = d],
         wish' = [wish EXCEPT ![v] = w], request' = [request EXCEPT ![v] = r],
         GoodPage(p, w), GoodDraft(d, p, w), GoodRequest(r, p)
  PROVE  /\ page' \in [Visits -> Page] /\ draft' \in [Visits -> Form \cup {None}]
         /\ wish' \in [Visits -> Form] /\ request' \in [Visits -> Request]
         /\ \A u \in Visits : Agrees(u)'
<1>1. page' \in [Visits -> Page] /\ draft' \in [Visits -> Form \cup {None}]
      /\ wish' \in [Visits -> Form] /\ request' \in [Visits -> Request]
  BY DEF VisitInv, TypeOK
<1>2. ASSUME NEW u \in Visits, u # v PROVE Agrees(u)'
  BY <1>2 DEF VisitInv, TypeOK, Agrees
<1>3. Agrees(v)'
  BY DEF VisitInv, TypeOK, Agrees
<1> QED BY <1>1, <1>2, <1>3

(* A page that is loaded agrees with what was saved, or begins anew.       *)
LEMMA MountKeeps ==
  ASSUME VisitInv, NEW v \in Visits, NEW result \in {"none", "basarili", "hata"},
         NEW user \in BOOLEAN, Mount(v, result, user)
  PROVE  /\ page' \in [Visits -> Page] /\ draft' \in [Visits -> Form \cup {None}]
         /\ wish' \in [Visits -> Form] /\ request' \in [Visits -> Request]
         /\ \A u \in Visits : Agrees(u)'
<1> DEFINE f == IF draft[v] = None THEN EmptyForm ELSE draft[v]
           s == IF result # "none" THEN 4 ELSE IF draft[v] = None THEN 0 ELSE 3
           p == [FreshPage EXCEPT !.form = f, !.step = s, !.result = result, !.user = user]
           w == IF draft[v] = None THEN EmptyForm ELSE wish[v]
<1>1. f \in Form /\ w \in Form /\ f = w
  <2>1. CASE draft[v] = None
    BY <2>1, EmptyFormTyped
  <2>2. CASE draft[v] # None
    <3>1. draft[v] \in Form \cup {None} /\ draft[v] = wish[v]
      BY <2>2 DEF VisitInv, TypeOK, Agrees, GoodDraft
    <3> QED BY <2>2, <3>1
  <2> QED BY <2>1, <2>2
<1>2. p \in Page
  <2>1. s \in 0 .. 4
    OBVIOUS
  <2> HIDE DEF f, s
  <2> QED BY <1>1, <2>1, FreshPageTyped DEF FreshPage, Page
<1>3. GoodPage(p, w) /\ GoodDraft(None, p, w)
  <2>1. p.form = f /\ (p.step \in 1 .. 3 => draft[v] # None)
    BY DEF FreshPage
  <2>2. draft[v] # None => f = wish[v] /\ wish[v].location # None
    BY DEF VisitInv, Agrees, GoodPage, GoodDraft
  <2> HIDE DEF f, p
  <2> QED BY <1>1, <2>1, <2>2 DEF GoodPage, GoodDraft
<1>4. page' = [page EXCEPT ![v] = p] /\ draft' = [draft EXCEPT ![v] = None]
      /\ wish' = [wish EXCEPT ![v] = w] /\ request' = [request EXCEPT ![v] = NoRequest]
  BY DEF Mount
<1>5. GoodRequest(NoRequest, p)
  BY DEF NoRequest, Creating, GoodRequest
<1> HIDE DEF f, s, p, w
<1> QED BY <1>1, <1>2, <1>3, <1>4, <1>5, NoRequestTyped, OneVisit

(* A row of orders that is paid, or to be paid, is otherwise the same.     *)
LEMMA StatusWritten ==
  ASSUME orders \in Seq(Order), NEW i, NEW s \in {"pending_payment", "confirmed"},
         orders' = [orders EXCEPT ![i].status = s]
  PROVE  /\ orders' \in Seq(Order) /\ Len(orders') = Len(orders)
         /\ DOMAIN orders' = DOMAIN orders
         /\ \A j \in DOMAIN orders : /\ orders'[j].number = orders[j].number
                                    /\ orders'[j].location = orders[j].location
                                    /\ orders'[j].plan = orders[j].plan
<1>1. \A j \in 1 .. Len(orders) : orders[j] \in Order
  OBVIOUS
<1>2. DOMAIN orders' = 1 .. Len(orders)
  OBVIOUS
<1>3. ASSUME NEW j \in 1 .. Len(orders)
      PROVE  /\ orders'[j] \in Order /\ orders'[j].number = orders[j].number
             /\ orders'[j].location = orders[j].location /\ orders'[j].plan = orders[j].plan
  <2>1. orders'[j] = IF j = i THEN [orders[j] EXCEPT !.status = s] ELSE orders[j]
    OBVIOUS
  <2>2. orders[j] \in Order
    BY <1>1
  <2>3. CASE j = i
    <3> DEFINE o == [orders[j] EXCEPT !.status = s]
    <3>1. o \in Order /\ o.number = orders[j].number /\ o.location = orders[j].location
          /\ o.plan = orders[j].plan
      BY <2>2 DEF Order
    <3>2. orders'[j] = o
      BY <2>1, <2>3
    <3> HIDE DEF o
    <3> QED BY <3>1, <3>2
  <2>4. CASE j # i
    BY <2>1, <2>2, <2>4
  <2> QED BY <2>3, <2>4
<1>4. orders' \in [1 .. Len(orders) -> Order]
  BY <1>2, <1>3
<1>5. orders' \in Seq(Order) /\ Len(orders') = Len(orders)
  BY <1>4
<1> QED BY <1>2, <1>3, <1>5

(* A row that is new comes last.                                           *)
LEMMA OrderAppended ==
  ASSUME orders \in Seq(Order), NEW o \in Order, orders' = Append(orders, o)
  PROVE  /\ orders' \in Seq(Order) /\ Len(orders') = Len(orders) + 1
         /\ DOMAIN orders = 1 .. Len(orders) /\ DOMAIN orders' = 1 .. Len(orders) + 1
         /\ \A j \in DOMAIN orders : orders'[j] = orders[j]
         /\ orders'[Len(orders) + 1] = o
OBVIOUS

(* The row that a request creates.                                         *)
LEMMA NewOrderTyped ==
  ASSUME VisitInv, NEW v \in Visits, request[v].at = "create"
  PROVE  NewOrder(v) \in Order
BY MaxOrdersAssumption
DEF VisitInv, TypeOK, Agrees, GoodRequest, Creating, NewOrder, Order, Request, Form

-----------------------------------------------------------------------------
(* A step of one visit that keeps the types keeps the other visits.        *)
LEMMA OthersAgree ==
  ASSUME VisitInv, NEW v \in Visits, TypeOK', Agrees(v)',
         \A u \in Visits \ {v} :
           /\ page'[u] = page[u] /\ draft'[u] = draft[u]
           /\ wish'[u] = wish[u] /\ request'[u] = request[u]
  PROVE  VisitInv'
BY DEF VisitInv, Agrees

LEMMA EnterKeeps ==
  ASSUME VisitInv, NEW v \in Visits, NEW form \in Form, form.location # None,
         page[v].at = "wizard", Enter(v, form)
  PROVE  VisitInv'
<1>1. TypeOK'
  BY ZenonT(60) DEF VisitInv, TypeOK, Enter, Page
<1>2. page'[v].form = form /\ wish'[v] = form /\ page'[v].at = page[v].at
      /\ page'[v].order = page[v].order /\ draft' = draft /\ request' = request
  BY DEF VisitInv, TypeOK, Enter, Page
<1>3. Agrees(v)'
  BY <1>2 DEF VisitInv, Agrees, GoodPage, GoodDraft, GoodRequest
<1> QED BY <1>1, <1>3, OthersAgree DEF VisitInv, TypeOK, Enter

(* A step that changes a page and nothing else.                            *)
LEMMA PageKeeps ==
  ASSUME VisitInv, NEW v \in Visits, NEW p \in Page,
         page' = [page EXCEPT ![v] = p], UNCHANGED <<draft, wish, request, graves, orders>>,
         p.form = page[v].form, p.order = page[v].order, p.at = page[v].at,
         p.at # "giris", p.step \in 1 .. 3 => p.form.location # None
  PROVE  VisitInv'
<1>1. TypeOK'
  BY DEF VisitInv, TypeOK
<1>2. page'[v] = p /\ \A u \in Visits \ {v} : page'[u] = page[u]
  BY DEF VisitInv, TypeOK
<1>3. Agrees(v)'
  BY <1>2 DEF VisitInv, Agrees, GoodPage, GoodDraft, GoodRequest
<1> QED BY <1>1, <1>2, <1>3, OthersAgree

(* The steps of the wizard.                                                *)
LEMMA WizardKeeps ==
  ASSUME VisitInv, NEW v \in Visits,
         Locate(v) \/ ChoosePlan(v) \/ NameDeceased(v) \/ FillBuyer(v) \/ goNext(v)
           \/ goBack(v) \/ SessionEnds(v) \/ TryAgain(v)
  PROVE  VisitInv'
<1>1. page[v] \in Page /\ page[v].form \in Form
  BY DEF VisitInv, TypeOK, Page
<1>2. CASE Locate(v)
  <2>1. PICK l \in Plots \cup {"help"} : Enter(v, [page[v].form EXCEPT !.location = l])
    BY <1>2 DEF Locate
  <2>2. [page[v].form EXCEPT !.location = l] \in Form
        /\ [page[v].form EXCEPT !.location = l].location # None
    BY <1>1, NoneAssumption DEF Form
  <2> QED BY <1>2, <2>1, <2>2, EnterKeeps DEF Locate, At
<1>3. CASE ChoosePlan(v)
  <2>1. PICK p \in Plans : Enter(v, [page[v].form EXCEPT !.plan = p])
    BY <1>3 DEF ChoosePlan
  <2>2. page[v].form.location # None
    BY <1>3 DEF VisitInv, Agrees, GoodPage, ChoosePlan, At
  <2>3. [page[v].form EXCEPT !.plan = p] \in Form
        /\ [page[v].form EXCEPT !.plan = p].location # None
    BY <1>1, <2>2 DEF Form
  <2> QED BY <1>3, <2>1, <2>3, EnterKeeps DEF ChoosePlan, At
<1>4. CASE NameDeceased(v)
  <2>1. page[v].form.location # None
    BY <1>4 DEF VisitInv, Agrees, GoodPage, NameDeceased, At
  <2>2. [page[v].form EXCEPT !.deceased = TRUE] \in Form
        /\ [page[v].form EXCEPT !.deceased = TRUE].location # None
    BY <1>1, <2>1 DEF Form
  <2> QED BY <1>4, <2>2, EnterKeeps DEF NameDeceased, At
<1>5. CASE FillBuyer(v)
  <2>1. [page[v] EXCEPT !.buyer = TRUE] \in Page
    BY <1>1 DEF Page
  <2>2. page[v].step = 3 /\ page[v].form.location # None /\ page[v].at = "wizard"
    BY <1>5 DEF VisitInv, Agrees, GoodPage, FillBuyer, At
  <2> QED BY <1>1, <1>5, <2>1, <2>2, PageKeeps DEF FillBuyer, Page
<1>6. CASE goNext(v)
  <2>1. PICK step \in 0 .. 2 :
          /\ page[v].at = "wizard" /\ page[v].step = step /\ validate(v, step)
          /\ page' = [page EXCEPT ![v].step = step + 1]
    BY <1>6 DEF goNext, At
  <2>2. page[v].form.location # None
    BY <2>1 DEF validate, VisitInv, Agrees, GoodPage
  <2>3. [page[v] EXCEPT !.step = step + 1] \in Page
    BY <1>1 DEF Page
  <2> QED BY <1>1, <1>6, <2>1, <2>2, <2>3, PageKeeps DEF goNext, Page
<1>7. CASE goBack(v)
  <2>1. PICK step \in 1 .. 3 :
          /\ page[v].at = "wizard" /\ page[v].step = step
          /\ page' = [page EXCEPT ![v].step = step - 1]
    BY <1>7 DEF goBack, At
  <2>2. page[v].form.location # None
    BY <2>1 DEF VisitInv, Agrees, GoodPage
  <2>3. [page[v] EXCEPT !.step = step - 1] \in Page
    BY <1>1 DEF Page
  <2> QED BY <1>1, <1>7, <2>1, <2>2, <2>3, PageKeeps DEF goBack, Page
<1>8. CASE SessionEnds(v)
  <2>1. [page[v] EXCEPT !.user = FALSE] \in Page
    BY <1>1 DEF Page
  <2>2. page[v].step \in 1 .. 3 => page[v].form.location # None
    BY DEF VisitInv, Agrees, GoodPage
  <2> QED BY <1>1, <1>8, <2>1, <2>2, PageKeeps DEF SessionEnds, Page
<1>9. CASE TryAgain(v)
  <2> DEFINE p == [page[v] EXCEPT !.result = "none"]
  <2>1. page[v].at = "wizard" /\ page[v].step = 4
    BY <1>9 DEF TryAgain, At
  <2>2. p \in Page /\ p.form = page[v].form /\ p.order = page[v].order /\ p.at = "wizard"
        /\ p.step \notin 1 .. 3
    BY <1>1, <2>1 DEF Page
  <2>3. page' = [page EXCEPT ![v] = p] /\ UNCHANGED <<draft, wish, request, graves, orders>>
    BY <1>9 DEF TryAgain
  <2> HIDE DEF p
  <2> QED BY <2>1, <2>2, <2>3, PageKeeps
<1> QED BY <1>2, <1>3, <1>4, <1>5, <1>6, <1>7, <1>8, <1>9

(* The page is loaded, by whoever loads it.                                *)
LEMMA LoadKeeps ==
  ASSUME VisitInv, NEW v \in Visits, Load(v) \/ SignIn(v) \/ Pay(v) \/ Decline(v)
  PROVE  VisitInv'
<1>1. PICK result \in {"none", "basarili", "hata"}, user \in BOOLEAN : Mount(v, result, user)
  BY DEF Load, SignIn, Pay, Decline
<1>2. /\ page' \in [Visits -> Page] /\ draft' \in [Visits -> Form \cup {None}]
      /\ wish' \in [Visits -> Form] /\ request' \in [Visits -> Request]
      /\ \A u \in Visits : Agrees(u)'
  BY <1>1, MountKeeps
<1>3. graves' = graves
  BY DEF Load, SignIn, Pay, Decline
<1>4. orders' \in Seq(Order) /\ Len(orders') <= MaxOrders
  <2>1. CASE orders' = orders
    BY <2>1 DEF VisitInv, TypeOK
  <2>2. CASE Pay(v)
    BY <2>2, StatusWritten DEF Pay, VisitInv, TypeOK
  <2> QED BY <2>1, <2>2 DEF Load, SignIn, Decline
<1> QED BY <1>2, <1>3, <1>4 DEF VisitInv, TypeOK

(* A step of a request that leaves the page alone.                         *)
LEMMA RequestKeeps ==
  ASSUME VisitInv, NEW v \in Visits, NEW r \in Request, request' = [request EXCEPT ![v] = r],
         GoodRequest(r, page[v]), UNCHANGED <<page, draft, wish>>,
         graves' \in [Plots -> 0 .. MaxOrders],
         orders' \in Seq(Order) /\ Len(orders') <= MaxOrders
  PROVE  VisitInv'
<1>1. TypeOK'
  BY DEF VisitInv, TypeOK
<1>2. request'[v] = r /\ \A u \in Visits \ {v} : request'[u] = request[u]
  BY DEF VisitInv, TypeOK
<1>3. Agrees(v)'
  BY <1>2 DEF VisitInv, Agrees
<1> QED BY <1>1, <1>2, <1>3, OthersAgree

LEMMA AskKeeps ==
  ASSUME VisitInv, NEW v \in Visits, NEW at \in Creating \ {"create"}, Ask(v, at),
         request[v].at \in Creating \ {"created"}, UNCHANGED <<page, draft, wish>>,
         graves' \in [Plots -> 0 .. MaxOrders], orders' = orders
  PROVE  VisitInv'
<1> DEFINE r == [request[v] EXCEPT !.at = at]
<1>1. request[v] \in Request
  BY DEF VisitInv, TypeOK
<1>2. r \in Request /\ r.at = at /\ r.form = request[v].form /\ r.wish = request[v].wish
  BY <1>1 DEF Request, Creating
<1>3. request' = [request EXCEPT ![v] = r]
  BY DEF Ask
<1>4. GoodRequest(r, page[v])
  BY <1>2 DEF VisitInv, Agrees, GoodRequest
<1> HIDE DEF r
<1> QED BY <1>2, <1>3, <1>4, RequestKeeps DEF VisitInv, TypeOK

LEMMA EndKeeps ==
  ASSUME VisitInv, NEW v \in Visits, EndRequest(v), UNCHANGED <<page, draft, wish, graves, orders>>
  PROVE  VisitInv'
<1>1. GoodRequest(NoRequest, page[v])
  BY DEF GoodRequest, NoRequest, Creating
<1> QED BY <1>1, NoRequestTyped, RequestKeeps DEF EndRequest, VisitInv, TypeOK

(* handleComplete, at the page and at the API.                             *)
LEMMA CompleteKeeps ==
  ASSUME VisitInv, NEW v \in Visits,
         SendToSignIn(v) \/ Submit(v) \/ FindGrave(v) \/ InsertGrave(v) \/ CountOrders(v)
           \/ CreateOrder(v) \/ LearnOrder(v) \/ StartPayment(v) \/ Fail(v)
  PROVE  VisitInv'
<1>1. /\ page[v] \in Page /\ page[v].form \in Form /\ request[v] \in Request
      /\ wish[v] \in Form /\ page[v].form = wish[v]
      /\ orders \in Seq(Order) /\ Len(orders) <= MaxOrders /\ graves \in [Plots -> 0 .. MaxOrders]
  BY DEF VisitInv, TypeOK, Page, Agrees, GoodPage
<1>2. CASE SendToSignIn(v)
  <2> DEFINE p == [page[v] EXCEPT !.at = "giris"]
  <2>1. p \in Page /\ p.at = "giris" /\ p.form = wish[v] /\ p.step = page[v].step
        /\ p.order = page[v].order
    BY <1>1 DEF Page
  <2>2. page' = [page EXCEPT ![v] = p] /\ draft' = [draft EXCEPT ![v] = wish[v]]
    BY <1>1, <1>2 DEF SendToSignIn, saveDraft
  <2>3. page[v].step = 3
    BY <1>2 DEF SendToSignIn, MaySubmit, At
  <2> HIDE DEF p
  <2>4. TypeOK'
    BY <1>1, <1>2, <2>1, <2>2 DEF VisitInv, TypeOK, SendToSignIn
  <2>5. page'[v] = p /\ draft'[v] = wish[v] /\ UNCHANGED <<wish, request>>
    BY <1>2, <2>2 DEF VisitInv, TypeOK, SendToSignIn
  <2>6. Agrees(v)'
    BY <2>1, <2>3, <2>5 DEF VisitInv, Agrees, GoodPage, GoodDraft, GoodRequest
  <2> QED BY <1>2, <2>2, <2>4, <2>6, OthersAgree DEF SendToSignIn, VisitInv, TypeOK
<1>3. CASE Submit(v)
  <2> DEFINE r == [NoRequest EXCEPT !.at = IF page[v].order = None THEN "find" ELSE "intent",
                                    !.order = page[v].order, !.form = page[v].form,
                                    !.wish = wish[v]]
  <2>1. r \in Request
    BY <1>1, NoRequestTyped DEF NoRequest, Request, Page
  <2>2. GoodRequest(r, page[v])
    <3>1. wish[v].location # None
      BY <1>3 DEF VisitInv, Agrees, GoodPage, Submit, MaySubmit, At
    <3> QED BY <1>1, <3>1 DEF GoodRequest, NoRequest, Creating
  <2>3. request' = [request EXCEPT ![v] = r]
    BY <1>3 DEF Submit
  <2> HIDE DEF r
  <2> QED BY <1>1, <1>3, <2>1, <2>2, <2>3, RequestKeeps DEF Submit
<1>4. CASE FindGrave(v)
  BY <1>1, <1>4, AskKeeps DEF FindGrave, Creating
<1>5. CASE InsertGrave(v)
  <2>1. graves' \in [Plots -> 0 .. MaxOrders]
    BY <1>1, <1>5, MaxOrdersAssumption DEF InsertGrave
  <2> QED BY <1>5, <2>1, AskKeeps DEF InsertGrave, Creating
<1>6. CASE CountOrders(v)
  <2> DEFINE r == [request[v] EXCEPT !.at = "create", !.number = Len(orders) + 1]
  <2>1. Len(orders) + 1 \in 0 .. MaxOrders /\ Len(orders) + 1 > 0
    BY <1>1, <1>6, MaxOrdersAssumption DEF CountOrders
  <2>2. r \in Request /\ r.at = "create" /\ r.number > 0 /\ r.form = request[v].form
        /\ r.wish = request[v].wish
    BY <1>1, <2>1 DEF Request
  <2>3. GoodRequest(r, page[v])
    BY <1>6, <2>2 DEF VisitInv, Agrees, GoodRequest, CountOrders, Creating
  <2>4. request' = [request EXCEPT ![v] = r]
    BY <1>6 DEF CountOrders
  <2> HIDE DEF r
  <2> QED BY <1>1, <1>6, <2>2, <2>3, <2>4, RequestKeeps DEF CountOrders
<1>7. CASE CreateOrder(v)
  <2>1. CASE Taken(request[v].number)
    BY <1>7, <2>1, EndKeeps DEF CreateOrder
  <2>2. CASE ~Taken(request[v].number)
    <3> DEFINE r == [request[v] EXCEPT !.at = "created", !.order = Len(orders) + 1]
    <3>1. NewOrder(v) \in Order
      BY <1>7, NewOrderTyped DEF CreateOrder
    <3>2. orders' \in Seq(Order) /\ Len(orders') <= MaxOrders
      BY <1>1, <1>7, <2>2, <3>1, OrderAppended, MaxOrdersAssumption DEF CreateOrder
    <3>3. Len(orders) + 1 \in OrderIds
      BY <1>1, <1>7, MaxOrdersAssumption DEF CreateOrder, OrderIds
    <3>4. r \in Request
      BY <1>1, <3>3 DEF Request
    <3>5. GoodRequest(r, page[v])
      <4>1. r.form = request[v].form /\ r.wish = request[v].wish /\ r.at = "created"
        BY <1>1 DEF Request
      <4> HIDE DEF r
      <4> QED BY <1>7, <4>1 DEF VisitInv, Agrees, GoodRequest, CreateOrder, Creating
    <3>6. request' = [request EXCEPT ![v] = r] /\ UNCHANGED <<page, draft, wish, graves>>
      BY <1>7, <2>2 DEF CreateOrder
    <3> HIDE DEF r
    <3> QED BY <1>1, <3>2, <3>4, <3>5, <3>6, RequestKeeps
  <2> QED BY <2>1, <2>2
<1>8. CASE LearnOrder(v)
  <2> DEFINE p == [page[v] EXCEPT !.order = request[v].order]
             r == [request[v] EXCEPT !.at = "intent"]
  <2>1. p \in Page /\ p.form = page[v].form /\ p.step = page[v].step /\ p.at = page[v].at
    BY <1>1 DEF Page, Request
  <2>2. r \in Request /\ r.at = "intent"
    BY <1>1 DEF Request
  <2>3. page' = [page EXCEPT ![v] = p] /\ request' = [request EXCEPT ![v] = r]
        /\ UNCHANGED <<draft, wish, graves, orders>>
    BY <1>8 DEF LearnOrder, Ask
  <2> HIDE DEF p, r
  <2>4. TypeOK'
    BY <2>1, <2>2, <2>3 DEF VisitInv, TypeOK
  <2>5. page'[v] = p /\ request'[v] = r
    BY <2>3 DEF VisitInv, TypeOK
  <2>6. Agrees(v)'
    BY <2>1, <2>2, <2>3, <2>5
    DEF VisitInv, Agrees, GoodPage, GoodDraft, GoodRequest, Creating
  <2> QED BY <2>3, <2>4, <2>6, OthersAgree DEF VisitInv, TypeOK
<1>9. CASE StartPayment(v)
  <2> DEFINE p == [page[v] EXCEPT !.at = "iyzico"]
  <2>1. p \in Page /\ p.form = page[v].form /\ p.step = page[v].step
    BY <1>1 DEF Page
  <2>2. page' = [page EXCEPT ![v] = p] /\ request' = [request EXCEPT ![v] = NoRequest]
        /\ draft' = [draft EXCEPT ![v] = None] /\ UNCHANGED <<wish, graves>>
    BY <1>9 DEF StartPayment, EndRequest
  <2> HIDE DEF p
  <2>3. orders' \in Seq(Order) /\ Len(orders') <= MaxOrders
    BY <1>1, <1>9, StatusWritten DEF StartPayment
  <2>4. TypeOK'
    BY <2>1, <2>2, <2>3, NoRequestTyped DEF VisitInv, TypeOK
  <2>5. page'[v] = p /\ request'[v] = NoRequest /\ draft'[v] = None
    BY <2>2 DEF VisitInv, TypeOK
  <2>6. Agrees(v)'
    BY <2>1, <2>2, <2>5
    DEF VisitInv, Agrees, GoodPage, GoodDraft, GoodRequest, Creating, NoRequest
  <2> QED BY <2>2, <2>4, <2>6, OthersAgree DEF VisitInv, TypeOK
<1>10. CASE Fail(v)
  BY <1>10, EndKeeps DEF Fail
<1> QED BY <1>2, <1>3, <1>4, <1>5, <1>6, <1>7, <1>8, <1>9, <1>10

-----------------------------------------------------------------------------
LEMMA VisitInductive == Spec => []VisitInv
<1>1. Init => VisitInv
  <2> SUFFICES ASSUME Init PROVE VisitInv
    OBVIOUS
  <2>1. ASSUME NEW p \in {FreshPage, [FreshPage EXCEPT !.user = TRUE]}
        PROVE  p \in Page /\ p.form = EmptyForm /\ p.step = 0
    <3>1. FreshPage.form = EmptyForm /\ FreshPage.step = 0
      BY DEF FreshPage
    <3> QED BY <3>1, FreshPageTyped DEF Page
  <2>2. page \in [Visits -> {FreshPage, [FreshPage EXCEPT !.user = TRUE]}]
    BY DEF Init
  <2>3. page \in [Visits -> Page]
    BY <2>1, <2>2
  <2>4. TypeOK
    BY <2>3, EmptyFormTyped, NoRequestTyped, MaxOrdersAssumption DEF Init, TypeOK
  <2>5. ASSUME NEW v \in Visits PROVE Agrees(v)
    <3>1. page[v].form = EmptyForm /\ page[v].step = 0
      BY <2>1, <2>2
    <3>2. wish[v] = EmptyForm /\ draft[v] = None /\ request[v].at = "idle"
      BY DEF Init, NoRequest
    <3> QED BY <3>1, <3>2 DEF Agrees, GoodPage, GoodDraft, GoodRequest, Creating
  <2> QED BY <2>4, <2>5 DEF VisitInv
<1>2. VisitInv /\ [Next]_vars => VisitInv'
  <2> SUFFICES ASSUME VisitInv, [Next]_vars PROVE VisitInv'
    OBVIOUS
  <2>1. CASE UNCHANGED vars
    BY <2>1 DEF vars, VisitInv, TypeOK, Agrees
  <2>2. ASSUME NEW v \in Visits, Forward(v) \/ Turn(v) PROVE VisitInv'
    BY <2>2, WizardKeeps, LoadKeeps, CompleteKeeps DEF Forward, Turn
  <2> QED BY <2>1, <2>2 DEF Next
<1> QED BY <1>1, <1>2, PTL DEF Spec

(* Pages, drafts, requests and rows keep their types, whatever a visit     *)
(* turns to (page.tsx:34-63).                                              *)
THEOREM VisitsTyped == Spec => []TypeOK
<1>1. VisitInv => TypeOK
  BY DEF VisitInv
<1> QED BY <1>1, VisitInductive, PTL

(* Rows of orders are never removed, and keep what was ordered.            *)
LEMMA OrdersStay ==
  ASSUME VisitInv, [Next]_vars
  PROVE  /\ DOMAIN orders \subseteq DOMAIN orders'
         /\ \A i \in DOMAIN orders : /\ orders'[i].location = orders[i].location
                                    /\ orders'[i].plan = orders[i].plan
         /\ \A i \in DOMAIN orders' \ DOMAIN orders :
              \E v \in Visits : /\ CreateOrder(v) /\ ~Taken(request[v].number)
                               /\ i = Len(orders) + 1 /\ orders'[i] = NewOrder(v)
<1>1. orders \in Seq(Order)
  BY DEF VisitInv, TypeOK
<1>2. CASE orders' = orders
  BY <1>2
<1>3. ASSUME NEW v \in Visits, StartPayment(v) \/ Pay(v)
      PROVE  /\ DOMAIN orders = DOMAIN orders'
             /\ \A i \in DOMAIN orders : /\ orders'[i].location = orders[i].location
                                        /\ orders'[i].plan = orders[i].plan
  BY <1>1, <1>3, StatusWritten DEF StartPayment, Pay
<1>4. ASSUME NEW v \in Visits, CreateOrder(v), ~Taken(request[v].number)
      PROVE  /\ DOMAIN orders' = DOMAIN orders \cup {Len(orders) + 1}
             /\ \A i \in DOMAIN orders : orders'[i] = orders[i]
             /\ orders'[Len(orders) + 1] = NewOrder(v)
  <2>1. NewOrder(v) \in Order /\ orders' = Append(orders, NewOrder(v))
    BY <1>4, NewOrderTyped DEF CreateOrder
  <2> QED BY <1>1, <2>1, OrderAppended
<1> QED
  BY <1>2, <1>3, <1>4
  DEF Next, vars, Forward, Turn, Locate, ChoosePlan, NameDeceased, Enter, FillBuyer, goNext,
      SendToSignIn, SignIn, Submit, FindGrave, InsertGrave, CountOrders, CreateOrder,
      LearnOrder, goBack, Load, SessionEnds, TryAgain, Fail, Decline

(* What a visit asks for, in terms of what it asked for a step before.     *)
LEMMA RequestStep ==
  ASSUME VisitInv, [Next]_vars, NEW v \in Visits
  PROVE  \/ request'[v] = request[v] /\ (page'[v].order = None \/ page'[v].order = page[v].order)
         \/ request'[v].at = "idle" /\ (page'[v].order = None \/ page'[v].order = page[v].order)
         \/ /\ Submit(v) /\ UNCHANGED <<page, wish>>
            /\ request'[v].wish = wish[v] /\ request'[v].order = page[v].order
            /\ request'[v].number = 0
            /\ request'[v].at = IF page[v].order = None THEN "find" ELSE "intent"
         \/ /\ request[v].at \in {"find", "insert", "count"}
            /\ request'[v].at \in {"insert", "count", "create"}
            /\ request'[v].wish = request[v].wish /\ UNCHANGED <<page, wish>>
         \/ /\ CreateOrder(v) /\ ~Taken(request[v].number) /\ UNCHANGED <<page, wish>>
            /\ request'[v].at = "created" /\ request'[v].order = Len(orders) + 1
            /\ request'[v].wish = request[v].wish
         \/ /\ request[v].at = "created" /\ request'[v].at = "intent"
            /\ request'[v].order = request[v].order /\ request'[v].wish = request[v].wish
            /\ request'[v].number = request[v].number
            /\ page'[v].order = request[v].order /\ UNCHANGED wish
<1> USE DEF VisitInv, TypeOK
<1>1. request[v] \in Request /\ page[v] \in Page
  OBVIOUS
<1>2. NoRequest.at = "idle" /\ FreshPage.order = None
  BY DEF NoRequest, FreshPage
<1>3. CASE UNCHANGED vars
  BY <1>3 DEF vars
<1>4. ASSUME NEW u \in Visits, u # v, Forward(u) \/ Turn(u)
      PROVE  page'[v] = page[v] /\ request'[v] = request[v]
  BY <1>4
  DEF Forward, Turn, Locate, ChoosePlan, NameDeceased, Enter, FillBuyer, goNext, SendToSignIn,
      SignIn, Submit, FindGrave, InsertGrave, CountOrders, CreateOrder, LearnOrder, StartPayment,
      Pay, goBack, Load, SessionEnds, TryAgain, Fail, Decline, Mount, Ask, EndRequest
<1>5. CASE SignIn(v) \/ Load(v) \/ Pay(v) \/ Decline(v)
  <2>1. PICK result \in {"none", "basarili", "hata"}, user \in BOOLEAN : Mount(v, result, user)
    BY <1>5 DEF Load, SignIn, Pay, Decline
  <2>2. request'[v] = NoRequest
    BY <2>1 DEF Mount
  <2>3. page'[v].order = None
    BY <2>1 DEF Mount, FreshPage
  <2> QED BY <1>2, <2>2, <2>3
<1>6. CASE Locate(v) \/ ChoosePlan(v) \/ NameDeceased(v) \/ FillBuyer(v) \/ goNext(v)
             \/ goBack(v) \/ SessionEnds(v) \/ TryAgain(v) \/ SendToSignIn(v)
  <2>1. request' = request
    BY <1>6 DEF Locate, ChoosePlan, NameDeceased, Enter, FillBuyer, goNext, goBack, SessionEnds,
                TryAgain, SendToSignIn
  <2>2. page'[v].order = page[v].order
    BY <1>1, <1>6 DEF Locate, ChoosePlan, NameDeceased, Enter, FillBuyer, goNext, goBack,
                      SessionEnds, TryAgain, SendToSignIn, Page
  <2> QED BY <2>1, <2>2
<1>7. CASE Submit(v)
  BY <1>7 DEF Submit, NoRequest
<1>8. CASE FindGrave(v) \/ InsertGrave(v)
  BY <1>1, <1>8 DEF FindGrave, InsertGrave, Ask, Request
<1>9. CASE CountOrders(v)
  BY <1>1, <1>9 DEF CountOrders, Request
<1>10. CASE CreateOrder(v)
  BY <1>1, <1>2, <1>10 DEF CreateOrder, EndRequest, Request
<1>11. CASE LearnOrder(v)
  BY <1>1, <1>11 DEF LearnOrder, Ask, Request, Page
<1>12. CASE StartPayment(v) \/ Fail(v)
  BY <1>1, <1>2, <1>12 DEF StartPayment, Fail, EndRequest, Page
<1> QED
  BY <1>3, <1>4, <1>5, <1>6, <1>7, <1>8, <1>9, <1>10, <1>11, <1>12 DEF Next, Forward, Turn

(* Whoever leaves for iyzico has asked for the payment of an order.        *)
LEMMA PaymentAsked ==
  ASSUME VisitInv, [Next]_vars, NEW v \in Visits, PaymentBegins(v)
  PROVE  request[v].at = "intent"
<1>1. page \in [Visits -> Page] /\ page[v].at = "wizard" /\ page'[v].at = "iyzico"
  BY DEF VisitInv, TypeOK, PaymentBegins
<1>2. PICK u \in Visits : Forward(u) \/ Turn(u)
  BY <1>1 DEF Next, vars
<1>3. ASSUME Load(u) \/ SignIn(u) \/ Pay(u) \/ Decline(u) PROVE FALSE
  <2>1. PICK result \in {"none", "basarili", "hata"}, user \in BOOLEAN : Mount(u, result, user)
    BY <1>3 DEF Load, SignIn, Pay, Decline
  <2>2. page'[u].at = "wizard" /\ \A x \in Visits \ {u} : page'[x] = page[x]
    BY <1>1, <2>1 DEF Mount, FreshPage
  <2> QED BY <1>1, <2>2
<1>4. ASSUME \/ Locate(u) \/ ChoosePlan(u) \/ NameDeceased(u) \/ FillBuyer(u) \/ goNext(u)
             \/ goBack(u) \/ SessionEnds(u) \/ TryAgain(u) \/ SendToSignIn(u) \/ LearnOrder(u)
      PROVE  FALSE
  BY <1>1, <1>4
  DEF Locate, ChoosePlan, NameDeceased, Enter, FillBuyer, goNext, goBack, SessionEnds, TryAgain,
      SendToSignIn, LearnOrder, Page
<1>5. ASSUME UNCHANGED page PROVE FALSE
  BY <1>1, <1>5
<1>6. StartPayment(u)
  BY <1>2, <1>3, <1>4, <1>5
  DEF Forward, Turn, Submit, FindGrave, InsertGrave, CountOrders, CreateOrder, Fail
<1>7. u = v
  BY <1>1, <1>6 DEF StartPayment
<1> QED BY <1>6, <1>7 DEF StartPayment

(* An attempt that created an order has it created as it was entered.      *)
CreatedAsEntered ==
  \A v \in Visits :
    request[v].at \in {"created", "intent"} /\ request[v].number > 0
      => /\ request[v].order \in DOMAIN orders
         /\ Matches(orders[request[v].order], request[v].wish)

(* What an attempt orders, and what it then asks to be paid for, is what   *)
(* the visitor had entered when the button was pressed, whatever is        *)
(* entered meanwhile (page.tsx:107-131,149-166,265-301).                   *)
THEOREM EnteredOrdered == Spec => OrderedAsEntered
<1> DEFINE A == /\ \A v \in Visits, i \in OrderIds :
                       i \in DOMAIN orders' \ DOMAIN orders /\ orders'[i].by = v
                         => Matches(orders'[i], request[v].wish)
                /\ \A v \in Visits :
                       PaymentBegins(v) /\ request[v].number > 0
                         => Matches(orders[request[v].order], request[v].wish)
<1>1. Init => CreatedAsEntered
  BY DEF Init, NoRequest, CreatedAsEntered
<1>2. ASSUME VisitInv, NEW v \in Visits, request[v].at = "create"
      PROVE  Matches(NewOrder(v), request[v].wish)
  BY <1>2 DEF VisitInv, Agrees, GoodRequest, Creating, NewOrder, Matches
<1>3. VisitInv /\ CreatedAsEntered /\ [Next]_vars => CreatedAsEntered'
  <2> SUFFICES ASSUME VisitInv, CreatedAsEntered, [Next]_vars, NEW v \in Visits,
                      request'[v].at \in {"created", "intent"}, request'[v].number > 0
               PROVE  /\ request'[v].order \in DOMAIN orders'
                      /\ Matches(orders'[request'[v].order], request'[v].wish)
    BY DEF CreatedAsEntered
  <2>1. CASE CreateOrder(v) /\ ~Taken(request[v].number) /\ request'[v].order = Len(orders) + 1
             /\ request'[v].wish = request[v].wish
    <3>1. orders \in Seq(Order) /\ NewOrder(v) \in Order /\ orders' = Append(orders, NewOrder(v))
      BY <2>1, NewOrderTyped DEF CreateOrder, VisitInv, TypeOK
    <3>2. Len(orders) + 1 \in DOMAIN orders' /\ orders'[Len(orders) + 1] = NewOrder(v)
      BY <3>1, OrderAppended
    <3> QED BY <1>2, <2>1, <3>2 DEF CreateOrder
  <2>2. CASE /\ request[v].at \in {"created", "intent"} /\ request'[v].order = request[v].order
             /\ request'[v].wish = request[v].wish /\ request'[v].number = request[v].number
    BY <2>2, OrdersStay DEF CreatedAsEntered, Matches
  <2> QED BY <2>1, <2>2, RequestStep
<1>4. VisitInv /\ CreatedAsEntered /\ [Next]_vars => A
  <2> SUFFICES ASSUME VisitInv, CreatedAsEntered, [Next]_vars PROVE A
    OBVIOUS
  <2>1. ASSUME NEW v \in Visits, NEW i \in DOMAIN orders' \ DOMAIN orders, orders'[i].by = v
        PROVE  Matches(orders'[i], request[v].wish)
    <3>1. PICK u \in Visits : CreateOrder(u) /\ orders'[i] = NewOrder(u)
      BY OrdersStay
    <3>2. u = v
      BY <2>1, <3>1 DEF NewOrder
    <3> QED BY <1>2, <3>1, <3>2 DEF CreateOrder
  <2>2. ASSUME NEW v \in Visits, PaymentBegins(v), request[v].number > 0
        PROVE  Matches(orders[request[v].order], request[v].wish)
    BY <2>2, PaymentAsked DEF CreatedAsEntered
  <2> QED BY <2>1, <2>2
<1> HIDE DEF A
<1>5. VisitInv /\ CreatedAsEntered /\ [Next]_vars => [A]_vars
  BY <1>4
<1>6. OrderedAsEntered <=> [][A]_vars
  BY DEF OrderedAsEntered, A
<1> QED BY <1>1, <1>3, <1>5, <1>6, VisitInductive, PTL DEF Spec

-----------------------------------------------------------------------------
(* While an order is being created, or the page knows of one, nothing is   *)
(* entered; a page that is loaded begins anew.                             *)
Kept(v) ==
  request[v].at # "idle" \/ page[v].order # None
    => \/ wish'[v] = wish[v]
       \/ request'[v].at = "idle" /\ page'[v].order = None

FormIsKept == [][\A v \in Visits : Kept(v)]_vars

(* The order that a page knows of, or asks to be paid for, is the one that *)
(* its form describes.                                                     *)
KnownAsEntered ==
  \A v \in Visits :
    /\ request[v].at # "idle" => request[v].wish = wish[v]
    /\ request[v].at \in {"created", "intent"}
         => request[v].order \in DOMAIN orders /\ Matches(orders[request[v].order], wish[v])
    /\ page[v].order # None
         => page[v].order \in DOMAIN orders /\ Matches(orders[page[v].order], wish[v])

(* An order that is reused is the one the form describes, unless the form  *)
(* was changed after the attempt that created the order had begun: nothing *)
(* else, no failure, reload, decline or other visit, makes them differ     *)
(* (page.tsx:267-301).                                                     *)
THEOREM KeptPaidAsEntered == Spec /\ FormIsKept => PaidAsEntered
<1> DEFINE K == \A v \in Visits : Kept(v)
           A == \A v \in Visits :
                  PaymentBegins(v) => Matches(orders[request[v].order], request[v].wish)
<1>1. Init => KnownAsEntered
  <2> SUFFICES ASSUME Init, NEW v \in Visits PROVE request[v].at = "idle" /\ page[v].order = None
    BY DEF KnownAsEntered
  <2>1. page[v] \in {FreshPage, [FreshPage EXCEPT !.user = TRUE]}
    BY DEF Init
  <2> QED BY <2>1 DEF Init, NoRequest, FreshPage
<1>2. VisitInv /\ KnownAsEntered /\ [Next]_vars /\ [K]_vars => KnownAsEntered'
  <2> SUFFICES ASSUME VisitInv, KnownAsEntered, [Next]_vars, [K]_vars, NEW v \in Visits
               PROVE  /\ request'[v].at # "idle" => request'[v].wish = wish'[v]
                      /\ request'[v].at \in {"created", "intent"}
                           => /\ request'[v].order \in DOMAIN orders'
                              /\ Matches(orders'[request'[v].order], wish'[v])
                      /\ page'[v].order # None
                           => /\ page'[v].order \in DOMAIN orders'
                              /\ Matches(orders'[page'[v].order], wish'[v])
    BY DEF KnownAsEntered
  <2>1. Kept(v)
    BY DEF Kept, vars
  <2> HIDE DEF K
  <2>2. \A w : \A i \in DOMAIN orders :
          Matches(orders[i], w) => i \in DOMAIN orders' /\ Matches(orders'[i], w)
    BY OrdersStay DEF Matches
  <2>3. /\ request[v].at # "idle" => request[v].wish = wish[v]
        /\ request[v].at \in {"created", "intent"}
             => request[v].order \in DOMAIN orders /\ Matches(orders[request[v].order], wish[v])
        /\ page[v].order # None
             => page[v].order \in DOMAIN orders /\ Matches(orders[page[v].order], wish[v])
    BY DEF KnownAsEntered
  <2>4. CASE request'[v] = request[v] /\ (page'[v].order = None \/ page'[v].order = page[v].order)
    BY <2>1, <2>2, <2>3, <2>4 DEF Kept
  <2>5. CASE request'[v].at = "idle" /\ (page'[v].order = None \/ page'[v].order = page[v].order)
    BY <2>1, <2>2, <2>3, <2>5 DEF Kept
  <2>6. CASE /\ UNCHANGED <<page, wish>>
             /\ request'[v].wish = wish[v] /\ request'[v].order = page[v].order
             /\ request'[v].at = IF page[v].order = None THEN "find" ELSE "intent"
    BY <2>2, <2>3, <2>6
  <2>7. CASE /\ request[v].at \in {"find", "insert", "count"}
             /\ request'[v].at \in {"insert", "count", "create"}
             /\ request'[v].wish = request[v].wish /\ UNCHANGED <<page, wish>>
    BY <2>2, <2>3, <2>7
  <2>8. CASE /\ CreateOrder(v) /\ ~Taken(request[v].number) /\ UNCHANGED <<page, wish>>
             /\ request'[v].at = "created" /\ request'[v].order = Len(orders) + 1
             /\ request'[v].wish = request[v].wish
    <3>1. orders \in Seq(Order) /\ NewOrder(v) \in Order /\ orders' = Append(orders, NewOrder(v))
      BY <2>8, NewOrderTyped DEF CreateOrder, VisitInv, TypeOK
    <3>2. Len(orders) + 1 \in DOMAIN orders' /\ orders'[Len(orders) + 1] = NewOrder(v)
      BY <3>1, OrderAppended
    <3>3. request[v].wish = wish[v] /\ Matches(NewOrder(v), request[v].wish) /\ page[v].order = None
      BY <2>3, <2>8
      DEF CreateOrder, VisitInv, Agrees, GoodRequest, Creating, NewOrder, Matches
    <3> QED BY <2>8, <3>2, <3>3
  <2>9. CASE /\ request[v].at = "created" /\ request'[v].at = "intent"
             /\ request'[v].order = request[v].order /\ request'[v].wish = request[v].wish
             /\ page'[v].order = request[v].order /\ UNCHANGED wish
    BY <2>2, <2>3, <2>9
  <2> QED BY <2>4, <2>5, <2>6, <2>7, <2>8, <2>9, RequestStep
<1>3. VisitInv /\ KnownAsEntered /\ [Next]_vars => A
  BY PaymentAsked DEF KnownAsEntered
<1> HIDE DEF A, K
<1>4. VisitInv /\ KnownAsEntered /\ [Next]_vars => [A]_vars
  BY <1>3
<1>5. PaidAsEntered <=> [][A]_vars
  BY DEF PaidAsEntered, A
<1>6. FormIsKept <=> [][K]_vars
  BY DEF FormIsKept, K
<1> QED BY <1>1, <1>2, <1>4, <1>5, <1>6, VisitInductive, PTL DEF Spec

(* A page that knows of its order never goes over to another one           *)
(* (page.tsx:262-301).                                                     *)
THEOREM OrderKept == Spec => RetryKeepsOrder
<1> DEFINE A == \A v \in Visits : page[v].order # None => page'[v].order \in {page[v].order, None}
<1>1. VisitInv /\ [Next]_vars => A
  <2> SUFFICES ASSUME VisitInv, [Next]_vars, NEW v \in Visits, page[v].order # None
               PROVE  page'[v].order \in {page[v].order, None}
    OBVIOUS
  <2>1. page \in [Visits -> Page]
    BY DEF VisitInv, TypeOK
  <2>2. CASE UNCHANGED vars
    BY <2>2 DEF vars
  <2>3. ASSUME NEW u \in Visits, Forward(u) \/ Turn(u)
        PROVE  page'[v].order \in {page[v].order, None}
    <3>1. CASE LearnOrder(u)
      <4>1. u # v
        BY <3>1 DEF LearnOrder, VisitInv, Agrees, GoodRequest, Creating
      <4> QED BY <2>1, <3>1, <4>1 DEF LearnOrder
    <3>2. CASE Load(u) \/ SignIn(u) \/ Pay(u) \/ Decline(u)
      <4>1. PICK result \in {"none", "basarili", "hata"}, user \in BOOLEAN : Mount(u, result, user)
        BY <3>2 DEF Load, SignIn, Pay, Decline
      <4> DEFINE p == [FreshPage EXCEPT
             !.form = IF draft[u] = None THEN EmptyForm ELSE draft[u],
             !.step = IF result # "none" THEN 4 ELSE IF draft[u] = None THEN 0 ELSE 3,
             !.result = result, !.user = user]
      <4>2. page' = [page EXCEPT ![u] = p]
        BY <4>1 DEF Mount
      <4>3. p.order = None
        BY DEF FreshPage
      <4> HIDE DEF p
      <4> QED BY <2>1, <4>2, <4>3
    <3>3. CASE Locate(u) \/ ChoosePlan(u) \/ NameDeceased(u)
      BY <2>1, <3>3 DEF Locate, ChoosePlan, NameDeceased, Enter, Page
    <3>4. CASE FillBuyer(u) \/ goNext(u) \/ goBack(u) \/ SessionEnds(u) \/ TryAgain(u)
      BY <2>1, <3>4 DEF FillBuyer, goNext, goBack, SessionEnds, TryAgain, Page
    <3>5. CASE SendToSignIn(u) \/ StartPayment(u)
      BY <2>1, <3>5 DEF SendToSignIn, StartPayment, Page
    <3>6. CASE page' = page
      BY <3>6
    <3> QED
      BY <2>3, <3>1, <3>2, <3>3, <3>4, <3>5, <3>6
      DEF Forward, Turn, Submit, FindGrave, InsertGrave, CountOrders, CreateOrder, Fail
  <2> QED BY <2>2, <2>3 DEF Next
<1> HIDE DEF A
<1>2. VisitInv /\ [Next]_vars => [A]_vars
  BY <1>1
<1>3. RetryKeepsOrder <=> [][A]_vars
  BY DEF RetryKeepsOrder, A
<1> QED BY <1>2, <1>3, VisitInductive, PTL DEF Spec

(* No two orders have the same number, however many creations counted the  *)
(* same rows (orders.service.ts:688-698).                                  *)
THEOREM NumbersUnique == Spec => []NumbersDiffer
<1>1. Init => NumbersDiffer
  BY DEF Init, NumbersDiffer
<1>2. VisitInv /\ NumbersDiffer /\ [Next]_vars => NumbersDiffer'
  <2> SUFFICES ASSUME VisitInv, NumbersDiffer, [Next]_vars PROVE NumbersDiffer'
    OBVIOUS
  <2>1. orders \in Seq(Order)
    BY DEF VisitInv, TypeOK
  <2>2. CASE orders' = orders
    BY <2>2 DEF NumbersDiffer
  <2>3. ASSUME NEW v \in Visits, StartPayment(v) \/ Pay(v) PROVE NumbersDiffer'
    BY <2>1, <2>3, StatusWritten DEF StartPayment, Pay, NumbersDiffer
  <2>4. ASSUME NEW v \in Visits, CreateOrder(v), ~Taken(request[v].number) PROVE NumbersDiffer'
    <3>1. NewOrder(v) \in Order /\ orders' = Append(orders, NewOrder(v))
      BY <2>4, NewOrderTyped DEF CreateOrder
    <3>2. \A i \in DOMAIN orders : orders[i].number # NewOrder(v).number
      BY <2>4 DEF Taken, NewOrder
    <3> QED BY <2>1, <3>1, <3>2, OrderAppended DEF NumbersDiffer
  <2> QED
    BY <2>2, <2>3, <2>4
    DEF Next, vars, Forward, Turn, Locate, ChoosePlan, NameDeceased, Enter, FillBuyer, goNext,
        SendToSignIn, SignIn, Submit, FindGrave, InsertGrave, CountOrders, CreateOrder,
        LearnOrder, goBack, Load, SessionEnds, TryAgain, Fail, Decline
<1> QED BY <1>1, <1>2, VisitInductive, PTL DEF Spec

-----------------------------------------------------------------------------
(* The plot that a request is about to create a row for.                   *)
Inserting(v, p) == request[v].at = "insert" /\ request[v].form.location = p

OneInsertion ==
  \A v, w \in Visits, p \in Plots : Inserting(v, p) /\ Inserting(w, p) => v = w

(* A plot has one row at most, and none while one is about to be created.  *)
GraveInv ==
  \A p \in Plots : /\ graves[p] <= 1
                   /\ (\E v \in Visits : Inserting(v, p)) => graves[p] = 0

LEMMA InsertingStep ==
  ASSUME VisitInv, NEW u \in Visits, Forward(u) \/ Turn(u),
         NEW v \in Visits, NEW p \in Plots, Inserting(v, p)'
  PROVE  \/ Inserting(v, p) /\ ~(v = u /\ InsertGrave(u))
         \/ v = u /\ FindGrave(u) /\ graves[p] = 0
<1> USE DEF VisitInv, TypeOK
<1>1. NoRequest.at = "idle"
  BY DEF NoRequest
<1>2. CASE v # u
  <2>1. request'[v] = request[v]
    BY <1>2
    DEF Forward, Turn, Locate, ChoosePlan, NameDeceased, Enter, FillBuyer, goNext, SendToSignIn,
        SignIn, Submit, FindGrave, InsertGrave, CountOrders, CreateOrder, LearnOrder, StartPayment,
        Pay, goBack, Load, SessionEnds, TryAgain, Fail, Decline, Mount, Ask, EndRequest
  <2> QED BY <1>2, <2>1 DEF Inserting
<1>3. CASE v = u /\ FindGrave(u)
  BY <1>3 DEF FindGrave, Ask, Inserting, Request
<1>4. CASE v = u /\ ~FindGrave(u)
  <2>1. CASE request' = request
    <3>1. ~InsertGrave(u)
      BY <2>1 DEF InsertGrave, Ask, Request
    <3> QED BY <1>4, <2>1, <3>1 DEF Inserting
  <2>2. CASE request' # request
    <3>1. CASE SignIn(u) \/ Load(u) \/ Pay(u) \/ Decline(u)
      BY <1>1, <1>4, <3>1 DEF SignIn, Load, Pay, Decline, Mount, Inserting
    <3>2. CASE Submit(u)
      BY <1>4, <3>2 DEF Submit, Inserting, NoRequest
    <3>3. CASE InsertGrave(u) \/ CountOrders(u) \/ LearnOrder(u)
      BY <1>4, <3>3 DEF InsertGrave, CountOrders, LearnOrder, Ask, Inserting, Request
    <3>4. CASE CreateOrder(u) \/ StartPayment(u) \/ Fail(u)
      BY <1>1, <1>4, <3>4
      DEF CreateOrder, StartPayment, Fail, EndRequest, Inserting, NoRequest, Request
    <3> QED
      BY <1>4, <2>2, <3>1, <3>2, <3>3, <3>4
      DEF Forward, Turn, Locate, ChoosePlan, NameDeceased, Enter, FillBuyer, goNext, SendToSignIn,
          goBack, SessionEnds, TryAgain
  <2> QED BY <2>1, <2>2
<1> QED BY <1>2, <1>3, <1>4

(* A plot gets a second row only when two requests are between the search  *)
(* and the creation at once: without that overlap the search is enough,    *)
(* for all its lack of a unique index (grave-locations.service.ts:29-60).  *)
THEOREM OneGravePerPlot == Spec /\ []OneInsertion => [](\A p \in Plots : graves[p] <= 1)
<1>1. Init => GraveInv
  <2>1. NoRequest.at = "idle"
    BY DEF NoRequest
  <2> QED BY <2>1 DEF Init, GraveInv, Inserting
<1>2. VisitInv /\ GraveInv /\ OneInsertion /\ [Next]_vars => GraveInv'
  <2> SUFFICES ASSUME VisitInv, GraveInv, OneInsertion, [Next]_vars PROVE GraveInv'
    OBVIOUS
  <2>1. CASE UNCHANGED vars
    BY <2>1 DEF vars, GraveInv, Inserting
  <2>2. ASSUME NEW u \in Visits, InsertGrave(u) PROVE GraveInv'
    <3>1. /\ request[u].at = "insert"
          /\ \A p \in Plots : graves'[p] = IF p = request[u].form.location THEN graves[p] + 1
                                                                            ELSE graves[p]
      BY <2>2 DEF InsertGrave
    <3>2. ASSUME NEW p \in Plots PROVE graves'[p] <= 1
      <4>1. CASE p = request[u].form.location
        BY <3>1, <4>1 DEF GraveInv, Inserting
      <4>2. CASE p # request[u].form.location
        BY <3>1, <4>2 DEF GraveInv
      <4> QED BY <4>1, <4>2
    <3>3. ASSUME NEW p \in Plots, NEW v \in Visits, Inserting(v, p)' PROVE graves'[p] = 0
      <4>1. ~FindGrave(u)
        BY <3>1 DEF FindGrave
      <4>2. Inserting(v, p) /\ v # u
        BY <2>2, <3>3, <4>1, InsertingStep DEF Forward
      <4>3. p # request[u].form.location
        BY <3>1, <4>2 DEF OneInsertion, Inserting
      <4> QED BY <3>1, <4>2, <4>3 DEF GraveInv
    <3> QED BY <3>2, <3>3 DEF GraveInv
  <2>3. ASSUME NEW u \in Visits, Forward(u) \/ Turn(u), UNCHANGED graves PROVE GraveInv'
    BY <2>3, InsertingStep DEF GraveInv
  <2>4. CASE \E u \in Visits : Forward(u) \/ Turn(u)
    <3>1. PICK u \in Visits : Forward(u) \/ Turn(u)
      BY <2>4
    <3>2. InsertGrave(u) \/ UNCHANGED graves
      BY <3>1
      DEF Forward, Turn, Locate, ChoosePlan, NameDeceased, Enter, FillBuyer, goNext, SendToSignIn,
          SignIn, Submit, FindGrave, CountOrders, CreateOrder, LearnOrder, StartPayment,
          Pay, goBack, Load, SessionEnds, TryAgain, Fail, Decline
    <3> QED BY <2>2, <2>3, <3>1, <3>2
  <2> QED BY <2>1, <2>4 DEF Next
<1>3. GraveInv => \A p \in Plots : graves[p] <= 1
  BY DEF GraveInv
<1> QED BY <1>1, <1>2, <1>3, VisitInductive, PTL DEF Spec
=============================================================================
