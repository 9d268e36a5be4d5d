# TLA+ models of the grave-care marketplace

This directory holds TLA+ models of the order marketplace in this repository (a NestJS API in
`apps/api`, an offline-first field app in `apps/field-pwa`, a web site in `apps/web` and an admin
panel in `apps/admin`), TLC configurations that model-check them on small instances, and proofs of their main properties that
the TLA+ proof system (TLAPS) checks. `PROJECT.json` lists the components, the runs, the source
lines behind every definition, the hazards and the findings.

1. [The system](#1-the-system)
2. [How the code is modelled](#2-how-the-code-is-modelled)
3. [The modules](#3-the-modules)
4. [The runs](#4-the-runs)
5. [Bounds](#5-bounds)
6. [Fairness](#6-fairness)
7. [The proofs](#7-the-proofs)
8. [What the code does otherwise than a comment or test says](#8-findings)
9. [What is not modelled](#9-what-is-not-modelled)
10. [Plan](#10-plan)

## 1. The system

A customer orders the care of a grave and pays through iyzico's hosted checkout form. Operations
staff assign a field partner, who starts the task, uploads photographs as evidence and completes
it. The customer approves, complains, or says nothing for 48 hours; then the order is closed and
the partner is owed a payout. A complaint may end in a refund. Timers cancel unpaid orders, close
unanswered ones and escalate unassigned ones.

Every service is stateless: it reads a row with one awaited call, decides, and writes with
another, by primary key and without a condition on what it read. There are few transactions and
no row locks. That makes every request a small concurrent process, and this is where the system
is hard.

| Component | State | Operations | Talks to |
|---|---|---|---|
| **Payments** `payments.service.ts` | `payments`, `processed_webhook_events` | createIntent, handleCallback, handleIyzicoWebhook, refund | iyzico; writes `orders`; audit, notifications; refund is called by Complaints |
| **Orders** `orders.service.ts` | `orders`, `evidence_photos`, `payouts` | create, assign, start, addEvidence, complete, approve, addComplaint | inserts `complaints`; reads partners; S3; audit, notifications |
| **Partners** `partners.service.ts` | `field_partners` | submitOnboarding, approve, reject | audit |
| **Complaints** `complaints.service.ts` | `complaints` | investigate, resolve, processRefund | writes `orders`; Payments.refund; audit, notifications |
| **SLA worker** `sla.service.ts` | none (BullMQ jobs, every 5 or 15 minutes) | cancelUnpaidOrders, autoCloseApprovedOrders, escalateOverdueAssignments, sendApprovalReminders | writes `orders`, `payouts`, notifications, audit |
| **Audit log, notification rows** | `audit_log`, `notifications` | record, notify | called by all of the above |
| **Notification delivery** `notifications.service.ts`, `notifications.processor.ts` | `notifications.status`; BullMQ jobs | notify, process, with up to five attempts | SMS and e-mail providers |
| **Idempotency interceptor** `idempotency.interceptor.ts` | one Redis value per key | intercept | wraps handlers; clients retry through it |
| **Field app queue** `field-pwa/src/lib/queue.ts` | IndexedDB `pendingActions`; a flag per context | enqueueAction, flushQueue, resetInterruptedSyncs | the API, from the page and from the service worker |
| **Field app screens** `field-pwa/src/pages` | route, step, preview, note; the service worker's cache | handleStart, handleConfirm, handleComplete, navigation | the queue |
| **Accounts and sessions** `auth.service.ts`, `users.service.ts`, `lib/api.ts` of each front end | `users`; Redis: current refresh-token id per user; a cookie per browser; a token per tab | register, login, refresh, createStaff, updateStaff | the guards of every route |
| **Ordering on the web** `web/src/app/siparis/page.tsx` | step and form; a draft in sessionStorage | the wizard, handleComplete | findOrCreate, create, createIntent; iyzico's page |
| **Admin panel** `admin/src/pages`, `ConfirmDialogProvider.tsx` | cached rows, forms, one dialog | assign, vet, investigate, resolve, permit, access | the API |
| **Geotag validation** `evidence-geo.util.ts` | none (pure) | resolveGeotagStatus, haversine | called by addEvidence |
| **Grave locations, cemeteries** | their tables | findOrCreate, update | web site, admin panel |
| **KPI, subscriptions, storage, error filter, encryption** | | queries, placeholders, I/O, pure functions | |

### What makes each component correct, and what is hard about it

* **Payments.** No order leaves the unpaid states unless iyzico charged the customer; a charge is
  confirmed in the end; an event is never marked processed before everything it stands for is
  done. Hard: two independent confirmation paths (a browser callback that anyone may repeat and a
  webhook that iyzico repeats), a handler that may die after any await, an order whose status
  changed since the form was opened.
* **Orders.** Work is done only on charged orders; an order is completed only with a wide shot and
  a detail shot; a partner earns only from such work and only once it was vetted. Hard: each check
  is made on a row that other requests, the sweeps and the payment callback overwrite afterwards.
* **Complaints.** A dispute rests on a complaint on that order; money is returned only over a
  complaint that the desk took up; an order reads "refunded" only if money was returned. Hard: a
  chain of five or six awaits over three services, any of which may be the last.
* **SLA worker.** Whatever waits does not wait forever. Hard: a sweep works through a list selected
  earlier without reading the rows again.
* **Interceptor and queue.** An action takes effect at most once however often it is sent, and what
  the partner sees as synced was done. Hard: lost answers, closed tabs, two contexts that flush the
  same queue, locks and results that expire.
* **Field app screens.** A completed order has its two photographs and the note; what the partner sees
  as sent was looked at. Hard: handlers that wait for a position or for IndexedDB while their button
  can be tapped again, a step that is forgotten when the screen is left, cached answers.
* **Notification delivery.** A row says sent only of what a provider took, and is never sent again. Hard:
  a worker that dies between the provider's answer and the row, attempts that fail after they succeeded.
* **Accounts and sessions.** One session for each user, in one browser; an account that is disabled or
  loses a role loses its access. Hard: refreshes that overlap, answers that are lost after the API has
  rotated the token, decisions that fall between the awaits of a refresh.
* **Ordering on the web.** What is ordered is what was entered; a retry does not order again. Hard: the
  form's state and the saved draft, on the detour to the sign-in page and back.
* **Admin panel.** Staff decide on what they saw. Hard: copies half a minute old, one dialog for all rows,
  forms that keep their own state.

## 2. How the code is modelled

* **A request is a task record in a slot** (`pay[r]`, `job[j]`, `desk[d]`, `call[c]`), with the
  stage it has reached and what it has read so far. One awaited call that reads or writes shared
  state is one action; code between two awaits belongs to the action before or after it. A Prisma
  transaction is one action. The slots bound how many requests are at work at a time; nothing in
  the models depends on which slot a request takes.
* **Updates are by key alone**, as `prisma.order.update({where: {id}})` is: `SetStatus` overwrites
  whatever the status has become. Guards are where the code reads, not where it writes.
* **A request may die between any two awaits** (`AbortPay`, `AbortJob`, `AbortDesk`, `AbortSweep`,
  `Die`): the process restarts, or a call throws. All that is left is what it had written. `Lose` is
  that of the panel's handlers. In `Outbox`, where what is thrown decides what happens to the job, every
  call to the database may throw: `ReadNotice`, `MarkSent` and `Catch` each have that outcome.
* **Time** is what the sweeps' queries compare: an order is "fresh", then "half_hour", "day" or
  "two_days" old in the statuses where a query asks for it; a write makes it fresh again
  (`@updatedAt`).
* **External systems** are modelled by what the code relies on: an iyzico form is opened, paid at
  most once, and remembered as paid even after a refund; events are delivered any number of times
  and in any order; the network loses requests and answers.
* **Data** is reduced to what the properties tell apart. There are no amounts, texts or
  coordinates; a photograph is its kind; audit and notification rows are sets of
  `<<action, entity>>` pairs, and the constant `Observed` names those an instance keeps.
* **A screen is a record** of its component's state; a click is an action, and so is every await of
  its handler that something else can overtake. What a page forgets when it is loaded again (React
  state, access tokens) and what it keeps (cookies, sessionStorage, IndexedDB) are separate variables.
* **Nearby layers are coarser** in the modules of the front ends: a handler of the API is one or two
  steps in `FieldScreens` and three in `Office` (what it reads, its row, its record), since `Marketplace` and
  `FieldQueue` have its other awaits.

## 3. The modules

| Module | What it models | State |
|---|---|---|
| `Tables` | the shared rows and the three ways to write them | `order`, `complaint`, `notices`, `audit` |
| `Checkout` | PaymentsService but refund; iyzico's forms and events | `payment`, `inserted`, `form`, `posted`, `processed`, `pay` |
| `Fulfilment` | OrdersService and PartnersService | `partner`, `photos`, `payouts`, `job` |
| `Disputes` | ComplaintsService and PaymentsService.refund | `desk` |
| `Sweeps` | SlaService, one job at a time | `sla` |
| `Marketplace` | all of the above, interleaved; the properties; fairness | |
| `Settlement` | abstract: charge, deliver, earn, return, none taken back | four sets of orders |
| `OrderLifecycle` | abstract: the status machine under serial handling | `status`, `charged` |
| `Idempotency` | IdempotencyInterceptor, the network, its clients | `entry`, `call`, `told` |
| `FieldQueue` | the offline queue over `Idempotency`, start/addEvidence/complete behind it; its properties | `row`, `stuck`, `flush`, `status`, `writes` |
| `Delivery` | abstract: what an offline queue promises | `queued`, `carriedOut`, `reported` |
| `Session` | AuthService, account decisions of UsersService, the guards, the token handling of the front ends | `account`, `stored`, `jar`, `token`, `req` |
| `Storefront` | the wizard of the web site, findOrCreate, OrdersService.create | `page`, `draft`, `wish`, `request`, `graves`, `orders` |
| `Office` | the admin panel's screens, forms and dialog over the rows they decide on | `status`, `reason`, `audited`, `cache`, `permit`, `notes`, `dialog`, `typed`, `sent` |
| `Outbox` | NotificationsService, NotificationsProcessor, BullMQ's retries | `notice`, `task`, `deliveries` |
| `FieldScreens` | one visit over `Outbox`: screens, their queue, what the API makes of it | `screen`, `cached`, `locating`, `putting`, `rows`, `flush`, `status`, `photos` |
| `MCMarketplace`, `MCFieldQueue`, `MCSession`, `MCStorefront`, `MCOffice`, `MCFieldScreens` | symmetry sets and bounds of the instances | |
| `MarketplaceInvariant` | the inductive invariant of `Marketplace`, and those that hold when requests on one row do not overlap | |
| `TypeProofs`, `SafetyProofs`, `SettlementProofs`, `FieldQueueProofs`, `FieldScreensProofs`, `StorefrontProofs`, `OfficeProofs`, `SessionProofs` | the proofs | |

`Checkout`, `Fulfilment`, `Disputes` and `Sweeps` all write the variables of `Tables`; each says in
its `...Work` what its requests do when none dies and in its `...Next` adds that one may.
`Marketplace` frames each with what it leaves alone. Operators are named after the method they
belong to or the stage of it:

* `createIntent` is `BeginIntent` (read the order, check it is unpaid), `InitializeForm` or
  `RefuseForm` (iyzico answers), `RecordIntent` (the transaction).
* `handleCallback` and `handleIyzicoWebhook` are `Callback` and `Webhook`; both continue with
  `finalizePayment`: `FinalizeRow`, `ConfirmOrder`, `AuditConfirm`, `NotifyConfirm`; the webhook
  ends with `MarkEvent`.
* `assign` is `BeginAssign`, `CheckPartner`, `Assign`, then `AuditJob` and `NotifyJob`, which all
  operations of `Fulfilment` share; `start`, `complete`, `approve`, `addComplaint` and the vetting
  of partners follow the same scheme. `addEvidence` is `BeginEvidence`, `StoreEvidence` and, if the
  geotag is doubtful, `ReportForReview`.
* `resolve` is `BeginResolve`, `Resolve`, `ReadDisputed`, `NotifyResolved`, `CloseDispute`;
  `processRefund` is `BeginRefund`, `FindPayment`, `ReturnMoney`, `MarkRefunded`, `ReadRefunded`,
  `RefundOrder`; both end with `AuditDesk`.
* A sweep is `BeginSweep` (its query) and then, order by order, `CancelUnpaid` or `AutoClose` with
  `AuditSweep`, or `NotifySweep`.
* `intercept` is `Look` (redis.get), `Claim` (set NX), the handler, then `Save` or `Release`.
* `flushQueue` is `BeginFlush` (list the rows), then per row `MarkSyncing`, `Upload` (the upload URL
  and the upload of a photograph), `SendAction` or `SendInVain`, `RecordAnswer`; `EndFlush`. The
  page comes back with `Boot` and `ResetStuck`, the two transactions of `resetInterruptedSyncs`.
* `refresh` is `SendRefresh` (the client), `ReadStored`, `ReadUser`, `Issue` or `Revoke`, and `Receive`,
  `ReceiveRefusal` or `Lose`; `login` and `register` begin with `ReadUser` and `CreateUser`.
* `handleComplete` of the web site is `SendToSignIn`, or `Submit` followed by `FindGrave`, `InsertGrave`,
  `CountOrders`, `CreateOrder`, `LearnOrder`, `StartPayment`, any of which may `Fail`; `Mount` is what a
  load of the page makes of the draft and of `?odeme=`.
* A decision in the panel is an `Ask...` (the click, with the variables of that moment), `TypeReason` and
  `Approve` or `Cancel` in the dialog, then `ReadRow`, `WriteRow` and `AuditRow` at the API. `Refetch` is
  the copy's renewal after 30 seconds, on focus or after a success.
* `handleStart` of the field app is `handleStart` and, when the position has come or eight seconds have
  passed, `Located`; every `enqueueAction` becomes a row by `Put`. `process` of a notification is
  `ReadNotice`, `Send`, `MarkSent` or `Catch`, and `Finish` or `Stall` say what BullMQ does then.

Definitions whose comment begins "Mutant of" are what a plausible bug would make of the definition
that follows; no run uses them as they stand.

### Abstract specifications

* `Settlement` is what the marketplace promises about money. `Marketplace` implements it under the
  mapping charged := orders with a paid form, delivered := `completedAt` is set, earned := a payout
  exists, returned := a returned form (`ImplementsSettlement`, checked by `system`, proved).
* `OrderLifecycle` is the status machine that the product specification gives (section 21.2,
  quoted in `orders.service.ts`), with two edges the code adds: a payment that comes after the order was
  cancelled revives it, and a refund is possible from any charged state. No edge leads back.
  `Marketplace` follows it as long as requests never handle the same order at once (`OneAtATime`) and no
  confirmation is written once the order has gone on (`NoLateConfirmation`): `FollowsLifecycle`, checked
  by `serial`, proved. Without either hypothesis it does not (section 8).
* `Delivery` is what an offline queue promises: nothing that is queued is dropped, an action is carried
  out only after those it needs, and reported only when it was carried out. `FieldQueue` implements it
  under the mapping queued := rows that exist, carriedOut := actions the API wrote, reported := rows that
  are synced; what an action needs is the start, and for the completion the photographs as well
  (`ImplementsDelivery`, checked by `queue`, proved). A row that goes back from synced, to be sent again,
  is Delivery's `TryAgain`.

## 4. The runs

`tlc -config <run's .cfg> <module>`; every run is exhaustive. States are distinct states.

| Run | States | Question | Properties |
|---|---|---|---|
| `system` | 1.7 M | All services, any two requests in flight at a time, up to the refund of a disputed order. | `DoneIsEvidenced`, `PayoutIsEarned`, `RefundedIsReturned`, `DisputedHasComplaint`, `ReturnedHasComplaint`, `ImplementsSettlement` |
| `serial` | 628 k | Two requests in flight that never handle the same order at once, crashes included: do orders follow the machine of the product specification, as long as no confirmation comes late? | `TypeOK`, `FollowsLifecycle` |
| `live` | 87 k | Callbacks and webhooks, repeated, reordered and crashed, beside orders and sweeps. Under fairness: is a payment confirmed, an unpaid order settled, an order awaiting approval ended? | `WorkIsPaid`, `ProcessedIsFinal`, `PaidIsConfirmed`, `UnpaidIsSettled`, `ApprovalEnds` |
| `queue` | 423 k | The page and the service worker send the same actions side by side; messages are lost, tabs closed, sessions expire, the API is restarted. Does an action take effect twice, or too early, or not at all? | `DoneOnce`, `SyncedIsDone`, `ImplementsDelivery` |
| `live_queue` | 409 k | The page and the service worker, with results that are not stored or expire: is what is shown as synced done, and does the queue drain, unless the worker is stopped at a row while the page stays open? | `TypeOK`, `SyncedIsDone`, `QueueDrains` |
| `accounts` | 957 k | Two browsers on one account refresh at once and lose answers while admins change its role and disable it. Under fairness: does the decision take hold, is one browser left? | `TypeOK`, `OneSession`, `NobodyNew`, `DecisionTakesHold`, `OneBrowser` |
| `storefront` | 1.7 M | A visitor who turns back, changes the form, reloads, signs in, is declined and tries again, beside one who goes straight through: is what is ordered what was entered? | `OrderedAsEntered`, `RetryKeepsOrder`, `NumbersDiffer` |
| `office` | 439 k | Two members of staff decide on the same rows from copies that are out of date, with the dialog and the forms of each; handlers throw at any await. | `DecidedAsSeen`, `ReasonIsHis`, `NotesFitOutcome` |
| `visit` | 647 k | A visit with taps that overlap, screens left, entered again and reloaded, requests lost or broken half way, up to the customer's notification and its attempts. | `TypeOK`, `CompletedIsReported`, `StartComesFirst`, `SyncedIsReviewed`, `SentIsSent`, `SentIsLast` |

Three more runs each find one property violated; section 8 says what they show: `double_payout`
(`OnePayoutPerOrder`), `confirmation` (`ConfirmationIsTrue`), `waiting` (`PhotosAreSent`). The remaining
cfg files are no runs of `PROJECT.json`: each reproduces, within a minute, a counterexample of the second
table of section 8.

What the passing runs show is not that statuses behave, which they do not when requests overlap,
but that facts do:

* `WorkIsPaid` holds although `createIntent` may set a confirmed order back to pending, the cancel
  sweep may cancel an order just paid, and a callback may confirm an order that was cancelled.
* `DoneIsEvidenced` and `PayoutIsEarned` hold although every status is written on a stale read:
  completion, photographs, charge and vetting are never taken back, and each write is preceded by a
  read of one of them or of a status that stands for them.
* `RefundedIsReturned` and `ReturnedHasComplaint` hold although a refund is five awaits long and any
  may be the last: the order's status is written behind iyzico's answer.
* `ProcessedIsFinal` and `PaidIsConfirmed` hold because an event is marked last and retried until
  then; the mutant that marks it first breaks both.
* `DoneOnce` rests on `SET NX`; `QueueDrains` on `resetInterruptedSyncs`, on the lock's expiry and on
  every loop ending. It says "synced, or behind a refused action": a refusal is final by design. With two
  contexts it needs one thing more, which the specification of `live_queue` takes as given
  (`FinishingSpec`): a worker that is stopped with its row syncing is not stopped while the page stays
  open, because only the start of the page resets that row (section 8).

* `OneBrowser` is about the end, not about every state: two browsers may hold valid access tokens for
  a quarter of an hour. It holds because the id in Redis is one: whoever comes second with an older one
  is refused and ends the session of both. Its safety half is `OneSession`: the id Redis has lies with
  one browser at every moment. `DecisionTakesHold` holds although a refresh that has read
  the row may issue a token after the decision: that token runs out, and the next refresh reads again. Its
  safety half is `NobodyNew`: nobody is vouched for anew against the row, only what was read before
  still comes through.
* `OrderedAsEntered` compares the order with what the visitor had entered last when the button was
  pressed (the history variable `wish`), not with the page's state, when the order is created and again when
  the attempt that created it asks for the payment; it holds although the way back is open while the
  requests run, because they read the values of the click. Of an attempt that finds the order of an
  earlier one `PaidAsEntered` says the same, and that fails (section 8).
* `DecidedAsSeen` holds with copies of any age because the guard asks for the one status in which the
  screen offers the decision. It speaks of requests on one row that come one after the other
  (`OneHandlerPerRow`); requests on different rows overlap freely, and each may fail at every await. It
  asks of every change of a row for a decision that somebody sent from a screen on which the row had
  the status it is changed from.
* `CompletedIsReported` holds although a double tap queues one photograph twice and skips the next step:
  the API looks for the kinds, not for their number, and the detail shot cannot be confirmed without
  the note. `StartComesFirst` holds because the screen believes the queue and not the button.
* `SentIsLast` is what remains of "once": a worker that dies between the provider's answer and the mark
  does send twice, and `SentIsSent` says the mark itself is true.

For every property of a passing run `PROJECT.json` names a mutant of a definition, a bug one could
have written there, under which the same run finds the property violated.

## 5. Bounds

Named constants; the cfg files give their values.

* `Orders`, `Partners`, `Complaints`: at most one each. Rows of two orders never meet in the code:
  every update is by the order's key, and only the sweeps handle several orders, one after the
  other. What the sweeps' shared list could do wrong (an order that changed since the query) is there
  with one order. With one partner, `PayoutIsEarned` cannot confuse two; the proofs cover any number.
* `Tokens` (checkout forms): one. A second form beside an abandoned one, and two payment requests at
  once, are covered by the proofs, which hold for any number (`WorkPaid`, `ProcessedFinal`).
* `PayRequests`, `OrderRequests`, `DeskRequests` are the slots and `MaxInFlight` (2) bounds how many are
  busy at once together with the sweep. Two requests suffice for a stale read. `serial` runs
  `SerialSpec`, which leaves out the steps by which a second request takes up an order that one is
  handling (`OneAtATime`) and those by which one is about to confirm an order that has gone on
  (`NoLateConfirmation`): not bounds of the instance but the hypotheses under which the property is
  meant, and the theorem has the same.
* `MaxPayouts` (1, in `double_payout` 2): `Approve` does not run for a partner who has as many payouts
  for the order. With 1, the overlap that `double_payout` shows is left out of the other runs, where
  the question is whether the first payout was earned; the theorems hold for every value.
* `OtherKinds` (photographs beside the two required ones) is empty: they take part in nothing.
* `Observed` names the audit and notification rows an instance keeps: those its properties speak of.
* `ConfirmPaths`: both in `live` and `serial`; the webhook alone stands for both in the others, since the
  two join in `finalizePayment`.
* `Keys` of the queue is a prefix `1..n` of the plan start, wide shot, detail shot, complete. The runs
  take the first two: one action without and one with an upload, the second refused unless the first
  was done. The proofs hold for every prefix; `ImplementsDelivery` was also run once with all four
  (page alone, one call, every mishap: 7.8 M states), which takes too long for a run of the project.
* `MaxWrites` = 2: an action's effects are counted up to two, enough to tell one from several.
* `Mishaps`: what may go wrong besides lost messages, closed pages and crashes before a write. "slow",
  a handler outlives the lock's minute; "unsaved", the process dies between the write and the cached
  result; "expire", a cached result reaches its day; "broken", what follows the write throws;
  "session", an answer of 401. `queue` has "session" only, because `DoneOnce` does not hold under the
  first four. `live_queue` has "unsaved", "expire" and one call, for its size with two contexts: `QueueDrains`
  was also run once each with "session", "unsaved" and "session" (631 k states), "slow" and "unsaved", "slow"
  and "broken", "unsaved" and "broken", "expire", "broken" and "session" (683 k), with two calls and no
  mishap, and with the page alone, two calls and all five. `SyncedIsDone` is proved under all five.
  `FinishingSpec` is not a bound but a hypothesis, like those of `serial`: it leaves out the step
  `LeavesRow`, by which the worker is stopped with its row syncing while the page is open.
* `Session`: two `Devices` with one context each (tabs of one browser share the cookie and race like
  browsers do; the theorems hold for any number), two roles, and six `Jtis`: an id is used again only
  when nothing holds it, and with two cookies, two requests and Redis five are held at most.
* `Storefront`: two `Visits`, one of them `Steady` (nothing turns it, and it orders the default plan
  for a plot), because only the counting of orders and of graves lets two visits meet; one plot, two
  plans, `MaxOrders` = 2 for both of them or for an order and its repetition.
* `Office`: two admins; two partners, so that a reason can reach the wrong one; one row of the other
  kinds. `topic`: in a behaviour they decide on one kind of rows, since other rows share only the
  dialog. `MaxSent` = 2 mutations in flight, `MaxPermits` = 1 of them about permits, which
  have no property in the run. The `VIEW` leaves out the audit records, which decide nothing and of
  which no property of the run speaks. `OneHandlerPerRow` is not a bound but the hypothesis of
  `DecidedAsSeen`, in the run as in the theorem: with two requests between the
  read and the record of one row it fails, as `Marketplace` shows of the handlers themselves. Decisions that are the same in every respect and in flight together count once (`sent` is
  a set).
* `FieldScreens`: `MaxRows` = 5 (a double tap on each photograph and the completion), `MaxTaps` = 2
  handlers under way at once, `Attempts` = 2 (one that is not the last and one that is), `Contexts` =
  {"page"}: what the service worker's flush adds is the subject of `queue`; the theorems hold for
  both. A
  position's result is not told apart. `Bounded` in `MCFieldScreens`: once the order is completed the
  partner leaves the screens alone, and the notifications are followed from one place only, when all
  that was queued has been answered: they share no variable with the screens.
* Symmetry is declared over slots, admins and partners only (nothing tells them apart), and only in
  runs without liveness properties.

The bounds of `Marketplace` are those of `BoundedSpec` in `MCMarketplace`: it forbids the step that
would put one request too many in flight, and nothing else. Deadlock is checked in the runs of
`FieldQueue`, `Session` and `Storefront`, where a page can always be opened again. It is not in the
others: the system may really stop there, once the order is closed, refunded or cancelled, the
complaint decided and the forms spent, or once all rows are decided, or the visit is over.

## 6. Fairness

`Marketplace!Fairness` and why the code justifies it:

* weak fairness of `PayStep`, `JobStep`, `DeskStep`, `SweepStep`: a handler that runs reaches its next
  await; Node's event loop starves nobody;
* weak fairness of `Elapse`: the clock;
* strong fairness of `BeginSweep` per sweep: repeatable BullMQ jobs (`sla.module.ts:47-73`, every 5 or
  15 minutes) are worked off in turn, but the worker may be busy with another one each time;
* strong fairness of the delivery of a success event: iyzico repeats an event until it is answered
  with 200. It is external; `payments.service.ts:266-309` is written for it. Nothing is assumed of
  customers, staff and partners, nor of the browser's callback;
* `<>[][Work]_vars`: requests stop dying at some point. Without it no handler of several steps ever
  has to end. The formula names the steps of work rather than forbidding the aborts, because a sweep
  whose last record was already there ends in a step that looks like its abort.

`FieldQueue!Fairness`: weak fairness of each context's steps (`startPeriodicSync` flushes every 20
seconds, `queue.ts:168-172`), of the reset, of the API's handlers, of the lock's expiry, and
`<>[][Work]_vars`: in the end the connection holds and the page stays open. Result expiry and
queueing are not fair. `live_queue` runs `MCFieldQueue!FinishingSpec`, which is this fairness and the
hypothesis named in section 5. Nothing in the code justifies that hypothesis: a browser may stop a service
worker when it likes. It is there to tell what holds from what does not.

`Session!FairSpec`: weak fairness of the API's steps for each context, of answers (they come, or the
client gives up), and of the expiry of access tokens (15 minutes). Nothing makes anyone sign in,
refresh, log out or decide; `DecisionTakesHold` and `OneBrowser` say what happens once admins stop
deciding and people stop signing in.

`MCFieldScreens!CalmSpec`, for `waiting`: weak fairness of positions, of `Put`, of the flush and of the
worker, and nothing goes wrong but what is tapped. It is stronger than the `FairSpec` of
`FieldScreens`, so that the counterexample cannot be laid to the network.

## 7. The proofs

7 722 obligations, for any sets of orders, partners, complaints, forms, requests, visits, browsers,
contexts, staff and events, any number of requests in flight, and any bounds that meet the assumptions
of the modules that declare them (`None` is not a row; the kinds of rows of the panel are disjoint;
bounds are natural numbers).

| Module | Theorem | States |
|---|---|---|
| `TypeProofs` | `TypeCorrect` | `Spec => []TypeOK` |
| `SafetyProofs` | `WorkPaid`, `DoneEvidenced`, `PayoutEarned`, `RefundedReturned`, `DisputedComplained`, `ReturnedComplained` | the safety invariants of `system`, and `WorkIsPaid` of `live` |
| `SettlementProofs` | `FactsKept` | every step keeps `NothingTakenBack` |
| | `SettlementImplemented` | `Spec => ImplementsSettlement` |
| | `ProcessedFinal` | `Spec => []ProcessedIsFinal`, if `KeepsConfirmations` |
| | `LifecycleFollowed` | `Spec /\ []OneAtATime /\ []NoLateConfirmation => FollowsLifecycle` |
| | `PaidOutOncePerOrder` | `Spec /\ []OneAtATime /\ StatusNeverGoesBack => []OnePayoutPerOrder` |
| | `EscalationSeesAll` | `Spec /\ StatusNeverGoesBack =>` a confirmed order has no partner |
| | `DecisionFinal` | `Spec /\ []OneVetting => DecisionIsFinal` |
| `FieldQueueProofs` | `QueueTyped` | `Spec => []TypeOK` |
| | `SyncedIsTrue` | `Spec => []SyncedIsDone`, under every mishap |
| | `AtMostOnce` | `Spec => []DoneOnce`, if nothing undermines the lock (`LockHolds`) |
| | `QueueDelivers` | `Spec => ImplementsDelivery`, under every mishap |
| `FieldScreensProofs` | `VisitTyped` | `Spec => []TypeOK`, notifications included |
| | `ReportedFirst`, `StartedFirst`, `ReviewedBefore`, `SentBefore` | the safety invariants of `visit` |
| | `SentOnce` | `Spec => SentIsLast` |
| | `EndedDecided` | `Spec /\ LastAttemptAnswered => []EndedIsDecided` |
| `StorefrontProofs` | `VisitsTyped` | `Spec => []TypeOK` (no run checks it on its own) |
| | `NumbersUnique`, `EnteredOrdered`, `OrderKept` | the properties of `storefront` |
| | `KeptPaidAsEntered` | `Spec /\ FormIsKept => PaidAsEntered` |
| | `OneGravePerPlot` | `Spec /\ []OneInsertion =>` a plot has one row at most |
| `OfficeProofs` | `OfficeTyped` | `Spec => []TypeOK` (no run checks it on its own) |
| | `ReasonTyped`, `NotesFitted` | `ReasonIsHis` and `NotesFitOutcome` of `office`, also for requests that overlap |
| | `DecidedOnSight` | `Spec /\ []OneHandlerPerRow => DecidedAsSeen` |
| | `AuditNamed` | `Spec /\ []OneHandlerPerRow /\ NoneFails => []AuditNamesStatus` |
| `SessionProofs` | `SessionTyped` | `Spec => []TypeOK` |
| | `OneSessionAlways`, `NobodyAdmittedAnew` | `Spec => []OneSession`, `Spec => NobodyNew` |

**The marketplace.** A status is no basis for an invariant: between the read of one and the write of
the next, anything may be written. `MarketplaceInvariant` states what holds instead, in three layers,
each inductive relative to those before it.

1. `TypeInv` is `TypeOK` with what makes it inductive: a request past its first step knows the rows it
   works on. Without that, an update by a key that was read some awaits ago could miss its table.
2. `MoneyInv` says what a payment request may claim of its form: a success is only reported of a form
   that was paid, and the row of a form is inserted by one request only.
3. `ClaimsInv` gives each status, and each stage of each request, the facts it stands for: an order
   awaiting approval has been charged and evidenced; so has the order of a request about to approve
   it, whatever its status is by now.

What carries `ClaimsInv` through steps of others is `NothingTakenBack`, proved for every step: charge,
evidence, complaint, return, vetting, audit and notification rows are only ever added. So a claim true
when a request made its read is true when it writes, and the proof need only look at each action's own
claim. The safety invariants are conjuncts or consequences of `ClaimsInv`. `Settlement` is implemented
because it is about these facts and nothing else.

`ProcessedFinal` adds `MarkInv` (a request about to mark an event has left its records) and assumes
that the instance keeps the two records (`KeepsConfirmations`); in an instance that drops them the
property is false for no fault of the code.

**Requests that take turns.** Several things the documents promise fail only because a handler decides
on a row it read some awaits ago. The theorems with more than `Spec` on the left say so: they prove the
promise from `Spec` and a hypothesis about what overlaps, fails or comes late, so that together with the
counterexamples of section 8 they name the cause. Most hypotheses are what a lock on the row would give
(`OneAtATime` on an order, `OneVetting` on a partner's onboarding, `OneHandlerPerRow` in the panel,
`OneInsertion` on a plot), and no more: requests on different rows overlap, die half way, and are
repeated as before. The others name the one failure that matters: `NoneFails` (no handler of the panel
between its row and its record), `LastAttemptAnswered` (the database, when a notification's last attempt
reads and when it marks its row); or the one event: `NoLateConfirmation`, and `FormIsKept` (nobody changes
the form of an order that exists).
`LifecycleFollowed` rests on `FreshInv`: for each stage of each request and of the sweep, that what it
read still stands (`PayFresh`, `JobFresh`, `DeskFresh`, `SlaFresh`), and that a request past its first
step is about an order that was placed (`Placed`). A step of one request keeps it for the others because
they are at other orders, and each write is then an edge of the machine. Sweeps list orders whose status
is the query's, and hold all they list until they are done with them.
`PaidOutOncePerOrder` adds that an order that was paid out is closed or beyond (`PaidOut`); a repeated
confirmation would send it round again, hence `StatusNeverGoesBack`. The same hypothesis alone gives
`EscalationSeesAll` (`PastConfirmed`: an order with a partner is past confirmed): the query of
`sla.service.ts:146` leaves an order out only after its status went back.

**The queue.** `QueueInv` adds to `TypeOK`: a call and a row in `syncOne` have a key (`Fits`); at most
one call answers to a context, and it is about the row that context waits for, so no late answer to an
earlier attempt counts (`Answerable`); and every sign of success is true (`Truthful`: an "ok" received,
a cached result, a call about to store its result, a synced row). `AtMostOnce` adds `Locked`: a key is
locked as long as a handler of it runs, handlers of one key exclude each other, and what was written is
cached or about to be. Only there is `LockHolds` used (no "slow", "unsaved", "broken" or "expire"); lost
messages, closed pages and expired sessions remain. `QueueDelivers` adds `Queued`, whatever is on its way
is about a row that exists, and `Prepared`: a call that passed its guard still has what it needs when it
writes, because what the guard stands for, the start and the photographs carried out, is never undone,
while the status it read may be by then another one.

**The visit.** `VisitInv` has five parts. `ScreenInv` counts the handlers under way, without which the
step of the capture screen has no bound, and says that a detail shot on its way has its note.
`StartInv` says what holds until the first row is there: neither the screen, nor the cache, nor the
API can make anyone believe that the task was started, and whatever is on its way into the queue is
a start. `RowInv` keeps the flush of each context within the rows. `OrderInv` gives each row that was
carried out its trace, and a completed order its two photographs. `OutboxInv` says for each place a job
can be at what its row says and whether the provider has taken the message; the attempts it counts are
bounded by it. Handlers that only move rows or screens keep the others' parts by what they leave alone.

**The web site.** The invariant of `StorefrontProofs` ties a page at a step to what must be filled in
by then, the saved draft to what was entered, and the form a request carries to the wish of its click;
an order's number to the ones that are there. `KeptPaidAsEntered` adds that an order the page knows of
has the terms of the page's form (`KnownAsEntered`), which any change of the form would end.

**The panel.** A text on its way to the API is the one of its dialog, and the text of a dialog is that of
its row (`ReasonIsHis`) or of its outcome (`NotesFitOutcome`). `AuditNamed` needs of a request between
row and record that the row still has what it wrote.

**The session.** `OneSession` needs it of every id and not only of the current one (`OneHolder`): ids move
within a browser, from its jar to a request and back, and only `Issue` brings a new one. `NobodyNew` goes through the stages of a request: what is
vouched for begins with `ReadUser` or `CreateUser` and nowhere else.

**Only model-checked:** the liveness properties (`DecisionTakesHold`, `OneBrowser`, `QueueDrains`,
`PaidIsConfirmed`, `UnpaidIsSettled`, `ApprovalEnds`), since the prover does not do fairness. Every
invariant and every action property of a passing run is stated by a theorem.

<a id="8-findings"></a>

## 8. What the code does otherwise than a comment or test says

Three runs of the project each end in a counterexample; `PROJECT.json` quotes the lines.

* **Two payouts for one order** (`double_payout`; `orders.service.ts:573`). `approve` reads the
  status before its transaction and does not look for a payout; if the auto-close sweep closes the
  order in between, both pay. `sla.e2e-spec.ts:169` asks for one.
* **A payment that was declined is confirmed** (`confirmation`; `siparis/page.tsx:757`). "Tekrar dene"
  is a link to the same route without `?odeme=hata`. The page is not mounted again and keeps its step, so
  it says that the payment was received; the comment at lines 101-102 says that the confirmation does not
  rely on the wizard's state.
* **A visit whose photographs are never sent** (`waiting`; `TaskDetailPage.tsx:71`). A second tap on
  "Başla" while the position is asked for queues a second start. It is refused, and a refused row keeps
  all rows behind it back for good, while the screen says that they are sent in the background.

Eight further statements of documents and comments have a definition and a configuration that refutes it.
The last column is the theorem that says under which hypothesis the statement holds.

| Property, configuration | What happens | Holds if |
|---|---|---|
| `StatusNeverGoesBack`, `MCMarketplace_goes_back.cfg` | The callback endpoint is public and repeatable, and `finalizePayment` sets the order to confirmed whatever it is (`payments.service.ts:455`). A customer who reloads the page iyzico redirected to, after the assignment, sends the order back from assigned to confirmed. No overlap is needed. `kpi.service.ts:12-14` counts on the opposite. Such an order keeps its partner and is therefore not escalated (`sla.service.ts:146`). | `LifecycleFollowed` |
| `CancelledFromPending`, `MCMarketplace_cancels_paid.cfg` | The cancel sweep works through the orders its query found and updates each by id (`sla.service.ts:51-54`); one that was paid in between is cancelled. `kpi.service.ts:14` says that cancelled branches off from pending payment only. | `LifecycleFollowed` |
| `DecisionIsFinal`, `MCMarketplace_two_decisions.cfg` | An approval and a rejection that overlap both pass the check of "onboarding"; the later write stays (`partners.service.ts:171`; the comment at 124-125 rules it out). | `DecisionFinal` |
| `RejectionEndsDispute`, `MCMarketplace_undisputed.cfg` | `resolve` writes the complaint and, four awaits later, the order (`complaints.service.ts:177`). If it dies in between, the complaint is rejected and cannot be resolved again, and the order stays disputed: no sweep looks for it, and a refund needs a resolved complaint. The comment at 141-142 says that the order becomes closed. | |
| `QueueDrains`, `MCFieldQueue_stranded.cfg` | The service worker is stopped with its row syncing while the page stays open. Both contexts pass over a row that is syncing, because "an attempt is already under way" (`queue.ts:123`), and only the start of the app resets it (`queue.ts:43`): neither the page's periodic flush, there so that the queue does not wait indefinitely (`queue.ts:157-168`), nor a new worker tries it again until then. | `live_queue` |
| `PaidAsEntered`, `MCStorefront_stale_plan.cfg` | After a payment that could not be started the visitor goes back, chooses another plan or plot and tries again. The page takes the order it knows (`siparis/page.tsx:270`), at the plan and price of its creation, and sends it to payment. The comment at 267-269 thinks of the same form only. | `KeptPaidAsEntered` |
| `AuditNamesStatus`, `MCOffice_unaudited.cfg` | A permit's update and its audit record are two awaits (`cemeteries.service.ts:149,164`). If the handler fails in between, the change is unrecorded, and choosing the permit again records nothing, since it equals what was read (163). Two updates that overlap do the same. `HANDOVER.md:386` says that the record is written unconditionally. The other handlers of the panel have the same two awaits. | `AuditNamed` |
| `EndedIsDecided`, `MCFieldScreens_undecided.cfg` | The lookup of a notification is outside the `try` and the update to "failed" may itself throw (`notifications.processor.ts:23-33,81-84`): after a last attempt that fails there, the row stays queued with no attempt to come. The comment at 75-77 keeps "queued" for what is tried again. | `EndedDecided` |

The models also have the following, each a sequence of steps that can be followed in the modules.

* **The queue runs ahead** (`NeverAhead`; `queue.ts:123`). With the page and the service worker flushing
  at once, one passes over the row the other is syncing and tries the next, which the API refuses for
  good. The comment at `queue.ts:115-117` rules this out.
* **A complaint or a refund overwritten.** The auto-close sweep closes an order on which a complaint was
  opened after its query (`sla.service.ts:87`), and `resolve` closes one that was refunded while the
  customer was being notified (`complaints.service.ts:177`): the order reads closed, the complaint and
  the returned money are there all the same.
* **Money returned, row not** (`payments.service.ts:416`). If `refund` dies between iyzico's answer and
  the update, the payment stays succeeded, iyzico refuses every retry and the order never reads refunded.
* **Every photograph needs a review** (`queue.ts`, `CapturePage.tsx`). The camera's frames go through a
  canvas, which writes no EXIF, so that the API never finds a position: each photograph of the field app
  is `missing_exif`, or `manual_review` where the grave has no coordinates, and Ops is told of each.
* An event whose two deliveries overlap is processed twice (`schema.prisma:524-525`); the audit record
  of an assignment is lost if the request dies behind the update (`orders.service.ts:278-294`); a
  photograph is stored twice if the API dies between the write and the cached result, which the comment
  at `queue.ts:40-42` does not consider; an action that was carried out is shown as refused if what
  follows the write throws (`queue.ts:92-107`); two rows for one grave (`grave-locations.service.ts:29`,
  documented there; `OneGravePerPlot`) and a second draft of an order whose creation was not answered
  (`siparis/page.tsx:291`).

## 9. What is not modelled

* **KPI** (read-only aggregation), **subscriptions** (a placeholder with two statuses), **evidence storage**
  (I/O against S3), the **error filter** and the **encryption of national ids** (pure functions), the
  **landing page** and the **prototype panel** of the web site (they call no service).
* **Amounts.** Prices are copied from the order to the payment and the payout and never computed
  with afterwards; `Storefront` has the plan that fixes them.
* **Arithmetic of geotags**: distances and EXIF parsing are reduced to the cases `resolveGeotagStatus`
  tells apart, of which the field app's photographs reach two.
* **Passwords, rate limits, signature checks of the webhook and identity checks of requests**: a request
  that fails them changes nothing. `Session` has roles and disabled accounts.
* **Creating and searching cemeteries**, and the fields of an update beside the permit; the panel's form
  for new accounts, and its refund of a resolved complaint (the handler is in `Disputes`).
* In the queue: other orders of the same partner (rows of different orders are flushed in turn by the
  same loop and share nothing), and a device whose clock is set back, which would reorder the rows.
* WhatsApp and push notifications: they have no sender in the code, and their rows stay queued.

## 10. Plan

Done: the shared rows, payments, orders, partners, complaints, the SLA worker and their composition;
the settlement and its refinement; the lifecycle and its refinement by requests that take turns; the
interceptor and the field queue, with Delivery and its refinement; sessions and accounts; ordering on
the web; the admin panel; the field app's screens with the delivery of notifications; the invariants
above, proved.

What would add most from here:

1. An abstract specification of a notification's delivery (queued, taken by the provider, decided) that
   `Outbox` implements under `FieldScreens`, proved.
2. `FieldScreens` as an implementation of `Delivery`: its rows are those of a visit that the partner can
   mix up by overlapping taps.
3. `Session` under `FieldQueue` in place of the mishap "session".
4. An abstract specification of a session (one holder, replaced by sign-in, ended by a stale id).
