# A verification of guvico-be

guvico-be is the backend of a marketplace for household services: customers
order shifts of work, collaborators take them and pay the platform a fee for
it, gateways and wallets move the money.  This directory holds TLA+ models of
its core, TLC configurations that check them and TLAPS proofs about them.

Paths below are relative to `src/src/`.  Services are abbreviated:

| under `core-system/@core-system` | | under `core-system/@oop-system` | |
|---|---|---|---|
| JS, OS, GS | job-, order-, group-order-system | OO, GO | order-, group-order-oop-system |
| PS, TS | payment-, transaction-system | CO, CU | collaborator-, customer-oop-system |
| PTS, RTS | punish-, reward-ticket-system | PTO, RTO, TO | punish-ticket-, reward-ticket-, transaction-oop-system |
| COS, LB | collaborator-, leader-board-system | PRO | promotion-oop-system |

`SCH` is the order scheduler of `cronjob`, `MID` the job at midnight of
`@share-module/cronjob`.

The commit contains unresolved merge conflicts in 19 files (`<<<<<<< HEAD`
... `>>>>>>> son`).  Where they matter the models follow the side `son`, the
only one on which every method that is called exists; the two sides differ in
HTTP codes and in the reward tickets, not in what is modelled.

## 1. Inventory

### How the program is built

A request enters through a controller of `rest/api` (or of the older
`customer`, `collaborator`, `admin`), which calls one handler of a service
under `@core-system`.  The handler calls services under `@oop-system`, one per
kind of document; each of their methods reads a document, changes it in
memory and writes the *whole* document back through a repository
(`findByIdAndUpdate`, `@repositories`).  There are no transactions, no version
checks and no locks.  Cron jobs (`cronjob`, `@automation`) call the same
handlers.  So every handler is a sequence of separately visible writes, any
two handlers interleave at their awaits, and a handler that throws, or a
server that stops, leaves the writes before in place.

### Components

| component | state | operations | what can go wrong |
|---|---|---|---|
| Orders and group orders (JS, OS, GS, OO, GO) | `order`: status, id_collaborator, is_duplicate, fees; `group_order`: status, id_collaborator, transaction | createGroupOrder, pendingToConfirm, addCollaboratorByOrder, changeCollaborator, confirmToDoing, doingToDone, cancelOrder, cancelGroupOrder, processingToPending, unassign | the same fact is kept in orders, group and wallets by separate writes; the order of a group's shifts; repeated and late requests; fees that do not add up |
| Collaborator wallets (CO) | work_wallet, collaborator_wallet, history log | minusCollaborator, addPointWallet, convertMoneyBetweenWallets, deductMoney | lost updates; two wallets converted into each other at the limit |
| Customer points and referral income (CU) | pay_point, referral wallets | addPayPoint, redeemPayPoint, referral payouts | refunds given twice or not at all; a balance checked on one read and taken from another |
| Payment (PS, momo-api) | transaction.status, group_order.status | createPaymentLink, vnpayIPN, handleOrderPayment, handleTopUp | notices late, repeated, after the expiry or beside a cancellation |
| Transactions (TS, TO) | transaction.status, wallets | create, verify, cancel; withdrawal requests | check then act; verify racing cancel |
| Promotions (PRO) | total_used_promotion, is_enough_limit_used | checks and discounts at ordering, counting afterwards | the limit passed by concurrent orders; the split of a discount over dates |
| Punish and reward tickets (PTS, RTS, PTO, RTO) | ticket.status, nth_time; points, violations, lock, wallets of the collaborator | create, execute, revoke | executed twice; effects lost; a fine given back that was never taken |
| Leader board (LB, COS, MID) | reward_point, number_of_violation, places | summarize, reset, every midnight | points given meanwhile are undone; violations never cleared |
| Order scheduler (SCH) | - | cancelOrderOutDate, cancelProcessingOrderAfter13/15Minutes, removeDuplicateMinusPlatformFeeType | acts on what it read before its awaits |
| Auth and OTP, notifications, reports, catalogues, chat, admin CRUD | own documents | - | independent of the orders |

The interactions that matter: a collaborator's request charges a wallet, then
changes the orders, then the group; a cancellation changes an order, then the
group, the customer's points, the collaborator's wallet, the next order's
charge and the transaction; a gateway's notice changes the transaction, all
orders and the group, and races the cron that gives the payment up; an order
placed counts a promotion, takes a number and spends points, each read before
and written after; a ticket writes a collaborator the job at midnight reads.

### What makes the components correct

* Orders: order and group agree on who works and on what is left; exactly the
  next shift is on the lists; finished shifts stay finished.
* Money: a collaborator has paid for what he has done and for the shift he
  holds, no more; a customer gets back exactly what he paid for and did not
  get; the service fee is asked once; the dates of a group cost together what
  was asked for the group.
* Payment: a group that is cancelled keeps no open order, nothing is given back
  unpaid, a payment that nothing disturbs is honoured, unpaid orders do not
  wait for ever.
* Interleavings: of several collaborators one gets the job and only he pays;
  limits and balances are passed only by requests that run together, and by
  how much can be said.
* Tickets: a collaborator has nothing that no ticket brought him; the nth
  violation of a cycle is punished as the nth; a fine goes back once.

## 2. Plan

Done:

1. `JobLifecycle`: one group order with all its handlers, each one step.
2. `AssignRace`: the assignment opened up at its awaits, with the
   cancellation and the cron job that repairs double charges.
3. `CustomerAccount` and `Transactions`: an abstract account, and the handlers
   of top-ups and withdrawals that implement it.
4. `PaymentRace`: notices, cancellations and the expiry opened up, with a
   restart of the server.
5. `Ordering`: the creation of group orders opened up: promotions, ordinal
   numbers, pay points.
6. `Pricing`: the fees of a group, its dates and its discounts.
7. `Tickets`: punish and reward tickets beside the leader board.
8. Proofs for every instance, the ledgers of `JobLifecycle` included.

Left, in this order:

9. The two wallets of a collaborator (`CO.convertMoneyBetweenWallets`,
   `deductMoney`) refining a single balance; the legacy withdrawals of
   `collaborator/finance`, which create the transaction first and hold the
   money after.
10. Loop orders (JS 2266-2416), the overlap check, payout and rewards at
    completion.
11. Proofs: every invariant and every action property of the passing runs is a
    theorem now (section 5).  Left are the same for the components of items 9
    and 10.

`AssignRace`, `PaymentRace`, `Ordering` and `Pricing` each open up handlers
that are one step of `JobLifecycle`; `Transactions` implements
`CustomerAccount` by `INSTANCE`.  The proofs about a module are in the module
named after it with `Proofs` (the second part of `JobLifecycleProofs` is on what
holds for fewer disturbances), the definitions only TLC needs in `MC` modules.

## 3. The modules

### JobLifecycle

One group order and its `N` orders, numbered by `date_work`; a contract of one
date is `N = 1`, a schedule `N > 1`.  Every action is a whole handler.

| action | code |
|---|---|
| `Init` | JS createGroupOrder, with the collaborator of the payload or without; that he takes the job (JS 1065) is a `PendingToConfirm`, which may be refused |
| `PendingToConfirm`, `AddCollaboratorByOrder` with `TakeJob` | JS of the same names; OO and GO assignCollaborator |
| `ChangeCollaborator` | JS changeCollaborator |
| `ConfirmToDoing`, `DoingToDone` | JS confirmToDoing, doingToDone with handleNextOrder |
| `CancelOrder(o, subject, steps)` | OS cancelOrder; `steps` are the flags of stepCancelDTO |
| `CustomerCancelOrder`, `AdminCancelOrder`, `CollaboratorCancelJob`, `CollaboratorLateCancel`, `CancelOrderOutDate` | its callers, with the flags each one sets |
| `CancelGroupOrder(steps)` and its callers | GS cancelGroupOrder: customer, admin, expiry cron, failure notice |
| `ProcessingToPending` | JS processingToPending, a gateway's success notice |

Data abstracted:

* A wallet is a ledger: `charged[o][c]` is what c paid for order o less what he
  got back, `refunded[o]` what the customer got back for o.  A schedule's fees
  are taken from `collaborator_wallet` without looking at the balance; a single
  order is refused for lack of it, which is a step not taken.
* `terms` fixes payment method, pricing and the collaborator named at creation.  "legacy" is `subtotal_fee =
  initial_fee`: the collaborator pays `platform_fee + pending_money`; "deposit"
  is `work_shift_deposit`, for cash only.
* The clock is absent: "15 minutes before" and "after 13 minutes" may come at
  any time, and so may either branch that compares times.
* `CancelOrder`'s `rewritten`: setInfoLinkedCollaborator is given the order as
  it was read before its `is_duplicate` was changed, and writes that back.
* The reward and the payout at completion (JS 2170-2227), punish tickets made
  by a cancellation, points, the sums `temp_*` of the group order, reviews and
  notifications are left out; none of them is read by a modelled guard.
* A late success notice for a cancelled group refunds what
  totalFinalFeeRemain finds open, which is nothing once the orders are cancelled.
  The ghost `paid` says whether the customer has paid, in time or that late.

`Disturbances` names what happens beyond orderly use, so that a run can say
which of it a property survives: `anyOrder` (requests about an order that is
not the current one), `cancelProcessing`, `cancelTerminal` (cancellations of an
unpaid, or a finished order), `lateCancelRoute` (the route of
`collaborator/job`), `lateFailure` (a failure notice after a success),
`authorizeOnly` (`isAutoCapture` false, which this program never asks for: JS
1037-1040), `namedAtCreation` (orders created with a collaborator, who stays on
them while they await payment or after JS 1065 has failed).

### AssignRace

One order, several collaborators who tap several times.  A request is where it
stands (`take[r].at`) and the wallet it has read; each step is what happens
between two awaits that matter.

| action | code |
|---|---|
| `Load` | JS pendingToConfirm 172-209: the order is free and pending |
| `ReadWallet`, `WriteWallet` | CO minusCollaborator, called by JS minusFeeOrderByCollaborator, with the log entry |
| `FindPending`, `AssignOrder` | OO assignCollaboratorByGroupOrder: findOne, updateMany |
| `WriteGroup` | GO assignCollaborator |
| `Cancel...` | OS cancelOrder for the customer |
| `RepairList`, `RepairMoney`, `RepairWriteGroup` | JS removeDuplicateMinusPlatformFeeType with balanceMoneyForCollaborator |

The log entry is written with the wallet and balanceMoneyForCollaborator is one
step; "within a minute" is a choice; one cancellation is sent; the pricing is
"deposit" with cash, the one whose movements the cron looks for.

### CustomerAccount and Transactions

`CustomerAccount` says what the transactions of a customer are for: every
operation one step on `a_pay`, `pay_point` and the transactions.
`Transactions` has the same operations as the handlers do them: read and check
the transaction, read the customer, write him back whole, save the transaction.

| action | code |
|---|---|
| `CreateTopUp` ... `SaveTransaction` | PS createTopUpLink, createPaymentLink |
| `RequestWithdrawal`, `ReadCustomer`, `WriteCustomer`, `CreateWithdrawal` | TS createWithdrawalRequestForReferrer, CU minusOrRedeemToReferrerPerson |
| `Verify`, `ReadCustomer`, `WriteCustomer`, `SaveTransaction` | TS verifyTransaction, calculateTransaction; the staff, or PS handleTopUp for a success notice |
| `Cancel`, ... | TS cancelTransaction |
| `NoticeFailure` | PS handleTopUp, code 99 and other codes |

Each request does one operation; a transaction bears the name of the request
that created it; all amounts are `Money`.  A request that is refused changes
nothing and is not a step.  `AtOnce` bounds the requests under way, and
`LateNotices` says whether failures are reported of payments that have ended.
The refinement `Booked` lets a request take effect when it writes the customer:
from then on its transaction counts with the status it is going to save.  The
ghost `crossed` is set when two requests meet: one starts on a transaction
another is at work on, or looks at the customer before another, which has
looked, has written him back; and when a notice of failure is late.

### PaymentRace

One group order paid through a gateway: its orders, the group, the transaction
and the customer's points (`refunds[o]`: how often the fee of o was given
back).  Each request remembers the status of the group it read first and decides
by it in the end whether to refund, as the code does.

| action | code |
|---|---|
| `Arrive` | PS vnpayIPN, handleOrderPayment; the Momo routes, which look at nothing |
| `LoadGroup`, `OpenOrders`, `OpenGroup`, `CloseTransaction` | JS processingToPending; OO changeStatusAllOrderByGroupOrder, GO changeStatus |
| `LateSum`, `LateRead`, `LateWrite` | its other branch: OO totalFinalFeeRemain, CU addPayPoint |
| `CronLists` | SCH cancelProcessingOrderAfter13/15Minutes |
| `CancelLoads` ... `CancelOrders` | GS cancelGroupOrder; GO cancel, OO cancelAllOrderByGroupOrder |
| `RefundReads`, `RefundWrites` | its step 2, CU addPayPoint |
| `CancelReadsTransaction`, `CancelWritesTransaction` | its step 8 |
| `ShiftChecks`, `ShiftDone`, `ShiftSetsGroup` | JS doingToDone, handleNextOrder |
| `Restart` | the server stops between two awaits and starts again |

Of an order that is paid for, "pending" stands for pending, confirm and doing,
and so does "pending" of the group; no handler here tells them apart.  The
collaborator's side of a cancellation is in `JobLifecycle`.  `accidents`
remembers what has happened (a restart, a refund written over another, a
payment crossed by a cancellation), so that the properties can say exactly
under which of them they no longer hold.

### Ordering

Several requests create group orders that share a promotion code, a promotion
event, the ordinal numbers of a city and the pay points of their customers,
beside one request that adds points.

| action | code |
|---|---|
| `FindCode`, `TakeEvent`, `CheckBalance` | JS calculateFeeGroupOrder; PRO calculateCodePromotion, calculateEventPromotion; CU checkBalancePayPoint |
| `ReadNumber`, `CreateGroup` | GO createItem, generateIdView |
| `ReadPromotion`, `WritePromotion` | PRO increaseTotalUsedPromotionCode |
| `CountEvent` | PRO increaseTotalUsedPromotionEvent |
| `CreateOrders` | OO createOrderByGroupOrder |
| `PayReads`, `PayChecks`, `PayWrites` | CU redeemPayPoint |
| `AskGateway` | PS payForOrderWithEWallet |
| `Assign` | JS pendingToConfirm for an admin's order |
| `AddReads`, `AddWrites` | CU addPayPoint |

An order costs one point and discounts are left out; both promotions are
limited in number and per customer; a promotion's `spent` is
`is_enough_limit_used`.  `day` passes from an ordinary day to the last of the
year and into the next one, since that is all generateIdView's range depends on.
`met` remembers which requests were under way together.

### Pricing

JS calculateFeeGroupOrder, one request alone, in dong.

| action | code |
|---|---|
| `PriceDate` | the loop over the dates, JS calculateFee per date on one shared service object |
| `Promote` | PRO calculateCodePromotion, calculateEventPromotion; JS calculateFinalFee, cut off at zero |
| `Split` | JS calculateDiscountPerDate |
| `Charge` | the fees of every order: final fee, tax, platform fee, income |

One extension and one zone; the tables a request is priced by come with the
request (`Payloads`).  `Round` and `Ceil` are `Math.round` and `Math.ceil` on
quotients of integers; that the code divides in floating point is not modelled.

### Tickets

| action | code |
|---|---|
| `Begin`, `Count`, `Create` | PTS createPunishTicket, getPunishRule; RTS createRewardTicket |
| `Wait`, `Do`, `Apply` (`Reward`, `Punish`, `Fine`), `Done` | PTS executePunishTicket and its counterpart; PTO, RTO standbyToWaiting ... doingToDone |
| `RevokeReads`, `RevokeSaves`, `PayReads`, `PayWrites` | PTS revokePunishTicket; PTO revoke; CO addPointWallet |
| `Summarize`, `CountTop` | LB summarizeLeaderboard |
| `ResetReads`, `ResetWrites` | COS resetRewardPoint |
| `NextCycle` | the month, week, day or hour of the policy ends (PTO 446-482) |
| `Restart` | the server stops and starts again; nothing looks for tickets that were left |

A reward is a point, a fine a dong.  All violations are of one policy, whose
cycle may end at any time; `Punished` counts the tickets created in the one that
runs.  `applied` (tickets whose effect was saved), `returned`, `together`,
`straddled` (counted in one cycle, created in the next) and `crossed` count
effects and remember who met whom.  None of these ghosts is read by a step of
the code.

## 4. What the runs check

| run | instance | what it shows |
|---|---|---|
| `JobOrderly` | 3 dates, 2 collaborators, all payment methods and pricings, no disturbance | `TypeOK`; `FeesMatch`, `RefundsMatch`: nobody pays or gets back more or less than his orders; `ServiceFeeCarried`; `OneOrderListed`; `GroupFollowsOrders` |
| `JobDisturbed` | the same dates, every disturbance but `cancelTerminal` | `WorkerAgreement`: orders and group agree on who works, the orders on offer on who was named, if anybody; `TerminalStays` |
| `AssignRace` | 2 collaborators, 2 requests each, a cancellation | `HolderCharged`, `NobodyOvercharged`, `FirstTakerStays` through every interleaving |
| `AssignSettles` | 1 request each, a cancellation, the repair cron | `GroupFollows` (liveness): a job that is taken gets a group that names a collaborator |
| `Books` | 5 requests, 3 at a time, late notices | `AccountSpec`: the handlers implement the account until two requests meet, however they interleave; `AccountBalanced`: so its books balance in the documents they write; `NothingFromNowhere`: even when they meet, they may lose changes but create no money |
| `PaymentRace` | 2 dates, 2 notices, a cancel request, the cron, a restart | `CancelledLeavesNothing`, `NothingBeforePayment`, `PaymentHonoured`; `NobodyWaitsForEver` (liveness) |
| `Ordering` | 3 requests, 2 at a time, in two scenarios, and one that adds a point | `CodeWithinLimit`, `CustomerWithinLimit`, `EventWithinLimit`, `PromotionsCounted`: how far limits and counters hold; `NumbersUnique`; `OpenIsPaid`, `PointsAccounted` |
| `Pricing` | 1 to 3 dates, all combinations of a few prices, surcharges, promotions and fees | `FeesAddUp`, `DiscountsAddUp`: the parts are the whole; `DatesPricedAlone` |
| `Tickets` | a merit and two violations of one collaborator, two admins, the job, one restart or one end of the cycle | `NothingUnearned`: updates may be lost, none is made up; `ReturnedOnce`, `NthRises`; `Forgiven` (liveness) |

Bounds.  Three dates are the fewest with an order before, at and after the one
being cancelled or done, which is all that NextOrder and Heir distinguish; two
collaborators, who are interchangeable (`SYMMETRY`), are an old one and a new
one.  `MoneyBound` is above every ledger entry an orderly run makes, so it cuts
nothing off in `JobOrderly`.  `JobDisturbed` merges states that differ in
ledgers and fees only (`VIEW Control`): no guard but the bound reads them, the
bound is out of reach, and its two properties do not mention them.  Four
requests for a job have one that wins, one that loses late, and a second tap of
each.  Five transactions' requests allow two transactions created, each
verified, cancelled or failed by others, and three at a time overlap in every
way two can, with one between them.  In `PaymentRace` two notices are the
first and a repeated or late one, the customer and the cron cancel beside each
other, and with two dates one may be done when the other is cancelled; a second
restart would find what the first one left.  In `Ordering` two requests at a
time (`AtOnce`) and a third afterwards show both what overlap does and what the
next request sees of it; balance and limits are two, so that they are reached
and passed; the scenarios use the code three times (once with more orders than the event
has left), or once beside two orders without a code.  In `Tickets` two violations reach a policy of two rules, and
`AtOnce = 2` of five actors overlap in every pair; `MaxEvents = 1` lets the
server restart once or the cycle end once, each at every point.  The deadlock check is off
where all work may be done; in `Tickets` it is on, since the job comes every
night.

Fairness.  `AssignRace`: weak fairness of requests that have arrived, since
node.js runs each handler to its end; neither a request nor the cron is asked
to come.  `PaymentRace`: weak fairness of the handlers that have begun and of the
cron, which the scheduler repeats every minute; no notice and no customer is
asked to come.  `Tickets`: weak fairness of the job at midnight, which node-cron
starts every day.  `JobLifecycle`, `Ordering`, `Transactions` and `Pricing` are
checked for safety only.

Three runs show a disagreement between the code and what the repository says of
it (`findings` in PROJECT.json):

| run | property | what happens |
|---|---|---|
| `LoserPays` | `OnlyHolderPays` | two collaborators pass the check together; the loser has paid |
| `SettledTwice` | `SettledOnce` | two overlapping requests settle one transaction twice |
| `FinesLost` | `EffectSaved` | a fine is taken from the collaborator in memory only: its ticket is done and nothing was saved (PTS 211-219, under "Cập nhật đối tác", PTS 197) |

The same properties with other constants show more of the kind, not among the
runs: `GroupFollowsOrders` fails with `cancelProcessing` (cancelling one of two
unpaid orders cancels the group around the other, OS 232) and with `anyOrder`
(a later shift worked first makes the group done, JS 695); `FeesMatch` fails
with `anyOrder` (a collaborator added to a cancelled order is charged, JS 1876);
`RefundsMatch` fails with `cancelTerminal` (a repeated cancel is refunded again,
OS 282); `HolderCharged` fails with `Repairing` (the repair pays back the holder
when the loser paid first, JS 2453), and so does `NobodyOvercharged` with
`Deposit = 4` beside it (a request of the loser that read his wallet before the
repair writes it back after, one fee short of the log); `SettledOnce` fails with `LateNotices` even
one request at a time (a failure notice after the success, PS 402); without the
exception of `crossed`, `AccountSpec` fails (two withdrawals checked against one
balance, TS 113; a customer document written back over a top-up, TS 317).  In
`AssignRace` order and group may also end with different collaborators (GO
393), or the group confirmed and the order cancelled (GO 382).  With the deposit
pricing and cash, the shift that becomes current after a cancellation is never
charged (OS 441), which is why `FeesMatch` speaks of the old pricing.

### What the code does beside the properties

The hypotheses of the properties are as wide as the code allows.  What they
leave out does happen in the models, and in the code:

* Orders named at creation.  If the collaborator does not get the job (JS 1065
  fails, or the order awaits its payment) he stays on the orders; cancelling them
  repays him a fee he never paid (OS cancelOrder, step 3), which breaks
  `FeesMatch`.
* Payment.  A payment that is confirmed after its group was given up is meant to
  be returned, but what is returned is the sum of the orders still open, of
  which there are none (JS 807-812, OO 150-173): the customer loses it.
  `RefundsMatch` therefore speaks of payments that came in time.  A payment
  crossed by a cancellation may be lost (GS 724): the
  refund looks at the status the group had before.  The expiry job cancels
  groups of its list that were paid since, and gives nothing back (SCH 1543).
  Its transaction may overwrite a "done" with "cancel".  Two refunds at a time
  overwrite each other (CU 66).  After a restart between the group and its
  orders no job looks for the orders: they stay unpaid for ever.
* Ordering.  Without a code the event promotion is found by its code null, and
  counted and used up (PRO 849), although the order did not use it;
  `PromotionsCounted` therefore speaks of the event's count only while all group
  orders come with a code.  The event's limit is tested one order late,
  and on orders instead of group orders (PRO 591, 762, 583).  Two requests at a
  time lose a use (JS 1011).  Group orders of the last day of a year are not seen
  by the next, which repeats their numbers (GO 226-227).  A payment by points that
  fails leaves open orders unpaid (JS 1023, CU 77-79); an admin's order whose
  collaborator cannot pay stays open (JS 1065).
* Pricing.  Without a fee of the area the fee of a date is the price the next
  one starts from, so a counted extension is multiplied again for each date (JS
  1356).  Only the sum of the fees is cut off at zero (JS 1407), only the first
  service fee reaches an order (JS 1441); the tax is rounded per date, so that
  the dates' taxes need not add up to the tax of the whole (JS 1451).
* Tickets.  A fine is taken in memory only, its revocation pays it back all the
  same (PTS 217).  What a ticket brought may be lost when handlers, revocations
  and the job write a collaborator over one another.  A violation counted at the
  end of a cycle has its ticket in the next, with the number of the last.  Start and end of a lock are swapped (PTO 260-261), and the
  switch before has no breaks (PTO 213-228).  A reward's type is read from the
  wrong level (RTO 98), a reward in money is not saved (RTS 125), nobody calls
  revokeRewardTicket.  createPunishTicketWithPunishMilestone always ends in an
  exception (PTS 240), and the review with few stars passes the wrong payload
  (OS 884).  "done" is written over a revocation (PTO 280).  Violations of
  a collaborator without points are never cleared (COS 307).  After a restart a
  ticket stays standby, waiting or doing.

## 5. What is proved

TLAPS checks these for all values of the constants that satisfy the named
assumptions of the modules, and what the second column says besides.

| theorem | assumes | says |
|---|---|---|
| `TypeCorrect` | any disturbances | `JobLifecycle`'s `TypeOK` |
| `WorkersAgree` | any disturbances | `WorkerAgreement` |
| `FinishedStays` | no `cancelTerminal` | `TerminalStays` |
| `FirstOrderListed` | any disturbances | `OneOrderListed` |
| `GroupEndsWithOrders` | no `anyOrder`, `cancelProcessing` | `GroupFollowsOrders` |
| `ServiceFeeStays` | no `anyOrder`, `cancelProcessing`, `cancelTerminal` | `ServiceFeeCarried` |
| `FeesAreRight` | at most `authorizeOnly` | `FeesMatch` |
| `RefundsAreRight` | at most `anyOrder` | `RefundsMatch` |
| `RaceTypeCorrect`, `FirstTakerWins` | | `TypeOK`, `FirstTakerStays` of `AssignRace` |
| `HolderHasPaid`, `NobodyLosesMore` | no repair cron | `HolderCharged`, `NobodyOvercharged` of `AssignRace` |
| `HandlersKeepAccount`, `HandlersBalance` | | until two requests meet, `Transactions` implements `CustomerAccount` (`AccountSpec`), and its books balance (`AccountBalanced`) |
| `TransactionsTypeCorrect`, `MoneyFromSomewhere` | | `TypeOK`, `NothingFromNowhere` of `Transactions` |
| `PaymentTypeCorrect`, `CancelledGroupsAreEmpty`, `NothingForNothing`, `PaymentsAreHonoured` | | `TypeOK`, `CancelledLeavesNothing`, `NothingBeforePayment`, `PaymentHonoured` of `PaymentRace` |
| `OrderingTypeCorrect`, `OpenOrdersArePaid`, `OrdinalNumbersDiffer` | | `TypeOK`, `OpenIsPaid`, `NumbersUnique` of `Ordering` |
| `CodeKeepsItsLimit`, `CustomerKeepsTheLimit`, `EventKeepsItsLimit` | | `CodeWithinLimit`, `CustomerWithinLimit`, `EventWithinLimit` of `Ordering` |
| `PromotionsCountTheirUses`, `PointsAreAccounted` | | `PromotionsCounted`, `PointsAccounted` of `Ordering` |
| `PricingTypeCorrect`, `OrdersCostTheWhole`, `NoDiscountIsLost`, `DatesCostThemselves` | | `TypeOK`, `FeesAddUp`, `DiscountsAddUp`, `DatesPricedAlone` of `Pricing` |
| `TicketsTypeCorrect`, `TicketsBringNoMore`, `FinesReturnedOnce`, `NthAlwaysRises` | | `TypeOK`, `NothingUnearned`, `ReturnedOnce`, `NthRises` of `Tickets` |

`WorkersAgree`: `WorkerAgreement` is not inductive.  The hand-over moves the
confirmed orders only, so one needs that the group is doing while an order is
(`DoingShown`), at most one is (`OneDoing`), that an unpaid order means that no
order is taken or offered (`UnpaidTogether`, `GroupUnpaid`), and that whoever is
taken off his orders leaves them to nobody, while those never assigned keep the
name they were created with (`FreeOnOffer`).  `IInv` conjoins
these with the types; every step falls into seven kinds (`StepKinds`), with one
lemma for each.

The other properties of the group order are proved for as many disturbances as
they withstand, each with an invariant of its own on top of `IInv`.  What a step
does to the documents is stated once, without any assumption on the clients, in
the lemmas `...Effect`; each invariant then has one lemma per kind of step.

* `FirstOrderListed`, under every disturbance: `Lists` says that of the open
  orders the earliest is listed, and the first one while the payment is awaited.
  It needs no order of work: the handler lists the order that follows only if no
  open one precedes it (`LessOpenLists`).
* `GroupEndsWithOrders`: each handler looks for "the next order" in its own way,
  by date, by status, or the first of the unfinished.  That a finished shift is
  followed by the right one is `DoingFirst` (the dates are worked one after the
  other), that the last cancellation ends the group is `Unpaid` (orders await
  their payment with their group).  `Worked` conjoins both with the property.
* `ServiceFeeStays`: `Carried` says where the fee is: on a done order, on the
  current one if none is done, on whatever order if all are cancelled; `Moves`
  and `HeirFollows` say when a cancellation hands it on, and to whom.
* `FeesAreRight` rests on these three and on `FreeTogether`: one collaborator has
  all the orders that are left, or nobody has any.  So whoever takes the listed
  order is charged for the current one (`TakesSettled`), and whatever gives it
  back repays that one and no other (`PaidBackSettled`).
* `RefundsAreRight`: a refund is decided by the group's status, `RefundsMatch` by
  what the customer has done (`paid`); `PaidShown` connects that with the
  transaction, `PaymentShown` the transaction with the group.  `CancelledClosed` says that a
  notice that comes late for a cancelled group finds no open order to give back.

TLC confirms that most of these assumptions are needed, with one disturbance at a
time under the constants of `JobOrderly`: `anyOrder` breaks `FeesMatch`,
`ServiceFeeCarried` and `GroupFollowsOrders`, `cancelProcessing` breaks
`RefundsMatch`, `ServiceFeeCarried` and `GroupFollowsOrders`, `cancelTerminal`
breaks `FeesMatch`, `RefundsMatch` and `ServiceFeeCarried`, `lateCancelRoute` and
`lateFailure` break `FeesMatch` and `RefundsMatch`, `authorizeOnly` breaks
`RefundsMatch`, `namedAtCreation` breaks `FeesMatch`.  The one exception is `FeesMatch` with `cancelProcessing`, which
TLC finds true and the proof does not cover.  That a set of orders has a first one
is taken from the well-founded order of the naturals (`LeastNumber`).

`HolderHasPaid`: whoever is past the payment has an entry in the log
(`PaidLogged`), and the log only grows without the repair.  `FirstTakerWins`
holds since the update filters on pending once more.  `NobodyLosesMore`: a
balance that a request has read is never below the floor `Deposit - Fee *
(entries of his)`, since entries are added and none removed; writing it back
less a fee, with one entry more, keeps the wallet above its own floor, whatever
was lost.  `HolderHasPaid` and `NobodyLosesMore` need that the repair cron does
not run, as said above.  `RaceTypeCorrect` holds with it too: the cron job sets a
wallet to what the log replayed says, a recursive function, so its value has to
be shown to exist and to be a number (`AddsExists`, `AddsType`, each from the
least position that would be an exception).

`BooksBalance`, a theorem about the account: each step changes the sets `Taken` and
`Credited` by at most the one transaction it names, and their sizes by the same
as the balances.  `HandlersKeepAccount`, for any number of requests under way:
until two of them meet, each is about a transaction of its own and one at a time
is between reading and writing the customer (`Apart`), so what a request has
checked and read still holds when it writes, whatever the others do meanwhile
(`Follows`; `Unmet` conjoins both).  A step then changes the books of its own
transaction only (`BooksStep`).  Writing the customer is the operation of the
account and all other steps stutter, except the creation of a top-up, the
cancellation of one and its failure, which have their effect at the start.
`HandlersBalance` carries `BooksBalance` over by the refinement.  Nothing in the
program keeps requests from meeting: `SettledTwice` shows what happens then, and
`MoneyFromSomewhere` what can still be said.

`MoneyFromSomewhere`: what a request has read of the customer was within the
bounds when it read it (`Bounded`), and the bounds only widen, since a change
that was written stays written; so writing back what was read, less or plus the
one change of the request, is within them again, whatever others have written
meanwhile.  `MoneyInv` says so of every copy under way.

`CancelledGroupsAreEmpty`: while a cancelled group has open orders somebody is
on the way who will close them, or will open the group (`SomebodyBetween`), and
what each request on its way has already done to the documents is
`CancelFollows`.  `NothingForNothing`: before the first notice no request holds
anything to give back (`NothingYet`), also one that read before a restart.
`PaymentsAreHonoured`: as long as nothing of `accidents` has happened, no cancellation is under way beside a notice
that opens the group (`Apart`); a later one finds the group paid for, so each date
is worked on, given back, or in the list of a cancellation about to give it back
(`PaidFor`).  `HonourInv` adds that the cron job never gives anything back.

`OpenOrdersArePaid`: a request whose points were enough when it checked them
finds them enough when it pays (`Enough`), unless a writer met it (`Meeting`
says that `met` knows everyone under way; `PointsFirst` that the points come
before the orders).  `OrdinalNumbersDiffer`: a number that was read is beyond
those that were there (`NumberBeyond`), and days only pass (`DaysPass`).

The limits and counters of `Ordering`.  Of the requests with the code, those that
met no other are sure to be counted, and of those that met another at least one
(`Uses`): a request that writes the counter alone has read it as it is, one that
met another wrote at least what is sure.  `CodeInv` keeps the counter above
`Uses` of those who have written, and `Uses` of those let through below the limit.
A request that comes later can only move others among those that met, by which
`Uses` shrinks (`UsesShrink`), so the invariant survives it.  `CountedInv` is the
exact count, for requests that come one after the other.  `LimitInv` says that
what a request was let through by still holds until it creates its group order:
orders are created between its check and its creation only by requests it met.
`PointsInv` says the same of the points: a payment that has read the balance,
and met no writer, has read what is still there.

Sums.  `Orders`, the points paid and the totals of `Pricing` are folds of the
community modules over sets, which choose an element and recurse.  `Adds(w, S, f)`
says that f is such a recursion over the subsets of S.  What is proved of it, for
finite sets of any size, is proved by a smallest counterexample (strict inclusion
on the subsets of a finite set is well-founded), not by the induction theorems:
it exists, is unique, does not depend on the element chosen (`AddsAny`), is
additive (`SumOfBoth`), and is a product where all terms are equal
(`SumOfOneValue`).  The folds are then shown to be this sum (`OrdersAreTotal`,
`DatesAreTotal`, `TotalIs`, `FoldIs`).  For this the requests are finitely many
(`OrderingAssumption`).

`Pricing`: `PricingInv` states what each stage has made of the dates: the sum of
their fees (while they are priced), the discounts as multiples of a thousand and
the whole (once promotions are taken), the part of each date (once split), its
final fee (once charged).  `OrdersCostTheWhole` adds the final fees up term by
term; `NoDiscountIsLost` is `PartsAddUp`, the quotients and the rest on the last
date.  `DatesCostThemselves` needs that the price of the shared service object is
still the first one where nothing is counted, and that the only number of
thousands that satisfies the reference definition `FeeOfDate` is Math.ceil's
(`ThousandsAre`).

`TicketsBringNoMore`: no document has more than the executed tickets brought, and
no copy of one that may still be written back (`FairEverywhere`): a copy was fair
when it was read, and executed tickets only become more.  `FinesReturnedOnce`:
each ticket is being revoked by at most as many as have been paid for (`Money`,
`Chosen`), unless it is crossed.  `NthAlwaysRises`: the number of a ticket is at
most the number of violations created in its cycle for its collaborator, itself
included (`Numbered`), and one that was counted is later than all that were
created before in the cycle, unless it is the last rule or the two were counted
together (`Ordered`).

Only model-checked: the liveness properties `GroupFollows`, `NobodyWaitsForEver`
and `Forgiven`.  Liveness with fairness and ENABLED are out of this prover's
reach, as are induction over data and recursive operators.

## 6. What is not modelled

* The two wallets of a collaborator and their conversion, the older
  transactions of collaborators (`collaborator/finance`), payout and rewards at
  completion, loop orders (JS 2266-2416): planned, section 2.
* A failure of the database between two writes of a handler, outside
  `PaymentRace` and `Tickets`, where the server may stop.  JS 320 and TS 138
  are hazards of that kind with no property.
* Hours and dates: the overlap query (OO 2864) and the waiting times in minutes
  or milliseconds (JS 1167 and its callers) compare clock values, the models
  have order only.
* The monthly board (CO 773 lists only who has exactly two violations), the
  severities of punish policies, several policies beside each other, ranks and commissions of customers,
  whom and what a promotion is for.
* Floating point in `Pricing`.
* Chat, notifications, reports, content and catalogues, administration,
  authentication and OTP, redis (its calls are commented out): PROJECT.json
  lists each with its reason.  Of the legacy services only the late cancel route
  is modelled.  Gateways are external: their notices come at any time after the
  link is out, as often as they like.

The repository is large (some 150 000 lines of code): most of it is CRUD, queries for
the administration and the previous generation of the same handlers.  The models
cover the handlers that move an order, money or a collaborator's standing.
