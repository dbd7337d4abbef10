----------------------------- MODULE PaymentRace -----------------------------
(***************************************************************************)
(* The payment of a group order beside its cancellation.  The gateway's    *)
(* notices (PS.handleOrderPayment and the Momo routes, which end in        *)
(* JS.processingToPending), the customer's GS.cancelGroupOrder, and the    *)
(* same handler called by the cron job that lets unpaid orders expire (and *)
(* for a notice of failure), opened up at the awaits.  Each request keeps *)
(* the status of the group it read first and decides by it what to refund. *)
(*                                                                         *)
(* Restart stops the server between two steps: the requests under way are  *)
(* gone, what they wrote stays.  Of an order that is paid for, pending     *)
(* stands for pending, confirm and doing, which no handler here tells      *)
(* apart.  The collaborator's side of a cancellation is in JobLifecycle.   *)
(***************************************************************************)
EXTENDS Integers, FiniteSets

CONSTANTS
    N,               \* orders of the group, by working date
    Notices,         \* notices of success the gateway delivers, repeated ones too
    CustomerCancels, \* cancel requests of the customer
    Cron,            \* cancelProcessingOrderAfter13Minutes / After15Minutes
    MayRestart       \* may the server stop once?

Orders == 1..N
Cancels == CustomerCancels \cup {Cron}

ASSUME PaymentAssumption == /\ N \in Nat \ {0}
                            /\ Cron \notin CustomerCancels
                            /\ MayRestart \in BOOLEAN

VARIABLES
    order,           \* status of every order
    group,           \* status of the group order
    transaction,     \* status of its transaction
    refunds,         \* in pay_point: how often the fee of each order was given back
    notice,          \* per notice: where it is, what it has read
    cancel,          \* per cancellation: likewise
    shift,           \* the request that ends a working date
    accidents        \* what has happened: "restart", a refund "overwritten" by another,
                     \* a payment "crossed" by a cancellation

documents == <<order, group, transaction, refunds>>
vars == <<documents, notice, cancel, shift, accidents>>

Resting == {"new", "over"}
OrderStatus == {"processing", "pending", "done", "cancel"}
Open == {o \in Orders : order[o] \in {"processing", "pending"}}

Nothing == [o \in Orders |-> 0]

Init ==
    /\ order = [o \in Orders |-> "processing"]
    /\ group = "processing"
    /\ transaction = "processing"
    /\ refunds = Nothing
    /\ notice = [n \in Notices |-> [at |-> "new", opens |-> FALSE,
                                    remain |-> {}, refunds |-> Nothing]]
    /\ cancel = [c \in Cancels |-> [at |-> "new", refund |-> FALSE, remain |-> {}, refunds |-> Nothing]]
    /\ shift = [at |-> "new", order |-> 1]
    /\ accidents = {}

(* Was the order ever paid for, as far as the server can know?             *)
Paid == \E n \in Notices : notice[n].at # "new"

CancelUnderWay == \E c \in Cancels : cancel[c].at \notin Resting

(* A cancellation begins while a notice is opening the group.              *)
Crossing ==
    accidents' = IF \E n \in Notices : notice[n].at \in {"loaded", "opened", "paid"}
                 THEN accidents \cup {"crossed"} ELSE accidents

(* Mutant of Remaining: unpaid orders are counted.                         *)
RemainingUnpaid == {o \in Orders : order[o] \in {"processing", "pending"}}

(* OO.totalFinalFeeRemain: the orders whose final_fee it adds up.          *)
Remaining == {o \in Orders : order[o] = "pending"}

(* Mutant of GiveBack: the points are taken.                               *)
GiveBackTaken(request) == [o \in Orders |-> request.refunds[o] - IF o \in request.remain THEN 1 ELSE 0]

(* CU.addPayPoint changes the customer it has read and writes him back.    *)
GiveBack(request) == [o \in Orders |-> request.refunds[o] + IF o \in request.remain THEN 1 ELSE 0]

Overwriting(request) ==
    accidents' = IF request.refunds = refunds THEN accidents ELSE accidents \cup {"overwritten"}

-----------------------------------------------------------------------------
(* A notice of success.                                                    *)

(* PS.vnpayIPN reads the transaction, and handleOrderPayment drops the     *)
(* notice if it is done; the Momo routes look at nothing.                  *)
Arrive(n) ==
    /\ notice[n].at = "new"
    /\ \E at \in IF transaction = "done" THEN {"arrived", "over"} ELSE {"arrived"} :
          notice' = [notice EXCEPT ![n].at = at]
    /\ UNCHANGED <<documents, cancel, shift, accidents>>

(* JS.processingToPending reads the group: it has something to do for a    *)
(* group that is not paid and for one that is cancelled.                   *)
LoadGroup(n) ==
    /\ notice[n].at = "arrived"
    /\ notice' = [notice EXCEPT ![n].opens = (group = "processing"),
                                ![n].at = IF group = "processing" THEN "loaded"
                                          ELSE IF group = "cancel" THEN "late" ELSE "over"]
    /\ accidents' = IF group = "processing" /\ CancelUnderWay
                    THEN accidents \cup {"crossed"} ELSE accidents
    /\ UNCHANGED <<documents, cancel, shift>>

(* OO.changeStatusAllOrderByGroupOrder: every order, whatever it is,       *)
OpenOrders(n) ==
    /\ notice[n].at = "loaded"
    /\ order' = [o \in Orders |-> "pending"]
    /\ notice' = [notice EXCEPT ![n].at = "opened"]
    /\ UNCHANGED <<group, transaction, refunds, cancel, shift, accidents>>

(* GO.changeStatus, and unless Momo's payment is only authorised (9000),   *)
OpenGroup(n) ==
    /\ notice[n].at = "opened"
    /\ group' = "pending"
    /\ \E at \in {"paid", "over"} : notice' = [notice EXCEPT ![n].at = at]
    /\ UNCHANGED <<order, transaction, refunds, cancel, shift, accidents>>

(* the transaction is done.                                                *)
CloseTransaction(n) ==
    /\ notice[n].at = "paid"
    /\ transaction' = "done"
    /\ notice' = [notice EXCEPT ![n].at = "over"]
    /\ UNCHANGED <<order, group, refunds, cancel, shift, accidents>>

(* The group was cancelled: what remains of it is added up                 *)
LateSum(n) ==
    /\ notice[n].at = "late"
    /\ notice' = [notice EXCEPT ![n].at = "summed", ![n].remain = Remaining]
    /\ UNCHANGED <<documents, cancel, shift, accidents>>

(* and given back.                                                         *)
LateRead(n) ==
    /\ notice[n].at = "summed"
    /\ notice' = [notice EXCEPT ![n].at = "repaying", ![n].refunds = refunds]
    /\ UNCHANGED <<documents, cancel, shift, accidents>>

LateWrite(n) ==
    /\ notice[n].at = "repaying"
    /\ refunds' = GiveBack(notice[n])
    /\ Overwriting(notice[n])
    /\ notice' = [notice EXCEPT ![n] = [@ EXCEPT !.at = "over", !.remain = {}, !.refunds = Nothing]]
    /\ UNCHANGED <<order, group, transaction, cancel, shift>>

Handle(n) == \/ LoadGroup(n)        \/ OpenOrders(n) \/ OpenGroup(n)
             \/ CloseTransaction(n) \/ LateSum(n)    \/ LateRead(n)  \/ LateWrite(n)

-----------------------------------------------------------------------------
(* GS.cancelGroupOrder.                                                    *)

(* The cron job lists the group if it is not paid, and does not look again *)
(* when its turn comes; a notice of failure does the same things.          *)
CronLists ==
    /\ cancel[Cron].at \in Resting
    /\ group = "processing"
    /\ cancel' = [cancel EXCEPT ![Cron].at = "listed"]
    /\ Crossing
    /\ UNCHANGED <<documents, notice, shift>>

(* Mutant of CancelLoads: the condition on the status is turned round.     *)
CancelLoadsSwapped(c) ==
    /\ cancel[c].at = IF c = Cron THEN "listed" ELSE "new"
    /\ cancel' = [cancel EXCEPT ![c].at = "loaded",
                                ![c].refund = (c # Cron /\ group = "processing")]
    /\ Crossing
    /\ UNCHANGED <<documents, notice, shift>>

(* The group is read.  Its status then decides whether the customer is     *)
(* paid back in the end; the cron job does not do that.                    *)
CancelLoads(c) ==
    /\ cancel[c].at = IF c = Cron THEN "listed" ELSE "new"
    /\ cancel' = [cancel EXCEPT ![c].at = "loaded",
                                ![c].refund = (c # Cron /\ group # "processing")]
    /\ Crossing
    /\ UNCHANGED <<documents, notice, shift>>

(* findCurrentOrderInGroupOrder finds nothing: a TypeError ends it.        *)
CancelFinds(c) ==
    /\ cancel[c].at = "loaded"
    /\ cancel' = [cancel EXCEPT ![c].at = IF Open = {} THEN "over" ELSE "found"]
    /\ UNCHANGED <<documents, notice, shift, accidents>>

(* GO.cancel                                                               *)
CancelGroup(c) ==
    /\ cancel[c].at = "found"
    /\ group' = "cancel"
    /\ cancel' = [cancel EXCEPT ![c].at = "cancelling"]
    /\ UNCHANGED <<order, transaction, refunds, notice, shift, accidents>>

(* What would be given back is added up before the orders are cancelled.   *)
CancelSums(c) ==
    /\ cancel[c].at = "cancelling"
    /\ cancel' = [cancel EXCEPT ![c].at = "summed",
                                ![c].remain = IF cancel[c].refund THEN Remaining ELSE {}]
    /\ UNCHANGED <<documents, notice, shift, accidents>>

(* Mutants of CancelOrders: orders that wait for a payment stay; so do     *)
(* those that are paid for.                                                *)
CancelOrdersPaid(c) ==
    /\ cancel[c].at = "summed"
    /\ order' = [o \in Orders |-> IF order[o] = "pending" THEN "cancel" ELSE order[o]]
    /\ cancel' = [cancel EXCEPT ![c].at = IF cancel[c].refund THEN "refunding" ELSE "cancelled"]
    /\ UNCHANGED <<group, transaction, refunds, notice, shift, accidents>>
CancelOrdersUnpaid(c) ==
    /\ cancel[c].at = "summed"
    /\ order' = [o \in Orders |-> IF order[o] = "processing" THEN "cancel" ELSE order[o]]
    /\ cancel' = [cancel EXCEPT ![c].at = IF cancel[c].refund THEN "refunding" ELSE "cancelled"]
    /\ UNCHANGED <<group, transaction, refunds, notice, shift, accidents>>

(* OO.cancelAllOrderByGroupOrder                                           *)
CancelOrders(c) ==
    /\ cancel[c].at = "summed"
    /\ order' = [o \in Orders |-> IF o \in Open THEN "cancel" ELSE order[o]]
    /\ cancel' = [cancel EXCEPT ![c].at = IF cancel[c].refund THEN "refunding" ELSE "cancelled"]
    /\ UNCHANGED <<group, transaction, refunds, notice, shift, accidents>>

(* Step 2, CU.addPayPoint.                                                 *)
RefundReads(c) ==
    /\ cancel[c].at = "refunding"
    /\ cancel' = [cancel EXCEPT ![c].at = "repaying", ![c].refunds = refunds]
    /\ UNCHANGED <<documents, notice, shift, accidents>>

RefundWrites(c) ==
    /\ cancel[c].at = "repaying"
    /\ refunds' = GiveBack(cancel[c])
    /\ Overwriting(cancel[c])
    /\ cancel' = [cancel EXCEPT ![c] = [@ EXCEPT !.at = "cancelled", !.remain = {}, !.refunds = Nothing]]
    /\ UNCHANGED <<order, group, transaction, notice, shift>>

(* Step 8: the transaction is read, and cancelled if it was processing.    *)
CancelReadsTransaction(c) ==
    /\ cancel[c].at = "cancelled"
    /\ cancel' = [cancel EXCEPT ![c].at = IF transaction = "processing" THEN "closing" ELSE "over"]
    /\ UNCHANGED <<documents, notice, shift, accidents>>

CancelWritesTransaction(c) ==
    /\ cancel[c].at = "closing"
    /\ transaction' = "cancel"
    /\ cancel' = [cancel EXCEPT ![c].at = "over"]
    /\ UNCHANGED <<order, group, refunds, notice, shift, accidents>>

Cancel(c) == \/ CancelLoads(c)  \/ CancelFinds(c) \/ CancelGroup(c) \/ CancelSums(c)
             \/ CancelOrders(c) \/ RefundReads(c) \/ RefundWrites(c)
             \/ CancelReadsTransaction(c)         \/ CancelWritesTransaction(c)

-----------------------------------------------------------------------------
(* JS.doingToDone ends a working date: the order is checked,               *)
ShiftChecks(o) ==
    /\ shift.at = "new"
    /\ order[o] = "pending"
    /\ shift' = [at |-> "checked", order |-> o]
    /\ UNCHANGED <<documents, notice, cancel, accidents>>

(* done,                                                                   *)
ShiftDone ==
    /\ shift.at = "checked"
    /\ order' = [order EXCEPT ![shift.order] = "done"]
    /\ shift' = [shift EXCEPT !.at = "done"]
    /\ UNCHANGED <<group, transaction, refunds, notice, cancel, accidents>>

(* and JS.handleNextOrder sets the group: it stays open if no earlier date *)
(* is open and a later one is, and the handler fails if that has nobody to *)
(* work on it.                                                             *)
ShiftSetsGroup ==
    /\ shift.at = "done"
    /\ IF /\ \E o \in Remaining : o > shift.order
          /\ \A o \in Remaining : o > shift.order
       THEN group' \in {"pending", group}
       ELSE group' = "done"
    /\ shift' = [shift EXCEPT !.at = "new"]
    /\ UNCHANGED <<order, transaction, refunds, notice, cancel, accidents>>

Shift == (\E o \in Orders : ShiftChecks(o)) \/ ShiftDone \/ ShiftSetsGroup

-----------------------------------------------------------------------------
Quiet == /\ \A n \in Notices : notice[n].at \in Resting
         /\ \A c \in Cancels : cancel[c].at \in Resting
         /\ shift.at = "new"

(* The server stops and starts again; that matters if it was busy.         *)
Restart ==
    /\ MayRestart
    /\ ~Quiet
    /\ "restart" \notin accidents
    /\ notice' = [n \in Notices |-> [notice[n] EXCEPT
                     !.at = IF @ = "new" THEN "new" ELSE "over", !.remain = {}, !.refunds = Nothing]]
    /\ cancel' = [c \in Cancels |-> [cancel[c] EXCEPT
                     !.at = IF @ = "new" THEN "new" ELSE "over", !.remain = {}, !.refunds = Nothing]]
    /\ shift' = [shift EXCEPT !.at = "new"]
    /\ accidents' = accidents \cup {"restart"}
    /\ UNCHANGED documents

Next == \/ \E n \in Notices : Arrive(n) \/ Handle(n)
        \/ \E c \in Cancels : Cancel(c)
        \/ CronLists
        \/ Shift
        \/ Restart

Spec == Init /\ [][Next]_vars

(* The server does not idle while a request is under way or the cron job   *)
(* is due (node.js runs what is ready; which request goes first is open).  *)
Work == \/ \E n \in Notices : Handle(n)
        \/ \E c \in Cancels : cancel[c].at # "new" /\ Cancel(c)
        \/ CronLists

FairSpec == Spec /\ WF_vars(Work)

-----------------------------------------------------------------------------
(* Types: the schema's status fields, and what the requests have read.     *)
GroupStatus == {"processing", "pending", "done", "cancel"}

TypeOK ==
    /\ order \in [Orders -> OrderStatus]
    /\ group \in GroupStatus
    /\ transaction \in {"processing", "done", "cancel"}
    /\ refunds \in [Orders -> Nat]
    /\ notice \in [Notices -> [at : {"new", "arrived", "loaded", "opened", "paid", "late", "summed",
                                     "repaying", "over"},
                               opens : BOOLEAN, remain : SUBSET Orders,
                               refunds : [Orders -> Nat]]]
    /\ cancel \in [Cancels -> [at : {"new", "listed", "loaded", "found", "cancelling", "summed",
                                     "refunding", "repaying", "cancelled", "closing", "over"},
                               refund : BOOLEAN, remain : SUBSET Orders, refunds : [Orders -> Nat]]]
    /\ shift \in [at : {"new", "checked", "done"}, order : Orders]
    /\ accidents \subseteq {"restart", "overwritten", "crossed"}

(* When all requests have run to their end, however notices of success,    *)
(* cancellations and finished shifts were interleaved, no order of a       *)
(* cancelled group is left for somebody to take or to pay: GO.cancel and   *)
(* cancelAllOrderByGroupOrder against changeStatusAllOrderByGroupOrder.    *)
CancelledLeavesNothing ==
    Quiet /\ "restart" \notin accidents /\ group = "cancel" => Open = {}

(* Before the gateway's first notice of success nobody works and nothing   *)
(* is given back, also if cancellations overlap or the server restarts in  *)
(* the middle of them (totalFinalFeeRemain leaves processing orders out).  *)
NothingBeforePayment ==
    ~Paid => \A o \in Orders : order[o] \in {"processing", "cancel"} /\ refunds[o] = 0

(* Where a notice opened the group and no cancellation was under way       *)
(* beside it, then whatever comes later, cancellations, late and repeated  *)
(* notices and the cron job, every date that was paid is worked on or      *)
(* given back; unless the server stopped or a refund was overwritten.      *)
PaymentHonoured ==
    Quiet /\ accidents = {} /\ (\E n \in Notices : notice[n].opens) =>
        \A o \in Orders : order[o] \in {"pending", "done"} \/ refunds[o] > 0

(* No order waits for its payment for ever, unless the server stopped      *)
(* between the group and its orders (the cron job lists groups only).      *)
NobodyWaitsForEver ==
    <>[]("restart" \in accidents \/ \A o \in Orders : order[o] # "processing")
=============================================================================
