---------------------------- MODULE JobLifecycle ----------------------------
(***************************************************************************)
(* The life of one group order ("dich vu") and of its orders, one order    *)
(* per working date ("ca lam"), as the handlers of @core-system change it: *)
(* job-system (JS), order-system (OS) and group-order-system (GS) on top   *)
(* of order-oop-system (OO) and group-order-oop-system (GO).               *)
(*                                                                         *)
(* Every handler is one atomic action here; AssignRace opens the handlers  *)
(* up at their awaits.  Money is a ledger per order: charged[o][c] is what *)
(* collaborator c was charged for order o less what was given back, and    *)
(* refunded[o] what was added to the customer's pay_point for o, so a      *)
(* wallet's balance is the sum of its entries.                             *)
(***************************************************************************)
EXTENDS Integers

CONSTANTS
    N,                \* number of working dates, orders are numbered by date_work
    Collaborators,
    NoCollaborator,   \* the null of id_collaborator
    PaymentMethods,   \* subset of {"cash", "point", "online"} to explore
    Pricings,         \* subset of {"legacy", "deposit"}: is subtotal_fee = initial_fee or not
    PlatformFee,      \* platform_fee, and work_shift_deposit, of every order
    ServiceFee,       \* the service fee carried by one order as pending_money
    ShiftFee,         \* final_fee of an order without the service fee
    Disturbances,     \* what clients and gateways may do beyond the orderly use
    MoneyBound        \* bound on every ledger entry

(* "anyOrder": requests name any order, not only the earliest open one.    *)
(* "cancelProcessing", "cancelTerminal": cancellations of an order that    *)
(*   awaits payment, or is already done or cancelled, are sent.            *)
(* "lateCancelRoute": the route of collaborator/job is in use.             *)
(* "lateFailure": a failure notice of the gateway comes after a success.   *)
(* "authorizeOnly": the gateway holds the money before it captures it.     *)
(* "namedAtCreation": orders are created with a collaborator, whom nobody  *)
(*   has assigned yet (or never does).                                     *)
AllDisturbances == {"anyOrder", "cancelProcessing", "cancelTerminal",
                    "lateCancelRoute", "lateFailure", "authorizeOnly", "namedAtCreation"}

ASSUME NAssumption == N \in Nat \ {0}
ASSUME CollaboratorAssumption == NoCollaborator \notin Collaborators
ASSUME TermsAssumption == /\ PaymentMethods \subseteq {"cash", "point", "online"}
                          /\ Pricings \subseteq {"legacy", "deposit"}
ASSUME MoneyAssumption == /\ PlatformFee \in Nat \ {0}
                          /\ ServiceFee \in Nat \ {0}
                          /\ ShiftFee \in Nat \ {0}
                          /\ MoneyBound \in Nat
ASSUME DisturbanceAssumption == Disturbances \subseteq AllDisturbances

VARIABLES
    terms,                   \* payment_method, pricing and the payload's id_collaborator
    status,                  \* order.status
    id_collaborator,         \* order.id_collaborator
    id_cancel_collaborator,  \* who cancelled the order, order.id_cancel_collaborator
    is_duplicate,            \* FALSE: the order is the one shown in the job lists
    pending_money,           \* order.pending_money, positive with a service_fee
    final_fee,               \* order.final_fee
    group_status,            \* group_order.status
    group_collaborator,      \* group_order.id_collaborator
    transaction,             \* status of the payment's transaction
    paid,                    \* what the customer has done: paid or not, in time or late
    charged,                 \* ledger: net fee charged per order and collaborator
    refunded                 \* ledger: pay_point added per order

orderVars == <<status, id_collaborator, id_cancel_collaborator, is_duplicate>>
feeVars == <<pending_money, final_fee>>
groupVars == <<group_status, group_collaborator>>
ledgers == <<charged, refunded>>
vars == <<terms, orderVars, feeVars, groupVars, transaction, paid, ledgers>>

Orders == 1..N
Assignee == Collaborators \cup {NoCollaborator}
OrderStatus == {"processing", "pending", "confirm", "doing", "done", "cancel"}
Open == {"pending", "confirm", "doing"}
Assigned == {"confirm", "doing"}
Unfinished == Open \cup {"processing"}

May(disturbance) == disturbance \in Disturbances

-----------------------------------------------------------------------------
(* Queries on the orders of the group.                                     *)

With(st, S) == {o \in Orders : st[o] \in S}

First(S) == CHOOSE o \in S : \A p \in S : o <= p

(* Mutants of NextOrder: the check for an earlier open order is dropped,   *)
(* or only confirmed, only pending orders are looked for.                  *)
NextOrderUnguarded(st, o) ==
    {n \in With(st, Open) : n > o /\ \A p \in With(st, Open) : p <= o \/ n <= p}
NextOrderConfirmed(st, o) ==
    {n \in With(st, Assigned) : n > o /\ \A p \in With(st, Assigned) : p = o \/ n <= p}
NextOrderPending(st, o) ==
    LET open == With(st, {"pending"})
    IN  {n \in open : n > o /\ \A p \in open : p = o \/ n <= p}

(* OO.findNextOrderInGroupOrder, as a set of at most one order: the open   *)
(* order that follows o, none if an open order precedes o.                 *)
NextOrder(st, o) ==
    {n \in With(st, Open) : n > o /\ \A p \in With(st, Open) : p = o \/ n <= p}

(* The order orderly requests are about: the earliest unfinished one.      *)
IsCurrent(o) == o \in With(status, Unfinished) /\ o = First(With(status, Unfinished))

Requested(o) == May("anyOrder") \/ IsCurrent(o)

(* What an order costs the collaborator who takes it: the fee of the old   *)
(* pricing, the deposit of the new one, which is asked for cash only.      *)
Fee(o, pm) == IF terms.pricing = "legacy" THEN PlatformFee + pm[o]
              ELSE IF terms.payment_method = "cash" THEN PlatformFee ELSE 0

(* The ledger with fee added to the entries of order o and collaborator c. *)
Charge(ledger, o, c, fee) == [ledger EXCEPT ![o][c] = @ + fee]

(* The ledger after each order of S is charged to the collaborator who has *)
(* it, with the pending moneys pm.                                         *)
Bill(ledger, S, pm) ==
    [p \in Orders |-> IF p \in S THEN [ledger[p] EXCEPT ![id_collaborator[p]] = @ + Fee(p, pm)]
                      ELSE ledger[p]]

WithinBound ==
    \A o \in Orders : /\ refunded'[o] <= MoneyBound
                      /\ \A c \in Collaborators : charged'[o][c] \in (-MoneyBound)..MoneyBound

-----------------------------------------------------------------------------
(* JS.createGroupOrder: an order paid by wallet or card awaits payment.    *)
(* Group and orders are created with the id_collaborator of the payload;   *)
(* that JS 1065 then has him take the job is a PendingToConfirm, which     *)
(* an admin asks for and which may be refused.                             *)
Init ==
    /\ terms \in [payment_method : PaymentMethods, pricing : Pricings, named : Assignee]
    /\ terms.named # NoCollaborator => May("namedAtCreation")
    /\ LET first == IF terms.payment_method = "online" THEN "processing" ELSE "pending"
       IN  /\ status = [o \in Orders |-> first]
           /\ group_status = first
    /\ id_collaborator = [o \in Orders |-> terms.named]
    /\ id_cancel_collaborator = [o \in Orders |-> {}]
    /\ is_duplicate = [o \in Orders |-> o # 1]
    /\ pending_money = [o \in Orders |-> IF o = 1 THEN ServiceFee ELSE 0]
    /\ final_fee = [o \in Orders |-> ShiftFee + (IF o = 1 THEN ServiceFee ELSE 0)]
    /\ group_collaborator = terms.named
    /\ transaction = IF terms.payment_method = "online" THEN "processing" ELSE "none"
    /\ paid = IF terms.payment_method = "point" THEN "inTime" ELSE "no"
    /\ charged = [o \in Orders |-> [c \in Collaborators |-> 0]]
    /\ refunded = [o \in Orders |-> 0]

-----------------------------------------------------------------------------
(* Taking the job.                                                         *)

(* Charge the fee of o, then give every pending order and the group to c.  *)
(* With no pending order OO.assignCollaboratorByGroupOrder dereferences    *)
(* null: the request fails after the fee was charged.                      *)
TakeJob(o, c) ==
    LET pending == With(status, {"pending"})
    IN  /\ charged' = Charge(charged, o, c, Fee(o, pending_money))
        /\ status' = [p \in Orders |-> IF p \in pending THEN "confirm" ELSE status[p]]
        /\ id_collaborator' = [p \in Orders |-> IF p \in pending THEN c ELSE id_collaborator[p]]
        /\ group_status' = IF pending = {} THEN group_status ELSE "confirm"
        /\ group_collaborator' = IF pending = {} THEN group_collaborator ELSE c
        /\ UNCHANGED <<terms, id_cancel_collaborator, is_duplicate, feeVars, transaction, paid, refunded>>
        /\ WithinBound

(* JS.pendingToConfirm, by a collaborator or by an admin.  The checks on   *)
(* block lists, overlaps and balances only refuse the request.             *)
PendingToConfirm(o, c) ==
    /\ May("anyOrder") \/ (status[o] = "pending" /\ ~is_duplicate[o])
    /\ status[o] \in {"processing", "pending"}
    /\ \E subject \in {"collaborator", "admin"} :
          \/ subject = "admin"
          \/ id_collaborator[o] = NoCollaborator /\ c \notin id_cancel_collaborator[o]
    /\ TakeJob(o, c)

(* JS.addCollaboratorByOrder: only a collaborator already there refuses it. *)
AddCollaboratorByOrder(o, c) ==
    /\ May("anyOrder") \/ (status[o] = "pending" /\ ~is_duplicate[o])
    /\ id_collaborator[o] = NoCollaborator
    /\ TakeJob(o, c)

(* Mutant of Changeable: a group being worked on is not refused.           *)
ChangeableWhileDoing == group_status \notin {"done", "cancel"}

(* The states of the group in which JS.changeCollaborator goes on.         *)
Changeable == group_status \notin {"done", "cancel", "doing"}

(* JS.changeCollaborator: the new collaborator pays for o and gets every   *)
(* confirmed order, the old one gets the fee of o back.                    *)
ChangeCollaborator(o, c) ==
    LET old == id_collaborator[o]
        fee == Fee(o, pending_money)
    IN  /\ Requested(o)
        /\ old # NoCollaborator
        /\ Changeable
        /\ charged' = Charge(Charge(charged, o, c, fee), o, old, -fee)
        /\ id_collaborator' = [p \in Orders |->
                                 IF status[p] = "confirm" THEN c ELSE id_collaborator[p]]
        /\ group_collaborator' = c
        /\ UNCHANGED <<terms, status, id_cancel_collaborator, is_duplicate, feeVars,
                       group_status, transaction, paid, refunded>>
        /\ WithinBound

-----------------------------------------------------------------------------
(* Working.                                                                *)

(* JS.confirmToDoing.                                                      *)
ConfirmToDoing(o) ==
    /\ Requested(o)
    /\ status[o] = "confirm"
    /\ \A p \in Orders : ~(status[p] = "doing" /\ id_collaborator[p] = id_collaborator[o])
    /\ status' = [status EXCEPT ![o] = "doing"]
    /\ group_status' = "doing"
    /\ UNCHANGED <<terms, id_collaborator, id_cancel_collaborator, is_duplicate, feeVars,
                   group_collaborator, transaction, paid, ledgers>>

(* JS.doingToDone with JS.handleNextOrder: the next order is charged and   *)
(* shown; without one the group is done.  A next order without             *)
(* collaborator ends the request with a TypeError after the order is done. *)
DoingToDone(o) ==
    LET st == [status EXCEPT ![o] = "done"]
        c == id_collaborator[o]
        next == NextOrder(st, o)
        broken == \E n \in next : id_collaborator[n] = NoCollaborator
    IN  /\ status[o] = "doing"
        /\ status' = st
        /\ group_status' = IF broken THEN group_status
                           ELSE IF next = {} THEN "done" ELSE "confirm"
        /\ is_duplicate' = [p \in Orders |->
              IF broken \/ next = {} THEN is_duplicate[p]
              ELSE IF p = o THEN TRUE ELSE IF p \in next THEN FALSE ELSE is_duplicate[p]]
        /\ charged' = IF broken THEN charged
                      ELSE Bill(charged, {n \in next : id_collaborator[n] = c}, pending_money)
        /\ UNCHANGED <<terms, id_collaborator, id_cancel_collaborator, feeVars,
                       group_collaborator, transaction, paid, refunded>>
        /\ WithinBound

-----------------------------------------------------------------------------
(* Cancelling one order: OS.cancelOrder for the flags a caller sets.       *)

(* Mutant of Heir: only a confirmed order can take over the fee.           *)
HeirConfirmed(st, o) ==
    LET heirs == With(st, {"confirm"})
    IN  {h \in heirs : /\ With(st, {"done"}) = {}
                       /\ pending_money[o] > 0
                       /\ h = First(heirs)}

(* Where the service fee of the cancelled order o goes (moveServiceFee-    *)
(* NextOrder): the earliest pending or confirmed order, as long as no      *)
(* order is done.                                                          *)
Heir(st, o) ==
    LET heirs == With(st, {"pending", "confirm"})
    IN  {h \in heirs : /\ With(st, {"done"}) = {}
                       /\ pending_money[o] > 0
                       /\ h = First(heirs)}

CancelOrder(o, subject, steps) ==
    LET cancels == "cancel" \in steps
        live == group_status # "processing"
        st == IF cancels THEN [status EXCEPT ![o] = "cancel"] ELSE status
        heir == IF cancels THEN Heir(st, o) ELSE {}
        moved == IF heir = {} THEN 0 ELSE pending_money[o]
        pm == [p \in Orders |-> IF p \in heir THEN moved
                                ELSE IF p = o THEN pending_money[p] - moved ELSE pending_money[p]]
        ff == [p \in Orders |-> IF p \in heir THEN final_fee[p] + moved
                                ELSE IF p = o THEN final_fee[p] - moved ELSE final_fee[p]]
        next == NextOrder(st, o)
        earlier == \E p \in Orders : p < o /\ status[p] \in Assigned
        repays == /\ "refundCollaborator" \in steps /\ live /\ ~earlier
                  /\ group_collaborator # NoCollaborator
        unassigns == "unassign" \in steps /\ live
        bills == "minusNext" \in steps /\ live /\ terms.pricing = "legacy"
        broken == bills /\ \E n \in next : id_collaborator[n] = NoCollaborator
        rewritten == /\ subject # "collaborator"
                     /\ \/ id_collaborator[o] # NoCollaborator
                        \/ "refundCollaborator" \in steps /\ ~earlier /\ live
                           /\ group_collaborator # NoCollaborator
    IN  /\ status' = [p \in Orders |->
              IF unassigns /\ st[p] \in Assigned THEN "pending" ELSE st[p]]
        /\ id_collaborator' = [p \in Orders |->
              IF unassigns /\ st[p] \in Assigned THEN NoCollaborator ELSE id_collaborator[p]]
        /\ id_cancel_collaborator' =
              IF subject = "collaborator" /\ (cancels \/ unassigns)
              THEN [id_cancel_collaborator EXCEPT ![o] = @ \cup ({id_collaborator[o]} \cap Collaborators)]
              ELSE id_cancel_collaborator
        /\ is_duplicate' = [p \in Orders |->
              IF ~cancels \/ N = 1 THEN is_duplicate[p]
              ELSE IF p = o THEN (rewritten => is_duplicate[p])
              ELSE IF p \in next THEN FALSE ELSE is_duplicate[p]]
        /\ pending_money' = pm
        /\ final_fee' = ff
        /\ group_status' = IF unassigns THEN "pending"
                           ELSE IF ~cancels \/ With(st, Open) # {} THEN group_status
                           ELSE IF With(st, {"done"}) # {} THEN "done" ELSE "cancel"
        /\ group_collaborator' = IF unassigns THEN NoCollaborator ELSE group_collaborator
        /\ refunded' =
              IF "refundCustomer" \in steps /\ live /\ terms.payment_method # "cash"
              THEN [refunded EXCEPT ![o] = @ + ff[o]]
              ELSE refunded
        /\ LET repaid == IF repays THEN Charge(charged, o, group_collaborator, -Fee(o, pending_money))
                                   ELSE charged
           IN  charged' = IF bills /\ ~broken THEN Bill(repaid, next, pm) ELSE repaid
        /\ transaction' = IF transaction = "processing" /\ ~broken THEN "cancel" ELSE transaction
        /\ UNCHANGED <<terms, paid>>
        /\ WithinBound

Cancellable(o) ==
    \/ status[o] \in Open
    \/ status[o] = "processing" /\ May("cancelProcessing")
    \/ status[o] \in {"done", "cancel"} /\ May("cancelTerminal")

(* The customer's route, which checks no status.                           *)
CustomerCancelOrder(o) ==
    /\ Cancellable(o)
    /\ CancelOrder(o, "customer", {"cancel", "refundCustomer", "refundCollaborator", "minusNext"})

(* JS.changeStatusOrder with JS.cancelOrder, by an admin.                  *)
AdminCancelOrder(o) ==
    /\ Cancellable(o)
    /\ status[o] \notin {"cancel", "done"}
    /\ CancelOrder(o, "admin", {"cancel", "refundCustomer", "refundCollaborator", "minusNext"})

(* cancel_job of the collaborator API: the shift goes back to the list.    *)
CollaboratorCancelJob(o) ==
    /\ Requested(o)
    /\ status[o] \in Assigned
    /\ CancelOrder(o, "collaborator", {"refundCollaborator", "unassign"})

(* cancelOrder of collaborator/job near the working time.                  *)
CollaboratorLateCancel(o) ==
    /\ May("lateCancelRoute")
    /\ Requested(o)
    /\ status[o] \in Assigned
    /\ CancelOrder(o, "collaborator", {"cancel", "refundCollaborator"})

(* Mutant of CancelOrderOutDate: the customer is not refunded.             *)
CancelOrderOutDateUnpaid(o) ==
    /\ status[o] = "pending"
    /\ CancelOrder(o, "system", {"cancel"})

(* The cron job that cancels what nobody took 15 minutes before the work.  *)
CancelOrderOutDate(o) ==
    /\ status[o] = "pending"
    /\ CancelOrder(o, "system", {"cancel", "refundCustomer"})

-----------------------------------------------------------------------------
(* Cancelling the whole group: GS.cancelGroupOrder.  It needs an           *)
(* unfinished order: without one it fails before any change.               *)
CancelGroupOrder(steps) ==
    LET unfinished == With(status, Unfinished)
        current == First(unfinished)
        cancels == "cancel" \in steps
        live == group_status # "processing"
        unassigns == "unassign" \in steps /\ live
        st == [p \in Orders |-> IF cancels /\ p \in unfinished THEN "cancel" ELSE status[p]]
    IN  /\ unfinished # {}
        /\ status' = [p \in Orders |->
              IF unassigns /\ st[p] \in Assigned THEN "pending" ELSE st[p]]
        /\ id_collaborator' = [p \in Orders |->
              IF unassigns /\ st[p] \in Assigned THEN NoCollaborator ELSE id_collaborator[p]]
        /\ group_status' = IF unassigns THEN "pending" ELSE IF cancels THEN "cancel" ELSE group_status
        /\ group_collaborator' = IF unassigns THEN NoCollaborator ELSE group_collaborator
        /\ refunded' = [p \in Orders |->
              IF /\ "refundCustomer" \in steps /\ live /\ terms.payment_method # "cash"
                 /\ status[p] \in Open
              THEN refunded[p] + final_fee[p] ELSE refunded[p]]
        /\ charged' = IF /\ "refundCollaborator" \in steps /\ live
                         /\ group_collaborator # NoCollaborator
                      THEN Charge(charged, current, group_collaborator, -Fee(current, pending_money))
                      ELSE charged
        /\ transaction' = IF transaction = "processing" THEN "cancel" ELSE transaction
        /\ UNCHANGED <<terms, id_cancel_collaborator, is_duplicate, feeVars, paid>>
        /\ WithinBound

CustomerCancelGroupOrder ==
    /\ group_status = "processing" => May("cancelProcessing")
    /\ CancelGroupOrder({"cancel", "refundCustomer", "refundCollaborator"})

(* unassign_collaborator of the admin API.                                 *)
AdminUnassignCollaborator == CancelGroupOrder({"refundCollaborator", "unassign"})

(* The cron jobs that give up a payment after 13 or 15 minutes.            *)
ExpireProcessing ==
    /\ group_status = "processing"
    /\ CancelGroupOrder({"cancel"})

(* A failure notice of momo or VNPAY: JS.cancelGroupOrder, in any state.   *)
PaymentFails ==
    /\ terms.payment_method = "online"
    /\ group_status = "processing" \/ May("lateFailure")
    /\ CancelGroupOrder({"cancel"})

(* Mutants: every notice opens the orders; the order's status is written   *)
(* to the transaction.                                                     *)
OpensAlways == TRUE
CapturedPending(isAutoCapture) == IF isAutoCapture THEN "pending" ELSE transaction

(* Does the notice open the orders, and the transaction's status then.     *)
Opens == group_status = "processing"
Captured(isAutoCapture) == IF isAutoCapture THEN "done" ELSE transaction

(* A success notice: JS.processingToPending.  It opens every order of a    *)
(* group that awaits payment; for a group already cancelled it gives the   *)
(* customer back the fees of the orders still open.                        *)
ProcessingToPending(isAutoCapture) ==
    /\ terms.payment_method = "online"
    /\ isAutoCapture \/ May("authorizeOnly")
    /\ Opens \/ group_status = "cancel"
    /\ IF Opens
       THEN /\ status' = [o \in Orders |-> "pending"]
            /\ group_status' = "pending"
            /\ transaction' = Captured(isAutoCapture)
            /\ paid' = IF isAutoCapture THEN "inTime" ELSE paid
            /\ UNCHANGED refunded
       ELSE /\ refunded' = [o \in Orders |->
                  IF status[o] \in Open THEN refunded[o] + final_fee[o] ELSE refunded[o]]
            /\ paid' = IF isAutoCapture /\ paid = "no" THEN "late" ELSE paid
            /\ UNCHANGED <<status, group_status, transaction>>
    /\ UNCHANGED <<terms, id_collaborator, id_cancel_collaborator, is_duplicate, feeVars,
                   group_collaborator, charged>>
    /\ WithinBound

-----------------------------------------------------------------------------
OrderStep(o) ==
    \/ \E c \in Collaborators : \/ PendingToConfirm(o, c)
                                \/ AddCollaboratorByOrder(o, c)
                                \/ ChangeCollaborator(o, c)
    \/ ConfirmToDoing(o)
    \/ DoingToDone(o)
    \/ CustomerCancelOrder(o)
    \/ AdminCancelOrder(o)
    \/ CollaboratorCancelJob(o)
    \/ CollaboratorLateCancel(o)
    \/ CancelOrderOutDate(o)

GroupStep ==
    \/ CustomerCancelGroupOrder
    \/ AdminUnassignCollaborator
    \/ ExpireProcessing
    \/ PaymentFails
    \/ \E isAutoCapture \in BOOLEAN : ProcessingToPending(isAutoCapture)

Next == (\E o \in Orders : OrderStep(o)) \/ GroupStep

Spec == Init /\ [][Next]_vars

-----------------------------------------------------------------------------
(* Types: every variable has the values its schema and the ledgers allow.  *)
TypeOK ==
    /\ terms \in [payment_method : PaymentMethods, pricing : Pricings, named : Assignee]
    /\ status \in [Orders -> OrderStatus]
    /\ id_collaborator \in [Orders -> Assignee]
    /\ id_cancel_collaborator \in [Orders -> SUBSET Collaborators]
    /\ is_duplicate \in [Orders -> BOOLEAN]
    /\ pending_money \in [Orders -> {0, ServiceFee}]
    /\ final_fee \in [Orders -> Int]
    /\ group_status \in OrderStatus
    /\ group_collaborator \in Assignee
    /\ transaction \in {"none", "processing", "done", "cancel"}
    /\ paid \in {"no", "inTime", "late"}
    /\ charged \in [Orders -> [Collaborators -> Int]]
    /\ refunded \in [Orders -> Int]

(* Whatever clients, crons and gateways do, every order being worked on is *)
(* held by the collaborator the group order names.  The orders on offer    *)
(* are all alike: held by nobody, or all of them by the collaborator they  *)
(* were created with, whom nobody has assigned.  No order is on offer      *)
(* while another one is taken.  Assigning and unassigning go over order    *)
(* and group in separate writes (JS.assignCollaborator, OS.cancelOrder     *)
(* step 6, JS.changeCollaborator).                                         *)
WorkerAgreement ==
    /\ \A o \in With(status, Assigned) : /\ id_collaborator[o] = group_collaborator
                                         /\ id_collaborator[o] # NoCollaborator
    /\ \E c \in {NoCollaborator, terms.named} :
          \A o \in With(status, {"pending", "processing"}) : id_collaborator[o] = c
    /\ With(status, {"pending"}) # {} => With(status, Assigned) = {}

(* Old pricing: a collaborator has paid exactly the fees of the orders he  *)
(* finished and of the current order he holds, whatever was charged ahead, *)
(* handed over, refunded or moved on the way (JS.minusFeeOrderBy-          *)
(* Collaborator, JS.handleNextOrder, OS.cancelOrder steps 3 and 7).        *)
FeesMatch ==
    terms.pricing = "legacy" =>
      \A o \in Orders, c \in Collaborators :
        charged[o][c] = IF /\ id_collaborator[o] = c
                           /\ status[o] = "done" \/ (status[o] \in Assigned /\ IsCurrent(o))
                        THEN Fee(o, pending_money) ELSE 0

(* An order paid for in time gives the customer its price back when it is  *)
(* cancelled, once, and nothing otherwise; one that is never paid for, or  *)
(* paid in cash, gives nothing.  A payment confirmed only after the group  *)
(* was given up is left out: JS.processingToPending means to return it,    *)
(* but adds up the orders still open, of which there are none (JS 807-812, *)
(* OO 150-173), so that the customer loses it.                             *)
RefundsMatch ==
    paid # "late" =>
      \A o \in Orders :
        refunded[o] = IF status[o] = "cancel" /\ paid = "inTime" THEN final_fee[o] ELSE 0

(* The service fee is asked once per group order: it stays on one order,   *)
(* priced into its final_fee, and moves on when that order is cancelled as *)
(* long as an order is left to carry it (OS.cancelOrder, lines 242-253).   *)
ServiceFeeCarried ==
    /\ \A o \in Orders : final_fee[o] = ShiftFee + pending_money[o]
    /\ \E o \in Orders : /\ pending_money[o] = ServiceFee
                         /\ \A p \in Orders \ {o} : pending_money[p] = 0
                         /\ status[o] = "cancel" => \A p \in Orders : status[p] = "cancel"

(* The job lists show only orders with is_duplicate = FALSE: as long as    *)
(* orders are open, the earliest of them is shown and no other one.        *)
OneOrderListed ==
    LET open == With(status, Open)
    IN  open # {} => {o \in open : ~is_duplicate[o]} = {First(open)}

(* A group order is over, done or cancelled, exactly when none of its      *)
(* orders is left, and it is done only if an order was.                    *)
GroupFollowsOrders ==
    /\ group_status \in {"done", "cancel"} <=> With(status, Unfinished) = {}
    /\ group_status = "done" => With(status, {"done"}) # {}

(* A done or cancelled order stays what it is; the payment notice, which   *)
(* rewrites the status of every order (OO.changeStatusAllOrderByGroup-     *)
(* Order), and the unassignment never bring one back.                      *)
TerminalStays ==
    [][\A o \in Orders : status[o] \in {"done", "cancel"} => status'[o] = status[o]]_vars
=============================================================================
