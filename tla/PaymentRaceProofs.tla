-------------------------- MODULE PaymentRaceProofs --------------------------
(***************************************************************************)
(* What is so of a payment beside its cancellation for any number of       *)
(* orders, of notices and of cancel requests, restarts included.           *)
(***************************************************************************)
EXTENDS PaymentRace, TLAPS

NoticeState == [at : {"new", "arrived", "loaded", "opened", "paid", "late", "summed",
                      "repaying", "over"},
                opens : BOOLEAN, remain : SUBSET Orders, refunds : [Orders -> Nat]]
CancelState == [at : {"new", "listed", "loaded", "found", "cancelling", "summed",
                      "refunding", "repaying", "cancelled", "closing", "over"},
                refund : BOOLEAN, remain : SUBSET Orders, refunds : [Orders -> Nat]]

(* A cancelled group has open orders only while somebody is between the    *)
(* group and its orders: a cancellation that will cancel them, or a notice *)
(* that will open the group again.                                         *)
SomebodyBetween == \/ \E c \in Cancels : cancel[c].at \in {"cancelling", "summed"}
                   \/ \E n \in Notices : notice[n].at = "opened"
CancelFollows == "restart" \notin accidents /\ group = "cancel" => Open = {} \/ SomebodyBetween

(* Before the first notice no request has anything to give back, nor does  *)
(* one hold a customer to whom something was given back.                   *)
NothingYet ==
    ~Paid => /\ \A o \in Orders : order[o] \in {"processing", "cancel"} /\ refunds[o] = 0
             /\ \A c \in Cancels : cancel[c].remain = {} /\ \A o \in Orders : cancel[c].refunds[o] = 0
             /\ shift.at = "new"

-----------------------------------------------------------------------------
(* A request's state after some of its fields were set.                    *)
LEMMA NoticeUpdate ==
    ASSUME notice \in [Notices -> NoticeState], NEW n \in Notices, NEW s \in NoticeState,
           notice' = [notice EXCEPT ![n] = s]
    PROVE  /\ notice' \in [Notices -> NoticeState]
           /\ notice'[n] = s
           /\ \A m \in Notices \ {n} : notice'[m] = notice[m]
  OBVIOUS

LEMMA CancelUpdate ==
    ASSUME cancel \in [Cancels -> CancelState], NEW c \in Cancels, NEW s \in CancelState,
           cancel' = [cancel EXCEPT ![c] = s]
    PROVE  /\ cancel' \in [Cancels -> CancelState]
           /\ cancel'[c] = s
           /\ \A d \in Cancels \ {c} : cancel'[d] = cancel[d]
  OBVIOUS

(* What CU.addPayPoint writes is a count again.                            *)
LEMMA GiveBackType ==
    ASSUME NEW request, request.refunds \in [Orders -> Nat]
    PROVE  GiveBack(request) \in [Orders -> Nat]
  BY DEF GiveBack

LEMMA NothingType == Nothing \in [Orders -> Nat] /\ \A o \in Orders : Nothing[o] = 0
  BY DEF Nothing

-----------------------------------------------------------------------------
LEMMA HandleType ==
    ASSUME TypeOK, NEW n \in Notices, Arrive(n) \/ Handle(n)
    PROVE  TypeOK'
<1>1. /\ notice \in [Notices -> NoticeState] /\ order \in [Orders -> OrderStatus]
      /\ notice[n] \in NoticeState
  BY DEF TypeOK, NoticeState
<1> USE DEF TypeOK, NoticeState, GroupStatus
<1>2. CASE Arrive(n) BY <1>1, <1>2 DEF Arrive, documents
<1>3. CASE LoadGroup(n) BY <1>1, <1>3 DEF LoadGroup, documents
<1>4. CASE OpenOrders(n) BY <1>1, <1>4 DEF OpenOrders, OrderStatus
<1>5. CASE OpenGroup(n)
  <2>1. PICK at \in {"paid", "over"} : notice' = [notice EXCEPT ![n].at = at] BY <1>5 DEF OpenGroup
  <2> QED BY <1>1, <1>5, <2>1 DEF OpenGroup
<1>6. CASE CloseTransaction(n) BY <1>1, <1>6 DEF CloseTransaction
<1>7. CASE LateSum(n) BY <1>1, <1>7 DEF LateSum, Remaining, documents
<1>8. CASE LateRead(n) BY <1>1, <1>8 DEF LateRead, documents
<1>9. CASE LateWrite(n)
  <2>1. refunds' \in [Orders -> Nat] BY <1>1, <1>9, GiveBackType DEF LateWrite
  <2> QED BY <1>1, <1>9, <2>1, NothingType DEF LateWrite, Overwriting
<1> QED BY <1>2, <1>3, <1>4, <1>5, <1>6, <1>7, <1>8, <1>9 DEF Handle

LEMMA CancelType ==
    ASSUME TypeOK, NEW c \in Cancels, Cancel(c)
    PROVE  TypeOK'
<1>1. cancel \in [Cancels -> CancelState] /\ order \in [Orders -> OrderStatus] /\ cancel[c] \in CancelState
  BY DEF TypeOK, CancelState
<1> USE DEF TypeOK, CancelState, GroupStatus
<1>2. CASE CancelLoads(c) BY <1>1, <1>2 DEF CancelLoads, Crossing, documents
<1>3. CASE CancelFinds(c) BY <1>1, <1>3 DEF CancelFinds, documents
<1>4. CASE CancelGroup(c) BY <1>1, <1>4 DEF CancelGroup
<1>5. CASE CancelSums(c) BY <1>1, <1>5 DEF CancelSums, Remaining, documents
<1>6. CASE CancelOrders(c) BY <1>1, <1>6 DEF CancelOrders, OrderStatus
<1>7. CASE RefundReads(c) BY <1>1, <1>7 DEF RefundReads, documents
<1>8. CASE RefundWrites(c)
  <2>1. refunds' \in [Orders -> Nat] BY <1>1, <1>8, GiveBackType DEF RefundWrites
  <2> QED BY <1>1, <1>8, <2>1, NothingType DEF RefundWrites, Overwriting
<1>9. CASE CancelReadsTransaction(c) BY <1>1, <1>9 DEF CancelReadsTransaction, documents
<1>10. CASE CancelWritesTransaction(c) BY <1>1, <1>10 DEF CancelWritesTransaction
<1> QED BY <1>2, <1>3, <1>4, <1>5, <1>6, <1>7, <1>8, <1>9, <1>10 DEF Cancel

LEMMA OtherType ==
    ASSUME TypeOK, CronLists \/ Shift \/ Restart
    PROVE  TypeOK'
<1>1. /\ cancel \in [Cancels -> CancelState] /\ order \in [Orders -> OrderStatus]
      /\ notice \in [Notices -> NoticeState] /\ Cron \in Cancels
  BY DEF TypeOK, CancelState, NoticeState, Cancels
<1> USE DEF TypeOK, CancelState, NoticeState, GroupStatus
<1>2. CASE CronLists
  <2>1. cancel' \in [Cancels -> CancelState]
    <3>1. \A s \in CancelState : [s EXCEPT !.at = "listed"] \in CancelState OBVIOUS
    <3>2. cancel' = [cancel EXCEPT ![Cron].at = "listed"] BY <1>2 DEF CronLists
    <3> QED BY <1>1, <3>1, <3>2
  <2>2. accidents' \subseteq {"restart", "overwritten", "crossed"} BY <1>2 DEF CronLists, Crossing
  <2> QED BY <1>2, <2>1, <2>2 DEF CronLists, documents
<1>3. CASE Shift
  BY <1>1, <1>3 DEF Shift, ShiftChecks, ShiftDone, ShiftSetsGroup, OrderStatus, documents
<1>4. CASE Restart
  <2>1. cancel' \in [Cancels -> CancelState]
    <3>1. \A s \in CancelState : [s EXCEPT !.at = IF @ = "new" THEN "new" ELSE "over",
                                            !.remain = {}, !.refunds = Nothing] \in CancelState
      BY NothingType
    <3> QED BY <1>1, <1>4, <3>1 DEF Restart
  <2>2. notice' \in [Notices -> NoticeState]
    <3>1. \A s \in NoticeState : [s EXCEPT !.at = IF @ = "new" THEN "new" ELSE "over",
                                            !.remain = {}, !.refunds = Nothing] \in NoticeState
      BY NothingType
    <3> QED BY <1>1, <1>4, <3>1 DEF Restart
  <2> QED BY <1>4, <2>1, <2>2 DEF Restart, documents
<1> QED BY <1>2, <1>3, <1>4

LEMMA InitType == Init => TypeOK
  BY PaymentAssumption, NothingType DEF Init, TypeOK, OrderStatus, GroupStatus, Orders

(* The documents keep to their schema and the requests to what they read,  *)
(* whatever overlaps and wherever the server stops.                        *)
THEOREM PaymentTypeCorrect == Spec => []TypeOK
<1>1. TypeOK /\ [Next]_vars => TypeOK'
  <2> SUFFICES ASSUME TypeOK, [Next]_vars PROVE TypeOK'
    OBVIOUS
  <2>1. CASE UNCHANGED vars BY <2>1 DEF vars, documents, TypeOK
  <2> QED BY <2>1, HandleType, CancelType, OtherType DEF Next
<1> QED BY <1>1, InitType, PTL DEF Spec
-----------------------------------------------------------------------------
(* Cancelled groups.                                                       *)
LEMMA CancelFollowsInit == Init => CancelFollows
  BY DEF Init, CancelFollows

(* A step that leaves those between where they are, opens no order and     *)
(* cancels no group.                                                       *)
LEMMA CancelFollowsKept ==
    ASSUME CancelFollows, "restart" \in accidents => "restart" \in accidents',
           group' = "cancel" => group = "cancel", Open' \subseteq Open,
           \A c \in Cancels : cancel[c].at \in {"cancelling", "summed"} =>
                                 cancel'[c].at \in {"cancelling", "summed"},
           \A n \in Notices : notice[n].at = "opened" => notice'[n].at = "opened"
    PROVE  CancelFollows'
  BY DEF CancelFollows, SomebodyBetween

LEMMA CancelFollowsStep ==
    ASSUME TypeOK, CancelFollows, [Next]_vars
    PROVE  CancelFollows'
<1>1. notice \in [Notices -> NoticeState] /\ cancel \in [Cancels -> CancelState]
      /\ order \in [Orders -> OrderStatus]
  BY DEF TypeOK, NoticeState, CancelState
<1>2. CASE UNCHANGED vars BY <1>2, CancelFollowsKept DEF vars, documents, Open
<1>3. ASSUME NEW n \in Notices, Arrive(n) \/ LoadGroup(n) \/ CloseTransaction(n) \/ LateSum(n)
                                \/ LateRead(n) \/ LateWrite(n)
      PROVE  CancelFollows'
  <2>1. notice[n].at # "opened"
    BY <1>3 DEF Arrive, LoadGroup, CloseTransaction, LateSum, LateRead, LateWrite
  <2>2. \A m \in Notices \ {n} : notice'[m] = notice[m]
    BY <1>1, <1>3 DEF Arrive, LoadGroup, CloseTransaction, LateSum, LateRead, LateWrite
  <2>3. order' = order /\ group' = group /\ cancel' = cancel /\ accidents \subseteq accidents'
    BY <1>3 DEF Arrive, LoadGroup, CloseTransaction, LateSum, LateRead, LateWrite, documents, Overwriting
  <2> QED BY <2>1, <2>2, <2>3, CancelFollowsKept DEF Open
<1>4. ASSUME NEW n \in Notices, OpenOrders(n)
      PROVE  CancelFollows'
  BY <1>1, <1>4 DEF OpenOrders, CancelFollows, SomebodyBetween, NoticeState
<1>5. ASSUME NEW n \in Notices, OpenGroup(n)
      PROVE  CancelFollows'
  BY <1>5 DEF OpenGroup, CancelFollows
<1>6. ASSUME NEW c \in Cancels, CancelLoads(c) \/ CancelFinds(c) \/ RefundReads(c) \/ RefundWrites(c)
                                \/ CancelReadsTransaction(c) \/ CancelWritesTransaction(c)
      PROVE  CancelFollows'
  <2>1. cancel[c].at \notin {"cancelling", "summed"}
    BY <1>6 DEF CancelLoads, CancelFinds, RefundReads, RefundWrites, CancelReadsTransaction,
                CancelWritesTransaction
  <2>2. \A d \in Cancels \ {c} : cancel'[d] = cancel[d]
    BY <1>1, <1>6 DEF CancelLoads, CancelFinds, RefundReads, RefundWrites, CancelReadsTransaction,
                CancelWritesTransaction
  <2>3. order' = order /\ group' = group /\ notice' = notice /\ accidents \subseteq accidents'
    BY <1>6 DEF CancelLoads, CancelFinds, RefundReads, RefundWrites, CancelReadsTransaction,
                CancelWritesTransaction, documents, Overwriting, Crossing
  <2> QED BY <2>1, <2>2, <2>3, CancelFollowsKept DEF Open
<1>7. ASSUME NEW c \in Cancels, CancelGroup(c) \/ CancelSums(c)
      PROVE  CancelFollows'
  BY <1>1, <1>7 DEF CancelGroup, CancelSums, CancelFollows, SomebodyBetween, CancelState
<1>8. ASSUME NEW c \in Cancels, CancelOrders(c)
      PROVE  CancelFollows'
  <2>1. Open' = {} BY <1>1, <1>8 DEF CancelOrders, Open
  <2> QED BY <2>1 DEF CancelFollows
<1>9. CASE CronLists
  <2>1. order' = order /\ group' = group /\ notice' = notice /\ accidents \subseteq accidents'
    BY <1>9 DEF CronLists, documents, Crossing
  <2>2. cancel[Cron].at \notin {"cancelling", "summed"} BY <1>9 DEF CronLists, Resting
  <2>3. \A d \in Cancels \ {Cron} : cancel'[d] = cancel[d] BY <1>1, <1>9 DEF CronLists
  <2> QED BY <2>1, <2>2, <2>3, CancelFollowsKept DEF Open
<1>10. CASE Shift
  <2>1. /\ cancel' = cancel /\ notice' = notice /\ accidents' = accidents
        /\ group' = "cancel" => group = "cancel"
    BY <1>10 DEF Shift, ShiftChecks, ShiftDone, ShiftSetsGroup, documents
  <2>2. Open' \subseteq Open
    BY <1>1, <1>10 DEF Shift, ShiftChecks, ShiftDone, ShiftSetsGroup, documents, Open
  <2> QED BY <2>1, <2>2, CancelFollowsKept
<1>11. CASE Restart BY <1>11 DEF Restart, CancelFollows
<1> QED BY <1>2, <1>3, <1>4, <1>5, <1>6, <1>7, <1>8, <1>9, <1>10, <1>11 DEF Next, Handle, Cancel

(* However payments, cancellations and finished shifts are interleaved, a  *)
(* cancelled group at rest has no open order (GO.cancel and                *)
(* cancelAllOrderByGroupOrder against changeStatusAllOrderByGroupOrder).   *)
THEOREM CancelledGroupsAreEmpty == Spec => []CancelledLeavesNothing
<1>1. CancelFollows => CancelledLeavesNothing
  BY DEF CancelFollows, CancelledLeavesNothing, SomebodyBetween, Quiet, Resting
<1>2. TypeOK /\ CancelFollows /\ [Next]_vars => CancelFollows'
  BY CancelFollowsStep
<1> QED BY <1>1, <1>2, CancelFollowsInit, PaymentTypeCorrect, PTL DEF Spec

-----------------------------------------------------------------------------
(* Before the payment.                                                     *)
LEMMA NothingYetStep ==
    ASSUME TypeOK, NothingYet, [Next]_vars
    PROVE  NothingYet'
<1>1. notice \in [Notices -> NoticeState] /\ cancel \in [Cancels -> CancelState]
      /\ order \in [Orders -> OrderStatus] /\ refunds \in [Orders -> Nat]
  BY DEF TypeOK, NoticeState, CancelState
<1> SUFFICES ASSUME ~Paid' PROVE NothingYet'
  BY DEF NothingYet
<1>2. ASSUME NEW n \in Notices, Arrive(n) \/ Handle(n) PROVE FALSE
  <2>1. notice'[n].at # "new"
    <3>1. CASE Arrive(n) BY <1>1, <3>1 DEF Arrive, NoticeState
    <3>2. CASE LoadGroup(n) BY <1>1, <3>2 DEF LoadGroup, NoticeState
    <3>3. CASE OpenGroup(n) BY <1>1, <3>3 DEF OpenGroup, NoticeState
    <3>4. CASE OpenOrders(n) \/ CloseTransaction(n) \/ LateSum(n) \/ LateRead(n) \/ LateWrite(n)
      BY <1>1, <3>4 DEF OpenOrders, CloseTransaction, LateSum, LateRead, LateWrite, NoticeState
    <3> QED BY <1>2, <3>1, <3>2, <3>3, <3>4 DEF Handle
  <2> QED BY <2>1 DEF Paid
<1>3. ~Paid
  <2>1. CASE Restart
    <3>1. \A n \in Notices : notice'[n].at = IF notice[n].at = "new" THEN "new" ELSE "over"
      BY <1>1, <2>1 DEF Restart, NoticeState
    <3> QED BY <3>1 DEF Paid
  <2>2. CASE ~Restart
    <3>1. notice' = notice
      BY <1>2, <2>2 DEF Next, vars, Cancel, CancelLoads, CancelFinds, CancelGroup, CancelSums,
            CancelOrders, RefundReads, RefundWrites, CancelReadsTransaction,
            CancelWritesTransaction, CronLists, Shift, ShiftChecks, ShiftDone, ShiftSetsGroup
    <3> QED BY <3>1 DEF Paid
  <2> QED BY <2>1, <2>2
<1>4. /\ \A o \in Orders : order[o] \in {"processing", "cancel"} /\ refunds[o] = 0
      /\ \A c \in Cancels : cancel[c].remain = {} /\ \A o \in Orders : cancel[c].refunds[o] = 0
      /\ shift.at = "new"
  BY <1>3 DEF NothingYet
<1>5. Remaining = {} BY <1>4 DEF Remaining
<1>6. ASSUME NEW c \in Cancels, Cancel(c)
      PROVE  NothingYet'
  <2>2. cancel[c] \in CancelState /\ \A o \in Orders : Nothing[o] = 0 BY <1>1, NothingType
  <2>3. CASE CancelLoads(c)
    BY <1>1, <1>4, <2>3 DEF CancelLoads, documents, NothingYet, CancelState
  <2>1. ASSUME NEW at, cancel' = [cancel EXCEPT ![c].at = at]
        PROVE  \A d \in Cancels : cancel'[d].remain = {} /\ \A o \in Orders : cancel'[d].refunds[o] = 0
    BY <1>1, <1>4, <2>1 DEF CancelState
  <2>4. CASE CancelFinds(c) \/ CancelGroup(c)
    BY <1>4, <2>1, <2>4 DEF CancelFinds, CancelGroup, documents, NothingYet
  <2>9. CASE CancelReadsTransaction(c) \/ CancelWritesTransaction(c)
    BY <1>4, <2>1, <2>9 DEF CancelReadsTransaction, CancelWritesTransaction, documents, NothingYet
  <2>5. CASE CancelSums(c)
    BY <1>1, <1>4, <1>5, <2>5 DEF CancelSums, documents, NothingYet, CancelState
  <2>6. CASE CancelOrders(c)
    BY <1>1, <1>4, <2>6 DEF CancelOrders, NothingYet, CancelState
  <2>7. CASE RefundReads(c)
    BY <1>1, <1>4, <2>7 DEF RefundReads, documents, NothingYet, CancelState
  <2>8. CASE RefundWrites(c)
    <3>1. \A o \in Orders : refunds'[o] = 0 BY <1>4, <2>8 DEF RefundWrites, GiveBack
    <3> QED BY <1>1, <1>4, <2>2, <2>8, <3>1 DEF RefundWrites, NothingYet, CancelState
  <2> QED BY <1>6, <2>3, <2>4, <2>5, <2>6, <2>7, <2>8, <2>9 DEF Cancel
<1>7. CASE CronLists BY <1>1, <1>4, <1>7 DEF CronLists, documents, NothingYet, CancelState
<1>8. CASE Shift
  BY <1>4, <1>8 DEF Shift, ShiftChecks, ShiftDone, ShiftSetsGroup
<1>9. CASE Restart
  <2>1. \A c \in Cancels : cancel'[c].remain = {} /\ cancel'[c].refunds = Nothing
    BY <1>1, <1>9 DEF Restart, CancelState
  <2>2. shift'.at = "new" BY <1>9, TypeOK DEF Restart, TypeOK
  <2> QED BY <2>2, <1>4, <1>9, <2>1, NothingType DEF Restart, documents, NothingYet
<1>10. CASE UNCHANGED vars BY <1>4, <1>10 DEF vars, documents, NothingYet
<1> QED BY <1>2, <1>6, <1>7, <1>8, <1>9, <1>10 DEF Next

(* Until the gateway has said once that the group is paid for, nobody      *)
(* works on it and nothing is given back for it, restarts or not           *)
(* (totalFinalFeeRemain adds up no order that waits for its payment).      *)
THEOREM NothingForNothing == Spec => []NothingBeforePayment
<1>1. Init => NothingYet BY NothingType DEF Init, NothingYet
<1>2. NothingYet => NothingBeforePayment BY DEF NothingYet, NothingBeforePayment
<1>3. TypeOK /\ NothingYet /\ [Next]_vars => NothingYet'
  BY NothingYetStep
<1> QED BY <1>1, <1>2, <1>3, PaymentTypeCorrect, PTL DEF Spec

-----------------------------------------------------------------------------
(* While nothing of the kind has happened: a notice that opens the group   *)
(* has no cancellation beside it,                                          *)
Loaded == \E n \in Notices : notice[n].at = "loaded"
BeingOpened == \E n \in Notices : notice[n].at \in {"loaded", "opened", "paid"}
Opened == \E n \in Notices : notice[n].opens

Apart == BeingOpened => ~CancelUnderWay

(* and a cancellation after it finds the group paid for and gives back     *)
(* what it cancels.                                                        *)
GivenBack(o) == \/ refunds[o] > 0
                \/ \E c \in Cancels : cancel[c].at \in {"refunding", "repaying"} /\ o \in cancel[c].remain

PaidFor ==
    /\ group = "processing" => \E n \in Notices : notice[n].at \in {"loaded", "opened"}
    /\ \A c \in Cancels : cancel[c].at \notin Resting => cancel[c].refund
    /\ \A c \in Cancels, o \in Orders :
          cancel[c].at = "summed" /\ order[o] = "pending" => o \in cancel[c].remain
    /\ ~Loaded => \A o \in Orders : order[o] \in {"pending", "done"} \/ (order[o] = "cancel" /\ GivenBack(o))

HonourInv ==
    /\ ~cancel[Cron].refund
    /\ accidents = {} => Apart /\ (Opened => PaidFor)

LEMMA CronNeverRefunds ==
    ASSUME TypeOK, ~cancel[Cron].refund, [Next]_vars
    PROVE  ~cancel'[Cron].refund
<1>1. cancel \in [Cancels -> CancelState] /\ Cron \in Cancels BY DEF TypeOK, CancelState, Cancels
<1>2. ASSUME NEW c \in Cancels, Cancel(c) PROVE ~cancel'[Cron].refund
  <2>1. CASE CancelLoads(c) BY <1>1, <2>1 DEF CancelLoads, CancelState
  <2>2. ASSUME NEW at, cancel' = [cancel EXCEPT ![c].at = at] PROVE ~cancel'[Cron].refund
    BY <1>1, <2>2 DEF CancelState
  <2>3. CASE CancelFinds(c) \/ CancelGroup(c) \/ CancelOrders(c)
    BY <2>2, <2>3 DEF CancelFinds, CancelGroup, CancelOrders
  <2>4. CASE CancelReadsTransaction(c) \/ CancelWritesTransaction(c)
    BY <2>2, <2>4 DEF CancelReadsTransaction, CancelWritesTransaction
  <2>5. CASE CancelSums(c) BY <1>1, <2>5 DEF CancelSums, CancelState
  <2>6. CASE RefundReads(c) BY <1>1, <2>6 DEF RefundReads, CancelState
  <2>7. CASE RefundWrites(c) BY <1>1, <2>7 DEF RefundWrites, CancelState
  <2> QED BY <1>2, <2>1, <2>3, <2>4, <2>5, <2>6, <2>7 DEF Cancel
<1>3. CASE Restart BY <1>1, <1>3 DEF Restart, CancelState
<1>4. CASE CronLists BY <1>1, <1>4 DEF CronLists, CancelState
<1>5. CASE Shift \/ UNCHANGED vars \/ \E n \in Notices : Arrive(n) \/ Handle(n)
  BY <1>5 DEF Shift, ShiftChecks, ShiftDone, ShiftSetsGroup, vars, Arrive, Handle, LoadGroup, OpenOrders,
        OpenGroup, CloseTransaction, LateSum, LateRead, LateWrite
<1> QED BY <1>2, <1>3, <1>4, <1>5 DEF Next

(* Accidents are never forgotten.                                          *)
LEMMA AccidentsStay ==
    ASSUME [Next]_vars
    PROVE  accidents \subseteq accidents'
<1>1. \A n \in Notices : Arrive(n) \/ Handle(n) => accidents \subseteq accidents'
  BY DEF Arrive, Handle, LoadGroup, OpenOrders, OpenGroup, CloseTransaction, LateSum, LateRead,
         LateWrite, Overwriting
<1>2. \A c \in Cancels : Cancel(c) => accidents \subseteq accidents'
  BY DEF Cancel, CancelLoads, CancelFinds, CancelGroup, CancelSums, CancelOrders, RefundReads,
         RefundWrites, CancelReadsTransaction, CancelWritesTransaction, Overwriting, Crossing
<1>3. CronLists \/ Shift \/ Restart \/ UNCHANGED vars => accidents \subseteq accidents'
  BY DEF CronLists, Crossing, Shift, ShiftChecks, ShiftDone, ShiftSetsGroup, Restart, vars
<1> QED BY <1>1, <1>2, <1>3 DEF Next

(* What CU.addPayPoint writes over what it has read, if that is still so.  *)
LEMMA GiveBackAdds ==
    ASSUME NEW request, request.refunds = refunds, refunds \in [Orders -> Nat]
    PROVE  /\ \A o \in Orders : GiveBack(request)[o] >= refunds[o]
           /\ \A o \in Orders : o \in request.remain => GiveBack(request)[o] > 0
  BY DEF GiveBack

Honoured == Apart /\ (Opened => PaidFor)

(* A step of a notice that neither begins nor ends to open the group.      *)
LEMMA HonouredBeside ==
    ASSUME TypeOK, TypeOK', Honoured, order' = order, group' = group, cancel' = cancel,
           \A o \in Orders : refunds'[o] >= refunds[o],
           \A n \in Notices : /\ notice'[n].opens = notice[n].opens
                              /\ notice'[n].at = "loaded" <=> notice[n].at = "loaded"
                              /\ notice'[n].at = "opened" <=> notice[n].at = "opened"
                              /\ notice'[n].at = "paid" => notice[n].at = "paid"
    PROVE  Honoured'
<1>1. /\ BeingOpened' => BeingOpened
      /\ CancelUnderWay' => CancelUnderWay
      /\ Opened' => Opened
      /\ Loaded' <=> Loaded
  <2>1. BeingOpened' => BeingOpened BY DEF BeingOpened
  <2>2. CancelUnderWay' => CancelUnderWay BY DEF CancelUnderWay
  <2>3. Opened' => Opened BY Zenon DEF Opened
  <2>4. Loaded' <=> Loaded BY DEF Loaded
  <2> QED BY <2>1, <2>2, <2>3, <2>4
<1>2. ASSUME NEW o \in Orders, GivenBack(o) PROVE GivenBack(o)'
  BY <1>2 DEF GivenBack, TypeOK
<1>3. Apart' BY <1>1 DEF Honoured, Apart
<1>4. ASSUME PaidFor PROVE PaidFor'
  <2>1. group' = "processing" => \E n \in Notices : notice'[n].at \in {"loaded", "opened"}
    BY <1>4 DEF PaidFor
  <2>2. /\ \A c \in Cancels : cancel'[c].at \notin Resting => cancel'[c].refund
        /\ \A c \in Cancels, o \in Orders :
              cancel'[c].at = "summed" /\ order'[o] = "pending" => o \in cancel'[c].remain
    BY <1>4 DEF PaidFor
  <2>3. ~Loaded' => \A o \in Orders : \/ order'[o] \in {"pending", "done"}
                                      \/ order'[o] = "cancel" /\ GivenBack(o)'
    BY <1>1, <1>2, <1>4 DEF PaidFor
  <2> QED BY <2>1, <2>2, <2>3 DEF PaidFor
<1> QED BY <1>1, <1>3, <1>4 DEF Honoured

(* A step of a cancellation under way: the group, once paid for, is not    *)
(* being opened, and what was given back is.                               *)
LEMMA HonouredCancel ==
    ASSUME TypeOK, TypeOK', Honoured, NEW c \in Cancels, cancel[c].at \notin Resting,
           notice' = notice, group' = "processing" => group = "processing",
           \A d \in Cancels \ {c} : cancel'[d] = cancel[d],
           Opened => /\ cancel'[c].at \notin Resting => cancel'[c].refund
                     /\ cancel'[c].at = "summed" =>
                           \A o \in Orders : order'[o] = "pending" => o \in cancel'[c].remain,
           \A o \in Orders : order'[o] = order[o] \/ order'[o] = "cancel",
           \A o \in Orders : refunds'[o] >= refunds[o],
           ~BeingOpened /\ PaidFor => \A o \in Orders : order'[o] = "cancel" =>
              \/ order[o] = "cancel" /\ (cancel[c].at \in {"refunding", "repaying"} /\ o \in cancel[c].remain
                                           => GivenBack(o)')
              \/ GivenBack(o)'
    PROVE  Honoured'
<1>1. CancelUnderWay BY DEF CancelUnderWay
<1>2. ~BeingOpened BY <1>1 DEF Honoured, Apart
<1>3. ~BeingOpened' /\ (Opened' <=> Opened) /\ ~Loaded /\ ~Loaded'
  BY <1>2 DEF BeingOpened, Opened, Loaded
<1>4. ASSUME PaidFor, Opened PROVE PaidFor'
  <2>1. group # "processing" BY <1>2, <1>4 DEF PaidFor, BeingOpened
  <2>2. \A d \in Cancels : cancel'[d].at \notin Resting => cancel'[d].refund BY <1>4 DEF PaidFor
  <2>3. \A d \in Cancels, o \in Orders :
          cancel'[d].at = "summed" /\ order'[o] = "pending" => o \in cancel'[d].remain
    BY <1>4 DEF PaidFor
  <2>4. ASSUME NEW o \in Orders
        PROVE  order'[o] \in {"pending", "done"} \/ (order'[o] = "cancel" /\ GivenBack(o)')
    <3>1. order[o] \in {"pending", "done"} \/ (order[o] = "cancel" /\ GivenBack(o))
      BY <1>3, <1>4 DEF PaidFor
    <3>2. CASE order'[o] # "cancel" BY <3>1, <3>2
    <3>3. CASE order'[o] = "cancel"
      <4>1. CASE order[o] = "cancel" /\ GivenBack(o)
        <5>1. refunds'[o] >= refunds[o] /\ refunds[o] \in Nat /\ refunds'[o] \in Nat BY DEF TypeOK
        <5>2. CASE refunds[o] > 0 BY <3>3, <5>1, <5>2 DEF GivenBack
        <5>3. CASE \E d \in Cancels : cancel[d].at \in {"refunding", "repaying"} /\ o \in cancel[d].remain
          <6>1. PICK d \in Cancels : cancel[d].at \in {"refunding", "repaying"} /\ o \in cancel[d].remain
            BY <5>3
          <6>2. CASE d # c BY <3>3, <6>1, <6>2 DEF GivenBack
          <6>3. CASE d = c BY <1>2, <1>4, <3>3, <6>1, <6>3
          <6> QED BY <6>2, <6>3
        <5> QED BY <4>1, <5>2, <5>3 DEF GivenBack
      <4>2. CASE order[o] # "cancel" BY <1>2, <1>4, <3>3, <4>2
      <4> QED BY <3>1, <4>1, <4>2
    <3> QED BY <3>2, <3>3
  <2> QED BY <2>1, <2>2, <2>3, <2>4 DEF PaidFor
<1> QED BY <1>3, <1>4 DEF Honoured, Apart

LEMMA HonouredStep ==
    ASSUME TypeOK, TypeOK', ~cancel[Cron].refund, accidents = {} => Honoured,
           accidents' = {}, [Next]_vars
    PROVE  Honoured'
<1>1. notice \in [Notices -> NoticeState] /\ cancel \in [Cancels -> CancelState]
      /\ order \in [Orders -> OrderStatus] /\ refunds \in [Orders -> Nat]
  BY DEF TypeOK, NoticeState, CancelState
<1>2. accidents = {} /\ Honoured
  <2>1. accidents = {} BY AccidentsStay
  <2> QED BY <2>1
<1>3. \A o \in Orders : refunds[o] >= refunds[o] BY <1>1
<1>4. \A c \in Cancels : cancel[c] \in CancelState BY <1>1
(* Notices.                                                                *)
<1>5. ASSUME NEW n \in Notices, Arrive(n) \/ LateSum(n) \/ LateRead(n) \/ LateWrite(n) \/ CloseTransaction(n)
      PROVE  Honoured'
  <2>1. order' = order /\ group' = group /\ cancel' = cancel
    BY <1>5 DEF Arrive, LateSum, LateRead, LateWrite, CloseTransaction, documents
  <2>2. \A o \in Orders : refunds'[o] >= refunds[o]
    <3>1. CASE LateWrite(n)
      <4>1. notice[n].refunds = refunds BY <1>2, <3>1 DEF LateWrite, Overwriting
      <4> QED BY <1>1, <3>1, <4>1, GiveBackAdds DEF LateWrite
    <3>2. CASE Arrive(n) \/ LateSum(n) \/ LateRead(n) \/ CloseTransaction(n)
      BY <1>3, <3>2 DEF Arrive, LateSum, LateRead, CloseTransaction, documents
    <3> QED BY <1>5, <3>1, <3>2
  <2>3. /\ notice[n].at \notin {"loaded", "opened"}
        /\ notice'[n].at \notin {"loaded", "opened", "paid"}
        /\ notice'[n].opens = notice[n].opens
        /\ \A m \in Notices \ {n} : notice'[m] = notice[m]
    <3>1. CASE Arrive(n) BY <1>1, <3>1 DEF Arrive, NoticeState
    <3>2. CASE LateSum(n) BY <1>1, <3>2 DEF LateSum, NoticeState
    <3>3. CASE LateRead(n) BY <1>1, <3>3 DEF LateRead, NoticeState
    <3>4. CASE LateWrite(n) BY <1>1, <3>4 DEF LateWrite, NoticeState
    <3>5. CASE CloseTransaction(n) BY <1>1, <3>5 DEF CloseTransaction, NoticeState
    <3> QED BY <1>5, <3>1, <3>2, <3>3, <3>4, <3>5
  <2>4. \A m \in Notices : /\ notice'[m].opens = notice[m].opens
                           /\ notice'[m].at = "loaded" <=> notice[m].at = "loaded"
                           /\ notice'[m].at = "opened" <=> notice[m].at = "opened"
                           /\ notice'[m].at = "paid" => notice[m].at = "paid"
    BY <2>3
  <2> QED BY <1>2, <2>1, <2>2, <2>4, HonouredBeside
<1>6. ASSUME NEW n \in Notices, LoadGroup(n) PROVE Honoured'
  <2>1. /\ notice' = [notice EXCEPT ![n].opens = (group = "processing"),
                                    ![n].at = IF group = "processing" THEN "loaded"
                                              ELSE IF group = "cancel" THEN "late" ELSE "over"]
        /\ notice[n].at = "arrived"
        /\ order' = order /\ group' = group /\ cancel' = cancel /\ refunds' = refunds
        /\ group = "processing" => ~CancelUnderWay
    BY <1>6 DEF LoadGroup, documents
  <2>2. \A m \in Notices \ {n} : notice'[m] = notice[m] BY <1>1, <2>1
  <2>3. CASE group = "processing"
    <3>1. notice'[n].at = "loaded" BY <1>1, <2>1, <2>3 DEF NoticeState
    <3>2. ~CancelUnderWay /\ ~CancelUnderWay' BY <2>1, <2>3 DEF CancelUnderWay
    <3>3. PaidFor'
      <4>1. \A c \in Cancels : cancel'[c].at \in Resting BY <3>2 DEF CancelUnderWay
      <4> QED BY <3>1, <4>1 DEF PaidFor, Loaded, Resting
    <3> QED BY <3>2, <3>3 DEF Honoured, Apart
  <2>4. CASE group # "processing"
    <3>1. notice'[n].at \in {"late", "over"} /\ notice'[n].opens = FALSE
      BY <1>1, <2>1, <2>4 DEF NoticeState
    <3>2. /\ BeingOpened' => BeingOpened
          /\ Loaded' <=> Loaded
      BY <2>1, <2>2, <3>1 DEF BeingOpened, Loaded
    <3>3. Opened' => Opened BY <2>2, <3>1, Zenon DEF Opened
    <3>4. CancelUnderWay' => CancelUnderWay BY <2>1 DEF CancelUnderWay
    <3>5. ASSUME PaidFor PROVE PaidFor'
      <4>1. \A o \in Orders : GivenBack(o) => GivenBack(o)' BY <2>1 DEF GivenBack
      <4> QED BY <2>1, <2>4, <3>2, <3>5, <4>1 DEF PaidFor
    <3> QED BY <1>2, <3>2, <3>3, <3>4, <3>5 DEF Honoured, Apart
  <2> QED BY <2>3, <2>4
<1>7. ASSUME NEW n \in Notices, OpenOrders(n) PROVE Honoured'
  <2>1. /\ order' = [o \in Orders |-> "pending"] /\ group' = group /\ cancel' = cancel
        /\ notice[n].at = "loaded" /\ notice'[n].at = "opened" /\ notice'[n].opens = notice[n].opens
        /\ \A m \in Notices \ {n} : notice'[m] = notice[m]
    BY <1>1, <1>7 DEF OpenOrders, NoticeState
  <2>2. ~CancelUnderWay /\ ~CancelUnderWay'
    BY <1>2, <2>1 DEF Honoured, Apart, BeingOpened, CancelUnderWay
  <2>3. PaidFor'
    <3>1. \A c \in Cancels : cancel'[c].at \in Resting BY <2>2 DEF CancelUnderWay
    <3> QED BY <2>1, <3>1 DEF PaidFor, Resting
  <2> QED BY <2>2, <2>3 DEF Honoured, Apart
<1>8. ASSUME NEW n \in Notices, OpenGroup(n) PROVE Honoured'
  <2>1. PICK at \in {"paid", "over"} : notice' = [notice EXCEPT ![n].at = at] BY <1>8 DEF OpenGroup
  <2>2. /\ order' = order /\ group' = "pending" /\ cancel' = cancel /\ refunds' = refunds
        /\ notice[n].at = "opened" /\ notice'[n].at = at /\ notice'[n].opens = notice[n].opens
        /\ \A m \in Notices \ {n} : notice'[m] = notice[m]
    BY <1>1, <1>8, <2>1 DEF OpenGroup, NoticeState
  <2>3. ~CancelUnderWay /\ ~CancelUnderWay'
    BY <1>2, <2>2 DEF Honoured, Apart, BeingOpened, CancelUnderWay
  <2>4. Loaded' <=> Loaded BY <2>2 DEF Loaded
  <2>5. Opened' => Opened BY <2>2, Zenon DEF Opened
  <2>6. ASSUME PaidFor PROVE PaidFor'
    <3>1. \A o \in Orders : GivenBack(o) => GivenBack(o)' BY <2>2 DEF GivenBack
    <3> QED BY <2>2, <2>4, <2>6, <3>1 DEF PaidFor
  <2> QED BY <1>2, <2>3, <2>5, <2>6 DEF Honoured, Apart
(* Cancellations: one that begins,                                         *)
<1>9. ASSUME NEW c \in Cancels, CancelLoads(c) \/ (c = Cron /\ CronLists) PROVE Honoured'
  <2>1. ~BeingOpened BY <1>9 DEF CancelLoads, CronLists, Crossing, BeingOpened
  <2>2. /\ order' = order /\ group' = group /\ notice' = notice /\ refunds' = refunds
        /\ cancel'[c].at \in {"loaded", "listed"}
        /\ \A d \in Cancels \ {c} : cancel'[d] = cancel[d]
        /\ cancel[c].at \in {"new", "over", "listed"}
    <3>1. CASE CancelLoads(c) BY <1>1, <3>1 DEF CancelLoads, documents, CancelState
    <3>2. CASE c = Cron /\ CronLists BY <1>1, <3>2 DEF CronLists, Resting, documents, CancelState
    <3> QED BY <1>9, <3>1, <3>2
  <2>3. Opened' => Opened BY <2>2 DEF Opened
  <2>4. ~BeingOpened' BY <2>1, <2>2 DEF BeingOpened
  <2>5. ASSUME PaidFor PROVE PaidFor'
    <3>1. group # "processing" BY <2>1, <2>5 DEF PaidFor, BeingOpened
    <3>2. CancelLoads(c) /\ c # Cron
      <4>1. ~CronLists BY <3>1 DEF CronLists
      <4>2. CancelLoads(c) => c # Cron
        BY <2>5 DEF CancelLoads, PaidFor, Resting
      <4> QED BY <1>9, <4>1, <4>2
    <3>3. cancel'[c].refund BY <1>1, <3>1, <3>2 DEF CancelLoads, CancelState
    <3>4. \A o \in Orders : GivenBack(o) => GivenBack(o)' BY <2>2 DEF GivenBack
    <3> QED BY <2>2, <2>5, <3>1, <3>3, <3>4 DEF PaidFor, Loaded, Resting
  <2> QED BY <1>2, <2>3, <2>4, <2>5 DEF Honoured, Apart
(* and one under way.                                                      *)
<1>10. ASSUME NEW c \in Cancels, CancelFinds(c) \/ CancelGroup(c) \/ CancelReadsTransaction(c)
                                 \/ CancelWritesTransaction(c) \/ RefundReads(c)
       PROVE  Honoured'
  <2>1. /\ cancel[c].at \notin Resting /\ cancel'[c].at # "summed"
        /\ cancel'[c].refund = cancel[c].refund /\ cancel'[c].remain = cancel[c].remain
        /\ \A d \in Cancels \ {c} : cancel'[d] = cancel[d]
        /\ cancel[c].at \in {"refunding", "repaying"} => cancel'[c].at = "repaying"
    <3>1. CASE CancelFinds(c) BY <1>1, <3>1 DEF CancelFinds, CancelState, Resting
    <3>2. CASE CancelGroup(c) BY <1>1, <3>2 DEF CancelGroup, CancelState, Resting
    <3>3. CASE CancelReadsTransaction(c)
      BY <1>1, <3>3 DEF CancelReadsTransaction, CancelState, Resting
    <3>4. CASE CancelWritesTransaction(c)
      BY <1>1, <3>4 DEF CancelWritesTransaction, CancelState, Resting
    <3>5. CASE RefundReads(c) BY <1>1, <3>5 DEF RefundReads, CancelState, Resting
    <3> QED BY <1>10, <3>1, <3>2, <3>3, <3>4, <3>5
  <2>2. /\ order' = order /\ notice' = notice /\ refunds' = refunds
        /\ group' = "processing" => group = "processing"
    BY <1>10 DEF CancelFinds, CancelGroup, CancelReadsTransaction, CancelWritesTransaction,
                 RefundReads, documents
  <2>3. Opened => cancel'[c].refund BY <1>2, <2>1 DEF Honoured, PaidFor
  <2>4. \A o \in Orders : cancel[c].at \in {"refunding", "repaying"} /\ o \in cancel[c].remain
                             => GivenBack(o)'
    BY <2>1 DEF GivenBack
  <2>5. ~BeingOpened /\ PaidFor => \A o \in Orders : order'[o] = "cancel" =>
           \/ order[o] = "cancel" /\ (cancel[c].at \in {"refunding", "repaying"} /\ o \in cancel[c].remain
                                        => GivenBack(o)')
           \/ GivenBack(o)'
    BY <2>2, <2>4
  <2> QED BY <1>2, <1>3, <2>1, <2>2, <2>3, <2>5, HonouredCancel
<1>11. ASSUME NEW c \in Cancels, CancelSums(c) PROVE Honoured'
  <2>1. /\ cancel[c].at = "cancelling" /\ cancel'[c].at = "summed"
        /\ cancel'[c].refund = cancel[c].refund
        /\ cancel'[c].remain = IF cancel[c].refund THEN Remaining ELSE {}
        /\ \A d \in Cancels \ {c} : cancel'[d] = cancel[d]
        /\ order' = order /\ notice' = notice /\ refunds' = refunds /\ group' = group
    BY <1>1, <1>11 DEF CancelSums, documents, CancelState
  <2>2. Opened => cancel[c].refund BY <1>2, <2>1 DEF Honoured, PaidFor, Resting
  <2>3. Opened => \A o \in Orders : order'[o] = "pending" => o \in cancel'[c].remain
    BY <2>1, <2>2 DEF Remaining
  <2>4. cancel[c].at \notin Resting BY <2>1 DEF Resting
  <2> QED BY <1>2, <1>3, <2>1, <2>2, <2>3, <2>4, HonouredCancel
<1>12. ASSUME NEW c \in Cancels, CancelOrders(c) PROVE Honoured'
  <2>1. /\ cancel[c].at = "summed" /\ cancel'[c].refund = cancel[c].refund
        /\ cancel'[c].at = IF cancel[c].refund THEN "refunding" ELSE "cancelled"
        /\ cancel'[c].remain = cancel[c].remain
        /\ \A d \in Cancels \ {c} : cancel'[d] = cancel[d]
        /\ order' = [o \in Orders |-> IF o \in Open THEN "cancel" ELSE order[o]]
        /\ notice' = notice /\ refunds' = refunds /\ group' = group
    BY <1>1, <1>12 DEF CancelOrders, CancelState
  <2>2. Opened => cancel[c].refund BY <1>2, <2>1 DEF Honoured, PaidFor, Resting
  <2>3. cancel[c].at \notin Resting BY <2>1 DEF Resting
  <2>4. ~BeingOpened /\ PaidFor => \A o \in Orders : order'[o] = "cancel" =>
           \/ order[o] = "cancel" /\ (cancel[c].at \in {"refunding", "repaying"} /\ o \in cancel[c].remain
                                        => GivenBack(o)')
           \/ GivenBack(o)'
    <3>1. SUFFICES ASSUME ~BeingOpened, PaidFor, NEW o \in Orders, order'[o] = "cancel", order[o] # "cancel"
                   PROVE  GivenBack(o)'
      BY <2>1
    <3>2. order[o] = "pending" BY <2>1, <3>1 DEF PaidFor, Loaded, BeingOpened, Open
    <3>3. o \in cancel'[c].remain /\ cancel'[c].at = "refunding"
      BY <2>1, <2>3, <3>1, <3>2 DEF PaidFor
    <3> QED BY <3>3 DEF GivenBack
  <2>5. \A o \in Orders : order'[o] = order[o] \/ order'[o] = "cancel" BY <2>1
  <2> QED BY <1>2, <1>3, <2>1, <2>2, <2>3, <2>4, <2>5, HonouredCancel
<1>13. ASSUME NEW c \in Cancels, RefundWrites(c) PROVE Honoured'
  <2>1. /\ cancel[c].at = "repaying" /\ cancel'[c].refund = cancel[c].refund
        /\ cancel'[c].at = "cancelled"
        /\ \A d \in Cancels \ {c} : cancel'[d] = cancel[d]
        /\ order' = order /\ notice' = notice /\ group' = group
        /\ refunds' = GiveBack(cancel[c]) /\ cancel[c].refunds = refunds
    BY <1>1, <1>2, <1>13, NothingType DEF RefundWrites, Overwriting, CancelState
  <2>2. Opened => cancel[c].refund BY <1>2, <2>1 DEF Honoured, PaidFor, Resting
  <2>3. cancel[c].at \notin Resting BY <2>1 DEF Resting
  <2>4. /\ \A o \in Orders : refunds'[o] >= refunds[o]
        /\ \A o \in Orders : o \in cancel[c].remain => refunds'[o] > 0
    BY <1>1, <2>1, GiveBackAdds
  <2>5. \A o \in Orders : o \in cancel[c].remain => GivenBack(o)' BY <2>4 DEF GivenBack
  <2>6. ~BeingOpened /\ PaidFor => \A o \in Orders : order'[o] = "cancel" =>
           \/ order[o] = "cancel" /\ (cancel[c].at \in {"refunding", "repaying"} /\ o \in cancel[c].remain
                                        => GivenBack(o)')
           \/ GivenBack(o)'
    BY <2>1, <2>5
  <2> QED BY <1>2, <2>1, <2>2, <2>3, <2>4, <2>6, HonouredCancel
(* The end of a working date.                                              *)
<1>14. CASE Shift
  <2>1. /\ cancel' = cancel /\ notice' = notice /\ refunds' = refunds
        /\ group' = "processing" => group = "processing"
        /\ \A o \in Orders : order'[o] = order[o] \/ order'[o] = "done"
    BY <1>1, <1>14 DEF Shift, ShiftChecks, ShiftDone, ShiftSetsGroup, documents
  <2>2. (BeingOpened' <=> BeingOpened) /\ (Opened' <=> Opened) /\ (Loaded' <=> Loaded)
        /\ (CancelUnderWay' <=> CancelUnderWay)
    BY <2>1 DEF BeingOpened, Opened, Loaded, CancelUnderWay
  <2>3. \A o \in Orders : GivenBack(o) => GivenBack(o)' BY <2>1 DEF GivenBack
  <2>4. ASSUME PaidFor PROVE PaidFor'
    <3>1. group' = "processing" => \E n \in Notices : notice'[n].at \in {"loaded", "opened"}
      BY <2>1, <2>4 DEF PaidFor
    <3>2. /\ \A c \in Cancels : cancel'[c].at \notin Resting => cancel'[c].refund
          /\ \A c \in Cancels, o \in Orders :
                cancel'[c].at = "summed" /\ order'[o] = "pending" => o \in cancel'[c].remain
      BY <2>1, <2>4 DEF PaidFor
    <3>3. ~Loaded' => \A o \in Orders :
             order'[o] \in {"pending", "done"} \/ (order'[o] = "cancel" /\ GivenBack(o)')
      BY <2>1, <2>2, <2>3, <2>4 DEF PaidFor
    <3> QED BY <3>1, <3>2, <3>3 DEF PaidFor
  <2> QED BY <1>2, <2>2, <2>4 DEF Honoured, Apart
<1>15. CASE Restart BY <1>15 DEF Restart
<1>16. CASE UNCHANGED vars
  BY <1>2, <1>16 DEF vars, documents, Honoured, Apart, BeingOpened, CancelUnderWay, Opened, PaidFor, Loaded,
        GivenBack
<1>17. Cron \in Cancels BY DEF Cancels
<1> QED
  BY <1>5, <1>6, <1>7, <1>8, <1>9, <1>10, <1>11, <1>12, <1>13, <1>14, <1>15, <1>16, <1>17 DEF Next, Handle, Cancel

(* Where a notice opened the group beside no cancellation, whatever comes  *)
(* later, every date that was paid for is worked on or given back, for any *)
(* number of dates, notices and cancel requests (JS.processingToPending    *)
(* against GS.cancelGroupOrder, which decides by the status it has read).  *)
THEOREM PaymentsAreHonoured == Spec => []PaymentHonoured
<1>1. Init => HonourInv
  BY DEF Init, HonourInv, Apart, BeingOpened, Opened, CancelUnderWay, Cancels
<1>2. TypeOK /\ TypeOK' /\ HonourInv /\ [Next]_vars => HonourInv'
  <2> SUFFICES ASSUME TypeOK, TypeOK', HonourInv, [Next]_vars PROVE HonourInv'
    OBVIOUS
  <2>1. ~cancel[Cron].refund /\ (accidents = {} => Honoured) BY DEF HonourInv, Honoured
  <2>2. ~cancel'[Cron].refund BY <2>1, CronNeverRefunds
  <2>3. accidents' = {} => Honoured' BY <2>1, HonouredStep
  <2> QED BY <2>2, <2>3 DEF HonourInv, Honoured
<1>3. HonourInv => PaymentHonoured
  BY DEF HonourInv, PaidFor, Opened, Loaded, GivenBack, Quiet, Resting, PaymentHonoured
<1> QED BY <1>1, <1>2, <1>3, PaymentTypeCorrect, PTL DEF Spec
=============================================================================
