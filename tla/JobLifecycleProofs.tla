------------------------- MODULE JobLifecycleProofs -------------------------
(***************************************************************************)
(* Proofs about JobLifecycle for every number of dates, every set of       *)
(* collaborators and every disturbance.                                    *)
(*                                                                         *)
(* WorkerAgreement is not inductive: that handing a group over cannot miss *)
(* the shift being worked on needs to know that such a shift is alone and  *)
(* shown by the group's status, and that a payment notice cannot put a     *)
(* finished shift back on offer needs to know that a group that awaits its *)
(* payment has no other shifts.  Agree states these facts.                 *)
(***************************************************************************)
EXTENDS JobLifecycle, TLAPS, WellFoundedInduction

(* A shift that is taken is held by the collaborator of the group.         *)
HeldByGroup == \A o \in Orders : status[o] \in Assigned =>
                  id_collaborator[o] = group_collaborator /\ id_collaborator[o] # NoCollaborator

(* The shifts on offer or unpaid are held by c.                            *)
OfferedBy(c) == \A o \in Orders : status[o] \in {"pending", "processing"} =>
                   id_collaborator[o] = c

(* They are held by nobody, or by the collaborator they were created with. *)
FreeOnOffer == \/ OfferedBy(NoCollaborator)
               \/ May("namedAtCreation") /\ OfferedBy(terms.named)

(* No shift is on offer while another one is taken.                        *)
OfferedTogether == \A o, p \in Orders : status[o] = "pending" => status[p] \notin Assigned

(* As long as a shift is unpaid, the others are unpaid or cancelled.       *)
UnpaidTogether == \A o, p \in Orders : status[o] = "processing" =>
                     status[p] \in {"processing", "cancel"}

(* The group's status shows the shift being worked on.                     *)
DoingShown == \A o \in Orders : status[o] = "doing" => group_status = "doing"

(* One shift at a time is worked on.                                       *)
OneDoing == \A o, p \in Orders : status[o] = "doing" /\ status[p] = "doing" => o = p

(* A group that awaits its payment has only unpaid shifts.                 *)
GroupUnpaid == group_status = "processing" => \A o \in Orders : status[o] = "processing"

Agree == /\ HeldByGroup
         /\ FreeOnOffer
         /\ OfferedTogether
         /\ UnpaidTogether
         /\ DoingShown
         /\ OneDoing
         /\ GroupUnpaid

IInv == TypeOK /\ Agree

-----------------------------------------------------------------------------
(* Types.                                                                  *)

(* What taking an order costs is a number.                                 *)
LEMMA FeeType ==
    ASSUME NEW o \in Orders, NEW pm \in [Orders -> Int]
    PROVE  Fee(o, pm) \in Int
  BY MoneyAssumption DEF Fee

(* A charge keeps the ledger a ledger.                                     *)
LEMMA ChargeType ==
    ASSUME NEW ledger \in [Orders -> [Collaborators -> Int]],
           NEW o \in Orders, NEW c \in Collaborators, NEW fee \in Int
    PROVE  Charge(ledger, o, c, fee) \in [Orders -> [Collaborators -> Int]]
  BY DEF Charge

(* So does billing orders to their collaborators.                          *)
LEMMA BillType ==
    ASSUME NEW ledger \in [Orders -> [Collaborators -> Int]],
           NEW S \in SUBSET Orders, NEW pm \in [Orders -> Int]
    PROVE  Bill(ledger, S, pm) \in [Orders -> [Collaborators -> Int]]
<1>1. \A p \in Orders : Fee(p, pm) \in Int BY FeeType
<1>2. ASSUME NEW p \in Orders
      PROVE  [ledger[p] EXCEPT ![id_collaborator[p]] = @ + Fee(p, pm)] \in [Collaborators -> Int]
  <2> DEFINE f == ledger[p]
             fee == Fee(p, pm)
             x == id_collaborator[p]
  <2>1. f \in [Collaborators -> Int] /\ fee \in Int BY <1>1
  <2> HIDE DEF f, fee, x
  <2>2. [f EXCEPT ![x] = @ + fee] \in [Collaborators -> Int]
    <3>1. CASE x \in Collaborators
      <4>1. f[x] + fee \in Int BY <2>1, <3>1
      <4> QED BY <2>1, <4>1
    <3>2. CASE x \notin Collaborators
      <4>1. [f EXCEPT ![x] = @ + fee] = f BY <2>1, <3>2
      <4> QED BY <2>1, <4>1
    <3> QED BY <3>1, <3>2
  <2> QED BY <2>2 DEF f, fee, x
<1>3. \A p \in Orders : ledger[p] \in [Collaborators -> Int] OBVIOUS
<1> QED BY <1>2, <1>3 DEF Bill

(* Every initial state has the types.                                      *)
LEMMA InitType == Init => TypeOK
  BY NAssumption, MoneyAssumption, TermsAssumption
  DEF Init, TypeOK, Orders, Assignee, OrderStatus

LEMMA TakeJobType ==
    ASSUME TypeOK, NEW o \in Orders, NEW c \in Collaborators, TakeJob(o, c)
    PROVE  TypeOK'
<1>1. pending_money \in [Orders -> Int] BY MoneyAssumption DEF TypeOK
<1>2. charged' \in [Orders -> [Collaborators -> Int]]
  BY <1>1, FeeType, ChargeType DEF TypeOK, TakeJob
<1> QED BY <1>2 DEF TypeOK, TakeJob, With, Assignee, OrderStatus, feeVars

LEMMA ChangeCollaboratorType ==
    ASSUME TypeOK, NEW o \in Orders, NEW c \in Collaborators, ChangeCollaborator(o, c)
    PROVE  TypeOK'
<1>1. pending_money \in [Orders -> Int] BY MoneyAssumption DEF TypeOK
<1>2. id_collaborator[o] \in Collaborators BY DEF TypeOK, ChangeCollaborator, Assignee
<1>3. charged' \in [Orders -> [Collaborators -> Int]]
  <2> DEFINE fee == Fee(o, pending_money)
             new == Charge(charged, o, c, fee)
  <2>1. fee \in Int /\ -fee \in Int BY <1>1, FeeType
  <2>2. new \in [Orders -> [Collaborators -> Int]] BY <2>1, ChargeType DEF TypeOK
  <2>3. charged' = Charge(new, o, id_collaborator[o], -fee) BY DEF ChangeCollaborator
  <2> QED BY ONLY <2>1, <2>2, <2>3, <1>2, ChargeType
<1> QED BY <1>3 DEF TypeOK, ChangeCollaborator, Assignee, OrderStatus, feeVars

LEMMA CancelOrderType ==
    ASSUME TypeOK, NEW o \in Orders, NEW subject, NEW steps, CancelOrder(o, subject, steps)
    PROVE  TypeOK'
<1> DEFINE st == IF "cancel" \in steps THEN [status EXCEPT ![o] = "cancel"] ELSE status
           heir == IF "cancel" \in steps THEN Heir(st, o) ELSE {}
           moved == IF heir = {} THEN 0 ELSE pending_money[o]
           pm == [p \in Orders |-> IF p \in heir THEN moved
                                   ELSE IF p = o THEN pending_money[p] - moved ELSE pending_money[p]]
           ff == [p \in Orders |-> IF p \in heir THEN final_fee[p] + moved
                                   ELSE IF p = o THEN final_fee[p] - moved ELSE final_fee[p]]
<1>1. pending_money \in [Orders -> Int] BY MoneyAssumption DEF TypeOK
<1>2. moved \in {0, ServiceFee} /\ moved \in {0, pending_money[o]} BY DEF TypeOK
<1> HIDE DEF moved, heir
<1>3. moved \in Int BY <1>2, MoneyAssumption
<1>4. pm \in [Orders -> {0, ServiceFee}] BY <1>2, <1>3, MoneyAssumption DEF TypeOK
<1>5. pm \in [Orders -> Int] BY <1>4, MoneyAssumption
<1>6. ff \in [Orders -> Int] BY <1>3 DEF TypeOK
<1>7. st \in [Orders -> OrderStatus] BY DEF TypeOK, OrderStatus
<1> HIDE DEF pm, ff, st
<1>8. pending_money' = pm /\ final_fee' = ff BY DEF CancelOrder, pm, ff, moved, heir, st
<1>9. status' \in [Orders -> OrderStatus]
  BY <1>7 DEF CancelOrder, OrderStatus, st
<1>10. /\ id_collaborator' \in [Orders -> Assignee]
       /\ group_status' \in OrderStatus
       /\ group_collaborator' \in Assignee
  BY DEF CancelOrder, TypeOK, OrderStatus, Assignee
<1>11. id_cancel_collaborator' \in [Orders -> SUBSET Collaborators]
  BY DEF CancelOrder, TypeOK
<1>12. is_duplicate' \in [Orders -> BOOLEAN]
  BY DEF CancelOrder, TypeOK
<1>13. /\ transaction' \in {"none", "processing", "done", "cancel"}
       /\ paid' \in {"no", "inTime", "late"}
       /\ terms' \in [payment_method : PaymentMethods, pricing : Pricings, named : Assignee]
  BY DEF CancelOrder, TypeOK
<1>14. refunded' \in [Orders -> Int]
  <2>1. refunded' = refunded \/ refunded' = [refunded EXCEPT ![o] = @ + ff[o]]
    BY DEF CancelOrder, ff, moved, heir, st
  <2> QED BY <2>1, <1>6 DEF TypeOK
<1>15. charged' \in [Orders -> [Collaborators -> Int]]
  <2> DEFINE repaid == Charge(charged, o, group_collaborator, -Fee(o, pending_money))
             next == NextOrder(st, o)
  <2>1. \/ charged' = charged
        \/ charged' = repaid /\ group_collaborator # NoCollaborator
        \/ charged' = Bill(charged, next, pm)
        \/ charged' = Bill(repaid, next, pm) /\ group_collaborator # NoCollaborator
    BY DEF CancelOrder, pm, moved, heir, st
  <2>2. repaid \in [Orders -> [Collaborators -> Int]]
        \/ group_collaborator = NoCollaborator
    <3>1. -Fee(o, pending_money) \in Int BY <1>1, FeeType
    <3> QED BY <3>1, ChargeType DEF TypeOK, Assignee
  <2>3. next \subseteq Orders BY DEF NextOrder, With
  <2> HIDE DEF repaid, next
  <2>4. CASE charged' = charged BY <2>4 DEF TypeOK
  <2>5. CASE charged' = repaid /\ group_collaborator # NoCollaborator BY <2>5, <2>2
  <2>6. CASE charged' = Bill(charged, next, pm)
    BY <2>6, <2>3, <1>5, BillType DEF TypeOK
  <2>7. CASE charged' = Bill(repaid, next, pm) /\ group_collaborator # NoCollaborator
    BY <2>7, <2>2, <2>3, <1>5, BillType
  <2> QED BY <2>1, <2>4, <2>5, <2>6, <2>7
<1> QED BY <1>4, <1>6, <1>8, <1>9, <1>10, <1>14, <1>15,
        <1>11, <1>12, <1>13 DEF TypeOK

LEMMA CancelGroupOrderType ==
    ASSUME TypeOK, NEW steps, CancelGroupOrder(steps)
    PROVE  TypeOK'
<1> DEFINE current == First(With(status, Unfinished))
           repaid == Charge(charged, current, group_collaborator, -Fee(current, pending_money))
<1>1. pending_money \in [Orders -> Int] BY MoneyAssumption DEF TypeOK
<1>2. charged' = charged \/ (charged' = repaid /\ group_collaborator # NoCollaborator)
  BY DEF CancelGroupOrder
<1>3. ASSUME group_collaborator # NoCollaborator
      PROVE  repaid \in [Orders -> [Collaborators -> Int]]
  <2>1. group_collaborator \in Collaborators BY <1>3 DEF TypeOK, Assignee
  <2>2. charged \in [Orders -> [Collaborators -> Int]] BY DEF TypeOK
  <2> HIDE DEF current
  <2>3. CASE current \in Orders
    <3>1. -Fee(current, pending_money) \in Int BY <1>1, <2>3, FeeType
    <3> QED BY <2>1, <2>2, <2>3, <3>1, ChargeType
  <2>4. CASE current \notin Orders
    <3>1. repaid = charged BY <2>2, <2>4 DEF Charge
    <3> QED BY <3>1, <2>2
  <2> QED BY <2>3, <2>4
<1>4. charged' \in [Orders -> [Collaborators -> Int]]
  BY <1>2, <1>3 DEF TypeOK
<1>5. refunded' \in [Orders -> Int]
  BY DEF CancelGroupOrder, TypeOK
<1>6. /\ status' \in [Orders -> OrderStatus]
      /\ id_collaborator' \in [Orders -> Assignee]
  BY DEF CancelGroupOrder, TypeOK, OrderStatus, Assignee
<1>7. /\ group_status' \in OrderStatus
      /\ group_collaborator' \in Assignee
      /\ transaction' \in {"none", "processing", "done", "cancel"}
  BY DEF CancelGroupOrder, TypeOK, OrderStatus, Assignee
<1> QED BY <1>4, <1>5, <1>6, <1>7 DEF TypeOK, CancelGroupOrder, feeVars

LEMMA DoingToDoneType ==
    ASSUME TypeOK, NEW o \in Orders, DoingToDone(o)
    PROVE  TypeOK'
<1> DEFINE st == [status EXCEPT ![o] = "done"]
           billed == {n \in NextOrder(st, o) : id_collaborator[n] = id_collaborator[o]}
<1>1. pending_money \in [Orders -> Int] BY MoneyAssumption DEF TypeOK
<1>2. charged' = charged \/ charged' = Bill(charged, billed, pending_money)
  BY DEF DoingToDone
<1>3. billed \subseteq Orders BY DEF NextOrder, With
<1> HIDE DEF billed
<1>4. charged' \in [Orders -> [Collaborators -> Int]]
  <2>1. CASE charged' = charged BY <2>1 DEF TypeOK
  <2>2. CASE charged' = Bill(charged, billed, pending_money)
    BY <2>2, <1>1, <1>3, BillType DEF TypeOK
  <2> QED BY <1>2, <2>1, <2>2
<1>5. is_duplicate' \in [Orders -> BOOLEAN]
  BY DEF DoingToDone, TypeOK
<1> QED BY <1>4, <1>5 DEF TypeOK, DoingToDone, OrderStatus, feeVars

LEMMA ConfirmToDoingType ==
    ASSUME TypeOK, NEW o \in Orders, ConfirmToDoing(o)
    PROVE  TypeOK'
  BY DEF TypeOK, ConfirmToDoing, OrderStatus, feeVars, ledgers

LEMMA ProcessingToPendingType ==
    ASSUME TypeOK, NEW isAutoCapture \in BOOLEAN, ProcessingToPending(isAutoCapture)
    PROVE  TypeOK'
  BY DEF TypeOK, ProcessingToPending, Captured, OrderStatus, feeVars

(* A collaborator takes the group by the order o.                          *)
Takes(o, c) ==
    /\ May("anyOrder") \/ (status[o] = "pending" /\ ~is_duplicate[o])
    /\ TakeJob(o, c)

(* The cancellations of one order and of the group, whoever asks for them, *)
(* and who gets his money back.                                            *)
CancelStep(o) ==
    \E subject, steps :
       /\ status[o] \in {"done", "cancel"} => May("cancelTerminal")
       /\ status[o] = "processing" => May("cancelProcessing")
       /\ \/ /\ "cancel" \in steps /\ "unassign" \notin steps
             /\ \/ May("lateCancelRoute")
                \/ /\ "refundCustomer" \in steps
                   /\ "minusNext" \in steps <=> "refundCollaborator" \in steps
                   /\ "refundCollaborator" \in steps \/ status[o] = "pending"
          \/ /\ "cancel" \notin steps /\ "unassign" \in steps
             /\ "refundCustomer" \notin steps /\ "minusNext" \notin steps
             /\ "refundCollaborator" \in steps
             /\ Requested(o) /\ status[o] \in Assigned
       /\ CancelOrder(o, subject, steps)

CancelGroupStep ==
    \E steps :
       /\ \/ /\ "cancel" \in steps /\ "unassign" \notin steps
             /\ \/ group_status = "processing" \/ May("lateFailure")
                \/ "refundCustomer" \in steps /\ "refundCollaborator" \in steps
          \/ /\ "cancel" \notin steps /\ "unassign" \in steps
             /\ "refundCustomer" \notin steps /\ "refundCollaborator" \in steps
       /\ CancelGroupOrder(steps)

(* Every step is of one of the seven kinds the lemmas are about.           *)
LEMMA StepKinds ==
    ASSUME Next
    PROVE  \/ \E o \in Orders, c \in Collaborators : Takes(o, c)
           \/ \E o \in Orders, c \in Collaborators : ChangeCollaborator(o, c)
           \/ \E o \in Orders : ConfirmToDoing(o)
           \/ \E o \in Orders : DoingToDone(o)
           \/ \E o \in Orders : CancelStep(o)
           \/ CancelGroupStep
           \/ \E isAutoCapture \in BOOLEAN : ProcessingToPending(isAutoCapture)
<1>1. ASSUME NEW o \in Orders, OrderStep(o)
      PROVE  \/ \E c \in Collaborators : Takes(o, c) \/ ChangeCollaborator(o, c)
             \/ ConfirmToDoing(o) \/ DoingToDone(o) \/ CancelStep(o)
  <2>1. CASE \E c \in Collaborators : PendingToConfirm(o, c) \/ AddCollaboratorByOrder(o, c)
    BY <2>1 DEF PendingToConfirm, AddCollaboratorByOrder, Takes
  <2>2. CASE CustomerCancelOrder(o) \/ AdminCancelOrder(o)
    <3>1. Cancellable(o) BY <2>2 DEF CustomerCancelOrder, AdminCancelOrder
    <3>2. /\ status[o] \in {"done", "cancel"} => May("cancelTerminal")
          /\ status[o] = "processing" => May("cancelProcessing")
      BY <3>1 DEF Cancellable, Open
    <3> DEFINE steps == {"cancel", "refundCustomer", "refundCollaborator", "minusNext"}
    <3>3. \E subject : CancelOrder(o, subject, steps)
      BY <2>2 DEF CustomerCancelOrder, AdminCancelOrder
    <3>4. /\ "cancel" \in steps /\ "unassign" \notin steps /\ "refundCustomer" \in steps
          /\ "minusNext" \in steps /\ "refundCollaborator" \in steps
      OBVIOUS
    <3> HIDE DEF steps
    <3> QED BY <3>2, <3>3, <3>4 DEF CancelStep
  <2>3. CASE CollaboratorCancelJob(o)
    <3> DEFINE steps == {"refundCollaborator", "unassign"}
    <3>1. Requested(o) /\ status[o] \in Assigned /\ CancelOrder(o, "collaborator", steps)
      BY <2>3 DEF CollaboratorCancelJob
    <3>2. /\ "cancel" \notin steps /\ "unassign" \in steps /\ "minusNext" \notin steps
          /\ "refundCustomer" \notin steps /\ "refundCollaborator" \in steps
      OBVIOUS
    <3> HIDE DEF steps
    <3> QED BY <3>1, <3>2 DEF CancelStep, Assigned
  <2>4. CASE CollaboratorLateCancel(o)
    <3> DEFINE steps == {"cancel", "refundCollaborator"}
    <3>1. May("lateCancelRoute") /\ status[o] \in Assigned /\ CancelOrder(o, "collaborator", steps)
      BY <2>4 DEF CollaboratorLateCancel
    <3>2. "cancel" \in steps /\ "unassign" \notin steps OBVIOUS
    <3> HIDE DEF steps
    <3> QED BY <3>1, <3>2 DEF CancelStep, Assigned
  <2>5. CASE CancelOrderOutDate(o)
    <3> DEFINE steps == {"cancel", "refundCustomer"}
    <3>1. status[o] = "pending" /\ CancelOrder(o, "system", steps)
      BY <2>5 DEF CancelOrderOutDate
    <3>2. /\ "cancel" \in steps /\ "unassign" \notin steps /\ "refundCustomer" \in steps
          /\ "minusNext" \notin steps /\ "refundCollaborator" \notin steps
      OBVIOUS
    <3> HIDE DEF steps
    <3> QED BY <3>1, <3>2 DEF CancelStep
  <2> QED BY <1>1, <2>1, <2>2, <2>3, <2>4, <2>5 DEF OrderStep
<1>2. ASSUME GroupStep
      PROVE  \/ CancelGroupStep
             \/ \E isAutoCapture \in BOOLEAN : ProcessingToPending(isAutoCapture)
  <2>1. CASE CustomerCancelGroupOrder
    BY <2>1 DEF CustomerCancelGroupOrder, CancelGroupStep
  <2>2. CASE AdminUnassignCollaborator
    BY <2>2 DEF AdminUnassignCollaborator, CancelGroupStep
  <2>3. CASE ExpireProcessing BY <2>3 DEF ExpireProcessing, CancelGroupStep
  <2>4. CASE PaymentFails BY <2>4 DEF PaymentFails, CancelGroupStep
  <2> QED BY <1>2, <2>1, <2>2, <2>3, <2>4 DEF GroupStep
<1> QED BY <1>1, <1>2 DEF Next

(* Every step keeps the types.                                             *)
LEMMA NextType ==
    ASSUME TypeOK, Next
    PROVE  TypeOK'
  BY StepKinds, TakeJobType, ChangeCollaboratorType, ConfirmToDoingType, DoingToDoneType,
     CancelOrderType, CancelGroupOrderType, ProcessingToPendingType
  DEF Takes, CancelStep, CancelGroupStep

(* TypeOK is an invariant for all constants: no sequence of requests,      *)
(* cron jobs and payment notices leaves the documents' schemas.            *)
THEOREM TypeCorrect == Spec => []TypeOK
<1>1. ASSUME TypeOK, UNCHANGED vars
      PROVE  TypeOK'
  BY <1>1 DEF TypeOK, vars, orderVars, feeVars, groupVars, ledgers
<1> QED BY <1>1, InitType, NextType, PTL DEF Spec

-----------------------------------------------------------------------------
(* The agreement of orders and group.                                      *)

LEMMA InitAgree == Init => Agree
<1>1. Init => FreeOnOffer BY DEF Init, FreeOnOffer, OfferedBy
<1>2. Init => \A o \in Orders : /\ status[o] \in {"pending", "processing"}
                               /\ status[o] = group_status
  BY DEF Init
<1> QED BY <1>1, <1>2
        DEF Agree, HeldByGroup, OfferedTogether, UnpaidTogether, DoingShown, OneDoing,
            GroupUnpaid, Assigned

(* If no shift comes on offer, the others are held as before.              *)
LEMMA StillOffered ==
    ASSUME FreeOnOffer, UNCHANGED terms,
           \A p \in Orders : status'[p] \in {"pending", "processing"} =>
              status[p] \in {"pending", "processing"} /\ id_collaborator'[p] = id_collaborator[p]
    PROVE  FreeOnOffer'
  BY DEF FreeOnOffer, OfferedBy

(* What is unassigned is held by nobody.                                   *)
LEMMA FreedOnOffer ==
    ASSUME \A p \in Orders : status'[p] \in {"pending", "processing"} =>
              id_collaborator'[p] = NoCollaborator
    PROVE  FreeOnOffer'
  BY DEF FreeOnOffer, OfferedBy

LEMMA TakeJobAgree ==
    ASSUME IInv, NEW o \in Orders, NEW c \in Collaborators, TakeJob(o, c)
    PROVE  Agree'
<1> DEFINE pending == With(status, {"pending"})
<1>1. CASE pending = {}
  <2>1. /\ status' = status /\ id_collaborator' = id_collaborator
        /\ group_status' = group_status /\ group_collaborator' = group_collaborator
        /\ UNCHANGED terms
    BY <1>1 DEF TakeJob, IInv, TypeOK, With
  <2>2. FreeOnOffer' BY <2>1, StillOffered DEF IInv, Agree
  <2> QED BY <2>1, <2>2 DEF IInv, Agree, HeldByGroup, OfferedTogether, UnpaidTogether,
                            DoingShown, OneDoing, GroupUnpaid
<1>2. CASE pending # {}
  <2>1. PICK q \in Orders : status[q] = "pending" BY <1>2 DEF With
  <2>2. \A p \in Orders : status[p] \in {"pending", "done", "cancel"}
    <3>1. \A p \in Orders : status[p] \notin Assigned /\ status[p] # "processing"
      BY <2>1 DEF IInv, Agree, OfferedTogether, UnpaidTogether
    <3> QED BY <3>1 DEF IInv, TypeOK, OrderStatus, Assigned
  <2>3. \A p \in Orders : /\ status'[p] \in {"confirm", "done", "cancel"}
                          /\ status'[p] = "confirm" => id_collaborator'[p] = c
    BY <2>2 DEF TakeJob, With
  <2>4. group_collaborator' = c /\ group_status' = "confirm" BY <1>2 DEF TakeJob
  <2>5. FreeOnOffer' BY <2>3, FreedOnOffer
  <2> QED BY <2>3, <2>4, <2>5, CollaboratorAssumption
          DEF Agree, HeldByGroup, OfferedTogether, UnpaidTogether, DoingShown,
              OneDoing, GroupUnpaid, Assigned
<1> QED BY <1>1, <1>2

LEMMA ChangeCollaboratorAgree ==
    ASSUME IInv, NEW o \in Orders, NEW c \in Collaborators, ChangeCollaborator(o, c)
    PROVE  Agree'
<1>1. /\ status' = status /\ group_status' = group_status /\ group_collaborator' = c
      /\ \A p \in Orders : id_collaborator'[p] = IF status[p] = "confirm" THEN c
                                                  ELSE id_collaborator[p]
      /\ UNCHANGED terms
  BY DEF ChangeCollaborator
<1>2. \A p \in Orders : status[p] # "doing"
  BY DEF ChangeCollaborator, Changeable, IInv, Agree, DoingShown
<1>3. HeldByGroup' BY <1>1, <1>2, CollaboratorAssumption DEF HeldByGroup, Assigned
<1>4. FreeOnOffer' BY <1>1, StillOffered DEF IInv, Agree
<1> QED BY <1>1, <1>3, <1>4
        DEF IInv, Agree, OfferedTogether, UnpaidTogether, DoingShown, OneDoing, GroupUnpaid

LEMMA ConfirmToDoingAgree ==
    ASSUME IInv, NEW o \in Orders, ConfirmToDoing(o)
    PROVE  Agree'
<1>1. /\ status[o] = "confirm" /\ status'[o] = "doing" /\ group_status' = "doing"
      /\ \A p \in Orders \ {o} : status'[p] = status[p]
      /\ id_collaborator' = id_collaborator /\ group_collaborator' = group_collaborator
      /\ UNCHANGED terms
  BY DEF ConfirmToDoing, IInv, TypeOK
<1>2. \A p \in Orders : status[p] # "doing"
  BY <1>1 DEF ConfirmToDoing, IInv, Agree, HeldByGroup, Assigned
<1>3. HeldByGroup' BY <1>1 DEF IInv, Agree, HeldByGroup, Assigned
<1>4. FreeOnOffer' BY <1>1, StillOffered DEF IInv, Agree
<1>5. OfferedTogether' BY <1>1 DEF IInv, Agree, OfferedTogether, Assigned
<1>6. UnpaidTogether' BY <1>1 DEF IInv, Agree, UnpaidTogether
<1>7. DoingShown' /\ OneDoing' BY <1>1, <1>2 DEF DoingShown, OneDoing
<1>8. GroupUnpaid' BY <1>1 DEF GroupUnpaid
<1> QED BY <1>3, <1>4, <1>5, <1>6, <1>7, <1>8 DEF Agree

LEMMA DoingToDoneAgree ==
    ASSUME IInv, NEW o \in Orders, DoingToDone(o)
    PROVE  Agree'
<1>1. /\ status[o] = "doing" /\ status'[o] = "done"
      /\ \A p \in Orders \ {o} : status'[p] = status[p]
      /\ id_collaborator' = id_collaborator /\ group_collaborator' = group_collaborator
      /\ group_status' \in {group_status, "done", "confirm"}
      /\ UNCHANGED terms
  BY DEF DoingToDone, IInv, TypeOK
<1>2. \A p \in Orders : status'[p] # "doing"
  BY <1>1 DEF IInv, Agree, OneDoing
<1>3. HeldByGroup' BY <1>1 DEF IInv, Agree, HeldByGroup, Assigned
<1>4. FreeOnOffer' BY <1>1, StillOffered DEF IInv, Agree
<1>5. OfferedTogether' BY <1>1 DEF IInv, Agree, OfferedTogether, Assigned
<1>6. UnpaidTogether' BY <1>1 DEF IInv, Agree, UnpaidTogether
<1>7. DoingShown' /\ OneDoing' BY <1>2 DEF DoingShown, OneDoing
<1>8. GroupUnpaid' BY <1>1 DEF IInv, Agree, GroupUnpaid
<1> QED BY <1>3, <1>4, <1>5, <1>6, <1>7, <1>8 DEF Agree

LEMMA CancelStepAgree ==
    ASSUME IInv, NEW o \in Orders, CancelStep(o)
    PROVE  Agree'
<1>1. PICK subject, steps :
         /\ \/ "cancel" \in steps /\ "unassign" \notin steps
            \/ "cancel" \notin steps /\ "unassign" \in steps /\ status[o] \in Assigned
         /\ CancelOrder(o, subject, steps)
  BY DEF CancelStep
<1>2. CASE "cancel" \in steps /\ "unassign" \notin steps
  <2> DEFINE st == [status EXCEPT ![o] = "cancel"]
  <2>1. /\ group_collaborator' = group_collaborator
        /\ group_status' = IF With(st, Open) # {} THEN group_status
                           ELSE IF With(st, {"done"}) # {} THEN "done" ELSE "cancel"
    BY <1>1, <1>2 DEF CancelOrder
  <2>2. /\ \A p \in Orders : status'[p] = st[p]
        /\ \A p \in Orders : id_collaborator'[p] = id_collaborator[p]
        /\ UNCHANGED terms
    BY <1>1, <1>2 DEF CancelOrder
  <2>3. /\ status'[o] = "cancel"
        /\ \A p \in Orders \ {o} : status'[p] = status[p]
        /\ \A p \in Orders : id_collaborator'[p] = id_collaborator[p]
        /\ UNCHANGED terms
    BY <2>2 DEF IInv, TypeOK
  <2>4. HeldByGroup' BY <2>1, <2>3 DEF IInv, Agree, HeldByGroup, Assigned
  <2>5. FreeOnOffer' BY <2>3, StillOffered DEF IInv, Agree
  <2>6. OfferedTogether' BY <2>3 DEF IInv, Agree, OfferedTogether, Assigned
  <2>7. UnpaidTogether' BY <2>3 DEF IInv, Agree, UnpaidTogether
  <2>8. DoingShown'
    <3> SUFFICES ASSUME NEW p \in Orders, status'[p] = "doing"
                 PROVE  group_status' = "doing"
      BY DEF DoingShown
    <3>1. p \in With(st, Open) BY <2>2 DEF With, Open
    <3>2. status[p] = "doing" BY <2>3
    <3> QED BY <2>1, <3>1, <3>2 DEF IInv, Agree, DoingShown
  <2>9. OneDoing' BY <2>3 DEF IInv, Agree, OneDoing
  <2>10. GroupUnpaid'
    <3> SUFFICES ASSUME group_status' = "processing" PROVE FALSE
      BY DEF GroupUnpaid
    <3>1. group_status = "processing" /\ With(st, Open) # {} BY <2>1
    <3>2. \A p \in Orders : st[p] \in {"processing", "cancel"}
      BY <3>1 DEF IInv, Agree, GroupUnpaid, TypeOK
    <3> QED BY <3>1, <3>2 DEF With, Open
  <2> QED BY <2>4, <2>5, <2>6, <2>7, <2>8, <2>9, <2>10 DEF Agree
<1>3. CASE "cancel" \notin steps /\ "unassign" \in steps /\ status[o] \in Assigned
  <2>1. group_status # "processing"
    BY <1>3 DEF IInv, Agree, GroupUnpaid, Assigned
  <2>2. /\ group_status' = "pending"
        /\ \A p \in Orders : status'[p] = IF status[p] \in Assigned THEN "pending" ELSE status[p]
        /\ \A p \in Orders : id_collaborator'[p] = IF status[p] \in Assigned THEN NoCollaborator
                                                    ELSE id_collaborator[p]
    BY <1>1, <1>3, <2>1 DEF CancelOrder
  <2>3. \A p \in Orders : status[p] \notin {"pending", "processing"}
    BY <1>3 DEF IInv, Agree, OfferedTogether, UnpaidTogether, Assigned
  <2>4. \A p \in Orders : /\ status'[p] \in {"pending", "done", "cancel"}
                          /\ status'[p] = "pending" => id_collaborator'[p] = NoCollaborator
    BY <2>2, <2>3 DEF IInv, TypeOK, OrderStatus, Assigned
  <2>5. FreeOnOffer' BY <2>4, FreedOnOffer
  <2> QED BY <2>2, <2>4, <2>5 DEF Agree, HeldByGroup, OfferedTogether, UnpaidTogether,
                                  DoingShown, OneDoing, GroupUnpaid, Assigned
<1> QED BY <1>1, <1>2, <1>3

LEMMA CancelGroupStepAgree ==
    ASSUME IInv, CancelGroupStep
    PROVE  Agree'
<1>1. PICK steps : /\ ("cancel" \in steps) <=> ("unassign" \notin steps)
                   /\ CancelGroupOrder(steps)
  BY DEF CancelGroupStep
<1>2. CASE "cancel" \in steps
  <2>1. /\ group_status' = "cancel" /\ group_collaborator' = group_collaborator
        /\ \A p \in Orders : status'[p] = IF status[p] \in Unfinished THEN "cancel" ELSE status[p]
    BY <1>1, <1>2 DEF CancelGroupOrder, With
  <2>2. \A p \in Orders : status'[p] \in {"done", "cancel"}
    BY <2>1 DEF IInv, TypeOK, OrderStatus, Unfinished, Open
  <2>3. FreeOnOffer' BY <2>2, FreedOnOffer
  <2> QED BY <2>1, <2>2, <2>3 DEF Agree, HeldByGroup, OfferedTogether, UnpaidTogether,
                                  DoingShown, OneDoing, GroupUnpaid, Assigned
<1>3. CASE "cancel" \notin steps /\ group_status = "processing"
  <2>1. /\ group_status' = group_status
        /\ \A p \in Orders : status'[p] = status[p] /\ id_collaborator'[p] = id_collaborator[p]
        /\ UNCHANGED terms
    BY <1>1, <1>3 DEF CancelGroupOrder
  <2>2. FreeOnOffer' BY <2>1, StillOffered DEF IInv, Agree
  <2> QED BY <1>3, <2>1, <2>2 DEF IInv, Agree, HeldByGroup, OfferedTogether,
                                  UnpaidTogether, DoingShown, OneDoing, GroupUnpaid, Assigned
<1>4. CASE "cancel" \notin steps /\ group_status # "processing"
  <2>1. /\ group_status' = "pending"
        /\ \A p \in Orders : status'[p] = IF status[p] \in Assigned THEN "pending" ELSE status[p]
        /\ \A p \in Orders : id_collaborator'[p] = IF status[p] \in Assigned THEN NoCollaborator
                                                    ELSE id_collaborator[p]
        /\ UNCHANGED terms
    BY <1>1, <1>4 DEF CancelGroupOrder
  <2>2. \A p \in Orders : status'[p] \notin Assigned
    BY <2>1 DEF Assigned
  <2>3. FreeOnOffer'
    <3>1. CASE \E p \in Orders : status[p] \in Assigned
      <4>1. \A p \in Orders : status[p] \notin {"pending", "processing"}
        BY <3>1 DEF IInv, Agree, OfferedTogether, UnpaidTogether, Assigned
      <4> QED BY <2>1, <4>1, FreedOnOffer
    <3>2. CASE \A p \in Orders : status[p] \notin Assigned
      BY <2>1, <3>2, StillOffered DEF IInv, Agree
    <3> QED BY <3>1, <3>2
  <2>4. UnpaidTogether' BY <2>1 DEF IInv, Agree, UnpaidTogether, Assigned
  <2> QED BY <2>1, <2>2, <2>3, <2>4 DEF Agree, HeldByGroup, OfferedTogether, DoingShown,
                                        OneDoing, GroupUnpaid, Assigned
<1> QED BY <1>1, <1>2, <1>3, <1>4

LEMMA ProcessingToPendingAgree ==
    ASSUME IInv, NEW isAutoCapture \in BOOLEAN, ProcessingToPending(isAutoCapture)
    PROVE  Agree'
<1>1. CASE Opens
  <2>1. /\ \A p \in Orders : status'[p] = "pending" /\ id_collaborator'[p] = id_collaborator[p]
        /\ group_status' = "pending"
        /\ UNCHANGED terms
    BY <1>1 DEF ProcessingToPending
  <2>2. \A p \in Orders : status[p] = "processing"
    BY <1>1 DEF Opens, IInv, Agree, GroupUnpaid
  <2>3. FreeOnOffer' BY <2>1, <2>2, StillOffered DEF IInv, Agree
  <2> QED BY <2>1, <2>3 DEF Agree, HeldByGroup, OfferedTogether, UnpaidTogether,
                            DoingShown, OneDoing, GroupUnpaid, Assigned
<1>2. CASE ~Opens
  <2>1. /\ status' = status /\ id_collaborator' = id_collaborator
        /\ group_status' = group_status /\ group_collaborator' = group_collaborator
        /\ UNCHANGED terms
    BY <1>2 DEF ProcessingToPending
  <2>2. FreeOnOffer' BY <2>1, StillOffered DEF IInv, Agree
  <2> QED BY <2>1, <2>2 DEF IInv, Agree, HeldByGroup, OfferedTogether, UnpaidTogether,
                            DoingShown, OneDoing, GroupUnpaid
<1> QED BY <1>1, <1>2

LEMMA NextAgree ==
    ASSUME IInv, [Next]_vars
    PROVE  Agree'
<1>1. CASE Next
  BY <1>1, StepKinds, TakeJobAgree, ChangeCollaboratorAgree, ConfirmToDoingAgree,
     DoingToDoneAgree, CancelStepAgree, CancelGroupStepAgree, ProcessingToPendingAgree
  DEF Takes
<1>2. CASE UNCHANGED vars
  BY <1>2 DEF IInv, Agree, HeldByGroup, FreeOnOffer, OfferedBy, OfferedTogether,
              UnpaidTogether, DoingShown, OneDoing, GroupUnpaid, vars, orderVars, groupVars
<1> QED BY <1>1, <1>2

(* The strengthened invariant.                                             *)
LEMMA Invariance == Spec => []IInv
<1>1. Init => IInv BY InitType, InitAgree DEF IInv
<1>2. ASSUME IInv, [Next]_vars
      PROVE  IInv'
  <2>1. TypeOK' BY <1>2, NextType
                DEF IInv, TypeOK, vars, orderVars, feeVars, groupVars, ledgers
  <2> QED BY <1>2, <2>1, NextAgree DEF IInv
<1> QED BY <1>1, <1>2, PTL DEF Spec

(* Orders and group agree on who works, under every disturbance.           *)
THEOREM WorkersAgree == Spec => []WorkerAgreement
<1>1. ASSUME IInv PROVE WorkerAgreement
  <2>1. \A o \in With(status, Assigned) : /\ id_collaborator[o] = group_collaborator
                                           /\ id_collaborator[o] # NoCollaborator
    BY <1>1 DEF IInv, Agree, HeldByGroup, With
  <2>2. \E c \in {NoCollaborator, terms.named} :
          \A o \in With(status, {"pending", "processing"}) : id_collaborator[o] = c
    BY <1>1 DEF IInv, Agree, FreeOnOffer, OfferedBy, With
  <2>3. With(status, {"pending"}) # {} => With(status, Assigned) = {}
    BY <1>1 DEF IInv, Agree, OfferedTogether, With
  <2> QED BY <2>1, <2>2, <2>3 DEF WorkerAgreement
<1> QED BY <1>1, Invariance, PTL

(* If no cancellation of a finished order is sent, a finished order stays  *)
(* what it is, whatever else clients, crons and gateways do.               *)
THEOREM FinishedStays ==
    ASSUME "cancelTerminal" \notin Disturbances
    PROVE  Spec => TerminalStays
<1> DEFINE Stays == \A o \in Orders : status[o] \in {"done", "cancel"} => status'[o] = status[o]
<1>1. ASSUME IInv, Next
      PROVE  Stays
  <2>1. CASE \E q \in Orders, c \in Collaborators : Takes(q, c)
    BY <2>1 DEF Takes, TakeJob, With
  <2>2. CASE \E q \in Orders, c \in Collaborators : ChangeCollaborator(q, c)
    BY <2>2 DEF ChangeCollaborator
  <2>3. CASE \E q \in Orders : ConfirmToDoing(q)
    BY <1>1, <2>3 DEF ConfirmToDoing, IInv, TypeOK
  <2>4. CASE \E q \in Orders : DoingToDone(q)
    BY <1>1, <2>4 DEF DoingToDone, IInv, TypeOK
  <2>5. ASSUME NEW q \in Orders, CancelStep(q)
        PROVE  Stays
    <3>1. status[q] \notin {"done", "cancel"} BY <1>1, <2>5 DEF CancelStep, May
    <3>2. \A o \in Orders : \/ status'[o] = status[o]
                            \/ o = q
                            \/ status[o] \in Assigned
      <4>1. PICK subject, steps : CancelOrder(q, subject, steps) BY <2>5 DEF CancelStep
      <4> QED BY <1>1, <4>1 DEF CancelOrder, IInv, TypeOK
    <3> QED BY <3>1, <3>2 DEF Assigned
  <2>6. CASE CancelGroupStep
    BY <2>6 DEF CancelGroupStep, CancelGroupOrder, With, Unfinished, Open, Assigned
  <2>7. CASE \E isAutoCapture \in BOOLEAN : ProcessingToPending(isAutoCapture)
    BY <1>1, <2>7 DEF ProcessingToPending, Opens, IInv, Agree, GroupUnpaid
  <2> QED BY <1>1, <2>1, <2>2, <2>3, <2>4, <2>5, <2>6, <2>7, StepKinds
<1>2. ASSUME IInv, [Next]_vars
      PROVE  [Stays]_vars
  BY <1>1, <1>2
<1> QED BY <1>2, Invariance, PTL DEF Spec, TerminalStays
-----------------------------------------------------------------------------
(***************************************************************************)
(* The other properties hold for fewer disturbances, each as far as it is  *)
(* true: the job lists under all of them, the end of the group order as    *)
(* long as the shifts are worked in their order and an unpaid one is not   *)
(* cancelled, the service fee if no finished one is cancelled again        *)
(* either, the ledgers of fees and refunds for still fewer.  Each has an   *)
(* invariant of its own on top of IInv.                                    *)
(*                                                                         *)
(* The handlers look the orders up in their own ways (NextOrder, Heir,     *)
(* First); that they mean the same order needs to know that the dates are  *)
(* worked one after the other (DoingFirst), and that a refund is right     *)
(* needs to know what the transaction says of the payment (PaymentShown).  *)
(***************************************************************************)

(* o is the earliest order that is not over.                               *)
Left(o) == status[o] \in Unfinished
Current(o) == Left(o) /\ \A p \in Orders : Left(p) => o <= p

(* n becomes current when o is over.                                       *)
Follows(o, n) == n # o /\ Left(n) /\ \A p \in Orders : p # o /\ Left(p) => n <= p

Unbilled == UNCHANGED <<pending_money, final_fee, refunded>>

(* A payment under way may be given up, one made, or none, stays.          *)
TransactionKept == transaction' = transaction \/ (transaction = "processing" /\ transaction' = "cancel")

(* A set of orders has a first one, and First finds it.                    *)
LEMMA LeastNumber ==
    ASSUME NEW S \in SUBSET Nat, S # {}
    PROVE  \E m \in S : \A k \in S : m <= k
<1> DEFINE R == OpToRel(<, Nat)
<1>1. IsWellFoundedOn(R, Nat) BY NatLessThanWellFounded
<1>2. \A x, y \in Nat : <<x, y>> \in R <=> x < y BY DEF OpToRel
<1> HIDE DEF R
<1>3. PICK x \in S : \A y \in S : ~(<<y, x>> \in R) BY <1>1, WFMin
<1>4. ASSUME NEW y \in S PROVE x <= y
  <2>1. x \in Nat /\ y \in Nat OBVIOUS
  <2>2. ~(y < x) BY <1>2, <1>3, <2>1
  <2> QED BY <2>1, <2>2
<1> QED BY <1>4

LEMMA OrdersAreNumbers == Orders \subseteq Nat
  BY NAssumption DEF Orders

LEMMA FirstFound ==
    ASSUME NEW S \in SUBSET Orders, S # {}
    PROVE  First(S) \in S /\ \A p \in S : First(S) <= p
<1>1. \E m \in S : \A k \in S : m <= k BY OrdersAreNumbers, LeastNumber
<1> QED BY <1>1 DEF First

LEMMA FirstIs ==
    ASSUME NEW S \in SUBSET Orders, NEW o \in S
    PROVE  o = First(S) <=> \A p \in S : o <= p
<1>1. First(S) \in S /\ \A p \in S : First(S) <= p BY FirstFound
<1>2. o \in Nat /\ First(S) \in Nat BY <1>1, OrdersAreNumbers
<1>3. ASSUME \A p \in S : o <= p PROVE o = First(S)
  <2>1. o <= First(S) /\ First(S) <= o BY <1>1, <1>3
  <2> QED BY <2>1, <1>2
<1> QED BY <1>1, <1>3

LEMMA CurrentIs ==
    ASSUME NEW o \in Orders
    PROVE  IsCurrent(o) <=> Current(o)
<1> DEFINE S == With(status, Unfinished)
<1>1. S \in SUBSET Orders /\ \A p \in Orders : p \in S <=> Left(p) BY DEF With, Left
<1> HIDE DEF S
<1>2. IsCurrent(o) <=> o \in S /\ o = First(S) BY DEF IsCurrent, S
<1>3. CASE o \in S
  <2>1. o = First(S) <=> \A p \in S : o <= p BY <1>1, <1>3, FirstIs
  <2> QED BY <1>1, <1>2, <1>3, <2>1 DEF Current
<1>4. CASE o \notin S BY <1>1, <1>2, <1>4 DEF Current
<1> QED BY <1>3, <1>4

LEMMA CurrentAlone ==
    ASSUME NEW o \in Orders, NEW p \in Orders, Current(o), Current(p)
    PROVE  p = o
<1>1. o <= p /\ p <= o BY DEF Current
<1> QED BY <1>1, OrdersAreNumbers

LEMMA FollowerFound ==
    ASSUME NEW o \in Orders, \E p \in Orders : p # o /\ Left(p)
    PROVE  \E n \in Orders : Follows(o, n)
<1> DEFINE S == {p \in Orders : p # o /\ Left(p)}
<1>1. First(S) \in S /\ \A p \in S : First(S) <= p BY FirstFound
<1> QED BY <1>1 DEF Follows

LEMMA SameLeft ==
    ASSUME \A p \in Orders : Left(p)' <=> Left(p)
    PROVE  \A p \in Orders : Current(p)' <=> Current(p)
  BY DEF Current

LEMMA LeftWithout ==
    ASSUME NEW o \in Orders, \A p \in Orders : Left(p)' <=> p # o /\ Left(p)
    PROVE  \A p \in Orders : Current(p)' <=> Follows(o, p)
  BY DEF Current, Follows

(* Without "anyOrder" a request is about the current order.                *)
LEMMA RequestedIs ==
    ASSUME "anyOrder" \notin Disturbances, NEW o \in Orders, Requested(o)
    PROVE  Current(o)
  BY CurrentIs DEF Requested, May

-----------------------------------------------------------------------------
(* What the steps do to the documents, under every disturbance.            *)

LEMMA TakeJobEffect ==
    ASSUME IInv, NEW o \in Orders, NEW c \in Collaborators, TakeJob(o, c)
    PROVE  /\ Unbilled /\ UNCHANGED <<terms, is_duplicate, transaction>>
           /\ \/ UNCHANGED <<status, id_collaborator, group_status, group_collaborator>>
              \/ /\ \E p \in Orders : status[p] = "pending"
                 /\ \A p \in Orders : status[p] \in {"pending", "done", "cancel"}
                 /\ \A p \in Orders : status'[p] = IF status[p] = "pending" THEN "confirm" ELSE status[p]
                 /\ \A p \in Orders : id_collaborator'[p] = IF status[p] = "pending" THEN c ELSE id_collaborator[p]
                 /\ group_status' = "confirm" /\ group_collaborator' = c
<1> DEFINE pending == With(status, {"pending"})
<1>1. Unbilled /\ UNCHANGED <<terms, is_duplicate, transaction>>
  BY DEF TakeJob, feeVars, Unbilled
<1>2. CASE pending = {}
  <2>1. UNCHANGED <<status, id_collaborator, group_status, group_collaborator>>
    BY <1>2 DEF TakeJob, IInv, TypeOK, With
  <2> QED BY <1>1, <2>1
<1>3. CASE pending # {}
  <2>1. PICK q \in Orders : status[q] = "pending" BY <1>3 DEF With
  <2>2. \A p \in Orders : status[p] \in {"pending", "done", "cancel"}
    <3>1. \A p \in Orders : status[p] \notin Assigned /\ status[p] # "processing"
      BY <2>1 DEF IInv, Agree, OfferedTogether, UnpaidTogether
    <3> QED BY <3>1 DEF IInv, TypeOK, OrderStatus, Assigned
  <2>3. \A p \in Orders : p \in pending <=> status[p] = "pending" BY DEF With
  <2>4. /\ \A p \in Orders : status'[p] = IF status[p] = "pending" THEN "confirm" ELSE status[p]
        /\ \A p \in Orders : id_collaborator'[p] = IF status[p] = "pending" THEN c ELSE id_collaborator[p]
        /\ group_status' = "confirm" /\ group_collaborator' = c
    BY <1>3, <2>3 DEF TakeJob
  <2> QED BY <1>1, <2>1, <2>2, <2>4
<1> QED BY <1>2, <1>3

LEMMA ConfirmEffect ==
    ASSUME IInv, NEW o \in Orders, ConfirmToDoing(o)
    PROVE  /\ status[o] = "confirm"
           /\ \A p \in Orders : status[p] # "doing"
           /\ \A p \in Orders : status'[p] = IF p = o THEN "doing" ELSE status[p]
           /\ group_status' = "doing" /\ group_status # "processing"
           /\ Unbilled
           /\ UNCHANGED <<terms, is_duplicate, transaction, id_collaborator, group_collaborator, charged>>
<1>1. status[o] = "confirm" BY DEF ConfirmToDoing
<1>2. group_status # "processing" BY <1>1 DEF IInv, Agree, GroupUnpaid
<1>3. \A p \in Orders : status[p] # "doing"
  BY <1>1 DEF ConfirmToDoing, IInv, Agree, HeldByGroup, Assigned
<1> QED BY <1>1, <1>2, <1>3 DEF ConfirmToDoing, feeVars, Unbilled, ledgers, IInv, TypeOK

(* The next order is shown, and has the collaborator who has o.            *)
LEMMA DoingToDoneEffect ==
    ASSUME IInv, NEW o \in Orders, DoingToDone(o)
    PROVE  /\ status[o] = "doing"
           /\ \A p \in Orders : status[p] # "processing"
           /\ \A p \in Orders : p # o => status[p] # "doing"
           /\ \A p \in Orders : status'[p] = IF p = o THEN "done" ELSE status[p]
           /\ group_status' = IF NextOrder(status', o) = {} THEN "done" ELSE "confirm"
           /\ \A p \in Orders : p # o => is_duplicate'[p] = IF p \in NextOrder(status', o) THEN FALSE ELSE is_duplicate[p]
           /\ Unbilled /\ UNCHANGED <<terms, transaction, id_collaborator, group_collaborator>>
           /\ charged' = Bill(charged, NextOrder(status', o), pending_money)
           /\ \A n \in NextOrder(status', o) : id_collaborator[n] = group_collaborator
<1> DEFINE st == [status EXCEPT ![o] = "done"]
           next == NextOrder(st, o)
<1>1. status[o] = "doing" /\ status' = st BY DEF DoingToDone
<1>2. \A p \in Orders : status'[p] = IF p = o THEN "done" ELSE status[p]
  BY <1>1 DEF IInv, TypeOK
<1>3. \A p \in Orders : status[p] # "processing" /\ (p # o => status[p] # "doing")
  BY <1>1 DEF IInv, Agree, UnpaidTogether, OneDoing
<1>4. next \subseteq Orders /\ \A n \in next : st[n] \in Open /\ n # o
  BY <1>1 DEF NextOrder, With, IInv, TypeOK, Open
<1>5. \A p \in Orders : status[p] \in Open => status[p] \in Assigned
  BY <1>1 DEF IInv, Agree, OfferedTogether, Open, Assigned
<1>6. \A n \in next : id_collaborator[n] = group_collaborator /\ id_collaborator[n] # NoCollaborator
  <2>1. \A n \in next : status[n] \in Assigned BY <1>1, <1>2, <1>4, <1>5
  <2> QED BY <1>4, <2>1 DEF IInv, Agree, HeldByGroup
<1>7. id_collaborator[o] = group_collaborator
  BY <1>1 DEF IInv, Agree, HeldByGroup, Assigned
<1>8. {n \in next : id_collaborator[n] = id_collaborator[o]} = next BY <1>6, <1>7
<1> HIDE DEF next
<1>9. /\ group_status' = IF next = {} THEN "done" ELSE "confirm"
      /\ \A p \in Orders : p # o => is_duplicate'[p] = IF p \in next THEN FALSE ELSE is_duplicate[p]
      /\ Unbilled /\ UNCHANGED <<terms, transaction, id_collaborator, group_collaborator>>
      /\ charged' = Bill(charged, {n \in next : id_collaborator[n] = id_collaborator[o]}, pending_money)
  BY <1>6 DEF DoingToDone, next, feeVars, Unbilled
<1>10. charged' = Bill(charged, next, pending_money)
  <2> DEFINE billed == {n \in next : id_collaborator[n] = id_collaborator[o]}
  <2>1. charged' = Bill(charged, billed, pending_money) /\ billed = next BY <1>8, <1>9
  <2> HIDE DEF billed
  <2> QED BY <2>1
<1>11. NextOrder(status', o) = next BY <1>1 DEF next
<1> HIDE DEF st
<1> QED BY <1>1, <1>2, <1>3, <1>6, <1>9, <1>10, <1>11

LEMMA CancelEffect ==
    ASSUME IInv, NEW o \in Orders, NEW subject, NEW steps,
           "cancel" \in steps, "unassign" \notin steps, CancelOrder(o, subject, steps)
    PROVE  /\ \A p \in Orders : status'[p] = IF p = o THEN "cancel" ELSE status[p]
           /\ \A p \in Orders : id_collaborator'[p] = id_collaborator[p]
           /\ group_status' = IF With(status', Open) # {} THEN group_status
                              ELSE IF With(status', {"done"}) # {} THEN "done" ELSE "cancel"
           /\ \A p \in Orders : p # o => is_duplicate'[p] = IF p \in NextOrder(status', o) THEN FALSE ELSE is_duplicate[p]
           /\ UNCHANGED <<terms, group_collaborator>> /\ TransactionKept
<1> DEFINE st == [status EXCEPT ![o] = "cancel"]
<1>1. \A p \in Orders : st[p] = IF p = o THEN "cancel" ELSE status[p] BY DEF IInv, TypeOK
<1>2. /\ \A p \in Orders : status'[p] = st[p]
      /\ \A p \in Orders : id_collaborator'[p] = id_collaborator[p]
      /\ UNCHANGED <<terms, group_collaborator>> /\ TransactionKept
      /\ group_status' = IF With(st, Open) # {} THEN group_status
                         ELSE IF With(st, {"done"}) # {} THEN "done" ELSE "cancel"
  BY DEF CancelOrder, TransactionKept
<1>3. \A p \in Orders : p # o => is_duplicate'[p] = IF N = 1 THEN is_duplicate[p]
                                                    ELSE IF p \in NextOrder(st, o) THEN FALSE ELSE is_duplicate[p]
  BY DEF CancelOrder
<1>4. N = 1 => \A p \in Orders : p = o BY DEF Orders
<1>5. status' = st
  <2>1. status' = [p \in Orders |-> st[p]] BY DEF CancelOrder
  <2> QED BY <2>1 DEF IInv, TypeOK
<1> HIDE DEF st
<1> QED BY <1>1, <1>2, <1>3, <1>4, <1>5

LEMMA UnassignsEffect ==
    ASSUME IInv, NEW o \in Orders, NEW subject, NEW steps, status[o] \in Assigned,
           "cancel" \notin steps, "unassign" \in steps, "refundCustomer" \notin steps,
           CancelOrder(o, subject, steps)
    PROVE  /\ group_status # "processing" /\ group_collaborator # NoCollaborator
           /\ \A p \in Orders : status[p] \in {"confirm", "doing", "done", "cancel"}
           /\ \A p \in Orders : status'[p] = IF status[p] \in Assigned THEN "pending" ELSE status[p]
           /\ \A p \in Orders : id_collaborator'[p] = IF status[p] \in Assigned THEN NoCollaborator
                                                       ELSE id_collaborator[p]
           /\ group_status' = "pending" /\ group_collaborator' = NoCollaborator
           /\ \A p \in Orders : is_duplicate'[p] = is_duplicate[p]
           /\ \A p \in Orders : pending_money'[p] = pending_money[p] /\ final_fee'[p] = final_fee[p]
           /\ refunded' = refunded
           /\ UNCHANGED terms /\ TransactionKept
<1>1. group_status # "processing" BY DEF IInv, Agree, GroupUnpaid, Assigned
<1>2. group_collaborator # NoCollaborator BY DEF IInv, Agree, HeldByGroup
<1>3. \A p \in Orders : status[p] \in {"confirm", "doing", "done", "cancel"}
  <2>1. \A p \in Orders : status[p] \notin {"pending", "processing"}
    BY DEF IInv, Agree, OfferedTogether, UnpaidTogether, Assigned
  <2> QED BY <2>1 DEF IInv, TypeOK, OrderStatus
<1>4. /\ \A p \in Orders : status'[p] = IF status[p] \in Assigned THEN "pending" ELSE status[p]
      /\ \A p \in Orders : id_collaborator'[p] = IF status[p] \in Assigned THEN NoCollaborator
                                                  ELSE id_collaborator[p]
      /\ group_status' = "pending" /\ group_collaborator' = NoCollaborator
      /\ \A p \in Orders : is_duplicate'[p] = is_duplicate[p]
      /\ refunded' = refunded
      /\ UNCHANGED terms /\ TransactionKept
  BY <1>1 DEF CancelOrder, TransactionKept
<1>5. \A p \in Orders : pending_money'[p] = pending_money[p] /\ final_fee'[p] = final_fee[p]
  <2>1. /\ pending_money' = [p \in Orders |-> IF p \in {} THEN 0
                                ELSE IF p = o THEN pending_money[p] - 0 ELSE pending_money[p]]
        /\ final_fee' = [p \in Orders |-> IF p \in {} THEN final_fee[p] + 0
                                ELSE IF p = o THEN final_fee[p] - 0 ELSE final_fee[p]]
    BY DEF CancelOrder
  <2>2. \A p \in Orders : pending_money[p] \in Int /\ final_fee[p] \in Int
    BY MoneyAssumption DEF IInv, TypeOK
  <2> QED BY <2>1, <2>2
<1> QED BY <1>1, <1>2, <1>3, <1>4, <1>5

(* The current order of the group is the one CancelGroupOrder finds.       *)
LEMMA CurrentFound ==
    ASSUME With(status, Unfinished) # {}
    PROVE  First(With(status, Unfinished)) \in Orders /\ Current(First(With(status, Unfinished)))
<1> DEFINE S == With(status, Unfinished)
<1>1. S \in SUBSET Orders /\ \A p \in Orders : p \in S <=> Left(p) BY DEF With, Left
<1> HIDE DEF S
<1>2. First(S) \in S /\ \A p \in S : First(S) <= p BY <1>1, FirstFound DEF S
<1> QED BY <1>1, <1>2 DEF Current, S

LEMMA GroupCancelEffect ==
    ASSUME IInv, NEW steps, "cancel" \in steps, "unassign" \notin steps, CancelGroupOrder(steps)
    PROVE  /\ \A p \in Orders : status'[p] = IF Left(p) THEN "cancel" ELSE status[p]
           /\ \A p \in Orders : status'[p] \in {"done", "cancel"}
           /\ \A p \in Orders : id_collaborator'[p] = id_collaborator[p]
           /\ group_status' = "cancel" /\ group_collaborator' = group_collaborator
           /\ UNCHANGED <<terms, is_duplicate, pending_money, final_fee>> /\ TransactionKept
<1>1. \A p \in Orders : p \in With(status, Unfinished) <=> Left(p) BY DEF With, Left
<1>2. /\ \A p \in Orders : status'[p] = IF Left(p) THEN "cancel" ELSE status[p]
      /\ \A p \in Orders : id_collaborator'[p] = id_collaborator[p]
      /\ group_status' = "cancel" /\ group_collaborator' = group_collaborator
      /\ UNCHANGED <<terms, is_duplicate, pending_money, final_fee>> /\ TransactionKept
  BY <1>1 DEF CancelGroupOrder, feeVars, TransactionKept
<1> QED BY <1>2 DEF IInv, TypeOK, OrderStatus, Left, Unfinished, Open

(* Without a collaborator to take off, orders on offer stay on offer.      *)
LEMMA GroupUnassignEffect ==
    ASSUME IInv, NEW steps, "cancel" \notin steps, "unassign" \in steps, "refundCustomer" \notin steps,
           CancelGroupOrder(steps)
    PROVE  /\ \E p \in Orders : Left(p)
           /\ \A p \in Orders : status'[p] = IF status[p] \in Assigned THEN "pending" ELSE status[p]
           /\ \A p \in Orders : id_collaborator'[p] = IF status[p] \in Assigned THEN NoCollaborator
                                                       ELSE id_collaborator[p]
           /\ \/ group_status # "processing" /\ group_status' = "pending" /\ group_collaborator' = NoCollaborator
              \/ /\ group_status = "processing"
                 /\ UNCHANGED <<group_status, group_collaborator>>
           /\ Unbilled /\ UNCHANGED <<terms, is_duplicate>> /\ TransactionKept
<1>1. \E p \in Orders : Left(p) BY CurrentFound DEF CancelGroupOrder, Current
<1>2. group_status = "processing" => \A p \in Orders : status[p] \notin Assigned
  BY DEF IInv, Agree, GroupUnpaid, Assigned
<1>3. /\ \A p \in Orders : status'[p] = IF status[p] \in Assigned THEN "pending" ELSE status[p]
      /\ \A p \in Orders : id_collaborator'[p] = IF status[p] \in Assigned THEN NoCollaborator
                                                  ELSE id_collaborator[p]
      /\ \/ group_status # "processing" /\ group_status' = "pending" /\ group_collaborator' = NoCollaborator
         \/ /\ group_status = "processing"
            /\ UNCHANGED <<group_status, group_collaborator>>
      /\ UNCHANGED <<terms, is_duplicate, pending_money, final_fee>> /\ TransactionKept
  BY <1>2 DEF CancelGroupOrder, feeVars, TransactionKept
<1>4. refunded' = refunded
  <2>1. refunded' = [p \in Orders |-> refunded[p]] BY DEF CancelGroupOrder
  <2> QED BY <2>1 DEF IInv, TypeOK
<1> QED BY <1>1, <1>3, <1>4 DEF Unbilled

(* A notice opens a group that awaits it.                                  *)
LEMMA NoticeEffect ==
    ASSUME IInv, NEW isAutoCapture \in BOOLEAN, ProcessingToPending(isAutoCapture)
    PROVE  /\ terms.payment_method = "online" /\ (isAutoCapture \/ May("authorizeOnly"))
           /\ UNCHANGED <<terms, is_duplicate, id_collaborator, group_collaborator, charged,
                          pending_money, final_fee>>
           /\ \/ /\ group_status = "processing" /\ group_status' = "pending"
                 /\ \A p \in Orders : status[p] = "processing" /\ status'[p] = "pending"
                 /\ transaction' = IF isAutoCapture THEN "done" ELSE transaction
                 /\ refunded' = refunded
              \/ /\ group_status = "cancel"
                 /\ UNCHANGED <<status, group_status, transaction>>
                 /\ refunded' = [p \in Orders |-> IF status[p] \in Open THEN refunded[p] + final_fee[p]
                                                  ELSE refunded[p]]
  BY DEF ProcessingToPending, Opens, Captured, IInv, Agree, GroupUnpaid, feeVars

-----------------------------------------------------------------------------
(* The job lists, under every disturbance.                                 *)

(* Of the open orders the earliest is listed, and while the payment is     *)
(* awaited the first.                                                      *)
Listed == \A o \in Orders : status[o] \in Open =>
             (~is_duplicate[o] <=> \A p \in Orders : status[p] \in Open => o <= p)
ListedUnpaid == group_status = "processing" => \A o \in Orders : is_duplicate[o] <=> o # 1

Lists == Listed /\ ListedUnpaid

LEMMA InitLists == Init => Lists
<1> SUFFICES ASSUME Init PROVE Lists OBVIOUS
<1>1. 1 \in Orders /\ Orders \subseteq Nat /\ \A p \in Orders : 1 <= p BY NAssumption DEF Orders
<1>2. \A o \in Orders : (is_duplicate[o] <=> o # 1) /\ status[o] = status[1] BY <1>1 DEF Init
<1>3. Listed BY <1>1, <1>2 DEF Listed
<1> QED BY <1>2, <1>3 DEF Lists, ListedUnpaid

(* The open orders stay open, and listed as they are.                      *)
LEMMA SameOpenLists ==
    ASSUME Lists, group_status' = group_status \/ group_status' # "processing",
           \A p \in Orders : /\ status'[p] \in Open <=> status[p] \in Open
                             /\ is_duplicate'[p] = is_duplicate[p]
    PROVE  Lists'
  BY DEF Lists, Listed, ListedUnpaid

(* One order is over, finished or cancelled, in whatever order.            *)
LEMMA LessOpenLists ==
    ASSUME Lists, NEW o \in Orders, group_status' # "processing", status'[o] \notin Open,
           \A p \in Orders : p # o => status'[p] = status[p],
           \A p \in Orders : p # o => is_duplicate'[p] = IF p \in NextOrder(status', o) THEN FALSE ELSE is_duplicate[p]
    PROVE  Lists'
<1> SUFFICES ASSUME NEW p \in Orders, status'[p] \in Open
             PROVE  ~is_duplicate'[p] <=> \A q \in Orders : status'[q] \in Open => p <= q
  BY DEF Lists, Listed, ListedUnpaid
<1>1. p # o /\ status[p] \in Open OBVIOUS
<1>2. p \in Nat /\ o \in Nat /\ \A q \in Orders : q \in Nat BY OrdersAreNumbers
<1>3. ~is_duplicate[p] <=> \A q \in Orders : status[q] \in Open => p <= q
  BY <1>1 DEF Lists, Listed
<1>4. \A q \in Orders : status'[q] \in Open <=> q # o /\ status[q] \in Open OBVIOUS
<1>5. p \in NextOrder(status', o) <=> p > o /\ \A q \in Orders : status'[q] \in Open => p <= q
  <2>1. \A q \in Orders : q \in With(status', Open) <=> status'[q] \in Open BY DEF With
  <2>2. With(status', Open) \subseteq Orders BY DEF With
  <2> QED BY <2>1, <2>2, <1>4 DEF NextOrder
<1>6. CASE p \in NextOrder(status', o) BY <1>1, <1>5, <1>6
<1>7. CASE p \notin NextOrder(status', o)
  <2>1. is_duplicate'[p] = is_duplicate[p] BY <1>1, <1>7
  <2>2. ASSUME \A q \in Orders : status'[q] \in Open => p <= q
        PROVE  \A q \in Orders : status[q] \in Open => p <= q
    <3>1. p <= o BY <1>2, <1>5, <1>7, <2>2
    <3> QED BY <1>4, <2>2, <3>1
  <2> QED BY <1>3, <1>4, <2>1, <2>2
<1> QED BY <1>6, <1>7

LEMMA CancelStepLists ==
    ASSUME IInv, Lists, NEW o \in Orders, CancelStep(o)
    PROVE  Lists'
<1>1. PICK subject, steps :
         /\ \/ "cancel" \in steps /\ "unassign" \notin steps
            \/ /\ "cancel" \notin steps /\ "unassign" \in steps
               /\ "refundCustomer" \notin steps /\ status[o] \in Assigned
         /\ CancelOrder(o, subject, steps)
  BY DEF CancelStep
<1>2. CASE "cancel" \in steps /\ "unassign" \notin steps
  <2>1. /\ \A p \in Orders : status'[p] = IF p = o THEN "cancel" ELSE status[p]
        /\ group_status' = IF With(status', Open) # {} THEN group_status
                           ELSE IF With(status', {"done"}) # {} THEN "done" ELSE "cancel"
        /\ \A p \in Orders : p # o => is_duplicate'[p] = IF p \in NextOrder(status', o) THEN FALSE ELSE is_duplicate[p]
    BY <1>1, <1>2, CancelEffect
  <2>2. group_status' # "processing"
    <3> SUFFICES ASSUME group_status' = "processing" PROVE FALSE OBVIOUS
    <3>1. group_status = "processing" /\ With(status', Open) # {} BY <2>1
    <3>2. \A p \in Orders : status'[p] \in {"processing", "cancel"}
      BY <2>1, <3>1 DEF IInv, Agree, GroupUnpaid
    <3> QED BY <3>1, <3>2 DEF With, Open
  <2>3. status'[o] \notin Open /\ \A p \in Orders : p # o => status'[p] = status[p] BY <2>1 DEF Open
  <2> QED BY <2>1, <2>2, <2>3, LessOpenLists
<1>3. CASE "cancel" \notin steps /\ "unassign" \in steps /\ "refundCustomer" \notin steps /\ status[o] \in Assigned
  <2>1. /\ \A p \in Orders : status'[p] = IF status[p] \in Assigned THEN "pending" ELSE status[p]
        /\ group_status' = "pending"
        /\ \A p \in Orders : is_duplicate'[p] = is_duplicate[p]
    BY <1>1, <1>3, UnassignsEffect
  <2>2. \A p \in Orders : status'[p] \in Open <=> status[p] \in Open BY <2>1 DEF Open, Assigned
  <2> QED BY <2>1, <2>2, SameOpenLists
<1> QED BY <1>1, <1>2, <1>3

LEMMA CancelGroupStepLists ==
    ASSUME IInv, Lists, CancelGroupStep
    PROVE  Lists'
<1>1. PICK steps :
         /\ \/ "cancel" \in steps /\ "unassign" \notin steps
            \/ "cancel" \notin steps /\ "unassign" \in steps /\ "refundCustomer" \notin steps
         /\ CancelGroupOrder(steps)
  BY DEF CancelGroupStep
<1>2. CASE "cancel" \in steps /\ "unassign" \notin steps
  <2>1. group_status' = "cancel" /\ \A p \in Orders : status'[p] \in {"done", "cancel"}
    BY <1>1, <1>2, GroupCancelEffect
  <2> QED BY <2>1 DEF Lists, Listed, ListedUnpaid, Open
<1>3. CASE "cancel" \notin steps /\ "unassign" \in steps /\ "refundCustomer" \notin steps
  <2>1. /\ \A p \in Orders : status'[p] = IF status[p] \in Assigned THEN "pending" ELSE status[p]
        /\ group_status' = group_status \/ group_status' # "processing"
        /\ is_duplicate' = is_duplicate
    BY <1>1, <1>3, GroupUnassignEffect
  <2>2. \A p \in Orders : status'[p] \in Open <=> status[p] \in Open BY <2>1 DEF Open, Assigned
  <2> QED BY <2>1, <2>2, SameOpenLists
<1> QED BY <1>1, <1>2, <1>3

LEMMA NoticeLists ==
    ASSUME IInv, Lists, NEW isAutoCapture \in BOOLEAN, ProcessingToPending(isAutoCapture)
    PROVE  Lists'
<1>1. CASE UNCHANGED <<status, group_status, is_duplicate>>
  BY <1>1 DEF Lists, Listed, ListedUnpaid
<1>2. CASE ~UNCHANGED <<status, group_status, is_duplicate>>
  <2>1. /\ group_status = "processing" /\ group_status' = "pending" /\ is_duplicate' = is_duplicate
        /\ \A p \in Orders : status'[p] = "pending"
    BY <1>2, NoticeEffect
  <2>2. 1 \in Orders /\ \A p \in Orders : p \in Nat /\ 1 <= p BY NAssumption DEF Orders
  <2>3. \A o \in Orders : ~is_duplicate'[o] <=> o = 1 BY <2>1 DEF Lists, ListedUnpaid
  <2>4. \A o \in Orders : o = 1 <=> \A p \in Orders : o <= p BY <2>2
  <2> QED BY <2>1, <2>3, <2>4 DEF Lists, Listed, ListedUnpaid, Open
<1> QED BY <1>1, <1>2

LEMMA NextLists ==
    ASSUME IInv, Lists, [Next]_vars
    PROVE  Lists'
<1>1. ASSUME NEW o \in Orders, NEW c \in Collaborators, Takes(o, c) PROVE Lists'
  <2>1. /\ is_duplicate' = is_duplicate
        /\ \/ status' = status /\ group_status' = group_status
           \/ /\ group_status' = "confirm"
              /\ \A p \in Orders : status'[p] = IF status[p] = "pending" THEN "confirm" ELSE status[p]
    BY <1>1, TakeJobEffect DEF Takes
  <2>2. \A p \in Orders : status'[p] \in Open <=> status[p] \in Open BY <2>1 DEF Open
  <2> QED BY <2>1, <2>2, SameOpenLists
<1>2. ASSUME NEW o \in Orders, NEW c \in Collaborators, ChangeCollaborator(o, c) PROVE Lists'
  BY <1>2, SameOpenLists DEF ChangeCollaborator
<1>3. ASSUME NEW o \in Orders, ConfirmToDoing(o) PROVE Lists'
  <2>1. /\ status[o] = "confirm" /\ group_status' = "doing" /\ is_duplicate' = is_duplicate
        /\ \A p \in Orders : status'[p] = IF p = o THEN "doing" ELSE status[p]
    BY <1>3, ConfirmEffect
  <2>2. \A p \in Orders : status'[p] \in Open <=> status[p] \in Open BY <2>1 DEF Open
  <2> QED BY <2>1, <2>2, SameOpenLists
<1>4. ASSUME NEW o \in Orders, DoingToDone(o) PROVE Lists'
  <2>1. /\ \A p \in Orders : status'[p] = IF p = o THEN "done" ELSE status[p]
        /\ group_status' # "processing"
        /\ \A p \in Orders : p # o => is_duplicate'[p] = IF p \in NextOrder(status', o) THEN FALSE ELSE is_duplicate[p]
    BY <1>4, DoingToDoneEffect
  <2>2. status'[o] \notin Open /\ \A p \in Orders : p # o => status'[p] = status[p] BY <2>1 DEF Open
  <2> QED BY <2>1, <2>2, LessOpenLists
<1>5. CASE UNCHANGED vars
  BY <1>5 DEF Lists, Listed, ListedUnpaid, vars, orderVars, groupVars
<1> QED BY <1>1, <1>2, <1>3, <1>4, <1>5, StepKinds, CancelStepLists, CancelGroupStepLists, NoticeLists

LEMMA ListsInvariant == Spec => []Lists
  BY InitLists, NextLists, Invariance, PTL DEF Spec

(* The job lists show the earliest open order and no other one, whatever   *)
(* orders were finished or cancelled before, in the order of the dates or  *)
(* not, paid or not.                                                       *)
THEOREM FirstOrderListed == Spec => []OneOrderListed
<1>1. ASSUME Lists PROVE OneOrderListed
  <2> DEFINE open == With(status, Open)
  <2>1. open \in SUBSET Orders /\ \A p \in Orders : p \in open <=> status[p] \in Open BY DEF With
  <2> HIDE DEF open
  <2>2. \A p \in open : ~is_duplicate[p] <=> \A q \in open : p <= q
    BY <1>1, <2>1 DEF Lists, Listed
  <2>3. \A p \in open : ~is_duplicate[p] <=> p = First(open) BY <2>1, <2>2, FirstIs
  <2>4. open # {} => First(open) \in open BY <2>1, FirstFound
  <2>5. open # {} => {p \in open : ~is_duplicate[p]} = {First(open)} BY <2>3, <2>4
  <2> QED BY <2>5 DEF OneOrderListed, open
<1> QED BY <1>1, ListsInvariant, PTL

-----------------------------------------------------------------------------
(* The end of the group order: the shifts are worked in the order of their *)
(* dates and an unpaid one is not cancelled.                               *)

(* The shift being worked on is the earliest.                              *)
DoingFirst == \A o \in Orders : status[o] = "doing" => Current(o)

(* Orders are unpaid with their group.                                     *)
Unpaid == \A o \in Orders : status[o] = "processing" => group_status = "processing"

Worked == DoingFirst /\ Unpaid /\ GroupFollowsOrders

LEMMA GroupFollowsIs ==
    /\ GroupFollowsOrders <=>
         /\ group_status \in {"done", "cancel"} <=> \A p \in Orders : ~Left(p)
         /\ group_status = "done" => \E p \in Orders : status[p] = "done"
    /\ GroupFollowsOrders' <=>
         /\ group_status' \in {"done", "cancel"} <=> \A p \in Orders : ~Left(p)'
         /\ group_status' = "done" => \E p \in Orders : status'[p] = "done"
  BY DEF GroupFollowsOrders, With, Left

LEMMA InitWorked == Init => Worked
<1> SUFFICES ASSUME Init PROVE Worked OBVIOUS
<1>1. 1 \in Orders BY NAssumption DEF Orders
<1>2. /\ \A o \in Orders : status[o] = group_status
      /\ group_status \in {"processing", "pending"}
  BY DEF Init
<1>3. Left(1) BY <1>1, <1>2 DEF Left, Unfinished, Open
<1> QED BY <1>1, <1>2, <1>3, GroupFollowsIs DEF Worked, DoingFirst, Unpaid

(* What is left of the group is left, and the group is not over.           *)
LEMMA SameLeftWorked ==
    ASSUME Worked, \A p \in Orders : Left(p)' <=> Left(p),
           \A p \in Orders : status'[p] = "doing" => Current(p),
           \A p \in Orders : status'[p] = "processing" => group_status' = "processing",
           \A p \in Orders : status[p] = "done" => status'[p] = "done",
           group_status' = group_status \/ (group_status' \notin {"done", "cancel"} /\ \E p \in Orders : Left(p))
    PROVE  Worked'
<1>1. \A p \in Orders : Current(p)' <=> Current(p) BY SameLeft
<1>2. DoingFirst' /\ Unpaid' BY <1>1 DEF DoingFirst, Unpaid
<1>3. GroupFollowsOrders' BY GroupFollowsIs DEF Worked
<1> QED BY <1>2, <1>3 DEF Worked

LEMMA TakesWorked ==
    ASSUME IInv, Worked, NEW o \in Orders, NEW c \in Collaborators, Takes(o, c)
    PROVE  Worked'
<1>1. CASE UNCHANGED <<status, group_status>>
  BY <1>1, SameLeftWorked DEF Worked, DoingFirst, Unpaid, Left
<1>2. CASE ~UNCHANGED <<status, group_status>>
  <2>1. /\ \E p \in Orders : status[p] = "pending"
        /\ \A p \in Orders : status[p] \in {"pending", "done", "cancel"}
        /\ \A p \in Orders : status'[p] = IF status[p] = "pending" THEN "confirm" ELSE status[p]
        /\ group_status' = "confirm"
    BY <1>2, TakeJobEffect DEF Takes
  <2>2. \A p \in Orders : Left(p)' <=> Left(p) BY <2>1 DEF Left, Unfinished, Open
  <2>3. \E p \in Orders : Left(p) BY <2>1 DEF Left, Unfinished, Open
  <2>4. \A p \in Orders : status'[p] \notin {"doing", "processing"} BY <2>1
  <2> QED BY <2>1, <2>2, <2>3, <2>4, SameLeftWorked
<1> QED BY <1>1, <1>2

LEMMA ConfirmWorked ==
    ASSUME IInv, Worked, NEW o \in Orders, Current(o), ConfirmToDoing(o)
    PROVE  Worked'
<1>1. /\ status[o] = "confirm"
      /\ \A p \in Orders : status[p] # "doing"
      /\ \A p \in Orders : status'[p] = IF p = o THEN "doing" ELSE status[p]
      /\ group_status' = "doing" /\ group_status # "processing"
  BY ConfirmEffect
<1>2. \A p \in Orders : Left(p)' <=> Left(p) BY <1>1 DEF Left, Unfinished, Open
<1>3. \A p \in Orders : status'[p] = "doing" => Current(p) BY <1>1
<1>4. \A p \in Orders : status'[p] # "processing" BY <1>1 DEF Worked, Unpaid
<1>5. Left(o) BY DEF Current
<1> QED BY <1>1, <1>2, <1>3, <1>4, <1>5, SameLeftWorked

(* The order that follows the current one is the next one.                 *)
LEMMA NextFollows ==
    ASSUME NEW o \in Orders, Left(o), NEW st,
           \A p \in Orders : status[p] # "processing",
           \A p \in Orders : p # o => st[p] = status[p],
           st[o] \in {"done", "cancel"}
    PROVE  /\ NextOrder(st, o) \subseteq Orders
           /\ \A n \in Orders : n \in NextOrder(st, o) <=> Current(o) /\ Follows(o, n)
           /\ With(st, Open) = {p \in Orders : p # o /\ Left(p)}
<1>1. \A p \in Orders : Left(p) <=> status[p] \in Open BY DEF Left, Unfinished
<1>2. \A p \in Orders : p \in With(st, Open) <=> p # o /\ Left(p)
  BY <1>1 DEF With, Open
<1>3. With(st, Open) = {p \in Orders : p # o /\ Left(p)} BY <1>2 DEF With
<1>4. ASSUME NEW n \in Orders
      PROVE  n \in NextOrder(st, o) <=> Current(o) /\ Follows(o, n)
  <2>1. n \in NextOrder(st, o) <=> /\ n # o /\ Left(n) /\ n > o
                                   /\ \A p \in Orders : p # o /\ Left(p) => n <= p
    BY <1>2, <1>3 DEF NextOrder
  <2>2. n \in Nat /\ o \in Nat /\ \A p \in Orders : p \in Nat BY OrdersAreNumbers
  <2> QED BY <2>1, <2>2 DEF Current, Follows
<1> QED BY <1>3, <1>4 DEF NextOrder, With

(* The current order is finished and the one that follows is next.         *)
LEMMA DoneEffect ==
    ASSUME IInv, Worked, NEW o \in Orders, DoingToDone(o)
    PROVE  /\ status[o] = "doing" /\ Current(o)
           /\ \A p \in Orders : status[p] # "processing"
           /\ \A p \in Orders : p # o => status[p] # "doing"
           /\ \A p \in Orders : status'[p] = IF p = o THEN "done" ELSE status[p]
           /\ \A n \in Orders : n \in NextOrder(status', o) <=> Follows(o, n)
           /\ NextOrder(status', o) \subseteq Orders
           /\ group_status' = IF \E p \in Orders : p # o /\ Left(p) THEN "confirm" ELSE "done"
<1>1. /\ status[o] = "doing"
      /\ \A p \in Orders : status[p] # "processing"
      /\ \A p \in Orders : p # o => status[p] # "doing"
      /\ \A p \in Orders : status'[p] = IF p = o THEN "done" ELSE status[p]
      /\ group_status' = IF NextOrder(status', o) = {} THEN "done" ELSE "confirm"
  BY DoingToDoneEffect
<1>2. Current(o) BY <1>1 DEF Worked, DoingFirst
<1>3. /\ NextOrder(status', o) \subseteq Orders
      /\ \A n \in Orders : n \in NextOrder(status', o) <=> Follows(o, n)
  BY <1>1, <1>2, NextFollows DEF Current
<1>4. NextOrder(status', o) = {} <=> ~\E p \in Orders : p # o /\ Left(p)
  BY <1>3, FollowerFound DEF Follows
<1> QED BY <1>1, <1>2, <1>3, <1>4

LEMMA DoneWorked ==
    ASSUME IInv, Worked, NEW o \in Orders, DoingToDone(o)
    PROVE  Worked'
<1>1. /\ \A p \in Orders : status[p] # "processing"
      /\ \A p \in Orders : p # o => status[p] # "doing"
      /\ \A p \in Orders : status'[p] = IF p = o THEN "done" ELSE status[p]
      /\ group_status' = IF \E p \in Orders : p # o /\ Left(p) THEN "confirm" ELSE "done"
  BY DoneEffect
<1>2. \A p \in Orders : Left(p)' <=> p # o /\ Left(p) BY <1>1 DEF Left, Unfinished, Open
<1>3. DoingFirst' /\ Unpaid' BY <1>1 DEF DoingFirst, Unpaid
<1>4. GroupFollowsOrders' BY <1>1, <1>2, GroupFollowsIs
<1> QED BY <1>3, <1>4 DEF Worked

(* A cancelled order, also one that was over before: no order awaits its   *)
(* payment, since then this one would.                                     *)
LEMMA CancelOneEffect ==
    ASSUME IInv, Worked, NEW o \in Orders, status[o] # "processing",
           NEW subject, NEW steps, "cancel" \in steps, "unassign" \notin steps, CancelOrder(o, subject, steps)
    PROVE  /\ \A p \in Orders : status[p] # "processing"
           /\ group_status # "processing"
           /\ \A p \in Orders : status'[p] = IF p = o THEN "cancel" ELSE status[p]
           /\ \A p \in Orders : Left(p)' <=> p # o /\ Left(p)
           /\ group_status' = IF \E p \in Orders : p # o /\ Left(p) THEN group_status
                              ELSE IF \E p \in Orders : status'[p] = "done" THEN "done" ELSE "cancel"
<1>1. group_status # "processing" BY DEF IInv, Agree, GroupUnpaid
<1>2. \A p \in Orders : status[p] # "processing" BY <1>1 DEF Worked, Unpaid
<1>3. /\ \A p \in Orders : status'[p] = IF p = o THEN "cancel" ELSE status[p]
      /\ group_status' = IF With(status', Open) # {} THEN group_status
                         ELSE IF With(status', {"done"}) # {} THEN "done" ELSE "cancel"
  BY CancelEffect
<1>4. \A p \in Orders : Left(p)' <=> p # o /\ Left(p) BY <1>3 DEF Left, Unfinished, Open
<1>5. With(status', Open) # {} <=> \E p \in Orders : p # o /\ Left(p)
  BY <1>2, <1>3 DEF With, Left, Unfinished, Open
<1>6. With(status', {"done"}) # {} <=> \E p \in Orders : status'[p] = "done" BY DEF With
<1> QED BY <1>1, <1>2, <1>3, <1>4, <1>5, <1>6

LEMMA CancelStepWorked ==
    ASSUME "cancelProcessing" \notin Disturbances, IInv, Worked, NEW o \in Orders, CancelStep(o)
    PROVE  Worked'
<1>1. PICK subject, steps :
         /\ status[o] # "processing"
         /\ \/ "cancel" \in steps /\ "unassign" \notin steps
            \/ /\ "cancel" \notin steps /\ "unassign" \in steps
               /\ "refundCustomer" \notin steps /\ status[o] \in Assigned
         /\ CancelOrder(o, subject, steps)
  BY DEF CancelStep, May
<1>2. CASE "cancel" \in steps /\ "unassign" \notin steps
  <2>1. /\ \A p \in Orders : status[p] # "processing"
        /\ \A p \in Orders : status'[p] = IF p = o THEN "cancel" ELSE status[p]
        /\ \A p \in Orders : Left(p)' <=> p # o /\ Left(p)
        /\ group_status' = IF \E p \in Orders : p # o /\ Left(p) THEN group_status
                           ELSE IF \E p \in Orders : status'[p] = "done" THEN "done" ELSE "cancel"
    BY <1>1, <1>2, CancelOneEffect
  <2>2. \A p \in Orders : Current(p)' <=> Follows(o, p) BY <2>1, LeftWithout
  <2>3. DoingFirst' BY <2>1, <2>2 DEF Worked, DoingFirst, Current, Follows
  <2>4. Unpaid' BY <2>1 DEF Unpaid
  <2>5. GroupFollowsOrders'
    <3>1. CASE \E p \in Orders : p # o /\ Left(p)
      <4>1. group_status \notin {"done", "cancel"} BY <3>1, GroupFollowsIs DEF Worked
      <4> QED BY <2>1, <3>1, <4>1, GroupFollowsIs
    <3>2. CASE ~\E p \in Orders : p # o /\ Left(p) BY <2>1, <3>2, GroupFollowsIs
    <3> QED BY <3>1, <3>2
  <2> QED BY <2>3, <2>4, <2>5 DEF Worked
<1>3. CASE "cancel" \notin steps /\ "unassign" \in steps /\ "refundCustomer" \notin steps /\ status[o] \in Assigned
  <2>1. /\ \A p \in Orders : status[p] \in {"confirm", "doing", "done", "cancel"}
        /\ \A p \in Orders : status'[p] = IF status[p] \in Assigned THEN "pending" ELSE status[p]
        /\ group_status' = "pending"
    BY <1>1, <1>3, UnassignsEffect
  <2>2. \A p \in Orders : Left(p)' <=> Left(p) BY <2>1 DEF Left, Unfinished, Open, Assigned
  <2>3. \A p \in Orders : status'[p] \notin {"doing", "processing"} BY <2>1 DEF Assigned
  <2>4. Left(o) BY <1>3 DEF Left, Unfinished, Open, Assigned
  <2>5. \A p \in Orders : status[p] = "done" => status'[p] = "done" BY <2>1 DEF Assigned
  <2> QED BY <2>1, <2>2, <2>3, <2>4, <2>5, SameLeftWorked
<1> QED BY <1>1, <1>2, <1>3

LEMMA CancelGroupStepWorked ==
    ASSUME IInv, Worked, CancelGroupStep
    PROVE  Worked'
<1>1. PICK steps :
         /\ \/ "cancel" \in steps /\ "unassign" \notin steps
            \/ "cancel" \notin steps /\ "unassign" \in steps /\ "refundCustomer" \notin steps
         /\ CancelGroupOrder(steps)
  BY DEF CancelGroupStep
<1>2. CASE "cancel" \in steps /\ "unassign" \notin steps
  <2>1. group_status' = "cancel" /\ \A p \in Orders : status'[p] \in {"done", "cancel"}
    BY <1>1, <1>2, GroupCancelEffect
  <2>2. \A p \in Orders : ~Left(p)' BY <2>1 DEF Left, Unfinished, Open
  <2> QED BY <2>1, <2>2, GroupFollowsIs DEF Worked, DoingFirst, Unpaid
<1>3. CASE "cancel" \notin steps /\ "unassign" \in steps /\ "refundCustomer" \notin steps
  <2>1. /\ \E p \in Orders : Left(p)
        /\ \A p \in Orders : status'[p] = IF status[p] \in Assigned THEN "pending" ELSE status[p]
        /\ \/ group_status # "processing" /\ group_status' = "pending"
           \/ group_status = "processing" /\ group_status' = group_status
    BY <1>1, <1>3, GroupUnassignEffect
  <2>2. \A p \in Orders : Left(p)' <=> Left(p) BY <2>1 DEF Left, Unfinished, Open, Assigned
  <2>3. \A p \in Orders : status'[p] # "doing" BY <2>1 DEF Assigned
  <2>4. \A p \in Orders : status'[p] = "processing" => group_status' = "processing"
    BY <2>1 DEF Worked, Unpaid
  <2>5. \A p \in Orders : status[p] = "done" => status'[p] = "done" BY <2>1 DEF Assigned
  <2> QED BY <2>1, <2>2, <2>3, <2>4, <2>5, SameLeftWorked
<1> QED BY <1>1, <1>2, <1>3

LEMMA NoticeWorked ==
    ASSUME IInv, Worked, NEW isAutoCapture \in BOOLEAN, ProcessingToPending(isAutoCapture)
    PROVE  Worked'
<1>1. CASE UNCHANGED <<status, group_status>>
  BY <1>1, SameLeftWorked DEF Worked, DoingFirst, Unpaid, Left
<1>2. CASE ~UNCHANGED <<status, group_status>>
  <2>1. /\ group_status = "processing" /\ group_status' = "pending"
        /\ \A p \in Orders : status[p] = "processing" /\ status'[p] = "pending"
    BY <1>2, NoticeEffect
  <2>2. \A p \in Orders : Left(p)' /\ Left(p) BY <2>1 DEF Left, Unfinished, Open
  <2>3. 1 \in Orders BY NAssumption DEF Orders
  <2> QED BY <2>1, <2>2, <2>3, SameLeftWorked
<1> QED BY <1>1, <1>2

LEMMA NextWorked ==
    ASSUME "anyOrder" \notin Disturbances, "cancelProcessing" \notin Disturbances,
           IInv, Worked, [Next]_vars
    PROVE  Worked'
<1>1. ASSUME NEW o \in Orders, NEW c \in Collaborators, ChangeCollaborator(o, c) PROVE Worked'
  <2>1. UNCHANGED <<status, group_status>> BY <1>1 DEF ChangeCollaborator
  <2> QED BY <2>1, SameLeftWorked DEF Worked, DoingFirst, Unpaid, Left
<1>2. ASSUME NEW o \in Orders, ConfirmToDoing(o) PROVE Worked'
  <2>1. Current(o) BY <1>2, RequestedIs DEF ConfirmToDoing
  <2> QED BY <1>2, <2>1, ConfirmWorked
<1>3. CASE UNCHANGED vars
  <2>1. UNCHANGED <<status, group_status>> BY <1>3 DEF vars, orderVars, groupVars
  <2> QED BY <2>1, SameLeftWorked DEF Worked, DoingFirst, Unpaid, Left
<1> QED BY <1>1, <1>2, <1>3, StepKinds, TakesWorked, DoneWorked, CancelStepWorked,
           CancelGroupStepWorked, NoticeWorked

LEMMA WorkedInvariant ==
    ASSUME "anyOrder" \notin Disturbances, "cancelProcessing" \notin Disturbances
    PROVE  Spec => []Worked
<1>1. IInv /\ Worked /\ [Next]_vars => Worked' BY NextWorked
<1> QED BY <1>1, InitWorked, Invariance, PTL DEF Spec

(* The group order is over when its last order is, and done if one of them *)
(* was, whichever is finished or cancelled last, also by the late route of *)
(* a collaborator, a late failure notice or a second cancellation.         *)
THEOREM GroupEndsWithOrders ==
    ASSUME "anyOrder" \notin Disturbances, "cancelProcessing" \notin Disturbances
    PROVE  Spec => []GroupFollowsOrders
<1>1. Worked => GroupFollowsOrders BY DEF Worked
<1> QED BY <1>1, WorkedInvariant, PTL

-----------------------------------------------------------------------------
(* The service fee, if no order that is over is cancelled again either.    *)

(* The service fee is on an order that is done, on the current one if none *)
(* is, or on whatever order if all are cancelled.                          *)
Carries(o) ==
    /\ pending_money[o] = ServiceFee
    /\ \A p \in Orders : p # o => pending_money[p] = 0
    /\ \/ status[o] = "done"
       \/ Current(o) /\ \A p \in Orders : status[p] # "done"
       \/ \A p \in Orders : status[p] = "cancel"

Carried == /\ \A o \in Orders : final_fee[o] = ShiftFee + pending_money[o]
           /\ \E o \in Orders : Carries(o)

LEMMA InitCarried == Init => Carried
<1> SUFFICES ASSUME Init PROVE Carried OBVIOUS
<1>1. 1 \in Orders /\ \A p \in Orders : 1 <= p BY NAssumption DEF Orders
<1>2. \A o \in Orders : /\ status[o] \in {"pending", "processing"}
                        /\ pending_money[o] = IF o = 1 THEN ServiceFee ELSE 0
                        /\ final_fee[o] = ShiftFee + pending_money[o]
  BY DEF Init
<1>3. Carries(1) BY <1>1, <1>2 DEF Carries, Current, Left, Unfinished, Open
<1> QED BY <1>1, <1>2, <1>3 DEF Carried

(* Whoever carries the fee carries it on as long as the same orders are    *)
(* left, done and cancelled.                                               *)
LEMMA SameLeftCarried ==
    ASSUME Carried,
           \A p \in Orders : /\ Left(p)' <=> Left(p)
                             /\ status'[p] = "done" <=> status[p] = "done"
                             /\ status'[p] = "cancel" <=> status[p] = "cancel"
                             /\ pending_money'[p] = pending_money[p]
                             /\ final_fee'[p] = final_fee[p]
    PROVE  Carried'
<1>1. \A p \in Orders : Current(p)' <=> Current(p) BY SameLeft
<1>2. \A p \in Orders : Carries(p) => Carries(p)' BY <1>1 DEF Carries
<1> QED BY <1>2 DEF Carried

(* Does the service fee move on when o is cancelled?                       *)
Moves(o) == /\ pending_money[o] = ServiceFee
            /\ Current(o)
            /\ \A p \in Orders : status[p] # "done"
            /\ \E p \in Orders : p # o /\ Left(p)

LEMMA HeirFollows ==
    ASSUME IInv, Worked, Carried, NEW o \in Orders, status[o] \in Open, NEW st,
           \A p \in Orders : st[p] = IF p = o THEN "cancel" ELSE status[p]
    PROVE  /\ Heir(st, o) \subseteq Orders
           /\ \A h \in Orders : h \in Heir(st, o) <=> Moves(o) /\ Follows(o, h)
<1> DEFINE heirs == With(st, {"pending", "confirm"})
<1>1. PICK k \in Orders : Carries(k) BY DEF Carried
<1>2. pending_money[o] > 0 <=> pending_money[o] = ServiceFee
  BY MoneyAssumption DEF IInv, TypeOK
<1>3. With(st, {"done"}) = {} <=> \A p \in Orders : status[p] # "done" BY DEF With, Open
<1>4. \A p \in Orders : status[p] # "processing"
  BY DEF IInv, Agree, UnpaidTogether, Open
<1>5. heirs \in SUBSET Orders /\ \A p \in Orders : p \in heirs <=> p # o /\ status[p] \in {"pending", "confirm"}
  BY DEF With
<1>6. \A h \in Orders : h \in Heir(st, o) <=>
         /\ h \in heirs /\ h = First(heirs)
         /\ pending_money[o] = ServiceFee
         /\ \A p \in Orders : status[p] # "done"
  BY <1>2, <1>3, <1>5 DEF Heir
<1> HIDE DEF heirs
<1>7. ASSUME pending_money[o] = ServiceFee, \A p \in Orders : status[p] # "done"
      PROVE  Current(o) /\ \A p \in Orders : p \in heirs <=> p # o /\ Left(p)
  <2>1. o = k BY <1>1, <1>7, MoneyAssumption DEF Carries
  <2>2. Current(o) BY <1>1, <1>7, <2>1 DEF Carries, Open
  <2>3. \A p \in Orders : p # o => status[p] # "doing"
    <3>1. \A p \in Orders : Current(p) => p = o BY <2>2, OrdersAreNumbers DEF Current
    <3> QED BY <3>1 DEF Worked, DoingFirst
  <2> QED BY <1>4, <1>5, <2>2, <2>3 DEF Left, Unfinished, Open
<1>8. ASSUME NEW h \in Orders
      PROVE  h \in Heir(st, o) <=> Moves(o) /\ Follows(o, h)
  <2>1. CASE pending_money[o] = ServiceFee /\ \A p \in Orders : status[p] # "done"
    <3>1. Current(o) /\ \A p \in Orders : p \in heirs <=> p # o /\ Left(p) BY <1>7, <2>1
    <3>2. h \in heirs => (h = First(heirs) <=> \A p \in heirs : h <= p) BY <1>5, FirstIs
    <3>3. h \in heirs /\ (\A p \in heirs : h <= p) <=> Follows(o, h) BY <1>5, <3>1 DEF Follows
    <3> QED BY <1>6, <2>1, <3>1, <3>2, <3>3 DEF Moves, Follows
  <2>2. CASE ~(pending_money[o] = ServiceFee /\ \A p \in Orders : status[p] # "done")
    BY <1>6, <2>2 DEF Moves
  <2> QED BY <2>1, <2>2
<1> QED BY <1>8 DEF Heir, With

LEMMA CancelFees ==
    ASSUME IInv, Worked, Carried, NEW o \in Orders, NEW subject, NEW steps, status[o] \in Open,
           "cancel" \in steps, CancelOrder(o, subject, steps)
    PROVE  /\ \A p \in Orders : pending_money'[p] = IF Moves(o) /\ Follows(o, p) THEN ServiceFee
                                                    ELSE IF Moves(o) /\ p = o THEN 0
                                                    ELSE pending_money[p]
           /\ \A p \in Orders : final_fee'[p] = ShiftFee + pending_money'[p]
           /\ pending_money' \in [Orders -> Int]
<1> DEFINE st == [status EXCEPT ![o] = "cancel"]
           heir == Heir(st, o)
           moved == IF heir = {} THEN 0 ELSE pending_money[o]
<1>1. \A p \in Orders : st[p] = IF p = o THEN "cancel" ELSE status[p] BY DEF IInv, TypeOK
<1>2. heir \subseteq Orders /\ \A h \in Orders : h \in heir <=> Moves(o) /\ Follows(o, h)
  BY <1>1, HeirFollows
<1>3. /\ pending_money' = [p \in Orders |-> IF p \in heir THEN moved
                                ELSE IF p = o THEN pending_money[p] - moved ELSE pending_money[p]]
      /\ final_fee' = [p \in Orders |-> IF p \in heir THEN final_fee[p] + moved
                                ELSE IF p = o THEN final_fee[p] - moved ELSE final_fee[p]]
  BY DEF CancelOrder
<1> HIDE DEF heir
<1>4. heir = {} <=> ~Moves(o)
  BY <1>2, FollowerFound DEF Moves
<1>5. moved = IF Moves(o) THEN ServiceFee ELSE 0 BY <1>4 DEF Moves
<1> HIDE DEF moved
<1>6. \A p \in Orders : /\ pending_money[p] \in Int
                        /\ pending_money[p] # ServiceFee => pending_money[p] = 0
                        /\ final_fee[p] = ShiftFee + pending_money[p]
  BY MoneyAssumption DEF IInv, TypeOK, Carried
<1>7. ~Follows(o, o) BY DEF Follows
<1>8. ASSUME NEW p \in Orders, Moves(o), Follows(o, p) PROVE pending_money[p] = 0
  <2>1. PICK k \in Orders : Carries(k) BY DEF Carried
  <2>2. k = o BY <1>8, <2>1, MoneyAssumption DEF Carries, Moves
  <2> QED BY <1>8, <2>1, <2>2 DEF Carries, Follows
<1>9. ServiceFee \in Int /\ ShiftFee \in Int BY MoneyAssumption
<1>10. \A p \in Orders : pending_money'[p] = IF Moves(o) /\ Follows(o, p) THEN ServiceFee
                                             ELSE IF Moves(o) /\ p = o THEN 0 ELSE pending_money[p]
  BY <1>2, <1>3, <1>5, <1>6, <1>7, <1>9 DEF Moves
<1>11. \A p \in Orders : final_fee'[p] = IF Moves(o) /\ Follows(o, p) THEN final_fee[p] + ServiceFee
                                         ELSE IF Moves(o) /\ p = o THEN final_fee[p] - ServiceFee ELSE final_fee[p]
  BY <1>2, <1>3, <1>5, <1>6, <1>7, <1>9
<1>12. \A p \in Orders : final_fee'[p] = ShiftFee + pending_money'[p]
  BY <1>6, <1>8, <1>9, <1>10, <1>11 DEF Moves
<1>13. pending_money' \in [Orders -> Int]
  BY <1>3, <1>5, <1>6, <1>9
<1> QED BY <1>10, <1>12, <1>13

(* The fee of a cancelled order moves on to the one that becomes current,  *)
(* or stays with it if no order is left to carry it.                       *)
LEMMA CancelOneCarried ==
    ASSUME IInv, Worked, Carried, NEW o \in Orders, status[o] \in Open,
           NEW subject, NEW steps, "cancel" \in steps, "unassign" \notin steps, CancelOrder(o, subject, steps)
    PROVE  Carried'
<1>1. /\ \A p \in Orders : status[p] # "processing"
      /\ \A p \in Orders : status'[p] = IF p = o THEN "cancel" ELSE status[p]
      /\ \A p \in Orders : Left(p)' <=> p # o /\ Left(p)
  BY CancelOneEffect DEF Open
<1>2. \A p \in Orders : Current(p)' <=> Follows(o, p) BY <1>1, LeftWithout
<1>3. /\ \A p \in Orders : pending_money'[p] = IF Moves(o) /\ Follows(o, p) THEN ServiceFee
                                               ELSE IF Moves(o) /\ p = o THEN 0
                                               ELSE pending_money[p]
      /\ \A p \in Orders : final_fee'[p] = ShiftFee + pending_money'[p]
  BY CancelFees
<1>4. \A p \in Orders : status'[p] = "done" <=> status[p] = "done" BY <1>1 DEF Open
<1>5. PICK k \in Orders : Carries(k) BY DEF Carried
<1>6. CASE Moves(o)
  <2>1. k = o BY <1>5, <1>6, MoneyAssumption DEF Carries, Moves
  <2>2. PICK n \in Orders : Follows(o, n) BY <1>6, FollowerFound DEF Moves
  <2>3. \A p \in Orders : Follows(o, p) => p = n BY <2>2, OrdersAreNumbers DEF Follows
  <2>4. \A p \in Orders : p # n => pending_money'[p] = 0 BY <1>3, <1>5, <1>6, <2>1, <2>3 DEF Carries
  <2>5. \A p \in Orders : status'[p] # "done" BY <1>4, <1>6 DEF Moves
  <2>6. Carries(n)' BY <1>2, <1>3, <1>6, <2>2, <2>4, <2>5 DEF Carries
  <2> QED BY <1>3, <2>6 DEF Carried
<1>7. CASE ~Moves(o)
  <2>1. \A p \in Orders : pending_money'[p] = pending_money[p] BY <1>3, <1>7
  <2> SUFFICES Carries(k)' BY <1>3 DEF Carried
  <2>2. CASE status[k] = "done" BY <1>4, <1>5, <2>1, <2>2 DEF Carries
  <2>3. CASE k # o /\ Current(k) /\ \A p \in Orders : status[p] # "done"
    <3>1. Follows(o, k) BY <2>3 DEF Current, Follows
    <3> QED BY <1>2, <1>4, <1>5, <2>1, <2>3, <3>1 DEF Carries
  <2>4. CASE k = o /\ Current(k) /\ \A p \in Orders : status[p] # "done"
    <3>1. \A p \in Orders : p # o => ~Left(p) BY <1>5, <1>7, <2>4 DEF Moves, Carries
    <3>2. \A p \in Orders : status'[p] = "cancel"
      BY <1>1, <2>4, <3>1 DEF IInv, TypeOK, Left, Unfinished, Open, OrderStatus
    <3> QED BY <1>5, <2>1, <3>2 DEF Carries
  <2> QED BY <1>5, <2>2, <2>3, <2>4 DEF Carries, Open
<1> QED BY <1>6, <1>7

LEMMA CancelStepCarried ==
    ASSUME "cancelProcessing" \notin Disturbances, "cancelTerminal" \notin Disturbances,
           IInv, Worked, Carried, NEW o \in Orders, CancelStep(o)
    PROVE  Carried'
<1>1. PICK subject, steps :
         /\ status[o] \notin {"processing", "done", "cancel"}
         /\ \/ "cancel" \in steps /\ "unassign" \notin steps
            \/ /\ "cancel" \notin steps /\ "unassign" \in steps
               /\ "refundCustomer" \notin steps /\ status[o] \in Assigned
         /\ CancelOrder(o, subject, steps)
  BY DEF CancelStep, May
<1>2. status[o] \in Open BY <1>1 DEF IInv, TypeOK, OrderStatus, Open
<1>3. CASE "cancel" \in steps /\ "unassign" \notin steps
  BY <1>1, <1>2, <1>3, CancelOneCarried
<1>4. CASE "cancel" \notin steps /\ "unassign" \in steps /\ "refundCustomer" \notin steps /\ status[o] \in Assigned
  <2>1. /\ \A p \in Orders : status[p] \in {"confirm", "doing", "done", "cancel"}
        /\ \A p \in Orders : status'[p] = IF status[p] \in Assigned THEN "pending" ELSE status[p]
        /\ \A p \in Orders : pending_money'[p] = pending_money[p] /\ final_fee'[p] = final_fee[p]
    BY <1>1, <1>4, UnassignsEffect
  <2>2. \A p \in Orders : /\ Left(p)' <=> Left(p)
                          /\ status'[p] = "done" <=> status[p] = "done"
                          /\ status'[p] = "cancel" <=> status[p] = "cancel"
    BY <2>1 DEF Left, Unfinished, Open, Assigned
  <2> QED BY <2>1, <2>2, SameLeftCarried
<1> QED BY <1>1, <1>3, <1>4

LEMMA CancelGroupStepCarried ==
    ASSUME IInv, Carried, CancelGroupStep
    PROVE  Carried'
<1>1. PICK steps :
         /\ \/ "cancel" \in steps /\ "unassign" \notin steps
            \/ "cancel" \notin steps /\ "unassign" \in steps /\ "refundCustomer" \notin steps
         /\ CancelGroupOrder(steps)
  BY DEF CancelGroupStep
<1>2. CASE "cancel" \in steps /\ "unassign" \notin steps
  <2>1. /\ \A p \in Orders : status'[p] = IF Left(p) THEN "cancel" ELSE status[p]
        /\ \A p \in Orders : status'[p] \in {"done", "cancel"}
        /\ UNCHANGED <<pending_money, final_fee>>
    BY <1>1, <1>2, GroupCancelEffect
  <2>2. PICK k \in Orders : Carries(k) BY DEF Carried
  <2>3. \A p \in Orders : status'[p] = "done" <=> status[p] = "done"
    BY <2>1 DEF Left, Unfinished, Open
  <2>4. status'[k] = "done" \/ \A p \in Orders : status'[p] = "cancel"
    BY <2>1, <2>2, <2>3 DEF Carries, Left, Unfinished, Open
  <2>5. Carries(k)' BY <2>1, <2>2, <2>4 DEF Carries
  <2> QED BY <2>1, <2>5 DEF Carried
<1>3. CASE "cancel" \notin steps /\ "unassign" \in steps /\ "refundCustomer" \notin steps
  <2>1. /\ \A p \in Orders : status'[p] = IF status[p] \in Assigned THEN "pending" ELSE status[p]
        /\ Unbilled
    BY <1>1, <1>3, GroupUnassignEffect
  <2>2. \A p \in Orders : /\ Left(p)' <=> Left(p)
                          /\ status'[p] = "done" <=> status[p] = "done"
                          /\ status'[p] = "cancel" <=> status[p] = "cancel"
    BY <2>1 DEF Left, Unfinished, Open, Assigned
  <2> QED BY <2>1, <2>2, SameLeftCarried DEF Unbilled
<1> QED BY <1>1, <1>2, <1>3

LEMMA NextCarried ==
    ASSUME "cancelProcessing" \notin Disturbances, "cancelTerminal" \notin Disturbances,
           IInv, Worked, Carried, [Next]_vars
    PROVE  Carried'
<1>1. ASSUME UNCHANGED <<status, pending_money, final_fee>> PROVE Carried'
  BY <1>1, SameLeftCarried DEF Left
<1>2. ASSUME NEW o \in Orders, NEW c \in Collaborators, Takes(o, c) PROVE Carried'
  <2>1. /\ Unbilled
        /\ \/ status' = status
           \/ \A p \in Orders : status'[p] = IF status[p] = "pending" THEN "confirm" ELSE status[p]
    BY <1>2, TakeJobEffect DEF Takes
  <2>2. \A p \in Orders : /\ Left(p)' <=> Left(p)
                          /\ status'[p] = "done" <=> status[p] = "done"
                          /\ status'[p] = "cancel" <=> status[p] = "cancel"
    BY <2>1 DEF Left, Unfinished, Open
  <2> QED BY <2>1, <2>2, SameLeftCarried DEF Unbilled
<1>3. ASSUME NEW o \in Orders, NEW c \in Collaborators, ChangeCollaborator(o, c) PROVE Carried'
  BY <1>1, <1>3 DEF ChangeCollaborator, feeVars
<1>4. ASSUME NEW o \in Orders, ConfirmToDoing(o) PROVE Carried'
  <2>1. /\ status[o] = "confirm" /\ Unbilled
        /\ \A p \in Orders : status'[p] = IF p = o THEN "doing" ELSE status[p]
    BY <1>4, ConfirmEffect
  <2>2. \A p \in Orders : /\ Left(p)' <=> Left(p)
                          /\ status'[p] = "done" <=> status[p] = "done"
                          /\ status'[p] = "cancel" <=> status[p] = "cancel"
    BY <2>1 DEF Left, Unfinished, Open
  <2> QED BY <2>1, <2>2, SameLeftCarried DEF Unbilled
<1>5. ASSUME NEW o \in Orders, DoingToDone(o) PROVE Carried'
  <2>1. /\ status[o] = "doing" /\ Current(o)
        /\ \A p \in Orders : status'[p] = IF p = o THEN "done" ELSE status[p]
    BY <1>5, DoneEffect
  <2>2. UNCHANGED <<pending_money, final_fee>> BY <1>5, DoingToDoneEffect DEF Unbilled
  <2>3. PICK k \in Orders : Carries(k) BY DEF Carried
  <2>4. status[k] = "done" \/ k = o BY <2>1, <2>3, CurrentAlone DEF Carries
  <2>5. Carries(k)' BY <2>1, <2>2, <2>3, <2>4 DEF Carries
  <2> QED BY <2>2, <2>5 DEF Carried
<1>6. ASSUME NEW isAutoCapture \in BOOLEAN, ProcessingToPending(isAutoCapture) PROVE Carried'
  <2>1. /\ UNCHANGED <<pending_money, final_fee>>
        /\ \/ \A p \in Orders : status[p] = "processing" /\ status'[p] = "pending"
           \/ status' = status
    BY <1>6, NoticeEffect
  <2>2. \A p \in Orders : /\ Left(p)' <=> Left(p)
                          /\ status'[p] = "done" <=> status[p] = "done"
                          /\ status'[p] = "cancel" <=> status[p] = "cancel"
    BY <2>1 DEF Left, Unfinished, Open
  <2> QED BY <2>1, <2>2, SameLeftCarried
<1>7. CASE UNCHANGED vars BY <1>1, <1>7 DEF vars, orderVars, feeVars
<1> QED BY <1>2, <1>3, <1>4, <1>5, <1>6, <1>7, StepKinds, CancelStepCarried, CancelGroupStepCarried

LEMMA CarriedInvariant ==
    ASSUME "anyOrder" \notin Disturbances, "cancelProcessing" \notin Disturbances,
           "cancelTerminal" \notin Disturbances
    PROVE  Spec => []Carried
<1>1. IInv /\ Worked /\ Carried /\ [Next]_vars => Carried' BY NextCarried
<1> QED BY <1>1, InitCarried, Invariance, WorkedInvariant, PTL DEF Spec

(* The service fee is on one order, and on a cancelled one only if all are *)
(* cancelled, in whatever order the customer, the late route or a late     *)
(* failure notice cancels them.                                            *)
THEOREM ServiceFeeStays ==
    ASSUME "anyOrder" \notin Disturbances, "cancelProcessing" \notin Disturbances,
           "cancelTerminal" \notin Disturbances
    PROVE  Spec => []ServiceFeeCarried
<1>1. ASSUME Carried PROVE ServiceFeeCarried
  <2>1. PICK k \in Orders : Carries(k) BY <1>1 DEF Carried
  <2>2. status[k] = "cancel" => \A p \in Orders : status[p] = "cancel"
    BY <2>1 DEF Carries, Current, Left, Unfinished, Open
  <2> QED BY <1>1, <2>1, <2>2 DEF Carried, Carries, ServiceFeeCarried
<1> QED BY <1>1, CarriedInvariant, PTL

-----------------------------------------------------------------------------
(* The refunds: gateways and cancellations are orderly, requests may be    *)
(* about any order.                                                        *)

(* What the transaction says of the payment.                               *)
PaymentShown ==
    /\ terms.payment_method # "online" => transaction = "none"
    /\ transaction = "done" => group_status # "processing"
    /\ \A o \in Orders : status[o] = "processing" =>
          group_status = "processing" /\ terms.payment_method = "online"
    /\ terms.payment_method = "online" =>
         \A o \in Orders : status[o] \in Open \cup {"done"} => transaction = "done"

(* A cancelled group has no open orders a late notice could give back.     *)
CancelledClosed == group_status = "cancel" => \A o \in Orders : status[o] \notin Open

(* What is given back, with the payment as the transaction shows it.       *)
RefundsPosted ==
    \A o \in Orders :
        refunded[o] = IF status[o] = "cancel" /\ (terms.payment_method = "point" \/ transaction = "done")
                      THEN final_fee[o] ELSE 0

Refunded == PaymentShown /\ CancelledClosed /\ RefundsPosted

LEMMA InitRefunded == Init => Refunded
<1> SUFFICES ASSUME Init PROVE Refunded OBVIOUS
<1>1. \A o \in Orders : /\ status[o] = group_status /\ refunded[o] = 0
  BY DEF Init
<1>2. /\ group_status = IF terms.payment_method = "online" THEN "processing" ELSE "pending"
      /\ transaction = IF terms.payment_method = "online" THEN "processing" ELSE "none"
  BY DEF Init
<1> QED BY <1>1, <1>2 DEF Refunded, PaymentShown, CancelledClosed, RefundsPosted, Open

(* Nothing is cancelled and nothing given back.                            *)
LEMMA SameRefunded ==
    ASSUME Refunded, terms' = terms, TransactionKept,
           \A p \in Orders : /\ refunded'[p] = refunded[p] /\ final_fee'[p] = final_fee[p]
                             /\ status'[p] = "cancel" <=> status[p] = "cancel"
                             /\ status'[p] \in Open \cup {"done"} => status[p] \in Open \cup {"done"}
                             /\ status'[p] \in Open => status[p] \in Open
                             /\ status'[p] = "processing" => status[p] = "processing",
           \/ group_status' = group_status
           \/ group_status' \notin {"processing", "cancel"} /\ group_status # "processing"
    PROVE  Refunded'
<1>1. transaction' = "done" <=> transaction = "done" BY DEF TransactionKept
<1>2. PaymentShown' BY <1>1 DEF Refunded, PaymentShown, TransactionKept
<1>3. CancelledClosed' BY DEF Refunded, CancelledClosed
<1>4. RefundsPosted' BY <1>1 DEF Refunded, RefundsPosted
<1> QED BY <1>2, <1>3, <1>4 DEF Refunded

(* A cancelled order was paid unless it is one for cash, and keeps its     *)
(* price from then on.                                                     *)
LEMMA CancelOneRefunded ==
    ASSUME IInv, Refunded, NEW o \in Orders, status[o] \in Open,
           NEW subject, NEW steps, "cancel" \in steps, "unassign" \notin steps, "refundCustomer" \in steps,
           CancelOrder(o, subject, steps)
    PROVE  Refunded'
<1> DEFINE st == [status EXCEPT ![o] = "cancel"]
           heir == Heir(st, o)
           moved == IF heir = {} THEN 0 ELSE pending_money[o]
<1>1. /\ \A p \in Orders : status'[p] = IF p = o THEN "cancel" ELSE status[p]
      /\ group_status' = IF With(status', Open) # {} THEN group_status
                         ELSE IF With(status', {"done"}) # {} THEN "done" ELSE "cancel"
      /\ terms' = terms /\ TransactionKept
  BY CancelEffect
<1>2. group_status # "processing" /\ \A p \in Orders : status[p] # "processing"
  BY DEF IInv, Agree, GroupUnpaid, UnpaidTogether, Open
<1>3. refunded' = IF terms.payment_method # "cash" THEN [refunded EXCEPT ![o] = @ + final_fee'[o]] ELSE refunded
  BY <1>2 DEF CancelOrder
<1>4. \A p \in Orders : refunded[p] \in Int /\ pending_money[p] \in Int /\ final_fee[p] \in Int
  BY MoneyAssumption DEF IInv, TypeOK
<1>5. /\ final_fee'[o] \in Int
      /\ \A p \in Orders : status[p] = "cancel" => final_fee'[p] = final_fee[p]
  <2>1. final_fee' = [p \in Orders |-> IF p \in heir THEN final_fee[p] + moved
                                ELSE IF p = o THEN final_fee[p] - moved ELSE final_fee[p]]
    BY DEF CancelOrder
  <2>2. \A p \in Orders : status[p] = "cancel" => p \notin heir /\ p # o
    BY DEF Heir, With, IInv, TypeOK, Open
  <2> HIDE DEF heir
  <2>3. moved \in Int BY <1>4
  <2> HIDE DEF moved
  <2> QED BY <1>4, <2>1, <2>2, <2>3
<1>6. transaction' = "done" <=> transaction = "done" BY <1>1 DEF TransactionKept
<1>7. PaymentShown'
  <2>1. group_status' # "processing" BY <1>1, <1>2
  <2> QED BY <1>1, <1>2, <1>6, <2>1 DEF Refunded, PaymentShown, TransactionKept
<1>8. CancelledClosed'
  <2>1. group_status # "cancel" BY DEF Refunded, CancelledClosed
  <2>2. group_status' = "cancel" => With(status', Open) = {} BY <1>1, <2>1
  <2> QED BY <2>2 DEF CancelledClosed, With
<1>9. RefundsPosted'
  <2>1. status[o] # "cancel" /\ refunded[o] = 0 BY DEF Refunded, RefundsPosted, Open
  <2>2. terms.payment_method # "cash" <=> terms.payment_method = "point" \/ transaction = "done"
    BY TermsAssumption DEF IInv, TypeOK, Refunded, PaymentShown
  <2>3. refunded \in [Orders -> Int] BY DEF IInv, TypeOK
  <2>4. \A p \in Orders : refunded'[p] = IF p = o /\ terms.payment_method # "cash" THEN final_fee'[o] ELSE refunded[p]
    BY <1>3, <1>5, <2>1, <2>3
  <2> QED BY <1>1, <1>5, <1>6, <2>1, <2>2, <2>4 DEF Refunded, RefundsPosted
<1> QED BY <1>7, <1>8, <1>9 DEF Refunded

LEMMA CancelStepRefunded ==
    ASSUME Disturbances \subseteq {"anyOrder"}, IInv, Refunded, NEW o \in Orders, CancelStep(o)
    PROVE  Refunded'
<1>1. PICK subject, steps :
         /\ status[o] \notin {"processing", "done", "cancel"}
         /\ \/ "cancel" \in steps /\ "unassign" \notin steps /\ "refundCustomer" \in steps
            \/ /\ "cancel" \notin steps /\ "unassign" \in steps
               /\ "refundCustomer" \notin steps /\ status[o] \in Assigned
         /\ CancelOrder(o, subject, steps)
  BY DEF CancelStep, May
<1>2. status[o] \in Open BY <1>1 DEF IInv, TypeOK, OrderStatus, Open
<1>3. CASE "cancel" \in steps /\ "unassign" \notin steps /\ "refundCustomer" \in steps
  BY <1>1, <1>2, <1>3, CancelOneRefunded
<1>4. CASE "cancel" \notin steps /\ "unassign" \in steps /\ "refundCustomer" \notin steps /\ status[o] \in Assigned
  <2>1. /\ group_status # "processing" /\ group_status' = "pending"
        /\ \A p \in Orders : status'[p] = IF status[p] \in Assigned THEN "pending" ELSE status[p]
        /\ \A p \in Orders : final_fee'[p] = final_fee[p]
        /\ refunded' = refunded /\ terms' = terms /\ TransactionKept
    BY <1>1, <1>4, UnassignsEffect
  <2>2. \A p \in Orders : /\ status'[p] = "cancel" <=> status[p] = "cancel"
                          /\ status'[p] \in Open \cup {"done"} => status[p] \in Open \cup {"done"}
                          /\ status'[p] \in Open => status[p] \in Open
                          /\ status'[p] = "processing" => status[p] = "processing"
    BY <2>1 DEF Open, Assigned
  <2> QED BY <2>1, <2>2, SameRefunded
<1> QED BY <1>1, <1>3, <1>4

LEMMA GroupCancelRefunded ==
    ASSUME IInv, Refunded, NEW steps, "cancel" \in steps, "unassign" \notin steps,
           group_status = "processing" \/ "refundCustomer" \in steps, CancelGroupOrder(steps)
    PROVE  Refunded'
<1>1. /\ \A p \in Orders : status'[p] = IF Left(p) THEN "cancel" ELSE status[p]
      /\ \A p \in Orders : status'[p] \in {"done", "cancel"}
      /\ group_status' = "cancel"
      /\ UNCHANGED <<terms, final_fee>> /\ TransactionKept
  BY GroupCancelEffect
<1>2. \A p \in Orders :
         refunded'[p] = IF group_status # "processing" /\ terms.payment_method # "cash" /\ status[p] \in Open
                        THEN refunded[p] + final_fee[p] ELSE refunded[p]
  BY DEF CancelGroupOrder
<1>3. transaction' = "done" <=> transaction = "done" BY <1>1 DEF TransactionKept
<1>4. PaymentShown'
  <2>1. \A p \in Orders : status'[p] # "processing" BY <1>1
  <2>2. \A p \in Orders : status'[p] \in Open \cup {"done"} => status[p] = "done"
    BY <1>1 DEF Left, Unfinished, Open
  <2> QED BY <1>1, <1>3, <2>1, <2>2 DEF Refunded, PaymentShown, TransactionKept
<1>5. CancelledClosed' BY <1>1 DEF CancelledClosed, Open
<1>6. RefundsPosted'
  <2> SUFFICES ASSUME NEW p \in Orders
               PROVE  refunded'[p] = IF /\ status'[p] = "cancel"
                                        /\ terms.payment_method = "point" \/ transaction' = "done"
                                     THEN final_fee[p] ELSE 0
    BY <1>1 DEF RefundsPosted
  <2>1. refunded[p] = IF /\ status[p] = "cancel"
                         /\ terms.payment_method = "point" \/ transaction = "done"
                      THEN final_fee[p] ELSE 0
    BY DEF Refunded, RefundsPosted
  <2>2. final_fee[p] \in Int BY DEF IInv, TypeOK
  <2>3. CASE status[p] \in Open
    <3>1. group_status # "processing" BY <2>3 DEF IInv, Agree, GroupUnpaid, Open
    <3>2. terms.payment_method # "cash" <=> terms.payment_method = "point" \/ transaction = "done"
      BY <2>3, TermsAssumption DEF IInv, TypeOK, Refunded, PaymentShown
    <3>3. status'[p] = "cancel" /\ refunded[p] = 0 BY <1>1, <2>1, <2>3 DEF Left, Unfinished, Open
    <3> QED BY <1>2, <1>3, <2>2, <2>3, <3>1, <3>2, <3>3
  <2>4. CASE status[p] = "processing"
    <3>1. terms.payment_method = "online" /\ transaction # "done"
      BY <2>4 DEF Refunded, PaymentShown
    <3> QED BY <1>2, <1>3, <2>1, <2>4, <3>1 DEF Open
  <2>5. CASE ~Left(p)
    <3>1. status'[p] = status[p] /\ status[p] \notin Open BY <1>1, <2>5 DEF Left, Unfinished
    <3> QED BY <1>2, <1>3, <2>1, <3>1
  <2> QED BY <2>3, <2>4, <2>5 DEF Left, Unfinished
<1> QED BY <1>4, <1>5, <1>6 DEF Refunded

LEMMA CancelGroupStepRefunded ==
    ASSUME Disturbances \subseteq {"anyOrder"}, IInv, Refunded, CancelGroupStep
    PROVE  Refunded'
<1>1. PICK steps :
         /\ \/ /\ "cancel" \in steps /\ "unassign" \notin steps
               /\ group_status = "processing" \/ "refundCustomer" \in steps
            \/ "cancel" \notin steps /\ "unassign" \in steps /\ "refundCustomer" \notin steps
         /\ CancelGroupOrder(steps)
  BY DEF CancelGroupStep, May
<1>2. CASE "cancel" \in steps /\ "unassign" \notin steps
  BY <1>1, <1>2, GroupCancelRefunded
<1>3. CASE "cancel" \notin steps /\ "unassign" \in steps /\ "refundCustomer" \notin steps
  <2>1. /\ \A p \in Orders : status'[p] = IF status[p] \in Assigned THEN "pending" ELSE status[p]
        /\ \/ group_status # "processing" /\ group_status' = "pending"
           \/ group_status' = group_status
        /\ Unbilled /\ terms' = terms /\ TransactionKept
    BY <1>1, <1>3, GroupUnassignEffect
  <2>2. \A p \in Orders : /\ status'[p] = "cancel" <=> status[p] = "cancel"
                          /\ status'[p] \in Open \cup {"done"} => status[p] \in Open \cup {"done"}
                          /\ status'[p] \in Open => status[p] \in Open
                          /\ status'[p] = "processing" => status[p] = "processing"
    BY <2>1 DEF Open, Assigned
  <2> QED BY <2>1, <2>2, SameRefunded DEF Unbilled
<1> QED BY <1>1, <1>2, <1>3

(* A notice opens a group that awaits it; one that comes late for a        *)
(* cancelled group finds no open order to give back.                       *)
LEMMA NoticeRefunded ==
    ASSUME IInv, Refunded, ProcessingToPending(TRUE)
    PROVE  Refunded'
<1>1. /\ terms.payment_method = "online" /\ UNCHANGED <<terms, final_fee>>
      /\ \/ /\ group_status = "processing" /\ group_status' = "pending"
            /\ \A p \in Orders : status[p] = "processing" /\ status'[p] = "pending"
            /\ transaction' = "done"
            /\ refunded' = refunded
         \/ /\ group_status = "cancel"
            /\ UNCHANGED <<status, group_status, transaction>>
            /\ refunded' = [p \in Orders |-> IF status[p] \in Open THEN refunded[p] + final_fee[p]
                                             ELSE refunded[p]]
  BY NoticeEffect
<1>2. CASE group_status = "processing"
  BY <1>1, <1>2 DEF Refunded, PaymentShown, CancelledClosed, RefundsPosted
<1>3. CASE group_status # "processing"
  <2>1. \A p \in Orders : refunded'[p] = refunded[p] BY <1>1, <1>3 DEF Refunded, CancelledClosed
  <2> QED BY <1>1, <1>3, <2>1, SameRefunded DEF TransactionKept
<1> QED BY <1>2, <1>3

LEMMA NextRefunded ==
    ASSUME Disturbances \subseteq {"anyOrder"}, IInv, Refunded, [Next]_vars
    PROVE  Refunded'
<1>1. ASSUME UNCHANGED <<terms, status, group_status, final_fee, refunded, transaction>> PROVE Refunded'
  BY <1>1 DEF Refunded, PaymentShown, CancelledClosed, RefundsPosted
<1>2. ASSUME NEW o \in Orders, NEW c \in Collaborators, Takes(o, c) PROVE Refunded'
  <2>1. /\ Unbilled /\ UNCHANGED <<terms, transaction>>
        /\ \/ status' = status /\ group_status' = group_status
           \/ /\ \E p \in Orders : status[p] = "pending"
              /\ \A p \in Orders : status'[p] = IF status[p] = "pending" THEN "confirm" ELSE status[p]
              /\ group_status' = "confirm"
    BY <1>2, TakeJobEffect DEF Takes
  <2>2. CASE status' = status /\ group_status' = group_status BY <1>1, <2>1, <2>2 DEF Unbilled
  <2>3. CASE ~(status' = status /\ group_status' = group_status)
    <3>1. group_status # "processing" BY <2>1, <2>3 DEF IInv, Agree, GroupUnpaid
    <3>2. \A p \in Orders : /\ status'[p] = "cancel" <=> status[p] = "cancel"
                            /\ status'[p] \in Open \cup {"done"} => status[p] \in Open \cup {"done"}
                            /\ status'[p] \in Open => status[p] \in Open
                            /\ status'[p] = "processing" => status[p] = "processing"
      BY <2>1, <2>3 DEF Open
    <3> QED BY <2>1, <2>3, <3>1, <3>2, SameRefunded DEF Unbilled, TransactionKept
  <2> QED BY <2>2, <2>3
<1>3. ASSUME NEW o \in Orders, NEW c \in Collaborators, ChangeCollaborator(o, c) PROVE Refunded'
  BY <1>1, <1>3 DEF ChangeCollaborator, feeVars
<1>4. ASSUME NEW o \in Orders, ConfirmToDoing(o) PROVE Refunded'
  <2>1. /\ status[o] = "confirm" /\ Unbilled /\ UNCHANGED <<terms, transaction>>
        /\ \A p \in Orders : status'[p] = IF p = o THEN "doing" ELSE status[p]
        /\ group_status' = "doing" /\ group_status # "processing"
    BY <1>4, ConfirmEffect
  <2>2. \A p \in Orders : /\ status'[p] = "cancel" <=> status[p] = "cancel"
                          /\ status'[p] \in Open \cup {"done"} => status[p] \in Open \cup {"done"}
                          /\ status'[p] \in Open => status[p] \in Open
                          /\ status'[p] = "processing" => status[p] = "processing"
    BY <2>1 DEF Open
  <2> QED BY <2>1, <2>2, SameRefunded DEF Unbilled, TransactionKept
<1>5. ASSUME NEW o \in Orders, DoingToDone(o) PROVE Refunded'
  <2>1. /\ status[o] = "doing" /\ Unbilled /\ UNCHANGED <<terms, transaction>>
        /\ \A p \in Orders : status'[p] = IF p = o THEN "done" ELSE status[p]
        /\ group_status' \in {"done", "confirm"}
    BY <1>5, DoingToDoneEffect
  <2>2. group_status # "processing" BY <2>1 DEF IInv, Agree, GroupUnpaid
  <2>3. \A p \in Orders : /\ status'[p] = "cancel" <=> status[p] = "cancel"
                          /\ status'[p] \in Open \cup {"done"} => status[p] \in Open \cup {"done"}
                          /\ status'[p] \in Open => status[p] \in Open
                          /\ status'[p] = "processing" => status[p] = "processing"
    BY <2>1 DEF Open
  <2> QED BY <2>1, <2>2, <2>3, SameRefunded DEF Unbilled, TransactionKept
<1>6. ASSUME NEW isAutoCapture \in BOOLEAN, ProcessingToPending(isAutoCapture) PROVE Refunded'
  <2>1. isAutoCapture BY <1>6, NoticeEffect DEF May
  <2>2. ProcessingToPending(TRUE) BY <1>6, <2>1
  <2> QED BY <2>2, NoticeRefunded
<1>7. CASE UNCHANGED vars BY <1>1, <1>7 DEF vars, orderVars, feeVars, groupVars, ledgers
<1> QED BY <1>2, <1>3, <1>4, <1>5, <1>6, <1>7, StepKinds, CancelStepRefunded, CancelGroupStepRefunded

(* A transaction is done exactly when the payment came in time.            *)
PaidShown == paid = "inTime" <=> terms.payment_method = "point" \/ transaction = "done"

LEMMA InitPaid == Init => PaidShown
  BY DEF Init, PaidShown

LEMMA NextPaid ==
    ASSUME Disturbances \subseteq {"anyOrder"}, PaidShown, [Next]_vars
    PROVE  PaidShown'
<1>1. ASSUME UNCHANGED <<terms, paid>>, TransactionKept PROVE PaidShown'
  BY <1>1 DEF PaidShown, TransactionKept
<1>2. ASSUME NEW o \in Orders, NEW c \in Collaborators, Takes(o, c) PROVE PaidShown'
  BY <1>1, <1>2 DEF Takes, TakeJob, TransactionKept
<1>3. ASSUME NEW o \in Orders, NEW c \in Collaborators, ChangeCollaborator(o, c) PROVE PaidShown'
  BY <1>1, <1>3 DEF ChangeCollaborator, TransactionKept
<1>4. ASSUME NEW o \in Orders, ConfirmToDoing(o) PROVE PaidShown'
  BY <1>1, <1>4 DEF ConfirmToDoing, TransactionKept
<1>5. ASSUME NEW o \in Orders, DoingToDone(o) PROVE PaidShown'
  BY <1>1, <1>5 DEF DoingToDone, TransactionKept
<1>6. ASSUME NEW o \in Orders, CancelStep(o) PROVE PaidShown'
  BY <1>1, <1>6 DEF CancelStep, CancelOrder, TransactionKept
<1>7. ASSUME CancelGroupStep PROVE PaidShown'
  BY <1>1, <1>7 DEF CancelGroupStep, CancelGroupOrder, TransactionKept
<1>8. ASSUME NEW isAutoCapture \in BOOLEAN, ProcessingToPending(isAutoCapture) PROVE PaidShown'
  <2>1. isAutoCapture BY <1>8 DEF ProcessingToPending, May
  <2> QED BY <1>8, <2>1 DEF ProcessingToPending, Captured, PaidShown
<1>9. CASE UNCHANGED vars BY <1>1, <1>9 DEF vars, TransactionKept
<1> QED BY <1>2, <1>3, <1>4, <1>5, <1>6, <1>7, <1>8, <1>9, StepKinds

(* Every order paid for in time that is cancelled gives its price back,    *)
(* service fee included, exactly once, whether it is cancelled alone, with *)
(* its group or by the scheduler, whichever was worked before; nothing     *)
(* else is given back.  A payment that came late is not spoken of.         *)
THEOREM RefundsAreRight ==
    ASSUME Disturbances \subseteq {"anyOrder"}
    PROVE  Spec => []RefundsMatch
<1>1. IInv /\ Refunded /\ PaidShown /\ [Next]_vars => Refunded' /\ PaidShown'
  BY NextRefunded, NextPaid
<1>2. Refunded /\ PaidShown => RefundsMatch
  BY DEF Refunded, RefundsPosted, PaidShown, RefundsMatch
<1> QED BY <1>1, <1>2, InitRefunded, InitPaid, Invariance, PTL DEF Spec

-----------------------------------------------------------------------------
(* The fees: no client or gateway is disturbing, but that payments may be  *)
(* authorized first.                                                       *)

(* As long as an order is on offer or unpaid the group has no collaborator.*)
FreeTogether == \A o \in Orders :
    status[o] \in {"pending", "processing"} => group_collaborator = NoCollaborator

(* A finished order is paid for, and of the taken ones the current one.    *)
Paid(o) == status[o] = "done" \/ (status[o] \in Assigned /\ Current(o))

FeesAt ==
    terms.pricing = "legacy" =>
      \A o \in Orders, c \in Collaborators :
        charged[o][c] = IF id_collaborator[o] = c /\ Paid(o) THEN PlatformFee + pending_money[o] ELSE 0

Settled == FreeTogether /\ FeesAt

LEMMA FeesRead == FeesAt => FeesMatch
<1>1. \A o \in Orders : IsCurrent(o) <=> Current(o) BY CurrentIs
<1>2. terms.pricing = "legacy" => \A o \in Orders : Fee(o, pending_money) = PlatformFee + pending_money[o]
  BY DEF Fee
<1> QED BY <1>1, <1>2 DEF FeesMatch, FeesAt, Paid

LEMMA LegacyFee ==
    ASSUME terms.pricing = "legacy"
    PROVE  \A p \in Orders : /\ Fee(p, pending_money) = PlatformFee + pending_money[p]
                             /\ Fee(p, pending_money') = PlatformFee + pending_money'[p]
  BY DEF Fee

LEMMA LedgerTypes ==
    ASSUME IInv
    PROVE  /\ pending_money \in [Orders -> Int]
           /\ charged \in [Orders -> [Collaborators -> Int]]
           /\ \A p \in Orders : Fee(p, pending_money) \in Int
           /\ group_collaborator \in Assignee
<1>1. pending_money \in [Orders -> Int] BY MoneyAssumption DEF IInv, TypeOK
<1> QED BY <1>1, FeeType DEF IInv, TypeOK

(* A taken order says who has the group, an order on offer that nobody has.*)
LEMMA Together ==
    ASSUME "namedAtCreation" \notin Disturbances, IInv, FreeTogether
    PROVE  /\ group_collaborator # NoCollaborator =>
                 \A p \in Orders : Left(p) => /\ status[p] \in Assigned
                                              /\ id_collaborator[p] = group_collaborator
           /\ group_collaborator = NoCollaborator =>
                 \A p \in Orders : Left(p) => /\ status[p] \in {"pending", "processing"}
                                              /\ id_collaborator[p] = NoCollaborator
<1>1. OfferedBy(NoCollaborator) BY DEF IInv, Agree, FreeOnOffer, May
<1> QED BY <1>1 DEF OfferedBy, IInv, Agree, HeldByGroup, FreeTogether, Left, Unfinished, Open, Assigned

(* What the ledgers are after a charge, order by order.                    *)
LEMMA ChargeAt ==
    ASSUME NEW ledger \in [Orders -> [Collaborators -> Int]],
           NEW o \in Orders, NEW c \in Collaborators, NEW fee \in Int
    PROVE  \A p \in Orders, d \in Collaborators :
              Charge(ledger, o, c, fee)[p][d] = IF p = o /\ d = c THEN ledger[p][d] + fee
                                                ELSE ledger[p][d]
  BY DEF Charge

LEMMA BillAt ==
    ASSUME NEW ledger \in [Orders -> [Collaborators -> Int]],
           NEW S \in SUBSET Orders, NEW pm \in [Orders -> Int]
    PROVE  \A p \in Orders, d \in Collaborators :
              Bill(ledger, S, pm)[p][d] = IF p \in S /\ id_collaborator[p] = d
                                          THEN ledger[p][d] + Fee(p, pm) ELSE ledger[p][d]
<1> SUFFICES ASSUME NEW p \in Orders, NEW d \in Collaborators
             PROVE  Bill(ledger, S, pm)[p][d] = IF p \in S /\ id_collaborator[p] = d
                                          THEN ledger[p][d] + Fee(p, pm) ELSE ledger[p][d]
  OBVIOUS
<1> DEFINE f == ledger[p]
           x == id_collaborator[p]
           fee == Fee(p, pm)
<1>1. f \in [Collaborators -> Int] /\ Bill(ledger, S, pm)[p] = IF p \in S THEN [f EXCEPT ![x] = @ + fee] ELSE f
  BY DEF Bill
<1> HIDE DEF f, x, fee
<1>2. [f EXCEPT ![x] = @ + fee][d] = IF x = d THEN f[d] + fee ELSE f[d] BY <1>1
<1> QED BY <1>1, <1>2 DEF f, x, fee


LEMMA InitSettled ==
    ASSUME "namedAtCreation" \notin Disturbances, Init
    PROVE  Settled
<1> terms.named = NoCollaborator BY DEF Init, May
<1>1. \A o \in Orders : /\ status[o] \in {"pending", "processing"}
                        /\ id_collaborator[o] = NoCollaborator
                        /\ \A c \in Collaborators : charged[o][c] = 0
  BY DEF Init
<1>2. group_collaborator = NoCollaborator BY DEF Init
<1> QED BY <1>1, <1>2, CollaboratorAssumption DEF Settled, FreeTogether, FeesAt

(* Nobody is charged, and the same orders are paid for.                    *)
LEMMA SameSettled ==
    ASSUME Settled, terms' = terms, charged' = charged,
           group_collaborator' = group_collaborator,
           \A p \in Orders : /\ id_collaborator'[p] = id_collaborator[p]
                             /\ pending_money'[p] = pending_money[p]
                             /\ Left(p)' <=> Left(p)
                             /\ status'[p] \in Assigned <=> status[p] \in Assigned
                             /\ status'[p] = "done" <=> status[p] = "done"
    PROVE  Settled'
<1>1. \A p \in Orders : Current(p)' <=> Current(p) BY SameLeft
<1>2. \A p \in Orders : Paid(p)' <=> Paid(p) BY <1>1 DEF Paid
<1>3. FeesAt' BY <1>2 DEF Settled, FeesAt
<1>4. FreeTogether'
  BY DEF Settled, FreeTogether, Left, Unfinished, Open, Assigned
<1> QED BY <1>3, <1>4 DEF Settled

LEMMA TakesSettled ==
    ASSUME "anyOrder" \notin Disturbances, IInv, Lists, Settled,
           NEW o \in Orders, NEW c \in Collaborators, Takes(o, c)
    PROVE  Settled'
<1>1. status[o] = "pending" /\ ~is_duplicate[o] /\ TakeJob(o, c) BY DEF Takes, May
<1>2. status'[o] = "confirm" BY <1>1 DEF TakeJob, With
<1>3. /\ \A p \in Orders : status[p] \in {"pending", "done", "cancel"}
      /\ \A p \in Orders : status'[p] = IF status[p] = "pending" THEN "confirm" ELSE status[p]
      /\ \A p \in Orders : id_collaborator'[p] = IF status[p] = "pending" THEN c ELSE id_collaborator[p]
      /\ group_collaborator' = c
      /\ Unbilled /\ terms' = terms
  BY <1>1, <1>2, TakeJobEffect
<1>4. \A p \in Orders, d \in Collaborators :
         charged'[p][d] = IF p = o /\ d = c THEN charged[p][d] + Fee(p, pending_money) ELSE charged[p][d]
  <2>1. charged' = Charge(charged, o, c, Fee(o, pending_money)) BY <1>1 DEF TakeJob
  <2> QED BY <2>1, LedgerTypes, ChargeAt
<1>5. Current(o) BY <1>1, <1>3 DEF Lists, Listed, Current, Left, Unfinished, Open
<1>6. \A p \in Orders : Left(p)' <=> Left(p) BY <1>3 DEF Left, Unfinished, Open
<1>7. \A p \in Orders : Current(p)' <=> Current(p) BY <1>6, SameLeft
<1>8. FreeTogether' BY <1>3 DEF FreeTogether
<1>9. FeesAt'
  <2> SUFFICES ASSUME terms.pricing = "legacy", NEW p \in Orders, NEW d \in Collaborators
               PROVE  charged'[p][d] = IF id_collaborator'[p] = d /\ Paid(p)'
                                       THEN PlatformFee + pending_money[p] ELSE 0
    BY <1>3 DEF FeesAt, Unbilled
  <2>1. charged[p][d] = IF id_collaborator[p] = d /\ Paid(p) THEN PlatformFee + pending_money[p] ELSE 0
    BY DEF Settled, FeesAt
  <2>2. CASE status[p] = "pending"
    <3>1. charged[p][d] = 0 BY <2>1, <2>2 DEF Paid, Assigned
    <3>2. id_collaborator'[p] = c /\ (Paid(p)' <=> p = o)
      BY <1>3, <1>5, <1>7, <2>2, CurrentAlone DEF Paid, Assigned
    <3>3. Fee(p, pending_money) = PlatformFee + pending_money[p] /\ Fee(p, pending_money) \in Int
      BY LegacyFee, LedgerTypes
    <3> QED BY <1>4, <3>1, <3>2, <3>3
  <2>3. CASE status[p] # "pending"
    <3>1. Paid(p)' <=> Paid(p) BY <1>3, <1>7, <2>3 DEF Paid
    <3> QED BY <1>1, <1>3, <1>4, <2>1, <2>3, <3>1
  <2> QED BY <2>2, <2>3
<1> QED BY <1>8, <1>9 DEF Settled

(* The collaborator who takes over pays the fee of the current order, the  *)
(* one who had it gets it back.                                            *)
LEMMA ChangeSettled ==
    ASSUME "namedAtCreation" \notin Disturbances,
           IInv, Settled, NEW o \in Orders, NEW c \in Collaborators, Current(o), ChangeCollaborator(o, c)
    PROVE  Settled'
<1>1. Left(o) /\ id_collaborator[o] # NoCollaborator BY DEF Current, ChangeCollaborator
<1>2. group_collaborator # NoCollaborator /\ id_collaborator[o] = group_collaborator
  BY <1>1, Together DEF Settled
<1>3. group_collaborator \in Collaborators BY <1>2, LedgerTypes DEF Assignee
<1>4. \A p \in Orders : status[p] # "doing"
  BY DEF ChangeCollaborator, Changeable, IInv, Agree, DoingShown
<1>5. \A p \in Orders : Left(p) => status[p] = "confirm"
  BY <1>2, <1>4, Together DEF Settled, Assigned
<1>6. /\ \A p \in Orders : status'[p] = status[p]
      /\ \A p \in Orders : id_collaborator'[p] = IF status[p] = "confirm" THEN c ELSE id_collaborator[p]
      /\ group_collaborator' = c
      /\ Unbilled /\ terms' = terms
      /\ charged' = Charge(Charge(charged, o, c, Fee(o, pending_money)), o, id_collaborator[o], -Fee(o, pending_money))
  BY DEF ChangeCollaborator, feeVars, Unbilled
<1>7. ASSUME NEW p \in Orders, NEW d \in Collaborators
      PROVE  charged'[p][d] = IF p # o \/ c = group_collaborator THEN charged[p][d]
                              ELSE IF d = c THEN charged[p][d] + Fee(p, pending_money)
                              ELSE IF d = group_collaborator THEN charged[p][d] - Fee(p, pending_money)
                              ELSE charged[p][d]
  <2> DEFINE fee == Fee(o, pending_money)
             new == Charge(charged, o, c, fee)
  <2>1. fee \in Int /\ -fee \in Int /\ charged \in [Orders -> [Collaborators -> Int]] BY LedgerTypes
  <2>2. new \in [Orders -> [Collaborators -> Int]] BY <2>1, ChargeType
  <2>3. new[p][d] = IF p = o /\ d = c THEN charged[p][d] + fee ELSE charged[p][d]
    BY <2>1, ChargeAt
  <2> HIDE DEF new, fee
  <2>4. charged'[p][d] = IF p = o /\ d = group_collaborator THEN new[p][d] + -fee ELSE new[p][d]
    <3> DEFINE neg == -fee
    <3>1. charged' = Charge(new, o, group_collaborator, neg) BY <1>2, <1>6 DEF new, fee
    <3>2. neg \in Int BY <2>1
    <3> HIDE DEF neg
    <3>3. \A q \in Orders, e \in Collaborators :
             Charge(new, o, group_collaborator, neg)[q][e] =
                IF q = o /\ e = group_collaborator THEN new[q][e] + neg ELSE new[q][e]
      BY ONLY <3>2, <2>2, <1>3, o \in Orders, ChargeAt
    <3> QED BY <3>1, <3>3 DEF neg
  <2>5. charged[p][d] \in Int BY <2>1
  <2> QED BY <2>1, <2>3, <2>4, <2>5 DEF fee
<1>8. \A p \in Orders : Left(p)' <=> Left(p) BY <1>6 DEF Left
<1>9. \A p \in Orders : Current(p)' <=> Current(p) BY <1>8, SameLeft
<1>10. FreeTogether'
  <2>1. \A p \in Orders : status[p] \notin {"pending", "processing"}
    BY <1>5 DEF Left, Unfinished, Open
  <2> QED BY <1>6, <2>1 DEF FreeTogether
<1>11. FeesAt'
  <2> SUFFICES ASSUME terms.pricing = "legacy", NEW p \in Orders, NEW d \in Collaborators
               PROVE  charged'[p][d] = IF id_collaborator'[p] = d /\ Paid(p)'
                                       THEN PlatformFee + pending_money[p] ELSE 0
    BY <1>6 DEF FeesAt, Unbilled
  <2>1. charged[p][d] = IF id_collaborator[p] = d /\ Paid(p) THEN PlatformFee + pending_money[p] ELSE 0
    BY DEF Settled, FeesAt
  <2>2. Paid(p)' <=> Paid(p) BY <1>6, <1>9 DEF Paid
  <2>3. CASE p = o
    <3>1. Paid(p) /\ id_collaborator[p] = group_collaborator /\ id_collaborator'[p] = c
      BY <1>1, <1>2, <1>5, <1>6, <2>3 DEF Paid, Assigned
    <3>2. Fee(p, pending_money) = PlatformFee + pending_money[p] /\ Fee(p, pending_money) \in Int
      BY LegacyFee, LedgerTypes
    <3> QED BY <1>7, <2>1, <2>2, <2>3, <3>1, <3>2
  <2>4. CASE p # o /\ status[p] = "confirm"
    <3>1. ~Paid(p) BY <2>4, CurrentAlone DEF Paid
    <3> QED BY <1>7, <2>1, <2>2, <2>4, <3>1
  <2>5. CASE p # o /\ status[p] # "confirm" BY <1>6, <1>7, <2>1, <2>2, <2>5
  <2> QED BY <2>3, <2>4, <2>5
<1> QED BY <1>10, <1>11 DEF Settled

(* The order that follows a finished one is charged.                       *)
LEMMA DoneSettled ==
    ASSUME "namedAtCreation" \notin Disturbances,
           IInv, Worked, Settled, NEW o \in Orders, DoingToDone(o)
    PROVE  Settled'
<1>1. /\ status[o] = "doing" /\ Current(o)
      /\ \A p \in Orders : status[p] # "processing"
      /\ \A p \in Orders : p # o => status[p] # "doing"
      /\ \A p \in Orders : status'[p] = IF p = o THEN "done" ELSE status[p]
      /\ \A n \in Orders : n \in NextOrder(status', o) <=> Follows(o, n)
      /\ NextOrder(status', o) \subseteq Orders
  BY DoneEffect
<1>2. /\ Unbilled /\ UNCHANGED <<terms, id_collaborator, group_collaborator>>
      /\ charged' = Bill(charged, NextOrder(status', o), pending_money)
      /\ \A n \in NextOrder(status', o) : id_collaborator[n] = group_collaborator
  BY DoingToDoneEffect
<1>3. group_collaborator # NoCollaborator BY <1>1 DEF IInv, Agree, HeldByGroup, Assigned
<1>4. \A p \in Orders : p # o /\ Left(p) => status[p] = "confirm"
  BY <1>1, <1>3, Together DEF Settled, Assigned
<1>5. \A p \in Orders, d \in Collaborators :
         charged'[p][d] = IF Follows(o, p) /\ d = group_collaborator
                          THEN charged[p][d] + Fee(p, pending_money) ELSE charged[p][d]
  <2> DEFINE next == NextOrder(status', o)
  <2>1. charged \in [Orders -> [Collaborators -> Int]] /\ pending_money \in [Orders -> Int]
    BY LedgerTypes
  <2>2. next \in SUBSET Orders BY <1>1
  <2>3. charged' = Bill(charged, next, pending_money) BY <1>2
  <2>4. \A p \in Orders : p \in next <=> Follows(o, p) BY <1>1
  <2>5. \A n \in next : id_collaborator[n] = group_collaborator BY <1>2
  <2> HIDE DEF next
  <2>6. \A p \in Orders, d \in Collaborators :
          Bill(charged, next, pending_money)[p][d] = IF p \in next /\ id_collaborator[p] = d
                           THEN charged[p][d] + Fee(p, pending_money) ELSE charged[p][d]
    BY ONLY <2>1, <2>2, BillAt
  <2> QED BY <2>3, <2>4, <2>5, <2>6
<1>6. \A p \in Orders : Left(p)' <=> p # o /\ Left(p) BY <1>1 DEF Left, Unfinished, Open
<1>7. \A p \in Orders : Current(p)' <=> Follows(o, p) BY <1>6, LeftWithout
<1>8. \A p \in Orders : p # o => ~Current(p) BY <1>1, CurrentAlone
<1>9. FreeTogether' BY <1>1, <1>2 DEF Settled, FreeTogether
<1>10. FeesAt'
  <2> SUFFICES ASSUME terms.pricing = "legacy", NEW p \in Orders, NEW d \in Collaborators
               PROVE  charged'[p][d] = IF id_collaborator[p] = d /\ Paid(p)'
                                       THEN PlatformFee + pending_money[p] ELSE 0
    BY <1>2 DEF FeesAt, Unbilled
  <2>1. charged[p][d] = IF id_collaborator[p] = d /\ Paid(p) THEN PlatformFee + pending_money[p] ELSE 0
    BY DEF Settled, FeesAt
  <2>2. CASE Follows(o, p)
    <3>1. status[p] = "confirm" /\ id_collaborator[p] = group_collaborator
      BY <1>1, <1>2, <1>4, <2>2 DEF Follows
    <3>2. ~Paid(p) BY <1>8, <2>2, <3>1 DEF Paid, Follows
    <3>3. Paid(p)' BY <1>1, <1>7, <2>2, <3>1 DEF Paid, Assigned, Follows
    <3>4. Fee(p, pending_money) = PlatformFee + pending_money[p] /\ Fee(p, pending_money) \in Int
      BY LegacyFee, LedgerTypes
    <3> QED BY <1>5, <2>1, <2>2, <3>1, <3>2, <3>3, <3>4
  <2>3. CASE ~Follows(o, p)
    <3>1. Paid(p)' <=> Paid(p) BY <1>1, <1>7, <1>8, <2>3 DEF Paid, Assigned
    <3> QED BY <1>5, <2>1, <2>3, <3>1
  <2> QED BY <2>2, <2>3
<1> QED BY <1>9, <1>10 DEF Settled

(* The fee of the current order goes back to the collaborator it names.    *)
LEMMA PayBack ==
    ASSUME IInv, NEW o \in Orders, Current(o), group_collaborator \in Collaborators,
           charged' = Charge(charged, o, group_collaborator, -Fee(o, pending_money))
    PROVE  \A p \in Orders, d \in Collaborators :
              charged'[p][d] = IF Current(p) /\ d = group_collaborator
                               THEN charged[p][d] - Fee(p, pending_money) ELSE charged[p][d]
<1> DEFINE fee == Fee(o, pending_money)
           neg == -fee
<1>1. neg \in Int /\ fee \in Int /\ charged \in [Orders -> [Collaborators -> Int]] BY LedgerTypes
<1>2. charged' = Charge(charged, o, group_collaborator, neg) OBVIOUS
<1> HIDE DEF neg
<1>3. \A p \in Orders, d \in Collaborators :
         Charge(charged, o, group_collaborator, neg)[p][d] =
            IF p = o /\ d = group_collaborator THEN charged[p][d] + neg ELSE charged[p][d]
  BY ONLY <1>1, o \in Orders, group_collaborator \in Collaborators, ChargeAt
<1>4. \A p \in Orders : Current(p) <=> p = o BY CurrentAlone
<1>5. \A p \in Orders, d \in Collaborators : charged[p][d] + neg = charged[p][d] - fee
  BY <1>1 DEF neg
<1> QED BY <1>2, <1>3, <1>4, <1>5

(* Whatever becomes of the orders that were left, nobody is paid for once  *)
(* the fee of the current one is given back and none of them is taken.     *)
LEMMA PaidBackSettled ==
    ASSUME "namedAtCreation" \notin Disturbances,
           IInv, Settled, terms' = terms,
           \A p \in Orders : /\ pending_money'[p] = pending_money[p]
                             /\ Left(p) => status'[p] \notin Assigned \cup {"done"}
                             /\ ~Left(p) => /\ status'[p] = status[p]
                                            /\ id_collaborator'[p] = id_collaborator[p]
                             /\ status'[p] \in {"pending", "processing"} =>
                                  group_collaborator' = NoCollaborator,
           \A p \in Orders, d \in Collaborators :
              charged'[p][d] = IF Current(p) /\ d = group_collaborator
                               THEN charged[p][d] - Fee(p, pending_money) ELSE charged[p][d]
    PROVE  Settled'
<1>1. FreeTogether' BY DEF FreeTogether
<1>2. FeesAt'
  <2> SUFFICES ASSUME terms.pricing = "legacy", NEW p \in Orders, NEW d \in Collaborators
               PROVE  charged'[p][d] = IF id_collaborator'[p] = d /\ Paid(p)'
                                       THEN PlatformFee + pending_money[p] ELSE 0
    BY DEF FeesAt
  <2>1. charged[p][d] = IF id_collaborator[p] = d /\ Paid(p) THEN PlatformFee + pending_money[p] ELSE 0
    BY DEF Settled, FeesAt
  <2>2. Fee(p, pending_money) = PlatformFee + pending_money[p] /\ Fee(p, pending_money) \in Int
    BY LegacyFee, LedgerTypes
  <2>3. CASE Left(p)
    <3>1. ~Paid(p)' BY <2>3 DEF Paid
    <3>2. status[p] # "done" BY <2>3 DEF Left, Unfinished, Open
    <3>3. id_collaborator[p] = d /\ status[p] \in Assigned <=> d = group_collaborator
      BY <2>3, Together, CollaboratorAssumption DEF Settled
    <3>4. Paid(p) <=> Current(p) /\ status[p] \in Assigned BY <3>2 DEF Paid
    <3> QED BY <2>1, <2>2, <3>1, <3>3, <3>4
  <2>4. CASE ~Left(p)
    <3>1. ~Current(p) /\ status[p] \notin Assigned
      BY <2>4 DEF Current, Left, Unfinished, Open, Assigned
    <3>2. Paid(p)' <=> Paid(p) BY <2>4, <3>1 DEF Paid
    <3> QED BY <2>1, <2>4, <3>1, <3>2
  <2> QED BY <2>3, <2>4
<1> QED BY <1>1, <1>2 DEF Settled

(* The group is cancelled, paid or never paid, or put back on offer.       *)
LEMMA CancelGroupSettled ==
    ASSUME "namedAtCreation" \notin Disturbances,
           "lateFailure" \notin Disturbances, IInv, Settled, CancelGroupStep
    PROVE  Settled'
<1> DEFINE S == With(status, Unfinished)
<1>1. PICK steps :
         /\ \/ /\ "cancel" \in steps /\ "unassign" \notin steps
               /\ group_status = "processing" \/ "refundCollaborator" \in steps
            \/ /\ "cancel" \notin steps /\ "unassign" \in steps
               /\ "refundCustomer" \notin steps /\ "refundCollaborator" \in steps
         /\ CancelGroupOrder(steps)
  BY DEF CancelGroupStep, May
<1>2. S # {} /\ First(S) \in Orders /\ Current(First(S)) BY <1>1, CurrentFound DEF CancelGroupOrder
<1>3. \A p \in Orders, d \in Collaborators :
         charged'[p][d] = IF Current(p) /\ d = group_collaborator
                          THEN charged[p][d] - Fee(p, pending_money) ELSE charged[p][d]
  <2>1. CASE group_collaborator # NoCollaborator
    <3>1. group_status # "processing"
      BY <1>2, <2>1, Together DEF Settled, Current, IInv, Agree, GroupUnpaid, Assigned
    <3>2. charged' = Charge(charged, First(S), group_collaborator, -Fee(First(S), pending_money))
      BY <1>1, <2>1, <3>1 DEF CancelGroupOrder
    <3>3. group_collaborator \in Collaborators BY <2>1, LedgerTypes DEF Assignee
    <3> HIDE DEF S
    <3> QED BY <1>2, <3>2, <3>3, PayBack
  <2>2. CASE group_collaborator = NoCollaborator
    <3>1. charged' = charged BY <1>1, <2>2 DEF CancelGroupOrder
    <3>2. \A d \in Collaborators : d # group_collaborator BY <2>2, CollaboratorAssumption
    <3> QED BY <3>1, <3>2
  <2> QED BY <2>1, <2>2
<1> HIDE DEF S
<1>4. CASE "cancel" \in steps /\ "unassign" \notin steps
  <2>1. /\ \A p \in Orders : status'[p] = IF Left(p) THEN "cancel" ELSE status[p]
        /\ \A p \in Orders : status'[p] \in {"done", "cancel"}
        /\ \A p \in Orders : id_collaborator'[p] = id_collaborator[p]
        /\ UNCHANGED <<terms, pending_money>>
    BY <1>1, <1>4, GroupCancelEffect
  <2>2. \A p \in Orders : Left(p) => status'[p] \notin Assigned \cup {"done"}
    BY <2>1 DEF Assigned
  <2> QED BY <1>3, <2>1, <2>2, PaidBackSettled
<1>5. CASE "cancel" \notin steps /\ "unassign" \in steps /\ "refundCustomer" \notin steps
  <2>1. /\ \E p \in Orders : Left(p)
        /\ \A p \in Orders : status'[p] = IF status[p] \in Assigned THEN "pending" ELSE status[p]
        /\ \A p \in Orders : id_collaborator'[p] = IF status[p] \in Assigned THEN NoCollaborator
                                                    ELSE id_collaborator[p]
        /\ \/ group_collaborator' = NoCollaborator
           \/ group_status = "processing" /\ group_collaborator' = group_collaborator
        /\ Unbilled /\ terms' = terms
    BY <1>1, <1>5, GroupUnassignEffect
  <2>2. \A p \in Orders : /\ Left(p) => status'[p] \notin Assigned \cup {"done"}
                          /\ ~Left(p) => /\ status'[p] = status[p]
                                         /\ id_collaborator'[p] = id_collaborator[p]
    BY <2>1 DEF Left, Unfinished, Open, Assigned
  <2>3. group_collaborator' = NoCollaborator
    <3>1. CASE group_status = "processing"
      <4>1. PICK p \in Orders : Left(p) BY <2>1
      <4>2. status[p] = "processing" BY <3>1, <4>1 DEF IInv, Agree, GroupUnpaid, Left, Unfinished, Open
      <4> QED BY <2>1, <4>2 DEF Settled, FreeTogether
    <3> QED BY <2>1, <3>1
  <2> QED BY <1>3, <2>1, <2>2, <2>3, PaidBackSettled DEF Unbilled
<1> QED BY <1>1, <1>4, <1>5

(* A cancelled order is paid back if it was the current one, and the order *)
(* that follows it is charged, with the service fee if that moves on.      *)
LEMMA CancelOneCharge ==
    ASSUME "namedAtCreation" \notin Disturbances,
           IInv, Worked, Carried, Settled, terms.pricing = "legacy",
           NEW o \in Orders, status[o] \in Open, NEW subject, NEW steps,
           "cancel" \in steps, "unassign" \notin steps,
           "minusNext" \in steps <=> "refundCollaborator" \in steps,
           "refundCollaborator" \in steps \/ status[o] = "pending",
           CancelOrder(o, subject, steps)
    PROVE  \A p \in Orders, d \in Collaborators :
              charged'[p][d] = IF ~Current(o) \/ d # group_collaborator THEN charged[p][d]
                               ELSE IF p = o THEN charged[p][d] - Fee(p, pending_money)
                               ELSE IF Follows(o, p) THEN charged[p][d] + Fee(p, pending_money')
                               ELSE charged[p][d]
<1> DEFINE st == [status EXCEPT ![o] = "cancel"]
           next == NextOrder(st, o)
           fee == Fee(o, pending_money)
           repaid == Charge(charged, o, group_collaborator, -fee)
           earlier == \E p \in Orders : p < o /\ status[p] \in Assigned
           free == group_collaborator = NoCollaborator
<1>1. /\ group_status # "processing"
      /\ \A p \in Orders : status[p] # "processing"
  BY CancelOneEffect DEF Open
<1>2. \A p \in Orders : st[p] = IF p = o THEN "cancel" ELSE status[p] BY DEF IInv, TypeOK
<1>3. Left(o) BY DEF Left, Unfinished
<1>4. /\ next \in SUBSET Orders
      /\ \A n \in Orders : n \in next <=> Current(o) /\ Follows(o, n)
  BY <1>1, <1>2, <1>3, NextFollows
<1>5. pending_money' \in [Orders -> Int]
  BY CancelFees
<1> HIDE DEF next
<1>6. ~free => /\ \A n \in next : id_collaborator[n] = group_collaborator /\ id_collaborator[n] # NoCollaborator
               /\ earlier <=> ~Current(o)
               /\ "refundCollaborator" \in steps
               /\ group_collaborator \in Collaborators
  <2> SUFFICES ASSUME ~free
               PROVE  /\ \A n \in next : id_collaborator[n] = group_collaborator /\ id_collaborator[n] # NoCollaborator
                      /\ earlier <=> ~Current(o)
                      /\ "refundCollaborator" \in steps
                      /\ group_collaborator \in Collaborators
    OBVIOUS
  <2>1. \A p \in Orders : Left(p) <=> status[p] \in Assigned
    BY Together DEF Settled, Left, Unfinished, Open, Assigned
  <2>2. \A p \in Orders : Left(p) => id_collaborator[p] = group_collaborator BY Together DEF Settled
  <2>3. \A p \in Orders : p \in Nat BY OrdersAreNumbers
  <2>4. earlier <=> ~Current(o) BY <1>3, <2>1, <2>3 DEF Current
  <2>5. "refundCollaborator" \in steps BY <1>3, <2>1 DEF Assigned
  <2>6. group_collaborator \in Collaborators BY LedgerTypes DEF Assignee
  <2>7. \A n \in next : id_collaborator[n] = group_collaborator BY <1>4, <2>2 DEF Follows
  <2> QED BY <2>4, <2>5, <2>6, <2>7
<1>7. free => \A n \in next : id_collaborator[n] = NoCollaborator
  BY <1>4, Together DEF Settled, Follows
<1>8. CASE free
  <2>1. next = {} \/ \E n \in next : id_collaborator[n] = NoCollaborator BY <1>7, <1>8
  <2>2. charged' = charged \/ (next = {} /\ charged' = Bill(charged, next, pending_money'))
    BY <1>8, <2>1 DEF CancelOrder, next
  <2>3. Bill(charged, {}, pending_money') = charged BY LedgerTypes DEF Bill
  <2>4. charged' = charged BY <2>2, <2>3
  <2>5. \A d \in Collaborators : d # group_collaborator BY <1>8, CollaboratorAssumption
  <2> QED BY <2>4, <2>5
<1>9. CASE ~free /\ ~Current(o)
  <2>1. next = {} /\ earlier BY <1>4, <1>6, <1>9
  <2>2. charged' = charged \/ charged' = Bill(charged, next, pending_money')
    BY <1>6, <1>9, <2>1 DEF CancelOrder, next
  <2>3. Bill(charged, {}, pending_money') = charged BY LedgerTypes DEF Bill
  <2>4. charged' = charged BY <2>1, <2>2, <2>3
  <2> QED BY <1>9, <2>4
<1>10. CASE ~free /\ Current(o)
  <2>1. charged' = Bill(repaid, next, pending_money')
    BY <1>1, <1>6, <1>10 DEF CancelOrder, next
  <2>2. /\ charged \in [Orders -> [Collaborators -> Int]]
        /\ group_collaborator \in Collaborators
        /\ fee \in Int /\ -fee \in Int
        /\ pending_money' \in [Orders -> Int]
    BY <1>5, <1>6, <1>10, LedgerTypes
  <2> DEFINE neg == -fee
  <2>3. neg \in Int BY <2>2
  <2> HIDE DEF neg
  <2> DEFINE less == Charge(charged, o, group_collaborator, neg)
  <2>4. \A p \in Orders, d \in Collaborators :
           less[p][d] = IF p = o /\ d = group_collaborator THEN charged[p][d] + neg ELSE charged[p][d]
    BY ONLY <2>2, <2>3, o \in Orders, ChargeAt
  <2>5. less \in [Orders -> [Collaborators -> Int]] BY ONLY <2>2, <2>3, o \in Orders, ChargeType
  <2>6. charged' = Bill(less, next, pending_money') BY <2>1 DEF neg
  <2> HIDE DEF less
  <2>7. \A p \in Orders, d \in Collaborators :
           Bill(less, next, pending_money')[p][d] = IF p \in next /\ id_collaborator[p] = d
                               THEN less[p][d] + Fee(p, pending_money') ELSE less[p][d]
    <3> DEFINE pm == pending_money'
    <3>1. pm \in [Orders -> Int] /\ next \in SUBSET Orders BY <1>4, <2>2
    <3> HIDE DEF pm
    <3>2. \A p \in Orders, d \in Collaborators :
             Bill(less, next, pm)[p][d] = IF p \in next /\ id_collaborator[p] = d
                                 THEN less[p][d] + Fee(p, pm) ELSE less[p][d]
      BY ONLY <2>5, <3>1, BillAt
    <3> QED BY <3>2 DEF pm
  <2>8. ~Follows(o, o) BY DEF Follows
  <2>9. \A p \in Orders : p \in next => id_collaborator[p] = group_collaborator BY <1>6, <1>10
  <2>10. ASSUME NEW p \in Orders, NEW d \in Collaborators
         PROVE  charged'[p][d] = IF d # group_collaborator THEN charged[p][d]
                                 ELSE IF p = o THEN charged[p][d] - fee
                                 ELSE IF Follows(o, p) THEN charged[p][d] + Fee(p, pending_money')
                                 ELSE charged[p][d]
    <3>1. charged'[p][d] = IF p \in next /\ id_collaborator[p] = d
                           THEN less[p][d] + Fee(p, pending_money') ELSE less[p][d]
      BY <2>6, <2>7
    <3>2. charged[p][d] \in Int BY <2>2
    <3>3. charged[p][d] + neg = charged[p][d] - fee BY <2>2, <3>2 DEF neg
    <3>4. p \in next <=> Follows(o, p) BY <1>4, <1>10
    <3> QED BY <2>4, <2>8, <2>9, <3>1, <3>3, <3>4
  <2> QED BY <1>10, <2>10
<1> QED BY <1>8, <1>9, <1>10

LEMMA CancelOneSettled ==
    ASSUME "namedAtCreation" \notin Disturbances,
           IInv, Worked, Carried, Settled,
           NEW o \in Orders, status[o] \in Open, NEW subject, NEW steps,
           "cancel" \in steps, "unassign" \notin steps,
           "minusNext" \in steps <=> "refundCollaborator" \in steps,
           "refundCollaborator" \in steps \/ status[o] = "pending",
           CancelOrder(o, subject, steps)
    PROVE  Settled'
<1>1. /\ \A p \in Orders : status'[p] = IF p = o THEN "cancel" ELSE status[p]
      /\ \A p \in Orders : Left(p)' <=> p # o /\ Left(p)
  BY CancelOneEffect DEF Open
<1>2. /\ \A p \in Orders : id_collaborator'[p] = id_collaborator[p]
      /\ UNCHANGED <<terms, group_collaborator>>
  BY CancelEffect
<1>3. \A p \in Orders : pending_money'[p] = IF Moves(o) /\ Follows(o, p) THEN ServiceFee
                                            ELSE IF Moves(o) /\ p = o THEN 0
                                            ELSE pending_money[p]
  BY CancelFees
<1>4. \A p \in Orders : Current(p)' <=> Follows(o, p) BY <1>1, LeftWithout
<1>5. Left(o) BY DEF Left, Unfinished
<1>6. ~Current(o) => \A p \in Orders : Current(p) <=> Follows(o, p)
  <2> SUFFICES ASSUME ~Current(o), NEW p \in Orders PROVE Current(p) <=> Follows(o, p)
    OBVIOUS
  <2>1. PICK q \in Orders : Left(q) /\ ~(o <= q) BY <1>5 DEF Current
  <2>2. o \in Nat /\ q \in Nat /\ p \in Nat BY OrdersAreNumbers
  <2>3. Follows(o, p) => p <= q BY <2>1, <2>2 DEF Follows
  <2>4. Current(p) => p # o OBVIOUS
  <2> QED BY <2>1, <2>2, <2>3, <2>4 DEF Current, Follows
<1>7. FreeTogether' BY <1>1, <1>2 DEF Settled, FreeTogether
<1>8. FeesAt'
  <2> SUFFICES ASSUME terms.pricing = "legacy", NEW p \in Orders, NEW d \in Collaborators
               PROVE  charged'[p][d] = IF id_collaborator[p] = d /\ Paid(p)'
                                       THEN PlatformFee + pending_money'[p] ELSE 0
    BY <1>2 DEF FeesAt
  <2>1. charged[p][d] = IF id_collaborator[p] = d /\ Paid(p) THEN PlatformFee + pending_money[p] ELSE 0
    BY DEF Settled, FeesAt
  <2>2. charged'[p][d] = IF ~Current(o) \/ d # group_collaborator THEN charged[p][d]
                         ELSE IF p = o THEN charged[p][d] - Fee(p, pending_money)
                         ELSE IF Follows(o, p) THEN charged[p][d] + Fee(p, pending_money')
                         ELSE charged[p][d]
    BY CancelOneCharge
  <2>3. /\ Fee(p, pending_money) = PlatformFee + pending_money[p] /\ Fee(p, pending_money) \in Int
        /\ Fee(p, pending_money') = PlatformFee + pending_money'[p]
    BY LegacyFee, LedgerTypes
  <2>4. Left(p) => (id_collaborator[p] = d /\ status[p] \in Assigned <=> d = group_collaborator)
    BY Together, CollaboratorAssumption DEF Settled
  <2>5. Left(p) => status[p] # "done" BY DEF Left, Unfinished, Open
  <2>6. p # o => (Paid(p)' <=> status[p] = "done" \/ (status[p] \in Assigned /\ Follows(o, p)))
    BY <1>1, <1>4 DEF Paid
  <2>7. CASE p = o
    <3>1. ~Paid(p)' BY <1>1, <2>7 DEF Paid, Assigned
    <3>2. Paid(p) <=> Current(p) /\ status[p] \in Assigned BY <1>5, <2>5, <2>7 DEF Paid
    <3> QED BY <1>5, <2>1, <2>2, <2>3, <2>4, <2>7, <3>1, <3>2
  <2>8. CASE p # o /\ Left(p) /\ Current(o)
    <3>1. ~Paid(p) BY <2>5, <2>8, CurrentAlone DEF Paid
    <3>2. charged[p][d] = 0 BY <2>1, <3>1
    <3>3. PlatformFee + pending_money'[p] \in Int
      <4>1. pending_money'[p] = ServiceFee \/ pending_money'[p] = pending_money[p] BY <1>3, <2>8
      <4> QED BY <4>1, LedgerTypes, MoneyAssumption
    <3>4. id_collaborator[p] = d /\ Paid(p)' <=> d = group_collaborator /\ Follows(o, p)
      BY <2>4, <2>5, <2>6, <2>8
    <3> QED BY <2>2, <2>3, <2>8, <3>2, <3>3, <3>4
  <2>9. CASE p # o /\ (~Left(p) \/ ~Current(o))
    <3>1. pending_money'[p] = pending_money[p] BY <1>3, <2>9 DEF Moves, Follows
    <3>2. ~Left(p) => ~Current(p) /\ ~Follows(o, p) BY DEF Current, Follows
    <3>3. Paid(p)' <=> Paid(p) BY <1>6, <2>6, <2>9, <3>2 DEF Paid
    <3> QED BY <2>1, <2>2, <2>9, <3>1, <3>2, <3>3
  <2> QED BY <2>7, <2>8, <2>9
<1> QED BY <1>7, <1>8 DEF Settled

(* The collaborator gives the current order, and with it the group, back.  *)
LEMMA GivesUpSettled ==
    ASSUME "namedAtCreation" \notin Disturbances,
           IInv, Settled, NEW o \in Orders, Current(o), status[o] \in Assigned, NEW subject, NEW steps,
           "cancel" \notin steps, "unassign" \in steps, "minusNext" \notin steps,
           "refundCustomer" \notin steps, "refundCollaborator" \in steps,
           CancelOrder(o, subject, steps)
    PROVE  Settled'
<1>1. /\ group_status # "processing" /\ group_collaborator # NoCollaborator
      /\ \A p \in Orders : status[p] \in {"confirm", "doing", "done", "cancel"}
      /\ \A p \in Orders : status'[p] = IF status[p] \in Assigned THEN "pending" ELSE status[p]
      /\ \A p \in Orders : id_collaborator'[p] = IF status[p] \in Assigned THEN NoCollaborator
                                                  ELSE id_collaborator[p]
      /\ group_collaborator' = NoCollaborator
      /\ \A p \in Orders : pending_money'[p] = pending_money[p]
      /\ UNCHANGED terms
  BY UnassignsEffect
<1>2. \A p \in Orders : Left(p) <=> status[p] \in Assigned
  BY <1>1 DEF Left, Unfinished, Open, Assigned
<1>3. group_collaborator \in Collaborators BY <1>1, LedgerTypes DEF Assignee
<1>4. ~\E p \in Orders : p < o /\ status[p] \in Assigned
  BY <1>2, OrdersAreNumbers DEF Current
<1>5. charged' = Charge(charged, o, group_collaborator, -Fee(o, pending_money))
  BY <1>1, <1>4 DEF CancelOrder
<1>6. \A p \in Orders, d \in Collaborators :
         charged'[p][d] = IF Current(p) /\ d = group_collaborator
                          THEN charged[p][d] - Fee(p, pending_money) ELSE charged[p][d]
  BY <1>3, <1>5, PayBack
<1>7. \A p \in Orders : /\ Left(p) => status'[p] \notin Assigned \cup {"done"}
                        /\ ~Left(p) => /\ status'[p] = status[p]
                                       /\ id_collaborator'[p] = id_collaborator[p]
  BY <1>1, <1>2 DEF Assigned
<1> QED BY <1>1, <1>6, <1>7, PaidBackSettled

LEMMA CancelStepSettled ==
    ASSUME Disturbances \subseteq {"authorizeOnly"}, IInv, Worked, Carried, Settled,
           NEW o \in Orders, CancelStep(o)
    PROVE  Settled'
<1>1. PICK subject, steps :
         /\ status[o] \notin {"processing", "done", "cancel"}
         /\ \/ /\ "cancel" \in steps /\ "unassign" \notin steps
               /\ "minusNext" \in steps <=> "refundCollaborator" \in steps
               /\ "refundCollaborator" \in steps \/ status[o] = "pending"
            \/ /\ "cancel" \notin steps /\ "unassign" \in steps
               /\ "refundCustomer" \notin steps /\ "minusNext" \notin steps
               /\ "refundCollaborator" \in steps
               /\ Requested(o) /\ status[o] \in Assigned
         /\ CancelOrder(o, subject, steps)
  BY DEF CancelStep, May
<1>2. status[o] \in Open BY <1>1 DEF IInv, TypeOK, OrderStatus, Open
<1>3. CASE "cancel" \in steps
  BY <1>1, <1>2, <1>3, CancelOneSettled
<1>4. CASE "cancel" \notin steps
  <2>1. Current(o) BY <1>1, <1>4, RequestedIs
  <2> QED BY <1>1, <1>4, <2>1, GivesUpSettled
<1> QED BY <1>3, <1>4

LEMMA NextSettled ==
    ASSUME Disturbances \subseteq {"authorizeOnly"}, IInv, Lists, Worked, Carried, Settled, [Next]_vars
    PROVE  Settled'
<1>1. ASSUME NEW o \in Orders, NEW c \in Collaborators, ChangeCollaborator(o, c) PROVE Settled'
  <2>1. Current(o) BY <1>1, RequestedIs DEF ChangeCollaborator
  <2> QED BY <1>1, <2>1, ChangeSettled
<1>2. ASSUME NEW o \in Orders, ConfirmToDoing(o) PROVE Settled'
  <2>1. /\ status[o] = "confirm"
        /\ \A p \in Orders : status'[p] = IF p = o THEN "doing" ELSE status[p]
        /\ Unbilled
        /\ UNCHANGED <<terms, id_collaborator, group_collaborator, charged>>
    BY <1>2, ConfirmEffect
  <2>2. \A p \in Orders : /\ Left(p)' <=> Left(p)
                          /\ status'[p] \in Assigned <=> status[p] \in Assigned
                          /\ status'[p] = "done" <=> status[p] = "done"
    BY <2>1 DEF Left, Unfinished, Open, Assigned
  <2> QED BY <2>1, <2>2, SameSettled DEF Unbilled
<1>3. ASSUME NEW isAutoCapture \in BOOLEAN, ProcessingToPending(isAutoCapture) PROVE Settled'
  <2>1. /\ UNCHANGED <<terms, id_collaborator, group_collaborator, charged, pending_money>>
        /\ \/ \A p \in Orders : status[p] = "processing" /\ status'[p] = "pending"
           \/ status' = status
    BY <1>3, NoticeEffect
  <2>2. \A p \in Orders : /\ Left(p)' <=> Left(p)
                          /\ status'[p] \in Assigned <=> status[p] \in Assigned
                          /\ status'[p] = "done" <=> status[p] = "done"
    BY <2>1 DEF Left, Unfinished, Open, Assigned
  <2> QED BY <2>1, <2>2, SameSettled
<1>4. CASE UNCHANGED vars
  BY <1>4, SameSettled DEF Left, vars, orderVars, feeVars, groupVars, ledgers
<1> QED BY <1>1, <1>2, <1>3, <1>4, StepKinds, TakesSettled, DoneSettled, CancelStepSettled, CancelGroupSettled

(* What a collaborator paid is the fees of the orders he finished and of   *)
(* the current one he holds: taking, handing over, giving back, cancelling *)
(* and finishing orders charge and repay the wallets without a rest, for   *)
(* any number of dates.                                                    *)
THEOREM FeesAreRight ==
    ASSUME Disturbances \subseteq {"authorizeOnly"}
    PROVE  Spec => []FeesMatch
<1>1. IInv /\ Lists /\ Worked /\ Carried /\ Settled /\ [Next]_vars => Settled' BY NextSettled
<1>2. Settled => FeesMatch BY FeesRead DEF Settled
<1>3. /\ "anyOrder" \notin Disturbances /\ "cancelProcessing" \notin Disturbances
      /\ "cancelTerminal" \notin Disturbances
  OBVIOUS
<1>4. Spec => []Worked BY <1>3, WorkedInvariant
<1>5. Spec => []Carried BY <1>3, CarriedInvariant
<1>6. Init => Settled BY InitSettled
<1> QED BY <1>1, <1>2, <1>4, <1>5, <1>6, Invariance, ListsInvariant, PTL DEF Spec
=============================================================================
