--------------------------- MODULE CustomerAccount ---------------------------
(***************************************************************************)
(* What the transactions of one customer promise: top-ups bought through a *)
(* gateway go to his pay points, withdrawals of referral income are taken  *)
(* from a_pay when they are requested and given back when they are         *)
(* cancelled.  Every operation is one step.  Transactions implements this  *)
(* with the handlers of TS and PS until two of their requests meet.        *)
(***************************************************************************)
EXTENDS Integers, FiniteSets

CONSTANTS
    Ids,      \* transactions that may be created
    Money,    \* the amount of each
    Opening,  \* a_pay at the start
    Minimum   \* MINIMUM_AMOUNT_TO_WITHDRAW

VARIABLES
    a_pay,      \* referral income of the customer
    pay_point,  \* his pay points
    entry       \* type_transfer and status of every transaction

vars == <<a_pay, pay_point, entry>>

Entry == [type_transfer : {"none", "top_up", "withdraw_affiliate"},
          status : {"none", "processing", "pending", "done", "cancel", "fail"}]

Absent == [type_transfer |-> "none", status |-> "none"]

Init ==
    /\ a_pay = Opening
    /\ pay_point = 0
    /\ entry = [t \in Ids |-> Absent]

(* PS.createTopUpLink                                                      *)
CreateTopUp(t) ==
    /\ entry[t] = Absent
    /\ entry' = [entry EXCEPT ![t] = [type_transfer |-> "top_up", status |-> "processing"]]
    /\ UNCHANGED <<a_pay, pay_point>>

(* TS.createWithdrawalRequestForReferrer                                   *)
RequestWithdrawal(t) ==
    /\ entry[t] = Absent
    /\ a_pay >= Minimum
    /\ a_pay >= Money
    /\ a_pay' = a_pay - Money
    /\ entry' = [entry EXCEPT ![t] = [type_transfer |-> "withdraw_affiliate", status |-> "pending"]]
    /\ UNCHANGED pay_point

(* checkStatusTransaction for done and cancel.                             *)
Open(t) == entry[t].status \notin {"none", "done", "cancel"}

(* TS.verifyTransaction, for the staff and for a gateway's success notice. *)
Verify(t) ==
    /\ Open(t)
    /\ entry' = [entry EXCEPT ![t].status = "done"]
    /\ pay_point' = IF entry[t].type_transfer = "top_up" THEN pay_point + Money ELSE pay_point
    /\ UNCHANGED a_pay

(* TS.cancelTransaction                                                    *)
Cancel(t) ==
    /\ Open(t)
    /\ entry' = [entry EXCEPT ![t].status = "cancel"]
    /\ a_pay' = IF entry[t].type_transfer = "withdraw_affiliate" THEN a_pay + Money ELSE a_pay
    /\ UNCHANGED pay_point

(* PS.handleTopUp, the notice of a failed payment.                         *)
Fail(t) ==
    /\ entry[t] = [type_transfer |-> "top_up", status |-> "processing"]
    /\ entry' = [entry EXCEPT ![t].status = "fail"]
    /\ UNCHANGED <<a_pay, pay_point>>

Next == \E t \in Ids :
    \/ CreateTopUp(t)
    \/ RequestWithdrawal(t)
    \/ Verify(t)
    \/ Cancel(t)
    \/ Fail(t)

Spec == Init /\ [][Next]_vars

-----------------------------------------------------------------------------
TypeOK ==
    /\ a_pay \in Int
    /\ pay_point \in Int
    /\ entry \in [Ids -> Entry]

(* Transactions that count: withdrawals not given back, top-ups paid.      *)
Taken == {t \in Ids : entry[t].type_transfer = "withdraw_affiliate" /\ entry[t].status # "cancel"}
Credited == {t \in Ids : entry[t] = [type_transfer |-> "top_up", status |-> "done"]}

(* The books balance (TS.calculateTransaction and                          *)
(* CU.minusOrRedeemToReferrerPerson): a_pay is short by the withdrawals    *)
(* that were not given back, the pay points are the top-ups carried out,   *)
(* and a_pay is not overdrawn.                                             *)
Balanced ==
    /\ a_pay = Opening - Money * Cardinality(Taken)
    /\ pay_point = Money * Cardinality(Credited)
    /\ a_pay >= 0
=============================================================================
