---------------------------- MODULE Transactions ----------------------------
(***************************************************************************)
(* The transactions of one customer as the handlers of TS and PS carry     *)
(* them out: opened up at the awaits, each request with the customer       *)
(* document it has read and the status it is going to save.  Both the pay  *)
(* points and a_pay are in the customer document, which is written back    *)
(* whole.  A transaction has the name of the request that created it.      *)
(***************************************************************************)
EXTENDS Integers, FiniteSets

CONSTANTS
    Requests,     \* requests that reach the server, each for one operation
    AtOnce,       \* how many of them are under way at the same time
    LateNotices,  \* do notices of failure come for payments that ended?
    Money, Opening, Minimum   \* as in CustomerAccount

ASSUME TransactionsAssumption == /\ IsFiniteSet(Requests)
                                 /\ AtOnce \in Nat \ {0}
                                 /\ LateNotices \in BOOLEAN
                                 /\ Money \in Nat \ {0}
                                 /\ Opening \in Nat
                                 /\ Minimum \in Nat

VARIABLES
    customer,     \* a_pay and pay_point of the customer document
    transaction,  \* type_transfer and status of every transaction
    request,      \* per request: where it is, what it does to which transaction,
                  \* the customer it has read, the status it will save
    crossed       \* ghost: did two requests meet, or a notice come too late?

vars == <<customer, transaction, request, crossed>>

Status == {"none", "processing", "pending", "done", "cancel", "fail"}
Absent == [type_transfer |-> "none", status |-> "none"]

Init ==
    /\ customer = [a_pay |-> Opening, pay_point |-> 0]
    /\ transaction = [t \in Requests |-> Absent]
    /\ request = [r \in Requests |-> [at |-> "new", op |-> "none", id |-> r,
                                      customer |-> customer, status |-> "none"]]
    /\ crossed = FALSE

-----------------------------------------------------------------------------
(* A new request starts if the server has not too many of them.            *)
Begins(r) ==
    /\ request[r].at = "new"
    /\ Cardinality({q \in Requests : request[q].at \notin {"new", "over"}}) < AtOnce

(* A request that starts meets another one under way if both are at work   *)
(* on the transaction t, or both between looking at the customer and       *)
(* writing him back; it is too late if it is a notice of failure for a     *)
(* payment that was carried out or cancelled.                              *)
Meets(at, op, t) ==
    \/ \E q \in Requests : request[q].at \notin {"new", "over"} /\ request[q].id = t
    \/ at = "read" /\ \E q \in Requests : request[q].at \in {"read", "write"}
    \/ op = "notice" /\ transaction[t].status \in {"done", "cancel"}

(* r is at a step, with operation op on t and the status to be saved.      *)
Goes(r, at, op, t, status) ==
    /\ request' = [request EXCEPT ![r] = [@ EXCEPT !.at = at, !.op = op, !.id = t, !.status = status]]
    /\ crossed' = (crossed \/ Meets(at, op, t))

(* PS.createTopUpLink creates the transaction; SaveTransaction adds the    *)
(* link of the gateway to it.                                              *)
CreateTopUp(r) ==
    /\ Begins(r)
    /\ transaction' = [transaction EXCEPT ![r] = [type_transfer |-> "top_up", status |-> "processing"]]
    /\ Goes(r, "save", "top_up", r, "processing")
    /\ UNCHANGED customer

(* TS.createWithdrawalRequestForReferrer reads and checks a_pay, then      *)
(* CU.minusOrRedeemToReferrerPerson reads the customer again.              *)
RequestWithdrawal(r) ==
    /\ Begins(r)
    /\ customer.a_pay >= Minimum
    /\ customer.a_pay >= Money
    /\ Goes(r, "read", "withdraw", r, "pending")
    /\ UNCHANGED <<customer, transaction>>

(* TS.checkStatusTransaction: neither done nor cancelled (nor absent).     *)
Open(t) == transaction[t].status \notin {"none", "done", "cancel"}

(* TS.verifyTransaction reads and checks the transaction: for the staff,   *)
(* and for a gateway's notice of success (PS.handleTopUp), which has       *)
(* looked at the transaction once before.                                  *)
Verify(r, t) ==
    /\ Begins(r)
    /\ Open(t)
    /\ Goes(r, "read", "verify", t, "done")
    /\ UNCHANGED <<customer, transaction>>

(* Mutants of Cancel: without checkStatusTransaction; for any type.        *)
CancelUnchecked(r, t) ==
    /\ Begins(r)
    /\ transaction[t].status # "none"
    /\ Goes(r, IF transaction[t].type_transfer = "withdraw_affiliate" THEN "read" ELSE "save",
            "cancel", t, "cancel")
    /\ UNCHANGED <<customer, transaction>>
CancelAnyType(r, t) ==
    /\ Begins(r)
    /\ Open(t)
    /\ Goes(r, "read", "cancel", t, "cancel")
    /\ UNCHANGED <<customer, transaction>>

(* TS.cancelTransaction reads and checks the transaction; only a           *)
(* withdrawal is given back.                                               *)
Cancel(r, t) ==
    /\ Begins(r)
    /\ Open(t)
    /\ Goes(r, IF transaction[t].type_transfer = "withdraw_affiliate" THEN "read" ELSE "save",
            "cancel", t, "cancel")
    /\ UNCHANGED <<customer, transaction>>

(* PS.handleTopUp, a notice of failure for a top-up whose link is out:     *)
(* code 99 sets the status, any other code saves the transaction as read.  *)
NoticeFailure(r, t) ==
    /\ Begins(r)
    /\ transaction[t].type_transfer = "top_up"
    /\ request[t].at = "over"
    /\ LateNotices \/ transaction[t].status = "processing"
    /\ \E status \in {"fail", transaction[t].status} : Goes(r, "save", "notice", t, status)
    /\ UNCHANGED <<customer, transaction>>

(* The customer is read,                                                   *)
ReadCustomer(r) ==
    /\ request[r].at = "read"
    /\ request' = [request EXCEPT ![r].at = "write", ![r].customer = customer]
    /\ UNCHANGED <<customer, transaction, crossed>>

(* Mutants of Posted: a top-up is taken; a cancelled withdrawal goes to    *)
(* the pay points.                                                         *)
PostedTaken(c, op, type_transfer) ==
    [c EXCEPT !.a_pay = IF op = "withdraw" THEN @ - Money ELSE IF op = "cancel" THEN @ + Money ELSE @,
              !.pay_point = IF op = "verify" /\ type_transfer = "top_up" THEN @ - Money ELSE @]

PostedToPoints(c, op, type_transfer) ==
    [c EXCEPT !.a_pay = IF op = "withdraw" THEN @ - Money ELSE @,
              !.pay_point = IF \/ op = "verify" /\ type_transfer = "top_up"
                               \/ op = "cancel" THEN @ + Money ELSE @]

(* changed by CU.minusOrRedeemToReferrerPerson or TS.calculateTransaction  *)
(* (which has nothing to do for withdraw_affiliate)                        *)
Posted(c, op, type_transfer) ==
    [c EXCEPT !.a_pay = IF op = "withdraw" THEN @ - Money ELSE IF op = "cancel" THEN @ + Money ELSE @,
              !.pay_point = IF op = "verify" /\ type_transfer = "top_up" THEN @ + Money ELSE @]

(* and written back.                                                       *)
WriteCustomer(r) ==
    /\ request[r].at = "write"
    /\ customer' = Posted(request[r].customer, request[r].op, transaction[request[r].id].type_transfer)
    /\ request' = [request EXCEPT ![r].at = IF request[r].op = "withdraw" THEN "create" ELSE "save"]
    /\ UNCHANGED <<transaction, crossed>>

(* Step 2 of a withdrawal request: the transaction.                        *)
CreateWithdrawal(r) ==
    /\ request[r].at = "create"
    /\ transaction' = [transaction EXCEPT ![r] =
                          [type_transfer |-> "withdraw_affiliate", status |-> request[r].status]]
    /\ request' = [request EXCEPT ![r].at = "over"]
    /\ UNCHANGED <<customer, crossed>>

(* TO.updateTransaction                                                    *)
SaveTransaction(r) ==
    /\ request[r].at = "save"
    /\ transaction' = [transaction EXCEPT ![request[r].id].status = request[r].status]
    /\ request' = [request EXCEPT ![r].at = "over"]
    /\ UNCHANGED <<customer, crossed>>

Next == \E r \in Requests :
    \/ CreateTopUp(r)
    \/ RequestWithdrawal(r)
    \/ \E t \in Requests : Verify(r, t) \/ Cancel(r, t) \/ NoticeFailure(r, t)
    \/ ReadCustomer(r)
    \/ WriteCustomer(r)
    \/ CreateWithdrawal(r)
    \/ SaveTransaction(r)

Spec == Init /\ [][Next]_vars

-----------------------------------------------------------------------------
(* Types: documents of the schema, and requests that hold some of them.    *)
Customer == [a_pay : Int, pay_point : Nat]

TypeOK ==
    /\ customer \in Customer
    /\ transaction \in [Requests -> [type_transfer : {"none", "top_up", "withdraw_affiliate"},
                                     status : Status]]
    /\ request \in [Requests -> [at : {"new", "read", "write", "create", "save", "over"},
                                 op : {"none", "top_up", "withdraw", "verify", "cancel", "notice"},
                                 id : Requests, customer : Customer, status : Status]]
    /\ crossed \in BOOLEAN

(* A request takes effect when it writes the customer, or when it starts   *)
(* if it has nothing to write there: from then on its transaction counts   *)
(* with the status that will be saved.                                     *)
Booked == [t \in Requests |->
    IF request[t].at = "create"
    THEN [type_transfer |-> "withdraw_affiliate", status |-> request[t].status]
    ELSE IF \E r \in Requests : request[r].at = "save" /\ request[r].id = t
    THEN [transaction[t] EXCEPT !.status =
            (CHOOSE s \in Status : \E r \in Requests : request[r].at = "save" /\ request[r].id = t
                                                       /\ request[r].status = s)]
    ELSE transaction[t]]

Account == INSTANCE CustomerAccount WITH
    Ids <- Requests, a_pay <- customer.a_pay, pay_point <- customer.pay_point, entry <- Booked

(* However the awaits of the requests interleave, the handlers do what     *)
(* CustomerAccount says, one operation in one step, until two requests     *)
(* meet (TS:203, TS:241) or a notice is late.                              *)
AccountSpec == Account!Init /\ [][Account!Next \/ crossed']_(Account!vars)

(* So the books of TS.calculateTransaction balance until then: a_pay is    *)
(* short by the withdrawals not given back, the pay points are the top-ups *)
(* carried out, a_pay is not overdrawn.                                    *)
AccountBalanced == ~crossed => Account!Balanced

(* The requests that have changed the customer, by what they did.          *)
Written(op, type_transfer) ==
    {r \in Requests : /\ request[r].op = op
                      /\ request[r].at \in {"create", "save", "over"}
                      /\ transaction[request[r].id].type_transfer = type_transfer}

(* However they interleave, requests do not make money: every balance      *)
(* comes from the opening one by some of the changes that were written     *)
(* (each handler adds to what it has read, none is written twice).         *)
NothingFromNowhere ==
    /\ customer.pay_point <= Money * Cardinality(Written("verify", "top_up"))
    /\ customer.a_pay <= Opening + Money * Cardinality(Written("cancel", "withdraw_affiliate"))
    /\ customer.a_pay >= Opening - Money * Cardinality({r \in Requests :
          request[r].op = "withdraw" /\ request[r].at \in {"create", "over"}})

-----------------------------------------------------------------------------
(* TS.checkStatusTransaction refuses what is done or cancelled ("tra loi   *)
(* neu trang thai cua giao dich trung voi 1 trong cac trang thai"): no     *)
(* transaction is carried out twice, nor carried out and given back.       *)
SettledOnce == \A t \in Requests :
    Cardinality({r \in Written("verify", "top_up") \cup Written("verify", "withdraw_affiliate")
                       \cup Written("cancel", "withdraw_affiliate") : request[r].id = t}) <= 1
=============================================================================
