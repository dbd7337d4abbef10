------------------------- MODULE TransactionsProofs -------------------------
(***************************************************************************)
(* However requests interleave, they make no money; and as long as no two  *)
(* of them meet on one transaction or on the customer, they implement      *)
(* CustomerAccount: the handlers' sequences of reads and writes amount to  *)
(* the one step that each of them promises, whatever else is under way.    *)
(* For any number of requests and any amounts.                             *)
(***************************************************************************)
EXTENDS Transactions, FiniteSetTheorems, TLAPS

Transaction == [type_transfer : {"none", "top_up", "withdraw_affiliate"}, status : Status]
Request == [at : {"new", "read", "write", "create", "save", "over"},
            op : {"none", "top_up", "withdraw", "verify", "cancel", "notice"},
            id : Requests, customer : Customer, status : Status]

LEMMA PostedType ==
    ASSUME NEW c \in Customer, NEW op, NEW type_transfer
    PROVE  /\ Posted(c, op, type_transfer) \in Customer
           /\ Posted(c, op, type_transfer).a_pay =
                 IF op = "withdraw" THEN c.a_pay - Money
                 ELSE IF op = "cancel" THEN c.a_pay + Money ELSE c.a_pay
           /\ Posted(c, op, type_transfer).pay_point =
                 IF op = "verify" /\ type_transfer = "top_up" THEN c.pay_point + Money ELSE c.pay_point
<1>1. /\ c.a_pay \in Int /\ c.pay_point \in Nat
      /\ c.a_pay - Money \in Int /\ c.a_pay + Money \in Int /\ c.pay_point + Money \in Nat
  BY TransactionsAssumption DEF Customer
<1>2. \A a \in Int, p \in Nat : [c EXCEPT !.a_pay = a, !.pay_point = p] \in Customer
  BY DEF Customer
<1> QED BY <1>1, <1>2 DEF Posted, Customer

-----------------------------------------------------------------------------
(* However the requests interleave: the three changes of the customer that *)
(* the bounds of NothingFromNowhere count,                                 *)
CashedOut == {r \in Requests : request[r].op = "withdraw" /\ request[r].at \in {"create", "over"}}

Bounded(c) ==
    /\ c.pay_point <= Money * Cardinality(Written("verify", "top_up"))
    /\ c.a_pay <= Opening + Money * Cardinality(Written("cancel", "withdraw_affiliate"))
    /\ c.a_pay >= Opening - Money * Cardinality(CashedOut)

(* what a request knows of its transaction, whose type is set once, and of *)
(* the customer it has read: it was in bounds then, and the bounds only    *)
(* widen.                                                                  *)
Keeps(r) ==
    /\ transaction[r].type_transfer = "none" => transaction[r].status = "none"
    /\ request[r].at = "new" => transaction[r].type_transfer = "none"
    /\ request[r].at # "new" /\ request[r].op # "withdraw" =>
          transaction[request[r].id].type_transfer # "none"
    /\ request[r].at \in {"read", "write"} => request[r].op \in {"withdraw", "verify", "cancel"}
    /\ request[r].at \in {"read", "write"} /\ request[r].op = "cancel" =>
          transaction[request[r].id].type_transfer = "withdraw_affiliate"
    /\ request[r].at \in {"read", "write", "create"} /\ request[r].op = "withdraw" =>
          request[r].id = r /\ transaction[r].type_transfer = "none"
    /\ request[r].at = "create" => request[r].op = "withdraw"
    /\ request[r].at = "save" => request[r].op # "withdraw"
    /\ request[r].at = "write" => Bounded(request[r].customer)

MoneyInv == TypeOK /\ (\A r \in Requests : Keeps(r)) /\ Bounded(customer)

LEMMA MoneyTimes ==
    /\ Money * 0 = 0
    /\ \A m, n \in Nat : m <= n => Money * m <= Money * n
    /\ \A m, n \in Nat : m + 1 <= n => Money * m + Money <= Money * n
    /\ \A n \in Nat : Money * n \in Nat
<1>1. Money \in Nat BY TransactionsAssumption
<1>2. ASSUME NEW m \in Nat, NEW n \in Nat, m <= n PROVE Money * m <= Money * n
  <2>1. PICK k \in Nat : n = m + k
    <3>1. n - m \in Nat /\ n = m + (n - m) BY <1>2
    <3> QED BY <3>1
  <2>2. Money * n = Money * m + Money * k BY <1>1, <2>1
  <2>3. Money * k >= 0 /\ Money * m \in Int /\ Money * k \in Int BY <1>1, <2>1
  <2> QED BY <2>2, <2>3
<1>3. ASSUME NEW m \in Nat, NEW n \in Nat, m + 1 <= n PROVE Money * m + Money <= Money * n
  <2>1. Money * (m + 1) <= Money * n BY <1>2, <1>3
  <2>2. Money * (m + 1) = Money * m + Money BY <1>1
  <2> QED BY <2>1, <2>2
<1> QED BY <1>1, <1>2, <1>3

LEMMA MoneyInit == Init => MoneyInv
<1> SUFFICES ASSUME Init PROVE MoneyInv
  OBVIOUS
<1>1. TypeOK
  <2>1. customer \in Customer BY TransactionsAssumption DEF Init, Customer
  <2>2. transaction \in [Requests -> Transaction] BY DEF Init, Absent, Transaction, Status
  <2>3. request \in [Requests -> Request] BY <2>1 DEF Init, Request, Status
  <2>4. crossed \in BOOLEAN BY DEF Init
  <2> QED BY <2>1, <2>2, <2>3, <2>4 DEF TypeOK, Transaction, Request
<1>2. \A r \in Requests : Keeps(r) BY DEF Init, Keeps, Absent
<1>3. /\ Written("verify", "top_up") = {} /\ Written("cancel", "withdraw_affiliate") = {}
      /\ CashedOut = {}
  BY DEF Init, Written, CashedOut
<1>4. Bounded(customer)
  <2>1. customer.pay_point = 0 /\ customer.a_pay = Opening BY DEF Init
  <2>2. Money * Cardinality({}) = 0 BY FS_EmptySet, MoneyTimes
  <2>3. 0 <= 0 /\ Opening <= Opening + 0 /\ Opening >= Opening - 0 BY TransactionsAssumption
  <2> QED BY <1>3, <2>1, <2>2, <2>3 DEF Bounded
<1> QED BY <1>1, <1>2, <1>4 DEF MoneyInv

(* A request past its write of the customer stays there and keeps what it  *)
(* did; the type of a transaction is set once.                             *)
Lasting ==
    /\ \A r \in Requests : request[r].at \in {"create", "save", "over"} =>
          /\ request'[r].op = request[r].op /\ request'[r].id = request[r].id
          /\ request'[r].at \in {"create", "save", "over"}
          /\ request[r].at # "save" => request'[r].at # "save"
    /\ \A t \in Requests : transaction[t].type_transfer # "none" =>
          transaction'[t].type_transfer = transaction[t].type_transfer

LEMMA SetsGrow ==
    ASSUME TypeOK, Lasting
    PROVE  /\ \A op : \A type_transfer \in {"top_up", "withdraw_affiliate"} :
                 Written(op, type_transfer) \subseteq Written(op, type_transfer)'
           /\ CashedOut \subseteq CashedOut'
<1>1. \A r \in Requests : request[r].id \in Requests BY DEF TypeOK
<1> QED BY <1>1 DEF Lasting, Written, CashedOut

LEMMA BoundsWiden ==
    ASSUME TypeOK, Lasting, NEW c \in Customer, Bounded(c)
    PROVE  Bounded(c)'
<1> DEFINE V == Written("verify", "top_up")
           C == Written("cancel", "withdraw_affiliate")
<1>1. V \subseteq V' /\ C \subseteq C' /\ CashedOut \subseteq CashedOut' BY SetsGrow
<1>2. /\ IsFiniteSet(V') /\ IsFiniteSet(C') /\ IsFiniteSet(CashedOut')
      /\ Cardinality(V) \in Nat /\ Cardinality(C) \in Nat /\ Cardinality(CashedOut) \in Nat
      /\ Cardinality(V') \in Nat /\ Cardinality(C') \in Nat /\ Cardinality(CashedOut') \in Nat
  <2>1. /\ V \subseteq Requests /\ V' \subseteq Requests /\ C \subseteq Requests /\ C' \subseteq Requests
        /\ CashedOut \subseteq Requests /\ CashedOut' \subseteq Requests
    BY DEF Written, CashedOut
  <2> HIDE DEF V, C
  <2>2. \A S : S \subseteq Requests => IsFiniteSet(S) /\ Cardinality(S) \in Nat
    BY TransactionsAssumption, FS_Subset, FS_CardinalityType
  <2> QED BY <2>1, <2>2
<1> HIDE DEF V, C
<1>3. /\ Cardinality(V) <= Cardinality(V') /\ Cardinality(C) <= Cardinality(C')
      /\ Cardinality(CashedOut) <= Cardinality(CashedOut')
  BY <1>1, <1>2, FS_Subset
<1>4. /\ Money * Cardinality(V) <= Money * Cardinality(V')
      /\ Money * Cardinality(C) <= Money * Cardinality(C')
      /\ Money * Cardinality(CashedOut) <= Money * Cardinality(CashedOut')
      /\ Money * Cardinality(V) \in Nat /\ Money * Cardinality(V') \in Nat
      /\ Money * Cardinality(C) \in Nat /\ Money * Cardinality(C') \in Nat
      /\ Money * Cardinality(CashedOut) \in Nat /\ Money * Cardinality(CashedOut') \in Nat
  BY <1>2, <1>3, MoneyTimes
<1>5. c.pay_point \in Int /\ c.a_pay \in Int /\ Opening \in Int BY TransactionsAssumption DEF Customer
<1>6. /\ c.pay_point <= Money * Cardinality(V)
      /\ c.a_pay <= Opening + Money * Cardinality(C)
      /\ c.a_pay >= Opening - Money * Cardinality(CashedOut)
  BY DEF Bounded, V, C
<1>7. /\ c.pay_point <= Money * Cardinality(V')
      /\ c.a_pay <= Opening + Money * Cardinality(C')
      /\ c.a_pay >= Opening - Money * Cardinality(CashedOut')
  BY <1>4, <1>5, <1>6
<1> QED BY <1>7 DEF Bounded, V, C

(* A step of one request that leaves the others' transactions alone.       *)
LEMMA MoneyStep ==
    ASSUME MoneyInv, TypeOK', Lasting, NEW r \in Requests,
           \A q \in Requests \ {r} : request'[q] = request[q],
           \A t \in Requests \ {r} : transaction'[t].type_transfer = transaction[t].type_transfer,
           \A t \in Requests : transaction'[t].type_transfer = "none" => transaction'[t].status = "none",
           Keeps(r)', Bounded(customer)'
    PROVE  MoneyInv'
<1>1. TypeOK /\ \A q \in Requests : Keeps(q) BY DEF MoneyInv
<1>2. ASSUME NEW q \in Requests \ {r} PROVE Keeps(q)'
  <2>1. Keeps(q) /\ request'[q] = request[q] BY <1>1, <1>2
  <2>2. request[q].customer \in Customer /\ request[q].id \in Requests BY <1>1 DEF TypeOK
  <2>3. PICK c \in Customer : c = request[q].customer BY <2>2
  <2>4. request[q].at = "write" => Bounded(c)'
    <3>1. request[q].at = "write" => Bounded(c) BY <2>1, <2>3 DEF Keeps
    <3> QED BY <1>1, <3>1, BoundsWiden
  <2>5. /\ transaction'[q].type_transfer = transaction[q].type_transfer
        /\ transaction[request[q].id].type_transfer # "none" =>
              transaction'[request[q].id].type_transfer = transaction[request[q].id].type_transfer
        /\ transaction'[q].type_transfer = "none" => transaction'[q].status = "none"
    BY <1>2, <2>2 DEF Lasting
  <2> QED BY <2>1, <2>3, <2>4, <2>5 DEF Keeps, Bounded
<1> QED BY <1>1, <1>2 DEF MoneyInv

LEMMA GoesTo ==
    ASSUME request \in [Requests -> Request], NEW r \in Requests, NEW at \in {"read", "save"},
           NEW op \in {"top_up", "withdraw", "verify", "cancel", "notice"},
           NEW t \in Requests, NEW status \in Status, Goes(r, at, op, t, status)
    PROVE  /\ request'[r] = [request[r] EXCEPT !.at = at, !.op = op, !.id = t, !.status = status]
           /\ \A q \in Requests \ {r} : request'[q] = request[q]
           /\ request' \in [Requests -> Request]
  BY DEF Goes, Request

LEMMA StepMoney ==
    ASSUME MoneyInv, [Next]_vars
    PROVE  MoneyInv'
<1>1. TypeOK /\ (\A q \in Requests : Keeps(q)) /\ Bounded(customer) BY DEF MoneyInv
<1>2. /\ transaction \in [Requests -> Transaction]
      /\ request \in [Requests -> Request]
      /\ customer \in Customer
  BY <1>1 DEF TypeOK, Transaction, Request
<1>3. ASSUME UNCHANGED customer, Lasting PROVE Bounded(customer)'
  <2>1. Bounded(customer) => Bounded(customer') BY <1>3 DEF Bounded
  <2>2. PICK c \in Customer : c = customer BY <1>2
  <2>3. Bounded(c) => Bounded(c)' BY <1>1, <1>3, BoundsWiden
  <2> QED BY <1>1, <1>3, <2>2, <2>3 DEF Bounded
(* A request that begins.                                                  *)
<1>4. ASSUME NEW r \in Requests, Begins(r),
             NEW at \in {"read", "save"}, NEW op \in {"top_up", "withdraw", "verify", "cancel", "notice"},
             NEW t \in Requests, NEW status \in Status, Goes(r, at, op, t, status),
             UNCHANGED customer,
             \/ UNCHANGED transaction
             \/ transaction' = [transaction EXCEPT ![r] =
                                   [type_transfer |-> "top_up", status |-> "processing"]],
             op # "withdraw" => at = "save" \/ op \in {"verify", "cancel"},
             op # "withdraw" => transaction'[t].type_transfer # "none",
             op = "cancel" /\ at = "read" => transaction'[t].type_transfer = "withdraw_affiliate",
             op = "withdraw" => at = "read" /\ t = r /\ UNCHANGED transaction
      PROVE  MoneyInv'
  <2>1. /\ request'[r] = [request[r] EXCEPT !.at = at, !.op = op, !.id = t, !.status = status]
        /\ \A q \in Requests \ {r} : request'[q] = request[q]
        /\ request' \in [Requests -> Request]
    BY <1>2, <1>4, GoesTo
  <2>2. request'[r].at = at /\ request'[r].op = op /\ request'[r].id = t BY <1>2, <2>1 DEF Request
  <2>3. TypeOK'
    <3>1. crossed' \in BOOLEAN BY <1>4 DEF Goes
    <3>2. transaction' \in [Requests -> Transaction] BY <1>2, <1>4 DEF Transaction, Status
    <3> QED BY <1>2, <1>4, <2>1, <3>1, <3>2 DEF TypeOK, Transaction, Request
  <2>4. request[r].at = "new" /\ transaction[r].type_transfer = "none" /\ transaction[r].status = "none"
    BY <1>1, <1>4 DEF Begins, Keeps
  <2>5. /\ \A u \in Requests \ {r} : transaction'[u] = transaction[u]
        /\ transaction'[r].type_transfer = "none" => transaction'[r].status = "none"
    BY <1>2, <1>4, <2>4
  <2>6. Lasting BY <2>1, <2>4, <2>5 DEF Lasting
  <2>7. Keeps(r)' BY <1>4, <2>2, <2>4, <2>5 DEF Keeps
  <2>8. \A u \in Requests : transaction'[u].type_transfer = "none" => transaction'[u].status = "none"
    BY <1>1, <2>5 DEF Keeps
  <2> QED BY <1>3, <1>4, <2>1, <2>3, <2>5, <2>6, <2>7, <2>8, MoneyStep
<1>5. ASSUME NEW r \in Requests, CreateTopUp(r) PROVE MoneyInv'
  BY <1>2, <1>4, <1>5 DEF CreateTopUp, Status
<1>6. ASSUME NEW r \in Requests, RequestWithdrawal(r) PROVE MoneyInv'
  BY <1>4, <1>6 DEF RequestWithdrawal, Status
<1>7. ASSUME NEW t \in Requests, Open(t) PROVE transaction[t].type_transfer # "none"
  BY <1>1, <1>7 DEF Open, Keeps
<1>8. ASSUME NEW r \in Requests, NEW t \in Requests, Verify(r, t) PROVE MoneyInv'
  BY <1>4, <1>7, <1>8 DEF Verify, Status
<1>9. ASSUME NEW r \in Requests, NEW t \in Requests, Cancel(r, t) PROVE MoneyInv'
  <2> DEFINE at == IF transaction[t].type_transfer = "withdraw_affiliate" THEN "read" ELSE "save"
  <2>1. /\ Begins(r) /\ Open(t) /\ Goes(r, at, "cancel", t, "cancel")
        /\ UNCHANGED <<customer, transaction>>
    BY <1>9 DEF Cancel
  <2>2. at \in {"read", "save"} /\ (at = "read" => transaction[t].type_transfer = "withdraw_affiliate")
    OBVIOUS
  <2> HIDE DEF at
  <2> QED BY <1>4, <1>7, <2>1, <2>2 DEF Status
<1>10. ASSUME NEW r \in Requests, NEW t \in Requests, NoticeFailure(r, t) PROVE MoneyInv'
  <2>1. PICK status \in {"fail", transaction[t].status} : Goes(r, "save", "notice", t, status)
    BY <1>10 DEF NoticeFailure
  <2>2. status \in Status BY <1>2 DEF Transaction, Status
  <2> QED BY <1>4, <1>10, <2>1, <2>2 DEF NoticeFailure
(* A request under way.                                                    *)
<1>11. ASSUME NEW r \in Requests, ReadCustomer(r) PROVE MoneyInv'
  <2>1. /\ request' \in [Requests -> Request]
        /\ request'[r] = [request[r] EXCEPT !.at = "write", !.customer = customer]
        /\ \A q \in Requests \ {r} : request'[q] = request[q]
        /\ request[r].at = "read" /\ UNCHANGED <<customer, transaction>>
    BY <1>2, <1>11 DEF ReadCustomer, Request
  <2>2. /\ request'[r].at = "write" /\ request'[r].op = request[r].op
        /\ request'[r].id = request[r].id /\ request'[r].customer = customer'
    BY <1>2, <2>1 DEF Request
  <2>3. Lasting BY <2>1 DEF Lasting
  <2>4. TypeOK' BY <1>1, <1>11, <2>1 DEF ReadCustomer, TypeOK, Request
  <2>5. Bounded(customer)' BY <1>3, <2>1, <2>3
  <2>6. Keeps(r)' BY <1>1, <2>1, <2>2, <2>5 DEF Keeps, Bounded
  <2>7. \A u \in Requests : transaction'[u].type_transfer = "none" => transaction'[u].status = "none"
    BY <1>1, <2>1 DEF Keeps
  <2> QED BY <2>1, <2>3, <2>4, <2>5, <2>6, <2>7, MoneyStep
<1>12. ASSUME NEW r \in Requests, CreateWithdrawal(r) PROVE MoneyInv'
  <2>1. /\ request' \in [Requests -> Request]
        /\ request'[r] = [request[r] EXCEPT !.at = "over"]
        /\ \A q \in Requests \ {r} : request'[q] = request[q]
        /\ request[r].at = "create" /\ UNCHANGED customer
        /\ transaction' \in [Requests -> Transaction]
        /\ transaction'[r].type_transfer = "withdraw_affiliate"
        /\ \A u \in Requests \ {r} : transaction'[u] = transaction[u]
    BY <1>2, <1>12 DEF CreateWithdrawal, Request, Transaction
  <2>2. /\ request'[r].at = "over" /\ request'[r].op = request[r].op /\ request'[r].id = request[r].id
    BY <1>2, <2>1 DEF Request
  <2>3. request[r].op = "withdraw" /\ transaction[r].type_transfer = "none" BY <1>1, <2>1 DEF Keeps
  <2>4. Lasting BY <2>1, <2>2, <2>3 DEF Lasting
  <2>5. TypeOK' BY <1>1, <1>12, <2>1 DEF CreateWithdrawal, TypeOK, Request, Transaction
  <2>6. Keeps(r)' BY <2>1, <2>2, <2>3 DEF Keeps
  <2>7. \A u \in Requests : transaction'[u].type_transfer = "none" => transaction'[u].status = "none"
    BY <1>1, <2>1 DEF Keeps
  <2> QED BY <1>3, <2>1, <2>4, <2>5, <2>6, <2>7, MoneyStep
<1>13. ASSUME NEW r \in Requests, SaveTransaction(r) PROVE MoneyInv'
  <2>1. /\ request' \in [Requests -> Request]
        /\ request'[r] = [request[r] EXCEPT !.at = "over"]
        /\ \A q \in Requests \ {r} : request'[q] = request[q]
        /\ request[r].at = "save" /\ UNCHANGED customer
        /\ transaction' \in [Requests -> Transaction]
        /\ UNCHANGED crossed
    BY <1>2, <1>13 DEF SaveTransaction, Request, Transaction
  <2>2. /\ request'[r].at = "over" /\ request'[r].op = request[r].op /\ request'[r].id = request[r].id
        /\ request[r].id \in Requests
    BY <1>2, <2>1 DEF Request
  <2>3. /\ \A u \in Requests : transaction'[u].type_transfer = transaction[u].type_transfer
        /\ \A u \in Requests : u # request[r].id => transaction'[u] = transaction[u]
    BY <1>2, <1>13 DEF SaveTransaction, Request, Transaction
  <2>4. request[r].op # "withdraw" /\ transaction[request[r].id].type_transfer # "none"
    BY <1>1, <2>1 DEF Keeps
  <2>5. Lasting BY <2>1, <2>2, <2>3, <2>4 DEF Lasting
  <2>6. TypeOK' BY <1>1, <2>1 DEF TypeOK, Request, Transaction
  <2>7. \A u \in Requests : transaction'[u].type_transfer = "none" => transaction'[u].status = "none"
    BY <1>1, <2>1, <2>2, <2>3, <2>4 DEF Keeps
  <2>8. Keeps(r)' BY <2>1, <2>2, <2>3, <2>4, <2>7 DEF Keeps
  <2> QED BY <1>3, <2>1, <2>3, <2>5, <2>6, <2>7, <2>8, MoneyStep
<1>14. ASSUME NEW r \in Requests, WriteCustomer(r) PROVE MoneyInv'
  <2> DEFINE op == request[r].op
             id == request[r].id
             at == IF op = "withdraw" THEN "create" ELSE "save"
             V == Written("verify", "top_up")
             C == Written("cancel", "withdraw_affiliate")
  <2>1. /\ request' \in [Requests -> Request]
        /\ request'[r] = [request[r] EXCEPT !.at = at]
        /\ \A q \in Requests \ {r} : request'[q] = request[q]
        /\ request[r].at = "write" /\ UNCHANGED transaction
    BY <1>2, <1>14 DEF WriteCustomer, Request
  <2>2. request'[r].at = at /\ request'[r].op = op /\ request'[r].id = id /\ id \in Requests
    BY <1>2, <2>1 DEF Request
  <2>3. op \in {"withdraw", "verify", "cancel"} BY <1>1, <2>1 DEF Keeps
  <2>4. PICK c \in Customer : c = request[r].customer BY <1>2 DEF Request
  <2>5. /\ customer' \in Customer
        /\ customer'.a_pay = IF op = "withdraw" THEN c.a_pay - Money
                             ELSE IF op = "cancel" THEN c.a_pay + Money ELSE c.a_pay
        /\ customer'.pay_point = IF op = "verify" /\ transaction[id].type_transfer = "top_up"
                                 THEN c.pay_point + Money ELSE c.pay_point
    BY <1>14, <2>4, PostedType DEF WriteCustomer
  <2>6. Lasting BY <2>1, <2>2 DEF Lasting
  <2>7. TypeOK' BY <1>1, <1>14, <2>1, <2>5 DEF WriteCustomer, TypeOK, Request
  <2>8. Bounded(c) /\ Bounded(c)'
    <3>1. Bounded(c) BY <1>1, <2>1, <2>4 DEF Keeps
    <3> QED BY <1>1, <2>6, <3>1, BoundsWiden
  <2>9. \A u \in Requests : transaction'[u].type_transfer = "none" => transaction'[u].status = "none"
    BY <1>1, <2>1 DEF Keeps
  <2>10. Keeps(r)' BY <1>1, <2>1, <2>2, <2>3 DEF Keeps
  <2>11. Bounded(customer)'
    <3>1. V \subseteq V' /\ C \subseteq C' /\ CashedOut \subseteq CashedOut' BY <1>1, <2>6, SetsGrow
    <3>2. /\ V' \subseteq Requests /\ C' \subseteq Requests /\ CashedOut' \subseteq Requests
          /\ r \notin V /\ r \notin C /\ r \notin CashedOut
      BY <2>1 DEF Written, CashedOut
    <3>3. /\ op = "verify" /\ transaction[id].type_transfer = "top_up" => r \in V'
          /\ op = "cancel" => r \in C'
          /\ op = "withdraw" => r \in CashedOut'
      <4>1. op = "cancel" => transaction[id].type_transfer = "withdraw_affiliate"
        BY <1>1, <2>1 DEF Keeps
      <4> QED BY <2>1, <2>2, <4>1 DEF Written, CashedOut
    <3> DEFINE v == Cardinality(V)   vv == Cardinality(V')
               d == Cardinality(C)   dd == Cardinality(C')
               w == Cardinality(CashedOut)   ww == Cardinality(CashedOut')
    <3>4. ASSUME NEW S, NEW T, T \subseteq Requests, S \subseteq T, r \notin S
          PROVE  /\ Cardinality(S) \in Nat /\ Cardinality(T) \in Nat
                 /\ r \in T => Cardinality(S) + 1 <= Cardinality(T)
      <4>1. IsFiniteSet(S) /\ IsFiniteSet(T) BY <3>4, TransactionsAssumption, FS_Subset
      <4>2. Cardinality(S \cup {r}) = Cardinality(S) + 1 /\ IsFiniteSet(S \cup {r})
        BY <3>4, <4>1, FS_AddElement
      <4>3. r \in T => Cardinality(S \cup {r}) <= Cardinality(T) BY <3>4, <4>1, FS_Subset
      <4> QED BY <4>1, <4>2, <4>3, FS_CardinalityType
    <3> HIDE DEF V, C
    <3>5. /\ v \in Nat /\ vv \in Nat /\ d \in Nat /\ dd \in Nat /\ w \in Nat /\ ww \in Nat
          /\ r \in V' => v + 1 <= vv
          /\ r \in C' => d + 1 <= dd
          /\ r \in CashedOut' => w + 1 <= ww
      BY <3>1, <3>2, <3>4
    <3>6. /\ c.pay_point <= Money * v /\ c.a_pay <= Opening + Money * d /\ c.a_pay >= Opening - Money * w
          /\ c.pay_point <= Money * vv /\ c.a_pay <= Opening + Money * dd /\ c.a_pay >= Opening - Money * ww
      BY <2>8 DEF Bounded, V, C
    <3> HIDE DEF v, vv, d, dd, w, ww
    <3>7. /\ r \in V' => Money * v + Money <= Money * vv
          /\ r \in C' => Money * d + Money <= Money * dd
          /\ r \in CashedOut' => Money * w + Money <= Money * ww
          /\ Money * v \in Nat /\ Money * vv \in Nat /\ Money * d \in Nat /\ Money * dd \in Nat
          /\ Money * w \in Nat /\ Money * ww \in Nat
      BY <3>5, MoneyTimes
    <3>8. c.a_pay \in Int /\ c.pay_point \in Int /\ Money \in Nat /\ Opening \in Nat
      BY TransactionsAssumption DEF Customer
    <3>9. customer'.pay_point <= Money * vv BY <2>5, <3>3, <3>6, <3>7, <3>8
    <3>10. customer'.a_pay <= Opening + Money * dd BY <2>5, <3>3, <3>6, <3>7, <3>8
    <3>11. customer'.a_pay >= Opening - Money * ww BY <2>5, <3>3, <3>6, <3>7, <3>8
    <3> QED BY <3>9, <3>10, <3>11 DEF Bounded, V, C, vv, dd, ww
  <2> QED BY <2>1, <2>6, <2>7, <2>9, <2>10, <2>11, MoneyStep
<1>15. ASSUME UNCHANGED vars PROVE MoneyInv'
  BY <1>1, <1>15 DEF vars, MoneyInv, TypeOK, Keeps, Bounded, Written, CashedOut
<1> QED
  BY <1>5, <1>6, <1>8, <1>9, <1>10, <1>11, <1>12, <1>13, <1>14, <1>15 DEF Next

(* Documents and requests keep their types, however the requests of TS and *)
(* PS interleave.                                                          *)
THEOREM TransactionsTypeCorrect == Spec => []TypeOK
<1>1. MoneyInv => TypeOK BY DEF MoneyInv
<1>2. MoneyInv /\ [Next]_vars => MoneyInv' BY StepMoney
<1> QED BY <1>1, <1>2, MoneyInit, PTL DEF Spec

(* However many requests of TS and PS interleave, with late notices or     *)
(* without, and whatever customer each of them has read: the pay points    *)
(* and a_pay stay between what the written changes account for.            *)
THEOREM MoneyFromSomewhere == Spec => []NothingFromNowhere
<1>1. MoneyInv => NothingFromNowhere BY DEF MoneyInv, Bounded, CashedOut, NothingFromNowhere
<1>2. MoneyInv /\ [Next]_vars => MoneyInv' BY StepMoney
<1> QED BY <1>1, <1>2, MoneyInit, PTL DEF Spec

-----------------------------------------------------------------------------
(* The account.  Booked as a function of the two variables it looks at, so *)
(* that what is said of it can be said before and after a step.            *)
BookedOf(tr, rq) == [t \in Requests |->
    IF rq[t].at = "create"
    THEN [type_transfer |-> "withdraw_affiliate", status |-> rq[t].status]
    ELSE IF \E r \in Requests : rq[r].at = "save" /\ rq[r].id = t
    THEN [tr[t] EXCEPT !.status =
            (CHOOSE s \in Status : \E r \in Requests : rq[r].at = "save" /\ rq[r].id = t
                                                       /\ rq[r].status = s)]
    ELSE tr[t]]

LEMMA BookedNow == Booked = BookedOf(transaction, request) BY DEF Booked, BookedOf

(* Until two of them meet, requests under way are about transactions of    *)
(* their own, and one at a time is between its look at the customer and    *)
(* its write of him;                                                       *)
Flying(rq, r) == rq[r].at \notin {"new", "over"}
Reading(rq, r) == rq[r].at \in {"read", "write"}
Apart(rq) == \A r, q \in Requests :
    /\ Flying(rq, r) /\ Flying(rq, q) /\ rq[r].id = rq[q].id => r = q
    /\ Reading(rq, r) /\ Reading(rq, q) => r = q

(* so what a request has checked and read is still so.                     *)
Checked(r) ==
    /\ request[r].op \in {"withdraw", "verify", "cancel"}
    /\ request[r].op = "withdraw" => /\ request[r].id = r
                                     /\ request[r].status = "pending"
                                     /\ transaction[r] = Absent
                                     /\ customer.a_pay >= Minimum
                                     /\ customer.a_pay >= Money
    /\ request[r].op = "verify" => request[r].status = "done" /\ Open(request[r].id)
    /\ request[r].op = "cancel" => /\ request[r].status = "cancel"
                                   /\ Open(request[r].id)
                                   /\ transaction[request[r].id].type_transfer = "withdraw_affiliate"

(* No top-up is ever pending.                                              *)
OfTopUp == {"processing", "fail", "done", "cancel"}
TopUp(t) == transaction[t].type_transfer = "top_up"

Follows(r) ==
    /\ request[r].at = "new" => transaction[r] = Absent
    /\ TopUp(r) => transaction[r].status \in OfTopUp
    /\ Reading(request, r) => Checked(r)
    /\ request[r].at = "write" => request[r].customer = customer
    /\ request[r].at = "create" => request[r].id = r /\ request[r].status = "pending"
                                   /\ transaction[r] = Absent
    /\ request[r].at = "save" => /\ transaction[request[r].id] # Absent
                                 /\ TopUp(request[r].id) => request[r].status \in OfTopUp

Unmet == Apart(request) /\ \A r \in Requests : Follows(r)

-----------------------------------------------------------------------------
(* What the books say of a transaction: what is stored if nobody is at     *)
(* work on it,                                                             *)
LEMMA BookedFree ==
    ASSUME NEW tr, NEW rq, NEW t \in Requests,
           \A q \in Requests : rq[q].at = "create" => rq[q].id = q,
           \A q \in Requests : Flying(rq, q) => rq[q].id # t
    PROVE  BookedOf(tr, rq)[t] = tr[t]
  BY DEF BookedOf, Flying

(* otherwise it depends on how far that request is.                        *)
LEMMA BookedHeld ==
    ASSUME NEW tr \in [Requests -> Transaction], NEW rq \in [Requests -> Request], Apart(rq),
           \A q \in Requests : rq[q].at = "create" => rq[q].id = q,
           NEW r \in Requests, NEW t \in Requests, Flying(rq, r), rq[r].id = t
    PROVE  BookedOf(tr, rq)[t] =
              IF rq[r].at = "create" THEN [type_transfer |-> "withdraw_affiliate", status |-> rq[r].status]
              ELSE IF rq[r].at = "save" THEN [tr[t] EXCEPT !.status = rq[r].status] ELSE tr[t]
<1>1. \A q \in Requests : Flying(rq, q) /\ rq[q].id = t => q = r BY DEF Apart
<1>2. rq[t].at = "create" <=> rq[r].at = "create"
  BY <1>1 DEF Flying
<1>3. CASE rq[r].at = "create" BY <1>1, <1>3 DEF BookedOf
<1>4. CASE rq[r].at = "save"
  <2> DEFINE P(s) == \E q \in Requests : rq[q].at = "save" /\ rq[q].id = t /\ rq[q].status = s
  <2>1. rq[r].status \in Status BY DEF Request
  <2>2. \A s \in Status : P(s) <=> s = rq[r].status BY <1>1, <1>4 DEF Flying
  <2>3. (CHOOSE s \in Status : P(s)) = rq[r].status BY <2>1, <2>2
  <2> QED BY <1>2, <1>4, <2>3 DEF BookedOf
<1>5. CASE rq[r].at \notin {"create", "save"}
  <2>1. \A q \in Requests : ~(rq[q].at = "save" /\ rq[q].id = t) BY <1>1, <1>5 DEF Flying
  <2> QED BY <1>2, <1>5, <2>1 DEF BookedOf
<1> QED BY <1>3, <1>4, <1>5

(* A step of r, which is about t, changes the books of t only.             *)
LEMMA BookedMove ==
    ASSUME NEW tr \in [Requests -> Transaction], NEW rq \in [Requests -> Request], Apart(rq),
           NEW tr2 \in [Requests -> Transaction], NEW rq2 \in [Requests -> Request], Apart(rq2),
           \A q \in Requests : rq[q].at = "create" => rq[q].id = q,
           \A q \in Requests : rq2[q].at = "create" => rq2[q].id = q,
           NEW r \in Requests, NEW t \in Requests,
           Flying(rq, r) => rq[r].id = t, Flying(rq2, r) => rq2[r].id = t,
           \A q \in Requests \ {r} : rq2[q] = rq[q],
           \A u \in Requests \ {t} : tr2[u] = tr[u]
    PROVE  BookedOf(tr2, rq2) = [BookedOf(tr, rq) EXCEPT ![t] = BookedOf(tr2, rq2)[t]]
<1> DEFINE B == BookedOf(tr, rq)
           B2 == BookedOf(tr2, rq2)
<1>1. ASSUME NEW u \in Requests \ {t} PROVE B2[u] = B[u]
  <2>1. CASE \E q \in Requests : Flying(rq, q) /\ rq[q].id = u
    <3>1. PICK q \in Requests : Flying(rq, q) /\ rq[q].id = u BY <2>1
    <3>2. q # r /\ rq2[q] = rq[q] /\ Flying(rq2, q) /\ rq2[q].id = u /\ tr2[u] = tr[u]
      BY <1>1, <3>1 DEF Flying
    <3>3. B[u] = IF rq[q].at = "create" THEN [type_transfer |-> "withdraw_affiliate", status |-> rq[q].status]
                 ELSE IF rq[q].at = "save" THEN [tr[u] EXCEPT !.status = rq[q].status] ELSE tr[u]
      BY <3>1, BookedHeld
    <3>4. B2[u] = IF rq2[q].at = "create" THEN [type_transfer |-> "withdraw_affiliate", status |-> rq2[q].status]
                  ELSE IF rq2[q].at = "save" THEN [tr2[u] EXCEPT !.status = rq2[q].status] ELSE tr2[u]
      BY <3>2, BookedHeld
    <3> QED BY <3>2, <3>3, <3>4
  <2>2. CASE \A q \in Requests : Flying(rq, q) => rq[q].id # u
    <3>1. \A q \in Requests : Flying(rq2, q) => rq2[q].id # u BY <1>1, <2>2 DEF Flying
    <3>2. B[u] = tr[u] BY <2>2, BookedFree
    <3>3. B2[u] = tr2[u] BY <3>1, BookedFree
    <3> QED BY <1>1, <3>2, <3>3
  <2> QED BY <2>1, <2>2
<1>2. B = [u \in Requests |-> B[u]] /\ B2 = [u \in Requests |-> B2[u]] BY DEF BookedOf
<1> HIDE DEF B, B2
<1>3. B2 = [B EXCEPT ![t] = B2[t]] BY <1>1, <1>2
<1> QED BY <1>3 DEF B, B2

-----------------------------------------------------------------------------
(* Unmet is kept.  A request that begins without meeting another:          *)
LEMMA Alone ==
    ASSUME NEW r \in Requests, NEW at, NEW op, NEW t \in Requests, NEW status,
           Goes(r, at, op, t, status), ~crossed'
    PROVE  /\ ~crossed
           /\ \A q \in Requests : Flying(request, q) => request[q].id # t
           /\ at = "read" => \A q \in Requests : ~Reading(request, q)
           /\ op = "notice" => transaction[t].status \notin {"done", "cancel"}
  BY DEF Goes, Meets, Flying, Reading

LEMMA BeginUnmet ==
    ASSUME TypeOK, Unmet, NEW r \in Requests, Begins(r),
           NEW at \in {"read", "save"}, NEW op \in {"top_up", "withdraw", "verify", "cancel", "notice"},
           NEW t \in Requests, NEW status \in Status, Goes(r, at, op, t, status), ~crossed',
           UNCHANGED customer,
           \A u \in Requests \ {r} : transaction'[u] = transaction[u],
           t = r \/ UNCHANGED transaction,
           Follows(r)'
    PROVE  Unmet'
<1>1. request \in [Requests -> Request] BY DEF TypeOK, Request
<1>2. /\ request'[r] = [request[r] EXCEPT !.at = at, !.op = op, !.id = t, !.status = status]
      /\ \A q \in Requests \ {r} : request'[q] = request[q]
  BY <1>1 DEF Goes
<1>3. request'[r].at = at /\ request'[r].id = t BY <1>1, <1>2 DEF Request
<1>4. /\ \A q \in Requests : Flying(request, q) => request[q].id # t
      /\ at = "read" => \A q \in Requests : ~Reading(request, q)
  BY Alone
<1>5. Apart(request')
  <2>1. Apart(request) BY DEF Unmet
  <2>2. \A q \in Requests \ {r} : Flying(request', q) => request'[q].id # t
    BY <1>2, <1>4 DEF Flying
  <2>3. Reading(request', r) => at = "read" BY <1>3 DEF Reading
  <2>4. \A q \in Requests \ {r} : Reading(request', r) => ~Reading(request', q)
    BY <1>2, <1>4, <2>3 DEF Reading
  <2>5. ASSUME NEW p \in Requests \ {r}, NEW q \in Requests \ {r}
        PROVE  /\ Flying(request', p) /\ Flying(request', q) /\ request'[p].id = request'[q].id => p = q
               /\ Reading(request', p) /\ Reading(request', q) => p = q
    BY <1>2, <2>1, <2>5 DEF Apart, Flying, Reading
  <2> QED BY <1>3, <2>2, <2>4, <2>5 DEF Apart
<1>6. ASSUME NEW q \in Requests \ {r} PROVE Follows(q)'
  <2>1. Follows(q) /\ request'[q] = request[q] /\ transaction'[q] = transaction[q]
    BY <1>2, <1>6 DEF Unmet
  <2>2. Flying(request, q) => transaction'[request[q].id] = transaction[request[q].id]
    BY <1>1, <1>4 DEF Request
  <2> QED BY <2>1, <2>2 DEF Follows, Checked, Flying, Reading, TopUp, Open
<1> QED BY <1>5, <1>6 DEF Unmet

(* and one under way, which nobody else is about.                          *)
LEMMA FlightUnmet ==
    ASSUME TypeOK, Unmet, NEW r \in Requests, Flying(request, r), NEW t \in Requests, request[r].id = t,
           \A q \in Requests \ {r} : request'[q] = request[q],
           request'[r].id = t, Reading(request', r) => Reading(request, r),
           UNCHANGED customer \/ request[r].at = "write",
           \A u \in Requests \ {t} : transaction'[u] = transaction[u],
           t = r \/ transaction'[t] = transaction[t] \/ transaction[t] # Absent,
           TopUp(t)' => transaction'[t].status \in OfTopUp,
           Follows(r)'
    PROVE  Unmet'
<1>1. request \in [Requests -> Request] BY DEF TypeOK, Request
<1>2. Apart(request') BY DEF Unmet, Apart, Flying, Reading
<1>3. ASSUME NEW q \in Requests \ {r} PROVE Follows(q)'
  <2>1. Follows(q) /\ request'[q] = request[q] BY <1>3 DEF Unmet
  <2>2. Flying(request, q) => request[q].id # t BY <1>3 DEF Unmet, Apart
  <2>3. Flying(request, q) => transaction'[request[q].id] = transaction[request[q].id]
    BY <1>1, <2>2 DEF Request
  <2>4. Reading(request, q) => UNCHANGED customer BY <1>3 DEF Unmet, Apart, Reading
  <2>5. request[q].at = "new" => transaction'[q] = Absent BY <1>3, <2>1 DEF Follows
  <2>6. TopUp(q)' => transaction'[q].status \in OfTopUp BY <2>1 DEF Follows, TopUp
  <2>7. request[q].at = "create" => transaction'[q] = Absent
    BY <2>1, <2>3 DEF Follows, Flying
  <2> QED BY <2>1, <2>3, <2>4, <2>5, <2>6, <2>7 DEF Follows, Checked, Flying, Reading, TopUp, Open
<1> QED BY <1>2, <1>3 DEF Unmet

LEMMA InitUnmet == Init => Unmet
  BY DEF Init, Unmet, Apart, Flying, Reading, Follows, Checked, TopUp, Absent

LEMMA StepUnmet ==
    ASSUME TypeOK, TypeOK', ~crossed => Unmet, [Next]_vars, ~crossed'
    PROVE  ~crossed /\ Unmet /\ Unmet'
<1>1. /\ transaction \in [Requests -> Transaction] /\ transaction' \in [Requests -> Transaction]
      /\ request \in [Requests -> Request] /\ request' \in [Requests -> Request]
      /\ customer \in Customer
  BY DEF TypeOK, Transaction, Request
<1>2. ~crossed
  BY DEF Next, vars, CreateTopUp, RequestWithdrawal, Verify, Cancel, NoticeFailure, Goes,
         ReadCustomer, WriteCustomer, CreateWithdrawal, SaveTransaction
<1>3. Unmet /\ Apart(request) /\ \A q \in Requests : Follows(q) BY <1>2 DEF Unmet
(* A request that begins.                                                  *)
<1>4. ASSUME NEW r \in Requests, Begins(r) PROVE transaction[r] = Absent
  BY <1>3, <1>4 DEF Begins, Follows
<1>5. ASSUME NEW r \in Requests, NEW at \in {"read", "save"},
             NEW op \in {"top_up", "withdraw", "verify", "cancel", "notice"},
             NEW t \in Requests, NEW status \in Status, Goes(r, at, op, t, status)
      PROVE  /\ request'[r].at = at /\ request'[r].op = op
             /\ request'[r].id = t /\ request'[r].status = status
  <2>1. request'[r] = [request[r] EXCEPT !.at = at, !.op = op, !.id = t, !.status = status]
    BY <1>1, <1>5 DEF Goes
  <2> QED BY <1>1, <2>1 DEF Request
<1>6. ASSUME NEW r \in Requests, CreateTopUp(r) PROVE Unmet'
  <2>1. /\ Begins(r) /\ Goes(r, "save", "top_up", r, "processing") /\ UNCHANGED customer
        /\ transaction'[r] = [type_transfer |-> "top_up", status |-> "processing"]
        /\ \A u \in Requests \ {r} : transaction'[u] = transaction[u]
    BY <1>1, <1>6 DEF CreateTopUp
  <2>2. /\ request'[r].at = "save" /\ request'[r].id = r /\ request'[r].status = "processing"
    BY <1>5, <2>1 DEF Status
  <2>3. Follows(r)' BY <2>1, <2>2 DEF Follows, Reading, TopUp, OfTopUp, Absent
  <2> QED BY <1>3, <2>1, <2>3, BeginUnmet DEF Status
<1>7. ASSUME NEW r \in Requests, RequestWithdrawal(r) PROVE Unmet'
  <2>1. /\ Begins(r) /\ Goes(r, "read", "withdraw", r, "pending") /\ UNCHANGED <<customer, transaction>>
        /\ customer.a_pay >= Minimum /\ customer.a_pay >= Money
    BY <1>7 DEF RequestWithdrawal
  <2>2. /\ request'[r].at = "read" /\ request'[r].op = "withdraw"
        /\ request'[r].id = r /\ request'[r].status = "pending"
    BY <1>5, <2>1 DEF Status
  <2>3. transaction[r] = Absent BY <1>4, <2>1
  <2>4. Follows(r)' BY <2>1, <2>2, <2>3 DEF Follows, Checked, Reading, TopUp, Absent
  <2> QED BY <1>3, <2>1, <2>4, BeginUnmet DEF Status
<1>8. ASSUME NEW r \in Requests, NEW t \in Requests, Verify(r, t) PROVE Unmet'
  <2>1. /\ Begins(r) /\ Open(t) /\ Goes(r, "read", "verify", t, "done")
        /\ UNCHANGED <<customer, transaction>>
    BY <1>8 DEF Verify
  <2>2. /\ request'[r].at = "read" /\ request'[r].op = "verify"
        /\ request'[r].id = t /\ request'[r].status = "done"
    BY <1>5, <2>1 DEF Status
  <2>3. transaction[r] = Absent BY <1>4, <2>1
  <2>4. Follows(r)' BY <2>1, <2>2, <2>3 DEF Follows, Checked, Reading, TopUp, Absent, Open
  <2> QED BY <1>3, <2>1, <2>4, BeginUnmet DEF Status
<1>9. ASSUME NEW r \in Requests, NEW t \in Requests, Cancel(r, t) PROVE Unmet'
  <2> DEFINE at == IF transaction[t].type_transfer = "withdraw_affiliate" THEN "read" ELSE "save"
  <2>1. /\ Begins(r) /\ Open(t) /\ Goes(r, at, "cancel", t, "cancel")
        /\ UNCHANGED <<customer, transaction>>
    BY <1>9 DEF Cancel
  <2>2. at \in {"read", "save"} /\ (at = "read" => transaction[t].type_transfer = "withdraw_affiliate")
    OBVIOUS
  <2> HIDE DEF at
  <2>3. /\ request'[r].at = at /\ request'[r].op = "cancel"
        /\ request'[r].id = t /\ request'[r].status = "cancel"
    BY <1>5, <2>1, <2>2 DEF Status
  <2>4. transaction[r] = Absent /\ transaction[t] # Absent BY <1>4, <2>1 DEF Open, Absent
  <2>5. Follows(r)' BY <2>1, <2>2, <2>3, <2>4 DEF Follows, Checked, Reading, TopUp, OfTopUp, Absent, Open
  <2> QED BY <1>3, <2>1, <2>2, <2>5, BeginUnmet DEF Status
<1>10. ASSUME NEW r \in Requests, NEW t \in Requests, NoticeFailure(r, t) PROVE Unmet'
  <2>1. PICK status \in {"fail", transaction[t].status} : Goes(r, "save", "notice", t, status)
    BY <1>10 DEF NoticeFailure
  <2>2. Begins(r) /\ TopUp(t) /\ UNCHANGED <<customer, transaction>> BY <1>10 DEF NoticeFailure, TopUp
  <2>3. status \in Status BY <1>1 DEF Transaction, Status
  <2>4. /\ request'[r].at = "save" /\ request'[r].id = t /\ request'[r].status = status
    BY <1>5, <2>1, <2>3
  <2>5. transaction[r] = Absent /\ transaction[t] # Absent /\ status \in OfTopUp
    BY <1>3, <1>4, <2>2 DEF Follows, TopUp, Absent, OfTopUp
  <2>6. Follows(r)' BY <2>2, <2>4, <2>5 DEF Follows, Reading, TopUp, Absent
  <2> QED BY <1>3, <2>1, <2>2, <2>3, <2>6, BeginUnmet
(* A request under way.                                                    *)
<1>11. ASSUME NEW r \in Requests, ReadCustomer(r) PROVE Unmet'
  <2>1. /\ request[r].at = "read" /\ UNCHANGED <<customer, transaction>>
        /\ request'[r] = [request[r] EXCEPT !.at = "write", !.customer = customer]
        /\ \A q \in Requests \ {r} : request'[q] = request[q]
    BY <1>1, <1>11 DEF ReadCustomer, Request
  <2>2. /\ request'[r].at = "write" /\ request'[r].op = request[r].op /\ request'[r].id = request[r].id
        /\ request'[r].status = request[r].status /\ request'[r].customer = customer
        /\ request[r].id \in Requests
    BY <1>1, <2>1 DEF Request
  <2>3. Follows(r) /\ Follows(request[r].id) /\ Checked(r) /\ Flying(request, r) /\ Reading(request, r)
    BY <1>3, <2>1, <2>2 DEF Follows, Flying, Reading
  <2>4. Follows(r)' BY <2>1, <2>2, <2>3 DEF Follows, Checked, Reading, TopUp, Open
  <2>5. PICK t \in Requests : t = request[r].id BY <2>2
  <2>6. TopUp(t)' => transaction'[t].status \in OfTopUp
    BY <2>1, <2>3, <2>5 DEF Follows, TopUp
  <2> QED BY <1>3, <2>1, <2>2, <2>3, <2>4, <2>5, <2>6, FlightUnmet
<1>12. ASSUME NEW r \in Requests, WriteCustomer(r) PROVE Unmet'
  <2> DEFINE at == IF request[r].op = "withdraw" THEN "create" ELSE "save"
  <2>1. /\ request[r].at = "write" /\ UNCHANGED transaction
        /\ request'[r] = [request[r] EXCEPT !.at = at]
        /\ \A q \in Requests \ {r} : request'[q] = request[q]
    BY <1>1, <1>12 DEF WriteCustomer, Request
  <2>2. /\ request'[r].at = at /\ request'[r].op = request[r].op /\ request'[r].id = request[r].id
        /\ request'[r].status = request[r].status
        /\ request[r].id \in Requests
    BY <1>1, <2>1 DEF Request
  <2>3. /\ Follows(r) /\ Follows(request[r].id) /\ Checked(r) /\ Flying(request, r)
        /\ ~Reading(request', r)
    BY <1>3, <2>1, <2>2 DEF Follows, Flying, Reading
  <2>4. Follows(r)'
    BY <2>1, <2>2, <2>3 DEF Follows, Checked, Reading, TopUp, OfTopUp, Open, Absent
  <2>5. PICK t \in Requests : t = request[r].id BY <2>2
  <2>6. TopUp(t)' => transaction'[t].status \in OfTopUp
    BY <2>1, <2>3, <2>5 DEF Follows, TopUp
  <2> QED BY <1>3, <2>1, <2>2, <2>3, <2>4, <2>5, <2>6, FlightUnmet
<1>13. ASSUME NEW r \in Requests, CreateWithdrawal(r) PROVE Unmet'
  <2>1. /\ request[r].at = "create" /\ UNCHANGED customer
        /\ request'[r] = [request[r] EXCEPT !.at = "over"]
        /\ \A q \in Requests \ {r} : request'[q] = request[q]
        /\ transaction'[r] = [type_transfer |-> "withdraw_affiliate", status |-> request[r].status]
        /\ \A u \in Requests \ {r} : transaction'[u] = transaction[u]
    BY <1>1, <1>13 DEF CreateWithdrawal, Request
  <2>2. request'[r].at = "over" /\ request'[r].id = request[r].id BY <1>1, <2>1 DEF Request
  <2>3. request[r].id = r /\ Flying(request, r) /\ ~Reading(request', r) /\ ~TopUp(r)'
    BY <1>3, <2>1, <2>2 DEF Follows, Flying, Reading, TopUp
  <2>4. Follows(r)' BY <2>2, <2>3 DEF Follows, Reading
  <2> QED BY <1>3, <2>1, <2>2, <2>3, <2>4, FlightUnmet
<1>14. ASSUME NEW r \in Requests, SaveTransaction(r) PROVE Unmet'
  <2>1. PICK t \in Requests : t = request[r].id BY <1>1 DEF Request
  <2>2. /\ request[r].at = "save" /\ UNCHANGED customer
        /\ request'[r] = [request[r] EXCEPT !.at = "over"]
        /\ \A q \in Requests \ {r} : request'[q] = request[q]
    BY <1>1, <1>14 DEF SaveTransaction
  <2>3. /\ transaction'[t] = [transaction[t] EXCEPT !.status = request[r].status]
        /\ \A u \in Requests \ {t} : transaction'[u] = transaction[u]
    BY <1>1, <1>14, <2>1 DEF SaveTransaction
  <2>4. request'[r].at = "over" /\ request'[r].id = t BY <1>1, <2>1, <2>2 DEF Request
  <2>5. /\ transaction'[t].type_transfer = transaction[t].type_transfer
        /\ transaction'[t].status = request[r].status
    BY <1>1, <2>3 DEF Transaction
  <2>6. /\ Follows(r) /\ transaction[t] # Absent /\ (TopUp(t) => request[r].status \in OfTopUp)
        /\ Flying(request, r) /\ ~Reading(request', r)
    BY <1>3, <2>1, <2>2, <2>4 DEF Follows, Flying, Reading
  <2>7. TopUp(t)' => transaction'[t].status \in OfTopUp BY <2>5, <2>6 DEF TopUp
  <2>8. Follows(r)'
    <3>1. TopUp(r)' => transaction'[r].status \in OfTopUp BY <2>3, <2>6, <2>7 DEF Follows, TopUp
    <3> QED BY <2>4, <3>1 DEF Follows, Reading
  <2> QED BY <1>3, <2>1, <2>2, <2>3, <2>4, <2>6, <2>7, <2>8, FlightUnmet
<1>15. ASSUME UNCHANGED vars PROVE Unmet'
  BY <1>3, <1>15 DEF vars, Unmet, Apart, Flying, Reading, Follows, Checked, TopUp, Open
<1> QED
  BY <1>2, <1>3, <1>6, <1>7, <1>8, <1>9, <1>10, <1>11, <1>12, <1>13, <1>14, <1>15 DEF Next

-----------------------------------------------------------------------------
(* What the books say before and after a step of r, which is about t.      *)
LEMMA BooksStep ==
    ASSUME TypeOK, TypeOK', Unmet, Unmet', NEW r \in Requests, NEW t \in Requests,
           Flying(request, r) => request[r].id = t, Flying(request', r) => request'[r].id = t,
           \A q \in Requests \ {r} : request'[q] = request[q],
           \A u \in Requests \ {t} : transaction'[u] = transaction[u]
    PROVE  Booked' = [Booked EXCEPT ![t] = Booked'[t]]
<1> DEFINE tr2 == transaction'
           rq2 == request'
<1>1. /\ transaction \in [Requests -> Transaction] /\ request \in [Requests -> Request]
      /\ tr2 \in [Requests -> Transaction] /\ rq2 \in [Requests -> Request]
  BY DEF TypeOK, Transaction, Request
<1>2. /\ Apart(request) /\ \A q \in Requests : request[q].at = "create" => request[q].id = q
      /\ Apart(rq2) /\ \A q \in Requests : rq2[q].at = "create" => rq2[q].id = q
  BY DEF Unmet, Follows
<1>3. Flying(rq2, r) => rq2[r].id = t OBVIOUS
<1>4. \A q \in Requests \ {r} : rq2[q] = request[q] OBVIOUS
<1>5. \A u \in Requests \ {t} : tr2[u] = transaction[u] OBVIOUS
<1>6. Booked = BookedOf(transaction, request) /\ Booked' = BookedOf(tr2, rq2)
  BY DEF Booked, BookedOf
<1> HIDE DEF tr2, rq2
<1>7. BookedOf(tr2, rq2) = [BookedOf(transaction, request) EXCEPT ![t] = BookedOf(tr2, rq2)[t]]
  BY <1>1, <1>2, <1>3, <1>4, <1>5, BookedMove
<1> QED BY <1>6, <1>7

LEMMA BooksHeld ==
    ASSUME TypeOK, Unmet, NEW r \in Requests, NEW t \in Requests, Flying(request, r), request[r].id = t
    PROVE  Booked[t] =
              IF request[r].at = "create"
              THEN [type_transfer |-> "withdraw_affiliate", status |-> request[r].status]
              ELSE IF request[r].at = "save" THEN [transaction[t] EXCEPT !.status = request[r].status]
              ELSE transaction[t]
<1>1. transaction \in [Requests -> Transaction] /\ request \in [Requests -> Request]
  BY DEF TypeOK, Transaction, Request
<1>2. Apart(request) /\ \A q \in Requests : request[q].at = "create" => request[q].id = q
  BY DEF Unmet, Follows
<1> QED BY <1>1, <1>2, BookedHeld, BookedNow

LEMMA BooksHeldNext ==
    ASSUME TypeOK', Unmet', NEW r \in Requests, NEW t \in Requests, Flying(request', r), request'[r].id = t
    PROVE  Booked'[t] =
              IF request'[r].at = "create"
              THEN [type_transfer |-> "withdraw_affiliate", status |-> request'[r].status]
              ELSE IF request'[r].at = "save" THEN [transaction'[t] EXCEPT !.status = request'[r].status]
              ELSE transaction'[t]
<1> DEFINE tr2 == transaction'
           rq2 == request'
<1>1. tr2 \in [Requests -> Transaction] /\ rq2 \in [Requests -> Request]
  BY DEF TypeOK, Transaction, Request
<1>2. Apart(rq2) /\ \A q \in Requests : rq2[q].at = "create" => rq2[q].id = q
  BY DEF Unmet, Follows
<1>3. Flying(rq2, r) /\ rq2[r].id = t OBVIOUS
<1>4. Booked' = BookedOf(tr2, rq2) BY DEF Booked, BookedOf
<1> HIDE DEF tr2, rq2
<1>5. BookedOf(tr2, rq2)[t] =
              IF rq2[r].at = "create" THEN [type_transfer |-> "withdraw_affiliate", status |-> rq2[r].status]
              ELSE IF rq2[r].at = "save" THEN [tr2[t] EXCEPT !.status = rq2[r].status] ELSE tr2[t]
  BY <1>1, <1>2, <1>3, BookedHeld
<1> QED BY <1>4, <1>5 DEF tr2, rq2

LEMMA BooksFree ==
    ASSUME TypeOK, Unmet, NEW t \in Requests,
           \A q \in Requests : Flying(request, q) => request[q].id # t
    PROVE  Booked[t] = transaction[t]
<1>1. \A q \in Requests : request[q].at = "create" => request[q].id = q BY DEF Unmet, Follows
<1> QED BY <1>1, BookedFree, BookedNow

LEMMA BooksFreeNext ==
    ASSUME TypeOK', Unmet', NEW t \in Requests,
           \A q \in Requests : Flying(request', q) => request'[q].id # t
    PROVE  Booked'[t] = transaction'[t]
<1> DEFINE tr2 == transaction'
           rq2 == request'
<1>1. \A q \in Requests : rq2[q].at = "create" => rq2[q].id = q BY DEF Unmet, Follows
<1>2. \A q \in Requests : Flying(rq2, q) => rq2[q].id # t OBVIOUS
<1>3. Booked' = BookedOf(tr2, rq2) BY DEF Booked, BookedOf
<1> HIDE DEF tr2, rq2
<1>4. BookedOf(tr2, rq2)[t] = tr2[t] BY <1>1, <1>2, BookedFree
<1> QED BY <1>3, <1>4 DEF tr2, rq2

LEMMA BooksShape == Booked = [t \in Requests |-> Booked[t]]
  BY DEF Booked

-----------------------------------------------------------------------------
(* Every step is one of CustomerAccount or leaves the account alone.       *)
LEMMA StepImplements ==
    ASSUME TypeOK, TypeOK', Unmet, Unmet', [Next]_vars, ~crossed'
    PROVE  [Account!Next]_(Account!vars)
<1>1. Apart(request) /\ \A r \in Requests : Follows(r) BY DEF Unmet
<1>2. /\ transaction \in [Requests -> Transaction] /\ transaction' \in [Requests -> Transaction]
      /\ request \in [Requests -> Request] /\ request' \in [Requests -> Request]
      /\ customer \in Customer
  BY DEF TypeOK, Transaction, Request
<1> DEFINE Stutter == UNCHANGED Account!vars
<1>3. ASSUME NEW t \in Requests, Booked' = [Booked EXCEPT ![t] = Booked'[t]], Booked'[t] = Booked[t],
             UNCHANGED customer
      PROVE  Stutter
  <2>1. Booked' = Booked BY <1>3, BooksShape
  <2> QED BY <1>3, <2>1 DEF Account!vars
(* A request that begins: the books were what is saved.                    *)
<1>4. ASSUME NEW r \in Requests, Begins(r), NEW at \in {"read", "save"}, NEW op,
             NEW t \in Requests, NEW status, Goes(r, at, op, t, status),
             \A u \in Requests \ {t} : transaction'[u] = transaction[u]
      PROVE  /\ Booked[t] = transaction[t]
             /\ at = "read" => Booked'[t] = transaction'[t]
             /\ at = "save" => Booked'[t] = [transaction'[t] EXCEPT !.status = status]
             /\ Booked' = [Booked EXCEPT ![t] = Booked'[t]]
  <2>1. /\ request'[r] = [request[r] EXCEPT !.at = at, !.op = op, !.id = t, !.status = status]
        /\ \A q \in Requests \ {r} : request'[q] = request[q]
    BY <1>2, <1>4 DEF Goes
  <2>2. request'[r].at = at /\ request'[r].id = t /\ request'[r].status = status
    BY <1>2, <2>1 DEF Request
  <2>3. Flying(request', r) /\ ~Flying(request, r) BY <1>4, <2>2 DEF Begins, Flying
  <2>4. \A q \in Requests : Flying(request, q) => request[q].id # t BY <1>4, Alone
  <2>5. Booked[t] = transaction[t] BY <2>4, BooksFree
  <2>6. Booked'[t] = IF request'[r].at = "create"
                     THEN [type_transfer |-> "withdraw_affiliate", status |-> request'[r].status]
                     ELSE IF request'[r].at = "save" THEN [transaction'[t] EXCEPT !.status = request'[r].status]
                     ELSE transaction'[t]
    BY <2>2, <2>3, BooksHeldNext
  <2>7. Booked' = [Booked EXCEPT ![t] = Booked'[t]]
    BY <1>4, <2>1, <2>2, <2>3, BooksStep
  <2> QED BY <2>2, <2>5, <2>6, <2>7
<1>5. ASSUME NEW r \in Requests, CreateTopUp(r) PROVE Account!CreateTopUp(r)
  <2> DEFINE new == [type_transfer |-> "top_up", status |-> "processing"]
  <2>1. /\ Begins(r) /\ Goes(r, "save", "top_up", r, "processing") /\ UNCHANGED customer
        /\ transaction'[r] = new
        /\ \A u \in Requests \ {r} : transaction'[u] = transaction[u]
    BY <1>2, <1>5 DEF CreateTopUp
  <2>2. transaction[r] = Absent BY <1>1, <2>1 DEF Begins, Follows
  <2>3. [new EXCEPT !.status = "processing"] = new OBVIOUS
  <2> HIDE DEF new
  <2>4. Booked[r] = Absent /\ Booked'[r] = new /\ Booked' = [Booked EXCEPT ![r] = Booked'[r]]
    BY <1>4, <2>1, <2>2, <2>3
  <2> QED BY <2>1, <2>4 DEF Account!CreateTopUp, Account!Absent, Absent, new
<1>6. ASSUME NEW r \in Requests, RequestWithdrawal(r) PROVE Stutter
  <2>1. /\ Begins(r) /\ Goes(r, "read", "withdraw", r, "pending") /\ UNCHANGED <<customer, transaction>>
    BY <1>6 DEF RequestWithdrawal
  <2>2. Booked'[r] = Booked[r] /\ Booked' = [Booked EXCEPT ![r] = Booked'[r]] BY <1>4, <2>1
  <2> HIDE DEF Stutter
  <2> QED BY <1>3, <2>1, <2>2
<1>7. ASSUME NEW r \in Requests, NEW t \in Requests, Verify(r, t) PROVE Stutter
  <2>1. /\ Begins(r) /\ Goes(r, "read", "verify", t, "done") /\ UNCHANGED <<customer, transaction>>
    BY <1>7 DEF Verify
  <2>2. Booked'[t] = Booked[t] /\ Booked' = [Booked EXCEPT ![t] = Booked'[t]] BY <1>4, <2>1
  <2> HIDE DEF Stutter
  <2> QED BY <1>3, <2>1, <2>2
<1>8. ASSUME NEW r \in Requests, NEW t \in Requests, Cancel(r, t) PROVE Account!Cancel(t) \/ Stutter
  <2> DEFINE at == IF transaction[t].type_transfer = "withdraw_affiliate" THEN "read" ELSE "save"
  <2>1. /\ Begins(r) /\ Open(t) /\ Goes(r, at, "cancel", t, "cancel")
        /\ UNCHANGED <<customer, transaction>>
    BY <1>8 DEF Cancel
  <2>2. CASE transaction[t].type_transfer = "withdraw_affiliate"
    <3>1. Goes(r, "read", "cancel", t, "cancel") BY <2>1, <2>2
    <3>2. Booked'[t] = Booked[t] /\ Booked' = [Booked EXCEPT ![t] = Booked'[t]] BY <1>4, <2>1, <3>1
    <3> HIDE DEF Stutter
    <3> QED BY <1>3, <2>1, <3>2
  <2>3. CASE transaction[t].type_transfer # "withdraw_affiliate"
    <3>1. Goes(r, "save", "cancel", t, "cancel") BY <2>1, <2>3
    <3>2. /\ Booked[t] = transaction[t] /\ Booked'[t] = [transaction[t] EXCEPT !.status = "cancel"]
          /\ Booked' = [Booked EXCEPT ![t] = Booked'[t]]
      BY <1>4, <2>1, <3>1
    <3>3. Booked' = [Booked EXCEPT ![t].status = "cancel"] BY <3>2
    <3> QED BY <2>1, <2>3, <3>2, <3>3 DEF Open, Account!Cancel, Account!Open
  <2> QED BY <2>2, <2>3
<1>9. ASSUME NEW r \in Requests, NEW t \in Requests, NoticeFailure(r, t) PROVE Account!Fail(t) \/ Stutter
  <2>1. PICK status \in {"fail", transaction[t].status} : Goes(r, "save", "notice", t, status)
    BY <1>9 DEF NoticeFailure
  <2>2. Begins(r) /\ TopUp(t) /\ UNCHANGED <<customer, transaction>> BY <1>9 DEF NoticeFailure, TopUp
  <2>3. transaction[t].status \in {"processing", "fail"}
    BY <1>1, <2>1, <2>2, Alone DEF Follows, OfTopUp
  <2>4. /\ Booked[t] = transaction[t] /\ Booked'[t] = [transaction[t] EXCEPT !.status = status]
        /\ Booked' = [Booked EXCEPT ![t] = Booked'[t]]
    BY <1>4, <2>1, <2>2
  <2>5. CASE status = transaction[t].status
    <3>1. [transaction[t] EXCEPT !.status = transaction[t].status] = transaction[t]
      BY <1>2 DEF Transaction
    <3>2. Booked'[t] = Booked[t] BY <2>4, <2>5, <3>1
    <3> HIDE DEF Stutter
    <3> QED BY <1>3, <2>2, <2>4, <3>2
  <2>6. CASE status # transaction[t].status
    <3>1. status = "fail" /\ transaction[t].status = "processing" BY <2>1, <2>3, <2>6
    <3>2. transaction[t] = [type_transfer |-> "top_up", status |-> "processing"]
      BY <1>2, <2>2, <3>1 DEF TopUp, Transaction
    <3>3. Booked' = [Booked EXCEPT ![t].status = "fail"] BY <2>4, <3>1
    <3> QED BY <2>2, <2>4, <3>2, <3>3 DEF Account!Fail
  <2> QED BY <2>5, <2>6
(* A request past its write of the customer counts as if saved.            *)
<1>10. ASSUME NEW r \in Requests, ReadCustomer(r) PROVE Stutter
  <2>1. /\ request[r].at = "read" /\ UNCHANGED <<customer, transaction>>
        /\ request'[r] = [request[r] EXCEPT !.at = "write", !.customer = customer]
        /\ \A q \in Requests \ {r} : request'[q] = request[q]
    BY <1>2, <1>10 DEF ReadCustomer, Request
  <2>2. PICK t \in Requests : t = request[r].id BY <1>2 DEF Request
  <2>3. request'[r].at = "write" /\ request'[r].id = t BY <1>2, <2>1, <2>2 DEF Request
  <2>4. Flying(request, r) /\ Flying(request', r) BY <2>1, <2>3 DEF Flying
  <2>5. Booked[t] = transaction[t] BY <2>1, <2>2, <2>4, BooksHeld
  <2>6. Booked'[t] = transaction'[t] BY <2>3, <2>4, BooksHeldNext
  <2>7. Booked' = [Booked EXCEPT ![t] = Booked'[t]] BY <2>1, <2>2, <2>3, BooksStep
  <2> HIDE DEF Stutter
  <2> QED BY <1>3, <2>1, <2>5, <2>6, <2>7
<1>11. ASSUME NEW r \in Requests, CreateWithdrawal(r) PROVE Stutter
  <2> DEFINE new == [type_transfer |-> "withdraw_affiliate", status |-> request[r].status]
  <2>1. /\ request[r].at = "create" /\ UNCHANGED customer
        /\ request'[r] = [request[r] EXCEPT !.at = "over"]
        /\ \A q \in Requests \ {r} : request'[q] = request[q]
        /\ transaction'[r] = new
        /\ \A u \in Requests \ {r} : transaction'[u] = transaction[u]
    BY <1>2, <1>11 DEF CreateWithdrawal, Request
  <2>2. request'[r].at = "over" BY <1>2, <2>1 DEF Request
  <2>3. request[r].id = r /\ Flying(request, r) /\ ~Flying(request', r)
    BY <1>1, <2>1, <2>2 DEF Follows, Flying
  <2>4. Booked[r] = new BY <2>1, <2>3, BooksHeld
  <2> HIDE DEF new
  <2>5. \A q \in Requests : Flying(request', q) => request'[q].id # r
    BY <1>1, <2>1, <2>3 DEF Apart, Flying
  <2>6. Booked'[r] = new BY <2>1, <2>5, BooksFreeNext
  <2>7. Booked' = [Booked EXCEPT ![r] = Booked'[r]] BY <2>1, <2>3, BooksStep
  <2> HIDE DEF Stutter
  <2> QED BY <1>3, <2>1, <2>4, <2>6, <2>7
<1>12. ASSUME NEW r \in Requests, SaveTransaction(r) PROVE Stutter
  <2>1. PICK t \in Requests : t = request[r].id BY <1>2 DEF Request
  <2>2. /\ request[r].at = "save" /\ UNCHANGED customer
        /\ request'[r] = [request[r] EXCEPT !.at = "over"]
        /\ \A q \in Requests \ {r} : request'[q] = request[q]
        /\ transaction'[t] = [transaction[t] EXCEPT !.status = request[r].status]
        /\ \A u \in Requests \ {t} : transaction'[u] = transaction[u]
    BY <1>2, <1>12, <2>1 DEF SaveTransaction, Request
  <2>3. request'[r].at = "over" BY <1>2, <2>2 DEF Request
  <2>4. Flying(request, r) /\ ~Flying(request', r) BY <2>2, <2>3 DEF Flying
  <2>5. Booked[t] = transaction'[t] BY <2>1, <2>2, <2>4, BooksHeld
  <2>6. \A q \in Requests : Flying(request', q) => request'[q].id # t
    BY <1>1, <2>1, <2>2, <2>4 DEF Apart, Flying
  <2>7. Booked'[t] = transaction'[t] BY <2>6, BooksFreeNext
  <2>8. Booked' = [Booked EXCEPT ![t] = Booked'[t]] BY <2>1, <2>2, <2>4, BooksStep
  <2> HIDE DEF Stutter
  <2> QED BY <1>3, <2>2, <2>5, <2>7, <2>8
<1>13. ASSUME NEW r \in Requests, WriteCustomer(r)
       PROVE  \E t \in Requests : \/ Account!RequestWithdrawal(t)
                                  \/ Account!Verify(t) \/ Account!Cancel(t)
  <2> DEFINE op == request[r].op
  <2>1. PICK t \in Requests : t = request[r].id BY <1>2 DEF Request
  <2>2. /\ request[r].at = "write" /\ Checked(r) /\ request[r].customer = customer
        /\ transaction' = transaction
    BY <1>1, <1>13 DEF WriteCustomer, Follows, Reading
  <2>3. /\ request'[r].at = IF op = "withdraw" THEN "create" ELSE "save"
        /\ request'[r].id = t /\ request'[r].status = request[r].status
        /\ \A q \in Requests \ {r} : request'[q] = request[q]
    BY <1>2, <1>13, <2>1 DEF WriteCustomer, Request
  <2>4. /\ customer'.a_pay = IF op = "withdraw" THEN customer.a_pay - Money
                             ELSE IF op = "cancel" THEN customer.a_pay + Money ELSE customer.a_pay
        /\ customer'.pay_point = IF op = "verify" /\ transaction[t].type_transfer = "top_up"
                                 THEN customer.pay_point + Money ELSE customer.pay_point
    BY <1>2, <1>13, <2>1, <2>2, PostedType DEF WriteCustomer
  <2>5. Flying(request, r) /\ Flying(request', r) BY <2>2, <2>3 DEF Flying
  <2>6. Booked[t] = transaction[t] BY <2>1, <2>2, <2>5, BooksHeld
  <2>7. Booked'[t] = IF request'[r].at = "create"
                     THEN [type_transfer |-> "withdraw_affiliate", status |-> request'[r].status]
                     ELSE IF request'[r].at = "save" THEN [transaction'[t] EXCEPT !.status = request'[r].status]
                     ELSE transaction'[t]
    BY <2>3, <2>5, BooksHeldNext
  <2>8. Booked' = [Booked EXCEPT ![t] = Booked'[t]] BY <2>1, <2>2, <2>3, BooksStep
  <2>9. CASE op = "withdraw"
    <3>1. /\ t = r /\ request[r].status = "pending" /\ transaction[r] = Absent
          /\ customer.a_pay >= Minimum /\ customer.a_pay >= Money
      BY <2>1, <2>2, <2>9 DEF Checked
    <3>2. Booked'[r] = [type_transfer |-> "withdraw_affiliate", status |-> "pending"]
      BY <2>3, <2>7, <2>9, <3>1
    <3>3. customer'.a_pay = customer.a_pay - Money /\ customer'.pay_point = customer.pay_point
      BY <2>4, <2>9
    <3>4. Account!RequestWithdrawal(r)
      BY <2>6, <2>8, <3>1, <3>2, <3>3 DEF Account!RequestWithdrawal, Account!Absent, Absent
    <3> QED BY <3>4
  <2>10. CASE op # "withdraw"
    <3>1. Booked'[t] = [Booked[t] EXCEPT !.status = request[r].status]
      BY <2>2, <2>3, <2>6, <2>7, <2>10
    <3>2. Booked' = [Booked EXCEPT ![t].status = request[r].status] BY <2>8, <3>1
    <3>3. CASE op = "verify"
      BY <2>1, <2>2, <2>4, <2>6, <3>2, <3>3 DEF Checked, Open, Account!Verify, Account!Open
    <3>4. CASE op = "cancel"
      BY <2>1, <2>2, <2>4, <2>6, <3>2, <3>4 DEF Checked, Open, Account!Cancel, Account!Open
    <3> QED BY <2>2, <2>10, <3>3, <3>4 DEF Checked
  <2> QED BY <2>9, <2>10
<1>14. CASE UNCHANGED vars
  <2>1. Booked' = Booked BY <1>14 DEF vars, Booked
  <2> QED BY <1>14, <2>1 DEF vars, Account!vars
<1> QED
  BY <1>5, <1>6, <1>7, <1>8, <1>9, <1>10, <1>11, <1>12, <1>13, <1>14 DEF Next, Account!Next

-----------------------------------------------------------------------------
Together == MoneyInv /\ (~crossed => Unmet)

LEMMA StepTogether ==
    ASSUME Together, [Next]_vars
    PROVE  Together' /\ (~crossed' => ~crossed /\ [Account!Next]_(Account!vars))
<1>1. MoneyInv' BY StepMoney DEF Together
<1>2. TypeOK /\ TypeOK' /\ (~crossed => Unmet) BY <1>1 DEF Together, MoneyInv
<1>3. ASSUME ~crossed' PROVE ~crossed /\ Unmet' /\ [Account!Next]_(Account!vars)
  <2>1. ~crossed /\ Unmet /\ Unmet' BY <1>2, <1>3, StepUnmet
  <2>2. [Account!Next]_(Account!vars) BY <1>2, <1>3, <2>1, StepImplements
  <2> QED BY <2>1, <2>2
<1> QED BY <1>1, <1>3 DEF Together

LEMMA InitTogether == Init => Together
  BY MoneyInit, InitUnmet DEF Together

LEMMA InitAccount == Init => Account!Init
<1> SUFFICES ASSUME Init PROVE Account!Init
  OBVIOUS
<1>1. Booked = transaction
  BY BookedNow DEF BookedOf, Init
<1> QED BY <1>1 DEF Init, Absent, Account!Init, Account!Absent

(* However many requests of TS and PS are under way and however their      *)
(* awaits interleave, they do what CustomerAccount says, each operation in *)
(* one step, until two requests meet on one transaction or between reading *)
(* and writing the customer, or a notice comes too late.                   *)
THEOREM HandlersKeepAccount == Spec => AccountSpec
<1>1. Together /\ [Next]_vars => Together' /\ [Account!Next \/ crossed']_(Account!vars)
  BY StepTogether
<1> QED BY <1>1, InitTogether, InitAccount, PTL DEF Spec, AccountSpec

Proofs == INSTANCE CustomerAccountProofs WITH
    Ids <- Requests, a_pay <- customer.a_pay, pay_point <- customer.pay_point, entry <- Booked

(* Hence the books of TS.calculateTransaction balance until then, for any  *)
(* number of requests under way: what BooksBalance says of an account      *)
(* holds of the documents the handlers write.                              *)
THEOREM HandlersBalance == Spec => []AccountBalanced
<1> DEFINE BooksInv == ~crossed => Proofs!IInv
<1>1. Proofs!AccountConstants
  BY TransactionsAssumption DEF Proofs!AccountConstants, Proofs!IsFiniteSet, IsFiniteSet
<1>2. Init => BooksInv
  <2>1. Account!Init => Proofs!Init
    BY DEF Account!Init, Proofs!Init, Account!Absent, Proofs!Absent
  <2>2. Proofs!Init => Proofs!IInv BY <1>1, Proofs!InitInv
  <2> QED BY <2>1, <2>2, InitAccount
<1>3. Together /\ BooksInv /\ [Next]_vars => Together' /\ BooksInv'
  <2> SUFFICES ASSUME Together, BooksInv, [Next]_vars PROVE Together' /\ BooksInv'
    OBVIOUS
  <2>1. Together' /\ (~crossed' => ~crossed /\ [Account!Next]_(Account!vars)) BY StepTogether
  <2>2. [Account!Next]_(Account!vars) => [Proofs!Next]_(Proofs!vars)
    BY DEF Account!vars, Proofs!vars, Account!Next, Proofs!Next, Account!Absent, Proofs!Absent,
           Account!Open, Proofs!Open, Account!CreateTopUp, Proofs!CreateTopUp,
           Account!RequestWithdrawal, Proofs!RequestWithdrawal, Account!Verify, Proofs!Verify,
           Account!Cancel, Proofs!Cancel, Account!Fail, Proofs!Fail
  <2>3. Proofs!IInv /\ [Proofs!Next]_(Proofs!vars) => Proofs!IInv' BY <1>1, Proofs!StepInv
  <2> QED BY <2>1, <2>2, <2>3
<1>4. BooksInv => AccountBalanced
  <2>1. \A S : Proofs!Cardinality(S) = Account!Cardinality(S)
    BY DEF Proofs!Cardinality, Account!Cardinality
  <2> QED BY <2>1 DEF Proofs!IInv, AccountBalanced, Proofs!Balanced, Account!Balanced,
                     Proofs!Taken, Account!Taken, Proofs!Credited, Account!Credited
<1> HIDE DEF BooksInv
<1> QED BY <1>2, <1>3, <1>4, InitTogether, PTL DEF Spec
=============================================================================
