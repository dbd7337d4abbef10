------------------------------- MODULE Ordering -------------------------------
(***************************************************************************)
(* Group orders are created.  JS.createGroupOrder opened up at its awaits, *)
(* for several requests that share a promotion code, a promotion event,    *)
(* the ordinal numbers of a city and the pay points of their customers,    *)
(* beside one CU.addPayPoint (a refund or a top-up) for a customer.        *)
(*                                                                         *)
(* An order costs one point and discounts are left out (see Pricing). The  *)
(* two promotions are the documents the handler may write; both are        *)
(* limited in number and per customer (is_limit_count, is_limited_use).    *)
(***************************************************************************)
EXTENDS Integers, FiniteSets, FiniteSetsExt

CONSTANTS
    Requests,        \* requests to create a group order
    AddPoints,       \* the request that adds a pay point
    Receiver,        \* for this customer
    Customers,
    Payloads,        \* what the requests may ask for: functions from Requests to
                     \* [customer, dates, method, code, assign]
    Balance,         \* pay points of every customer at first
    LimitCount,      \* limit_count of both promotions
    LimitedUse,      \* limited_use of both
    AtOnce           \* bound: requests under way at a time

Methods == {"cash", "point", "online"}
Days == {"ordinary", "last", "next"}    \* a day of the year, its last, one of the next year

ASSUME OrderingAssumption ==
    /\ IsFiniteSet(Requests) /\ AddPoints \notin Requests /\ Receiver \in Customers
    /\ Payloads \subseteq [Requests ->
           [customer : Customers, dates : Nat \ {0}, method : Methods,
            code : BOOLEAN,       \* with the code, or with none
            assign : BOOLEAN]]    \* for a collaborator of the admin's choice
    /\ Balance \in Nat /\ LimitCount \in Nat \ {0} /\ LimitedUse \in Nat /\ AtOnce \in Nat

VARIABLES
    code, event,     \* the promotions: total_used_promotion, is_enough_limit_used
    points,          \* pay_point of every customer
    group,           \* the group order of every request, once created
    payload,         \* what each request asks for
    request,         \* per request: where it is, and what it has read
    adding,          \* the request that adds a point
    met,             \* per request: those under way at the same time
    day

documents == <<code, event, points, group>>
vars == <<documents, payload, request, adding, met, day>>

Unused == [used |-> 0, spent |-> FALSE]
Fresh == [at |-> "new", event |-> FALSE, number |-> 0, year |-> 0, copy |-> Unused, balance |-> 0]
NoGroup == [orders |-> -1]
Created == {r \in Requests : group[r] # NoGroup}

Resting == {"new", "refused", "failed", "served"}
Running == {r \in Requests : request[r].at \notin Resting}
             \cup (IF adding.at = "read" THEN {AddPoints} ELSE {})

Init ==
    /\ code = Unused
    /\ event = Unused
    /\ points = [c \in Customers |-> Balance]
    /\ group = [r \in Requests |-> NoGroup]
    /\ payload \in Payloads
    /\ request = [r \in Requests |-> Fresh]
    /\ adding = [at |-> "new", balance |-> 0]
    /\ met = [p \in Requests \cup {AddPoints} |-> {}]
    /\ day = "ordinary"

Meets(p) == met' = [q \in DOMAIN met |-> met[q] \cup (IF q = p THEN Running
                                                      ELSE IF q \in Running THEN {p} ELSE {})]

(* The request goes on at, or ends with, "at".                             *)
Goes(r, at) == request' = [request EXCEPT ![r].at = at]

Orders(S) == MapThenSumSet(LAMBDA r : group[r].orders, S \cap Created)

Of(c) == {r \in Requests : payload[r].customer = c}
WithCode == {r \in Created : payload[r].code}
WithEvent == {r \in Created : group[r].event}

-----------------------------------------------------------------------------
(* JS.calculateFeeGroupOrder, what it checks                               *)

Arrive(r) ==
    /\ request[r].at = "new"
    /\ Cardinality(Running) < AtOnce
    /\ Goes(r, IF payload[r].code THEN "arrived" ELSE "priced")
    /\ Meets(r)
    /\ UNCHANGED <<documents, payload, adding, day>>

(* PRO.calculateCodePromotion finds the code unless it is used up, and     *)
(* counts the orders, one for each date, the customer made with it.        *)
CodeOpen(c) == ~code.spent /\ LimitedUse > Orders(WithCode \cap Of(c))

FindCode(r) ==
    /\ request[r].at = "arrived"
    /\ Goes(r, IF CodeOpen(payload[r].customer) THEN "priced" ELSE "refused")
    /\ UNCHANGED <<documents, payload, adding, met, day>>

(* Mutant of EventOpen: the orders that had the event are not counted.     *)
EventOpenUncounted(c) ==
    /\ ~event.spent
    /\ ~(Orders(WithEvent \cap Of(c)) >= LimitedUse)

(* Mutant of EventOpen: the customer's orders are compared like all orders.*)
EventOpenLate(c) ==
    /\ ~event.spent
    /\ ~(Orders(WithEvent \cap Of(c)) > LimitedUse)
    /\ ~(Orders(WithEvent) > LimitCount)

(* PRO.calculateEventPromotion.  A parenthesis of the last test closes in  *)
(* the wrong place: it only asks for more orders than limit_count.         *)
EventOpen(c) ==
    /\ ~event.spent
    /\ ~(Orders(WithEvent \cap Of(c)) >= LimitedUse)
    /\ ~(Orders(WithEvent) > LimitCount)

TakeEvent(r) ==
    /\ request[r].at = "priced"
    /\ request' = [request EXCEPT ![r].event = EventOpen(payload[r].customer),
                                  ![r].at = IF payload[r].method = "point" THEN "payable" ELSE "checked"]
    /\ UNCHANGED <<documents, payload, adding, met, day>>

(* Mutant of CheckBalance: enough for the first order is enough.           *)
CheckBalanceFirst(r) ==
    /\ request[r].at = "payable"
    /\ Goes(r, IF points[payload[r].customer] < 1 THEN "refused" ELSE "checked")
    /\ UNCHANGED <<documents, payload, adding, met, day>>

(* CU.checkBalancePayPoint                                                 *)
CheckBalance(r) ==
    /\ request[r].at = "payable"
    /\ Goes(r, IF points[payload[r].customer] < payload[r].dates THEN "refused" ELSE "checked")
    /\ UNCHANGED <<documents, payload, adding, met, day>>

-----------------------------------------------------------------------------
(* GO.createItem                                                           *)

Year == IF day = "next" THEN 1 ELSE 0

(* Mutant of Numbered: groups that wait for a payment are not numbered.    *)
NumberedPlaced ==
    {r \in Created : /\ group[r].day = IF Year = 1 THEN "next" ELSE "ordinary"
                     /\ group[r].status # "processing"}

(* GO.generateIdView looks at the groups created this year before its last *)
(* day: the end of its range is excluded.                                  *)
Numbered == {r \in Created : group[r].day = IF Year = 1 THEN "next" ELSE "ordinary"}

ReadNumber(r) ==
    /\ request[r].at = "checked"
    /\ \E last \in {0} \cup {group[q].number : q \in Numbered} :
          /\ \A q \in Numbered : group[q].number <= last
          /\ request' = [request EXCEPT ![r].number = last + 1, ![r].year = Year, ![r].at = "numbered"]
    /\ UNCHANGED <<documents, payload, adding, met, day>>

CreateGroup(r) ==
    /\ request[r].at = "numbered"
    /\ group' = [group EXCEPT ![r] =
           [orders |-> 0, event |-> request[r].event, paid |-> FALSE, day |-> day,
            number |-> request[r].number, year |-> request[r].year,
            status |-> IF payload[r].method = "online" THEN "processing" ELSE "pending"]]
    /\ request' = [request EXCEPT ![r] = [Fresh EXCEPT !.at = "created"]]
    /\ UNCHANGED <<code, event, points, payload, adding, met, day>>

-----------------------------------------------------------------------------
(* The promotions are counted, the orders created.                         *)

(* PRO.increaseTotalUsedPromotionCode looks for a promotion by the code of *)
(* the request.  Without one it finds the event, whose code is null too.   *)
ReadPromotion(r) ==
    /\ request[r].at = "created"
    /\ request' = [request EXCEPT ![r].copy = IF payload[r].code THEN code ELSE event,
                                  ![r].at = "promotion"]
    /\ UNCHANGED <<documents, payload, adding, met, day>>

(* Mutant of OneMore: out of stock one use later.                          *)
OneMoreLate(promotion) ==
    [used |-> promotion.used + 1,
     spent |-> promotion.spent \/ promotion.used + 1 > LimitCount]

(* Mutant of OneMore: the use is taken back.                               *)
OneMoreLess(promotion) ==
    [used |-> promotion.used - 1,
     spent |-> promotion.spent \/ ~(promotion.used + 1 < LimitCount)]

OneMore(promotion) ==
    [used |-> promotion.used + 1,
     spent |-> promotion.spent \/ ~(promotion.used + 1 < LimitCount)]

(* The whole document is written back, over what others did meanwhile.     *)
WritePromotion(r) ==
    /\ request[r].at = "promotion"
    /\ IF payload[r].code
       THEN code' = OneMore(request[r].copy) /\ UNCHANGED event
       ELSE event' = OneMore(request[r].copy) /\ UNCHANGED code
    /\ request' = [request EXCEPT ![r] = [Fresh EXCEPT !.at = "counted"]]
    /\ UNCHANGED <<points, group, payload, adding, met, day>>

(* Mutant of CountEvent: $inc without looking whether the event was taken. *)
CountEventAlways(r) ==
    /\ request[r].at = "counted"
    /\ event' = [event EXCEPT !.used = @ + 1]
    /\ Goes(r, "ordered")
    /\ UNCHANGED <<code, points, group, payload, adding, met, day>>

(* PRO.increaseTotalUsedPromotionEvent, an $inc of its own                 *)
CountEvent(r) ==
    /\ request[r].at = "counted"
    /\ event' = [event EXCEPT !.used = @ + IF group[r].event THEN 1 ELSE 0]
    /\ Goes(r, "ordered")
    /\ UNCHANGED <<code, points, group, payload, adding, met, day>>

(* Paid, or not to be paid now: only an admin's order is assigned as well. *)
Settled(r) == IF payload[r].assign THEN "settled" ELSE "served"

(* OO.createOrderByGroupOrder inserts the orders together.                 *)
CreateOrders(r) ==
    /\ request[r].at = "ordered"
    /\ group' = [group EXCEPT ![r].orders = payload[r].dates]
    /\ Goes(r, IF payload[r].method = "cash" THEN Settled(r) ELSE payload[r].method)
    /\ UNCHANGED <<code, event, points, payload, adding, met, day>>

-----------------------------------------------------------------------------
(* The customer pays, and the order is assigned.                           *)

(* CU.redeemPayPoint reads the customer,                                   *)
PayReads(r) ==
    /\ request[r].at = "point"
    /\ request' = [request EXCEPT ![r].balance = points[payload[r].customer], ![r].at = "paying"]
    /\ UNCHANGED <<documents, payload, adding, met, day>>

(* has his balance checked, which reads him again,                         *)
PayChecks(r) ==
    /\ request[r].at = "paying"
    /\ Goes(r, IF points[payload[r].customer] < payload[r].dates THEN "failed" ELSE "balanced")
    /\ UNCHANGED <<documents, payload, adding, met, day>>

(* Mutant of PayWrites: the amount of the first order only.                *)
PayWritesOne(r) ==
    /\ request[r].at = "balanced"
    /\ points' = [points EXCEPT ![payload[r].customer] = request[r].balance - 1]
    /\ group' = [group EXCEPT ![r].paid = TRUE]
    /\ request' = [request EXCEPT ![r] = [Fresh EXCEPT !.at = Settled(r)]]
    /\ UNCHANGED <<code, event, payload, adding, met, day>>

(* and writes back what it read first.                                     *)
PayWrites(r) ==
    /\ request[r].at = "balanced"
    /\ points' = [points EXCEPT ![payload[r].customer] = request[r].balance - payload[r].dates]
    /\ group' = [group EXCEPT ![r].paid = TRUE]
    /\ request' = [request EXCEPT ![r] = [Fresh EXCEPT !.at = Settled(r)]]
    /\ UNCHANGED <<code, event, payload, adding, met, day>>

(* PS.payForOrderWithEWallet asks the gateway for a link, or fails.        *)
AskGateway(r) ==
    /\ request[r].at = "online"
    /\ \E at \in {Settled(r), "failed"} : Goes(r, at)
    /\ UNCHANGED <<documents, payload, adding, met, day>>

(* JS.pendingToConfirm on the order just created may throw.                *)
Assign(r) ==
    /\ request[r].at = "settled"
    /\ \/ /\ group[r].status = "pending"
          /\ group' = [group EXCEPT ![r].status = "confirm"]
          /\ Goes(r, "served")
       \/ Goes(r, "failed") /\ UNCHANGED group
    /\ UNCHANGED <<code, event, points, payload, adding, met, day>>

-----------------------------------------------------------------------------
(* Around it                                                               *)

(* CU.addPayPoint                                                          *)
AddReads ==
    /\ adding.at = "new"
    /\ Cardinality(Running) < AtOnce
    /\ adding' = [adding EXCEPT !.at = "read", !.balance = points[Receiver]]
    /\ Meets(AddPoints)
    /\ UNCHANGED <<documents, payload, request, day>>

AddWrites ==
    /\ adding.at = "read"
    /\ points' = [points EXCEPT ![Receiver] = adding.balance + 1]
    /\ adding' = [adding EXCEPT !.at = "over", !.balance = 0]
    /\ UNCHANGED <<code, event, group, payload, request, met, day>>

Tomorrow ==
    /\ day' = CASE day = "ordinary" -> "last" [] OTHER -> "next"
    /\ day # "next"
    /\ UNCHANGED <<documents, payload, request, adding, met>>

Step(r) ==
    \/ Arrive(r) \/ FindCode(r) \/ TakeEvent(r) \/ CheckBalance(r)
    \/ ReadNumber(r) \/ CreateGroup(r) \/ ReadPromotion(r) \/ WritePromotion(r)
    \/ CountEvent(r) \/ CreateOrders(r) \/ PayReads(r) \/ PayChecks(r) \/ PayWrites(r)
    \/ AskGateway(r) \/ Assign(r)

Next == (\E r \in Requests : Step(r)) \/ AddReads \/ AddWrites \/ Tomorrow

Spec == Init /\ [][Next]_vars
-----------------------------------------------------------------------------
(* Properties                                                              *)

Apart(S) == \A p, q \in S : q \notin met[p]

Paying(c) == {r \in Of(c) : payload[r].method = "point"}

Promotion == [used : Nat, spent : BOOLEAN]

GroupOrder == [orders : Nat, event : BOOLEAN, paid : BOOLEAN, day : Days, number : Nat, year : {0, 1},
               status : {"processing", "pending", "confirm"}]

(* Where a request is before its group order is created, and after.        *)
Before == {"new", "refused", "arrived", "priced", "payable", "checked", "numbered"}
After == {"created", "promotion", "counted", "ordered", "point", "paying", "balanced", "online",
          "settled", "served", "failed"}

(* Every document is of its type, and so is what the requests hold.        *)
TypeOK ==
    /\ code \in Promotion /\ event \in Promotion
    /\ points \in [Customers -> Int]
    /\ group \in [Requests -> {NoGroup} \cup GroupOrder]
    /\ payload \in Payloads
    /\ request \in [Requests -> [at : Before \cup After, event : BOOLEAN, number : Nat, year : {0, 1},
                                 copy : Promotion, balance : Int]]
    /\ \A r \in Requests : group[r] = NoGroup <=> request[r].at \in Before
    /\ adding \in [at : {"new", "read", "over"}, balance : Int]
    /\ met \in [Requests \cup {AddPoints} -> SUBSET (Requests \cup {AddPoints})]
    /\ day \in Days

(* limit_count of the code: beyond it go only requests that ran together,  *)
(* and not one more of them than there were.  An update lost by one of     *)
(* them (JS:1011 reads, adds and writes the document) costs one use.       *)
CodeWithinLimit ==
    LET together == {r \in Requests : /\ payload[r].code
                                      /\ \E q \in met[r] \ {AddPoints} : payload[q].code}
    IN  Cardinality(WithCode) <= LimitCount + Max({0, Cardinality(together) - 1})

(* limited_use: a customer who sends one request after the other creates   *)
(* no group order with a promotion that as many of his orders had already; *)
(* a group counts as many orders as it has dates (PRO:583, PRO:762).       *)
CustomerWithinLimit ==
    [][\A r \in Requests :
          LET his == Of(payload[r].customer) IN
          Created' = Created \cup {r} /\ r \notin Created /\ Apart(his) =>
              /\ payload[r].code => Orders(WithCode \cap his) < LimitedUse
              /\ group'[r].event => Orders(WithEvent \cap his) < LimitedUse]_vars

(* limit_count of the event, as the misplaced parenthesis of PRO:591 has   *)
(* it: when requests come one after the other, none takes the event once   *)
(* more than limit_count orders had it.                                    *)
EventWithinLimit ==
    [][\A r \in Requests :
          /\ Created' = Created \cup {r} /\ r \notin Created
          /\ Apart(Requests) /\ group'[r].event
          => Orders(WithEvent) <= LimitCount]_vars

(* Two group orders of a city have the same number in the same year only   *)
(* if they were created together, or when GO.generateIdView no longer sees *)
(* those of the last day.                                                  *)
NumbersUnique ==
    \A r, q \in Created :
        r # q /\ group[r].number = group[q].number /\ group[r].year = group[q].year
          => \/ q \in met[r]
             \/ group[r].year = 0 /\ "ordinary" \notin {group[r].day, group[q].day}

(* Those who write the pay points of a customer.                           *)
Writers(c) == Paying(c) \cup IF c = Receiver THEN {AddPoints} ELSE {}

(* A group order by points that is left open to the collaborators is paid  *)
(* for, unless the points of the customer were written by someone else     *)
(* meanwhile: they are checked again after the orders are created, and if  *)
(* that fails the orders stay (JS:1023).                                   *)
OpenIsPaid ==
    \A r \in Created :
        /\ payload[r].method = "point"
        /\ request[r].at \in Resting
        => group[r].paid \/ met[r] \cap Writers(payload[r].customer) # {}

(* The pay points of a customer are those he had, less what he paid, plus  *)
(* what was added, and not negative, if nobody wrote them at the same time.*)
PointsAccounted ==
    \A c \in Customers :
        LET paid == MapThenSumSet(LAMBDA r : payload[r].dates, {r \in Created \cap Of(c) : group[r].paid})
        IN  Apart(Writers(c)) =>
                /\ points[c] = Balance - paid + IF c = Receiver /\ adding.at = "over" THEN 1 ELSE 0
                /\ points[c] >= 0

(* When requests come one after the other, the promotions count what they  *)
(* were used for (JS:1010-1014): the code its group orders, and it is out  *)
(* of stock when its limit is reached and not before; the event its own    *)
(* group orders, as long as each of them came with a code: one without a   *)
(* code is counted on the event too, wrongly (PRO:849, see ReadPromotion). *)
PromotionsCounted ==
    Apart(Requests) /\ Running \subseteq {AddPoints} =>
        /\ code.used = Cardinality(WithCode)
        /\ Created = WithCode => event.used = Cardinality(WithEvent)
        /\ code.spent = (code.used >= LimitCount)
=============================================================================
