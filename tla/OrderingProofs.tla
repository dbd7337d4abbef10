---------------------------- MODULE OrderingProofs ----------------------------
(***************************************************************************)
(* What is so of the creation of group orders for any number of requests,  *)
(* of customers and whatever they ask for.                                 *)
(***************************************************************************)
EXTENDS Ordering, FiniteSetTheorems, TLAPS

RequestState == [at : Before \cup After, event : BOOLEAN, number : Nat, year : {0, 1},
                 copy : Promotion, balance : Int]
Procs == Requests \cup {AddPoints}

-----------------------------------------------------------------------------
(* A request's state after some of its fields were set.                    *)
LEMMA RequestUpdate ==
    ASSUME request \in [Requests -> RequestState], NEW r \in Requests, NEW s \in RequestState,
           request' = [request EXCEPT ![r] = s]
    PROVE  /\ request' \in [Requests -> RequestState]
           /\ request'[r] = s
           /\ \A q \in Requests \ {r} : request'[q] = request[q]
  OBVIOUS

LEMMA GroupUpdate ==
    ASSUME TypeOK, NEW r \in Requests, NEW g \in GroupOrder, group' = [group EXCEPT ![r] = g]
    PROVE  /\ group' \in [Requests -> {NoGroup} \cup GroupOrder]
           /\ group'[r] = g
           /\ \A q \in Requests \ {r} : group'[q] = group[q]
  BY DEF TypeOK

LEMMA NoGroupOrder == NoGroup \notin GroupOrder
  BY DEF NoGroup, GroupOrder

LEMMA FreshType == Fresh \in RequestState
  BY DEF Fresh, RequestState, Before, Promotion, Unused

LEMMA GoesType ==
    ASSUME request \in [Requests -> RequestState], NEW r \in Requests, NEW at \in Before \cup After, Goes(r, at)
    PROVE  /\ request' \in [Requests -> RequestState]
           /\ request'[r].at = at
           /\ \A q \in Requests \ {r} : request'[q] = request[q]
<1>1. [request[r] EXCEPT !.at = at] \in RequestState BY DEF RequestState
<1>2. request' = [request EXCEPT ![r] = [request[r] EXCEPT !.at = at]] BY DEF Goes
<1> QED BY <1>1, <1>2, RequestUpdate DEF RequestState

LEMMA OneMoreType == ASSUME NEW p \in Promotion PROVE OneMore(p) \in Promotion
  BY DEF OneMore, Promotion

LEMMA MeetsType ==
    ASSUME TypeOK, NEW p \in Procs, Meets(p)
    PROVE  met' \in [Procs -> SUBSET Procs]
  BY DEF TypeOK, Meets, Running, Procs

(* What a request asked for, and where the request is, say of each other.  *)
LEMMA PayloadType ==
    ASSUME TypeOK, NEW r \in Requests
    PROVE  /\ payload[r].customer \in Customers
           /\ payload[r].dates \in Nat \ {0}
           /\ payload[r].method \in Methods
  BY OrderingAssumption DEF TypeOK
-----------------------------------------------------------------------------
(* Every request is changed alone, and so is its group order.              *)
Others(r) == \A q \in Requests \ {r} : request'[q] = request[q] /\ group'[q] = group[q]

LEMMA GoingType ==
    ASSUME TypeOK, NEW r \in Requests, NEW at \in Before \cup After, Goes(r, at),
           request[r].at \in Before <=> at \in Before,
           UNCHANGED <<code, event, points, payload, adding, day>>,
           group' = group, met' \in [Procs -> SUBSET Procs]
    PROVE  TypeOK' /\ Others(r)
<1>1. /\ request' \in [Requests -> RequestState] /\ request'[r].at = at
      /\ \A q \in Requests \ {r} : request'[q] = request[q]
  BY GoesType DEF TypeOK, RequestState
<1>2. \A q \in Requests : group'[q] = NoGroup <=> request'[q].at \in Before
  BY <1>1 DEF TypeOK
<1> QED BY <1>1, <1>2 DEF TypeOK, RequestState, Procs, Others

LEMMA CheckingType ==
    ASSUME TypeOK, NEW r \in Requests,
           Arrive(r) \/ FindCode(r) \/ CheckBalance(r) \/ PayChecks(r) \/ AskGateway(r)
    PROVE  TypeOK' /\ Others(r)
<1> USE DEF Before, After
<1>1. met \in [Procs -> SUBSET Procs] BY DEF TypeOK, Procs
<1>2. CASE Arrive(r)
  <2>1. met' \in [Procs -> SUBSET Procs] BY <1>2, MeetsType DEF Arrive, Procs
  <2> QED BY <1>2, <2>1, GoingType DEF Arrive, documents
<1>3. CASE FindCode(r) BY <1>1, <1>3, GoingType DEF FindCode, documents
<1>4. CASE CheckBalance(r) BY <1>1, <1>4, GoingType DEF CheckBalance, documents
<1>5. CASE PayChecks(r) BY <1>1, <1>5, GoingType DEF PayChecks, documents
<1>6. CASE AskGateway(r)
  <2>1. PICK at \in {Settled(r), "failed"} : Goes(r, at) BY <1>6 DEF AskGateway
  <2> QED BY <1>1, <1>6, <2>1, GoingType DEF AskGateway, Settled, documents
<1> QED BY <1>2, <1>3, <1>4, <1>5, <1>6

LEMMA HoldingType ==
    ASSUME TypeOK, NEW r \in Requests, NEW s \in RequestState, request' = [request EXCEPT ![r] = s],
           request[r].at \in Before <=> s.at \in Before,
           UNCHANGED <<payload, adding, met, day>>, group' = group,
           code' \in Promotion, event' \in Promotion, points' \in [Customers -> Int]
    PROVE  TypeOK' /\ Others(r) /\ request'[r] = s
<1>1. /\ request' \in [Requests -> RequestState] /\ request'[r] = s
      /\ \A q \in Requests \ {r} : request'[q] = request[q]
  BY RequestUpdate DEF TypeOK, RequestState
<1> QED BY <1>1 DEF TypeOK, RequestState, Others

LEMMA ReadingType ==
    ASSUME TypeOK, NEW r \in Requests, TakeEvent(r) \/ ReadNumber(r) \/ ReadPromotion(r) \/ PayReads(r)
    PROVE  TypeOK' /\ Others(r)
<1>1. /\ request[r] \in RequestState /\ code \in Promotion /\ event \in Promotion
      /\ points \in [Customers -> Int] /\ request \in [Requests -> RequestState]
  BY DEF TypeOK, RequestState
<1> USE DEF Before, After
<1>2. CASE TakeEvent(r)
  <2> DEFINE s == [request[r] EXCEPT !.event = EventOpen(payload[r].customer),
                                     !.at = IF payload[r].method = "point" THEN "payable" ELSE "checked"]
  <2>1. s \in RequestState BY <1>1 DEF RequestState, EventOpen
  <2>2. request' = [request EXCEPT ![r] = s] BY <1>1, <1>2 DEF TakeEvent, RequestState
  <2>3. s.at \in Before /\ request[r].at \in Before BY <1>1, <1>2 DEF TakeEvent, RequestState
  <2> HIDE DEF s
  <2> QED BY <1>1, <1>2, <2>1, <2>2, <2>3, HoldingType DEF TakeEvent, documents
<1>3. CASE ReadNumber(r)
  <2>1. PICK last \in {0} \cup {group[q].number : q \in Numbered} :
           request' = [request EXCEPT ![r].number = last + 1, ![r].year = Year, ![r].at = "numbered"]
    BY <1>3 DEF ReadNumber
  <2>2. last \in Nat BY NoGroupOrder DEF TypeOK, Numbered, Created, GroupOrder
  <2> DEFINE s == [request[r] EXCEPT !.number = last + 1, !.year = Year, !.at = "numbered"]
  <2>3. s \in RequestState
    <3>1. Year \in {0, 1} /\ last + 1 \in Nat BY <2>2 DEF Year
    <3> HIDE DEF Before, After
    <3>2. "numbered" \in Before \cup After BY DEF Before
    <3> QED BY <1>1, <3>1, <3>2 DEF RequestState
  <2>4. request' = [request EXCEPT ![r] = s] BY <1>1, <2>1 DEF RequestState
  <2>5. s.at \in Before /\ request[r].at \in Before BY <1>1, <1>3 DEF ReadNumber, RequestState
  <2> HIDE DEF s
  <2> QED BY <1>1, <1>3, <2>3, <2>4, <2>5, HoldingType DEF ReadNumber, documents
<1>4. CASE ReadPromotion(r)
  <2> DEFINE s == [request[r] EXCEPT !.copy = IF payload[r].code THEN code ELSE event, !.at = "promotion"]
  <2>1. s \in RequestState BY <1>1 DEF RequestState
  <2>2. request' = [request EXCEPT ![r] = s] BY <1>1, <1>4 DEF ReadPromotion, RequestState
  <2>3. s.at \notin Before /\ request[r].at \notin Before BY <1>1, <1>4 DEF ReadPromotion, RequestState
  <2> HIDE DEF s
  <2> QED BY <1>1, <1>4, <2>1, <2>2, <2>3, HoldingType DEF ReadPromotion, documents
<1>5. CASE PayReads(r)
  <2> DEFINE s == [request[r] EXCEPT !.balance = points[payload[r].customer], !.at = "paying"]
  <2>1. s \in RequestState BY <1>1, PayloadType DEF RequestState
  <2>2. request' = [request EXCEPT ![r] = s] BY <1>1, <1>5 DEF PayReads, RequestState
  <2>3. s.at \notin Before /\ request[r].at \notin Before BY <1>1, <1>5 DEF PayReads, RequestState
  <2> HIDE DEF s
  <2> QED BY <1>1, <1>5, <2>1, <2>2, <2>3, HoldingType DEF PayReads, documents
<1> QED BY <1>2, <1>3, <1>4, <1>5

LEMMA WritingType ==
    ASSUME TypeOK, NEW r \in Requests,
           CreateGroup(r) \/ WritePromotion(r) \/ CountEvent(r) \/ CreateOrders(r) \/ PayWrites(r) \/ Assign(r)
    PROVE  TypeOK' /\ Others(r)
<1>1. /\ request[r] \in RequestState /\ code \in Promotion /\ event \in Promotion
      /\ points \in [Customers -> Int] /\ request \in [Requests -> RequestState]
      /\ group[r] \in {NoGroup} \cup GroupOrder
      /\ request[r].at \notin Before => group[r] \in GroupOrder
  BY DEF TypeOK, RequestState
<1> USE DEF Before, After
<1>2. CASE CreateGroup(r)
  <2> DEFINE g == [orders |-> 0, event |-> request[r].event, paid |-> FALSE, day |-> day,
                   number |-> request[r].number, year |-> request[r].year,
                   status |-> IF payload[r].method = "online" THEN "processing" ELSE "pending"]
             s == [Fresh EXCEPT !.at = "created"]
  <2>1. g \in GroupOrder BY <1>1 DEF GroupOrder, RequestState, TypeOK
  <2>2. s \in RequestState /\ s.at = "created" BY FreshType DEF RequestState, Fresh
  <2>3. group' = [group EXCEPT ![r] = g] /\ request' = [request EXCEPT ![r] = s] BY <1>2 DEF CreateGroup
  <2> HIDE DEF g, s
  <2>4. /\ group' \in [Requests -> {NoGroup} \cup GroupOrder] /\ group'[r] = g
        /\ \A q \in Requests \ {r} : group'[q] = group[q]
    BY <2>1, <2>3, GroupUpdate
  <2>5. /\ request' \in [Requests -> RequestState] /\ request'[r] = s
        /\ \A q \in Requests \ {r} : request'[q] = request[q]
    BY <1>1, <2>2, <2>3, RequestUpdate
  <2> QED BY <1>2, <2>1, <2>2, <2>4, <2>5, NoGroupOrder DEF CreateGroup, TypeOK, RequestState, Others
<1>3. CASE WritePromotion(r)
  <2> DEFINE s == [Fresh EXCEPT !.at = "counted"]
  <2>1. s \in RequestState /\ s.at = "counted" BY FreshType DEF RequestState, Fresh
  <2>2. code' \in Promotion /\ event' \in Promotion BY <1>1, <1>3, OneMoreType DEF WritePromotion, RequestState
  <2> HIDE DEF s
  <2>3. request' = [request EXCEPT ![r] = s] BY <1>3 DEF WritePromotion, s
  <2> QED BY <1>1, <1>3, <2>1, <2>2, <2>3, HoldingType DEF WritePromotion
<1>4. CASE CountEvent(r)
  <2>1. event' \in Promotion BY <1>1, <1>4 DEF CountEvent, Promotion
  <2>2. /\ request' \in [Requests -> RequestState] /\ request'[r].at = "ordered"
        /\ \A q \in Requests \ {r} : request'[q] = request[q]
    BY <1>1, <1>4, GoesType DEF CountEvent
  <2> QED BY <1>1, <1>4, <2>1, <2>2 DEF CountEvent, TypeOK, RequestState, Others
<1>5. CASE CreateOrders(r)
  <2> DEFINE g == [group[r] EXCEPT !.orders = payload[r].dates]
             at == IF payload[r].method = "cash" THEN Settled(r) ELSE payload[r].method
  <2>1. g \in GroupOrder BY <1>1, <1>5, PayloadType DEF CreateOrders, GroupOrder
  <2>2. group' = [group EXCEPT ![r] = g] BY <1>1, <1>5 DEF CreateOrders, TypeOK
  <2>3. at \in Before \cup After /\ at \notin Before BY PayloadType DEF Settled, Methods
  <2>4. Goes(r, at) BY <1>5 DEF CreateOrders
  <2> HIDE DEF g, at
  <2>5. /\ group' \in [Requests -> {NoGroup} \cup GroupOrder] /\ group'[r] = g
        /\ \A q \in Requests \ {r} : group'[q] = group[q]
    BY <2>1, <2>2, GroupUpdate
  <2>6. /\ request' \in [Requests -> RequestState] /\ request'[r].at = at
        /\ \A q \in Requests \ {r} : request'[q] = request[q]
    BY <1>1, <2>3, <2>4, GoesType
  <2> QED BY <1>1, <1>5, <2>1, <2>3, <2>5, <2>6, NoGroupOrder DEF CreateOrders, TypeOK, RequestState, Others
<1>6. CASE PayWrites(r)
  <2> DEFINE g == [group[r] EXCEPT !.paid = TRUE]
             s == [Fresh EXCEPT !.at = Settled(r)]
  <2>1. g \in GroupOrder BY <1>1, <1>6 DEF PayWrites, GroupOrder
  <2>2. group' = [group EXCEPT ![r] = g] BY <1>1, <1>6 DEF PayWrites, TypeOK
  <2>3. s \in RequestState /\ s.at \notin Before BY FreshType DEF RequestState, Fresh, Settled
  <2>4. request' = [request EXCEPT ![r] = s] BY <1>6 DEF PayWrites
  <2>5. points' \in [Customers -> Int]
    <3>1. request[r].balance - payload[r].dates \in Int BY <1>1, PayloadType DEF RequestState
    <3> QED BY <1>1, <1>6, <3>1 DEF PayWrites
  <2> HIDE DEF g, s
  <2>6. /\ group' \in [Requests -> {NoGroup} \cup GroupOrder] /\ group'[r] = g
        /\ \A q \in Requests \ {r} : group'[q] = group[q]
    BY <2>1, <2>2, GroupUpdate
  <2>7. /\ request' \in [Requests -> RequestState] /\ request'[r] = s
        /\ \A q \in Requests \ {r} : request'[q] = request[q]
    BY <1>1, <2>3, <2>4, RequestUpdate
  <2>8. \A q \in Requests : group'[q] = NoGroup <=> request'[q].at \in Before
    <3>1. group'[r] # NoGroup /\ request'[r].at \notin Before BY <2>1, <2>3, <2>6, <2>7, NoGroupOrder
    <3> HIDE DEF Before
    <3> QED BY <2>6, <2>7, <3>1 DEF TypeOK
  <2> HIDE DEF Before, After
  <2> QED BY <1>6, <2>5, <2>6, <2>7, <2>8 DEF PayWrites, TypeOK, RequestState, Others
<1>7. CASE Assign(r)
  <2>1. /\ request' \in [Requests -> RequestState] /\ request'[r].at \notin Before
        /\ \A q \in Requests \ {r} : request'[q] = request[q]
    BY <1>1, <1>7, GoesType DEF Assign
  <2>2. CASE group' = group BY <1>1, <1>7, <2>1, <2>2 DEF Assign, TypeOK, RequestState, Others
  <2>3. CASE group' = [group EXCEPT ![r].status = "confirm"]
    <3> DEFINE g == [group[r] EXCEPT !.status = "confirm"]
    <3>1. g \in GroupOrder BY <1>1, <1>7 DEF Assign, GroupOrder
    <3>2. group' = [group EXCEPT ![r] = g] BY <2>3 DEF TypeOK
    <3> HIDE DEF g
    <3>3. /\ group' \in [Requests -> {NoGroup} \cup GroupOrder] /\ group'[r] = g
          /\ \A q \in Requests \ {r} : group'[q] = group[q]
      BY <3>1, <3>2, GroupUpdate
    <3> QED BY <1>1, <1>7, <2>1, <3>1, <3>3, NoGroupOrder DEF Assign, TypeOK, RequestState, Others
  <2> QED BY <1>7, <2>2, <2>3 DEF Assign
<1> QED BY <1>2, <1>3, <1>4, <1>5, <1>6, <1>7

LEMMA AroundType ==
    ASSUME TypeOK, AddReads \/ AddWrites \/ Tomorrow
    PROVE  TypeOK' /\ request' = request /\ group' = group
<1>1. CASE AddReads
  <2>1. met' \in [Procs -> SUBSET Procs] BY <1>1, MeetsType DEF AddReads, Procs
  <2>2. adding' \in [at : {"new", "read", "over"}, balance : Int]
    BY <1>1, OrderingAssumption DEF AddReads, TypeOK
  <2> QED BY <1>1, <2>1, <2>2 DEF AddReads, TypeOK, documents, Procs
<1>2. CASE AddWrites
  <2>1. adding.balance + 1 \in Int BY DEF TypeOK
  <2>2. points' \in [Customers -> Int] BY <1>2, <2>1 DEF AddWrites, TypeOK
  <2>3. adding' \in [at : {"new", "read", "over"}, balance : Int]
    <3>1. adding' = [at |-> "over", balance |-> 0] BY <1>2 DEF AddWrites, TypeOK
    <3> QED BY <3>1
  <2> QED BY <1>2, <2>2, <2>3 DEF AddWrites, TypeOK
<1>3. CASE Tomorrow
  <2>1. day' \in Days BY <1>3 DEF Tomorrow, Days
  <2> QED BY <1>3, <2>1 DEF Tomorrow, TypeOK, documents
<1> QED BY <1>1, <1>2, <1>3

LEMMA InitType == Init => TypeOK
  BY FreshType, OrderingAssumption DEF Init, TypeOK, RequestState, Fresh, Unused, Promotion, Before, Days

(* The promotions, the points and the group orders keep to their schema,   *)
(* and a request has its group order exactly when it has passed its        *)
(* creation, whatever overlaps.                                            *)
LEMMA TypeStep == TypeOK /\ [Next]_vars => TypeOK'
<1> SUFFICES ASSUME TypeOK, [Next]_vars PROVE TypeOK' OBVIOUS
<1>1. CASE UNCHANGED vars BY <1>1 DEF vars, documents, TypeOK
<1> QED BY <1>1, CheckingType, ReadingType, WritingType, AroundType DEF Next, Step

THEOREM OrderingTypeCorrect == Spec => []TypeOK
  BY InitType, TypeStep, PTL DEF Spec
-----------------------------------------------------------------------------
(* Requests under way together know of each other.                         *)
Meeting == /\ \A p, q \in Running : p # q => q \in met[p]
           /\ \A p, q \in Procs : q \in met[p] => p \in met[q]

LEMMA MeetsTogether ==
    ASSUME TypeOK, Meeting, NEW p \in Procs, Meets(p), p \notin Running, Running' \subseteq Running \cup {p}
    PROVE  Meeting'
<1>1. \A q \in Procs : met'[q] = met[q] \cup (IF q = p THEN Running ELSE IF q \in Running THEN {p} ELSE {})
  BY DEF Meets, TypeOK, Procs
<1>2. Running \subseteq Procs BY DEF Running, Procs
<1> QED BY <1>1, <1>2 DEF Meeting

LEMMA MeetingStep == TypeOK /\ Meeting /\ [Next]_vars => Meeting'
<1> SUFFICES ASSUME TypeOK, Meeting, [Next]_vars PROVE Meeting' OBVIOUS
<1>1. ASSUME Running' \subseteq Running, UNCHANGED met PROVE Meeting'
  BY <1>1 DEF Meeting
<1>2. CASE UNCHANGED vars BY <1>1, <1>2 DEF vars, documents, Running
<1>3. ASSUME NEW r \in Requests, Step(r) PROVE Meeting'
  <2>1. Others(r) BY <1>3, CheckingType, ReadingType, WritingType DEF Step
  <2>2. CASE Arrive(r)
    <3>1. r \notin Running /\ Running' \subseteq Running \cup {r}
      BY <2>1, <2>2, OrderingAssumption DEF Arrive, Running, Resting, Others
    <3> QED BY <2>2, <3>1, MeetsTogether DEF Arrive, Procs
  <2>3. CASE ~Arrive(r)
    <3>1. UNCHANGED <<met, adding>> /\ request[r].at \notin Resting
      BY <1>3, <2>3 DEF Step, FindCode, TakeEvent, CheckBalance, ReadNumber, CreateGroup, ReadPromotion,
         WritePromotion, CountEvent, CreateOrders, PayReads, PayChecks, PayWrites, AskGateway, Assign, Resting
    <3> QED BY <1>1, <2>1, <3>1 DEF Running, Others
  <2> QED BY <2>2, <2>3
<1>4. CASE AddReads
  <2>1. AddPoints \notin Running /\ Running' \subseteq Running \cup {AddPoints}
    BY <1>4, OrderingAssumption DEF AddReads, Running
  <2> QED BY <1>4, <2>1, MeetsTogether DEF AddReads, Procs
<1>5. CASE AddWrites BY <1>1, <1>5 DEF AddWrites, Running
<1>6. CASE Tomorrow BY <1>1, <1>6 DEF Tomorrow, Running
<1> QED BY <1>2, <1>3, <1>4, <1>5, <1>6 DEF Next

LEMMA InitMeeting == Init => Meeting
  BY DEF Init, Meeting, Running, Resting, Fresh, Procs
-----------------------------------------------------------------------------
(* Orders by points                                                        *)

(* Between the two looks at the balance.                                   *)
Committed == {"checked", "numbered", "created", "promotion", "counted", "ordered", "point", "paying", "balanced"}

(* Nobody else wrote the points of the customer since the request began.   *)
Unmet(r) == met[r] \cap Writers(payload[r].customer) = {}

(* Only requests by points come to look at the points.                     *)
PointsFirst ==
    \A r \in Requests : /\ request[r].at \in {"payable", "point", "paying", "balanced"} => payload[r].method = "point"
                        /\ request[r].at = "online" => payload[r].method = "online"

(* A request that ran alone still finds the points it found first, and has *)
(* paid when it is through.                                                *)
EnoughFor(r) ==
    payload[r].method = "point" /\ Unmet(r) =>
        /\ request[r].at \in Committed => points[payload[r].customer] >= payload[r].dates
        /\ request[r].at \in {"settled", "served", "failed"} => group[r].paid

LEMMA PointsFirstStep == TypeOK /\ PointsFirst /\ [Next]_vars => PointsFirst'
<1> SUFFICES ASSUME TypeOK, PointsFirst, [Next]_vars PROVE PointsFirst' OBVIOUS
<1>1. CASE UNCHANGED vars BY <1>1 DEF vars, documents, PointsFirst
<1>2. CASE AddReads \/ AddWrites \/ Tomorrow
  BY <1>2, AroundType DEF AddReads, AddWrites, Tomorrow, PointsFirst
<1>3. ASSUME NEW r \in Requests, Step(r) PROVE PointsFirst'
  <2>1. Others(r) /\ TypeOK' BY <1>3, CheckingType, ReadingType, WritingType DEF Step
  <2>2. payload' = payload
    BY <1>3 DEF Step, Arrive, FindCode, TakeEvent, CheckBalance, ReadNumber, CreateGroup, ReadPromotion,
       WritePromotion, CountEvent, CreateOrders, PayReads, PayChecks, PayWrites, AskGateway, Assign
  <2>3. /\ request \in [Requests -> RequestState] /\ request[r] \in RequestState
        /\ payload[r].method \in Methods
    BY PayloadType DEF TypeOK, RequestState
  <2>4. /\ request'[r].at \in {"payable", "point", "paying", "balanced"} => payload[r].method = "point"
        /\ request'[r].at = "online" => payload[r].method = "online"
    <3> USE <2>3 DEF PointsFirst, RequestState, Goes, Fresh, Settled
    <3>1. CASE Arrive(r) \/ FindCode(r) \/ TakeEvent(r) \/ CheckBalance(r)
      BY <3>1 DEF Arrive, FindCode, TakeEvent, CheckBalance
    <3>2. CASE ReadNumber(r)
      <4>1. request'[r].at = "numbered" BY <3>2 DEF ReadNumber
      <4> QED BY <4>1
    <3>6. CASE CreateGroup(r) \/ ReadPromotion(r) \/ WritePromotion(r) \/ CountEvent(r)
      BY <3>6 DEF CreateGroup, ReadPromotion, WritePromotion, CountEvent
    <3>3. CASE CreateOrders(r) BY <3>3 DEF CreateOrders, Methods
    <3>4. CASE PayReads(r) \/ PayChecks(r) \/ PayWrites(r) BY <3>4 DEF PayReads, PayChecks, PayWrites
    <3>5. CASE AskGateway(r) \/ Assign(r) BY <3>5 DEF AskGateway, Assign
    <3> QED BY <1>3, <3>1, <3>2, <3>3, <3>4, <3>5, <3>6 DEF Step
  <2> QED BY <2>1, <2>2, <2>4 DEF PointsFirst, Others
<1> QED BY <1>1, <1>2, <1>3 DEF Next

LEMMA MetGrows ==
    ASSUME TypeOK, [Next]_vars
    PROVE  payload' = payload /\ \A p \in Procs : met[p] \subseteq met'[p]
<1>1. ASSUME NEW p \in Procs, Meets(p) PROVE \A q \in Procs : met[q] \subseteq met'[q]
  BY <1>1 DEF Meets, TypeOK, Procs
<1>2. CASE UNCHANGED vars BY <1>2 DEF vars
<1>3. CASE \E r \in Requests : Step(r)
  BY <1>1, <1>3 DEF Step, Arrive, FindCode, TakeEvent, CheckBalance, ReadNumber, CreateGroup, ReadPromotion,
     WritePromotion, CountEvent, CreateOrders, PayReads, PayChecks, PayWrites, AskGateway, Assign, Procs
<1>4. CASE AddReads \/ AddWrites \/ Tomorrow
  BY <1>1, <1>4 DEF AddReads, AddWrites, Tomorrow, Procs
<1> QED BY <1>2, <1>3, <1>4 DEF Next

(* The request's own steps.                                                *)
LEMMA OwnStep ==
    ASSUME TypeOK, PointsFirst, NEW r \in Requests, EnoughFor(r), Step(r)
    PROVE  EnoughFor(r)'
<1>1. /\ TypeOK' /\ payload' = payload /\ met[r] \subseteq met'[r]
      /\ payload[r].customer \in Customers /\ payload[r].dates \in Nat /\ payload[r].method \in Methods
      /\ request \in [Requests -> RequestState] /\ request[r] \in RequestState
  BY CheckingType, ReadingType, WritingType, MetGrows, PayloadType DEF Step, Next, Procs, TypeOK, RequestState
<1>2. SUFFICES ASSUME payload[r].method = "point", Unmet(r)
               PROVE  /\ request'[r].at \in Committed => points'[payload[r].customer] >= payload[r].dates
                      /\ request'[r].at \in {"settled", "served", "failed"} => group'[r].paid
  BY <1>1 DEF EnoughFor, Unmet, Writers, Paying, Of
<1> USE <1>1, <1>2 DEF RequestState, Committed
<1>3. CASE Arrive(r) BY <1>3 DEF Arrive, Goes
<1>4. CASE FindCode(r) BY <1>4 DEF FindCode, Goes
<1>5. CASE TakeEvent(r) BY <1>5 DEF TakeEvent
<1>6. CASE CheckBalance(r) BY <1>6 DEF CheckBalance, Goes, documents, TypeOK
<1>7. CASE ReadNumber(r) BY <1>7 DEF ReadNumber, documents, EnoughFor
<1>8. CASE CreateGroup(r) BY <1>8 DEF CreateGroup, EnoughFor, Fresh
<1>9. CASE ReadPromotion(r) BY <1>9 DEF ReadPromotion, documents, EnoughFor
<1>10. CASE WritePromotion(r) BY <1>10 DEF WritePromotion, EnoughFor, Fresh
<1>11. CASE CountEvent(r) BY <1>11 DEF CountEvent, Goes, EnoughFor
<1>12. CASE CreateOrders(r) BY <1>12 DEF CreateOrders, Goes, EnoughFor
<1>13. CASE PayReads(r) BY <1>13 DEF PayReads, documents, EnoughFor
<1>14. CASE PayChecks(r) BY <1>14 DEF PayChecks, Goes, documents, EnoughFor, TypeOK
<1>15. CASE PayWrites(r)
  <2>1. group'[r].paid BY <1>15, NoGroupOrder DEF PayWrites, TypeOK, Before, GroupOrder
  <2>2. request'[r].at \in {"settled", "served"} BY <1>15 DEF PayWrites, Settled, Fresh
  <2> QED BY <2>1, <2>2
<1>16. CASE AskGateway(r) BY <1>16 DEF AskGateway, PointsFirst
<1>17. CASE Assign(r)
  <2>1. group'[r].paid
    <3>1. group[r].paid /\ group[r] \in GroupOrder BY <1>17 DEF Assign, EnoughFor, TypeOK, Before
    <3> QED BY <1>17, <3>1 DEF Assign, TypeOK, GroupOrder
  <2>2. request'[r].at \in {"served", "failed"} BY <1>17 DEF Assign, Goes
  <2> QED BY <2>1, <2>2
<1> QED BY <1>3, <1>4, <1>5, <1>6, <1>7, <1>8, <1>9, <1>10, <1>11, <1>12, <1>13, <1>14, <1>15, <1>16, <1>17 DEF Step

(* The steps of the others.                                                *)
LEMMA OtherStep ==
    ASSUME TypeOK, Meeting, PointsFirst, NEW r \in Requests, EnoughFor(r), [Next]_vars,
           request'[r] = request[r], group'[r] = group[r],
           \A q \in Requests : PayWrites(q) => q # r
    PROVE  EnoughFor(r)'
<1>1. /\ payload' = payload /\ met[r] \subseteq met'[r] BY MetGrows DEF Procs
<1>2. SUFFICES ASSUME payload[r].method = "point", Unmet(r), request[r].at \in Committed
               PROVE  points'[payload[r].customer] = points[payload[r].customer]
  BY <1>1 DEF EnoughFor, Unmet, Writers, Paying, Of
<1>3. r \in Running BY <1>2 DEF Running, Committed, Resting
<1>4. payload[r].customer \in Customers /\ points \in [Customers -> Int] BY PayloadType DEF TypeOK
<1>5. ASSUME NEW q \in Requests, PayWrites(q) PROVE points'[payload[r].customer] = points[payload[r].customer]
  <2>1. q \in Running BY <1>5 DEF PayWrites, Running, Resting
  <2>2. q \in met[r] BY <1>3, <1>5, <2>1 DEF Meeting
  <2>3. payload[q].method = "point" BY <1>5 DEF PayWrites, PointsFirst
  <2>4. payload[q].customer # payload[r].customer
    BY <1>2, <2>2, <2>3 DEF Unmet, Writers, Paying, Of
  <2> QED BY <1>4, <1>5, <2>4 DEF PayWrites
<1>6. CASE AddWrites
  <2>1. AddPoints \in Running BY <1>6 DEF AddWrites, Running
  <2>2. AddPoints \in met[r] BY <1>3, <2>1, OrderingAssumption DEF Meeting
  <2>3. payload[r].customer # Receiver BY <1>2, <2>2 DEF Unmet, Writers
  <2> QED BY <1>4, <1>6, <2>3 DEF AddWrites
<1>7. CASE UNCHANGED points BY <1>7
<1> QED
  BY <1>5, <1>6, <1>7 DEF Next, vars, documents, Step, Arrive, FindCode, TakeEvent, CheckBalance, ReadNumber,
     CreateGroup, ReadPromotion, WritePromotion, CountEvent, CreateOrders, PayReads, PayChecks, AskGateway,
     Assign, AddReads, Tomorrow

Enough == \A r \in Requests : EnoughFor(r)

LEMMA EnoughStep == TypeOK /\ Meeting /\ PointsFirst /\ Enough /\ [Next]_vars => Enough'
<1> SUFFICES ASSUME TypeOK, Meeting, PointsFirst, Enough, [Next]_vars, NEW r \in Requests PROVE EnoughFor(r)'
  BY DEF Enough
<1>1. EnoughFor(r) BY DEF Enough
<1>2. CASE Step(r) BY <1>1, <1>2, OwnStep
<1>3. CASE ~Step(r)
  <2>1. request'[r] = request[r] /\ group'[r] = group[r]
    <3>1. ASSUME NEW q \in Requests, Step(q) PROVE Others(q)
      BY <3>1, CheckingType, ReadingType, WritingType DEF Step
    <3>2. CASE UNCHANGED vars BY <3>2 DEF vars, documents
    <3> QED BY <1>3, <3>1, <3>2, AroundType DEF Next, Others
  <2>2. \A q \in Requests : PayWrites(q) => q # r BY <1>3 DEF Step
  <2> QED BY <1>1, <2>1, <2>2, OtherStep
<1> QED BY <1>2, <1>3

LEMMA InitEnough == Init => PointsFirst /\ Enough
  BY DEF Init, PointsFirst, Enough, EnoughFor, Fresh, Committed

(* An order by points left open to the collaborators was paid for, unless  *)
(* the points of its customer were written by someone else meanwhile.      *)
THEOREM OpenOrdersArePaid == Spec => []OpenIsPaid
<1>1. Spec => [](TypeOK /\ Meeting /\ PointsFirst /\ Enough)
  BY InitType, TypeStep, InitMeeting, MeetingStep, PointsFirstStep, InitEnough, EnoughStep, PTL DEF Spec
<1>2. TypeOK /\ Enough => OpenIsPaid
  <2> SUFFICES ASSUME TypeOK, Enough, NEW r \in Created, payload[r].method = "point",
                      request[r].at \in Resting, Unmet(r)
               PROVE  group[r].paid
    BY DEF OpenIsPaid, Unmet
  <2>1. r \in Requests /\ request[r].at \notin Before BY DEF Created, TypeOK
  <2> QED BY <2>1 DEF Enough, EnoughFor, Resting, Before
<1> QED BY <1>1, <1>2, PTL
-----------------------------------------------------------------------------
(* The ordinal numbers                                                     *)

(* Days only go on.                                                        *)
DaysPass ==
    /\ \A r \in Created : /\ group[r].day # "ordinary" => day # "ordinary"
                          /\ group[r].year = 1 => group[r].day = "next" /\ day = "next"
    /\ \A r \in Requests : request[r].at = "numbered" /\ request[r].year = 1 => day = "next"

(* A number that is read is beyond those created before the request began, *)
(* but for those of the last day of the year.                              *)
NumberBeyond ==
    \A r \in Requests, q \in Created :
        /\ r # q /\ q \notin met[r]
        /\ request[r].at = "numbered" /\ request[r].year = group[q].year
        => \/ group[q].number < request[r].number
           \/ group[q].year = 0 /\ group[q].day # "ordinary" /\ day # "ordinary"

(* What a step other than these two leaves of the numbers.                 *)
LEMMA NumbersKept ==
    ASSUME TypeOK, [Next]_vars, \A r \in Requests : ~ReadNumber(r) /\ ~CreateGroup(r)
    PROVE  /\ Created' = Created
           /\ \A r \in Created : /\ group'[r].number = group[r].number /\ group'[r].year = group[r].year
                                 /\ group'[r].day = group[r].day
           /\ \A r \in Requests : request'[r].at = "numbered" =>
                 request[r].at = "numbered" /\ request'[r] = request[r]
           /\ day' = day \/ Tomorrow
<1>1. CASE UNCHANGED vars BY <1>1 DEF vars, documents, Created
<1>2. CASE AddReads \/ AddWrites \/ Tomorrow
  BY <1>2, AroundType DEF AddReads, AddWrites, Created
<1>3. ASSUME NEW r \in Requests, Step(r)
      PROVE  /\ Created' = Created
             /\ \A q \in Created : /\ group'[q].number = group[q].number /\ group'[q].year = group[q].year
                                   /\ group'[q].day = group[q].day
             /\ \A q \in Requests : request'[q].at = "numbered" =>
                   request[q].at = "numbered" /\ request'[q] = request[q]
             /\ day' = day
  <2>1. Others(r) /\ TypeOK' BY <1>3, CheckingType, ReadingType, WritingType DEF Step
  <2>2. request[r] \in RequestState /\ payload[r].method \in Methods /\ request \in [Requests -> RequestState]
    BY PayloadType DEF TypeOK, RequestState
  <2>3. request'[r].at # "numbered"
    <3> USE <2>2 DEF RequestState, Goes, Fresh, Settled
    <3>1. CASE Arrive(r) \/ FindCode(r) \/ TakeEvent(r) \/ CheckBalance(r)
      BY <3>1 DEF Arrive, FindCode, TakeEvent, CheckBalance
    <3>2. CASE ReadPromotion(r) \/ WritePromotion(r) \/ CountEvent(r)
      BY <3>2 DEF ReadPromotion, WritePromotion, CountEvent
    <3>3. CASE CreateOrders(r) BY <3>3 DEF CreateOrders, Methods
    <3>4. CASE PayReads(r) \/ PayChecks(r) \/ PayWrites(r) BY <3>4 DEF PayReads, PayChecks, PayWrites
    <3>5. CASE AskGateway(r) \/ Assign(r) BY <3>5 DEF AskGateway, Assign
    <3> QED BY <1>3, <3>1, <3>2, <3>3, <3>4, <3>5 DEF Step
  <2>4. group'[r] = group[r] \/ CreateOrders(r) \/ PayWrites(r) \/ Assign(r)
    BY <1>3 DEF Step, Arrive, FindCode, TakeEvent, CheckBalance, ReadPromotion, WritePromotion, CountEvent,
       PayReads, PayChecks, AskGateway, documents
  <2>5. /\ group'[r] = NoGroup <=> group[r] = NoGroup
        /\ r \in Created => /\ group'[r].number = group[r].number /\ group'[r].year = group[r].year
                            /\ group'[r].day = group[r].day
    <3>1. CASE group'[r] = group[r] BY <3>1
    <3>2. CASE CreateOrders(r) \/ PayWrites(r) \/ Assign(r)
      <4>1. group[r] \in GroupOrder /\ group'[r] \in {NoGroup} \cup GroupOrder
        BY <2>1, <3>2 DEF CreateOrders, PayWrites, Assign, TypeOK, Before
      <4>2. group'[r] = [group[r] EXCEPT !.orders = payload[r].dates] \/ group'[r] = [group[r] EXCEPT !.paid = TRUE]
            \/ group'[r] = [group[r] EXCEPT !.status = "confirm"] \/ group'[r] = group[r]
        BY <3>2 DEF CreateOrders, PayWrites, Assign, TypeOK
      <4>3. group'[r].number = group[r].number /\ group'[r].year = group[r].year /\ group'[r].day = group[r].day
        BY <4>1, <4>2 DEF GroupOrder
      <4>4. group'[r] # NoGroup
        <5>1. NoGroup.orders = -1 BY DEF NoGroup
        <5>2. group[r].orders \in Nat /\ payload[r].dates \in Nat BY <4>1, PayloadType DEF GroupOrder
        <5>3. group'[r].orders \in Nat BY <4>1, <4>2, <5>2 DEF GroupOrder
        <5> QED BY <5>1, <5>3
      <4> QED BY <4>1, <4>3, <4>4, NoGroupOrder
    <3> QED BY <2>4, <3>1, <3>2
  <2>6. day' = day
    BY <1>3 DEF Step, Arrive, FindCode, TakeEvent, CheckBalance, ReadPromotion, WritePromotion, CountEvent,
       CreateOrders, PayReads, PayChecks, PayWrites, AskGateway, Assign
  <2> QED BY <2>1, <2>3, <2>5, <2>6 DEF Others, Created
<1> QED BY <1>1, <1>2, <1>3 DEF Next
(* What the two steps do to them.                                          *)
LEMMA ReadNumberFacts ==
    ASSUME TypeOK, NEW r \in Requests, ReadNumber(r)
    PROVE  /\ \A q \in Numbered : group[q].number < request'[r].number
           /\ request'[r].year = Year
           /\ Others(r) /\ group' = group /\ day' = day /\ met' = met
<1>1. PICK last \in {0} \cup {group[q].number : q \in Numbered} :
         /\ \A q \in Numbered : group[q].number <= last
         /\ request' = [request EXCEPT ![r].number = last + 1, ![r].year = Year, ![r].at = "numbered"]
  BY DEF ReadNumber
<1>2. last \in Nat BY NoGroupOrder DEF TypeOK, Numbered, Created, GroupOrder
<1>3. request'[r].number = last + 1 /\ request'[r].year = Year BY <1>1 DEF TypeOK
<1>4. \A q \in Numbered : group[q].number \in Nat BY NoGroupOrder DEF TypeOK, Numbered, Created, GroupOrder
<1>5. Others(r) BY ReadingType
<1> QED BY <1>1, <1>2, <1>3, <1>4, <1>5 DEF ReadNumber, documents

LEMMA CreateGroupFacts ==
    ASSUME TypeOK, NEW r \in Requests, CreateGroup(r)
    PROVE  /\ request[r].at = "numbered" /\ request'[r].at = "created"
           /\ group'[r].number = request[r].number /\ group'[r].year = request[r].year /\ group'[r].day = day
           /\ Created' = Created \cup {r}
           /\ Others(r) /\ day' = day /\ met' = met
<1>1. Others(r) /\ TypeOK' BY WritingType
<1>2. request[r].at = "numbered" /\ request'[r].at = "created" /\ group'[r].number = request[r].number
      /\ group'[r].year = request[r].year /\ group'[r].day = day
  BY DEF CreateGroup, TypeOK, Fresh
<1>3. r \in Created' BY <1>1, <1>2 DEF Created, TypeOK, Before
<1> QED BY <1>1, <1>2, <1>3 DEF CreateGroup, Created, Others

LEMMA DaysPassStep == TypeOK /\ DaysPass /\ [Next]_vars => DaysPass'
<1> SUFFICES ASSUME TypeOK, DaysPass, [Next]_vars PROVE DaysPass' OBVIOUS
<1>1. ASSUME NEW r \in Requests, ReadNumber(r) PROVE DaysPass'
  BY <1>1, ReadNumberFacts DEF DaysPass, Created, Others, Year
<1>2. ASSUME NEW r \in Requests, CreateGroup(r) PROVE DaysPass'
  BY <1>2, CreateGroupFacts DEF DaysPass, Others, Created
<1>3. CASE \A r \in Requests : ~ReadNumber(r) /\ ~CreateGroup(r)
  <2>1. day' = day \/ (day' = "last" /\ day = "ordinary") \/ (day' = "next" /\ day # "next")
    BY <1>3, NumbersKept DEF Tomorrow
  <2> QED BY <1>3, <2>1, NumbersKept DEF DaysPass
<1> QED BY <1>1, <1>2, <1>3

LEMMA NumberBeyondStep == TypeOK /\ Meeting /\ DaysPass /\ NumberBeyond /\ [Next]_vars => NumberBeyond'
<1> SUFFICES ASSUME TypeOK, Meeting, DaysPass, NumberBeyond, [Next]_vars PROVE NumberBeyond' OBVIOUS
<1>1. ASSUME NEW r \in Requests, ReadNumber(r) PROVE NumberBeyond'
  <2>1. ASSUME NEW q \in Created, request'[r].year = group[q].year
        PROVE  \/ group[q].number < request'[r].number
               \/ group[q].year = 0 /\ group[q].day # "ordinary" /\ day # "ordinary"
    <3>1. CASE q \in Numbered BY <1>1, <3>1, ReadNumberFacts
    <3>2. CASE q \notin Numbered
      <4>1. Year = group[q].year BY <1>1, <2>1, ReadNumberFacts
      <4> QED BY <2>1, <3>2, <4>1 DEF Numbered, Year, DaysPass
    <3> QED BY <3>1, <3>2
  <2> QED BY <1>1, <2>1, ReadNumberFacts DEF NumberBeyond, Others, Created
<1>2. ASSUME NEW r \in Requests, CreateGroup(r) PROVE NumberBeyond'
  <2>1. \A q \in Requests : q # r /\ request[q].at = "numbered" => r \in met[q]
    BY <1>2, CreateGroupFacts DEF Meeting, Running, Resting
  <2>2. \A q \in Created : q # r => group'[q] = group[q] BY <1>2, CreateGroupFacts DEF Others, Created
  <2> QED BY <1>2, <2>1, <2>2, CreateGroupFacts DEF NumberBeyond, Others
<1>3. CASE \A r \in Requests : ~ReadNumber(r) /\ ~CreateGroup(r)
  <2>1. day # "ordinary" => day' # "ordinary" BY <1>3, NumbersKept DEF Tomorrow
  <2>2. \A r \in Requests : met[r] \subseteq met'[r] BY MetGrows DEF Procs
  <2> QED BY <1>3, <2>1, <2>2, NumbersKept DEF NumberBeyond
<1> QED BY <1>1, <1>2, <1>3

LEMMA NumbersUniqueStep ==
    TypeOK /\ Meeting /\ DaysPass /\ NumberBeyond /\ NumbersUnique /\ [Next]_vars => NumbersUnique'
<1> SUFFICES ASSUME TypeOK, Meeting, DaysPass, NumberBeyond, NumbersUnique, [Next]_vars PROVE NumbersUnique'
  OBVIOUS
<1>1. ASSUME NEW r \in Requests, ReadNumber(r) PROVE NumbersUnique'
  BY <1>1, ReadNumberFacts DEF NumbersUnique, Created
<1>2. ASSUME NEW r \in Requests, CreateGroup(r) PROVE NumbersUnique'
  <2>1. \A q \in Created : q # r => group'[q] = group[q] BY <1>2, CreateGroupFacts DEF Others, Created
  <2>2. ASSUME NEW q \in Created, q # r, group[q].number = request[r].number, group[q].year = request[r].year,
               q \notin met[r]
        PROVE  group[q].year = 0 /\ group[q].day # "ordinary" /\ day # "ordinary"
    <3>1. group[q].number \in Nat BY NoGroupOrder DEF TypeOK, Created, GroupOrder
    <3> QED BY <1>2, <2>2, <3>1, CreateGroupFacts DEF NumberBeyond
  <2>3. \A p, q \in Requests : q \in met[p] <=> p \in met[q] BY DEF Meeting, Procs
  <2> QED BY <1>2, <2>1, <2>2, <2>3, CreateGroupFacts DEF NumbersUnique, Created
<1>3. CASE \A r \in Requests : ~ReadNumber(r) /\ ~CreateGroup(r)
  <2>1. \A r \in Requests : met[r] \subseteq met'[r] BY MetGrows DEF Procs
  <2>2. Created \subseteq Requests BY DEF Created
  <2> QED BY <1>3, <2>1, <2>2, NumbersKept DEF NumbersUnique
<1> QED BY <1>1, <1>2, <1>3

(* Two group orders have the same number in the same year only if they     *)
(* were created together or around the last day of the year.               *)
THEOREM OrdinalNumbersDiffer == Spec => []NumbersUnique
<1>1. Init => DaysPass /\ NumberBeyond /\ NumbersUnique
  BY DEF Init, DaysPass, NumberBeyond, NumbersUnique, Created, Fresh
<1> QED BY <1>1, InitType, TypeStep, InitMeeting, MeetingStep, DaysPassStep, NumberBeyondStep,
           NumbersUniqueStep, PTL DEF Spec
-----------------------------------------------------------------------------
(* The uses of the code, and what the promotions count                     *)

Coded == {r \in Requests : payload[r].code}

(* Those with the code that ran beside another with the code: an update of *)
(* the promotion by one of them may be lost.                               *)
Together == {r \in Coded : Coded \cap met[r] # {}}

(* Whose use of the code is written, and of the event.                     *)
Done == {r \in WithCode : request[r].at \notin {"created", "promotion"}}
Instead == {r \in Created \ WithCode : request[r].at \notin {"created", "promotion"}}
Taken == {r \in WithEvent : request[r].at \notin {"created", "promotion", "counted"}}

(* Uses of the code that cannot have been lost: all of those who ran       *)
(* without another one, and one of the others.                             *)
Uses(T, D) == Cardinality(D \ T) + IF D \cap T = {} THEN 0 ELSE 1

(* Let through by PRO.calculateCodePromotion, and not yet created.         *)
Allowed == {"priced", "payable", "checked", "numbered"}

CodeInv ==
    /\ code.used >= Uses(Together, Done)
    /\ code.used >= LimitCount => code.spent
    /\ \A r \in Coded : request[r].at = "promotion" =>
          /\ request[r].copy.used >= Cardinality(Done \ Together)
          /\ r \notin Together => request[r].copy = code
    /\ \A r \in Coded : request[r].at \in Allowed => Uses(Together, WithCode \cup {r}) <= LimitCount
    /\ Uses(Together, WithCode) <= LimitCount

(* What the promotions count, and what those who write them have read,     *)
(* when no two requests run together.                                      *)
CountedInv ==
    Apart(Requests) =>
        /\ code.used = Cardinality(Done)
        /\ event.used = Cardinality(Taken) + Cardinality(Instead)
        /\ code.spent = (code.used >= LimitCount)
        /\ \A r \in Requests : request[r].at = "promotion" =>
              request[r].copy = IF payload[r].code THEN code ELSE event

LEMMA FewRequests ==
    ASSUME NEW S \in SUBSET Requests
    PROVE  IsFiniteSet(S) /\ Cardinality(S) \in Nat
  BY OrderingAssumption, FS_Subset, FS_CardinalityType

(* The more requests ran together, the fewer uses are sure.                *)
LEMMA UsesShrink ==
    ASSUME NEW D \in SUBSET Requests, NEW T, NEW U, T \subseteq U
    PROVE  /\ Uses(T, D) \in Nat /\ Uses(U, D) \in Nat
           /\ Uses(U, D) <= Uses(T, D)
           /\ Cardinality(D \ U) <= Cardinality(D \ T)
<1>1. /\ IsFiniteSet(D \ T) /\ Cardinality(D \ T) \in Nat
      /\ IsFiniteSet(D \ U) /\ Cardinality(D \ U) \in Nat
  BY FewRequests
<1>2. /\ Cardinality(D \ U) <= Cardinality(D \ T)
      /\ Cardinality(D \ U) = Cardinality(D \ T) => D \ U = D \ T
  <2>1. D \ U \in SUBSET (D \ T) OBVIOUS
  <2> QED BY <1>1, <2>1, FS_Subset
<1>3. CASE D \cap T # {} BY <1>1, <1>2, <1>3 DEF Uses
<1>4. CASE D \cap U = {} BY <1>1, <1>2, <1>4 DEF Uses
<1>5. CASE D \cap T = {} /\ D \cap U # {}
  <2>1. D \ U # D \ T BY <1>5
  <2> QED BY <1>1, <1>2, <1>5, <2>1 DEF Uses
<1> QED BY <1>3, <1>4, <1>5, <1>2

(* One more adds at most one use; among those together, all are but one.   *)
LEMMA UsesAdd ==
    ASSUME NEW D \in SUBSET Requests, NEW T, NEW r \in Requests
    PROVE  /\ Uses(T, D) \in Nat /\ Uses(T, D \cup {r}) \in Nat
           /\ Uses(T, D) <= Uses(T, D \cup {r})
           /\ Uses(T, D \cup {r}) <= Uses(T, D) + 1
           /\ Cardinality(D \ T) <= Uses(T, D)
           /\ r \in T => /\ Uses(T, D \cup {r}) = Cardinality(D \ T) + 1
                         /\ (D \cup {r}) \ T = D \ T
<1>1. /\ IsFiniteSet(D \ T) /\ Cardinality(D \ T) \in Nat BY FewRequests
<1>2. CASE r \in T
  <2>1. (D \cup {r}) \ T = D \ T /\ (D \cup {r}) \cap T # {} BY <1>2
  <2>2. Uses(T, D \cup {r}) = Cardinality(D \ T) + 1 BY <2>1 DEF Uses
  <2>3. Uses(T, D) = Cardinality(D \ T) \/ Uses(T, D) = Cardinality(D \ T) + 1 BY <1>1 DEF Uses
  <2> QED BY <1>1, <2>1, <2>2, <2>3
<1>3. CASE r \notin T
  <2>1. (D \cup {r}) \ T = (D \ T) \cup {r} /\ (D \cup {r}) \cap T = D \cap T BY <1>3
  <2>2. Cardinality((D \cup {r}) \ T) = IF r \in D \ T THEN Cardinality(D \ T) ELSE Cardinality(D \ T) + 1
    BY <1>1, <2>1, FS_AddElement
  <2> QED BY <1>1, <1>3, <2>1, <2>2 DEF Uses
<1> QED BY <1>2, <1>3

LEMMA OneMoreElement ==
    ASSUME NEW S \in SUBSET Requests, NEW r \in Requests, r \notin S
    PROVE  Cardinality(S \cup {r}) = Cardinality(S) + 1 /\ Cardinality(S) \in Nat
  BY FewRequests, FS_AddElement

(* The steps that do not touch the promotions, nor let a request through   *)
(* to them.                                                                *)
Touches(r) == FindCode(r) \/ CreateGroup(r) \/ ReadPromotion(r) \/ WritePromotion(r) \/ CountEvent(r)

Waiting == {"created", "promotion", "counted"}

LEMMA StepAside ==
    ASSUME TypeOK, NEW r \in Requests, Step(r), ~Touches(r)
    PROVE  /\ code' = code /\ event' = event
           /\ request[r].at \notin Waiting /\ request'[r].at \notin Waiting
           /\ group'[r].event = group[r].event \/ r \notin Created
           /\ payload[r].code /\ request'[r].at \in Allowed => request[r].at \in Allowed
<1>1. /\ request \in [Requests -> RequestState] /\ request[r] \in RequestState
      /\ payload[r].method \in Methods
  BY PayloadType DEF TypeOK, RequestState
<1> USE <1>1 DEF RequestState, Allowed, Waiting
<1>2. CASE Arrive(r) BY <1>2 DEF Arrive, Goes, documents
<1>3. CASE TakeEvent(r) BY <1>3 DEF TakeEvent, documents
<1>4. CASE CheckBalance(r) BY <1>4 DEF CheckBalance, Goes, documents
<1>5. CASE ReadNumber(r)
  <2>1. request'[r].at = "numbered" BY <1>5 DEF ReadNumber
  <2> QED BY <1>5, <2>1 DEF ReadNumber, documents
<1>6. CASE CreateOrders(r)
  <2>1. group'[r].event = group[r].event \/ r \notin Created
    BY <1>6 DEF CreateOrders, Created, TypeOK, GroupOrder
  <2>2. request'[r].at \notin Waiting \cup Allowed BY <1>6 DEF CreateOrders, Goes, Settled, Methods
  <2> QED BY <1>6, <2>1, <2>2 DEF CreateOrders
<1>7. CASE PayReads(r) \/ PayChecks(r) BY <1>7 DEF PayReads, PayChecks, Goes, documents
<1>8. CASE PayWrites(r)
  <2>1. group'[r].event = group[r].event \/ r \notin Created
    BY <1>8 DEF PayWrites, Created, TypeOK, GroupOrder
  <2>2. request'[r].at \in {"settled", "served"} BY <1>8 DEF PayWrites, Settled, Fresh
  <2> QED BY <1>8, <2>1, <2>2 DEF PayWrites
<1>9. CASE AskGateway(r) BY <1>9 DEF AskGateway, Goes, Settled, documents
<1>10. CASE Assign(r)
  <2>1. group'[r].event = group[r].event \/ r \notin Created
    BY <1>10 DEF Assign, Created, TypeOK, GroupOrder
  <2> QED BY <1>10, <2>1 DEF Assign, Goes
<1> QED BY <1>2, <1>3, <1>4, <1>5, <1>6, <1>7, <1>8, <1>9, <1>10 DEF Step, Touches

LEMMA NumbersMove ==
    ASSUME TypeOK, NEW r \in Requests, ReadNumber(r) \/ CreateGroup(r)
    PROVE  request'[r] # request[r]
  BY DEF ReadNumber, CreateGroup, Fresh, TypeOK

LEMMA Aside ==
    ASSUME TypeOK, [Next]_vars, \A r \in Requests : ~Touches(r)
    PROVE  /\ code' = code /\ event' = event /\ payload' = payload /\ Created' = Created
           /\ \A r \in Requests :
                 /\ request[r].at \in Waiting \/ request'[r].at \in Waiting => request'[r] = request[r]
                 /\ r \in Created => group'[r].event = group[r].event
                 /\ payload[r].code /\ request'[r].at \in Allowed => request[r].at \in Allowed
<1>1. payload' = payload BY MetGrows
<1>2. CASE UNCHANGED vars BY <1>1, <1>2 DEF vars, documents, Created
<1>3. CASE AddReads \/ AddWrites \/ Tomorrow
  BY <1>1, <1>3, AroundType DEF AddReads, AddWrites, Tomorrow, documents, Created
<1>4. ASSUME NEW r \in Requests, Step(r) PROVE
         /\ code' = code /\ event' = event /\ Created' = Created
         /\ \A q \in Requests :
                 /\ request[q].at \in Waiting \/ request'[q].at \in Waiting => request'[q] = request[q]
                 /\ q \in Created => group'[q].event = group[q].event
                 /\ payload[q].code /\ request'[q].at \in Allowed => request[q].at \in Allowed
  <2>1. Others(r) BY <1>4, CheckingType, ReadingType, WritingType DEF Step
  <2>2. Created' = Created
    <3>1. CASE ReadNumber(r) BY <3>1, ReadNumberFacts DEF Created
    <3>2. CASE ~ReadNumber(r)
      <4>1. \A q \in Requests \ {r} : ~ReadNumber(q) /\ ~CreateGroup(q)
        <5> SUFFICES ASSUME NEW q \in Requests, q # r, ReadNumber(q) \/ CreateGroup(q) PROVE FALSE OBVIOUS
        <5> QED BY <2>1, NumbersMove DEF Others
      <4> QED BY <1>4, <3>2, <4>1, NumbersKept DEF Touches, Next
    <3> QED BY <3>1, <3>2
  <2> QED BY <1>4, <2>1, <2>2, StepAside DEF Others, Created
<1> QED BY <1>1, <1>2, <1>3, <1>4 DEF Next
-----------------------------------------------------------------------------
(* Every step, what it does to the uses of the code                        *)

LEMMA Sets ==
    /\ Created \subseteq Requests /\ Done \subseteq WithCode /\ WithCode \subseteq Coded /\ Coded \subseteq Requests
    /\ Instead \subseteq Requests /\ Taken \subseteq Requests /\ Together \subseteq Coded
  BY DEF Created, Done, WithCode, Coded, Instead, Taken, WithEvent, Together

(* Who runs beside a request with the code, and has the code, is together. *)
LEMMA RanTogether ==
    ASSUME Meeting, NEW r \in Coded, NEW q \in Coded, r # q, r \in Running, q \in Running
    PROVE  r \in Together /\ q \in Together
  BY DEF Meeting, Together

LEMMA TouchesRuns ==
    ASSUME NEW r \in Requests
    PROVE  /\ Touches(r) => r \in Running
           /\ request[r].at \in Waiting \cup Allowed => r \in Running
  BY DEF Touches, FindCode, CreateGroup, ReadPromotion, WritePromotion, CountEvent, Running, Resting, Waiting, Allowed

LEMMA TouchesFacts ==
    ASSUME TypeOK, NEW r \in Requests, Touches(r)
    PROVE  Others(r) /\ payload' = payload /\ met' = met /\ Coded' = Coded /\ Together' = Together
<1>1. Others(r) BY CheckingType, ReadingType, WritingType DEF Touches
<1>2. payload' = payload /\ met' = met
  BY DEF Touches, FindCode, CreateGroup, ReadPromotion, WritePromotion, CountEvent
<1> QED BY <1>1, <1>2 DEF Coded, Together

LEMMA CodeAside ==
    ASSUME TypeOK, CodeInv, [Next]_vars, \A r \in Requests : ~Touches(r)
    PROVE  CodeInv'
<1>1. /\ code' = code /\ payload' = payload /\ Created' = Created /\ Coded' = Coded
      /\ \A r \in Requests :
            /\ request[r].at \in Waiting \/ request'[r].at \in Waiting => request'[r] = request[r]
            /\ payload[r].code /\ request'[r].at \in Allowed => request[r].at \in Allowed
  BY Aside DEF Coded
<1>2. WithCode' = WithCode /\ Done' = Done BY <1>1, Sets DEF WithCode, Done, Waiting
<1>3. Together \subseteq Together'
  <2>1. \A r \in Requests : met[r] \subseteq met'[r] BY MetGrows DEF Procs
  <2> QED BY <1>1, <2>1, Sets DEF Together
<1>4. Uses(Together', Done') <= Uses(Together, Done) /\ Uses(Together', Done') \in Nat /\ Uses(Together, Done) \in Nat
  <2>1. Done \in SUBSET Requests BY Sets
  <2> QED BY <1>2, <1>3, <2>1, UsesShrink
<1>5. /\ Cardinality((Done \ Together)') <= Cardinality(Done \ Together)
      /\ Cardinality((Done \ Together)') \in Nat /\ Cardinality(Done \ Together) \in Nat
  <2>1. Done \in SUBSET Requests /\ Done' \ Together' \in SUBSET Requests /\ Done \ Together \in SUBSET Requests
    BY <1>2, Sets
  <2> QED BY <1>2, <1>3, <2>1, UsesShrink, FewRequests
<1>6. \A r \in Coded : /\ Uses(Together', WithCode \cup {r}) <= Uses(Together, WithCode \cup {r})
                       /\ Uses(Together', WithCode \cup {r}) \in Nat /\ Uses(Together, WithCode \cup {r}) \in Nat
  <2>1. \A r \in Coded : WithCode \cup {r} \in SUBSET Requests BY Sets
  <2> QED BY <1>3, <2>1, UsesShrink
<1>7. Uses(Together', WithCode) <= Uses(Together, WithCode)
      /\ Uses(Together', WithCode) \in Nat /\ Uses(Together, WithCode) \in Nat
  <2>1. WithCode \in SUBSET Requests BY Sets
  <2> QED BY <1>3, <2>1, UsesShrink
<1>8. code.used \in Nat /\ LimitCount \in Nat /\ \A r \in Requests : request[r].copy.used \in Nat
  BY OrderingAssumption DEF TypeOK, Promotion
<1>9. /\ code'.used >= Uses(Together', Done')
      /\ code'.used >= LimitCount => code'.spent
  BY <1>1, <1>4, <1>8 DEF CodeInv
<1>10. ASSUME NEW r \in Coded', request'[r].at = "promotion"
       PROVE  /\ request'[r].copy.used >= Cardinality((Done \ Together)')
              /\ r \notin Together' => request'[r].copy = code'
  <2>1. r \in Requests /\ r \in Coded /\ request'[r] = request[r] BY <1>1, <1>10, Sets DEF Waiting
  <2> QED BY <1>1, <1>3, <1>5, <1>8, <1>10, <2>1 DEF CodeInv
<1>11. ASSUME NEW r \in Coded', request'[r].at \in Allowed
       PROVE  Uses(Together', WithCode' \cup {r}) <= LimitCount
  <2>1. r \in Coded /\ request[r].at \in Allowed BY <1>1, <1>11 DEF Coded
  <2> QED BY <1>2, <1>6, <1>8, <2>1 DEF CodeInv
<1>12. Uses(Together', WithCode') <= LimitCount BY <1>2, <1>7, <1>8 DEF CodeInv
<1> QED BY <1>9, <1>10, <1>11, <1>12 DEF CodeInv

(* A request is let through: its use, and those not yet written, which ran *)
(* beside it, are beyond the uses the code counts.                         *)
LEMMA CodeFind ==
    ASSUME TypeOK, Meeting, CodeInv, NEW r \in Requests, FindCode(r), payload[r].code
    PROVE  CodeInv'
<1>1. /\ Others(r) /\ payload' = payload /\ Together' = Together /\ Coded' = Coded /\ code' = code /\ group' = group
      /\ r \in Coded /\ Created' = Created
  BY TouchesFacts DEF Touches, FindCode, documents, Coded, Created
<1>2. /\ request[r].at = "arrived"
      /\ \/ request'[r].at = "refused"
         \/ request'[r].at = "priced" /\ ~code.spent
  BY DEF FindCode, Goes, CodeOpen, TypeOK
<1>3. WithCode' = WithCode /\ Done' = Done
  <2>1. r \notin Created BY <1>2 DEF Created, TypeOK, Before
  <2> QED BY <1>1, <2>1 DEF WithCode, Done, Others, Created
<1>4. ASSUME ~code.spent PROVE Uses(Together, WithCode \cup {r}) <= LimitCount
  <2>1. /\ Done \in SUBSET Requests /\ WithCode \in SUBSET Requests BY Sets
  <2>2. /\ Uses(Together, Done) \in Nat /\ Uses(Together, Done \cup {r}) \in Nat
        /\ Uses(Together, Done \cup {r}) <= Uses(Together, Done) + 1
        /\ Cardinality(Done \ Together) <= Uses(Together, Done)
    BY <2>1, UsesAdd
  <2>3. Uses(Together, Done) + 1 <= LimitCount
    <3>1. code.used \in Nat /\ LimitCount \in Nat BY OrderingAssumption DEF TypeOK, Promotion
    <3> QED BY <1>4, <2>2, <3>1 DEF CodeInv
  <2>4. CASE WithCode = Done
    <3>1. LimitCount \in Nat BY OrderingAssumption
    <3> QED BY <2>2, <2>3, <2>4, <3>1
  <2>5. CASE WithCode # Done
    <3>1. r \in Running BY TouchesRuns DEF Touches
    <3>2. \A q \in WithCode \ Done : q \in Together /\ r \in Together
      <4> SUFFICES ASSUME NEW q \in WithCode \ Done PROVE q \in Together /\ r \in Together OBVIOUS
      <4>1. q \in Requests /\ q \in Coded /\ request[q].at \in Waiting BY Sets DEF Done, Waiting
      <4>2. q \in Running BY <4>1, TouchesRuns
      <4>3. q # r BY <1>2, <4>1 DEF Waiting
      <4> QED BY <1>1, <3>1, <4>1, <4>2, <4>3, RanTogether
    <3>3. r \in Together BY <2>5, <3>2, Sets
    <3>4. WithCode \ Together = Done \ Together BY <3>2, Sets
    <3>5. Uses(Together, WithCode \cup {r}) = Cardinality(Done \ Together) + 1 BY <2>1, <3>3, <3>4, UsesAdd
    <3>6. Cardinality(Done \ Together) \in Nat BY <2>1, FewRequests
    <3>7. LimitCount \in Nat BY OrderingAssumption
    <3> QED BY <2>2, <2>3, <3>5, <3>6, <3>7
  <2> QED BY <2>4, <2>5
<1>5. /\ code'.used >= Uses(Together', Done')
      /\ code'.used >= LimitCount => code'.spent
      /\ Uses(Together', WithCode') <= LimitCount
  BY <1>1, <1>3 DEF CodeInv
<1>6. ASSUME NEW q \in Coded', request'[q].at = "promotion"
      PROVE  /\ request'[q].copy.used >= Cardinality((Done \ Together)')
             /\ q \notin Together' => request'[q].copy = code'
  <2>1. q \in Requests \ {r} /\ q \in Coded BY <1>1, <1>2, <1>6, Sets
  <2> QED BY <1>1, <1>3, <1>6, <2>1 DEF CodeInv, Others
<1>7. ASSUME NEW q \in Coded', request'[q].at \in Allowed
      PROVE  Uses(Together', WithCode' \cup {q}) <= LimitCount
  <2>1. CASE q = r BY <1>1, <1>2, <1>3, <1>4, <1>7, <2>1 DEF Allowed
  <2>2. CASE q # r
    <3>1. q \in Requests \ {r} /\ q \in Coded BY <1>1, <2>2, Sets
    <3> QED BY <1>1, <1>3, <1>7, <3>1 DEF CodeInv, Others
  <2> QED BY <2>1, <2>2
<1> QED BY <1>5, <1>6, <1>7 DEF CodeInv

(* Created, it is one of those let through.                                *)
LEMMA CodeCreate ==
    ASSUME TypeOK, Meeting, CodeInv, NEW r \in Requests, CreateGroup(r), payload[r].code
    PROVE  CodeInv'
<1>1. /\ Others(r) /\ payload' = payload /\ Together' = Together /\ Coded' = Coded /\ code' = code
      /\ r \in Coded /\ Created' = Created \cup {r}
      /\ request[r].at = "numbered" /\ request'[r].at = "created"
  BY TouchesFacts, CreateGroupFacts DEF Touches, CreateGroup, Coded
<1>2. WithCode' = WithCode \cup {r} /\ Done' = Done
  <2>1. r \notin Created BY <1>1 DEF Created, TypeOK, Before
  <2> QED BY <1>1, <2>1 DEF WithCode, Done, Others, Created
<1>3. r \in Running BY TouchesRuns DEF Touches
<1>4. /\ code'.used >= Uses(Together', Done')
      /\ code'.used >= LimitCount => code'.spent
      /\ Uses(Together', WithCode') <= LimitCount
  BY <1>1, <1>2 DEF CodeInv, Allowed
<1>5. ASSUME NEW q \in Coded', request'[q].at = "promotion"
      PROVE  /\ request'[q].copy.used >= Cardinality((Done \ Together)')
             /\ q \notin Together' => request'[q].copy = code'
  <2>1. q \in Requests \ {r} /\ q \in Coded BY <1>1, <1>5, Sets
  <2> QED BY <1>1, <1>2, <1>5, <2>1 DEF CodeInv, Others
<1>6. ASSUME NEW q \in Coded', request'[q].at \in Allowed
      PROVE  Uses(Together', WithCode' \cup {q}) <= LimitCount
  <2>1. q \in Requests \ {r} /\ q \in Coded BY <1>1, <1>6, Sets DEF Allowed
  <2>2. request[q].at \in Allowed BY <1>1, <1>6, <2>1 DEF Others
  <2>3. r \in Together /\ q \in Together
    <3>1. q \in Running BY <2>1, <2>2, TouchesRuns
    <3> QED BY <1>1, <1>3, <2>1, <3>1, RanTogether
  <2>4. WithCode \in SUBSET Requests /\ WithCode \cup {r} \in SUBSET Requests BY Sets
  <2>5. /\ Uses(Together, WithCode \cup {q}) = Cardinality(WithCode \ Together) + 1
        /\ (WithCode \cup {r}) \ Together = WithCode \ Together
        /\ Uses(Together, (WithCode \cup {r}) \cup {q}) = Cardinality((WithCode \cup {r}) \ Together) + 1
    BY <2>1, <2>3, <2>4, UsesAdd
  <2>6. Uses(Together, WithCode \cup {q}) <= LimitCount BY <2>1, <2>2 DEF CodeInv
  <2> QED BY <1>1, <1>2, <2>5, <2>6
<1> QED BY <1>4, <1>5, <1>6 DEF CodeInv

(* The promotion read counts all the uses that are sure.                   *)
LEMMA CodeRead ==
    ASSUME TypeOK, CodeInv, NEW r \in Requests, ReadPromotion(r), payload[r].code
    PROVE  CodeInv'
<1>1. /\ Others(r) /\ payload' = payload /\ Together' = Together /\ Coded' = Coded /\ code' = code /\ group' = group
      /\ r \in Coded /\ Created' = Created
      /\ request[r].at = "created" /\ request'[r].at = "promotion" /\ request'[r].copy = code
  BY TouchesFacts DEF Touches, ReadPromotion, documents, Coded, Created, TypeOK
<1>2. WithCode' = WithCode /\ Done' = Done BY <1>1 DEF WithCode, Done, Others, Created
<1>3. code.used >= Cardinality(Done \ Together)
  <2>1. Done \in SUBSET Requests BY Sets
  <2>2. /\ Cardinality(Done \ Together) <= Uses(Together, Done) /\ Uses(Together, Done) \in Nat
    BY <2>1, UsesAdd
  <2>3. Cardinality(Done \ Together) \in Nat BY <2>1, FewRequests
  <2>4. code.used \in Nat BY DEF TypeOK, Promotion
  <2> QED BY <2>2, <2>3, <2>4 DEF CodeInv
<1>4. ASSUME NEW q \in Coded', request'[q].at = "promotion"
      PROVE  /\ request'[q].copy.used >= Cardinality((Done \ Together)')
             /\ q \notin Together' => request'[q].copy = code'
  <2>1. CASE q = r BY <1>1, <1>2, <1>3, <2>1
  <2>2. CASE q # r
    <3>1. q \in Requests \ {r} /\ q \in Coded BY <1>1, <2>2, Sets
    <3> QED BY <1>1, <1>2, <1>4, <3>1 DEF CodeInv, Others
  <2> QED BY <2>1, <2>2
<1>5. ASSUME NEW q \in Coded', request'[q].at \in Allowed
      PROVE  Uses(Together', WithCode' \cup {q}) <= LimitCount
  <2>1. q \in Requests \ {r} /\ q \in Coded BY <1>1, <1>5, Sets DEF Allowed
  <2> QED BY <1>1, <1>2, <1>5, <2>1 DEF CodeInv, Others
<1> QED BY <1>1, <1>2, <1>4, <1>5 DEF CodeInv

(* Written back, it counts one more; what it overwrites is of those who    *)
(* ran together.                                                           *)
LEMMA CodeWrite ==
    ASSUME TypeOK, Meeting, CodeInv, NEW r \in Requests, WritePromotion(r), payload[r].code
    PROVE  CodeInv'
<1>1. /\ Others(r) /\ payload' = payload /\ Together' = Together /\ Coded' = Coded /\ group' = group
      /\ r \in Coded /\ Created' = Created /\ code' = OneMore(request[r].copy)
      /\ request[r].at = "promotion" /\ request'[r].at = "counted"
  BY TouchesFacts DEF Touches, WritePromotion, Coded, Created, TypeOK, Fresh
<1>2. WithCode' = WithCode /\ Done' = Done \cup {r}
  <2>1. r \in Created BY <1>1 DEF Created, TypeOK, Before
  <2> QED BY <1>1, <2>1 DEF WithCode, Done, Others, Created
<1>3. r \in Running BY TouchesRuns DEF Touches
<1>4. /\ request[r].copy.used \in Nat /\ code.used \in Nat /\ LimitCount \in Nat
      /\ code'.used = request[r].copy.used + 1
      /\ code'.used >= LimitCount => code'.spent
  <2>1. request[r].copy.used \in Nat /\ code.used \in Nat /\ LimitCount \in Nat
    BY OrderingAssumption DEF TypeOK, Promotion
  <2>2. code'.used = request[r].copy.used + 1 BY <1>1 DEF OneMore
  <2>3. ~(request[r].copy.used + 1 < LimitCount) => code'.spent BY <1>1, Zenon DEF OneMore
  <2> QED BY <2>1, <2>2, <2>3
<1>5. Done \in SUBSET Requests BY Sets
<1>6. /\ Uses(Together, Done) \in Nat /\ Uses(Together, Done \cup {r}) \in Nat
      /\ Uses(Together, Done \cup {r}) <= Uses(Together, Done) + 1
      /\ r \in Together => /\ Uses(Together, Done \cup {r}) = Cardinality(Done \ Together) + 1
                           /\ (Done \cup {r}) \ Together = Done \ Together
      /\ Cardinality(Done \ Together) \in Nat
  BY <1>5, UsesAdd, FewRequests
<1>7. code'.used >= Uses(Together', Done')
  <2>1. CASE r \in Together
    <3>1. request[r].copy.used >= Cardinality(Done \ Together) BY <1>1 DEF CodeInv
    <3> QED BY <1>1, <1>2, <1>4, <1>6, <2>1, <3>1
  <2>2. CASE r \notin Together
    <3>1. request[r].copy = code BY <1>1, <2>2 DEF CodeInv
    <3>2. code.used >= Uses(Together, Done) BY DEF CodeInv
    <3> QED BY <1>1, <1>2, <1>4, <1>6, <3>1, <3>2
  <2> QED BY <2>1, <2>2
<1>8. ASSUME NEW q \in Coded', request'[q].at = "promotion"
      PROVE  /\ request'[q].copy.used >= Cardinality((Done \ Together)')
             /\ q \notin Together' => request'[q].copy = code'
  <2>1. q \in Requests \ {r} /\ q \in Coded BY <1>1, <1>8, Sets
  <2>2. request[q].at = "promotion" /\ request'[q] = request[q] BY <1>1, <1>8, <2>1 DEF Others
  <2>3. q \in Together /\ r \in Together
    <3>1. q \in Running BY <2>1, <2>2, TouchesRuns DEF Waiting
    <3> QED BY <1>1, <1>3, <2>1, <3>1, RanTogether
  <2> QED BY <1>1, <1>2, <1>6, <2>1, <2>2, <2>3 DEF CodeInv
<1>9. ASSUME NEW q \in Coded', request'[q].at \in Allowed
      PROVE  Uses(Together', WithCode' \cup {q}) <= LimitCount
  <2>1. q \in Requests \ {r} /\ q \in Coded BY <1>1, <1>9, Sets DEF Allowed
  <2> QED BY <1>1, <1>2, <1>9, <2>1 DEF CodeInv, Others
<1>10. Uses(Together', WithCode') <= LimitCount BY <1>1, <1>2 DEF CodeInv
<1> QED BY <1>4, <1>7, <1>8, <1>9, <1>10 DEF CodeInv

(* The steps of a request without the code, and the count of the event.    *)
LEMMA CodeLeft ==
    ASSUME TypeOK, CodeInv, NEW r \in Requests, Touches(r), ~payload[r].code \/ CountEvent(r)
    PROVE  CodeInv'
<1>1. /\ Others(r) /\ payload' = payload /\ Together' = Together /\ Coded' = Coded
      /\ Created' = Created \/ (CreateGroup(r) /\ Created' = Created \cup {r})
  BY TouchesFacts, CreateGroupFacts
     DEF Touches, FindCode, ReadPromotion, WritePromotion, CountEvent, documents, Created
<1>2. code' = code
  BY DEF Touches, FindCode, CreateGroup, ReadPromotion, WritePromotion, CountEvent, documents
<1>3. r \notin Coded \/ (request[r].at = "counted" /\ request'[r].at = "ordered")
  BY DEF Coded, CountEvent, Goes, TypeOK
<1>4. WithCode' = WithCode
  <2>1. CASE r \notin Coded BY <1>1, <2>1, Sets DEF WithCode, Coded
  <2>2. CASE CountEvent(r) BY <1>1, <2>2 DEF WithCode, CountEvent, CreateGroup
  <2> QED BY <2>1, <2>2 DEF Coded
<1>5. Done' = Done BY <1>1, <1>3, <1>4, Sets DEF Done, Others
<1>6. ASSUME NEW q \in Coded', request'[q].at = "promotion"
      PROVE  /\ request'[q].copy.used >= Cardinality((Done \ Together)')
             /\ q \notin Together' => request'[q].copy = code'
  <2>1. q \in Requests \ {r} /\ q \in Coded BY <1>1, <1>3, <1>6, Sets
  <2> QED BY <1>1, <1>2, <1>5, <1>6, <2>1 DEF CodeInv, Others
<1>7. ASSUME NEW q \in Coded', request'[q].at \in Allowed
      PROVE  Uses(Together', WithCode' \cup {q}) <= LimitCount
  <2>1. q \in Requests \ {r} /\ q \in Coded BY <1>1, <1>3, <1>7, Sets DEF Allowed
  <2> QED BY <1>1, <1>4, <1>7, <2>1 DEF CodeInv, Others
<1> QED BY <1>1, <1>2, <1>4, <1>5, <1>6, <1>7 DEF CodeInv

LEMMA CodeStep == TypeOK /\ Meeting /\ CodeInv /\ [Next]_vars => CodeInv'
  BY CodeAside, CodeFind, CodeCreate, CodeRead, CodeWrite, CodeLeft DEF Touches

LEMMA InitCode == Init => CodeInv
<1> SUFFICES ASSUME Init PROVE CodeInv OBVIOUS
<1>1. Created = {} /\ WithCode = {} /\ Done = {} BY DEF Init, Created, WithCode, Done
<1>2. Uses(Together, {}) = 0
  <2>1. {} \ Together = {} /\ {} \cap Together = {} OBVIOUS
  <2> QED BY <2>1, FS_EmptySet DEF Uses
<1>3. \A r \in Requests : request[r].at = "new" BY DEF Init, Fresh
<1> QED BY <1>1, <1>2, <1>3, Sets, OrderingAssumption DEF CodeInv, Allowed, Init, Unused

(* Beyond its limit_count the code is used at most by one less than the    *)
(* requests that ran together with it, however many there are.             *)
THEOREM CodeKeepsItsLimit == Spec => []CodeWithinLimit
<1>1. Spec => [](TypeOK /\ CodeInv)
  BY InitType, TypeStep, InitMeeting, MeetingStep, InitCode, CodeStep, PTL DEF Spec
<1>2. TypeOK /\ CodeInv => CodeWithinLimit
  <2> SUFFICES ASSUME TypeOK, CodeInv PROVE CodeWithinLimit OBVIOUS
  <2> DEFINE together == {r \in Requests : /\ payload[r].code
                                           /\ \E q \in met[r] \ {AddPoints} : payload[q].code}
  <2>1. together = Together
    <3>1. \A r \in Requests : met[r] \ {AddPoints} \subseteq Requests BY DEF TypeOK
    <3>2. AddPoints \notin Requests BY OrderingAssumption
    <3> QED BY <3>1, <3>2 DEF Together, Coded
  <2>2. /\ WithCode \in SUBSET Requests /\ Together \in SUBSET Requests
        /\ WithCode \cap Together \in SUBSET Together /\ WithCode \cap Together \in SUBSET Requests
        /\ WithCode \ Together \in SUBSET Requests
    BY Sets
  <2> DEFINE n == Cardinality(WithCode) a == Cardinality(WithCode \ Together)
             b == Cardinality(WithCode \cap Together) t == Cardinality(Together)
  <2>3. n \in Nat /\ a \in Nat /\ b \in Nat /\ t \in Nat /\ LimitCount \in Nat
    BY <2>2, FewRequests, OrderingAssumption
  <2>4. n = a + b
    <3>1. IsFiniteSet(WithCode) BY <2>2, FewRequests
    <3>2. Cardinality(WithCode) = Cardinality(WithCode \cap Together) + Cardinality(WithCode \ Together)
      <4>1. Cardinality(WithCode \ Together) = Cardinality(WithCode) - Cardinality(WithCode \cap Together)
        BY <3>1, FS_Difference
      <4>2. /\ Cardinality(WithCode) \in Nat /\ Cardinality(WithCode \cap Together) \in Nat
            /\ Cardinality(WithCode \ Together) \in Nat
        BY <2>2, FewRequests
      <4> QED BY <4>1, <4>2
    <3> QED BY <2>3, <3>2
  <2>5. b <= t BY <2>2, FewRequests, FS_Subset
  <2>6. a + (IF WithCode \cap Together = {} THEN 0 ELSE 1) <= LimitCount BY DEF CodeInv, Uses
  <2>7. WithCode \cap Together = {} => b = 0 BY FS_EmptySet
  <2>8. t - 1 \in Int BY <2>3
  <2>9. Max({0, t - 1}) \in {0, t - 1} /\ Max({0, t - 1}) >= 0 /\ Max({0, t - 1}) >= t - 1
    BY <2>8 DEF Max
  <2> HIDE DEF n, a, b, t
  <2>10. n <= LimitCount + Max({0, t - 1}) BY <2>3, <2>4, <2>5, <2>6, <2>7, <2>9
  <2> QED BY <2>1, <2>10 DEF CodeWithinLimit, n, t
<1> QED BY <1>1, <1>2, PTL
-----------------------------------------------------------------------------
(* The promotions, when requests come one after the other                  *)

LEMMA ApartBefore == ASSUME TypeOK, [Next]_vars, Apart(Requests)' PROVE Apart(Requests)
  BY MetGrows DEF Apart, Procs

(* Nobody else stands between the look at a promotion and its last count.  *)
LEMMA RunsAlone ==
    ASSUME Meeting, Apart(Requests), NEW r \in Requests, Touches(r)
    PROVE  \A q \in Requests \ {r} : request[q].at \notin Waiting
  BY TouchesRuns DEF Meeting, Apart

LEMMA CountedAside ==
    ASSUME TypeOK, CountedInv, [Next]_vars, \A r \in Requests : ~Touches(r)
    PROVE  CountedInv'
<1> SUFFICES ASSUME Apart(Requests)' PROVE CountedInv' BY DEF CountedInv
<1>1. /\ code' = code /\ event' = event /\ payload' = payload /\ Created' = Created
      /\ \A r \in Requests :
            /\ request[r].at \in Waiting \/ request'[r].at \in Waiting => request'[r] = request[r]
            /\ r \in Created => group'[r].event = group[r].event
  BY Aside
<1>2. WithCode' = WithCode /\ WithEvent' = WithEvent BY <1>1, Sets DEF WithCode, WithEvent
<1>3. Done' = Done /\ Instead' = Instead /\ Taken' = Taken
  BY <1>1, <1>2, Sets DEF Done, Instead, Taken, WithEvent, Waiting
<1> QED BY <1>1, <1>3, ApartBefore DEF CountedInv, Waiting

LEMMA CountedWrite ==
    ASSUME TypeOK, Meeting, CountedInv, NEW r \in Requests, WritePromotion(r), Apart(Requests)
    PROVE  CountedInv'
<1>1. /\ Others(r) /\ payload' = payload /\ group' = group /\ Created' = Created
      /\ request[r].at = "promotion" /\ request'[r].at = "counted"
      /\ WithCode' = WithCode /\ WithEvent' = WithEvent
      /\ request[r].copy = IF payload[r].code THEN code ELSE event
  BY TouchesFacts DEF Touches, WritePromotion, Created, WithCode, WithEvent, TypeOK, Fresh, CountedInv
<1>2. r \in Created BY <1>1 DEF Created, TypeOK, Before
<1>3. Taken' = Taken BY <1>1, Sets DEF Taken, Others, WithEvent
<1>4. \A q \in Requests : request'[q].at # "promotion"
  BY <1>1, RunsAlone DEF Touches, Others, Waiting
<1>5. code.used \in Nat /\ event.used \in Nat /\ LimitCount \in Nat /\ code.spent \in BOOLEAN
  BY OrderingAssumption DEF TypeOK, Promotion
<1>6. /\ code.used = Cardinality(Done) /\ event.used = Cardinality(Taken) + Cardinality(Instead)
      /\ code.spent = (code.used >= LimitCount)
  BY DEF CountedInv
<1>7. CASE payload[r].code
  <2>1. code' = OneMore(code) /\ event' = event BY <1>1, <1>7 DEF WritePromotion
  <2>2. Done' = Done \cup {r} /\ r \notin Done BY <1>1, <1>2, <1>7, Sets DEF Done, Others, WithCode
  <2>3. Instead' = Instead BY <1>1, <1>2, <1>7, Sets DEF Instead, Others, WithCode
  <2>4. Cardinality(Done') = Cardinality(Done) + 1
    <3>1. Done \in SUBSET Requests BY Sets
    <3> QED BY <2>2, <3>1, OneMoreElement
  <2>5. code'.used = code.used + 1 BY <2>1 DEF OneMore
  <2>6. code'.spent <=> code.spent \/ ~(code.used + 1 < LimitCount)
    BY <2>1 DEF OneMore
  <2>7. code'.spent \in BOOLEAN BY <2>1, <1>5 DEF OneMore
  <2>8. code'.spent = (code'.used >= LimitCount)
    <3>1. code.spent <=> code.used >= LimitCount BY <1>6
    <3>2. code'.spent <=> code'.used >= LimitCount BY <1>5, <2>5, <2>6, <3>1
    <3>3. CASE code'.used >= LimitCount
      <4>1. code'.spent = TRUE BY <2>7, <3>2, <3>3
      <4>2. (code'.used >= LimitCount) = TRUE BY <3>3
      <4> QED BY <4>1, <4>2
    <3>4. CASE ~(code'.used >= LimitCount)
      <4>1. code'.spent = FALSE BY <2>7, <3>2, <3>4
      <4>2. (code'.used >= LimitCount) = FALSE BY <3>4
      <4> QED BY <4>1, <4>2
    <3> QED BY <3>3, <3>4
  <2> QED BY <1>3, <1>4, <1>6, <2>1, <2>3, <2>4, <2>5, <2>8 DEF CountedInv
<1>8. CASE ~payload[r].code
  <2>1. event' = OneMore(event) /\ code' = code BY <1>1, <1>8 DEF WritePromotion
  <2>2. Instead' = Instead \cup {r} /\ r \notin Instead BY <1>1, <1>2, <1>8, Sets DEF Instead, Others, WithCode
  <2>3. Done' = Done BY <1>1, <1>2, <1>8, Sets DEF Done, Others, WithCode
  <2>4. Cardinality(Instead') = Cardinality(Instead) + 1 /\ Cardinality(Instead) \in Nat /\ Cardinality(Taken) \in Nat
    <3>1. Instead \in SUBSET Requests /\ Taken \in SUBSET Requests BY Sets
    <3> QED BY <2>2, <3>1, OneMoreElement, FewRequests
  <2>5. event'.used = event.used + 1 BY <2>1 DEF OneMore
  <2>6. event'.used = Cardinality(Taken') + Cardinality(Instead') BY <1>3, <1>6, <2>4, <2>5
  <2> QED BY <1>4, <1>6, <2>1, <2>3, <2>6 DEF CountedInv
<1> QED BY <1>7, <1>8

LEMMA CountedEvent ==
    ASSUME TypeOK, Meeting, CountedInv, NEW r \in Requests, CountEvent(r), Apart(Requests)
    PROVE  CountedInv'
<1>1. /\ Others(r) /\ payload' = payload /\ group' = group /\ Created' = Created /\ code' = code
      /\ request[r].at = "counted" /\ request'[r].at = "ordered"
      /\ WithCode' = WithCode /\ WithEvent' = WithEvent
  BY TouchesFacts DEF Touches, CountEvent, Created, WithCode, WithEvent, TypeOK, Goes
<1>2. r \in Created BY <1>1 DEF Created, TypeOK, Before
<1>3. Done' = Done /\ Instead' = Instead BY <1>1, Sets DEF Done, Instead, Others, WithCode
<1>4. \A q \in Requests : request'[q].at # "promotion"
  BY <1>1, RunsAlone DEF Touches, Others, Waiting
<1>5. /\ code.used = Cardinality(Done) /\ event.used = Cardinality(Taken) + Cardinality(Instead)
      /\ code.spent = (code.used >= LimitCount)
  BY DEF CountedInv
<1>6. event'.used = event.used + IF group[r].event THEN 1 ELSE 0 BY DEF CountEvent, TypeOK, Promotion
<1>7. Taken \in SUBSET Requests /\ Instead \in SUBSET Requests BY Sets
<1>8. Cardinality(Taken) \in Nat /\ Cardinality(Instead) \in Nat BY <1>7, FewRequests
<1>9. Cardinality(Taken') = Cardinality(Taken) + IF group[r].event THEN 1 ELSE 0
  <2>1. CASE group[r].event
    <3>1. Taken' = Taken \cup {r} /\ r \notin Taken BY <1>1, <1>2, <2>1, Sets DEF Taken, Others, WithEvent
    <3> QED BY <1>7, <2>1, <3>1, OneMoreElement
  <2>2. CASE ~group[r].event
    <3>1. Taken' = Taken BY <1>1, <2>2, Sets DEF Taken, Others, WithEvent
    <3> QED BY <1>8, <2>2, <3>1
  <2> QED BY <2>1, <2>2
<1>10. event'.used = Cardinality(Taken') + Cardinality(Instead')
  BY <1>3, <1>5, <1>6, <1>8, <1>9
<1> QED BY <1>1, <1>3, <1>4, <1>5, <1>10 DEF CountedInv

(* The steps before a promotion is written.                                *)
LEMMA CountedBefore ==
    ASSUME TypeOK, CountedInv, NEW r \in Requests, FindCode(r) \/ CreateGroup(r) \/ ReadPromotion(r),
           Apart(Requests)
    PROVE  CountedInv'
<1>1. /\ Others(r) /\ payload' = payload /\ code' = code /\ event' = event
      /\ Created' = Created \/ Created' = Created \cup {r}
  BY TouchesFacts, CreateGroupFacts
     DEF Touches, FindCode, CreateGroup, ReadPromotion, documents, Created
<1>2. \/ request[r].at \in Before /\ request'[r].at \in Before
      \/ request[r].at \in Before /\ request'[r].at = "created"
      \/ /\ request[r].at = "created" /\ request'[r].at = "promotion"
         /\ request'[r].copy = IF payload[r].code THEN code ELSE event
  BY DEF FindCode, Goes, CreateGroup, ReadPromotion, TypeOK, Fresh, Before
<1>3. \A q \in Requests \ {r} : /\ q \in Created' <=> q \in Created
                                /\ q \in WithCode' <=> q \in WithCode
                                /\ q \in WithEvent' <=> q \in WithEvent
  BY <1>1 DEF Others, Created, WithCode, WithEvent
<1>4. r \notin Done \cup Instead \cup Taken
  BY <1>2 DEF Done, Instead, Taken, WithCode, WithEvent, Created, TypeOK, Before
<1>5. r \notin Done' \cup Instead' \cup Taken'
  <2>1. TypeOK' BY CheckingType, ReadingType, WritingType
  <2> QED BY <1>2, <2>1 DEF Done, Instead, Taken, WithCode, WithEvent, Created, TypeOK, Before
<1>6. Done' = Done /\ Instead' = Instead /\ Taken' = Taken
  <2>1. Done' \subseteq Requests /\ Instead' \subseteq Requests /\ Taken' \subseteq Requests
    BY DEF Done, Instead, Taken, WithCode, WithEvent, Created
  <2>2. \A q \in Requests \ {r} : /\ q \in Done' <=> q \in Done
                                  /\ q \in Instead' <=> q \in Instead
                                  /\ q \in Taken' <=> q \in Taken
    BY <1>1, <1>3 DEF Done, Instead, Taken, Others
  <2> QED BY <1>4, <1>5, <2>1, <2>2, Sets
<1>7. ASSUME NEW q \in Requests, request'[q].at = "promotion"
      PROVE  request'[q].copy = IF payload[q].code THEN code ELSE event
  <2>1. CASE q = r BY <1>2, <1>7, <2>1 DEF Before
  <2>2. CASE q # r BY <1>1, <1>7, <2>2 DEF CountedInv, Others
  <2> QED BY <2>1, <2>2
<1> QED BY <1>1, <1>6, <1>7 DEF CountedInv

LEMMA CountedStep == TypeOK /\ Meeting /\ CountedInv /\ [Next]_vars => CountedInv'
<1> SUFFICES ASSUME TypeOK, Meeting, CountedInv, [Next]_vars, Apart(Requests)' PROVE CountedInv'
  BY DEF CountedInv
<1> QED BY ApartBefore, CountedAside, CountedWrite, CountedEvent, CountedBefore DEF Touches

LEMMA InitCounted == Init => CountedInv
<1> SUFFICES ASSUME Init PROVE CountedInv OBVIOUS
<1>1. Done = {} /\ Taken = {} /\ Instead = {} BY DEF Init, Created, WithCode, WithEvent, Done, Taken, Instead
<1>2. \A r \in Requests : request[r].at = "new" BY DEF Init, Fresh
<1>3. LimitCount \in Nat \ {0} BY OrderingAssumption
<1>4. code.used = 0 /\ event.used = 0 /\ code.spent = FALSE BY DEF Init, Unused
<1>5. (code.used >= LimitCount) = FALSE BY <1>3, <1>4
<1>6. code.spent = (code.used >= LimitCount) BY <1>4, <1>5
<1>7. Cardinality(Done) = 0 /\ Cardinality(Taken) = 0 /\ Cardinality(Instead) = 0 BY <1>1, FS_EmptySet
<1> QED BY <1>2, <1>4, <1>6, <1>7 DEF CountedInv

(* When requests come one after the other the code counts its group orders *)
(* and is out of stock at its limit, not before; the event counts its own  *)
(* as long as every group order came with a code.                          *)
THEOREM PromotionsCountTheirUses == Spec => []PromotionsCounted
<1>1. Spec => [](TypeOK /\ CountedInv)
  BY InitType, TypeStep, InitMeeting, MeetingStep, InitCounted, CountedStep, PTL DEF Spec
<1>2. TypeOK /\ CountedInv => PromotionsCounted
  <2> SUFFICES ASSUME TypeOK, CountedInv, Apart(Requests), Running \subseteq {AddPoints}
               PROVE  /\ code.used = Cardinality(WithCode)
                      /\ Created = WithCode => event.used = Cardinality(WithEvent)
                      /\ code.spent = (code.used >= LimitCount)
    BY DEF PromotionsCounted
  <2>1. \A r \in Requests : request[r].at \notin Waiting
    BY OrderingAssumption DEF Running, Resting, Waiting
  <2>2. Done = WithCode /\ Taken = WithEvent /\ Instead = Created \ WithCode
    BY <2>1, Sets DEF Done, Taken, Instead, WithCode, WithEvent, Waiting
  <2>3. WithEvent \in SUBSET Requests BY DEF WithEvent, Created
  <2>4. Cardinality(WithEvent) \in Nat BY <2>3, FewRequests
  <2>5. Created = WithCode => Cardinality(Instead) = 0
    <3>1. Created = WithCode => Instead = {} BY <2>2
    <3> QED BY <3>1, FS_EmptySet
  <2> QED BY <2>2, <2>4, <2>5 DEF CountedInv
<1> QED BY <1>1, <1>2, PTL
-----------------------------------------------------------------------------
(* Sums over sets of requests                                              *)

Any(s) == CHOOSE x \in s : TRUE

(* f is the sum of w over every set of S, taken one element after the other. *)
Adds(w, S, f) ==
    f = [s \in SUBSET S |-> IF s = {} THEN 0 ELSE w[Any(s)] + f[s \ {Any(s)}]]

Total(w, S) == (CHOOSE f : Adds(w, S, f))[S]

LEMMA AddsStep ==
    ASSUME NEW w, NEW S, NEW f, Adds(w, S, f), NEW s \in SUBSET S
    PROVE  f[s] = IF s = {} THEN 0 ELSE w[Any(s)] + f[s \ {Any(s)}]
<1> DEFINE g == [t \in SUBSET S |-> IF t = {} THEN 0 ELSE w[Any(t)] + f[t \ {Any(t)}]]
<1>1. f = g BY DEF Adds
<1>2. g[s] = IF s = {} THEN 0 ELSE w[Any(s)] + f[s \ {Any(s)}] OBVIOUS
<1> QED BY <1>1, <1>2

LEMMA AnyOf == ASSUME NEW s, s # {} PROVE Any(s) \in s
  BY DEF Any

LEMMA Smallest ==
    ASSUME NEW S, IsFiniteSet(S), NEW T \in SUBSET SUBSET S, T # {}
    PROVE  \E t \in T : \A u \in T : u \subseteq t => u = t
<1>1. IsWellFoundedOn(StrictSubsetOrdering(S), SUBSET S)
  BY FS_StrictSubsetOrderingWellFounded, FS_FiniteSubsetsOfFinite
<1>2. \E t \in T : \A u \in T : ~(<<u, t>> \in StrictSubsetOrdering(S)) BY <1>1, WFMin
<1> QED BY <1>2 DEF StrictSubsetOrdering

LEMMA AddsSame ==
    ASSUME NEW S, IsFiniteSet(S), NEW A, NEW B, S \subseteq A, S \subseteq B, NEW w, NEW v, NEW f, NEW g,
           Adds(w, A, f), Adds(v, B, g), \A x \in S : w[x] = v[x]
    PROVE  f[S] = g[S]
<1> DEFINE T == {s \in SUBSET S : f[s] # g[s]}
<1>1. SUFFICES ASSUME T # {} PROVE FALSE OBVIOUS
<1>2. PICK t \in T : \A u \in T : u \subseteq t => u = t
  <2>1. T \in SUBSET SUBSET S OBVIOUS
  <2> HIDE DEF T
  <2> QED BY <1>1, <2>1, Smallest
<1>3. t \in SUBSET S /\ t \in SUBSET A /\ t \in SUBSET B /\ f[t] # g[t] BY <1>2
<1>4. /\ f[t] = IF t = {} THEN 0 ELSE w[Any(t)] + f[t \ {Any(t)}]
      /\ g[t] = IF t = {} THEN 0 ELSE v[Any(t)] + g[t \ {Any(t)}]
  BY <1>3, AddsStep
<1>5. t # {} BY <1>3, <1>4
<1>6. Any(t) \in t BY <1>5, AnyOf
<1>7. f[t \ {Any(t)}] = g[t \ {Any(t)}] BY <1>2, <1>6
<1> QED BY <1>3, <1>4, <1>5, <1>6, <1>7

LEMMA AddsExists ==
    ASSUME NEW S, IsFiniteSet(S), NEW w
    PROVE  \E f : Adds(w, S, f)
<1> DEFINE T == {s \in SUBSET S : ~ \E f : Adds(w, s, f)}
<1>1. SUFFICES ASSUME T # {} PROVE FALSE OBVIOUS
<1>2. PICK t \in T : \A u \in T : u \subseteq t => u = t
  <2>1. T \in SUBSET SUBSET S OBVIOUS
  <2> HIDE DEF T
  <2> QED BY <1>1, <2>1, Smallest
<1> DEFINE F(u) == CHOOSE f : Adds(w, u, f)
           g == [s \in SUBSET t |-> IF s = {} THEN 0 ELSE w[Any(s)] + F(s \ {Any(s)})[s \ {Any(s)}]]
<1>3. ASSUME NEW u \in SUBSET t, u # t PROVE Adds(w, u, F(u)) BY <1>2, <1>3
<1>4. ASSUME NEW u \in SUBSET t, u # t PROVE g[u] = F(u)[u]
  <2>1. Adds(w, u, F(u)) BY <1>3, <1>4
  <2>2. F(u)[u] = IF u = {} THEN 0 ELSE w[Any(u)] + F(u)[u \ {Any(u)}] BY <2>1, AddsStep
  <2>3. CASE u = {} BY <2>2, <2>3
  <2>4. CASE u # {}
    <3> DEFINE v == u \ {Any(u)}
    <3>1. Any(u) \in u /\ v \subseteq u /\ v \in SUBSET t /\ v # t BY <2>4, AnyOf
    <3>2. Adds(w, v, F(v)) BY <1>3, <3>1
    <3>3. IsFiniteSet(v) BY <3>1, FS_Subset
    <3>4. F(u)[v] = F(v)[v] BY <2>1, <3>1, <3>2, <3>3, AddsSame
    <3>5. g[u] = w[Any(u)] + F(v)[v] BY <2>4
    <3> QED BY <2>2, <2>4, <3>4, <3>5
  <2> QED BY <2>3, <2>4
<1>5. ASSUME NEW s \in SUBSET t, s # {} PROVE g[s] = w[Any(s)] + g[s \ {Any(s)}]
  <2>1. Any(s) \in s BY <1>5, AnyOf
  <2>2. s \ {Any(s)} \in SUBSET t /\ s \ {Any(s)} # t BY <2>1
  <2>3. g[s] = w[Any(s)] + F(s \ {Any(s)})[s \ {Any(s)}] BY <1>5
  <2> HIDE DEF g, F
  <2> QED BY <1>4, <2>2, <2>3
<1>6. g[{}] = 0 OBVIOUS
<1>7. Adds(w, t, g)
  <2>1. g = [s \in SUBSET t |-> g[s]] OBVIOUS
  <2> HIDE DEF g
  <2>2. \A s \in SUBSET t : g[s] = IF s = {} THEN 0 ELSE w[Any(s)] + g[s \ {Any(s)}] BY <1>5, <1>6
  <2> QED BY <2>1, <2>2 DEF Adds
<1> QED BY <1>2, <1>7

LEMMA TotalAdds ==
    ASSUME NEW S, IsFiniteSet(S), NEW w
    PROVE  Adds(w, S, CHOOSE f : Adds(w, S, f))
  BY AddsExists

(* A sum is the same whatever the order.                                   *)
LEMMA AddsAny ==
    ASSUME NEW S, IsFiniteSet(S), NEW w, \A x \in S : w[x] \in Int, NEW f, Adds(w, S, f)
    PROVE  /\ \A s \in SUBSET S : f[s] \in Int
           /\ \A s \in SUBSET S : \A y \in s : f[s] = f[s \ {y}] + w[y]
<1>1. \A s \in SUBSET S : f[s] \in Int
  <2> DEFINE T == {s \in SUBSET S : f[s] \notin Int}
  <2>1. SUFFICES ASSUME T # {} PROVE FALSE OBVIOUS
  <2>2. PICK t \in T : \A u \in T : u \subseteq t => u = t
    <3>1. T \in SUBSET SUBSET S OBVIOUS
    <3> HIDE DEF T
    <3> QED BY <2>1, <3>1, Smallest
  <2>3. t \in SUBSET S /\ f[t] \notin Int /\ \A u \in SUBSET S : u \subseteq t /\ u # t => f[u] \in Int
    BY <2>2
  <2> HIDE DEF T
  <2>4. f[t] = IF t = {} THEN 0 ELSE w[Any(t)] + f[t \ {Any(t)}]
    <3>1. t \in SUBSET S BY <2>3
    <3> QED BY <3>1, AddsStep
  <2>5. t # {} BY <2>3, <2>4
  <2>6. Any(t) \in t BY <2>5, AnyOf
  <2>7. f[t \ {Any(t)}] \in Int /\ w[Any(t)] \in Int
    <3>1. t \ {Any(t)} \in SUBSET S /\ t \ {Any(t)} \subseteq t /\ t \ {Any(t)} # t /\ Any(t) \in S BY <2>3, <2>6
    <3> QED BY <2>3, <3>1
  <2> QED BY <2>3, <2>4, <2>5, <2>7
<1>2. \A s \in SUBSET S : \A y \in s : f[s] = f[s \ {y}] + w[y]
  <2> DEFINE T == {s \in SUBSET S : \E y \in s : f[s] # f[s \ {y}] + w[y]}
  <2>1. SUFFICES ASSUME T # {} PROVE FALSE OBVIOUS
  <2>2. PICK t \in T : \A u \in T : u \subseteq t => u = t
    <3>1. T \in SUBSET SUBSET S OBVIOUS
    <3> HIDE DEF T
    <3> QED BY <2>1, <3>1, Smallest
  <2>3. PICK y \in t : f[t] # f[t \ {y}] + w[y] BY <2>2
  <2>4. /\ t \in SUBSET S /\ t # {}
        /\ \A u \in SUBSET S : u \subseteq t /\ u # t => \A z \in u : f[u] = f[u \ {z}] + w[z]
    BY <2>2, <2>3
  <2> HIDE DEF T
  <2> DEFINE x == Any(t)
  <2>5. x \in t BY <2>4, AnyOf
  <2>6. f[t] = w[x] + f[t \ {x}]
    <3>1. f[t] = IF t = {} THEN 0 ELSE w[Any(t)] + f[t \ {Any(t)}] BY <2>4, AddsStep
    <3> QED BY <2>4, <3>1
  <2> HIDE DEF x
  <2>7. /\ w[x] \in Int /\ w[y] \in Int /\ f[t \ {x}] \in Int /\ f[t \ {y}] \in Int
        /\ f[(t \ {x}) \ {y}] \in Int
    <3>1. x \in S /\ y \in S /\ t \ {x} \in SUBSET S /\ t \ {y} \in SUBSET S /\ (t \ {x}) \ {y} \in SUBSET S
      BY <2>3, <2>4, <2>5
    <3> QED BY <1>1, <3>1
  <2>8. x # y
    <3>1. w[x] + f[t \ {x}] = f[t \ {x}] + w[x] BY <2>7
    <3> QED BY <2>3, <2>6, <3>1
  <2>9. f[t \ {x}] = f[(t \ {x}) \ {y}] + w[y]
    <3>1. t \ {x} \subseteq t /\ t \ {x} # t /\ t \ {x} \in SUBSET S /\ y \in t \ {x} BY <2>3, <2>4, <2>5, <2>8
    <3> QED BY <2>4, <3>1
  <2>10. f[t \ {y}] = f[(t \ {y}) \ {x}] + w[x]
    <3>1. t \ {y} \subseteq t /\ t \ {y} # t /\ t \ {y} \in SUBSET S /\ x \in t \ {y} BY <2>3, <2>4, <2>5, <2>8
    <3> QED BY <2>4, <3>1
  <2>11. (t \ {y}) \ {x} = (t \ {x}) \ {y} OBVIOUS
  <2>12. w[x] + (f[(t \ {x}) \ {y}] + w[y]) = (f[(t \ {x}) \ {y}] + w[x]) + w[y] BY <2>7
  <2> QED BY <2>3, <2>6, <2>9, <2>10, <2>11, <2>12
<1> QED BY <1>1, <1>2

LEMMA TotalNothing == ASSUME NEW w PROVE Total(w, {}) = 0
<1>1. Adds(w, {}, CHOOSE f : Adds(w, {}, f)) BY TotalAdds, FS_EmptySet
<1> QED BY <1>1, AddsStep DEF Total

LEMMA TotalSame ==
    ASSUME NEW S, IsFiniteSet(S), NEW w, NEW v, \A x \in S : w[x] = v[x]
    PROVE  Total(w, S) = Total(v, S)
<1>1. Adds(w, S, CHOOSE f : Adds(w, S, f)) /\ Adds(v, S, CHOOSE f : Adds(v, S, f)) BY TotalAdds
<1> QED BY <1>1, AddsSame DEF Total

LEMMA TotalOneMore ==
    ASSUME NEW S, IsFiniteSet(S), NEW y, y \notin S, NEW w, \A x \in S \cup {y} : w[x] \in Int
    PROVE  Total(w, S \cup {y}) = Total(w, S) + w[y] /\ Total(w, S) \in Int
<1> DEFINE U == S \cup {y}
           f == CHOOSE h : Adds(w, S, h)
           g == CHOOSE h : Adds(w, U, h)
<1>1. IsFiniteSet(U) BY FS_AddElement
<1>2. Adds(w, S, f) /\ Adds(w, U, g) BY <1>1, TotalAdds
<1>3. f[S] = g[S] BY <1>2, AddsSame
<1>4. g[U] = g[U \ {y}] + w[y]
  <2> HIDE DEF g
  <2>1. y \in U /\ (\A x \in U : w[x] \in Int) /\ U \in SUBSET U OBVIOUS
  <2> HIDE DEF U
  <2> QED BY <1>1, <1>2, <2>1, AddsAny
<1>5. U \ {y} = S OBVIOUS
<1>6. f[S] \in Int BY <1>2, AddsAny
<1> QED BY <1>3, <1>4, <1>5, <1>6 DEF Total

(* The sums of the module are these.                                       *)
LEMMA OrdersAreTotal ==
    ASSUME NEW S, IsFiniteSet(S), NEW w, \A r \in S : w[r] = group[r].orders
    PROVE  MapThenSumSet(LAMBDA r : group[r].orders, S) = Total(w, S)
<1> DEFINE I(f) == f = [s \in SUBSET S |->
                          IF s = {} THEN 0
                          ELSE group[CHOOSE r \in s : TRUE].orders + f[s \ {CHOOSE r \in s : TRUE}]]
<1>1. MapThenSumSet(LAMBDA r : group[r].orders, S) = (CHOOSE f : I(f))[S] BY DEF MapThenSumSet, MapThenFoldSet
<1>2. ASSUME NEW f PROVE I(f) <=> Adds(w, S, f) BY AnyOf DEF Adds, Any
<1>3. I(CHOOSE f : I(f))
  <2>1. PICK f : Adds(w, S, f) BY AddsExists
  <2>2. \E g : I(g)
    <3>1. I(f) BY <1>2, <2>1
    <3> HIDE DEF I
    <3> QED BY <3>1
  <2> HIDE DEF I
  <2> QED BY <2>2
<1>4. Adds(w, S, CHOOSE f : I(f)) BY <1>2, <1>3
<1> QED BY <1>1, <1>4, TotalAdds, AddsSame DEF Total

LEMMA DatesAreTotal ==
    ASSUME NEW S, IsFiniteSet(S), NEW w, \A r \in S : w[r] = payload[r].dates
    PROVE  MapThenSumSet(LAMBDA r : payload[r].dates, S) = Total(w, S)
<1> DEFINE I(f) == f = [s \in SUBSET S |->
                          IF s = {} THEN 0
                          ELSE payload[CHOOSE r \in s : TRUE].dates + f[s \ {CHOOSE r \in s : TRUE}]]
<1>1. MapThenSumSet(LAMBDA r : payload[r].dates, S) = (CHOOSE f : I(f))[S] BY DEF MapThenSumSet, MapThenFoldSet
<1>2. ASSUME NEW f PROVE I(f) <=> Adds(w, S, f) BY AnyOf DEF Adds, Any
<1>3. I(CHOOSE f : I(f))
  <2>1. PICK f : Adds(w, S, f) BY AddsExists
  <2>2. \E g : I(g)
    <3>1. I(f) BY <1>2, <2>1
    <3> HIDE DEF I
    <3> QED BY <3>1
  <2> HIDE DEF I
  <2> QED BY <2>2
<1>4. Adds(w, S, CHOOSE f : I(f)) BY <1>2, <1>3
<1> QED BY <1>1, <1>4, TotalAdds, AddsSame DEF Total
-----------------------------------------------------------------------------
(* The pay points                                                          *)

PaidBy(c) == {r \in Created \cap Of(c) : group[r].paid}
Dates == [r \in Requests |-> payload[r].dates]

PointsInv ==
    /\ \A r \in Created : group[r].paid => request[r].at \in {"settled", "served", "failed"}
    /\ \A c \in Customers : Apart(Writers(c)) =>
          /\ points[c] = Balance - Total(Dates, PaidBy(c)) + IF c = Receiver /\ adding.at = "over" THEN 1 ELSE 0
          /\ points[c] >= 0
          /\ \A r \in Paying(c) : /\ request[r].at \in {"paying", "balanced"} => request[r].balance = points[c]
                                  /\ request[r].at = "balanced" => points[c] >= payload[r].dates
          /\ c = Receiver /\ adding.at = "read" => adding.balance = points[c]

Writes(r) == PayReads(r) \/ PayChecks(r) \/ PayWrites(r)

LEMMA StepUnpaid ==
    ASSUME TypeOK, NEW r \in Requests, Step(r), ~Writes(r)
    PROVE  /\ points' = points /\ adding' = adding
           /\ request'[r].at \notin {"paying", "balanced"}
           /\ r \in Created' /\ group'[r].paid <=> r \in Created /\ group[r].paid
           /\ request[r].at \in {"settled", "served", "failed"} => request'[r].at \in {"settled", "served", "failed"}
<1>1. /\ request \in [Requests -> RequestState] /\ request[r] \in RequestState
      /\ payload[r].method \in Methods
  BY PayloadType DEF TypeOK, RequestState
<1>2. TypeOK' BY CheckingType, ReadingType, WritingType DEF Step
<1> USE <1>1 DEF RequestState, Goes
<1>3. CASE Arrive(r) \/ FindCode(r) \/ CheckBalance(r)
  BY <1>3 DEF Arrive, FindCode, CheckBalance, documents, Created
<1>4. CASE TakeEvent(r) BY <1>4 DEF TakeEvent, documents, Created
<1>5. CASE ReadNumber(r)
  <2>1. request'[r].at = "numbered" BY <1>5 DEF ReadNumber
  <2> QED BY <1>5, <2>1 DEF ReadNumber, documents, Created
<1>6. CASE CreateGroup(r)
  <2>1. r \notin Created BY <1>6 DEF CreateGroup, Created, TypeOK, Before
  <2>2. ~group'[r].paid BY <1>6 DEF CreateGroup, TypeOK
  <2> QED BY <1>6, <2>1, <2>2 DEF CreateGroup, Fresh
<1>7. CASE ReadPromotion(r) BY <1>7 DEF ReadPromotion, documents, Created
<1>8. CASE WritePromotion(r) BY <1>8 DEF WritePromotion, Created, Fresh
<1>9. CASE CountEvent(r) BY <1>9 DEF CountEvent, Created
<1>10. CASE CreateOrders(r)
  <2>1. r \in Created /\ r \in Created'
    <3>1. request[r].at \notin Before /\ request'[r].at \notin Before
      BY <1>10 DEF CreateOrders, Settled, Methods, Before
    <3> QED BY <1>2, <3>1 DEF TypeOK, Created
  <2>2. group'[r].paid = group[r].paid
    <3>1. group[r] \in GroupOrder BY <2>1 DEF Created, TypeOK
    <3>2. group'[r] = [group[r] EXCEPT !.orders = payload[r].dates] BY <1>10 DEF CreateOrders, TypeOK
    <3> QED BY <3>1, <3>2 DEF GroupOrder
  <2> QED BY <1>10, <2>1, <2>2 DEF CreateOrders, Settled, Methods
<1>11. CASE AskGateway(r) BY <1>11 DEF AskGateway, Settled, documents, Created
<1>12. CASE Assign(r)
  <2>1. r \in Created /\ r \in Created'
    <3>1. request[r].at \notin Before /\ request'[r].at \notin Before BY <1>12 DEF Assign, Before
    <3> QED BY <1>2, <3>1 DEF TypeOK, Created
  <2>2. group'[r].paid = group[r].paid
    <3>1. group[r] \in GroupOrder BY <2>1 DEF Created, TypeOK
    <3>2. group'[r] = [group[r] EXCEPT !.status = "confirm"] \/ group' = group BY <1>12 DEF Assign, TypeOK
    <3> QED BY <3>1, <3>2 DEF GroupOrder
  <2> QED BY <1>12, <2>1, <2>2 DEF Assign
<1> QED BY <1>3, <1>4, <1>5, <1>6, <1>7, <1>8, <1>9, <1>10, <1>11, <1>12 DEF Step, Writes

LEMMA PointsKept ==
    ASSUME TypeOK, PointsInv, [Next]_vars, \A r \in Requests : ~Writes(r), ~AddReads, ~AddWrites
    PROVE  PointsInv'
<1>1. payload' = payload /\ \A p \in Procs : met[p] \subseteq met'[p] BY MetGrows
<1>2. /\ points' = points /\ adding' = adding
      /\ \A q \in Requests :
            /\ request'[q].at \in {"paying", "balanced"} => request'[q] = request[q]
            /\ q \in Created' /\ group'[q].paid <=> q \in Created /\ group[q].paid
            /\ request[q].at \in {"settled", "served", "failed"} => request'[q].at \in {"settled", "served", "failed"}
  <2>1. CASE UNCHANGED vars BY <2>1 DEF vars, documents, Created
  <2>2. CASE Tomorrow BY <2>2 DEF Tomorrow, documents, Created
  <2>3. ASSUME NEW r \in Requests, Step(r)
        PROVE  /\ points' = points /\ adding' = adding
               /\ \A q \in Requests :
                     /\ request'[q].at \in {"paying", "balanced"} => request'[q] = request[q]
                     /\ q \in Created' /\ group'[q].paid <=> q \in Created /\ group[q].paid
                     /\ request[q].at \in {"settled", "served", "failed"}
                           => request'[q].at \in {"settled", "served", "failed"}
    <3>1. Others(r) BY <2>3, CheckingType, ReadingType, WritingType DEF Step
    <3> QED BY <2>3, <3>1, StepUnpaid DEF Others, Created
  <2> QED BY <2>1, <2>2, <2>3 DEF Next
<1>3. ASSUME NEW c \in Customers
      PROVE  /\ PaidBy(c)' = PaidBy(c) /\ Dates' = Dates /\ Writers(c)' = Writers(c) /\ Paying(c)' = Paying(c)
             /\ Apart(Writers(c))' => Apart(Writers(c))
             /\ Paying(c) \subseteq Requests
  <2>1. /\ Dates' = Dates /\ Writers(c)' = Writers(c) /\ Of(c)' = Of(c) /\ Paying(c)' = Paying(c)
        /\ Writers(c) \subseteq Procs /\ Paying(c) \subseteq Requests
    BY <1>1 DEF Dates, Writers, Paying, Of, Procs
  <2>2. PaidBy(c)' = PaidBy(c) BY <1>2, <2>1 DEF PaidBy, Created
  <2> QED BY <1>1, <2>1, <2>2 DEF Apart
<1>4. \A r \in Created' : group'[r].paid => request'[r].at \in {"settled", "served", "failed"}
  BY <1>2 DEF PointsInv, Created
<1> QED BY <1>1, <1>2, <1>3, <1>4 DEF PointsInv

(* A request by points, or the added point, writes them alone.             *)
LEMMA WritesAlone ==
    ASSUME TypeOK, Meeting, NEW c \in Customers, Apart(Writers(c)), NEW p \in Writers(c), p \in Running,
           NEW q \in Writers(c), q # p
    PROVE  q \notin Running
  BY DEF Meeting, Apart

LEMMA PayFacts ==
    ASSUME TypeOK, PointsFirst, NEW r \in Requests, Writes(r)
    PROVE  /\ Others(r) /\ payload' = payload /\ met' = met /\ adding' = adding /\ Created' = Created
           /\ r \in Created /\ r \in Paying(payload[r].customer) /\ r \in Running
<1>1. Others(r) BY CheckingType, ReadingType, WritingType DEF Writes
<1>2. request[r].at \in {"point", "paying", "balanced"}
  BY DEF Writes, PayReads, PayChecks, PayWrites
<1>3. payload' = payload /\ met' = met /\ adding' = adding
  BY DEF Writes, PayReads, PayChecks, PayWrites
<1>4. r \in Paying(payload[r].customer) BY <1>2 DEF PointsFirst, Paying, Of
<1>5. r \in Created /\ r \in Running BY <1>2 DEF Created, Running, Resting, TypeOK, Before
<1>6. Created' = Created
  <2>1. CASE PayReads(r) \/ PayChecks(r) BY <2>1 DEF PayReads, PayChecks, documents, Created
  <2>2. CASE PayWrites(r)
    <3>1. group'[r] = [group[r] EXCEPT !.paid = TRUE] /\ group[r] \in GroupOrder
      BY <1>5, <2>2 DEF PayWrites, TypeOK, Created
    <3>2. group'[r] \in GroupOrder BY <3>1 DEF GroupOrder
    <3> QED BY <1>1, <1>5, <3>2, NoGroupOrder DEF Others, Created
  <2> QED BY <2>1, <2>2 DEF Writes
<1> QED BY <1>1, <1>3, <1>4, <1>5, <1>6

(* What is the same whenever a customer's points are read or written.      *)
LEMMA SameWriters ==
    ASSUME TypeOK, [Next]_vars, NEW c \in Customers
    PROVE  /\ payload' = payload
           /\ Dates' = Dates /\ Writers(c)' = Writers(c) /\ Paying(c)' = Paying(c) /\ Of(c)' = Of(c)
           /\ Apart(Writers(c))' => Apart(Writers(c))
           /\ Paying(c) \subseteq Requests /\ Paying(c) \subseteq Writers(c)
           /\ PaidBy(c) \in SUBSET Requests
           /\ c = Receiver => AddPoints \in Writers(c)
           /\ Balance \in Int /\ Total(Dates, PaidBy(c)) \in Int
<1>1. payload' = payload /\ \A p \in Procs : met[p] \subseteq met'[p] BY MetGrows
<1>2. /\ Dates' = Dates /\ Writers(c)' = Writers(c) /\ Paying(c)' = Paying(c) /\ Of(c)' = Of(c)
      /\ Writers(c) \subseteq Procs /\ Paying(c) \subseteq Requests /\ Paying(c) \subseteq Writers(c)
      /\ c = Receiver => AddPoints \in Writers(c)
  BY <1>1 DEF Dates, Writers, Paying, Of, Procs
<1>3. PaidBy(c) \in SUBSET Requests BY DEF PaidBy, Created
<1>4. Total(Dates, PaidBy(c)) \in Int
  <2>1. IsFiniteSet(PaidBy(c)) BY <1>3, FewRequests
  <2>2. \A r \in PaidBy(c) : Dates[r] \in Int BY <1>3, PayloadType DEF Dates
  <2>3. Adds(Dates, PaidBy(c), CHOOSE f : Adds(Dates, PaidBy(c), f)) BY <2>1, TotalAdds
  <2>4. PaidBy(c) \in SUBSET PaidBy(c) OBVIOUS
  <2> QED BY <2>1, <2>2, <2>3, <2>4, AddsAny DEF Total
<1> QED BY <1>1, <1>2, <1>3, <1>4, OrderingAssumption DEF Apart

LEMMA PointsRead ==
    ASSUME TypeOK, Meeting, PointsFirst, PointsInv, NEW r \in Requests, PayReads(r) \/ PayChecks(r)
    PROVE  PointsInv'
<1>1. /\ Others(r) /\ payload' = payload /\ adding' = adding /\ Created' = Created /\ group' = group
      /\ points' = points
  BY PayFacts DEF Writes, PayReads, PayChecks, documents
<1>2. [Next]_vars BY DEF Next, Step
<1>3. \A q \in Created' : group'[q].paid => request'[q].at \in {"settled", "served", "failed"}
  <2>1. request[r].at \notin {"settled", "served", "failed"} BY DEF PayReads, PayChecks
  <2> QED BY <1>1, <2>1 DEF PointsInv, Others, Created
<1>4. ASSUME NEW c \in Customers, Apart(Writers(c))'
      PROVE  /\ points'[c] = Balance - Total(Dates, PaidBy(c))'
                               + IF c = Receiver /\ adding'.at = "over" THEN 1 ELSE 0
             /\ points'[c] >= 0
             /\ c = Receiver /\ adding'.at = "read" => adding'.balance = points'[c]
  <2>1. PaidBy(c)' = PaidBy(c) /\ Dates' = Dates BY <1>1, <1>2, SameWriters DEF PaidBy
  <2> QED BY <1>1, <1>2, <1>4, <2>1, SameWriters DEF PointsInv
<1>5. ASSUME NEW c \in Customers, Apart(Writers(c))', NEW q \in Paying(c)'
      PROVE  /\ request'[q].at \in {"paying", "balanced"} => request'[q].balance = points'[c]
             /\ request'[q].at = "balanced" => points'[c] >= payload'[q].dates
  <2>1. Apart(Writers(c)) /\ q \in Paying(c) /\ q \in Requests BY <1>2, <1>5, SameWriters
  <2>2. CASE q # r BY <1>1, <2>1, <2>2 DEF PointsInv, Others
  <2>3. CASE q = r /\ PayReads(r)
    <3>1. request'[r].at = "paying" /\ request'[r].balance = points[payload[r].customer]
      BY <2>3 DEF PayReads, TypeOK
    <3>2. payload[r].customer = c BY <2>1, <2>3 DEF Paying, Of
    <3> QED BY <1>1, <2>3, <3>1, <3>2
  <2>4. CASE q = r /\ PayChecks(r)
    <3>1. payload[r].customer = c BY <2>1, <2>4 DEF Paying, Of
    <3>2. /\ request[r].at = "paying" /\ request'[r].balance = request[r].balance
          /\ request'[r].at = "balanced" => ~(points[c] < payload[r].dates)
      BY <2>4, <3>1 DEF PayChecks, Goes, TypeOK
    <3>3. request[r].balance = points[c] BY <2>1, <2>4, <3>2 DEF PointsInv
    <3>4. points[c] \in Int /\ payload[r].dates \in Int BY PayloadType DEF TypeOK
    <3> QED BY <1>1, <2>4, <3>2, <3>3, <3>4
  <2> QED BY <2>2, <2>3, <2>4
<1> QED BY <1>3, <1>4, <1>5 DEF PointsInv

LEMMA PointsPaid ==
    ASSUME TypeOK, Meeting, PointsFirst, PointsInv, NEW r \in Requests, PayWrites(r)
    PROVE  PointsInv'
<1>0. PICK d \in Customers : d = payload[r].customer BY PayloadType
<1>1. /\ Others(r) /\ payload' = payload /\ adding' = adding /\ Created' = Created
      /\ r \in Created /\ r \in Paying(d) /\ r \in Running /\ d \in Customers
      /\ payload[r].dates \in Nat \ {0}
  BY <1>0, PayFacts, PayloadType DEF Writes
<1>2. [Next]_vars BY DEF Next, Step
<1>3. /\ request[r].at = "balanced"
      /\ points' = [points EXCEPT ![d] = request[r].balance - payload[r].dates]
      /\ request'[r].at \in {"settled", "served"}
      /\ group'[r].paid
  <2>1. group[r] \in GroupOrder BY <1>1 DEF TypeOK, Created
  <2>2. group'[r].paid BY <2>1 DEF PayWrites, TypeOK, GroupOrder
  <2>3. request'[r].at \in {"settled", "served"} BY DEF PayWrites, TypeOK, Settled, Fresh
  <2> QED BY <1>0, <2>2, <2>3 DEF PayWrites
<1>4. ~group[r].paid BY <1>1, <1>3 DEF PointsInv
<1>5. \A q \in Created' : group'[q].paid => request'[q].at \in {"settled", "served", "failed"}
  BY <1>1, <1>3 DEF PointsInv, Others, Created
<1>6. points \in [Customers -> Int] /\ points' \in [Customers -> Int]
  BY WritingType DEF TypeOK
<1>7. ASSUME NEW c \in Customers, Apart(Writers(c))', c # d
      PROVE  /\ points'[c] = Balance - Total(Dates, PaidBy(c))'
                               + IF c = Receiver /\ adding'.at = "over" THEN 1 ELSE 0
             /\ points'[c] >= 0
             /\ c = Receiver /\ adding'.at = "read" => adding'.balance = points'[c]
             /\ \A q \in Paying(c)' :
                  /\ request'[q].at \in {"paying", "balanced"} => request'[q].balance = points'[c]
                  /\ request'[q].at = "balanced" => points'[c] >= payload'[q].dates
  <2>1. points'[c] = points[c] BY <1>3, <1>6, <1>7
  <2>2. r \notin Of(c) BY <1>0, <1>7 DEF Of
  <2>3. PaidBy(c)' = PaidBy(c)
    <3>1. Of(c)' = Of(c) BY <1>2, SameWriters
    <3> QED BY <1>1, <2>2, <3>1 DEF PaidBy, Others, Created
  <2>4. Dates' = Dates /\ Apart(Writers(c)) /\ Paying(c)' = Paying(c) /\ Paying(c) \subseteq Requests
    BY <1>2, <1>7, SameWriters
  <2>5. \A q \in Paying(c) : q # r BY <2>2 DEF Paying
  <2>6. \A q \in Paying(c) : request'[q] = request[q] BY <1>1, <2>4, <2>5 DEF Others
  <2> QED BY <1>1, <2>1, <2>3, <2>4, <2>6 DEF PointsInv
<1>8. ASSUME Apart(Writers(d))'
      PROVE  /\ points'[d] = Balance - Total(Dates, PaidBy(d))'
                               + IF d = Receiver /\ adding'.at = "over" THEN 1 ELSE 0
             /\ points'[d] >= 0
             /\ d = Receiver /\ adding'.at = "read" => adding'.balance = points'[d]
             /\ \A q \in Paying(d)' :
                  /\ request'[q].at \in {"paying", "balanced"} => request'[q].balance = points'[d]
                  /\ request'[q].at = "balanced" => points'[d] >= payload'[q].dates
  <2>1. /\ Dates' = Dates /\ Apart(Writers(d)) /\ Paying(d)' = Paying(d) /\ Paying(d) \subseteq Requests
        /\ PaidBy(d) \in SUBSET Requests /\ Paying(d) \subseteq Writers(d)
        /\ d = Receiver => AddPoints \in Writers(d)
        /\ Balance \in Int /\ Total(Dates, PaidBy(d)) \in Int /\ Of(d)' = Of(d)
    BY <1>1, <1>2, <1>8, SameWriters
  <2>2. points'[d] = points[d] - payload[r].dates
    <3>1. request[r].balance = points[d] BY <1>1, <1>3, <2>1 DEF PointsInv
    <3> QED BY <1>1, <1>3, <1>6, <3>1
  <2>3. points'[d] >= 0
    <3>1. points[d] >= payload[r].dates BY <1>1, <1>3, <2>1 DEF PointsInv
    <3>2. points[d] \in Int /\ payload[r].dates \in Int BY <1>1, <1>6
    <3> QED BY <2>2, <3>1, <3>2
  <2>4. PaidBy(d)' = PaidBy(d) \cup {r} /\ r \notin PaidBy(d)
    <3>1. r \in Of(d) BY <1>1 DEF Paying
    <3> QED BY <1>1, <1>3, <1>4, <2>1, <3>1 DEF PaidBy, Others, Created
  <2>5. Total(Dates, PaidBy(d))' = Total(Dates, PaidBy(d)) + payload[r].dates
    <3>1. IsFiniteSet(PaidBy(d)) BY <2>1, FewRequests
    <3>2. \A x \in PaidBy(d) \cup {r} : Dates[x] \in Int BY <2>1, PayloadType DEF Dates
    <3>3. Total(Dates, PaidBy(d) \cup {r}) = Total(Dates, PaidBy(d)) + Dates[r]
      BY <2>4, <3>1, <3>2, TotalOneMore
    <3>4. Dates[r] = payload[r].dates BY DEF Dates
    <3>5. Total(Dates, PaidBy(d))' = Total(Dates', PaidBy(d)') BY DEF Total
    <3> QED BY <2>1, <2>4, <3>3, <3>4, <3>5
  <2>6. points[d] = Balance - Total(Dates, PaidBy(d)) + IF d = Receiver /\ adding.at = "over" THEN 1 ELSE 0
    BY <1>1, <2>1 DEF PointsInv
  <2>7. points'[d] = Balance - Total(Dates, PaidBy(d))' + IF d = Receiver /\ adding'.at = "over" THEN 1 ELSE 0
    <3>1. payload[r].dates \in Int BY <1>1
    <3> QED BY <1>1, <2>1, <2>2, <2>5, <2>6, <3>1
  <2>8. d = Receiver => adding.at # "read"
    <3>1. SUFFICES ASSUME d = Receiver, adding.at = "read" PROVE FALSE OBVIOUS
    <3>2. AddPoints \in Running /\ AddPoints \in Writers(d) /\ AddPoints # r
      BY <2>1, <3>1, OrderingAssumption DEF Running
    <3> QED BY <1>1, <2>1, <3>2, WritesAlone
  <2>9. ASSUME NEW q \in Paying(d) PROVE request'[q].at \notin {"paying", "balanced"}
    <3>1. CASE q = r BY <1>3, <3>1
    <3>2. CASE q # r
      <4>1. q \notin Running BY <1>1, <2>1, <3>2, WritesAlone
      <4>2. request'[q] = request[q] /\ q \in Requests BY <1>1, <2>1, <3>2 DEF Others
      <4> QED BY <4>1, <4>2 DEF Running, Resting
    <3> QED BY <3>1, <3>2
  <2> QED BY <1>1, <2>1, <2>3, <2>7, <2>8, <2>9
<1> QED BY <1>1, <1>5, <1>7, <1>8 DEF PointsInv

LEMMA PointsAdded ==
    ASSUME TypeOK, Meeting, PointsInv, AddReads \/ AddWrites
    PROVE  PointsInv'
<1>1. request' = request /\ group' = group BY AroundType
<1>2. [Next]_vars BY DEF Next
<1>3. \A q \in Created' : group'[q].paid => request'[q].at \in {"settled", "served", "failed"}
  BY <1>1 DEF PointsInv, Created
<1>4. points \in [Customers -> Int] /\ adding \in [at : {"new", "read", "over"}, balance : Int]
      /\ Receiver \in Customers
  BY OrderingAssumption DEF TypeOK
<1>5. ASSUME NEW c \in Customers, Apart(Writers(c))'
      PROVE  /\ points'[c] = Balance - Total(Dates, PaidBy(c))'
                               + IF c = Receiver /\ adding'.at = "over" THEN 1 ELSE 0
             /\ points'[c] >= 0
             /\ c = Receiver /\ adding'.at = "read" => adding'.balance = points'[c]
             /\ \A q \in Paying(c)' :
                  /\ request'[q].at \in {"paying", "balanced"} => request'[q].balance = points'[c]
                  /\ request'[q].at = "balanced" => points'[c] >= payload'[q].dates
  <2>1. /\ payload' = payload
        /\ Dates' = Dates /\ Apart(Writers(c)) /\ Paying(c)' = Paying(c) /\ Paying(c) \subseteq Requests
        /\ Paying(c) \subseteq Writers(c)
        /\ c = Receiver => AddPoints \in Writers(c)
        /\ Balance \in Int /\ Total(Dates, PaidBy(c)) \in Int /\ Of(c)' = Of(c)
    BY <1>2, <1>5, SameWriters
  <2>2. PaidBy(c)' = PaidBy(c) BY <1>1, <2>1 DEF PaidBy, Created
  <2>3. Total(Dates, PaidBy(c))' = Total(Dates, PaidBy(c)) BY <2>1, <2>2 DEF Total
  <2>4. /\ points[c] = Balance - Total(Dates, PaidBy(c)) + IF c = Receiver /\ adding.at = "over" THEN 1 ELSE 0
        /\ points[c] >= 0
        /\ \A q \in Paying(c) : /\ request[q].at \in {"paying", "balanced"} => request[q].balance = points[c]
                                /\ request[q].at = "balanced" => points[c] >= payload[q].dates
        /\ c = Receiver /\ adding.at = "read" => adding.balance = points[c]
    BY <2>1 DEF PointsInv
  <2>5. CASE AddReads
    <3>1. adding.at = "new" /\ adding'.at = "read" /\ adding'.balance = points[Receiver] /\ points' = points
      BY <1>4, <2>5 DEF AddReads, documents
    <3> QED BY <1>1, <2>1, <2>3, <2>4, <3>1
  <2>6. CASE AddWrites /\ c # Receiver
    <3>1. points'[c] = points[c] BY <1>4, <2>6 DEF AddWrites
    <3> QED BY <1>1, <2>1, <2>3, <2>4, <2>6, <3>1
  <2>7. CASE AddWrites /\ c = Receiver
    <3>1. adding.at = "read" /\ adding'.at = "over" BY <1>4, <2>7 DEF AddWrites
    <3>2. points'[c] = points[c] + 1 BY <1>4, <2>4, <2>7, <3>1 DEF AddWrites
    <3>3. AddPoints \in Running /\ AddPoints \in Writers(c) BY <2>1, <2>7, <3>1 DEF Running
    <3>4. \A q \in Paying(c) : request[q].at \notin {"paying", "balanced"}
      <4> SUFFICES ASSUME NEW q \in Paying(c) PROVE request[q].at \notin {"paying", "balanced"} OBVIOUS
      <4>1. q \in Writers(c) /\ q \in Requests /\ q # AddPoints BY <2>1, OrderingAssumption
      <4>2. q \notin Running BY <2>1, <3>3, <4>1, WritesAlone
      <4> QED BY <4>1, <4>2 DEF Running, Resting
    <3>5. points[c] \in Int BY <1>4
    <3>6. points[c] = Balance - Total(Dates, PaidBy(c)) BY <2>1, <2>4, <3>1
    <3>7. points'[c] = Balance - Total(Dates, PaidBy(c)) + 1 /\ points'[c] >= 0
      BY <2>1, <2>4, <3>2, <3>5, <3>6
    <3> QED BY <1>1, <2>1, <2>3, <2>7, <3>1, <3>4, <3>7
  <2> QED BY <2>5, <2>6, <2>7
<1> QED BY <1>3, <1>5 DEF PointsInv

LEMMA PointsStep == TypeOK /\ Meeting /\ PointsFirst /\ PointsInv /\ [Next]_vars => PointsInv'
  BY PointsKept, PointsRead, PointsPaid, PointsAdded DEF Writes

LEMMA InitPoints == Init => PointsInv
<1> SUFFICES ASSUME Init PROVE PointsInv OBVIOUS
<1>1. Created = {} BY DEF Init, Created
<1>2. \A r \in Requests : request[r].at = "new" BY DEF Init, Fresh
<1>3. ASSUME NEW c \in Customers
      PROVE  /\ points[c] = Balance - Total(Dates, PaidBy(c)) /\ points[c] >= 0 /\ adding.at = "new"
             /\ points[c] \in Int
  <2>1. PaidBy(c) = {} BY <1>1 DEF PaidBy
  <2>2. Total(Dates, PaidBy(c)) = 0 BY <2>1, TotalNothing
  <2> QED BY <2>2, OrderingAssumption DEF Init
<1>4. \A c \in Customers : Paying(c) \subseteq Requests BY DEF Paying, Of
<1>5. ASSUME NEW c \in Customers
      PROVE  points[c] = Balance - Total(Dates, PaidBy(c)) + IF c = Receiver /\ adding.at = "over" THEN 1 ELSE 0
  BY <1>3
<1> QED BY <1>1, <1>2, <1>3, <1>4, <1>5 DEF PointsInv

(* The points of a customer whose requests follow each other are what he   *)
(* had, less what he paid, plus what was added, and not negative.          *)
THEOREM PointsAreAccounted == Spec => []PointsAccounted
<1>1. Spec => [](TypeOK /\ PointsInv)
  BY InitType, TypeStep, InitMeeting, MeetingStep, InitEnough, PointsFirstStep, InitPoints, PointsStep, PTL
     DEF Spec
<1>2. TypeOK /\ PointsInv => PointsAccounted
  <2> SUFFICES ASSUME TypeOK, PointsInv, NEW c \in Customers, Apart(Writers(c))
               PROVE  /\ points[c] = Balance - MapThenSumSet(LAMBDA r : payload[r].dates,
                                                             {r \in Created \cap Of(c) : group[r].paid})
                                       + IF c = Receiver /\ adding.at = "over" THEN 1 ELSE 0
                      /\ points[c] >= 0
    BY DEF PointsAccounted
  <2>1. PaidBy(c) \in SUBSET Requests BY DEF PaidBy, Created
  <2>2. IsFiniteSet(PaidBy(c)) /\ \A r \in PaidBy(c) : Dates[r] = payload[r].dates
    BY <2>1, FewRequests DEF Dates
  <2>3. MapThenSumSet(LAMBDA r : payload[r].dates, PaidBy(c)) = Total(Dates, PaidBy(c))
    BY <2>2, DatesAreTotal
  <2> QED BY <2>3 DEF PointsInv, PaidBy
<1> QED BY <1>1, <1>2, PTL
-----------------------------------------------------------------------------
(* limited_use and the limit_count of the event                            *)

Had(S) == Total([r \in Requests |-> group[r].orders], S)

(* Let through with the event, and not yet created.                        *)
WithEventSoon == {"payable", "checked", "numbered"}

LimitInv ==
    \A r \in Requests :
        /\ Apart(Of(payload[r].customer)) =>
              /\ payload[r].code /\ request[r].at \in Allowed
                    => Had(WithCode \cap Of(payload[r].customer)) < LimitedUse
              /\ request[r].event /\ request[r].at \in WithEventSoon
                    => Had(WithEvent \cap Of(payload[r].customer)) < LimitedUse
        /\ Apart(Requests) /\ request[r].event /\ request[r].at \in WithEventSoon
              => Had(WithEvent) <= LimitCount

LEMMA HadOrders ==
    ASSUME TypeOK, NEW S \in SUBSET Created
    PROVE  Orders(S) = Had(S) /\ Had(S) \in Int
<1> DEFINE w == [r \in Requests |-> group[r].orders]
<1>1. S \in SUBSET Requests /\ S \cap Created = S /\ S \in SUBSET S BY DEF Created
<1>2. IsFiniteSet(S) BY <1>1, FewRequests
<1>3. \A r \in S : w[r] = group[r].orders /\ w[r] \in Int
  BY <1>1 DEF TypeOK, Created, GroupOrder
<1> HIDE DEF w
<1>4. MapThenSumSet(LAMBDA r : group[r].orders, S) = Total(w, S) BY <1>2, <1>3, OrdersAreTotal
<1>5. Adds(w, S, CHOOSE f : Adds(w, S, f)) BY <1>2, TotalAdds
<1>6. Total(w, S) \in Int BY <1>1, <1>2, <1>3, <1>5, AddsAny DEF Total
<1> QED BY <1>1, <1>4, <1>6 DEF Orders, Had, w

LEMMA HadSame ==
    ASSUME NEW S \in SUBSET Requests, \A r \in S : group'[r] = group[r]
    PROVE  Total([r \in Requests |-> group'[r].orders], S) = Had(S)
<1>1. IsFiniteSet(S) BY FewRequests
<1>2. \A r \in S : [q \in Requests |-> group'[q].orders][r] = [q \in Requests |-> group[q].orders][r] OBVIOUS
<1> QED BY <1>1, <1>2, TotalSame DEF Had

(* While a request is between the look at the promotions and its creation, *)
(* nobody else of a group whose requests run apart touches a group order.  *)
LEMMA Undisturbed ==
    ASSUME TypeOK, Meeting, [Next]_vars, NEW r \in Requests, NEW H \in SUBSET Requests, r \in H, Apart(H),
           request[r].at \in Allowed, ~Step(r)
    PROVE  \A q \in H : group'[q] = group[q]
<1>1. CASE UNCHANGED vars BY <1>1 DEF vars, documents
<1>2. CASE AddReads \/ AddWrites \/ Tomorrow BY <1>2, AroundType
<1>3. ASSUME NEW p \in Requests, Step(p), NEW q \in H PROVE group'[q] = group[q]
  <2>1. CASE Arrive(p) BY <2>1 DEF Arrive, documents
  <2>2. CASE ~Arrive(p)
    <3>1. p \in Running
      BY <1>3, <2>2 DEF Step, FindCode, TakeEvent, CheckBalance, ReadNumber, CreateGroup, ReadPromotion,
         WritePromotion, CountEvent, CreateOrders, PayReads, PayChecks, PayWrites, AskGateway, Assign,
         Running, Resting
    <3>2. r \in Running /\ p # r BY <1>3 DEF Running, Resting, Allowed
    <3>3. p \notin H BY <3>1, <3>2 DEF Meeting, Apart
    <3> QED BY <1>3, <3>3, CheckingType, ReadingType, WritingType DEF Step, Others
  <2> QED BY <2>1, <2>2
<1> QED BY <1>1, <1>2, <1>3 DEF Next

(* What was let through stays so as long as nobody disturbs it.            *)
LEMMA LimitKept ==
    ASSUME TypeOK, [Next]_vars, NEW H \in SUBSET Requests, \A q \in H : group'[q] = group[q]
    PROVE  /\ Had(WithCode \cap H)' = Had(WithCode \cap H)
           /\ Had(WithEvent \cap H)' = Had(WithEvent \cap H)
<1>1. payload' = payload BY MetGrows
<1>2. WithCode' \cap H = WithCode \cap H /\ WithEvent' \cap H = WithEvent \cap H
  BY <1>1 DEF WithCode, WithEvent, Created
<1>3. WithCode \cap H \in SUBSET Requests /\ WithEvent \cap H \in SUBSET Requests OBVIOUS
<1>4. /\ Total([r \in Requests |-> group'[r].orders], WithCode \cap H) = Had(WithCode \cap H)
      /\ Total([r \in Requests |-> group'[r].orders], WithEvent \cap H) = Had(WithEvent \cap H)
  BY <1>3, HadSame
<1> QED BY <1>2, <1>4 DEF Had

LEMMA LimitOthers ==
    ASSUME TypeOK, Meeting, LimitInv, [Next]_vars, NEW r \in Requests, ~Step(r),
           NEW c \in Customers, c = payload[r].customer,
           request'[r] = request[r]
    PROVE  /\ Apart(Of(c))' =>
                 /\ payload[r].code /\ request[r].at \in Allowed => Had(WithCode \cap Of(c))' < LimitedUse
                 /\ request[r].event /\ request[r].at \in WithEventSoon => Had(WithEvent \cap Of(c))' < LimitedUse
           /\ Apart(Requests)' /\ request[r].event /\ request[r].at \in WithEventSoon => Had(WithEvent)' <= LimitCount
<1>1. /\ payload' = payload /\ \A p \in Procs : met[p] \subseteq met'[p] BY MetGrows
<1>2. PICK H \in SUBSET Requests : H = Of(c) BY DEF Of
<1>3. Of(c)' = Of(c) /\ r \in H /\ Of(c) \subseteq Requests BY <1>1, <1>2 DEF Of
<1>4. /\ Apart(Of(c))' => Apart(H)
      /\ Apart(Requests)' => Apart(Requests)
  BY <1>1, <1>2, <1>3 DEF Apart, Procs
<1>5. WithEventSoon \subseteq Allowed BY DEF WithEventSoon, Allowed
<1>6. ASSUME Apart(H), request[r].at \in Allowed
      PROVE  /\ Had(WithCode \cap Of(c))' = Had(WithCode \cap Of(c))
             /\ Had(WithEvent \cap Of(c))' = Had(WithEvent \cap Of(c))
  <2>1. \A q \in H : group'[q] = group[q] BY <1>3, <1>6, Undisturbed
  <2>2. /\ Had(WithCode \cap H)' = Had(WithCode \cap H)
        /\ Had(WithEvent \cap H)' = Had(WithEvent \cap H)
    BY <2>1, LimitKept
  <2> QED BY <1>2, <1>3, <2>2 DEF Had
<1>7. ASSUME Apart(Requests), request[r].at \in Allowed PROVE Had(WithEvent)' = Had(WithEvent)
  <2>1. Requests \in SUBSET Requests OBVIOUS
  <2>2. \A q \in Requests : group'[q] = group[q] BY <1>7, <2>1, Undisturbed
  <2>3. Had(WithEvent \cap Requests)' = Had(WithEvent \cap Requests) BY <2>1, <2>2, LimitKept
  <2>4. WithEvent \cap Requests = WithEvent /\ WithEvent' \cap Requests = WithEvent'
    BY DEF WithEvent, Created
  <2> QED BY <2>3, <2>4 DEF Had
<1> QED BY <1>2, <1>4, <1>5, <1>6, <1>7 DEF LimitInv

(* The request's own steps.                                                *)
LEMMA LimitOwn ==
    ASSUME TypeOK, LimitInv, NEW r \in Requests, Step(r), NEW c \in Customers, c = payload[r].customer
    PROVE  /\ Apart(Of(c))' =>
                 /\ payload[r].code /\ request'[r].at \in Allowed => Had(WithCode \cap Of(c))' < LimitedUse
                 /\ request'[r].event /\ request'[r].at \in WithEventSoon => Had(WithEvent \cap Of(c))' < LimitedUse
           /\ Apart(Requests)' /\ request'[r].event /\ request'[r].at \in WithEventSoon
                 => Had(WithEvent)' <= LimitCount
<1>1. /\ payload' = payload /\ \A p \in Procs : met[p] \subseteq met'[p] BY MetGrows DEF Next
<1>2. PICK H \in SUBSET Requests : H = Of(c) BY DEF Of
<1>3. Of(c)' = Of(c) /\ Of(c) \subseteq Requests BY <1>1 DEF Of
<1>4. /\ Apart(Of(c))' => Apart(Of(c))
      /\ Apart(Requests)' => Apart(Requests)
  BY <1>1, <1>3 DEF Apart, Procs
<1>5. /\ request \in [Requests -> RequestState] /\ request[r] \in RequestState
      /\ payload[r].method \in Methods
      /\ LimitedUse \in Nat /\ LimitCount \in Nat
  BY PayloadType, OrderingAssumption DEF TypeOK, RequestState
<1>6. ASSUME group' = group
      PROVE  /\ Had(WithCode \cap Of(c))' = Had(WithCode \cap Of(c))
             /\ Had(WithEvent \cap Of(c))' = Had(WithEvent \cap Of(c))
             /\ Had(WithEvent)' = Had(WithEvent)
  BY <1>1, <1>3, <1>6 DEF Had, WithCode, WithEvent, Created
<1>7. /\ Had(WithCode \cap Of(c)) = Orders(WithCode \cap Of(c)) /\ Had(WithCode \cap Of(c)) \in Int
      /\ Had(WithEvent \cap Of(c)) = Orders(WithEvent \cap Of(c)) /\ Had(WithEvent \cap Of(c)) \in Int
      /\ Had(WithEvent) = Orders(WithEvent) /\ Had(WithEvent) \in Int
  <2>1. /\ WithCode \cap Of(c) \in SUBSET Created /\ WithEvent \cap Of(c) \in SUBSET Created
        /\ WithEvent \in SUBSET Created
    BY DEF WithCode, WithEvent
  <2> QED BY <2>1, HadOrders
<1> USE <1>5 DEF RequestState, Goes
<1>8. CASE Arrive(r)
  <2>1. request'[r].at = "arrived" \/ (request'[r].at = "priced" /\ ~payload[r].code) BY <1>8 DEF Arrive
  <2> QED BY <2>1 DEF Allowed, WithEventSoon
<1>9. CASE FindCode(r)
  <2>1. /\ request'[r].at \in {"priced", "refused"} /\ group' = group
        /\ request'[r].at = "priced" => Orders(WithCode \cap Of(c)) < LimitedUse
    BY <1>7, <1>9 DEF FindCode, CodeOpen, documents
  <2> QED BY <1>6, <1>7, <2>1 DEF Allowed, WithEventSoon
<1>10. CASE TakeEvent(r)
  <2>1. /\ request[r].at = "priced" /\ group' = group
        /\ request'[r].event = EventOpen(c)
    BY <1>10 DEF TakeEvent, documents
  <2>2. request'[r].event => Had(WithEvent \cap Of(c)) < LimitedUse /\ Had(WithEvent) <= LimitCount
    <3>1. request'[r].event =>
             ~(Orders(WithEvent \cap Of(c)) >= LimitedUse) /\ ~(Orders(WithEvent) > LimitCount)
      BY <2>1, Zenon DEF EventOpen
    <3> QED BY <1>7, <3>1
  <2> QED BY <1>4, <1>6, <2>1, <2>2 DEF LimitInv, Allowed
<1>11. CASE CheckBalance(r) \/ ReadNumber(r)
  <2>1. /\ group' = group /\ request[r].at \in WithEventSoon /\ request'[r].event = request[r].event
    <3>1. CASE CheckBalance(r) BY <3>1 DEF CheckBalance, WithEventSoon, documents
    <3>2. CASE ReadNumber(r)
      <4>1. PICK n \in {0} \cup {group[q].number : q \in Numbered} :
               request' = [request EXCEPT ![r].number = n + 1, ![r].year = Year, ![r].at = "numbered"]
        BY <3>2 DEF ReadNumber
      <4> QED BY <3>2, <4>1 DEF ReadNumber, WithEventSoon, documents
    <3> QED BY <1>11, <3>1, <3>2
  <2> QED BY <1>4, <1>6, <2>1 DEF LimitInv, Allowed, WithEventSoon
<1>12. CASE ~(Arrive(r) \/ FindCode(r) \/ TakeEvent(r) \/ CheckBalance(r) \/ ReadNumber(r))
  <2>1. request'[r].at \notin Before
    <3>1. request[r].at \notin Before \/ CreateGroup(r)
      BY <1>12 DEF Step, ReadPromotion, WritePromotion, CountEvent, CreateOrders, PayReads, PayChecks, PayWrites,
         AskGateway, Assign, Before
    <3>2. TypeOK' BY CheckingType, ReadingType, WritingType DEF Step
    <3>3. group'[r] # NoGroup
      <4>1. CASE CreateGroup(r)
        <5>1. Created' = Created \cup {r} BY <4>1, CreateGroupFacts
        <5> QED BY <5>1 DEF Created
      <4>2. CASE request[r].at \notin Before /\ ~CreateGroup(r)
        <5>1. group[r] # NoGroup BY <4>2 DEF TypeOK
        <5>2. Created' = Created
          <6>1. \A q \in Requests \ {r} : ~ReadNumber(q) /\ ~CreateGroup(q)
            <7> SUFFICES ASSUME NEW q \in Requests, q # r, ReadNumber(q) \/ CreateGroup(q) PROVE FALSE OBVIOUS
            <7>1. Others(r) BY CheckingType, ReadingType, WritingType DEF Step
            <7> QED BY <7>1, NumbersMove DEF Others
          <6> QED BY <1>12, <4>2, <6>1, NumbersKept DEF Next
        <5> QED BY <5>1, <5>2 DEF Created
      <4> QED BY <3>1, <4>1, <4>2
    <3> QED BY <3>2, <3>3 DEF TypeOK
  <2> QED BY <2>1 DEF Allowed, WithEventSoon, Before
<1> QED BY <1>8, <1>9, <1>10, <1>11, <1>12

LEMMA LimitStep == TypeOK /\ Meeting /\ LimitInv /\ [Next]_vars => LimitInv'
<1> SUFFICES ASSUME TypeOK, Meeting, LimitInv, [Next]_vars, NEW r \in Requests
             PROVE  /\ Apart(Of(payload[r].customer))' =>
                          /\ payload'[r].code /\ request'[r].at \in Allowed
                                => Had(WithCode \cap Of(payload[r].customer))' < LimitedUse
                          /\ request'[r].event /\ request'[r].at \in WithEventSoon
                                => Had(WithEvent \cap Of(payload[r].customer))' < LimitedUse
                    /\ Apart(Requests)' /\ request'[r].event /\ request'[r].at \in WithEventSoon
                          => Had(WithEvent)' <= LimitCount
  BY DEF LimitInv
<1>1. PICK c \in Customers : c = payload[r].customer BY PayloadType
<1>2. payload' = payload BY MetGrows
<1>3. /\ Apart(Of(payload[r].customer))' <=> Apart(Of(c))'
      /\ Had(WithCode \cap Of(payload[r].customer))' = Had(WithCode \cap Of(c))'
      /\ Had(WithEvent \cap Of(payload[r].customer))' = Had(WithEvent \cap Of(c))'
  BY <1>1, <1>2
<1>4. CASE Step(r) BY <1>1, <1>2, <1>3, <1>4, LimitOwn
<1>5. CASE ~Step(r)
  <2>1. request'[r] = request[r]
    <3>1. ASSUME NEW q \in Requests, Step(q) PROVE Others(q)
      BY <3>1, CheckingType, ReadingType, WritingType DEF Step
    <3>2. CASE UNCHANGED vars BY <3>2 DEF vars, documents
    <3> QED BY <1>5, <3>1, <3>2, AroundType DEF Next, Others
  <2> QED BY <1>1, <1>2, <1>3, <1>5, <2>1, LimitOthers
<1> QED BY <1>4, <1>5

LEMMA InitLimit == Init => LimitInv
  BY DEF Init, LimitInv, Fresh, Allowed, WithEventSoon

(* Which step creates a group order, and with what event.                  *)
LEMMA Creates ==
    ASSUME TypeOK, [Next]_vars, NEW r \in Requests, Created' = Created \cup {r}, r \notin Created
    PROVE  /\ request[r].at \in WithEventSoon /\ request[r].at \in Allowed
           /\ group'[r].event = request[r].event
<1>1. \E q \in Requests : ReadNumber(q) \/ CreateGroup(q) BY NumbersKept
<1>2. \A q \in Requests : ~ReadNumber(q) BY ReadNumberFacts DEF Created
<1>3. PICK q \in Requests : CreateGroup(q) BY <1>1, <1>2
<1>4. CreateGroup(r) BY <1>3, CreateGroupFacts
<1> QED BY <1>4 DEF CreateGroup, WithEventSoon, Allowed, TypeOK

LEMMA LimitAll == Spec => [](TypeOK /\ LimitInv)
  BY InitType, TypeStep, InitMeeting, MeetingStep, InitLimit, LimitStep, PTL DEF Spec

(* A customer whose requests follow each other does not exceed limited_use.*)
THEOREM CustomerKeepsTheLimit == Spec => CustomerWithinLimit
<1>1. ASSUME TypeOK, LimitInv, [Next]_vars, NEW r \in Requests,
             Created' = Created \cup {r}, r \notin Created, Apart(Of(payload[r].customer))
      PROVE  /\ payload[r].code => Orders(WithCode \cap Of(payload[r].customer)) < LimitedUse
             /\ group'[r].event => Orders(WithEvent \cap Of(payload[r].customer)) < LimitedUse
  <2>1. /\ WithCode \cap Of(payload[r].customer) \in SUBSET Created
        /\ WithEvent \cap Of(payload[r].customer) \in SUBSET Created
    BY DEF WithCode, WithEvent
  <2> QED BY <1>1, <2>1, Creates, HadOrders DEF LimitInv
<1>2. TypeOK /\ LimitInv /\ [Next]_vars => [\A r \in Requests :
          LET his == Of(payload[r].customer) IN
          Created' = Created \cup {r} /\ r \notin Created /\ Apart(his) =>
              /\ payload[r].code => Orders(WithCode \cap his) < LimitedUse
              /\ group'[r].event => Orders(WithEvent \cap his) < LimitedUse]_vars
  BY <1>1
<1> QED BY <1>2, LimitAll, PTL DEF Spec, CustomerWithinLimit

(* Requests that come one after the other keep to the limit_count of the   *)
(* event as the code compares it.                                          *)
THEOREM EventKeepsItsLimit == Spec => EventWithinLimit
<1>1. ASSUME TypeOK, LimitInv, [Next]_vars, NEW r \in Requests,
             Created' = Created \cup {r}, r \notin Created, Apart(Requests), group'[r].event
      PROVE  Orders(WithEvent) <= LimitCount
  <2>1. WithEvent \in SUBSET Created BY DEF WithEvent
  <2> QED BY <1>1, <2>1, Creates, HadOrders DEF LimitInv
<1>2. TypeOK /\ LimitInv /\ [Next]_vars => [\A r \in Requests :
          /\ Created' = Created \cup {r} /\ r \notin Created
          /\ Apart(Requests) /\ group'[r].event
          => Orders(WithEvent) <= LimitCount]_vars
  BY <1>1
<1> QED BY <1>2, LimitAll, PTL DEF Spec, EventWithinLimit
=============================================================================
