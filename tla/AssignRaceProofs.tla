-------------------------- MODULE AssignRaceProofs --------------------------
(***************************************************************************)
(* Proofs about AssignRace for any number of collaborators and of requests *)
(* of each: the types and who takes the job in any case, who has paid for  *)
(* it as long as the cron job that rewrites the log is not running.        *)
(***************************************************************************)
EXTENDS AssignRace, FiniteSetTheorems, SequenceTheorems, WellFoundedInduction, TLAPS

(* The positions of the fees logged against c, and that there are some.    *)
FeesOf(c) == {i \in FeesTaken : history[i].id_collaborator = c}
Logged(c) == FeesOf(c) # {}

(* A request past WriteWallet has been logged.                             *)
PaidLogged == \A r \in Requests :
    take[r].at \in {"paid", "found", "assigned", "confirmed"} => Logged(By(r))

(* The cron job does not run; a refund is for somebody.                    *)
NoRepair == repair.at = "idle"
RefundsSomebody == cancel.at \in {"refund", "repaying"} => cancel.holder \in Collaborators

IInv == TypeOK /\ PaidLogged /\ HolderCharged /\ NoRepair /\ RefundsSomebody

(* What c must have left after the fees logged against him.  A balance a   *)
(* request has read is never less, however old it is: the log only grows.  *)
Floor(c) == Deposit - Fee * Cardinality(FeesOf(c))
Enough(c, balance) == balance >= 0 /\ balance >= Floor(c)
BalancesRead ==
    /\ \A r \in Requests : take[r].at = "paying" => take[r].wallet >= Fee /\ Enough(By(r), take[r].wallet)
    /\ cancel.at = "repaying" => Enough(cancel.holder, cancel.wallet)
Balances == (\A c \in Collaborators : Enough(c, wallet[c])) /\ BalancesRead

-----------------------------------------------------------------------------
(* The log grows at its end, so what is in it stays.                       *)
LEMMA LogGrows ==
    ASSUME TypeOK, NEW c \in Collaborators, NEW value \in {Fee, -Fee}, NEW w \in Int,
           history' = Append(history, Movement(c, value, w))
    PROVE  /\ history' \in Seq([id_collaborator : Collaborators, value : {Fee, -Fee},
                                current_work_wallet : Int])
           /\ \A d \in Collaborators : FeesOf(d) \subseteq FeesOf(d)'
           /\ value = -Fee => FeesOf(c)' = FeesOf(c) \cup {Len(history) + 1}
           /\ value = Fee => FeesOf(c)' = FeesOf(c)
           /\ \A d \in Collaborators \ {c} : FeesOf(d)' = FeesOf(d)
           /\ Len(history) + 1 \notin FeesOf(c)
<1> DEFINE new == Len(history) + 1
           R == [id_collaborator : Collaborators, value : {Fee, -Fee}, current_work_wallet : Int]
<1>1. Len(history) \in Nat /\ DOMAIN history = 1..Len(history) /\ history \in Seq(R) BY DEF TypeOK
<1>2. Movement(c, value, w) \in R BY DEF Movement
<1>3. history' \in Seq(R) BY <1>1, <1>2
<1>4. /\ DOMAIN history' = 1..new
      /\ history'[new] = Movement(c, value, w)
      /\ \A i \in 1..Len(history) : history'[i] = history[i]
  BY <1>1, <1>2
<1>5. /\ Movement(c, value, w).id_collaborator = c
      /\ Movement(c, value, w).value = value
  BY DEF Movement
<1>6. /\ value = -Fee => value < 0
      /\ value = Fee => ~(value < 0)
  BY RaceAssumption
<1> HIDE DEF R
<1>7. ASSUME NEW d
      PROVE  FeesOf(d)' = IF value < 0 /\ c = d THEN FeesOf(d) \cup {new} ELSE FeesOf(d)
  <2>1. FeesOf(d) = {i \in 1..Len(history) : history[i].value < 0 /\ history[i].id_collaborator = d}
    BY <1>1 DEF FeesOf, FeesTaken
  <2>2. FeesOf(d)' = {i \in 1..new : history'[i].value < 0 /\ history'[i].id_collaborator = d}
    BY <1>4 DEF FeesOf, FeesTaken
  <2>3. 1..new = (1..Len(history)) \cup {new} /\ new \notin 1..Len(history) BY <1>1
  <2> HIDE DEF new
  <2> QED BY <2>1, <2>2, <2>3, <1>4, <1>5
<1>8. new \notin FeesOf(c) BY <1>1 DEF FeesOf, FeesTaken
<1> QED BY <1>3, <1>6, <1>7, <1>8 DEF R

-----------------------------------------------------------------------------
(* Types.                                                                  *)
LEMMA InitInv == Init => IInv
  BY RaceAssumption DEF Init, IInv, TypeOK, PaidLogged, HolderCharged, NoRepair, RefundsSomebody,
                        Order, Group, Status, Assignee, Requests

LEMMA TakeType ==
    ASSUME TypeOK, NEW r \in Requests, Take(r)
    PROVE  TypeOK'
<1> DEFINE State == [at : {"new", "checked", "paying", "paid", "found", "assigned",
                           "confirmed", "refused"}, wallet : Int]
<1>1. By(r) \in Collaborators BY DEF By, Requests
<1>2. take \in [Requests -> State] BY DEF TypeOK
<1>3. CASE Load(r)
  <2>1. take' \in [Requests -> State] BY <1>2, <1>3 DEF Load
  <2> QED BY <1>3, <2>1 DEF Load, TypeOK, documents
<1>4. CASE ReadWallet(r)
  <2>1. wallet[By(r)] \in Int BY <1>1 DEF TypeOK
  <2>2. take' \in [Requests -> State] BY <1>2, <1>4, <2>1 DEF ReadWallet
  <2> QED BY <1>4, <2>2 DEF ReadWallet, TypeOK, documents
<1>5. CASE WriteWallet(r)
  <2>1. take[r].wallet - Fee \in Int BY <1>2, RaceAssumption
  <2>2. wallet' \in [Collaborators -> Int] BY <1>1, <1>5, <2>1 DEF WriteWallet, TypeOK
  <2>3. history' \in Seq([id_collaborator : Collaborators, value : {Fee, -Fee},
                          current_work_wallet : Int])
    BY <1>1, <1>5, <2>1, LogGrows DEF WriteWallet
  <2>4. take' \in [Requests -> State] BY <1>2, <1>5 DEF WriteWallet
  <2> QED BY <1>5, <2>2, <2>3, <2>4 DEF WriteWallet, TypeOK
<1>6. CASE FindPending(r)
  <2>1. take' \in [Requests -> State] BY <1>2, <1>6 DEF FindPending
  <2> QED BY <1>6, <2>1 DEF FindPending, TypeOK, documents
<1>7. CASE AssignOrder(r)
  <2>1. take' \in [Requests -> State] BY <1>2, <1>7 DEF AssignOrder
  <2>2. order' \in Order BY <1>1, <1>7 DEF AssignOrder, TypeOK, Order, Status, Assignee
  <2> QED BY <1>7, <2>1, <2>2 DEF AssignOrder, TypeOK
<1>8. CASE WriteGroup(r)
  <2>1. take' \in [Requests -> State] BY <1>2, <1>8 DEF WriteGroup
  <2>2. group' \in Group BY <1>1, <1>8 DEF WriteGroup, Group, Status, Assignee
  <2> QED BY <1>8, <2>1, <2>2 DEF WriteGroup, TypeOK
<1> QED BY <1>3, <1>4, <1>5, <1>6, <1>7, <1>8 DEF Take

LEMMA CancelType ==
    ASSUME TypeOK, RefundsSomebody, Cancel
    PROVE  TypeOK' /\ RefundsSomebody'
<1>1. CASE CancelReadOrder \/ CancelReadGroup \/ CancelReadGroupAgain
  BY <1>1 DEF CancelReadOrder, CancelReadGroup, CancelReadGroupAgain, TypeOK, RefundsSomebody,
              documents, Group
<1>2. CASE CancelWriteOrder
  BY <1>2 DEF CancelWriteOrder, TypeOK, RefundsSomebody, Order, Status
<1>3. CASE CancelWriteGroup
  BY <1>3 DEF CancelWriteGroup, TypeOK, RefundsSomebody, Group, Status, Assignee
<1>4. CASE CancelReadWallet
  BY <1>4 DEF CancelReadWallet, TypeOK, RefundsSomebody, documents
<1>5. CASE CancelWriteWallet
  <2>1. cancel.holder \in Collaborators BY <1>5 DEF CancelWriteWallet, RefundsSomebody
  <2>2. cancel.wallet + Fee \in Int BY RaceAssumption DEF TypeOK
  <2>3. wallet' \in [Collaborators -> Int] BY <1>5, <2>1, <2>2 DEF CancelWriteWallet, TypeOK
  <2>4. history' \in Seq([id_collaborator : Collaborators, value : {Fee, -Fee},
                          current_work_wallet : Int])
    BY <1>5, <2>1, <2>2, LogGrows DEF CancelWriteWallet
  <2>5. cancel' = [cancel EXCEPT !.at = "over"] BY <1>5 DEF CancelWriteWallet
  <2> QED BY <1>5, <2>3, <2>4, <2>5 DEF CancelWriteWallet, TypeOK, RefundsSomebody
<1> QED BY <1>1, <1>2, <1>3, <1>4, <1>5 DEF Cancel

(* JS.balanceMoneyForCollaborator adds the movements up again, one after   *)
(* the other.  Adds says so of f, from j to l.                             *)
Adds(f, j, l, base, step) == f = [i \in j..l |-> IF i = j THEN base ELSE f[i - 1] + step[i]]

LEMMA LeastNumber ==
    ASSUME NEW S \in SUBSET Nat, S # {}
    PROVE  \E m \in S : \A k \in S : m <= k
<1> DEFINE R == OpToRel(<, Nat)
<1>1. IsWellFoundedOn(R, Nat) BY NatLessThanWellFounded
<1>2. \A x, y \in Nat : <<x, y>> \in R <=> x < y BY DEF OpToRel
<1> HIDE DEF R
<1>3. PICK x \in S : \A y \in S : ~(<<y, x>> \in R) BY <1>1, WFMin
<1>4. ASSUME NEW y \in S PROVE x <= y
  <2>1. x \in Nat /\ y \in Nat OBVIOUS
  <2>2. ~(y < x) BY <1>2, <1>3, <2>1
  <2> QED BY <2>1, <2>2
<1> QED BY <1>4

LEMMA AddsExists ==
    ASSUME NEW j \in Nat, NEW l \in Nat, NEW base, NEW step
    PROVE  \E f : Adds(f, j, l, base, step)
<1> DEFINE T == {m \in j..l : ~ \E f : Adds(f, j, m, base, step)}
<1>1. CASE l < j
  <2> DEFINE f == [i \in j..l |-> base]
  <2>1. Adds(f, j, l, base, step) BY <1>1 DEF Adds
  <2> QED BY <2>1
<1>2. CASE j <= l
  <2>1. SUFFICES ASSUME T # {} PROVE FALSE
    <3>1. l \in j..l BY <1>2
    <3> QED BY <3>1
  <2>2. PICK m \in T : \A k \in T : m <= k
    <3>1. T \in SUBSET Nat OBVIOUS
    <3> HIDE DEF T
    <3> QED BY <2>1, <3>1, LeastNumber
  <2>3. m \in j..l /\ m \in Nat /\ ~ \E f : Adds(f, j, m, base, step) BY <2>2
  <2>4. CASE m = j
    <3> DEFINE f == [i \in j..m |-> base]
    <3>1. Adds(f, j, m, base, step) BY <2>4 DEF Adds
    <3> QED BY <2>3, <3>1
  <2>5. CASE m # j
    <3>1. m - 1 \in j..l /\ m - 1 \notin T BY <2>2, <2>3, <2>5
    <3>2. PICK f : Adds(f, j, m - 1, base, step) BY <3>1
    <3> DEFINE g == [i \in j..m |-> IF i = m THEN f[m - 1] + step[m] ELSE f[i]]
    <3>3. f = [i \in j..(m - 1) |-> IF i = j THEN base ELSE f[i - 1] + step[i]] BY <3>2 DEF Adds
    <3>4. ASSUME NEW i \in j..m PROVE g[i] = IF i = j THEN base ELSE g[i - 1] + step[i]
      <4>1. CASE i = m
        <5>1. i # j /\ m - 1 \in j..m /\ m - 1 # m BY <2>3, <2>5, <4>1
        <5> QED BY <4>1, <5>1
      <4>2. CASE i # m
        <5>1. i \in j..(m - 1) /\ (i # j => i - 1 \in j..m /\ i - 1 # m) BY <2>3, <4>2
        <5>2. f[i] = IF i = j THEN base ELSE f[i - 1] + step[i] BY <3>3, <5>1
        <5> QED BY <4>2, <5>1, <5>2
      <4> QED BY <4>1, <4>2
    <3>5. g = [i \in j..m |-> g[i]] OBVIOUS
    <3> HIDE DEF g
    <3>6. Adds(g, j, m, base, step) BY <3>4, <3>5 DEF Adds
    <3> QED BY <2>3, <3>6
  <2> QED BY <2>4, <2>5
<1> QED BY <1>1, <1>2

LEMMA AddsType ==
    ASSUME NEW j \in Nat, NEW l \in Nat, NEW base \in Int, NEW step, \A i \in j..l : step[i] \in Int,
           NEW f, Adds(f, j, l, base, step)
    PROVE  \A i \in j..l : f[i] \in Int
<1> DEFINE T == {m \in j..l : f[m] \notin Int}
<1>1. SUFFICES ASSUME T # {} PROVE FALSE OBVIOUS
<1>2. PICK m \in T : \A k \in T : m <= k
  <2>1. T \in SUBSET Nat OBVIOUS
  <2> HIDE DEF T
  <2> QED BY <1>1, <2>1, LeastNumber
<1>3. m \in j..l /\ m \in Nat /\ f[m] \notin Int BY <1>2
<1>4. f[m] = IF m = j THEN base ELSE f[m - 1] + step[m]
  <2> DEFINE g == [i \in j..l |-> IF i = j THEN base ELSE f[i - 1] + step[i]]
  <2>1. f = g BY DEF Adds
  <2>2. g[m] = IF m = j THEN base ELSE f[m - 1] + step[m] BY <1>3
  <2> QED BY <2>1, <2>2
<1>5. m # j => m - 1 \in j..l /\ m - 1 \notin T BY <1>2, <1>3
<1> QED BY <1>3, <1>4, <1>5

LEMMA ReplayedType ==
    ASSUME TypeOK, NEW j \in FeesTaken
    PROVE  \A i \in j..Len(history) : Replayed(j)[i] \in Int
<1> DEFINE R == [id_collaborator : Collaborators, value : {Fee, -Fee}, current_work_wallet : Int]
           c == history[j].id_collaborator
           earlier == {i \in 1..(j - 1) : history[i].id_collaborator = c}
           last == CHOOSE i \in earlier : \A k \in earlier : k <= i
           base == IF earlier = {} THEN history[j].current_work_wallet - history[j].value
                   ELSE history[last].current_work_wallet
           l == Len(history)
           step == [i \in j..l |-> IF history[i].id_collaborator = c THEN history[i].value ELSE 0]
           I(f) == f = [i \in j..l |-> IF i = j THEN base
                          ELSE f[i - 1] + (IF history[i].id_collaborator = c THEN history[i].value ELSE 0)]
<1>1. l \in Nat /\ DOMAIN history = 1..l /\ history \in Seq(R) BY DEF TypeOK
<1>2. j \in 1..l /\ j \in Nat BY <1>1 DEF FeesTaken
<1> HIDE DEF R
<1>3. \A i \in 1..l : history[i] \in R BY <1>1
<1>4. \A i \in 1..l : history[i].value \in Int /\ history[i].current_work_wallet \in Int
  BY <1>3, RaceAssumption DEF R
<1>5. base \in Int
  <2>1. CASE earlier = {} BY <1>2, <1>4, <2>1
  <2>2. CASE earlier # {}
    <3> DEFINE S == {j - i : i \in earlier}
    <3>1. S \in SUBSET Nat /\ S # {} BY <1>2, <2>2
    <3>2. PICK m \in S : \A k \in S : m <= k
      <4> HIDE DEF S
      <4> QED BY <3>1, LeastNumber
    <3>3. PICK n \in earlier : m = j - n BY <3>2
    <3>4. \A k \in earlier : k <= n
      <4>1. ASSUME NEW k \in earlier PROVE k <= n
        <5>1. m <= j - k BY <3>2
        <5> QED BY <1>2, <3>3, <5>1
      <4> QED BY <4>1
    <3>5. last \in earlier BY <3>3, <3>4
    <3>6. last \in 1..l BY <1>1, <1>2, <3>5
    <3> QED BY <1>4, <2>2, <3>6
  <2> QED BY <2>1, <2>2
<1>6. Replayed(j) = CHOOSE f : I(f) BY DEF Replayed
<1>7. \A i \in j..l : step[i] = IF history[i].id_collaborator = c THEN history[i].value ELSE 0 OBVIOUS
<1>8. \A i \in j..l : step[i] \in Int BY <1>2, <1>4
<1> HIDE DEF base, step
<1>9. ASSUME NEW f PROVE I(f) <=> Adds(f, j, l, base, step)
  <2>1. [i \in j..l |-> IF i = j THEN base
           ELSE f[i - 1] + (IF history[i].id_collaborator = c THEN history[i].value ELSE 0)]
          = [i \in j..l |-> IF i = j THEN base ELSE f[i - 1] + step[i]]
    BY <1>7
  <2> QED BY <2>1 DEF Adds
<1> HIDE DEF I
<1>10. \E f : I(f) BY <1>1, <1>2, <1>9, AddsExists
<1>11. I(CHOOSE f : I(f)) BY <1>10
<1>12. I(Replayed(j)) BY <1>6, <1>11
<1>13. Adds(Replayed(j), j, l, base, step) BY <1>9, <1>12
<1> QED BY <1>1, <1>2, <1>5, <1>8, <1>13, AddsType

LEMMA RepairType ==
    ASSUME TypeOK, Repair
    PROVE  TypeOK'
<1> DEFINE R == [id_collaborator : Collaborators, value : {Fee, -Fee}, current_work_wallet : Int]
<1>1. CASE RepairList BY <1>1 DEF RepairList, TypeOK, documents
<1>2. CASE RepairWriteGroup BY <1>2 DEF RepairWriteGroup, TypeOK, Group
<1>3. CASE RepairMoney
  <2>1. /\ UNCHANGED <<order, group, take, cancel>>
        /\ \/ repair' = [repair EXCEPT !.at = "idle"]
           \/ repair' = [repair EXCEPT !.at = "checked"]
    BY <1>3 DEF RepairMoney, documents
  <2>2. wallet' \in [Collaborators -> Int] /\ history' \in Seq(R)
    <3>1. CASE UNCHANGED <<wallet, history>> BY <3>1 DEF TypeOK
    <3>2. ASSUME NEW j \in FeesTaken,
                 wallet' = [wallet EXCEPT ![history[j].id_collaborator] = Replayed(j)[Len(history)]],
                 history' = RemoveAt([i \in DOMAIN history |->
                                   IF i > j /\ history[i].id_collaborator = history[j].id_collaborator
                                   THEN [history[i] EXCEPT !.current_work_wallet = Replayed(j)[i]]
                                   ELSE history[i]], j)
          PROVE  wallet' \in [Collaborators -> Int] /\ history' \in Seq(R)
      <4> DEFINE l == Len(history)
                 rewritten == [i \in DOMAIN history |->
                                   IF i > j /\ history[i].id_collaborator = history[j].id_collaborator
                                   THEN [history[i] EXCEPT !.current_work_wallet = Replayed(j)[i]]
                                   ELSE history[i]]
      <4>1. l \in Nat /\ DOMAIN history = 1..l /\ history \in Seq(R) BY DEF TypeOK
      <4>2. j \in 1..l /\ \A i \in 1..l : history[i] \in R
        <5> HIDE DEF R
        <5>1. j \in 1..l BY <4>1 DEF FeesTaken
        <5>2. \A i \in 1..l : history[i] \in R BY <4>1, ElementOfSeq
        <5> QED BY <5>1, <5>2
      <4>3. \A i \in j..l : Replayed(j)[i] \in Int BY ReplayedType
      <4>4. history[j].id_collaborator \in Collaborators
        <5>1. history[j] \in R BY <4>2
        <5> QED BY <5>1
      <4>5. wallet' \in [Collaborators -> Int]
        <5>1. Replayed(j)[l] \in Int BY <4>1, <4>2, <4>3
        <5> QED BY <3>2, <4>4, <5>1 DEF TypeOK
      <4>6. ASSUME NEW i \in 1..l PROVE rewritten[i] \in R
        <5>1. history[i] \in R BY <4>2
        <5>2. i > j => Replayed(j)[i] \in Int BY <4>1, <4>2, <4>3
        <5> QED BY <4>1, <5>1, <5>2
      <4>7. rewritten \in Seq(R)
        <5>1. DOMAIN rewritten = 1..l /\ rewritten = [i \in 1..l |-> rewritten[i]] BY <4>1
        <5> HIDE DEF rewritten, R
        <5>2. rewritten \in [1..l -> R] BY <4>6, <5>1
        <5> QED BY <4>1, <5>2
      <4> HIDE DEF rewritten, R
      <4>8. RemoveAt(rewritten, j) \in Seq(R)
        <5> DEFINE m == Len(rewritten)
        <5>1. m \in Nat /\ j \in 1..m /\ \A i \in 1..m : rewritten[i] \in R
          <6>1. m \in Nat /\ DOMAIN rewritten = 1..m /\ \A i \in 1..m : rewritten[i] \in R
            BY <4>7, LenProperties, ElementOfSeq
          <6>2. DOMAIN rewritten = 1..l BY <4>1 DEF rewritten
          <6> QED BY <4>2, <6>1, <6>2
        <5> HIDE DEF m
        <5>2. SubSeq(rewritten, 1, j - 1) \in Seq(R)
          <6>1. j - 1 \in Int /\ 1 \in Int /\ \A i \in 1..(j - 1) : rewritten[i] \in R BY <5>1
          <6> QED BY <6>1, SubSeqProperties
        <5>3. SubSeq(rewritten, j + 1, m) \in Seq(R)
          <6>1. j + 1 \in Int /\ m \in Int /\ \A i \in (j + 1)..m : rewritten[i] \in R BY <5>1
          <6> QED BY <6>1, SubSeqProperties
        <5> QED BY <5>2, <5>3, ConcatProperties DEF RemoveAt, m
      <4> QED BY <3>2, <4>5, <4>8 DEF rewritten
    <3> QED BY <1>3, <3>1, <3>2 DEF RepairMoney, documents
  <2> QED BY <2>1, <2>2 DEF TypeOK
<1> QED BY <1>1, <1>2, <1>3 DEF Repair

LEMMA RaceTypes == Spec => [](TypeOK /\ RefundsSomebody)
<1>1. Init => TypeOK /\ RefundsSomebody BY InitInv DEF IInv
<1>2. TypeOK /\ RefundsSomebody /\ [Next]_vars => (TypeOK /\ RefundsSomebody)'
  <2> SUFFICES ASSUME TypeOK, RefundsSomebody, [Next]_vars
               PROVE  TypeOK' /\ RefundsSomebody'
    OBVIOUS
  <2>1. ASSUME NEW r \in Requests, Take(r) PROVE TypeOK' /\ RefundsSomebody'
    <3>1. UNCHANGED cancel
      BY <2>1 DEF Take, Load, ReadWallet, WriteWallet, FindPending, AssignOrder, WriteGroup
    <3> QED BY <2>1, <3>1, TakeType DEF RefundsSomebody
  <2>2. CASE Cancel BY <2>2, CancelType
  <2>3. CASE Repair
    <3>1. UNCHANGED cancel BY <2>3 DEF Repair, RepairList, RepairMoney, RepairWriteGroup
    <3> QED BY <2>3, <3>1, RepairType DEF RefundsSomebody
  <2>4. CASE UNCHANGED vars BY <2>4 DEF vars, documents, TypeOK, RefundsSomebody
  <2> QED BY <2>1, <2>2, <2>3, <2>4 DEF Next
<1> QED BY <1>1, <1>2, PTL DEF Spec

(* The documents and what the requests and the cron job hold of them are   *)
(* of their types, also after the log was rewritten.                       *)
THEOREM RaceTypeCorrect == Spec => []TypeOK
  BY RaceTypes, PTL

-----------------------------------------------------------------------------
(* The log: whoever is in it stays in it.                                  *)
LEMMA SameLog ==
    ASSUME UNCHANGED history
    PROVE  \A c \in Collaborators : FeesOf(c)' = FeesOf(c)
  BY DEF FeesOf, FeesTaken

LEMMA LogKept ==
    ASSUME TypeOK, RefundsSomebody, (\E r \in Requests : Take(r)) \/ Cancel
    PROVE  \A c \in Collaborators : FeesOf(c) \subseteq FeesOf(c)'
<1>1. CASE UNCHANGED history BY <1>1, SameLog
<1>2. ASSUME NEW r \in Requests, WriteWallet(r)
      PROVE  \A c \in Collaborators : FeesOf(c) \subseteq FeesOf(c)'
  <2>1. By(r) \in Collaborators BY DEF By, Requests
  <2>2. take[r].wallet - Fee \in Int BY RaceAssumption DEF TypeOK
  <2> QED BY <1>2, <2>1, <2>2, LogGrows DEF WriteWallet
<1>3. CASE CancelWriteWallet
  <2>1. cancel.holder \in Collaborators BY <1>3 DEF CancelWriteWallet, RefundsSomebody
  <2>2. cancel.wallet + Fee \in Int BY RaceAssumption DEF TypeOK
  <2> QED BY <1>3, <2>1, <2>2, LogGrows DEF CancelWriteWallet
<1> QED
  BY <1>1, <1>2, <1>3
  DEF Take, Load, ReadWallet, FindPending, AssignOrder, WriteGroup, Cancel, CancelReadOrder,
      CancelReadGroup, CancelWriteOrder, CancelReadGroupAgain, CancelWriteGroup, CancelReadWallet,
      documents

(* The holder is one of the collaborators the log speaks of.               *)
LEMMA HolderLogged ==
    ASSUME TypeOK, HolderCharged, order.status = "confirm"
    PROVE  order.id_collaborator \in Collaborators /\ Logged(order.id_collaborator)
<1> DEFINE R == [id_collaborator : Collaborators, value : {Fee, -Fee}, current_work_wallet : Int]
<1>1. history \in Seq(R) BY DEF TypeOK
<1> HIDE DEF R
<1>2. \A i \in DOMAIN history : history[i] \in R BY <1>1
<1>3. \A i \in FeesTaken : history[i].id_collaborator \in Collaborators
  BY <1>2 DEF FeesTaken, R
<1> QED BY <1>3 DEF HolderCharged, Logged, FeesOf

-----------------------------------------------------------------------------
(* Steps of the requests preserve PaidLogged and HolderCharged.            *)
LEMMA TakeLogged ==
    ASSUME IInv, NEW r \in Requests, Take(r)
    PROVE  PaidLogged' /\ HolderCharged'
<1>1. By(r) \in Collaborators /\ \A q \in Requests : By(q) \in Collaborators BY DEF By, Requests
<1>2. TypeOK /\ RefundsSomebody BY DEF IInv
<1>3. \A c \in Collaborators : Logged(c) => Logged(c)' BY <1>2, LogKept DEF Logged
<1>4. \A q \in Requests \ {r} : take'[q] = take[q]
  BY <1>2 DEF TypeOK, Take, Load, ReadWallet, WriteWallet, FindPending, AssignOrder, WriteGroup
<1>5. take'[r].at \in {"paid", "found", "assigned", "confirmed"} => Logged(By(r))'
  <2>1. CASE WriteWallet(r)
    <3>1. take[r].wallet - Fee \in Int BY <1>2, RaceAssumption DEF TypeOK
    <3>2. Len(history) + 1 \in FeesOf(By(r))'
      BY <1>1, <1>2, <2>1, <3>1, LogGrows DEF WriteWallet
    <3> QED BY <3>2 DEF Logged
  <2>2. CASE ~WriteWallet(r)
    <3>1. take'[r].at \in {"paid", "found", "assigned", "confirmed"} =>
             take[r].at \in {"paid", "found", "assigned"}
      BY <1>2, <2>2 DEF TypeOK, Take, Load, ReadWallet, FindPending, AssignOrder, WriteGroup
    <3> QED BY <1>1, <1>3, <3>1 DEF IInv, PaidLogged
  <2> QED BY <2>1, <2>2
<1>6. PaidLogged' BY <1>1, <1>3, <1>4, <1>5 DEF IInv, PaidLogged
<1>7. order'.status = "confirm" => Logged(order.id_collaborator)'
  <2>1. order.status = "confirm" => order.id_collaborator \in Collaborators /\ Logged(order.id_collaborator)
    BY <1>2, HolderLogged DEF IInv
  <2>2. CASE UNCHANGED order BY <1>3, <2>1, <2>2 DEF Logged, FeesOf, FeesTaken
  <2>3. CASE AssignOrder(r) /\ order.status = "pending"
    <3>1. order' = [status |-> "confirm", id_collaborator |-> By(r)] BY <2>3 DEF AssignOrder
    <3>2. Logged(By(r)) BY <2>3 DEF AssignOrder, IInv, PaidLogged
    <3>3. Logged(By(r))' BY <1>1, <1>3, <3>2
    <3> QED BY <3>1, <3>3 DEF Logged, FeesOf, FeesTaken
  <2> QED
    BY <2>2, <2>3 DEF Take, Load, ReadWallet, WriteWallet, FindPending, AssignOrder, WriteGroup,
                      documents
<1>8. HolderCharged' BY <1>7 DEF HolderCharged, Logged, FeesOf, FeesTaken
<1> QED BY <1>6, <1>8

LEMMA CancelLogged ==
    ASSUME IInv, Cancel
    PROVE  PaidLogged' /\ HolderCharged'
<1>1. \A r \in Requests : By(r) \in Collaborators BY DEF By, Requests
<1>2. TypeOK /\ RefundsSomebody BY DEF IInv
<1>3. \A c \in Collaborators : Logged(c) => Logged(c)' BY <1>2, LogKept DEF Logged
<1>4. UNCHANGED take
  BY DEF Cancel, CancelReadOrder, CancelReadGroup, CancelWriteOrder, CancelReadGroupAgain,
         CancelWriteGroup, CancelReadWallet, CancelWriteWallet
<1>5. PaidLogged' BY <1>1, <1>3, <1>4 DEF IInv, PaidLogged
<1>6. order'.status = "confirm" => order' = order
  BY <1>2 DEF TypeOK, Order, Cancel, CancelReadOrder, CancelReadGroup, CancelWriteOrder,
              CancelReadGroupAgain, CancelWriteGroup, CancelReadWallet, CancelWriteWallet, documents
<1>7. order.status = "confirm" => order.id_collaborator \in Collaborators /\ Logged(order.id_collaborator)
  BY <1>2, HolderLogged DEF IInv
<1>8. HolderCharged' BY <1>3, <1>6, <1>7 DEF HolderCharged, Logged, FeesOf, FeesTaken
<1> QED BY <1>5, <1>8

-----------------------------------------------------------------------------
(* IInv is inductive when the cron job does not run.                       *)
LEMMA StepInv ==
    ASSUME Repairing = FALSE, IInv, [Next]_vars
    PROVE  IInv'
<1>1. TypeOK /\ RefundsSomebody /\ NoRepair BY DEF IInv
<1>2. ASSUME NEW r \in Requests, Take(r)
      PROVE  IInv'
  <2>1. UNCHANGED <<cancel, repair>>
    BY <1>2 DEF Take, Load, ReadWallet, WriteWallet, FindPending, AssignOrder, WriteGroup
  <2>2. TypeOK' BY <1>1, <1>2, TakeType
  <2> QED BY <1>1, <1>2, <2>1, <2>2, TakeLogged DEF IInv, NoRepair, RefundsSomebody
<1>3. CASE Cancel
  <2>1. UNCHANGED repair
    BY <1>3 DEF Cancel, CancelReadOrder, CancelReadGroup, CancelWriteOrder, CancelReadGroupAgain,
                CancelWriteGroup, CancelReadWallet, CancelWriteWallet
  <2> QED BY <1>1, <1>3, <2>1, CancelType, CancelLogged DEF IInv, NoRepair
<1>4. ~Repair
  BY <1>1 DEF NoRepair, Repair, RepairList, RepairMoney, RepairWriteGroup
<1>5. CASE UNCHANGED vars
  BY <1>5 DEF vars, documents, IInv, TypeOK, PaidLogged, HolderCharged, NoRepair, RefundsSomebody,
              Logged, FeesOf, FeesTaken
<1> QED BY <1>2, <1>3, <1>4, <1>5 DEF Next

(* However the requests of any number of collaborators and the customer's  *)
(* cancellation interleave: who holds the job has been charged for it.     *)
THEOREM HolderHasPaid ==
    ASSUME Repairing = FALSE
    PROVE  Spec => []HolderCharged
<1>1. IInv /\ [Next]_vars => IInv' BY StepInv
<1>2. IInv => HolderCharged BY DEF IInv
<1> QED BY <1>1, <1>2, InitInv, PTL DEF Spec

(* The first request to update the order keeps it, also when the cron job  *)
(* repairs the money.                                                      *)
THEOREM FirstTakerWins == Spec => FirstTakerStays
<1> DEFINE Stays == order.status = "confirm" /\ order'.status = "confirm" =>
                       order'.id_collaborator = order.id_collaborator
<1>1. TypeOK /\ [Next]_vars => [Stays]_vars
  <2> SUFFICES ASSUME TypeOK, Next
               PROVE  Stays
    OBVIOUS
  <2>1. CASE UNCHANGED order BY <2>1
  <2>2. ASSUME NEW r \in Requests, AssignOrder(r)
        PROVE  Stays
    BY <2>2 DEF AssignOrder
  <2>3. CASE CancelWriteOrder BY <2>3 DEF CancelWriteOrder, TypeOK, Order
  <2>4. CASE Repair
    BY <2>1, <2>4 DEF Repair, RepairList, RepairMoney, RepairWriteGroup, documents
  <2> QED
    BY <2>1, <2>2, <2>3, <2>4
    DEF Next, Take, Load, ReadWallet, WriteWallet, FindPending, WriteGroup, Cancel, CancelReadOrder,
        CancelReadGroup, CancelReadGroupAgain, CancelWriteGroup, CancelReadWallet,
        CancelWriteWallet, documents
<1> QED BY <1>1, RaceTypes, PTL DEF Spec, FirstTakerStays

-----------------------------------------------------------------------------
(* The wallets.                                                            *)
LEMMA FeesFinite ==
    ASSUME TypeOK, NEW c
    PROVE  IsFiniteSet(FeesOf(c)) /\ Cardinality(FeesOf(c)) \in Nat
<1>1. Len(history) \in Nat /\ DOMAIN history = 1..Len(history) BY DEF TypeOK
<1>2. IsFiniteSet(1..Len(history)) BY <1>1, FS_Interval
<1>3. FeesOf(c) \in SUBSET (1..Len(history)) BY <1>1 DEF FeesOf, FeesTaken
<1>4. IsFiniteSet(FeesOf(c)) BY <1>2, <1>3, FS_Subset
<1> QED BY <1>4, FS_CardinalityType

LEMMA Multiples ==
    ASSUME NEW n \in Nat
    PROVE  /\ Fee * n \in Int
           /\ Fee * (n + 1) = Fee * n + Fee
  BY RaceAssumption

(* A logged movement lowers the floor of its collaborator by the fee it    *)
(* takes, and no other.                                                    *)
LEMMA FloorMoves ==
    ASSUME TypeOK, NEW c \in Collaborators, NEW value \in {Fee, -Fee}, NEW w \in Int,
           history' = Append(history, Movement(c, value, w)), NEW d \in Collaborators
    PROVE  /\ Floor(d) \in Int
           /\ Floor(d)' = IF d = c /\ value = -Fee THEN Floor(d) - Fee ELSE Floor(d)
<1> DEFINE n == Cardinality(FeesOf(d))
<1>1. n \in Nat /\ IsFiniteSet(FeesOf(d)) BY FeesFinite
<1>2. Fee \in Nat \ {0} /\ Deposit \in Nat BY RaceAssumption
<1>3. Floor(d) \in Int BY <1>1, <1>2, Multiples DEF Floor
<1>4. CASE d = c /\ value = -Fee
  <2>1. /\ FeesOf(d)' = FeesOf(d) \cup {Len(history) + 1}
        /\ Len(history) + 1 \notin FeesOf(d)
    BY <1>4, LogGrows
  <2>2. Cardinality(FeesOf(d))' = n + 1 BY <1>1, <2>1, FS_AddElement
  <2> QED BY <1>1, <1>2, <1>3, <1>4, <2>2, Multiples DEF Floor
<1>5. CASE ~(d = c /\ value = -Fee)
  <2>1. FeesOf(d)' = FeesOf(d) BY <1>5, LogGrows
  <2> QED BY <1>3, <1>5, <2>1 DEF Floor
<1> QED BY <1>3, <1>4, <1>5

LEMMA FloorStays ==
    ASSUME TypeOK, UNCHANGED history, NEW d \in Collaborators
    PROVE  Floor(d) \in Int /\ Floor(d)' = Floor(d)
<1>1. Cardinality(FeesOf(d)) \in Nat BY FeesFinite
<1>2. FeesOf(d)' = FeesOf(d) BY SameLog
<1> QED BY <1>1, <1>2, Multiples, RaceAssumption DEF Floor

LEMMA TakeBalances ==
    ASSUME TypeOK, RefundsSomebody, Balances, NEW r \in Requests, Take(r)
    PROVE  Balances'
<1>1. By(r) \in Collaborators /\ \A q \in Requests : By(q) \in Collaborators BY DEF By, Requests
<1>2. Fee \in Nat \ {0} BY RaceAssumption
<1>3. /\ \A c \in Collaborators : wallet[c] \in Int
      /\ \A q \in Requests : take[q].wallet \in Int
      /\ cancel.wallet \in Int
  BY DEF TypeOK
<1>4. \A q \in Requests \ {r} : take'[q] = take[q]
  BY DEF TypeOK, Take, Load, ReadWallet, WriteWallet, FindPending, AssignOrder, WriteGroup
<1>5. UNCHANGED cancel
  BY DEF Take, Load, ReadWallet, WriteWallet, FindPending, AssignOrder, WriteGroup
<1>6. CASE WriteWallet(r)
  <2> DEFINE rest == take[r].wallet - Fee
  <2>1. /\ take[r].at = "paying" /\ take'[r].at = "paid"
        /\ wallet' = [wallet EXCEPT ![By(r)] = rest]
        /\ history' = Append(history, Movement(By(r), -Fee, rest))
    BY <1>6 DEF WriteWallet, TypeOK
  <2>2. rest \in Int BY <1>2, <1>3
  <2>3. \A d \in Collaborators :
           /\ Floor(d) \in Int
           /\ Floor(d)' = IF d = By(r) THEN Floor(d) - Fee ELSE Floor(d)
    BY <1>1, <2>1, <2>2, FloorMoves
  <2>4. \A d \in Collaborators, b \in Int : b >= Floor(d) => b >= Floor(d)'
    BY <1>2, <2>3
  <2>5. rest >= 0 /\ rest >= Floor(By(r))'
    BY <1>1, <1>2, <1>3, <2>1, <2>3 DEF Balances, BalancesRead, Enough
  <2>6. \A c \in Collaborators : wallet'[c] >= 0 /\ wallet'[c] >= Floor(c)'
    BY <1>1, <1>3, <2>1, <2>4, <2>5 DEF TypeOK, Balances, Enough
  <2>7. \A q \in Requests : take'[q].at = "paying" =>
           take'[q].wallet >= Fee /\ take'[q].wallet >= 0 /\ take'[q].wallet >= Floor(By(q))'
    BY <1>1, <1>3, <1>4, <2>1, <2>4 DEF Balances, BalancesRead, Enough
  <2>8. cancel.at = "repaying" => Enough(cancel.holder, cancel.wallet)'
    BY <1>3, <1>5, <2>4 DEF Balances, BalancesRead, Enough, RefundsSomebody
  <2>9. BalancesRead' BY <1>5, <2>7, <2>8 DEF BalancesRead, Enough
  <2> QED BY <2>6, <2>9 DEF Balances, Enough
<1>7. CASE UNCHANGED <<wallet, history>>
  <2>1. take'[r].at = "paying" => take'[r].wallet = wallet[By(r)] /\ take'[r].wallet >= Fee
    <3>1. CASE ReadWallet(r)
      <4>1. take'[r] = [at |-> IF wallet[By(r)] < Fee THEN "refused" ELSE "paying",
                        wallet |-> wallet[By(r)]]
        BY <3>1 DEF ReadWallet, TypeOK
      <4> QED BY <1>1, <1>2, <1>3, <4>1
    <3>2. CASE ~ReadWallet(r)
      <4>1. take'[r].at # "paying"
        BY <3>2 DEF TypeOK, Take, Load, WriteWallet, FindPending, AssignOrder, WriteGroup
      <4> QED BY <4>1
    <3> QED BY <3>1, <3>2
  <2>2. take'[r].at = "paying" => take'[r].wallet >= Fee /\ Enough(By(r), take'[r].wallet)
    BY <1>1, <2>1 DEF Balances, BalancesRead
  <2>3. \A q \in Requests : take'[q].at = "paying" =>
           take'[q].wallet >= Fee /\ Enough(By(q), take'[q].wallet)
    BY <1>4, <2>2 DEF Balances, BalancesRead
  <2>4. \A q \in Requests : take'[q].at = "paying" =>
           take'[q].wallet >= Fee /\ Enough(By(q), take[q].wallet)'
    BY <1>1, <1>7, <2>3, FloorStays DEF Enough
  <2>5. cancel.at = "repaying" => Enough(cancel.holder, cancel.wallet)'
    BY <1>5, <1>7, SameLog, FloorStays DEF Balances, BalancesRead, RefundsSomebody, Enough
  <2>6. \A c \in Collaborators : Enough(c, wallet[c])'
    BY <1>7, FloorStays DEF Balances, Enough
  <2> QED BY <1>5, <2>4, <2>5, <2>6 DEF Balances, BalancesRead
<1> QED
  BY <1>6, <1>7 DEF Take, Load, ReadWallet, FindPending, AssignOrder, WriteGroup, documents

LEMMA CancelBalances ==
    ASSUME TypeOK, RefundsSomebody, Balances, Cancel
    PROVE  Balances'
<1>1. \A r \in Requests : By(r) \in Collaborators BY DEF By, Requests
<1>2. Fee \in Nat \ {0} BY RaceAssumption
<1>3. UNCHANGED take
  BY DEF Cancel, CancelReadOrder, CancelReadGroup, CancelWriteOrder, CancelReadGroupAgain,
         CancelWriteGroup, CancelReadWallet, CancelWriteWallet
<1>4. CASE CancelWriteWallet
  <2> DEFINE rest == cancel.wallet + Fee
             holder == cancel.holder
  <2>1. /\ cancel.at = "repaying" /\ cancel'.at = "over"
        /\ wallet' = [wallet EXCEPT ![holder] = rest]
        /\ history' = Append(history, Movement(holder, Fee, rest))
    BY <1>4 DEF CancelWriteWallet, TypeOK
  <2>2. rest \in Int /\ holder \in Collaborators
    BY <1>2, <2>1 DEF TypeOK, RefundsSomebody
  <2>3. \A d \in Collaborators : Floor(d) \in Int /\ Floor(d)' = Floor(d)
    <3>1. Fee # -Fee BY <1>2
    <3> QED BY <2>1, <2>2, <3>1, FloorMoves
  <2>4. rest >= 0 /\ rest >= Floor(holder)
    BY <1>2, <2>1, <2>2, <2>3 DEF Balances, BalancesRead, Enough, TypeOK
  <2>5. \A c \in Collaborators : Enough(c, wallet[c])'
    BY <2>1, <2>2, <2>3, <2>4 DEF TypeOK, Balances, Enough
  <2>6. BalancesRead'
    BY <1>1, <1>3, <2>1, <2>3 DEF Balances, BalancesRead, Enough
  <2> QED BY <2>5, <2>6 DEF Balances
<1>5. CASE UNCHANGED <<wallet, history>>
  <2>1. \A c \in Collaborators : Enough(c, wallet[c])'
    BY <1>5, FloorStays DEF Balances, Enough
  <2>2. cancel'.at = "repaying" =>
           cancel'.holder = cancel.holder /\ cancel'.wallet = wallet[cancel.holder] /\ cancel.at = "refund"
    BY DEF TypeOK, Cancel, CancelReadOrder, CancelReadGroup, CancelWriteOrder, CancelReadGroupAgain,
           CancelWriteGroup, CancelReadWallet, CancelWriteWallet
  <2>3. cancel'.at = "repaying" => Enough(cancel.holder, cancel.wallet)'
    BY <1>5, <2>2, SameLog, FloorStays DEF Balances, Enough, RefundsSomebody
  <2>4. \A r \in Requests : take[r].at = "paying" =>
           take[r].wallet >= Fee /\ Enough(By(r), take[r].wallet)'
    BY <1>1, <1>3, <1>5, FloorStays DEF Balances, BalancesRead, Enough
  <2> QED BY <1>3, <2>1, <2>3, <2>4 DEF Balances, BalancesRead
<1> QED
  BY <1>4, <1>5 DEF Cancel, CancelReadOrder, CancelReadGroup, CancelWriteOrder,
                    CancelReadGroupAgain, CancelWriteGroup, CancelReadWallet, documents

(* Requests may overwrite each other's wallets, but nobody loses more than *)
(* the fees logged against him, and no wallet is overdrawn: the balance    *)
(* that is written back was checked when it was read, and the log had      *)
(* grown by then at most as much as it has now.                            *)
THEOREM NobodyLosesMore ==
    ASSUME Repairing = FALSE
    PROVE  Spec => []NobodyOvercharged
<1>1. Init => Balances
  <2> SUFFICES ASSUME Init PROVE Balances
    OBVIOUS
  <2>1. TypeOK BY InitInv DEF IInv
  <2>2. \A c \in Collaborators : Floor(c) = Deposit
    <3> SUFFICES ASSUME NEW c \in Collaborators PROVE Floor(c) = Deposit
      OBVIOUS
    <3>1. FeesOf(c) = {} BY DEF Init, FeesOf, FeesTaken
    <3>2. Cardinality(FeesOf(c)) = 0 BY <3>1, FS_EmptySet
    <3> QED BY <3>2, RaceAssumption DEF Floor
  <2>3. \A r \in Requests : take[r].at = "new" BY DEF Init
  <2>4. cancel.at \in {"new", "over"} BY DEF Init
  <2>5. \A c \in Collaborators : wallet[c] = Deposit BY DEF Init
  <2> QED BY <2>2, <2>3, <2>4, <2>5, RaceAssumption DEF Balances, BalancesRead, Enough
<1>2. IInv /\ Balances /\ [Next]_vars => Balances'
  <2> SUFFICES ASSUME IInv, Balances, [Next]_vars
               PROVE  Balances'
    OBVIOUS
  <2>1. TypeOK /\ RefundsSomebody /\ NoRepair BY DEF IInv
  <2>2. ASSUME NEW r \in Requests, Take(r) PROVE Balances' BY <2>1, <2>2, TakeBalances
  <2>3. CASE Cancel BY <2>1, <2>3, CancelBalances
  <2>4. ~Repair BY <2>1 DEF NoRepair, Repair, RepairList, RepairMoney, RepairWriteGroup
  <2>5. CASE UNCHANGED vars
    <3>1. \A c \in Collaborators : Floor(c)' = Floor(c)
      BY <2>1, <2>5, FloorStays DEF vars, documents
    <3>2. \A r \in Requests : By(r) \in Collaborators BY DEF By, Requests
    <3>3. \A c \in Collaborators : Enough(c, wallet[c])'
      BY <2>5, <3>1 DEF Balances, Enough, vars, documents
    <3>4. \A r \in Requests : take[r].at = "paying" =>
             take[r].wallet >= Fee /\ Enough(By(r), take[r].wallet)'
      BY <2>5, <3>1, <3>2 DEF Balances, BalancesRead, Enough, vars
    <3>5. cancel.at = "repaying" => Enough(cancel.holder, cancel.wallet)'
      BY <2>1, <2>5, <3>1 DEF Balances, BalancesRead, Enough, vars, RefundsSomebody
    <3> QED BY <2>5, <3>3, <3>4, <3>5 DEF Balances, BalancesRead, vars
  <2> QED BY <2>2, <2>3, <2>4, <2>5 DEF Next
<1>3. Balances => NobodyOvercharged
  BY DEF Balances, Enough, Floor, FeesOf, NobodyOvercharged
<1>4. IInv /\ [Next]_vars => IInv' BY StepInv
<1> QED BY <1>1, <1>2, <1>3, <1>4, InitInv, PTL DEF Spec
=============================================================================
