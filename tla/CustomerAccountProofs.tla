------------------------ MODULE CustomerAccountProofs ------------------------
(***************************************************************************)
(* The books of CustomerAccount balance for any number of transactions.    *)
(***************************************************************************)
EXTENDS CustomerAccount, FiniteSetTheorems, TLAPS

(* The constants as an account has them; the theorems assume them, so that *)
(* whoever instantiates CustomerAccount shows them for his own.            *)
AccountConstants == /\ IsFiniteSet(Ids)
                    /\ Money \in Nat \ {0}
                    /\ Opening \in Nat
                    /\ Minimum \in Nat

(* Ids is finite, so are its subsets, and their sizes are multiplied with  *)
(* the amount.                                                             *)
LEMMA SubsetSize ==
    ASSUME AccountConstants, NEW S \in SUBSET Ids
    PROVE  /\ IsFiniteSet(S)
           /\ Cardinality(S) \in Nat
           /\ Money * Cardinality(S) \in Int
<1>1. IsFiniteSet(S) BY AccountConstants, FS_Subset DEF AccountConstants
<1>2. Cardinality(S) \in Nat BY <1>1, FS_CardinalityType
<1> QED BY <1>1, <1>2, AccountConstants DEF AccountConstants

LEMMA Grows ==
    ASSUME AccountConstants, NEW S \in SUBSET Ids, NEW t \in Ids \ S
    PROVE  Money * Cardinality(S \cup {t}) = Money * Cardinality(S) + Money
<1>1. Cardinality(S) \in Nat /\ IsFiniteSet(S) BY SubsetSize
<1>2. Cardinality(S \cup {t}) = Cardinality(S) + 1 BY <1>1, FS_AddElement
<1> QED BY <1>1, <1>2, AccountConstants DEF AccountConstants

LEMMA Shrinks ==
    ASSUME AccountConstants, NEW S \in SUBSET Ids, NEW t \in S
    PROVE  Money * Cardinality(S \ {t}) = Money * Cardinality(S) - Money
<1>1. S \ {t} \in SUBSET Ids /\ t \in Ids \ (S \ {t}) /\ (S \ {t}) \cup {t} = S OBVIOUS
<1>2. Money * Cardinality(S) = Money * Cardinality(S \ {t}) + Money BY <1>1, Grows
<1>3. Money * Cardinality(S \ {t}) \in Int BY <1>1, SubsetSize
<1> QED BY <1>2, <1>3, AccountConstants DEF AccountConstants

-----------------------------------------------------------------------------
IInv == TypeOK /\ Balanced

LEMMA InitInv == ASSUME AccountConstants PROVE Init => IInv
<1> SUFFICES ASSUME Init PROVE IInv
  OBVIOUS
<1>1. Taken = {} /\ Credited = {} BY DEF Init, Absent, Taken, Credited
<1>2. Cardinality(Taken) = 0 /\ Cardinality(Credited) = 0 BY <1>1, FS_EmptySet
<1> QED BY <1>2, AccountConstants DEF AccountConstants, Init, Absent, Entry, IInv, TypeOK, Balanced

LEMMA StepInv == ASSUME AccountConstants PROVE IInv /\ [Next]_vars => IInv'
<1> SUFFICES ASSUME IInv, [Next]_vars
             PROVE  IInv'
  OBVIOUS
<1> USE DEF IInv
<1>1. Taken \in SUBSET Ids /\ Credited \in SUBSET Ids BY DEF Taken, Credited
<1>2. Money * Cardinality(Taken) \in Int /\ Money * Cardinality(Credited) \in Int
  BY <1>1, SubsetSize
<1>3. ASSUME NEW t \in Ids, CreateTopUp(t)
      PROVE  IInv'
  <2>1. Taken' = Taken /\ Credited' = Credited
    BY <1>3 DEF CreateTopUp, TypeOK, Absent, Entry, Taken, Credited
  <2>2. TypeOK' BY <1>3 DEF CreateTopUp, TypeOK, Entry
  <2> QED BY <1>3, <2>1, <2>2 DEF CreateTopUp, Balanced
<1>4. ASSUME NEW t \in Ids, RequestWithdrawal(t)
      PROVE  IInv'
  <2>1. t \notin Taken /\ Taken' = Taken \cup {t} /\ Credited' = Credited
    BY <1>4 DEF RequestWithdrawal, TypeOK, Absent, Entry, Taken, Credited
  <2>2. TypeOK' BY <1>4, AccountConstants DEF AccountConstants, RequestWithdrawal, TypeOK, Entry
  <2>3. Money * Cardinality(Taken') = Money * Cardinality(Taken) + Money BY <1>1, <2>1, Grows
  <2>4. a_pay' = a_pay - Money /\ a_pay >= Money /\ pay_point' = pay_point
    BY <1>4 DEF RequestWithdrawal
  <2> QED BY <1>2, <2>1, <2>2, <2>3, <2>4, AccountConstants DEF AccountConstants, TypeOK, Balanced
<1>5. ASSUME NEW t \in Ids, Verify(t)
      PROVE  IInv'
  <2>1. TypeOK' BY <1>5, AccountConstants DEF AccountConstants, Verify, TypeOK, Entry
  <2>2. Taken' = Taken BY <1>5 DEF Verify, Open, TypeOK, Entry, Taken
  <2>3. CASE entry[t].type_transfer = "top_up"
    <3>1. t \notin Credited /\ Credited' = Credited \cup {t}
      BY <1>5, <2>3 DEF Verify, Open, TypeOK, Entry, Credited
    <3>2. Money * Cardinality(Credited') = Money * Cardinality(Credited) + Money
      BY <1>1, <3>1, Grows
    <3> QED BY <1>2, <1>5, <2>1, <2>2, <2>3, <3>2, AccountConstants DEF AccountConstants, Verify, Balanced
  <2>4. CASE entry[t].type_transfer # "top_up"
    <3>1. Credited' = Credited BY <1>5, <2>4 DEF Verify, Open, TypeOK, Entry, Credited
    <3> QED BY <1>5, <2>1, <2>2, <2>4, <3>1 DEF Verify, Balanced
  <2> QED BY <2>3, <2>4
<1>6. ASSUME NEW t \in Ids, Cancel(t)
      PROVE  IInv'
  <2>1. TypeOK' BY <1>6, AccountConstants DEF AccountConstants, Cancel, TypeOK, Entry
  <2>2. Credited' = Credited BY <1>6 DEF Cancel, Open, TypeOK, Entry, Credited
  <2>3. CASE entry[t].type_transfer = "withdraw_affiliate"
    <3>1. t \in Taken /\ Taken' = Taken \ {t}
      BY <1>6, <2>3 DEF Cancel, Open, TypeOK, Entry, Taken
    <3>2. Money * Cardinality(Taken') = Money * Cardinality(Taken) - Money
      BY <1>1, <3>1, Shrinks
    <3>3. a_pay' = a_pay + Money /\ pay_point' = pay_point BY <1>6, <2>3 DEF Cancel
    <3> QED BY <1>2, <2>1, <2>2, <3>2, <3>3, AccountConstants DEF AccountConstants, TypeOK, Balanced
  <2>4. CASE entry[t].type_transfer # "withdraw_affiliate"
    <3>1. Taken' = Taken BY <1>6, <2>4 DEF Cancel, Open, TypeOK, Entry, Taken
    <3> QED BY <1>6, <2>1, <2>2, <2>4, <3>1 DEF Cancel, Balanced
  <2> QED BY <2>3, <2>4
<1>7. ASSUME NEW t \in Ids, Fail(t)
      PROVE  IInv'
  <2>1. Taken' = Taken /\ Credited' = Credited
    BY <1>7 DEF Fail, TypeOK, Entry, Taken, Credited
  <2>2. TypeOK' BY <1>7 DEF Fail, TypeOK, Entry
  <2> QED BY <1>7, <2>1, <2>2 DEF Fail, Balanced
<1>8. CASE UNCHANGED vars
  BY <1>8 DEF vars, TypeOK, Balanced, Taken, Credited
<1> QED BY <1>3, <1>4, <1>5, <1>6, <1>7, <1>8 DEF Next

(* However many transactions there are and however they are verified,      *)
(* cancelled or fail: what is missing from a_pay is what was withdrawn,    *)
(* the pay points are the top-ups carried out, and nothing is overdrawn.   *)
THEOREM BooksBalance == ASSUME AccountConstants PROVE Spec => []Balanced
<1>1. IInv => Balanced BY DEF IInv
<1> QED BY <1>1, InitInv, StepInv, PTL DEF Spec
=============================================================================
