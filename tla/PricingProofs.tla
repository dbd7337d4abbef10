---------------------------- MODULE PricingProofs ----------------------------
(***************************************************************************)
(* What is so of the fees of a group order for whatever is asked for, any  *)
(* number of dates and any tables of prices, surcharges and promotions.    *)
(***************************************************************************)
EXTENDS Pricing, FiniteSetTheorems, SequenceTheorems, TLAPS

-----------------------------------------------------------------------------
(* Numbers                                                                 *)

(* Math.ceil to thousands: enough, and not a thousand too much.            *)
LEMMA CeilThousands ==
    ASSUME NEW n \in Nat
    PROVE  /\ Ceil(n, 100000) \in 0..(n \div 100000 + 1)
           /\ Ceil(n, 100000) * 100000 >= n
           /\ (Ceil(n, 100000) - 1) * 100000 < n
  BY DEF Ceil

LEMMA RoundType ==
    ASSUME NEW n \in Int, NEW d \in Nat \ {0}
    PROVE  Round(n, d) \in Int
<1>1. 2 * n + d \in Int /\ 2 * d \in Nat /\ 2 * d > 0 OBVIOUS
<1> QED BY <1>1 DEF Round

LEMMA RoundNat ==
    ASSUME NEW n \in Nat
    PROVE  Round(n, 100000) \in Nat /\ Round(n, 1000) \in Nat /\ Round(n, 100) \in Nat
  BY DEF Round

LEMMA Times == ASSUME NEW a \in Nat, NEW b \in Nat PROVE a * b \in Nat
  OBVIOUS

(* What is divided among the dates, and what the last one gets besides.    *)
LEMMA DivMod ==
    ASSUME NEW a \in Nat, NEW n \in Nat \ {0}
    PROVE  /\ a \div n \in Nat /\ a % n \in Nat /\ a % n < n
           /\ n * (a \div n) + (a % n) = a
  OBVIOUS

-----------------------------------------------------------------------------
(* Sums                                                                    *)

Any(s) == CHOOSE x \in s : TRUE

(* f is the sum of w over every set of S, taken one element after the other. *)
Adds(w, S, f) ==
    f = [s \in SUBSET S |-> IF s = {} THEN 0 ELSE w[Any(s)] + f[s \ {Any(s)}]]

SumOver(w, S) == (CHOOSE f : Adds(w, S, f))[S]

LEMMA AddsStep ==
    ASSUME NEW w, NEW S, NEW f, Adds(w, S, f), NEW s \in SUBSET S
    PROVE  f[s] = IF s = {} THEN 0 ELSE w[Any(s)] + f[s \ {Any(s)}]
<1> DEFINE g == [t \in SUBSET S |-> IF t = {} THEN 0 ELSE w[Any(t)] + f[t \ {Any(t)}]]
<1>1. f = g BY DEF Adds
<1>2. g[s] = IF s = {} THEN 0 ELSE w[Any(s)] + f[s \ {Any(s)}] OBVIOUS
<1> QED BY <1>1, <1>2

LEMMA AnyOf == ASSUME NEW s, s # {} PROVE Any(s) \in s
  BY DEF Any

LEMMA Smallest ==
    ASSUME NEW S, IsFiniteSet(S), NEW T \in SUBSET SUBSET S, T # {}
    PROVE  \E t \in T : \A u \in T : u \subseteq t => u = t
<1>1. IsWellFoundedOn(StrictSubsetOrdering(S), SUBSET S)
  BY FS_StrictSubsetOrderingWellFounded, FS_FiniteSubsetsOfFinite
<1>2. \E t \in T : \A u \in T : ~(<<u, t>> \in StrictSubsetOrdering(S)) BY <1>1, WFMin
<1> QED BY <1>2 DEF StrictSubsetOrdering

LEMMA AddsSame ==
    ASSUME NEW S, IsFiniteSet(S), NEW A, NEW B, S \subseteq A, S \subseteq B, NEW w, NEW v, NEW f, NEW g,
           Adds(w, A, f), Adds(v, B, g), \A x \in S : w[x] = v[x]
    PROVE  f[S] = g[S]
<1> DEFINE T == {s \in SUBSET S : f[s] # g[s]}
<1>1. SUFFICES ASSUME T # {} PROVE FALSE OBVIOUS
<1>2. PICK t \in T : \A u \in T : u \subseteq t => u = t
  <2>1. T \in SUBSET SUBSET S OBVIOUS
  <2> HIDE DEF T
  <2> QED BY <1>1, <2>1, Smallest
<1>3. t \in SUBSET S /\ t \in SUBSET A /\ t \in SUBSET B /\ f[t] # g[t] BY <1>2
<1>4. /\ f[t] = IF t = {} THEN 0 ELSE w[Any(t)] + f[t \ {Any(t)}]
      /\ g[t] = IF t = {} THEN 0 ELSE v[Any(t)] + g[t \ {Any(t)}]
  BY <1>3, AddsStep
<1>5. t # {} BY <1>3, <1>4
<1>6. Any(t) \in t BY <1>5, AnyOf
<1>7. f[t \ {Any(t)}] = g[t \ {Any(t)}] BY <1>2, <1>6
<1> QED BY <1>3, <1>4, <1>5, <1>6, <1>7

LEMMA AddsExists ==
    ASSUME NEW S, IsFiniteSet(S), NEW w
    PROVE  \E f : Adds(w, S, f)
<1> DEFINE T == {s \in SUBSET S : ~ \E f : Adds(w, s, f)}
<1>1. SUFFICES ASSUME T # {} PROVE FALSE OBVIOUS
<1>2. PICK t \in T : \A u \in T : u \subseteq t => u = t
  <2>1. T \in SUBSET SUBSET S OBVIOUS
  <2> HIDE DEF T
  <2> QED BY <1>1, <2>1, Smallest
<1> DEFINE F(u) == CHOOSE f : Adds(w, u, f)
           g == [s \in SUBSET t |-> IF s = {} THEN 0 ELSE w[Any(s)] + F(s \ {Any(s)})[s \ {Any(s)}]]
<1>3. ASSUME NEW u \in SUBSET t, u # t PROVE Adds(w, u, F(u)) BY <1>2, <1>3
<1>4. ASSUME NEW u \in SUBSET t, u # t PROVE g[u] = F(u)[u]
  <2>1. Adds(w, u, F(u)) BY <1>3, <1>4
  <2>2. F(u)[u] = IF u = {} THEN 0 ELSE w[Any(u)] + F(u)[u \ {Any(u)}] BY <2>1, AddsStep
  <2>3. CASE u = {} BY <2>2, <2>3
  <2>4. CASE u # {}
    <3> DEFINE v == u \ {Any(u)}
    <3>1. Any(u) \in u /\ v \subseteq u /\ v \in SUBSET t /\ v # t BY <2>4, AnyOf
    <3>2. Adds(w, v, F(v)) BY <1>3, <3>1
    <3>3. IsFiniteSet(v) BY <3>1, FS_Subset
    <3>4. F(u)[v] = F(v)[v] BY <2>1, <3>1, <3>2, <3>3, AddsSame
    <3>5. g[u] = w[Any(u)] + F(v)[v] BY <2>4
    <3> QED BY <2>2, <2>4, <3>4, <3>5
  <2> QED BY <2>3, <2>4
<1>5. ASSUME NEW s \in SUBSET t, s # {} PROVE g[s] = w[Any(s)] + g[s \ {Any(s)}]
  <2>1. Any(s) \in s BY <1>5, AnyOf
  <2>2. s \ {Any(s)} \in SUBSET t /\ s \ {Any(s)} # t BY <2>1
  <2>3. g[s] = w[Any(s)] + F(s \ {Any(s)})[s \ {Any(s)}] BY <1>5
  <2> HIDE DEF g, F
  <2> QED BY <1>4, <2>2, <2>3
<1>6. g[{}] = 0 OBVIOUS
<1>7. Adds(w, t, g)
  <2>1. g = [s \in SUBSET t |-> g[s]] OBVIOUS
  <2> HIDE DEF g
  <2>2. \A s \in SUBSET t : g[s] = IF s = {} THEN 0 ELSE w[Any(s)] + g[s \ {Any(s)}] BY <1>5, <1>6
  <2> QED BY <2>1, <2>2 DEF Adds
<1> QED BY <1>2, <1>7

LEMMA SumAdds ==
    ASSUME NEW S, IsFiniteSet(S), NEW w
    PROVE  Adds(w, S, CHOOSE f : Adds(w, S, f))
  BY AddsExists

(* A sum is the same whatever the order.                                   *)
LEMMA AddsAny ==
    ASSUME NEW S, IsFiniteSet(S), NEW w, \A x \in S : w[x] \in Int, NEW f, Adds(w, S, f)
    PROVE  /\ \A s \in SUBSET S : f[s] \in Int
           /\ \A s \in SUBSET S : \A y \in s : f[s] = f[s \ {y}] + w[y]
<1>1. \A s \in SUBSET S : f[s] \in Int
  <2> DEFINE T == {s \in SUBSET S : f[s] \notin Int}
  <2>1. SUFFICES ASSUME T # {} PROVE FALSE OBVIOUS
  <2>2. PICK t \in T : \A u \in T : u \subseteq t => u = t
    <3>1. T \in SUBSET SUBSET S OBVIOUS
    <3> HIDE DEF T
    <3> QED BY <2>1, <3>1, Smallest
  <2>3. t \in SUBSET S /\ f[t] \notin Int /\ \A u \in SUBSET S : u \subseteq t /\ u # t => f[u] \in Int
    BY <2>2
  <2> HIDE DEF T
  <2>4. f[t] = IF t = {} THEN 0 ELSE w[Any(t)] + f[t \ {Any(t)}]
    <3>1. t \in SUBSET S BY <2>3
    <3> QED BY <3>1, AddsStep
  <2>5. t # {} BY <2>3, <2>4
  <2>6. Any(t) \in t BY <2>5, AnyOf
  <2>7. f[t \ {Any(t)}] \in Int /\ w[Any(t)] \in Int
    <3>1. t \ {Any(t)} \in SUBSET S /\ t \ {Any(t)} \subseteq t /\ t \ {Any(t)} # t /\ Any(t) \in S BY <2>3, <2>6
    <3> QED BY <2>3, <3>1
  <2> QED BY <2>3, <2>4, <2>5, <2>7
<1>2. \A s \in SUBSET S : \A y \in s : f[s] = f[s \ {y}] + w[y]
  <2> DEFINE T == {s \in SUBSET S : \E y \in s : f[s] # f[s \ {y}] + w[y]}
  <2>1. SUFFICES ASSUME T # {} PROVE FALSE OBVIOUS
  <2>2. PICK t \in T : \A u \in T : u \subseteq t => u = t
    <3>1. T \in SUBSET SUBSET S OBVIOUS
    <3> HIDE DEF T
    <3> QED BY <2>1, <3>1, Smallest
  <2>3. PICK y \in t : f[t] # f[t \ {y}] + w[y] BY <2>2
  <2>4. /\ t \in SUBSET S /\ t # {}
        /\ \A u \in SUBSET S : u \subseteq t /\ u # t => \A z \in u : f[u] = f[u \ {z}] + w[z]
    BY <2>2, <2>3
  <2> HIDE DEF T
  <2> DEFINE x == Any(t)
  <2>5. x \in t BY <2>4, AnyOf
  <2>6. f[t] = w[x] + f[t \ {x}]
    <3>1. f[t] = IF t = {} THEN 0 ELSE w[Any(t)] + f[t \ {Any(t)}] BY <2>4, AddsStep
    <3> QED BY <2>4, <3>1
  <2> HIDE DEF x
  <2>7. /\ w[x] \in Int /\ w[y] \in Int /\ f[t \ {x}] \in Int /\ f[t \ {y}] \in Int
        /\ f[(t \ {x}) \ {y}] \in Int
    <3>1. x \in S /\ y \in S /\ t \ {x} \in SUBSET S /\ t \ {y} \in SUBSET S /\ (t \ {x}) \ {y} \in SUBSET S
      BY <2>3, <2>4, <2>5
    <3> QED BY <1>1, <3>1
  <2>8. x # y
    <3>1. w[x] + f[t \ {x}] = f[t \ {x}] + w[x] BY <2>7
    <3> QED BY <2>3, <2>6, <3>1
  <2>9. f[t \ {x}] = f[(t \ {x}) \ {y}] + w[y]
    <3>1. t \ {x} \subseteq t /\ t \ {x} # t /\ t \ {x} \in SUBSET S /\ y \in t \ {x} BY <2>3, <2>4, <2>5, <2>8
    <3> QED BY <2>4, <3>1
  <2>10. f[t \ {y}] = f[(t \ {y}) \ {x}] + w[x]
    <3>1. t \ {y} \subseteq t /\ t \ {y} # t /\ t \ {y} \in SUBSET S /\ x \in t \ {y} BY <2>3, <2>4, <2>5, <2>8
    <3> QED BY <2>4, <3>1
  <2>11. (t \ {y}) \ {x} = (t \ {x}) \ {y} OBVIOUS
  <2>12. w[x] + (f[(t \ {x}) \ {y}] + w[y]) = (f[(t \ {x}) \ {y}] + w[x]) + w[y] BY <2>7
  <2> QED BY <2>3, <2>6, <2>9, <2>10, <2>11, <2>12
<1> QED BY <1>1, <1>2

LEMMA SumNothing == ASSUME NEW w PROVE SumOver(w, {}) = 0
<1>1. Adds(w, {}, CHOOSE f : Adds(w, {}, f)) BY SumAdds, FS_EmptySet
<1> QED BY <1>1, AddsStep DEF SumOver

LEMMA SumSame ==
    ASSUME NEW S, IsFiniteSet(S), NEW w, NEW v, \A x \in S : w[x] = v[x]
    PROVE  SumOver(w, S) = SumOver(v, S)
<1>1. Adds(w, S, CHOOSE f : Adds(w, S, f)) /\ Adds(v, S, CHOOSE f : Adds(v, S, f)) BY SumAdds
<1> QED BY <1>1, AddsSame DEF SumOver

LEMMA SumOneMore ==
    ASSUME NEW S, IsFiniteSet(S), NEW y, y \notin S, NEW w, \A x \in S \cup {y} : w[x] \in Int
    PROVE  SumOver(w, S \cup {y}) = SumOver(w, S) + w[y] /\ SumOver(w, S) \in Int
<1> DEFINE U == S \cup {y}
           f == CHOOSE h : Adds(w, S, h)
           g == CHOOSE h : Adds(w, U, h)
<1>1. IsFiniteSet(U) BY FS_AddElement
<1>2. Adds(w, S, f) /\ Adds(w, U, g) BY <1>1, SumAdds
<1>3. f[S] = g[S] BY <1>2, AddsSame
<1>4. g[U] = g[U \ {y}] + w[y]
  <2> HIDE DEF g
  <2>1. y \in U /\ (\A x \in U : w[x] \in Int) /\ U \in SUBSET U OBVIOUS
  <2> HIDE DEF U
  <2> QED BY <1>1, <1>2, <2>1, AddsAny
<1>5. U \ {y} = S OBVIOUS
<1>6. f[S] \in Int BY <1>2, AddsAny
<1> QED BY <1>3, <1>4, <1>5, <1>6 DEF SumOver

LEMMA SumInt ==
    ASSUME NEW S, IsFiniteSet(S), NEW w, \A x \in S : w[x] \in Int
    PROVE  SumOver(w, S) \in Int
<1> DEFINE f == CHOOSE h : Adds(w, S, h)
<1>1. Adds(w, S, f) BY SumAdds
<1>2. S \in SUBSET S OBVIOUS
<1> HIDE DEF f
<1>3. f[S] \in Int BY <1>1, <1>2, AddsAny
<1> QED BY <1>3 DEF SumOver, f

LEMMA SumLess ==
    ASSUME NEW S, IsFiniteSet(S), NEW y \in S, NEW w, \A x \in S : w[x] \in Int
    PROVE  SumOver(w, S) = SumOver(w, S \ {y}) + w[y] /\ SumOver(w, S \ {y}) \in Int
<1>1. IsFiniteSet(S \ {y}) /\ y \notin S \ {y} /\ (S \ {y}) \cup {y} = S BY FS_RemoveElement
<1> QED BY <1>1, SumOneMore

(* What is added to every element is added to the sum.                     *)
LEMMA SumOfBoth ==
    ASSUME NEW S, IsFiniteSet(S), NEW u, NEW v, NEW w,
           \A x \in S : u[x] \in Int /\ v[x] \in Int /\ w[x] = u[x] + v[x]
    PROVE  SumOver(w, S) = SumOver(u, S) + SumOver(v, S)
<1> DEFINE T == {s \in SUBSET S : SumOver(w, s) # SumOver(u, s) + SumOver(v, s)}
<1>1. SUFFICES ASSUME T # {} PROVE FALSE OBVIOUS
<1>2. PICK t \in T : \A s \in T : s \subseteq t => s = t
  <2>1. T \in SUBSET SUBSET S OBVIOUS
  <2> HIDE DEF T
  <2> QED BY <1>1, <2>1, Smallest
<1>3. t \in SUBSET S /\ SumOver(w, t) # SumOver(u, t) + SumOver(v, t) BY <1>2
<1>4. t # {} BY <1>3, SumNothing
<1>5. PICK y : y \in t BY <1>4
<1>6. SumOver(w, t \ {y}) = SumOver(u, t \ {y}) + SumOver(v, t \ {y}) BY <1>2, <1>5
<1>7. IsFiniteSet(t) /\ \A x \in t : u[x] \in Int /\ v[x] \in Int /\ w[x] \in Int /\ w[x] = u[x] + v[x]
  BY <1>3, FS_Subset
<1> HIDE DEF T
<1>8. /\ SumOver(w, t) = SumOver(w, t \ {y}) + w[y]
      /\ SumOver(u, t) = SumOver(u, t \ {y}) + u[y] /\ SumOver(u, t \ {y}) \in Int
      /\ SumOver(v, t) = SumOver(v, t \ {y}) + v[y] /\ SumOver(v, t \ {y}) \in Int
  BY <1>5, <1>7, SumLess
<1> QED BY <1>3, <1>5, <1>6, <1>7, <1>8

LEMMA TimesOneMore == ASSUME NEW a \in Int, NEW b \in Int PROVE (a - 1) * b + b = a * b
  OBVIOUS

LEMMA SumOfOneValue ==
    ASSUME NEW S, IsFiniteSet(S), NEW k \in Int, NEW w, \A x \in S : w[x] = k
    PROVE  SumOver(w, S) = Cardinality(S) * k
<1> DEFINE T == {s \in SUBSET S : SumOver(w, s) # Cardinality(s) * k}
<1>1. SUFFICES ASSUME T # {} PROVE FALSE OBVIOUS
<1>2. PICK t \in T : \A s \in T : s \subseteq t => s = t
  <2>1. T \in SUBSET SUBSET S OBVIOUS
  <2> HIDE DEF T
  <2> QED BY <1>1, <2>1, Smallest
<1>3. t \in SUBSET S /\ SumOver(w, t) # Cardinality(t) * k BY <1>2
<1>4. t # {}
  <2>1. SumOver(w, {}) = 0 /\ Cardinality({}) = 0 /\ 0 * k = 0 BY SumNothing, FS_EmptySet
  <2> QED BY <1>3, <2>1
<1>5. PICK y : y \in t BY <1>4
<1>6. SumOver(w, t \ {y}) = Cardinality(t \ {y}) * k BY <1>2, <1>5
<1>7. IsFiniteSet(t) /\ \A x \in t : w[x] \in Int /\ w[x] = k
  BY <1>3, FS_Subset
<1> HIDE DEF T
<1>8. SumOver(w, t) = SumOver(w, t \ {y}) + w[y] BY <1>5, <1>7, SumLess
<1>9. Cardinality(t) \in Nat /\ Cardinality(t \ {y}) = Cardinality(t) - 1
  BY <1>5, <1>7, FS_RemoveElement, FS_CardinalityType
<1> QED BY <1>3, <1>5, <1>6, <1>7, <1>8, <1>9, TimesOneMore

LEMMA SumOfOneElement ==
    ASSUME NEW S, IsFiniteSet(S), NEW y \in S, NEW w, w[y] \in Int, \A x \in S \ {y} : w[x] = 0
    PROVE  SumOver(w, S) = w[y]
<1>1. IsFiniteSet(S \ {y}) /\ Cardinality(S \ {y}) \in Nat BY FS_RemoveElement, FS_CardinalityType
<1>2. SumOver(w, S \ {y}) = 0 BY <1>1, SumOfOneValue
<1>3. SumOver(w, S) = SumOver(w, S \ {y}) + w[y] BY SumLess
<1> QED BY <1>2, <1>3

(* The sums of the module are these.                                       *)
LEMMA TotalIs ==
    ASSUME NEW field, NEW w, IsFiniteSet(DOMAIN infoJob.date),
           \A i \in DOMAIN infoJob.date : w[i] = infoJob.date[i][field]
    PROVE  Total(field) = SumOver(w, DOMAIN infoJob.date)
<1> DEFINE S == DOMAIN infoJob.date
           I(f) == f = [s \in SUBSET S |->
                          IF s = {} THEN 0
                          ELSE infoJob.date[CHOOSE i \in s : TRUE][field] + f[s \ {CHOOSE i \in s : TRUE}]]
<1>1. Total(field) = (CHOOSE f : I(f))[S] BY DEF Total, FoldFunction, FoldFunctionOnSet, MapThenFoldSet
<1>2. ASSUME NEW f PROVE I(f) <=> Adds(w, S, f) BY AnyOf DEF Adds, Any
<1>3. I(CHOOSE f : I(f))
  <2>1. PICK f : Adds(w, S, f) BY AddsExists
  <2>2. \E g : I(g)
    <3>1. I(f) BY <1>2, <2>1
    <3> HIDE DEF I
    <3> QED BY <3>1
  <2> HIDE DEF I
  <2> QED BY <2>2
<1> DEFINE g == CHOOSE f : I(f)
           h == CHOOSE f : Adds(w, S, f)
<1>4. Adds(w, S, g) BY <1>2, <1>3
<1>5. Adds(w, S, h) BY SumAdds
<1> HIDE DEF g, h
<1>6. g[S] = h[S] BY <1>4, <1>5, AddsSame
<1> QED BY <1>1, <1>6 DEF SumOver, g, h

LEMMA FoldIs ==
    ASSUME NEW fun, IsFiniteSet(DOMAIN fun)
    PROVE  FoldFunction(+, 0, fun) = SumOver(fun, DOMAIN fun)
<1> DEFINE S == DOMAIN fun
           I(f) == f = [s \in SUBSET S |->
                          IF s = {} THEN 0
                          ELSE fun[CHOOSE i \in s : TRUE] + f[s \ {CHOOSE i \in s : TRUE}]]
<1>1. FoldFunction(+, 0, fun) = (CHOOSE f : I(f))[S] BY DEF FoldFunction, FoldFunctionOnSet, MapThenFoldSet
<1>2. ASSUME NEW f PROVE I(f) <=> Adds(fun, S, f) BY AnyOf DEF Adds, Any
<1>3. I(CHOOSE f : I(f))
  <2>1. PICK f : Adds(fun, S, f) BY AddsExists
  <2>2. \E g : I(g)
    <3> HIDE DEF I
    <3>1. I(f) BY <1>2, <2>1
    <3> QED BY <3>1
  <2> HIDE DEF I
  <2> QED BY <2>2
<1> DEFINE g == CHOOSE f : I(f)
           h == CHOOSE f : Adds(fun, S, f)
<1>4. Adds(fun, S, g) BY <1>2, <1>3
<1>5. Adds(fun, S, h) BY SumAdds
<1> HIDE DEF g, h
<1>6. g[S] = h[S] BY <1>4, <1>5, AddsSame
<1> QED BY <1>1, <1>6 DEF SumOver, g, h
-----------------------------------------------------------------------------
(* The parts of the sum                                                    *)

LEMMA PayloadIs ==
    ASSUME payload \in Payloads
    PROVE  /\ N \in Nat \ {0} /\ 1 \in 1..N /\ N \in 1..N
           /\ payload.price \in Nat /\ payload.count \in Nat /\ payload.area \in BOOLEAN
           /\ payload.tip \in Nat /\ payload.vat \in Nat /\ payload.platform \in Nat
           /\ payload.code \in Promotions \cup {NoPromotion} /\ payload.event \in Promotions \cup {NoPromotion}
           /\ \A i \in 1..N : payload.dates[i].rush \in Nat /\ payload.dates[i].holiday \in Nat
           /\ Len(payload.service_fee) \in Nat \ {0}
           /\ DOMAIN payload.service_fee = 1..Len(payload.service_fee)
           /\ \A i \in DOMAIN payload.service_fee : payload.service_fee[i] \in Nat
           /\ payload.service_fee[1] \in Nat
<1>1. payload.dates \in Seq([rush : Nat, holiday : Nat]) /\ payload.dates # <<>> BY PricingAssumption
<1>2. N \in Nat \ {0} BY <1>1, EmptySeq DEF N
<1>3. \A i \in 1..N : payload.dates[i] \in [rush : Nat, holiday : Nat] BY <1>1, ElementOfSeq DEF N
<1>4. payload.service_fee \in Seq(Nat) /\ payload.service_fee # <<>> BY PricingAssumption
<1>5. Len(payload.service_fee) \in Nat \ {0} BY <1>4, EmptySeq
<1>6. DOMAIN payload.service_fee = 1..Len(payload.service_fee) BY <1>4, LenProperties
<1>7. \A i \in 1..Len(payload.service_fee) : payload.service_fee[i] \in Nat BY <1>4, ElementOfSeq
<1>8. 1 \in 1..Len(payload.service_fee) BY <1>5
<1>9. /\ payload.price \in Nat /\ payload.count \in Nat /\ payload.area \in BOOLEAN
      /\ payload.tip \in Nat /\ payload.vat \in Nat /\ payload.platform \in Nat
      /\ payload.code \in Promotions \cup {NoPromotion} /\ payload.event \in Promotions \cup {NoPromotion}
  BY PricingAssumption
<1>10. 1 \in 1..N /\ N \in 1..N BY <1>2
<1>11. \A i \in 1..N : payload.dates[i].rush \in Nat /\ payload.dates[i].holiday \in Nat BY <1>3
<1>12. (\A i \in DOMAIN payload.service_fee : payload.service_fee[i] \in Nat) /\ payload.service_fee[1] \in Nat
  BY <1>6, <1>7, <1>8
<1> QED BY <1>2, <1>5, <1>6, <1>9, <1>10, <1>11, <1>12

LEMMA SurchargeIs ==
    ASSUME NEW fee \in Nat, NEW percent \in Nat
    PROVE  Surcharge(fee, percent) \in Nat
<1>1. fee * percent \in Nat BY Times
<1>2. Ceil(fee * percent, 100000) \in Nat
  <2>1. PICK n \in Nat : n = fee * percent BY <1>1
  <2>2. /\ Ceil(n, 100000) \in 0..(n \div 100000 + 1)
        /\ Ceil(n, 100000) * 100000 >= n /\ (Ceil(n, 100000) - 1) * 100000 < n
    BY CeilThousands
  <2>3. Ceil(n, 100000) \in Nat BY <2>2
  <2> QED BY <2>1, <2>3
<1> QED BY <1>2 DEF Surcharge

Multiple == {1000 * k : k \in Nat}

(* Both promotions take full thousands.                                    *)
LEMMA DiscountIs ==
    ASSUME NEW promotion \in Promotions \cup {NoPromotion}, NEW fee \in Nat
    PROVE  CodeDiscount(promotion, fee) \in Multiple /\ EventDiscount(promotion, fee) \in Multiple
<1>1. CASE promotion = NoPromotion
  BY <1>1 DEF CodeDiscount, EventDiscount, Multiple
<1>2. CASE promotion # NoPromotion
  <2>1. promotion.value \in Nat /\ promotion.max \in Nat BY <1>2 DEF Promotions
  <2> DEFINE n == fee * promotion.value
  <2>2. n \in Nat BY <2>1, Times
  <2>3. /\ Round(n, 100000) \in Nat /\ Round(Round(n, 100), 1000) \in Nat
        /\ Round(promotion.max, 1000) \in Nat
    BY <2>1, <2>2, RoundNat
  <2>4. \A k \in Nat : k * 1000 \in Multiple BY DEF Multiple
  <2>5. CodeDiscount(promotion, fee) \in {Round(n, 100000) * 1000, Round(promotion.max, 1000) * 1000}
    BY <1>2 DEF CodeDiscount
  <2>6. EventDiscount(promotion, fee) \in {Round(Round(n, 100), 1000) * 1000, Round(promotion.max, 1000) * 1000}
    BY <1>2 DEF EventDiscount
  <2> HIDE DEF n
  <2> QED BY <2>3, <2>4, <2>5, <2>6
<1> QED BY <1>1, <1>2

LEMMA MultipleIs == Multiple \subseteq Nat
  BY DEF Multiple

LEMMA ServiceFeesAre ==
    ASSUME payload \in Payloads
    PROVE  /\ FoldFunction(+, 0, payload.service_fee) \in Int
           /\ Len(payload.service_fee) = 1 => FoldFunction(+, 0, payload.service_fee) = payload.service_fee[1]
<1> DEFINE fees == payload.service_fee
           S == 1..Len(fees)
<1>1. /\ Len(fees) \in Nat /\ DOMAIN fees = S /\ \A i \in S : fees[i] \in Int
      /\ fees[1] \in Int /\ 1 \in S
  BY PayloadIs
<1>2. IsFiniteSet(S) BY <1>1, FS_Interval
<1>3. FoldFunction(+, 0, fees) = SumOver(fees, S) BY <1>1, <1>2, FoldIs
<1>4. Len(fees) = 1 => S \ {1} = {} OBVIOUS
<1> HIDE DEF fees, S
<1>5. SumOver(fees, S) \in Int BY <1>1, <1>2, SumInt
<1>6. S \ {1} = {} => SumOver(fees, S) = fees[1] BY <1>1, <1>2, SumOfOneElement
<1> QED BY <1>3, <1>4, <1>5, <1>6 DEF fees

LEMMA FinalFeeIs ==
    ASSUME payload \in Payloads, NEW job, job.initial_fee \in Nat, job.code \in Nat, job.event \in Nat
    PROVE  FinalFee(job) \in Int
<1>1. payload.tip * N \in Nat BY PayloadIs, Times
<1> DEFINE fees == FoldFunction(+, 0, payload.service_fee)
           tips == payload.tip * N
<1>2. fees \in Int BY ServiceFeesAre
<1>3. FinalFee(job) = job.initial_fee + tips - job.code - job.event + fees BY DEF FinalFee
<1> HIDE DEF fees, tips
<1> QED BY <1>1, <1>2, <1>3 DEF tips

(* What a date costs for itself, in the words of the code.                 *)
CostOf(asked, date) ==
    LET base == asked.price * asked.count
        rush == base + Surcharge(base, date.rush)
    IN  IF asked.area THEN rush + Surcharge(rush, date.holiday) ELSE base

Thousands(x, percent) ==
    CHOOSE t \in 0..((x * percent) \div 100000 + 1) : /\ t * 100000 >= x * percent
                                                       /\ (t - 1) * 100000 < x * percent

LEMMA ThousandsAre ==
    ASSUME NEW x \in Nat, NEW percent \in Nat
    PROVE  1000 * Thousands(x, percent) = Surcharge(x, percent)
<1> DEFINE P(t) == t * 100000 >= x * percent /\ (t - 1) * 100000 < x * percent
           D == 0..((x * percent) \div 100000 + 1)
           c == CHOOSE t \in D : P(t)
<1>1. PICK n \in Nat : n = x * percent BY Times
<1>2. /\ Ceil(n, 100000) \in 0..(n \div 100000 + 1)
      /\ Ceil(n, 100000) * 100000 >= n /\ (Ceil(n, 100000) - 1) * 100000 < n
  BY CeilThousands
<1>3. Ceil(n, 100000) \in D /\ P(Ceil(n, 100000)) BY <1>1, <1>2
<1>4. c \in D /\ P(c) BY <1>3
<1>5. c * 100000 >= n /\ (c - 1) * 100000 < n BY <1>1, <1>4
<1>6. c \in Int /\ Ceil(n, 100000) \in Int BY <1>2, <1>4
<1> HIDE DEF c
<1>7. ASSUME NEW t \in Int, NEW u \in Int, t * 100000 >= n, (t - 1) * 100000 < n, u * 100000 >= n, (u - 1) * 100000 < n
      PROVE  t = u
  BY <1>7
<1>8. c = Ceil(n, 100000) BY <1>2, <1>5, <1>6, <1>7
<1>9. Surcharge(x, percent) = Ceil(n, 100000) * 1000 BY <1>1 DEF Surcharge
<1>10. 1000 * c = Surcharge(x, percent) BY <1>6, <1>8, <1>9
<1> QED BY <1>10 DEF c, Thousands

LEMMA FeeIsCost ==
    ASSUME payload \in Payloads, NEW i \in 1..N
    PROVE  FeeOfDate(payload.dates[i]) = CostOf(payload, payload.dates[i]) /\ CostOf(payload, payload.dates[i]) \in Nat
<1> DEFINE date == payload.dates[i]
           base == payload.price * payload.count
<1>1. date.rush \in Nat /\ date.holiday \in Nat /\ base \in Nat BY PayloadIs, Times
<1>2. ASSUME NEW x \in Nat, NEW percent \in Nat
      PROVE  1000 * Thousands(x, percent) = Surcharge(x, percent)
  BY ThousandsAre
<1> DEFINE rush == base + Surcharge(base, date.rush)
<1> HIDE DEF base, date
<1>3. rush \in Nat
  <2>1. Surcharge(base, date.rush) \in Nat BY <1>1, SurchargeIs
  <2> QED BY <1>1, <2>1
<1>4. Surcharge(rush, date.holiday) \in Nat BY <1>1, <1>3, SurchargeIs
<1>5. FeeOfDate(date) = IF payload.area THEN base + 1000 * Thousands(base, date.rush)
                                               + 1000 * Thousands(base + 1000 * Thousands(base, date.rush), date.holiday)
                        ELSE base
  BY DEF FeeOfDate, Thousands, base
<1>6. 1000 * Thousands(base, date.rush) = Surcharge(base, date.rush) BY <1>1, <1>2
<1>7. 1000 * Thousands(rush, date.holiday) = Surcharge(rush, date.holiday) BY <1>1, <1>2, <1>3
<1>8. CostOf(payload, date) = IF payload.area THEN rush + Surcharge(rush, date.holiday) ELSE base BY DEF CostOf, base
<1>9. FeeOfDate(date) = CostOf(payload, date) BY <1>5, <1>6, <1>7, <1>8
<1> HIDE DEF rush
<1>10. CostOf(payload, date) \in Nat BY <1>1, <1>3, <1>4, <1>8
<1> QED BY <1>9, <1>10 DEF date

(* What the customer is asked for, before it is cut off at nothing.        *)
Whole(asked, job) ==
    job.initial_fee + asked.tip * Len(asked.dates) - job.code - job.event
      + SumOver(asked.service_fee, DOMAIN asked.service_fee)

LEMMA WholeIs ==
    ASSUME payload \in Payloads, NEW job
    PROVE  FinalFee(job) = Whole(payload, job)
<1>1. IsFiniteSet(DOMAIN payload.service_fee) BY PayloadIs, FS_Interval
<1> DEFINE fees == FoldFunction(+, 0, payload.service_fee)
<1>2. fees = SumOver(payload.service_fee, DOMAIN payload.service_fee) BY <1>1, FoldIs
<1>3. FinalFee(job) = job.initial_fee + payload.tip * Len(payload.dates) - job.code - job.event + fees
  BY DEF FinalFee, N
<1> HIDE DEF fees
<1> QED BY <1>2, <1>3 DEF Whole

-----------------------------------------------------------------------------
(* The invariant                                                           *)

InitialFees(dates) == [i \in DOMAIN dates |-> dates[i].initial_fee]

PartOf(discount, n, i) ==
    IF n > 1 THEN ((discount \div 1000) \div n + IF i = n THEN (discount \div 1000) % n ELSE 0) * 1000
    ELSE discount

PricingInv ==
    /\ payload \in Payloads
    /\ TypeOK
    /\ at = "dates" => Len(infoJob.date) < N
    /\ infoJob.initial_fee = SumOver(InitialFees(infoJob.date), DOMAIN infoJob.date)
    /\ ~payload.area /\ payload.count = 1 => price = payload.price
    /\ payload.area \/ payload.count = 1 =>
          \A i \in 1..Len(infoJob.date) : infoJob.date[i].initial_fee = CostOf(payload, payload.dates[i])
    /\ at \in {"split", "fees", "done"} =>
          /\ infoJob.code \in Multiple /\ infoJob.event \in Multiple
          /\ infoJob.final_fee = IF Whole(payload, infoJob) < 0 THEN 0 ELSE Whole(payload, infoJob)
    /\ at \in {"fees", "done"} =>
          \A i \in 1..N : /\ infoJob.date[i].code = PartOf(infoJob.code, N, i)
                          /\ infoJob.date[i].event = PartOf(infoJob.event, N, i)
    /\ at = "done" =>
          \A i \in 1..N : infoJob.date[i].final_fee =
              infoJob.date[i].initial_fee + (IF i = 1 THEN payload.service_fee[1] ELSE 0)
                + payload.tip - infoJob.date[i].code - infoJob.date[i].event

LEMMA PricingInit == Init => PricingInv
<1> SUFFICES ASSUME Init PROVE PricingInv OBVIOUS
<1>1. payload \in Payloads /\ price = payload.price /\ at = "dates"
      /\ infoJob = [date |-> <<>>, initial_fee |-> 0, code |-> 0, event |-> 0, final_fee |-> 0]
  BY DEF Init
<1>2. N \in Nat \ {0} /\ price \in Nat BY <1>1, PayloadIs
<1>3. infoJob.date = <<>> /\ Len(infoJob.date) = 0 /\ <<>> \in Seq(Amounts) BY <1>1, EmptySeq
<1>4. DOMAIN infoJob.date = {} BY <1>3
<1>5. infoJob.initial_fee = SumOver(InitialFees(infoJob.date), DOMAIN infoJob.date)
  BY <1>1, <1>4, SumNothing
<1>6. TypeOK BY <1>1, <1>2, <1>3 DEF TypeOK
<1>7. 1..Len(infoJob.date) = {} BY <1>3
<1> QED BY <1>1, <1>2, <1>3, <1>5, <1>6, <1>7 DEF PricingInv

LEMMA PriceDateKeeps ==
    ASSUME PricingInv, PriceDate
    PROVE  PricingInv'
<1> DEFINE dates == infoJob.date
           n == Len(dates)
           date == payload.dates[n + 1]
           base == (IF payload.area THEN payload.price ELSE price) * payload.count
           rush == base + Surcharge(base, date.rush)
           fee == IF payload.area THEN rush + Surcharge(rush, date.holiday) ELSE base
           new == [initial_fee |-> fee, code |-> 0, event |-> 0, final_fee |-> 0,
                   platform_fee |-> 0, shift_income |-> 0, value_added_tax |-> 0]
           more == Append(dates, new)
<1>1. /\ at = "dates" /\ price' = fee /\ payload' = payload
      /\ infoJob' = [infoJob EXCEPT !.date = more, !.initial_fee = @ + fee]
      /\ at' = IF Len(infoJob'.date) = N THEN "promotions" ELSE "dates"
  BY DEF PriceDate
<1>2. /\ payload \in Payloads /\ price \in Nat /\ n < N
      /\ infoJob \in [date : Seq(Amounts), initial_fee : Nat, code : Nat, event : Nat, final_fee : Nat]
      /\ dates \in Seq(Amounts)
  BY <1>1 DEF PricingInv, TypeOK
<1>3. N \in Nat \ {0} /\ n \in Nat /\ n + 1 \in 1..N /\ N' = N
  BY <1>1, <1>2, PayloadIs, LenProperties DEF N
<1>4. date.rush \in Nat /\ date.holiday \in Nat BY <1>2, <1>3, PayloadIs
<1>5. base \in Nat BY <1>2, PayloadIs, Times
<1> HIDE DEF base, date
<1>6. rush \in Nat
  <2>1. Surcharge(base, date.rush) \in Nat BY <1>4, <1>5, SurchargeIs
  <2> QED BY <1>5, <2>1
<1> HIDE DEF rush
<1>7. fee \in Nat
  <2>1. Surcharge(rush, date.holiday) \in Nat BY <1>4, <1>6, SurchargeIs
  <2> QED BY <1>5, <1>6, <2>1
<1>8. price = payload.price \/ payload.area => fee = CostOf(payload, date)
  BY DEF CostOf, rush, base
<1>9. ~payload.area /\ payload.count = 1 => fee = price BY <1>2 DEF base
<1> HIDE DEF fee
<1>10. new \in Amounts /\ new.initial_fee = fee BY <1>7 DEF Amounts
<1> HIDE DEF new
<1>11. /\ more \in Seq(Amounts) /\ Len(more) = n + 1 /\ DOMAIN dates = 1..n /\ DOMAIN more = 1..(n + 1)
       /\ \A i \in 1..n : more[i] = dates[i]
       /\ more[n + 1] = new
  <2>1. more \in Seq(Amounts) /\ Len(more) = Len(dates) + 1 /\ (\A i \in 1..Len(dates) : more[i] = dates[i])
        /\ more[Len(dates) + 1] = new
    BY <1>2, <1>10, AppendProperties
  <2> QED BY <1>2, <2>1, LenProperties
<1>12. /\ infoJob'.date = more /\ infoJob'.initial_fee = infoJob.initial_fee + fee
       /\ infoJob'.code = infoJob.code /\ infoJob'.event = infoJob.event /\ infoJob'.final_fee = infoJob.final_fee
       /\ infoJob' \in [date : Seq(Amounts), initial_fee : Nat, code : Nat, event : Nat, final_fee : Nat]
  <2> HIDE DEF more
  <2>1. infoJob' = [date |-> more, initial_fee |-> infoJob.initial_fee + fee, code |-> infoJob.code,
                    event |-> infoJob.event, final_fee |-> infoJob.final_fee]
    BY <1>1, <1>2
  <2>2. infoJob.initial_fee + fee \in Nat /\ infoJob.code \in Nat /\ infoJob.event \in Nat /\ infoJob.final_fee \in Nat
    BY <1>2, <1>7
  <2> QED BY <1>11, <2>1, <2>2
<1>13. SumOver(InitialFees(more), DOMAIN more) = infoJob.initial_fee + fee
  <2> DEFINE w == InitialFees(more)
             v == InitialFees(dates)
  <2> HIDE DEF n, more
  <2>1. DOMAIN more = (1..n) \cup {n + 1} /\ n + 1 \notin 1..n /\ IsFiniteSet(1..n)
    <3>1. 1..(n + 1) = (1..n) \cup {n + 1} /\ n + 1 \notin 1..n BY <1>3
    <3>2. IsFiniteSet(1..n) BY <1>3, FS_Interval
    <3> QED BY <1>11, <3>1, <3>2
  <2>2. /\ \A i \in 1..n : w[i] = dates[i].initial_fee /\ v[i] = dates[i].initial_fee
        /\ w[n + 1] = fee
    BY <1>3, <1>10, <1>11 DEF InitialFees
  <2>3. \A i \in 1..n : dates[i].initial_fee \in Nat
    <3>1. \A i \in 1..n : dates[i] \in Amounts BY <1>2, ElementOfSeq DEF n
    <3> QED BY <3>1 DEF Amounts
  <2>4. \A i \in (1..n) \cup {n + 1} : w[i] \in Int BY <1>7, <2>2, <2>3
  <2>5. infoJob.initial_fee = SumOver(v, 1..n) BY <1>11 DEF PricingInv
  <2> HIDE DEF w, v
  <2>6. SumOver(w, (1..n) \cup {n + 1}) = SumOver(w, 1..n) + w[n + 1]
    <3> DEFINE S == 1..n
               y == n + 1
    <3>1. IsFiniteSet(S) /\ y \notin S /\ \A x \in S \cup {y} : w[x] \in Int BY <2>1, <2>4
    <3> HIDE DEF S, y
    <3>2. SumOver(w, S \cup {y}) = SumOver(w, S) + w[y] BY <3>1, SumOneMore
    <3> QED BY <3>2 DEF S, y
  <2>7. SumOver(w, 1..n) = SumOver(v, 1..n) BY <2>1, <2>2, SumSame
  <2> QED BY <2>1, <2>2, <2>5, <2>6, <2>7 DEF w
<1> HIDE DEF more
<1>14. Len(infoJob'.date) = n + 1 /\ at' \in {"dates", "promotions"} /\ (at' = "dates" <=> n + 1 # N)
  BY <1>1, <1>11, <1>12
<1>15. TypeOK' BY <1>1, <1>3, <1>7, <1>12, <1>14, <1>2 DEF TypeOK
<1>16. at' = "dates" => Len(infoJob'.date) < N' BY <1>2, <1>3, <1>14
<1>17. ~payload'.area /\ payload'.count = 1 => price' = payload'.price
  BY <1>1, <1>9 DEF PricingInv
<1>18. ASSUME payload'.area \/ payload'.count = 1, NEW i \in 1..(n + 1)
       PROVE  infoJob'.date[i].initial_fee = CostOf(payload', payload'.dates[i])
  <2>1. CASE i = n + 1
    <3>1. price = payload.price \/ payload.area BY <1>1, <1>2, <1>18, PayloadIs DEF PricingInv
    <3> QED BY <1>1, <1>8, <1>10, <1>11, <1>12, <2>1, <3>1 DEF date
  <2>2. CASE i # n + 1
    <3>1. i \in 1..n BY <1>3, <2>2
    <3>2. dates[i].initial_fee = CostOf(payload, payload.dates[i]) BY <1>1, <1>18, <3>1 DEF PricingInv
    <3> QED BY <1>1, <1>11, <1>12, <3>1, <3>2
  <2> QED BY <2>1, <2>2
<1>19. infoJob'.initial_fee = SumOver(InitialFees(infoJob'.date), DOMAIN infoJob'.date) BY <1>12, <1>13
<1>20. payload' \in Payloads /\ at' \notin {"split", "fees", "done"} BY <1>1, <1>2, <1>14
<1>21. payload'.area \/ payload'.count = 1 =>
         \A i \in 1..Len(infoJob'.date) : infoJob'.date[i].initial_fee = CostOf(payload', payload'.dates[i])
  BY <1>14, <1>18
<1> QED BY <1>15, <1>16, <1>17, <1>19, <1>20, <1>21 DEF PricingInv

LEMMA PromoteKeeps ==
    ASSUME PricingInv, Promote
    PROVE  PricingInv'
<1> DEFINE job == [infoJob EXCEPT !.code = CodeDiscount(payload.code, infoJob.initial_fee),
                                  !.event = EventDiscount(payload.event, infoJob.initial_fee)]
<1>1. /\ at = "promotions" /\ at' = "split" /\ price' = price /\ payload' = payload
      /\ infoJob' = [job EXCEPT !.final_fee = IF FinalFee(job) < 0 THEN 0 ELSE FinalFee(job)]
  BY DEF Promote
<1>2. /\ payload \in Payloads /\ N' = N
      /\ infoJob \in [date : Seq(Amounts), initial_fee : Nat, code : Nat, event : Nat, final_fee : Nat]
  BY <1>1 DEF PricingInv, TypeOK, N
<1>3. /\ payload.code \in Promotions \cup {NoPromotion} /\ payload.event \in Promotions \cup {NoPromotion}
  BY <1>2, PayloadIs
<1>4. /\ CodeDiscount(payload.code, infoJob.initial_fee) \in Multiple
      /\ EventDiscount(payload.event, infoJob.initial_fee) \in Multiple
  BY <1>2, <1>3, DiscountIs
<1>5. /\ job \in [date : Seq(Amounts), initial_fee : Nat, code : Nat, event : Nat, final_fee : Nat]
      /\ job.date = infoJob.date /\ job.initial_fee = infoJob.initial_fee
      /\ job.code \in Multiple /\ job.event \in Multiple
  BY <1>2, <1>4, MultipleIs
<1> HIDE DEF job
<1>6. FinalFee(job) \in Int /\ FinalFee(job) = Whole(payload, job) BY <1>2, <1>5, FinalFeeIs, WholeIs
<1> DEFINE asked == FinalFee(job)
           final == IF asked < 0 THEN 0 ELSE asked
<1>7. final \in Nat BY <1>6
<1> HIDE DEF asked
<1>8. /\ infoJob' \in [date : Seq(Amounts), initial_fee : Nat, code : Nat, event : Nat, final_fee : Nat]
      /\ infoJob'.date = infoJob.date /\ infoJob'.initial_fee = infoJob.initial_fee
      /\ infoJob'.code = job.code /\ infoJob'.event = job.event /\ infoJob'.final_fee = final
  BY <1>1, <1>5, <1>7 DEF asked
<1>9. Whole(payload', infoJob') = asked BY <1>1, <1>5, <1>6, <1>8 DEF Whole, asked
<1>10. TypeOK' BY <1>1, <1>2, <1>8 DEF TypeOK, PricingInv
<1>11. infoJob'.code \in Multiple /\ infoJob'.event \in Multiple
       /\ infoJob'.final_fee = IF Whole(payload', infoJob') < 0 THEN 0 ELSE Whole(payload', infoJob')
  BY <1>5, <1>8, <1>9
<1>12. /\ infoJob'.initial_fee = SumOver(InitialFees(infoJob'.date), DOMAIN infoJob'.date)
       /\ ~payload'.area /\ payload'.count = 1 => price' = payload'.price
       /\ payload'.area \/ payload'.count = 1 =>
          \A i \in 1..Len(infoJob'.date) : infoJob'.date[i].initial_fee = CostOf(payload', payload'.dates[i])
  BY <1>1, <1>8 DEF PricingInv
<1> QED BY <1>1, <1>2, <1>10, <1>11, <1>12 DEF PricingInv

(* Split and Charge change the dates, and what they cost before discounts  *)
(* stays.                                                                  *)
LEMMA DatesFilled ==
    ASSUME PricingInv, at \in {"split", "fees"}, at' \in {"fees", "done"},
           payload' = payload, price' = price,
           NEW filled \in [1..N -> Amounts],
           \A i \in 1..N : filled[i].initial_fee = infoJob.date[i].initial_fee,
           infoJob' = [infoJob EXCEPT !.date = filled]
    PROVE  /\ TypeOK' /\ N' = N /\ payload' \in Payloads
           /\ infoJob'.date = filled
           /\ infoJob'.code = infoJob.code /\ infoJob'.event = infoJob.event
           /\ infoJob'.initial_fee = SumOver(InitialFees(infoJob'.date), DOMAIN infoJob'.date)
           /\ ~payload'.area /\ payload'.count = 1 => price' = payload'.price
           /\ payload'.area \/ payload'.count = 1 =>
                 \A i \in 1..Len(infoJob'.date) : infoJob'.date[i].initial_fee = CostOf(payload', payload'.dates[i])
           /\ infoJob'.code \in Multiple /\ infoJob'.event \in Multiple
           /\ infoJob'.final_fee = IF Whole(payload', infoJob') < 0 THEN 0 ELSE Whole(payload', infoJob')
<1>1. /\ payload \in Payloads /\ price \in Nat /\ Len(infoJob.date) = N /\ infoJob.date \in Seq(Amounts)
      /\ infoJob \in [date : Seq(Amounts), initial_fee : Nat, code : Nat, event : Nat, final_fee : Nat]
  BY DEF PricingInv, TypeOK
<1>2. N \in Nat \ {0} /\ N' = N BY <1>1, PayloadIs DEF N
<1>3. DOMAIN infoJob.date = 1..N /\ DOMAIN filled = 1..N BY <1>1, LenProperties
<1>4. filled \in Seq(Amounts) /\ Len(filled) = N
  <2>1. filled \in Seq(Amounts) BY <1>2, SeqDef
  <2>2. Len(filled) \in Nat /\ DOMAIN filled = 1..Len(filled) BY <2>1, LenProperties
  <2>3. Len(filled) = N BY <1>2, <1>3, <2>2
  <2> QED BY <2>1, <2>3
<1>5. infoJob' = [date |-> filled, initial_fee |-> infoJob.initial_fee, code |-> infoJob.code,
                  event |-> infoJob.event, final_fee |-> infoJob.final_fee]
  BY <1>1
<1>6. /\ infoJob' \in [date : Seq(Amounts), initial_fee : Nat, code : Nat, event : Nat, final_fee : Nat]
      /\ infoJob'.date = filled /\ infoJob'.initial_fee = infoJob.initial_fee
      /\ infoJob'.code = infoJob.code /\ infoJob'.event = infoJob.event /\ infoJob'.final_fee = infoJob.final_fee
  BY <1>1, <1>4, <1>5
<1>7. TypeOK' BY <1>1, <1>2, <1>4, <1>6 DEF TypeOK
<1>8. InitialFees(filled) = InitialFees(infoJob.date) BY <1>3 DEF InitialFees
<1>9. infoJob'.initial_fee = SumOver(InitialFees(infoJob'.date), DOMAIN infoJob'.date)
  BY <1>3, <1>6, <1>8 DEF PricingInv
<1>10. /\ infoJob.code \in Multiple /\ infoJob.event \in Multiple
       /\ infoJob.final_fee = IF Whole(payload, infoJob) < 0 THEN 0 ELSE Whole(payload, infoJob)
  BY DEF PricingInv
<1>11. Whole(payload', infoJob') = Whole(payload, infoJob) BY <1>6 DEF Whole
<1>12. ~payload'.area /\ payload'.count = 1 => price' = payload'.price BY DEF PricingInv
<1>13. payload'.area \/ payload'.count = 1 =>
         \A i \in 1..Len(infoJob'.date) : infoJob'.date[i].initial_fee = CostOf(payload', payload'.dates[i])
  BY <1>1, <1>4, <1>6 DEF PricingInv
<1> QED BY <1>1, <1>2, <1>6, <1>7, <1>9, <1>10, <1>11, <1>12, <1>13

LEMMA PartIs ==
    ASSUME NEW n \in Nat \ {0}, NEW discount \in Nat, NEW i
    PROVE  PartOf(discount, n, i) \in Nat
<1> DEFINE k == discount \div 1000
<1>1. k \in Nat OBVIOUS
<1> HIDE DEF k
<1>2. k \div n \in Nat /\ k % n \in Nat BY <1>1, DivMod
<1> QED BY <1>2 DEF PartOf, k

LEMMA SplitKeeps ==
    ASSUME PricingInv, Split
    PROVE  PricingInv'
<1> DEFINE dates == infoJob.date
           filled == [i \in DOMAIN dates |-> [dates[i] EXCEPT !.code = PartOf(infoJob.code, N, i),
                                                              !.event = PartOf(infoJob.event, N, i)]]
<1>1. /\ at = "split" /\ at' = "fees" /\ price' = price /\ payload' = payload
      /\ infoJob' = [infoJob EXCEPT !.date = filled]
  BY DEF Split, Share, PartOf
<1>2. /\ payload \in Payloads /\ N \in Nat \ {0} /\ Len(dates) = N /\ dates \in Seq(Amounts)
      /\ infoJob.code \in Nat /\ infoJob.event \in Nat
  BY <1>1, PayloadIs DEF PricingInv, TypeOK
<1>3. DOMAIN dates = 1..N /\ \A i \in 1..N : dates[i] \in Amounts BY <1>2, LenProperties, ElementOfSeq
<1>4. \A i \in 1..N : PartOf(infoJob.code, N, i) \in Nat /\ PartOf(infoJob.event, N, i) \in Nat BY <1>2, PartIs
<1>5. ASSUME NEW i \in 1..N
      PROVE  /\ filled[i] \in Amounts /\ filled[i].initial_fee = dates[i].initial_fee
             /\ filled[i].code = PartOf(infoJob.code, N, i) /\ filled[i].event = PartOf(infoJob.event, N, i)
  <2>1. filled[i] = [dates[i] EXCEPT !.code = PartOf(infoJob.code, N, i), !.event = PartOf(infoJob.event, N, i)]
    BY <1>3
  <2>2. dates[i] \in Amounts BY <1>3
  <2> HIDE DEF filled
  <2> QED BY <1>4, <2>1, <2>2 DEF Amounts
<1>6. DOMAIN filled = 1..N /\ filled = [i \in 1..N |-> filled[i]] BY <1>3
<1> HIDE DEF filled
<1>7. filled \in [1..N -> Amounts] BY <1>5, <1>6
<1>8. /\ TypeOK' /\ N' = N /\ payload' \in Payloads
      /\ infoJob'.date = filled
      /\ infoJob'.code = infoJob.code /\ infoJob'.event = infoJob.event
      /\ infoJob'.initial_fee = SumOver(InitialFees(infoJob'.date), DOMAIN infoJob'.date)
      /\ ~payload'.area /\ payload'.count = 1 => price' = payload'.price
      /\ payload'.area \/ payload'.count = 1 =>
            \A i \in 1..Len(infoJob'.date) : infoJob'.date[i].initial_fee = CostOf(payload', payload'.dates[i])
      /\ infoJob'.code \in Multiple /\ infoJob'.event \in Multiple
      /\ infoJob'.final_fee = IF Whole(payload', infoJob') < 0 THEN 0 ELSE Whole(payload', infoJob')
  BY <1>1, <1>5, <1>7, DatesFilled
<1>9. \A i \in 1..N' : /\ infoJob'.date[i].code = PartOf(infoJob'.code, N', i)
                       /\ infoJob'.date[i].event = PartOf(infoJob'.event, N', i)
  BY <1>5, <1>8
<1> QED BY <1>1, <1>8, <1>9 DEF PricingInv

LEMMA ChargeKeeps ==
    ASSUME PricingInv, Charge
    PROVE  PricingInv'
<1> DEFINE dates == infoJob.date
           filled == [i \in DOMAIN dates |-> DateFees(dates[i], i)]
           final(i) == dates[i].initial_fee + (IF i = 1 THEN payload.service_fee[1] ELSE 0)
                         + payload.tip - dates[i].code - dates[i].event
<1>1. /\ at = "fees" /\ at' = "done" /\ price' = price /\ payload' = payload
      /\ infoJob' = [infoJob EXCEPT !.date = filled]
  BY DEF Charge
<1>2. /\ payload \in Payloads /\ N \in Nat \ {0} /\ Len(dates) = N /\ dates \in Seq(Amounts)
  BY <1>1, PayloadIs DEF PricingInv, TypeOK
<1>3. DOMAIN dates = 1..N /\ \A i \in 1..N : dates[i] \in Amounts BY <1>2, LenProperties, ElementOfSeq
<1>4. ASSUME NEW i \in 1..N
      PROVE  /\ filled[i] \in Amounts /\ filled[i].initial_fee = dates[i].initial_fee
             /\ filled[i].code = dates[i].code /\ filled[i].event = dates[i].event
             /\ filled[i].final_fee = final(i)
  <2> DEFINE tax == Round(final(i) * payload.vat, 100 * (100 + payload.vat)) * 100
             subtotal == dates[i].initial_fee - tax
             platform == Round(subtotal * payload.platform, 10000) * 100
  <2>1. dates[i] \in Amounts BY <1>3
  <2>2. dates[i].initial_fee \in Nat /\ dates[i].code \in Nat /\ dates[i].event \in Nat BY <2>1 DEF Amounts
  <2>3. payload.vat \in Nat /\ payload.platform \in Nat /\ payload.tip \in Nat /\ payload.service_fee[1] \in Nat
    BY <1>2, PayloadIs
  <2>4. final(i) \in Int BY <2>2, <2>3
  <2>5. filled[i] = [dates[i] EXCEPT !.final_fee = final(i), !.value_added_tax = tax, !.platform_fee = platform,
                                     !.shift_income = subtotal - platform]
    BY <1>3 DEF DateFees
  <2> HIDE DEF final, filled
  <2>6. tax \in Int
    <3>1. final(i) * payload.vat \in Int BY <2>3, <2>4
    <3>2. 100 * (100 + payload.vat) \in Nat \ {0} BY <2>3
    <3>3. Round(final(i) * payload.vat, 100 * (100 + payload.vat)) \in Int BY <3>1, <3>2, RoundType
    <3> QED BY <3>3
  <2> HIDE DEF tax
  <2>7. subtotal \in Int BY <2>2, <2>6
  <2> HIDE DEF subtotal
  <2>8. platform \in Int
    <3>1. subtotal * payload.platform \in Int BY <2>3, <2>7
    <3>2. Round(subtotal * payload.platform, 10000) \in Int BY <3>1, RoundType
    <3> QED BY <3>2
  <2> HIDE DEF platform
  <2>9. subtotal - platform \in Int BY <2>7, <2>8
  <2> QED BY <2>1, <2>4, <2>5, <2>6, <2>8, <2>9 DEF Amounts
<1>5. DOMAIN filled = 1..N /\ filled = [i \in 1..N |-> filled[i]] BY <1>3
<1> HIDE DEF filled
<1>6. filled \in [1..N -> Amounts] BY <1>4, <1>5
<1>7. /\ TypeOK' /\ N' = N /\ payload' \in Payloads
      /\ infoJob'.date = filled
      /\ infoJob'.code = infoJob.code /\ infoJob'.event = infoJob.event
      /\ infoJob'.initial_fee = SumOver(InitialFees(infoJob'.date), DOMAIN infoJob'.date)
      /\ ~payload'.area /\ payload'.count = 1 => price' = payload'.price
      /\ payload'.area \/ payload'.count = 1 =>
            \A i \in 1..Len(infoJob'.date) : infoJob'.date[i].initial_fee = CostOf(payload', payload'.dates[i])
      /\ infoJob'.code \in Multiple /\ infoJob'.event \in Multiple
      /\ infoJob'.final_fee = IF Whole(payload', infoJob') < 0 THEN 0 ELSE Whole(payload', infoJob')
  BY <1>1, <1>4, <1>6, DatesFilled
<1>8. \A i \in 1..N : dates[i].code = PartOf(infoJob.code, N, i) /\ dates[i].event = PartOf(infoJob.event, N, i)
  BY <1>1 DEF PricingInv
<1>9. \A i \in 1..N' : /\ infoJob'.date[i].code = PartOf(infoJob'.code, N', i)
                       /\ infoJob'.date[i].event = PartOf(infoJob'.event, N', i)
  BY <1>4, <1>7, <1>8
<1>10. \A i \in 1..N' : infoJob'.date[i].final_fee =
           infoJob'.date[i].initial_fee + (IF i = 1 THEN payload'.service_fee[1] ELSE 0)
             + payload'.tip - infoJob'.date[i].code - infoJob'.date[i].event
  BY <1>1, <1>4, <1>7
<1> QED BY <1>1, <1>7, <1>9, <1>10 DEF PricingInv

LEMMA PricingInvInductive == Spec => []PricingInv
<1>1. Init => PricingInv BY PricingInit
<1>2. PricingInv /\ [Next]_vars => PricingInv'
  <2> SUFFICES ASSUME PricingInv, [Next]_vars PROVE PricingInv' OBVIOUS
  <2>1. CASE PriceDate BY <2>1, PriceDateKeeps
  <2>2. CASE Promote BY <2>2, PromoteKeeps
  <2>3. CASE Split BY <2>3, SplitKeeps
  <2>4. CASE Charge BY <2>4, ChargeKeeps
  <2>5. CASE UNCHANGED vars
    BY <2>5 DEF vars, PricingInv, TypeOK, N
  <2> QED BY <2>1, <2>2, <2>3, <2>4, <2>5 DEF Next
<1> QED BY <1>1, <1>2, PTL DEF Spec
-----------------------------------------------------------------------------
(* What adds up                                                            *)

LEMMA Divided ==
    ASSUME NEW n \in Nat \ {0}, NEW k \in Nat, NEW q \in Nat, NEW r \in Nat, n * q + r = k
    PROVE  n * (q * 1000) + r * 1000 = 1000 * k
<1>1. PICK p \in Nat : p = n * q BY Times
<1>2. n * (q * 1000) = p * 1000 BY <1>1
<1> QED BY <1>1, <1>2

LEMMA PartsAddUp ==
    ASSUME NEW n \in Nat \ {0}, NEW discount \in Multiple, NEW w, \A i \in 1..n : w[i] = PartOf(discount, n, i)
    PROVE  /\ SumOver(w, 1..n) = discount
           /\ \A i \in 1..n : w[i] \in Nat /\ w[i] <= w[n] /\ w[n] - w[i] < 1000 * n
<1>1. PICK k \in Nat : discount = 1000 * k BY DEF Multiple
<1>2. discount \div 1000 = k /\ discount \in Nat BY <1>1
<1>3. IsFiniteSet(1..n) /\ Cardinality(1..n) = n BY FS_Interval
<1>4. CASE n = 1
  <2>1. 1..n = {1} BY <1>4
  <2>2. w[1] = discount BY <1>4, <2>1 DEF PartOf
  <2>3. SumOver(w, {1}) = w[1]
    <3>1. IsFiniteSet({1}) /\ 1 \in {1} /\ {1} \ {1} = {} BY FS_Singleton
    <3>2. w[1] \in Int BY <1>2, <2>2
    <3> QED BY <3>1, <3>2, SumOfOneElement
  <2> QED BY <1>2, <1>4, <2>1, <2>2, <2>3
<1>5. CASE n # 1
  <2> DEFINE q == k \div n
             r == k % n
             u == [i \in 1..n |-> q * 1000]
             v == [i \in 1..n |-> IF i = n THEN r * 1000 ELSE 0]
  <2>1. q \in Nat /\ r \in Nat /\ r < n /\ n * q + r = k BY DivMod
  <2>2. \A i \in 1..n : w[i] = (q + IF i = n THEN r ELSE 0) * 1000 BY <1>2, <1>5 DEF PartOf
  <2> HIDE DEF q, r
  <2>3. /\ \A i \in 1..n : u[i] \in Int /\ u[i] = q * 1000
        /\ \A i \in 1..n : v[i] \in Int
        /\ \A i \in (1..n) \ {n} : v[i] = 0
        /\ v[n] = r * 1000 /\ n \in 1..n
    BY <2>1
  <2>4. \A i \in 1..n : w[i] = u[i] + v[i] BY <2>1, <2>2
  <2> HIDE DEF u, v
  <2>5. SumOver(w, 1..n) = SumOver(u, 1..n) + SumOver(v, 1..n) BY <1>3, <2>3, <2>4, SumOfBoth
  <2> DEFINE S == 1..n
             a == q * 1000
             b == r * 1000
  <2>6. /\ IsFiniteSet(S) /\ Cardinality(S) = n /\ a \in Int /\ \A i \in S : u[i] = a
        /\ n \in S /\ b \in Int /\ v[n] = b /\ \A i \in S \ {n} : v[i] = 0
    BY <1>3, <2>1, <2>3
  <2> HIDE DEF S, a, b
  <2>7. SumOver(u, S) = n * a /\ SumOver(v, S) = b
    <3>1. SumOver(u, S) = Cardinality(S) * a BY <2>6, SumOfOneValue
    <3>2. SumOver(v, S) = v[n] BY <2>6, SumOfOneElement
    <3> QED BY <2>6, <3>1, <3>2
  <2>8. SumOver(w, 1..n) = discount BY <1>1, <2>1, <2>5, <2>7, Divided DEF S, a, b
  <2>9. \A i \in 1..n : w[i] \in Nat /\ w[i] <= w[n] /\ w[n] - w[i] < 1000 * n BY <2>1, <2>2
  <2> QED BY <2>8, <2>9
<1> QED BY <1>4, <1>5

LEMMA DiscountsAreShared ==
    ASSUME PricingInv, at \in {"fees", "done"}
    PROVE  LET dates == infoJob.date IN
           /\ SumOver([i \in 1..N |-> dates[i].code], 1..N) = infoJob.code
           /\ SumOver([i \in 1..N |-> dates[i].event], 1..N) = infoJob.event
           /\ \A i \in 1..N : dates[i].code <= dates[N].code /\ dates[N].code - dates[i].code < 1000 * N
<1>1. PICK n \in Nat \ {0} : n = N BY PayloadIs DEF PricingInv
<1> DEFINE c == [i \in 1..n |-> infoJob.date[i].code]
           e == [i \in 1..n |-> infoJob.date[i].event]
<1>2. infoJob.code \in Multiple /\ infoJob.event \in Multiple BY DEF PricingInv
<1>3. \A i \in 1..N : /\ infoJob.date[i].code = PartOf(infoJob.code, N, i)
                      /\ infoJob.date[i].event = PartOf(infoJob.event, N, i)
  BY DEF PricingInv
<1>4. \A i \in 1..n : c[i] = PartOf(infoJob.code, n, i) BY <1>1, <1>3
<1>5. \A i \in 1..n : e[i] = PartOf(infoJob.event, n, i) BY <1>1, <1>3
<1>6. (\A i \in 1..n : c[i] = infoJob.date[i].code) /\ n \in 1..n OBVIOUS
<1> HIDE DEF c, e
<1>7. /\ SumOver(c, 1..n) = infoJob.code
      /\ \A i \in 1..n : c[i] \in Nat /\ c[i] <= c[n] /\ c[n] - c[i] < 1000 * n
  <2>1. PICK discount \in Multiple : discount = infoJob.code BY <1>2
  <2>2. \A i \in 1..n : c[i] = PartOf(discount, n, i) BY <1>4, <2>1
  <2>3. /\ SumOver(c, 1..n) = discount
        /\ \A i \in 1..n : c[i] \in Nat /\ c[i] <= c[n] /\ c[n] - c[i] < 1000 * n
    BY <2>2, PartsAddUp
  <2> QED BY <2>1, <2>3
<1>8. /\ SumOver(e, 1..n) = infoJob.event
      /\ \A i \in 1..n : e[i] \in Nat /\ e[i] <= e[n] /\ e[n] - e[i] < 1000 * n
  <2>1. PICK discount \in Multiple : discount = infoJob.event BY <1>2
  <2>2. \A i \in 1..n : e[i] = PartOf(discount, n, i) BY <1>5, <2>1
  <2>3. /\ SumOver(e, 1..n) = discount
        /\ \A i \in 1..n : e[i] \in Nat /\ e[i] <= e[n] /\ e[n] - e[i] < 1000 * n
    BY <2>2, PartsAddUp
  <2> QED BY <2>1, <2>3
<1>9. \A i \in 1..n : /\ infoJob.date[i].code <= infoJob.date[n].code
                      /\ infoJob.date[n].code - infoJob.date[i].code < 1000 * n
  BY <1>6, <1>7
<1> QED BY <1>1, <1>7, <1>8, <1>9 DEF c, e

LEMMA DatesAre ==
    ASSUME PricingInv, at # "dates"
    PROVE  /\ DOMAIN infoJob.date = 1..N /\ IsFiniteSet(1..N)
           /\ \A i \in 1..N : infoJob.date[i] \in Amounts
           /\ N \in Nat \ {0}
<1>1. payload \in Payloads /\ Len(infoJob.date) = N /\ infoJob.date \in Seq(Amounts) BY DEF PricingInv, TypeOK
<1>2. N \in Nat \ {0} BY <1>1, PayloadIs
<1> QED BY <1>1, <1>2, LenProperties, ElementOfSeq, FS_Interval

LEMMA DiscountsFollow == PricingInv => DiscountsAddUp
<1> SUFFICES ASSUME PricingInv, at \in {"fees", "done"} PROVE
      /\ Total("code") = infoJob.code /\ Total("event") = infoJob.event
      /\ \A i \in 1..N : /\ infoJob.date[i].code <= infoJob.date[N].code
                         /\ infoJob.date[N].code - infoJob.date[i].code < 1000 * N
  BY DEF DiscountsAddUp
<1> DEFINE c == [i \in 1..N |-> infoJob.date[i].code]
           e == [i \in 1..N |-> infoJob.date[i].event]
<1>1. DOMAIN infoJob.date = 1..N /\ IsFiniteSet(DOMAIN infoJob.date) BY DatesAre
<1>2. /\ \A i \in DOMAIN infoJob.date : c[i] = infoJob.date[i]["code"]
      /\ \A i \in DOMAIN infoJob.date : e[i] = infoJob.date[i]["event"]
  BY <1>1
<1>3. SumOver(c, 1..N) = infoJob.code /\ SumOver(e, 1..N) = infoJob.event
      /\ \A i \in 1..N : infoJob.date[i].code <= infoJob.date[N].code
                         /\ infoJob.date[N].code - infoJob.date[i].code < 1000 * N
  BY DiscountsAreShared
<1> HIDE DEF c, e
<1>4. Total("code") = SumOver(c, DOMAIN infoJob.date) BY <1>1, <1>2, TotalIs
<1>5. Total("event") = SumOver(e, DOMAIN infoJob.date) BY <1>1, <1>2, TotalIs
<1> QED BY <1>1, <1>3, <1>4, <1>5

LEMMA FeesFollow == PricingInv => FeesAddUp
<1> SUFFICES ASSUME PricingInv, at = "done", Len(payload.service_fee) = 1, FinalFee(infoJob) >= 0
             PROVE  Total("final_fee") = infoJob.final_fee
  BY DEF FeesAddUp
<1> DEFINE S == 1..N
           first == payload.service_fee[1]
           w == [i \in S |-> infoJob.date[i].final_fee]
           u == [i \in S |-> infoJob.date[i].initial_fee]
           c == [i \in S |-> infoJob.date[i].code]
           e == [i \in S |-> infoJob.date[i].event]
           f == [i \in S |-> IF i = 1 THEN first ELSE 0]
           t == [i \in S |-> payload.tip]
           wc == [i \in S |-> w[i] + c[i]]
           wce == [i \in S |-> wc[i] + e[i]]
           uf == [i \in S |-> u[i] + f[i]]
<1>1. /\ DOMAIN infoJob.date = S /\ IsFiniteSet(S) /\ N \in Nat \ {0} /\ payload \in Payloads
      /\ \A i \in S : infoJob.date[i] \in Amounts
  BY DatesAre DEF PricingInv
<1>2. payload.tip \in Nat /\ first \in Nat /\ 1 \in S BY <1>1, PayloadIs
<1>3. Cardinality(S) = N BY <1>1, FS_Interval
<1>4. /\ SumOver(c, S) = infoJob.code /\ SumOver(e, S) = infoJob.event
  BY DiscountsAreShared
<1>5. /\ \A i \in DOMAIN infoJob.date : w[i] = infoJob.date[i]["final_fee"]
      /\ InitialFees(infoJob.date) = u
  BY <1>1 DEF InitialFees
<1>6. /\ infoJob.initial_fee = SumOver(u, S)
      /\ infoJob.final_fee = Whole(payload, infoJob)
      /\ FinalFee(infoJob) = infoJob.initial_fee + payload.tip * N - infoJob.code - infoJob.event
                               + FoldFunction(+, 0, payload.service_fee)
  <2>1. infoJob.initial_fee = SumOver(u, S) BY <1>1, <1>5 DEF PricingInv
  <2>2. infoJob.final_fee = IF Whole(payload, infoJob) < 0 THEN 0 ELSE Whole(payload, infoJob) BY DEF PricingInv
  <2>3. FinalFee(infoJob) = Whole(payload, infoJob) BY <1>1, WholeIs
  <2>4. infoJob.initial_fee \in Nat /\ infoJob.code \in Nat /\ infoJob.event \in Nat BY DEF PricingInv, TypeOK
  <2>5. FinalFee(infoJob) \in Int BY <1>1, <2>4, FinalFeeIs
  <2>6. infoJob.final_fee = Whole(payload, infoJob) BY <2>2, <2>3, <2>5
  <2> QED BY <2>1, <2>6 DEF FinalFee
<1>7. FoldFunction(+, 0, payload.service_fee) = first BY <1>1, ServiceFeesAre
<1>8. Total("final_fee") = SumOver(w, S) BY <1>1, <1>5, TotalIs
<1>9. \A i \in S : w[i] = u[i] + f[i] + t[i] - c[i] - e[i]
  BY DEF PricingInv
<1>10. \A i \in S : /\ w[i] \in Int /\ u[i] \in Int /\ c[i] \in Int /\ e[i] \in Int
                    /\ f[i] \in Int /\ t[i] \in Int /\ t[i] = payload.tip
  <2>1. \A i \in S : /\ infoJob.date[i].final_fee \in Int /\ infoJob.date[i].initial_fee \in Int
                     /\ infoJob.date[i].code \in Int /\ infoJob.date[i].event \in Int
    BY <1>1 DEF Amounts
  <2> QED BY <1>2, <2>1
<1>11. f[1] = first /\ \A i \in S \ {1} : f[i] = 0 BY <1>2
<1>12. /\ \A i \in S : wc[i] = w[i] + c[i]
       /\ \A i \in S : wce[i] = wc[i] + e[i]
       /\ \A i \in S : uf[i] = u[i] + f[i]
  OBVIOUS
<1> HIDE DEF w, u, c, e, f, t, wc, wce, uf, S, first
<1>13. \A i \in S : wc[i] \in Int /\ uf[i] \in Int BY <1>10, <1>12
<1>14. \A i \in S : wce[i] = uf[i] + t[i] BY <1>9, <1>10, <1>12
<1>15. SumOver(wc, S) = SumOver(w, S) + SumOver(c, S) BY <1>1, <1>10, <1>12, SumOfBoth
<1>16. SumOver(wce, S) = SumOver(wc, S) + SumOver(e, S) BY <1>1, <1>10, <1>12, <1>13, SumOfBoth
<1>17. SumOver(uf, S) = SumOver(u, S) + SumOver(f, S) BY <1>1, <1>10, <1>12, SumOfBoth
<1>18. SumOver(wce, S) = SumOver(uf, S) + SumOver(t, S) BY <1>1, <1>10, <1>13, <1>14, SumOfBoth
<1>19. SumOver(f, S) = first
  <2>1. f[1] \in Int BY <1>2, <1>10
  <2> QED BY <1>1, <1>2, <1>11, <2>1, SumOfOneElement
<1>20. SumOver(t, S) = N * payload.tip
  <2>1. payload.tip \in Int BY <1>2
  <2> QED BY <1>1, <1>3, <1>10, <2>1, SumOfOneValue
<1>21. /\ SumOver(w, S) \in Int /\ SumOver(u, S) \in Int /\ SumOver(c, S) \in Int /\ SumOver(e, S) \in Int
  BY <1>1, <1>10, SumInt
<1>22. PICK tips \in Nat : tips = payload.tip * N /\ tips = N * payload.tip
  <2>1. payload.tip * N \in Nat /\ payload.tip * N = N * payload.tip BY <1>1, <1>2
  <2> QED BY <2>1
<1>23. SumOver(w, S) = SumOver(u, S) + tips - SumOver(c, S) - SumOver(e, S) + first
  BY <1>2, <1>15, <1>16, <1>17, <1>18, <1>19, <1>20, <1>21, <1>22
<1>24. infoJob.final_fee = SumOver(u, S) + tips - SumOver(c, S) - SumOver(e, S) + first
  <2>1. FinalFee(infoJob) = Whole(payload, infoJob) BY <1>1, WholeIs
  <2> DEFINE fold == FoldFunction(+, 0, payload.service_fee)
  <2>2. fold = first BY <1>7
  <2>3. infoJob.final_fee = infoJob.initial_fee + payload.tip * N - infoJob.code - infoJob.event + fold
    BY <1>6, <2>1
  <2> HIDE DEF fold
  <2> QED BY <1>4, <1>6, <1>22, <2>2, <2>3
<1> QED BY <1>8, <1>23, <1>24

LEMMA PricesFollow == PricingInv => DatesPricedAlone
<1> SUFFICES ASSUME PricingInv, payload.area \/ payload.count = 1, NEW i \in 1..Len(infoJob.date)
             PROVE  infoJob.date[i].initial_fee = FeeOfDate(payload.dates[i])
  BY DEF DatesPricedAlone
<1>1. payload \in Payloads /\ infoJob.date \in Seq(Amounts) /\ Len(infoJob.date) <= N BY DEF PricingInv, TypeOK
<1>2. N \in Nat /\ Len(infoJob.date) \in Nat BY <1>1, PayloadIs, LenProperties
<1>3. i \in 1..N BY <1>1, <1>2
<1>4. infoJob.date[i].initial_fee = CostOf(payload, payload.dates[i]) BY DEF PricingInv
<1> QED BY <1>1, <1>3, <1>4, FeeIsCost

-----------------------------------------------------------------------------
(* Theorems                                                                *)

(* Every date is priced once and no discount, fee or sum that is written   *)
(* to the group is negative, for any number of dates.                      *)
THEOREM PricingTypeCorrect == Spec => []TypeOK
<1>1. PricingInv => TypeOK BY DEF PricingInv
<1> QED BY <1>1, PricingInvInductive, PTL

(* The final fees of the orders make what the customer is asked for, for   *)
(* any number of dates, where there is one service fee and the discounts   *)
(* are not more than all fees.                                             *)
THEOREM OrdersCostTheWhole == Spec => []FeesAddUp
  BY FeesFollow, PricingInvInductive, PTL

(* The parts of both discounts make the discount again, for any number of  *)
(* dates.                                                                  *)
THEOREM NoDiscountIsLost == Spec => []DiscountsAddUp
  BY DiscountsFollow, PricingInvInductive, PTL

(* A date costs what it costs for itself, for any number of dates, where   *)
(* the extension has a fee for the area or is not counted.                 *)
THEOREM DatesCostThemselves == Spec => []DatesPricedAlone
  BY PricesFollow, PricingInvInductive, PTL
=============================================================================
