------------------------- MODULE CapitalPolicyProofs -------------------------
(* Proofs about CapitalPolicy, for any finite set of plans, any amounts, any   *)
(* policy and any number of days and policy changes.                          *)
EXTENDS CapitalPolicy, FiniteSetTheorems, TLAPS

(***************************************************************************)
(* Sums over finite sets.  SumFunctionOnSet takes the elements in an order *)
(* nobody knows; a sum of integers is the number of its positive units     *)
(* less the number of its negative ones, and those have no order.          *)
(***************************************************************************)

(* The units that make up the positive values of f on S.                     *)
Units(f, S) == {u \in S \X Nat : u[2] \in 1..f[u[1]]}

Negated(f, S) == [y \in S |-> -f[y]]

(* Every subset of a finite set is in G, if the empty set is and a set is     *)
(* whenever it is without any one of its elements.                           *)
LEMMA SubsetInduction ==
    ASSUME NEW T, IsFiniteSet(T), NEW G, {} \in G,
           \A s \in SUBSET T : s # {} /\ (\A x \in s : s \ {x} \in G) => s \in G
    PROVE  SUBSET T \subseteq G
<1> DEFINE bad == (SUBSET T) \ G
<1>1. SUFFICES ASSUME bad # {} PROVE FALSE
  OBVIOUS
<1>2. IsWellFoundedOn(StrictSubsetOrdering(T), SUBSET T)
  BY FS_StrictSubsetOrderingWellFounded, FS_FiniteSubsetsOfFinite
<1>3. PICK s \in bad : \A u \in bad : ~(<<u, s>> \in StrictSubsetOrdering(T))
  <2> HIDE DEF bad
  <2>1. bad \subseteq SUBSET T
    BY DEF bad
  <2> QED
    BY <1>1, <1>2, <2>1, WFMin
<1>4. ASSUME NEW x \in s PROVE s \ {x} \in G
  <2>1. <<s \ {x}, s>> \in StrictSubsetOrdering(T)
    BY DEF StrictSubsetOrdering
  <2> QED
    BY <1>3, <2>1
<1> QED
  BY <1>3, <1>4

LEMMA UnitsSplit ==
    ASSUME NEW S, NEW x \in S, NEW f, \A y \in S : f[y] \in Int
    PROVE  /\ Units(f, S) = Units(f, S \ {x}) \union ({x} \X (1..f[x]))
           /\ Units(f, S \ {x}) \intersect ({x} \X (1..f[x])) = {}
BY DEF Units

LEMMA UnitsFinite ==
    ASSUME NEW T, IsFiniteSet(T), NEW f, \A y \in T : f[y] \in Int
    PROVE  IsFiniteSet(Units(f, T))
<1> DEFINE G == {s \in SUBSET T : IsFiniteSet(Units(f, s))}
<1>1. {} \in G
  <2>1. Units(f, {}) = {}
    BY DEF Units
  <2> QED
    BY <2>1, FS_EmptySet
<1>2. ASSUME NEW s \in SUBSET T, s # {}, \A x \in s : s \ {x} \in G PROVE s \in G
  <2>1. PICK x \in s : TRUE
    BY <1>2
  <2>2. f[x] \in Int /\ \A y \in s : f[y] \in Int
    OBVIOUS
  <2>3. IsFiniteSet({x} \X (1..f[x]))
    <3>1. IsFiniteSet({x})
      BY FS_Singleton
    <3>2. IsFiniteSet(1..f[x])
      BY <2>2, FS_Interval
    <3> QED
      BY <3>1, <3>2, FS_Product
  <2>4. IsFiniteSet(Units(f, s \ {x}))
    BY <1>2
  <2>5. Units(f, s) = Units(f, s \ {x}) \union ({x} \X (1..f[x]))
    BY <2>2, UnitsSplit
  <2>6. IsFiniteSet(Units(f, s \ {x}) \union ({x} \X (1..f[x])))
    BY <2>3, <2>4, FS_Union
  <2> QED
    BY <2>5, <2>6
<1> HIDE DEF G
<1>3. SUBSET T \subseteq G
  BY <1>1, <1>2, SubsetInduction
<1> QED
  BY <1>3 DEF G

(* What x adds to the units of T.                                            *)
LEMMA CountSplit ==
    ASSUME NEW T, IsFiniteSet(T), NEW x \in T, NEW f, \A y \in T : f[y] \in Int
    PROVE  /\ Cardinality(Units(f, T \ {x})) \in Nat
           /\ Cardinality(Units(f, T)) =
                  Cardinality(Units(f, T \ {x})) + (IF 1 > f[x] THEN 0 ELSE f[x])
<1> DEFINE A == Units(f, T \ {x})
           B == {x} \X (1..f[x])
           n == IF 1 > f[x] THEN 0 ELSE f[x]
<1>1. IsFiniteSet(A)
  BY FS_RemoveElement, UnitsFinite
<1>2. IsFiniteSet(B) /\ Cardinality(B) = n /\ n \in Nat
  <2>1. f[x] \in Int /\ n \in Nat
    OBVIOUS
  <2>2. IsFiniteSet({x}) /\ Cardinality({x}) = 1
    BY FS_Singleton
  <2>3. IsFiniteSet(1..f[x]) /\ Cardinality(1..f[x]) = n
    <3>1. 1 \in Int /\ f[x] \in Int
      BY <2>1
    <3>2. /\ IsFiniteSet(1..f[x])
          /\ Cardinality(1..f[x]) = IF 1 > f[x] THEN 0 ELSE f[x] - 1 + 1
      BY <3>1, FS_Interval
    <3> QED
      BY <2>1, <3>2
  <2> HIDE DEF n
  <2>4. IsFiniteSet(B) /\ Cardinality(B) = 1 * n
    BY <2>2, <2>3, FS_Product
  <2> QED
    BY <2>1, <2>4
<1>3. Units(f, T) = A \union B /\ A \intersect B = {}
  BY UnitsSplit
<1> HIDE DEF A, B, n
<1>4. Cardinality(A) \in Nat
  BY <1>1, FS_CardinalityType
<1>5. Cardinality(A \union B) = Cardinality(A) + Cardinality(B) - Cardinality(A \intersect B)
  BY <1>1, <1>2, FS_Union
<1>6. Cardinality(A \intersect B) = 0
  BY <1>3, FS_EmptySet
<1>7. Cardinality(A \union B) = Cardinality(A) + n
  BY <1>2, <1>4, <1>5, <1>6
<1> QED
  BY <1>3, <1>4, <1>7 DEF A, n

(* The positive units of f less the negative ones.                           *)
Balance(f, S) == Cardinality(Units(f, S)) - Cardinality(Units(Negated(f, S), S))

LEMMA BalanceSplit ==
    ASSUME NEW T, IsFiniteSet(T), NEW x \in T, NEW f, \A y \in T : f[y] \in Int
    PROVE  Balance(f, T) \in Int /\ Balance(f, T) = f[x] + Balance(f, T \ {x})
<1> DEFINE g == Negated(f, T)
           R == T \ {x}
<1>1. g[x] = -f[x] /\ f[x] \in Int /\ g[x] \in Int /\ \A y \in T : g[y] \in Int
  BY DEF Negated
<1>2. Units(Negated(f, R), R) = Units(g, R)
  BY DEF Units, Negated
<1> HIDE DEF g
<1>3. /\ Cardinality(Units(f, R)) \in Nat
      /\ Cardinality(Units(f, T)) = Cardinality(Units(f, R)) + (IF 1 > f[x] THEN 0 ELSE f[x])
  BY CountSplit
<1>4. /\ Cardinality(Units(g, R)) \in Nat
      /\ Cardinality(Units(g, T)) = Cardinality(Units(g, R)) + (IF 1 > g[x] THEN 0 ELSE g[x])
  BY <1>1, CountSplit
<1>5. Balance(f, T) = Cardinality(Units(f, T)) - Cardinality(Units(g, T))
  BY DEF Balance, g
<1>6. Balance(f, R) = Cardinality(Units(f, R)) - Cardinality(Units(g, R))
  BY <1>2 DEF Balance
<1> HIDE DEF R
<1> QED
  BY <1>1, <1>3, <1>4, <1>5, <1>6 DEF R

(* The sum of f over T is its balance: the balance satisfies the recursion    *)
(* that defines the sum, and nothing else does.                              *)
LEMMA SumIsBalance ==
    ASSUME NEW T, IsFiniteSet(T), NEW f, \A y \in T : f[y] \in Int
    PROVE  SumFunctionOnSet(f, T) = Balance(f, T)
<1> DEFINE first(s) == CHOOSE x \in s : TRUE
           Body(h) == [s \in SUBSET T |-> IF s = {} THEN 0 ELSE f[first(s)] + h[s \ {first(s)}]]
           count == [s \in SUBSET T |-> Balance(f, s)]
           sum == CHOOSE h : h = Body(h)
<1>1. count[{}] = 0
  <2>1. Units(f, {}) = {} /\ Units(Negated(f, {}), {}) = {}
    BY DEF Units
  <2>2. Balance(f, {}) = 0
    BY <2>1, FS_EmptySet DEF Balance
  <2> QED
    BY <2>2
<1>2. ASSUME NEW s \in SUBSET T, s # {} PROVE count[s] = f[first(s)] + count[s \ {first(s)}]
  <2>1. first(s) \in s
    BY <1>2
  <2>2. IsFiniteSet(s)
    BY FS_Subset
  <2> HIDE DEF first
  <2> QED
    BY <2>1, <2>2, BalanceSplit
<1>3. count = Body(count)
  <2> HIDE DEF first
  <2>1. \A s \in SUBSET T : count[s] = Body(count)[s]
    BY <1>1, <1>2
  <2> QED
    BY <2>1
<1>4. sum = Body(sum)
  <2> HIDE DEF count, Body
  <2> QED
    BY <1>3
<1> DEFINE G == {s \in SUBSET T : sum[s] = count[s]}
<1>5. SUBSET T \subseteq G
  <2>1. {} \in G
    <3> HIDE DEF sum, count
    <3> QED
      BY <1>1, <1>4
  <2>2. ASSUME NEW s \in SUBSET T, s # {}, \A x \in s : s \ {x} \in G PROVE s \in G
    <3>1. first(s) \in s
      BY <2>2
    <3> HIDE DEF sum, count, first
    <3>2. sum[s] = f[first(s)] + sum[s \ {first(s)}]
      BY <1>4, <2>2
    <3> QED
      BY <1>2, <2>2, <3>1, <3>2
  <2> HIDE DEF G
  <2> QED
    BY <2>1, <2>2, SubsetInduction
<1>6. sum[T] = Balance(f, T)
  <2> HIDE DEF sum
  <2> QED
    BY <1>5
<1>7. SumFunctionOnSet(f, T) = sum[T]
  BY Zenon DEF SumFunctionOnSet, FoldFunctionOnSet, MapThenFoldSet
<1> QED
  BY <1>6, <1>7

(* A sum of integers is one, and an element adds its value.                  *)
LEMMA SumSplit ==
    ASSUME NEW T, IsFiniteSet(T), NEW x \in T, NEW f, \A y \in T : f[y] \in Int
    PROVE  /\ SumFunctionOnSet(f, T) \in Int
           /\ SumFunctionOnSet(f, T) = f[x] + SumFunctionOnSet(f, T \ {x})
<1>1. IsFiniteSet(T \ {x})
  BY FS_RemoveElement
<1>2. SumFunctionOnSet(f, T) = Balance(f, T) /\ SumFunctionOnSet(f, T \ {x}) = Balance(f, T \ {x})
  BY <1>1, SumIsBalance
<1> QED
  BY <1>2, BalanceSplit

LEMMA SumOfNone == ASSUME NEW f PROVE SumFunctionOnSet(f, {}) = 0
<1>1. Units(f, {}) = {} /\ Units(Negated(f, {}), {}) = {}
  BY DEF Units
<1>2. Balance(f, {}) = 0
  BY <1>1, FS_EmptySet DEF Balance
<1> QED
  BY <1>2, FS_EmptySet, SumIsBalance

LEMMA SumIsInt ==
    ASSUME NEW T, IsFiniteSet(T), NEW f, \A y \in T : f[y] \in Int
    PROVE  SumFunctionOnSet(f, T) \in Int
<1>1. CASE T = {}
  BY <1>1, SumOfNone
<1>2. CASE T # {}
  BY <1>2, SumSplit
<1> QED
  BY <1>1, <1>2

(* A sum does not fall when elements that are not negative join, and does     *)
(* not rise when elements that are not positive join.                        *)
LEMMA SumGrows ==
    ASSUME NEW T, IsFiniteSet(T), NEW f, \A y \in T : f[y] \in Int, NEW S \in SUBSET T
    PROVE  /\ (\A y \in T \ S : f[y] >= 0) => SumFunctionOnSet(f, S) <= SumFunctionOnSet(f, T)
           /\ (\A y \in T \ S : f[y] <= 0) => SumFunctionOnSet(f, T) <= SumFunctionOnSet(f, S)
<1> DEFINE sum(U) == SumFunctionOnSet(f, U)
           Ordered(U) == /\ (\A y \in U : f[y] >= 0) => sum(S) <= sum(S \union U)
                         /\ (\A y \in U : f[y] <= 0) => sum(S \union U) <= sum(S)
           G == {U \in SUBSET (T \ S) : Ordered(U)}
<1>1. \A U \in SUBSET T : sum(U) \in Int /\ IsFiniteSet(U)
  BY SumIsInt, FS_Subset
<1>2. {} \in G
  <2>1. S \union {} = S /\ sum(S) \in Int
    BY <1>1
  <2> HIDE DEF sum
  <2> QED
    BY <2>1
<1>3. ASSUME NEW U \in SUBSET (T \ S), U # {}, \A x \in U : U \ {x} \in G PROVE U \in G
  <2>1. PICK x \in U : TRUE
    BY <1>3
  <2>2. (S \union U) \ {x} = S \union (U \ {x}) /\ x \in S \union U
    BY <2>1
  <2>3. S \union U \in SUBSET T /\ S \union (U \ {x}) \in SUBSET T
    OBVIOUS
  <2>4. sum(S \union U) = f[x] + sum(S \union (U \ {x}))
    <3>1. IsFiniteSet(S \union U) /\ \A y \in S \union U : f[y] \in Int
      BY <1>1, <2>3
    <3> QED
      BY <2>2, <3>1, SumSplit
  <2>5. Ordered(U \ {x})
    BY <1>3, <2>1
  <2>6. sum(S) \in Int /\ sum(S \union (U \ {x})) \in Int /\ f[x] \in Int
    BY <1>1, <2>1, <2>3
  <2> HIDE DEF sum
  <2>7. Ordered(U)
    BY <2>1, <2>4, <2>5, <2>6
  <2> HIDE DEF Ordered
  <2> QED
    BY <2>7
<1>4. IsFiniteSet(T \ S)
  BY FS_Difference
<1> HIDE DEF G
<1>5. SUBSET (T \ S) \subseteq G
  BY <1>2, <1>3, <1>4, SubsetInduction
<1>6. Ordered(T \ S)
  BY <1>5 DEF G
<1>7. S \union (T \ S) = T
  OBVIOUS
<1> QED
  BY <1>6, <1>7

(* A sum depends on the values at the elements of its set only.              *)
LEMMA SumSame ==
    ASSUME NEW S, IsFiniteSet(S), NEW f, NEW g, \A y \in S : f[y] \in Int /\ g[y] = f[y]
    PROVE  SumFunctionOnSet(g, S) = SumFunctionOnSet(f, S)
<1>1. Units(f, S) = Units(g, S) /\ Units(Negated(f, S), S) = Units(Negated(g, S), S)
  BY DEF Units, Negated
<1>2. Balance(f, S) = Balance(g, S)
  BY <1>1 DEF Balance
<1> QED
  BY <1>2, SumIsBalance

(***************************************************************************)
(* The operators of the model.                                             *)
(***************************************************************************)

LEMMA MinOfFour ==
    ASSUME NEW a \in Int, NEW b \in Int, NEW c \in Int, NEW e \in Int
    PROVE  /\ Min({a, b, c, e}) \in Int
           /\ Min({a, b, c, e}) <= a /\ Min({a, b, c, e}) <= b
           /\ Min({a, b, c, e}) <= c /\ Min({a, b, c, e}) <= e
<1> DEFINE S == {a, b, c, e}
<1>1. \E x \in S : \A y \in S : x <= y
  OBVIOUS
<1> QED
  BY <1>1 DEF Min

(* No limit is exceeded.                                                     *)
LEMMA AllowedWithinLimits ==
    ASSUME TypeOK, NEW p \in Plans, NEW room \in Nat
    PROVE  /\ Allowed(p, room) \in Int
           /\ Allowed(p, room) <= plan[p].usd
           /\ Allowed(p, room) <= call[p].per
           /\ Allowed(p, room) <= Remaining(p)
           /\ Granted(Allowed(p, room)) =>
                  Allowed(p, room) > 0 /\ call[p].used < call[p].daily
<1>1. /\ room \in Int /\ plan[p].usd \in Int /\ call[p].per \in Int
      /\ call[p].daily \in Nat /\ call[p].used \in Int
  BY DEF TypeOK
<1>2. /\ Remaining(p) \in Int
      /\ Remaining(p) > 0 => call[p].used < call[p].daily
  BY <1>1 DEF Remaining
<1> DEFINE m == Min({plan[p].usd, room, call[p].per, Remaining(p)})
<1>3. m \in Int /\ m <= plan[p].usd /\ m <= call[p].per /\ m <= Remaining(p)
  BY <1>1, <1>2, MinOfFour
<1>4. m = Allowed(p, room)
  BY DEF Allowed
<1> HIDE DEF m
<1> QED
  BY <1>1, <1>2, <1>3, <1>4 DEF Granted

LEMMA TotalIsInt == ASSUME TypeOK, NEW S \in SUBSET Plans PROVE Total(S) \in Int
<1>1. \A q \in S : Notional[q] \in Int
  BY DEF TypeOK, Notional
<1>2. IsFiniteSet(S)
  BY PlansAreFinite, FS_Subset
<1> QED
  BY <1>1, <1>2, SumIsInt DEF Total

(* More plans borrow no less, unless they are negative.                      *)
LEMMA TotalGrows ==
    ASSUME TypeOK, NEW T \in SUBSET Plans, NEW S \in SUBSET T,
           \A q \in T \ S : plan[q].usd >= 0
    PROVE  Total(S) <= Total(T)
<1>1. \A q \in T : Notional[q] \in Int /\ Notional[q] = plan[q].usd
  BY DEF TypeOK, Notional
<1>2. IsFiniteSet(T)
  BY PlansAreFinite, FS_Subset
<1> QED
  BY <1>1, <1>2, SumGrows DEF Total

(* What stored plans borrow does not change when another plan is stored.     *)
LEMMA TotalStays ==
    ASSUME TypeOK, NEW S \in SUBSET Plans, \A q \in S : plan'[q] = plan[q]
    PROVE  SumFunctionOnSet(Notional', S) = Total(S)
<1>1. \A q \in S : Notional[q] \in Int /\ Notional'[q] = Notional[q]
  BY DEF TypeOK, Notional
<1>2. IsFiniteSet(S)
  BY PlansAreFinite, FS_Subset
<1>3. SumFunctionOnSet(Notional', S) = SumFunctionOnSet(Notional, S)
  BY <1>1, <1>2, SumSame
<1> QED
  BY <1>3 DEF Total

(***************************************************************************)
(* Types.                                                                  *)
(***************************************************************************)

CallState ==
    [pc : {"idle", "used", "loss"}, per : Nat, daily : Nat, used : Int, day : 0 .. MaxDay,
     blind : BOOLEAN]
VerdictState ==
    [approved : BOOLEAN, usd : Int, per : Nat, daily : Nat, day : 0 .. MaxDay, blind : BOOLEAN]

LEMMA ConstantsTyped ==
    /\ Amounts \subseteq Int /\ Rooms \subseteq Nat /\ PerPlan \subseteq Nat /\ Daily \subseteq Nat
    /\ DefaultPer \in Nat /\ DefaultDaily \in Nat
    /\ MaxDay \in Nat /\ MaxUpdates \in Nat /\ 0 \in 0 .. MaxDay
BY AmountAssumption

LEMMA NullsTyped == NoCall \in CallState /\ NoVerdict \in VerdictState
BY ConstantsTyped DEF NoCall, NoVerdict, CallState, VerdictState

LEMMA ApprovalTyped ==
    ASSUME TypeOK, NEW p \in Plans, NEW usd \in Int, Answered(p, TRUE, usd), usd > 0
    PROVE  /\ call' \in [Plans -> CallState] /\ verdict' \in [Plans -> VerdictState]
           /\ \A q \in Plans : verdict'[q].approved => verdict'[q].usd > 0
<1>1. call[p] \in CallState /\ call \in [Plans -> CallState] /\ verdict \in [Plans -> VerdictState]
  BY DEF TypeOK, CallState, VerdictState
<1>2. call' \in [Plans -> CallState]
  BY <1>1, NullsTyped DEF Answered
<1> DEFINE v == [approved |-> TRUE, usd |-> usd, per |-> call[p].per, daily |-> call[p].daily,
                 day |-> call[p].day, blind |-> call[p].blind]
<1>3. v \in VerdictState /\ v.usd > 0
  BY <1>1 DEF CallState, VerdictState
<1>4. verdict' = [verdict EXCEPT ![p] = v]
  BY DEF Answered
<1> HIDE DEF v
<1> QED
  BY <1>1, <1>2, <1>3, <1>4 DEF TypeOK

LEMMA DenialTyped ==
    ASSUME TypeOK, NEW p \in Plans, NEW usd \in Int, Answered(p, FALSE, usd)
    PROVE  /\ call' \in [Plans -> CallState] /\ verdict' \in [Plans -> VerdictState]
           /\ \A q \in Plans : verdict'[q].approved => verdict'[q].usd > 0
<1>1. call[p] \in CallState /\ call \in [Plans -> CallState] /\ verdict \in [Plans -> VerdictState]
  BY DEF TypeOK, CallState, VerdictState
<1>2. call' \in [Plans -> CallState]
  BY <1>1, NullsTyped DEF Answered
<1> DEFINE v == [NoVerdict EXCEPT !.usd = usd]
<1>3. v \in VerdictState /\ ~v.approved
  BY NullsTyped DEF NoVerdict, VerdictState
<1>4. verdict' = [verdict EXCEPT ![p] = v]
  BY DEF Answered
<1> HIDE DEF v
<1> QED
  BY <1>1, <1>2, <1>3, <1>4 DEF TypeOK

(* The amount of the limits is granted, or is the amount of a denial.        *)
LEMMA DecideAnswers ==
    ASSUME TypeOK, NEW p \in Plans, Decide(p)
    PROVE  \/ \E room \in Rooms : /\ Answered(p, TRUE, Allowed(p, room))
                                 /\ Granted(Allowed(p, room))
           \/ \E usd \in Int : Answered(p, FALSE, usd)
<1>1. PICK room \in Rooms :
         \/ Answered(p, Granted(Allowed(p, room)), Allowed(p, room))
         \/ Answered(p, FALSE, Allowed(p, room))
         \/ Answered(p, FALSE, 0)
  BY DEF Decide
<1>2. Allowed(p, room) \in Int
  BY ConstantsTyped, AllowedWithinLimits
<1>3. CASE Answered(p, Granted(Allowed(p, room)), Allowed(p, room))
  <2>1. CASE Granted(Allowed(p, room))
    BY <1>3, <2>1 DEF Answered
  <2>2. CASE ~Granted(Allowed(p, room))
    <3>1. Answered(p, FALSE, Allowed(p, room))
      BY <1>3, <2>2 DEF Answered
    <3> QED
      BY <1>2, <3>1
  <2> QED
    BY <2>1, <2>2
<1>4. 0 \in Int
  OBVIOUS
<1> QED
  BY <1>1, <1>2, <1>3, <1>4

LEMMA TypeStep == TypeOK /\ [Next]_vars => TypeOK'
<1> SUFFICES ASSUME TypeOK, [Next]_vars PROVE TypeOK'
  OBVIOUS
<1>1. CASE Seed
  BY <1>1, ConstantsTyped DEF Seed, DEFAULT_POLICY, TypeOK
<1>2. CASE Update
  <2>1. policy' \in [per : Nat, daily : Nat, stored : BOOLEAN]
    BY <1>2, ConstantsTyped DEF Update, TypeOK
  <2>2. updates' \in 0 .. MaxUpdates
    <3>1. updates \in 0 .. MaxUpdates /\ updates < MaxUpdates /\ updates' = updates + 1
      BY <1>2 DEF Update, TypeOK
    <3> QED
      BY <3>1, ConstantsTyped
  <2> QED
    BY <1>2, <2>1, <2>2 DEF Update, TypeOK
<1>3. CASE Midnight
  BY <1>3, ConstantsTyped DEF Midnight, TypeOK
<1>4. ASSUME NEW p \in Plans, Build(p) PROVE TypeOK'
  <2>1. PICK usd \in Amounts, d \in {today} \union ({today - 1} \intersect Nat) :
           plan' = [plan EXCEPT ![p] = [stored |-> TRUE, usd |-> usd, day |-> d]]
    BY <1>4 DEF Build
  <2>2. usd \in Int /\ d \in 0 .. MaxDay
    BY ConstantsTyped DEF TypeOK
  <2> QED
    BY <1>4, <2>1, <2>2 DEF Build, TypeOK
<1>5. ASSUME NEW p \in Plans, ReadPolicy(p) PROVE TypeOK'
  <2>1. Effective(policy.per, DefaultPer) \in Nat /\ Effective(policy.daily, DefaultDaily) \in Nat
    BY ConstantsTyped DEF TypeOK, Effective
  <2>2. CASE policy.stored
    <3>1. [NoCall EXCEPT !.pc = "used", !.per = Effective(policy.per, DefaultPer),
                         !.daily = Effective(policy.daily, DefaultDaily)] \in CallState
      BY <2>1, NullsTyped DEF CallState
    <3>2. call' \in [Plans -> CallState]
      BY <1>5, <2>2, <3>1 DEF ReadPolicy, TypeOK, CallState
    <3> QED
      BY <1>5, <2>2, <3>2 DEF ReadPolicy, TypeOK, CallState
  <2>3. CASE ~policy.stored
    <3>1. Answered(p, FALSE, 0)
      BY <1>5, <2>3 DEF ReadPolicy
    <3>2. 0 \in Int
      OBVIOUS
    <3>3. /\ call' \in [Plans -> CallState] /\ verdict' \in [Plans -> VerdictState]
          /\ \A q \in Plans : verdict'[q].approved => verdict'[q].usd > 0
      BY <3>1, <3>2, DenialTyped
    <3> QED
      BY <1>5, <3>3 DEF ReadPolicy, TypeOK, CallState, VerdictState
  <2> QED
    BY <2>2, <2>3
<1>6. ASSUME NEW p \in Plans, ReadUsed(p) PROVE TypeOK'
  <2>1. Total(Counted(p)) \in Int
    BY TotalIsInt DEF Counted
  <2>2. PICK blind \in BOOLEAN :
           call' = [call EXCEPT ![p].pc = "loss", ![p].day = today, ![p].blind = blind,
                                ![p].used = IF blind THEN 0 ELSE Total(Counted(p))]
    BY <1>6 DEF ReadUsed
  <2> DEFINE u == IF blind THEN 0 ELSE Total(Counted(p))
             c == [call[p] EXCEPT !.pc = "loss", !.day = today, !.blind = blind, !.used = u]
  <2>3. c \in CallState
    <3>1. call[p] \in CallState /\ today \in 0 .. MaxDay /\ u \in Int
      BY <2>1 DEF TypeOK, CallState
    <3> HIDE DEF u
    <3> QED
      BY <3>1 DEF CallState
  <2>4. call \in [Plans -> CallState] /\ call' = [call EXCEPT ![p] = c]
    BY <2>2 DEF TypeOK, CallState
  <2> HIDE DEF c
  <2>5. call' \in [Plans -> CallState]
    BY <2>3, <2>4
  <2> QED
    BY <1>6, <2>5 DEF ReadUsed, TypeOK, CallState
<1>7. ASSUME NEW p \in Plans, Decide(p) PROVE TypeOK'
  <2>1. ASSUME NEW room \in Rooms, Answered(p, TRUE, Allowed(p, room)), Granted(Allowed(p, room))
        PROVE  /\ call' \in [Plans -> CallState] /\ verdict' \in [Plans -> VerdictState]
               /\ \A q \in Plans : verdict'[q].approved => verdict'[q].usd > 0
    <3>1. Allowed(p, room) \in Int /\ Allowed(p, room) > 0
      BY <2>1, ConstantsTyped, AllowedWithinLimits
    <3> QED
      BY <2>1, <3>1, ApprovalTyped
  <2>2. ASSUME NEW usd \in Int, Answered(p, FALSE, usd)
        PROVE  /\ call' \in [Plans -> CallState] /\ verdict' \in [Plans -> VerdictState]
               /\ \A q \in Plans : verdict'[q].approved => verdict'[q].usd > 0
    BY <2>2, DenialTyped
  <2>3. /\ call' \in [Plans -> CallState] /\ verdict' \in [Plans -> VerdictState]
        /\ \A q \in Plans : verdict'[q].approved => verdict'[q].usd > 0
    BY <1>7, <2>1, <2>2, DecideAnswers
  <2> QED
    BY <1>7, <2>3 DEF Decide, TypeOK, CallState, VerdictState
<1>8. ASSUME NEW p \in Plans, Lost(p) PROVE TypeOK'
  BY <1>8, NullsTyped DEF Lost, TypeOK, CallState
<1>9. CASE UNCHANGED vars
  BY <1>9 DEF vars, TypeOK
<1> QED
  BY <1>1, <1>2, <1>3, <1>4, <1>5, <1>6, <1>7, <1>8, <1>9 DEF Next

LEMMA InitTyped == Init => TypeOK
<1> SUFFICES ASSUME Init PROVE TypeOK
  OBVIOUS
<1>1. policy \in [per : Nat, daily : Nat, stored : BOOLEAN]
  <2>1. NoPolicy \in [per : Nat, daily : Nat, stored : BOOLEAN]
    BY DEF NoPolicy
  <2>2. DEFAULT_POLICY \in [per : Nat, daily : Nat, stored : BOOLEAN]
    BY ConstantsTyped DEF DEFAULT_POLICY
  <2> QED
    BY <2>1, <2>2 DEF Init
<1>2. plan \in [Plans -> [stored : BOOLEAN, usd : Int, day : 0 .. MaxDay]]
  BY ConstantsTyped DEF Init, Unbuilt
<1>3. call \in [Plans -> CallState] /\ verdict \in [Plans -> VerdictState]
  BY NullsTyped DEF Init
<1>4. \A p \in Plans : ~verdict[p].approved
  BY DEF Init, NoVerdict
<1>5. today \in 0 .. MaxDay /\ updates \in 0 .. MaxUpdates
  BY ConstantsTyped DEF Init
<1> QED
  BY <1>1, <1>2, <1>3, <1>4, <1>5 DEF TypeOK, CallState, VerdictState

(* Every variable keeps its type: in particular, with plans of any sign       *)
(* stored and whatever the day's use has come to, only a positive amount is   *)
(* approved.                                                                 *)
THEOREM TypeCorrect == Spec => []TypeOK
BY InitTyped, TypeStep, PTL DEF Spec

(***************************************************************************)
(* The daily cap.  An evaluation that has read the day's use and not yet   *)
(* answered is a reading; so is a verdict.  Of any readings of a day, the  *)
(* one that read last counted the plans of all: plans are stored before    *)
(* they are evaluated.  Negative plans stored since have only lowered what  *)
(* all of them come to.  The order of the reads is gone from the state, so  *)
(* the invariant says that of every set of readings some one covers all.   *)
(***************************************************************************)

ReadingOn(d) ==
    {p \in Plans : call[p].pc = "loss" /\ ~call[p].blind /\ call[p].day = d /\ plan[p].day = d}

StoredFirst == \A p \in Plans : call[p].pc # "idle" \/ verdict[p].approved => plan[p].stored

(* What the plans in A and X and the negative ones of day d come to.         *)
Net(d, A, X) == Total(A \union X \union NegativeOn(d))

(* The plans in A, by their verdicts, and those in X, by what they have read. *)
Covered(d, A, X) ==
    \/ \E p \in A : Net(d, A, X) < verdict[p].daily
    \/ \E p \in X : Net(d, A, X) <= call[p].used

ReadingsCover ==
    \A d \in 0 .. MaxDay : \A A \in SUBSET ApprovedOn(d), X \in SUBSET ReadingOn(d) :
        A \union X # {} => Covered(d, A, X)

IInv == TypeOK /\ StoredFirst /\ ReadingsCover

(* A step that stores no plan, and adds neither a reading nor a verdict.      *)
LEMMA FewerReadings ==
    ASSUME TypeOK, ReadingsCover, UNCHANGED plan,
           \A p \in Plans : call'[p] = call[p] \/ call'[p].pc # "loss",
           \A p \in Plans : verdict'[p] = verdict[p] \/ ~verdict'[p].approved
    PROVE  ReadingsCover'
<1> SUFFICES ASSUME NEW d \in 0 .. MaxDay, NEW A \in SUBSET ApprovedOn(d)',
                    NEW X \in SUBSET ReadingOn(d)', A \union X # {}
             PROVE  Covered(d, A, X)'
  BY DEF ReadingsCover
<1>1. A \in SUBSET ApprovedOn(d) /\ \A p \in A : verdict'[p] = verdict[p]
  BY DEF ApprovedOn
<1>2. X \in SUBSET ReadingOn(d) /\ \A p \in X : call'[p] = call[p]
  BY DEF ReadingOn
<1>3. Covered(d, A, X)
  BY <1>1, <1>2 DEF ReadingsCover
<1>4. Net(d, A, X)' = Net(d, A, X)
  BY DEF Net, NegativeOn, Total, Notional
<1> QED
  BY <1>1, <1>2, <1>3, <1>4 DEF Covered

(* A plan is stored that nobody has evaluated: a negative one of the day      *)
(* lowers what the others come to, no other counts.                          *)
LEMMA BuildCovers ==
    ASSUME IInv, NEW b \in Plans, Build(b) PROVE StoredFirst' /\ ReadingsCover'
<1>1. ~plan[b].stored /\ UNCHANGED <<call, verdict>> /\ \A q \in Plans \ {b} : plan'[q] = plan[q]
  BY DEF Build, IInv, TypeOK
<1>2. plan'[b].stored
  BY DEF Build, IInv, TypeOK
<1>3. StoredFirst'
  BY <1>1, <1>2 DEF IInv, StoredFirst
<1> SUFFICES ASSUME NEW d \in 0 .. MaxDay, NEW A \in SUBSET ApprovedOn(d)',
                    NEW X \in SUBSET ReadingOn(d)', A \union X # {}
             PROVE  Covered(d, A, X)'
  BY <1>3 DEF ReadingsCover
<1>4. A \in SUBSET (Plans \ {b}) /\ X \in SUBSET (Plans \ {b})
  BY <1>1 DEF IInv, StoredFirst, ApprovedOn, ReadingOn
<1>5. A \in SUBSET ApprovedOn(d) /\ X \in SUBSET ReadingOn(d)
  BY <1>1, <1>4 DEF ApprovedOn, ReadingOn
<1>6. Covered(d, A, X)
  BY <1>5 DEF IInv, ReadingsCover
<1> DEFINE S == A \union X \union NegativeOn(d)
           T == A \union X \union NegativeOn(d)'
<1>7. /\ S \in SUBSET (Plans \ {b}) /\ T \in SUBSET Plans
      /\ S \subseteq T
      /\ \A q \in T \ S : q = b /\ plan'[q].usd < 0
  BY <1>1, <1>4 DEF NegativeOn
<1>8. SumFunctionOnSet(Notional', S) = Total(S)
  BY <1>1, <1>7, TotalStays DEF IInv
<1>9. TypeOK'
  BY TypeStep DEF IInv, Next
<1>10. /\ Net(d, A, X) = Total(S)
       /\ Net(d, A, X)' = SumFunctionOnSet(Notional', T)
  BY DEF Net, Total
<1>11. Net(d, A, X)' <= Net(d, A, X) /\ Net(d, A, X)' \in Int /\ Net(d, A, X) \in Int
  <2> HIDE DEF S, T
  <2>1. \A q \in T : Notional'[q] \in Int /\ Notional'[q] = plan'[q].usd
    BY <1>7, <1>9 DEF TypeOK, Notional
  <2>2. \A q \in T \ S : Notional'[q] <= 0
    BY <1>7, <2>1
  <2>3. IsFiniteSet(T)
    BY <1>7, PlansAreFinite, FS_Subset
  <2>4. SumFunctionOnSet(Notional', T) <= SumFunctionOnSet(Notional', S)
    BY <1>7, <2>1, <2>2, <2>3, SumGrows
  <2>6. SumFunctionOnSet(Notional', T) \in Int
    BY <2>1, <2>3, SumIsInt
  <2>7. Total(S) \in Int
    BY <1>7, TotalIsInt DEF IInv
  <2> QED
    BY <1>8, <1>10, <2>4, <2>6, <2>7
<1>12. \A p \in Plans : verdict[p].daily \in Int /\ call[p].used \in Int
  BY DEF IInv, TypeOK
<1> HIDE DEF S, T
<1>13. PICK m \in Int, n \in Int : m = Net(d, A, X)' /\ n = Net(d, A, X) /\ m <= n
  BY <1>11
<1> QED
  BY <1>1, <1>4, <1>6, <1>12, <1>13 DEF Covered

(* A read of the day's use covers every reading and every verdict of the day. *)
LEMMA ReadCovers ==
    ASSUME IInv, NEW r \in Plans, ReadUsed(r) PROVE StoredFirst' /\ ReadingsCover'
<1>1. UNCHANGED <<plan, verdict>> /\ \A q \in Plans \ {r} : call'[q] = call[q]
  BY DEF ReadUsed, IInv, TypeOK
<1>2. call[r].pc = "used" /\ call'[r].day = today /\ call'[r].pc = "loss"
      /\ (~call'[r].blind => call'[r].used = Total(Counted(r)))
  BY DEF ReadUsed, IInv, TypeOK
<1>3. StoredFirst'
  BY <1>1, <1>2 DEF IInv, StoredFirst
<1> SUFFICES ASSUME NEW d \in 0 .. MaxDay, NEW A \in SUBSET ApprovedOn(d)',
                    NEW X \in SUBSET ReadingOn(d)', A \union X # {}
             PROVE  Covered(d, A, X)'
  BY <1>3 DEF ReadingsCover
<1>4. A \in SUBSET ApprovedOn(d)
  BY <1>1 DEF ApprovedOn
<1>5. Net(d, A, X)' = Net(d, A, X)
  BY <1>1 DEF Net, NegativeOn, Total, Notional
<1>6. CASE r \in X
  <2>1. d = today /\ ~call'[r].blind
    BY <1>2, <1>6 DEF ReadingOn
  <2> DEFINE S == A \union X \union NegativeOn(d)
  <2>2. /\ S \in SUBSET Counted(r) /\ Counted(r) \in SUBSET Plans
        /\ \A q \in Counted(r) \ S : plan[q].usd >= 0
    BY <1>1, <1>3, <2>1 DEF ApprovedOn, ReadingOn, Counted, StoredFirst, NegativeOn, IInv, TypeOK
  <2>3. Net(d, A, X) <= Total(Counted(r))
    <3> HIDE DEF S
    <3>1. Total(S) <= Total(Counted(r))
      BY <2>2, TotalGrows DEF IInv
    <3> QED
      BY <3>1 DEF S, Net
  <2> QED
    BY <1>2, <1>5, <1>6, <2>1, <2>3 DEF Covered
<1>7. CASE r \notin X
  <2>1. X \in SUBSET ReadingOn(d) /\ \A p \in X : call'[p] = call[p]
    BY <1>1, <1>7 DEF ReadingOn
  <2>2. Covered(d, A, X)
    BY <1>4, <2>1 DEF IInv, ReadingsCover
  <2> QED
    BY <1>1, <1>5, <2>1, <2>2 DEF Covered
<1> QED
  BY <1>6, <1>7

(* An approval makes a verdict of a reading: what the plan had read was below *)
(* the daily notional that the verdict names.                                *)
LEMMA ApprovalCovers ==
    ASSUME IInv, NEW a \in Plans, NEW usd \in Int, Answered(a, TRUE, usd), UNCHANGED plan,
           call[a].pc = "loss", call[a].used < call[a].daily
    PROVE  ReadingsCover'
<1>1. /\ \A q \in Plans \ {a} : call'[q] = call[q] /\ verdict'[q] = verdict[q]
      /\ call'[a].pc = "idle"
      /\ verdict'[a].daily = call[a].daily /\ verdict'[a].day = call[a].day
      /\ verdict'[a].blind = call[a].blind
  BY DEF Answered, IInv, TypeOK, NoCall
<1> SUFFICES ASSUME NEW d \in 0 .. MaxDay, NEW A \in SUBSET ApprovedOn(d)',
                    NEW X \in SUBSET ReadingOn(d)', A \union X # {}
             PROVE  Covered(d, A, X)'
  BY DEF ReadingsCover
<1>2. X \in SUBSET ReadingOn(d) /\ a \notin X
  BY <1>1 DEF ReadingOn
<1>3. Net(d, A, X)' = Net(d, A, X)
  BY DEF Net, NegativeOn, Total, Notional
<1>4. Net(d, A, X) \in Int
  BY <1>2, TotalIsInt DEF Net, NegativeOn, ApprovedOn, ReadingOn, IInv
<1>5. CASE a \in A
  <2> DEFINE A0 == A \ {a}
             X0 == X \union {a}
  <2>1. A0 \in SUBSET ApprovedOn(d)
    BY <1>1 DEF ApprovedOn
  <2>2. X0 \in SUBSET ReadingOn(d)
    BY <1>1, <1>2, <1>5 DEF ApprovedOn, ReadingOn
  <2>3. Net(d, A0, X0) = Net(d, A, X)
    <3>1. A0 \union X0 = A \union X
      BY <1>5
    <3> QED
      BY <3>1 DEF Net
  <2>4. Covered(d, A0, X0)
    BY <2>1, <2>2 DEF IInv, ReadingsCover
  <2>5. PICK t \in Int : t = Net(d, A, X)
    BY <1>4
  <2>6. CASE \E p \in A0 : t < verdict[p].daily
    BY <1>1, <1>3, <2>1, <2>5, <2>6 DEF Covered, ApprovedOn
  <2>7. CASE \E p \in X : t <= call[p].used
    BY <1>1, <1>2, <1>3, <2>5, <2>7 DEF Covered, ReadingOn
  <2>8. CASE t <= call[a].used
    <3>1. call[a].used \in Int /\ call[a].daily \in Nat
      BY DEF IInv, TypeOK
    <3>2. t < verdict'[a].daily
      BY <1>1, <2>8, <3>1
    <3> QED
      BY <1>3, <1>5, <2>5, <3>2 DEF Covered
  <2> QED
    BY <2>3, <2>4, <2>5, <2>6, <2>7, <2>8 DEF Covered
<1>6. CASE a \notin A
  <2>1. A \in SUBSET ApprovedOn(d) /\ \A p \in A : verdict'[p] = verdict[p]
    BY <1>1, <1>6 DEF ApprovedOn
  <2>2. \A p \in X : call'[p] = call[p]
    BY <1>1, <1>2 DEF ReadingOn
  <2>3. Covered(d, A, X)
    BY <1>2, <2>1 DEF IInv, ReadingsCover
  <2> QED
    BY <1>3, <2>1, <2>2, <2>3 DEF Covered
<1> QED
  BY <1>5, <1>6

(* An answer that denies.                                                    *)
LEMMA DenialCovers ==
    ASSUME IInv, NEW a \in Plans, NEW usd, Answered(a, FALSE, usd), UNCHANGED plan
    PROVE  StoredFirst' /\ ReadingsCover'
<1>1. \A p \in Plans : call'[p] = call[p] \/ call'[p].pc = "idle"
  BY DEF Answered, IInv, TypeOK, NoCall
<1>2. \A p \in Plans : verdict'[p] = verdict[p] \/ ~verdict'[p].approved
  BY DEF Answered, IInv, TypeOK, NoVerdict
<1>3. StoredFirst'
  BY <1>1, <1>2 DEF IInv, StoredFirst
<1> QED
  BY <1>1, <1>2, <1>3, FewerReadings DEF IInv

LEMMA DecideCovers ==
    ASSUME IInv, NEW p \in Plans, Decide(p) PROVE StoredFirst' /\ ReadingsCover'
<1>1. call[p].pc = "loss" /\ UNCHANGED plan
  BY DEF Decide
<1>2. ASSUME NEW room \in Rooms, Answered(p, TRUE, Allowed(p, room)), Granted(Allowed(p, room))
      PROVE  StoredFirst' /\ ReadingsCover'
  <2>1. Allowed(p, room) \in Int /\ call[p].used < call[p].daily
    BY <1>2, ConstantsTyped, AllowedWithinLimits DEF IInv
  <2>2. \A q \in Plans \ {p} : call'[q] = call[q] /\ verdict'[q] = verdict[q]
    BY <1>2 DEF Answered, IInv, TypeOK
  <2>3. StoredFirst'
    BY <1>1, <2>2 DEF IInv, StoredFirst
  <2> QED
    BY <1>1, <1>2, <2>1, <2>3, ApprovalCovers
<1>3. ASSUME NEW usd \in Int, Answered(p, FALSE, usd) PROVE StoredFirst' /\ ReadingsCover'
  BY <1>1, <1>3, DenialCovers
<1> QED
  BY <1>2, <1>3, DecideAnswers DEF IInv

LEMMA InductiveStep == IInv /\ [Next]_vars => IInv'
<1> SUFFICES ASSUME IInv, [Next]_vars PROVE StoredFirst' /\ ReadingsCover'
  BY TypeStep DEF IInv
<1>1. CASE Seed \/ Update \/ Midnight \/ UNCHANGED vars
  <2>1. UNCHANGED <<plan, call, verdict>>
    BY <1>1 DEF Seed, Update, Midnight, vars
  <2>2. StoredFirst'
    BY <2>1 DEF IInv, StoredFirst
  <2> QED
    BY <2>1, <2>2, FewerReadings DEF IInv
<1>2. ASSUME NEW p \in Plans, Build(p) PROVE StoredFirst' /\ ReadingsCover'
  BY <1>2, BuildCovers
<1>3. ASSUME NEW p \in Plans, ReadPolicy(p) PROVE StoredFirst' /\ ReadingsCover'
  <2>1. UNCHANGED plan /\ plan[p].stored
    BY <1>3 DEF ReadPolicy
  <2>2. CASE policy.stored
    <3>1. UNCHANGED verdict /\ call'[p].pc = "used" /\ \A q \in Plans \ {p} : call'[q] = call[q]
      <4>1. PICK x, y : call' = [call EXCEPT ![p] = [NoCall EXCEPT !.pc = "used", !.per = x,
                                                                 !.daily = y]]
        BY <1>3, <2>2 DEF ReadPolicy
      <4>2. DOMAIN call = Plans
        BY DEF IInv, TypeOK
      <4>3. UNCHANGED verdict
        BY <1>3, <2>2 DEF ReadPolicy
      <4> QED
        BY <4>1, <4>2, <4>3 DEF NoCall
    <3>2. StoredFirst'
      BY <2>1, <3>1 DEF IInv, StoredFirst
    <3> QED
      BY <2>1, <3>1, <3>2, FewerReadings DEF IInv
  <2>3. CASE ~policy.stored
    BY <1>3, <2>1, <2>3, DenialCovers DEF ReadPolicy
  <2> QED
    BY <2>2, <2>3
<1>4. ASSUME NEW p \in Plans, ReadUsed(p) PROVE StoredFirst' /\ ReadingsCover'
  BY <1>4, ReadCovers
<1>5. ASSUME NEW p \in Plans, Decide(p) PROVE StoredFirst' /\ ReadingsCover'
  BY <1>5, DecideCovers
<1>6. ASSUME NEW p \in Plans, Lost(p) PROVE StoredFirst' /\ ReadingsCover'
  <2>1. UNCHANGED <<plan, verdict>> /\ \A q \in Plans : call'[q] = call[q] \/ call'[q].pc = "idle"
    BY <1>6 DEF Lost, IInv, TypeOK, NoCall
  <2>2. StoredFirst'
    BY <2>1 DEF IInv, StoredFirst
  <2> QED
    BY <2>1, <2>2, FewerReadings DEF IInv
<1> QED
  BY <1>1, <1>2, <1>3, <1>4, <1>5, <1>6 DEF Next

LEMMA InitCovers == Init => IInv
<1> SUFFICES ASSUME Init PROVE IInv
  OBVIOUS
<1>1. TypeOK
  BY InitTyped
<1>2. \A p \in Plans : call[p].pc = "idle" /\ ~verdict[p].approved
  BY DEF Init, NoCall, NoVerdict
<1>3. StoredFirst
  BY <1>2 DEF StoredFirst
<1>4. \A d \in 0 .. MaxDay : ApprovedOn(d) = {} /\ ReadingOn(d) = {}
  BY <1>2 DEF ApprovedOn, ReadingOn
<1> QED
  BY <1>1, <1>3, <1>4 DEF IInv, ReadingsCover

(* The allocator reads the day's use awaits before it decides, and plans are  *)
(* built, evaluated and approved meanwhile: for any number of plans, of any    *)
(* sign, the ones approved on their day exceed a daily notional in force at    *)
(* most by what negative plans of the day have taken off.                    *)
THEOREM DailyCapAlwaysHolds == Spec => []DailyCapHolds
<1>1. IInv => DailyCapHolds
  <2> SUFFICES ASSUME IInv, NEW d \in 0 .. MaxDay, ApprovedOn(d) # {}
               PROVE  \E p \in ApprovedOn(d) :
                          Total(ApprovedOn(d) \union NegativeOn(d)) < verdict[p].daily
    BY DEF DailyCapHolds
  <2>1. Covered(d, ApprovedOn(d), {})
    BY DEF IInv, ReadingsCover
  <2>2. ApprovedOn(d) \union {} = ApprovedOn(d)
    OBVIOUS
  <2> QED
    BY <2>1, <2>2 DEF Covered, Net
<1> QED
  BY <1>1, InitCovers, InductiveStep, PTL DEF Spec

(* Where no plan of a day is negative, the plans approved on it stay together *)
(* below a daily notional in force.                                          *)
COROLLARY CapBindsUnlessNegative ==
    Spec => [](\A d \in 0 .. MaxDay : NegativeOn(d) = {} /\ ApprovedOn(d) # {} =>
                  \E p \in ApprovedOn(d) : Total(ApprovedOn(d)) < verdict[p].daily)
<1>1. DailyCapHolds =>
          \A d \in 0 .. MaxDay : NegativeOn(d) = {} /\ ApprovedOn(d) # {} =>
              \E p \in ApprovedOn(d) : Total(ApprovedOn(d)) < verdict[p].daily
  <2>1. \A d \in 0 .. MaxDay : NegativeOn(d) = {} =>
            ApprovedOn(d) \union NegativeOn(d) = ApprovedOn(d)
    OBVIOUS
  <2> QED
    BY <2>1 DEF DailyCapHolds
<1> QED
  BY <1>1, DailyCapAlwaysHolds, PTL

(***************************************************************************)
(* What an approval is worth.                                              *)
(***************************************************************************)

(* The amount that is approved is positive, no more than the plan asks for,   *)
(* and within the cap per plan that the decision went by.  It is the caller   *)
(* that then sends the plan in full.                                         *)
ApprovalBounded ==
    \A p \in Plans : verdict[p].approved =>
        /\ 0 < verdict[p].usd /\ verdict[p].usd <= plan[p].usd
        /\ verdict[p].usd <= verdict[p].per

(* A step that stores no plan under a verdict, and approves nothing.         *)
LEMMA BoundedStays ==
    ASSUME ApprovalBounded,
           \A p \in Plans : \/ ~verdict'[p].approved
                            \/ verdict'[p] = verdict[p] /\ plan'[p] = plan[p]
    PROVE  ApprovalBounded'
BY DEF ApprovalBounded

LEMMA ApprovalStaysBounded ==
    ASSUME TypeOK, ApprovalBounded, NEW a \in Plans, NEW usd \in Int,
           Answered(a, TRUE, usd), UNCHANGED plan,
           0 < usd, usd <= plan[a].usd, usd <= call[a].per
    PROVE  ApprovalBounded'
<1>1. \A q \in Plans \ {a} : verdict'[q] = verdict[q]
  BY DEF Answered, TypeOK
<1>2. verdict'[a].usd = usd /\ verdict'[a].per = call[a].per
  BY DEF Answered, TypeOK
<1> QED
  BY <1>1, <1>2 DEF ApprovalBounded

LEMMA DenialStaysBounded ==
    ASSUME TypeOK, ApprovalBounded, NEW a \in Plans, NEW usd, Answered(a, FALSE, usd), UNCHANGED plan
    PROVE  ApprovalBounded'
<1>1. \A q \in Plans \ {a} : verdict'[q] = verdict[q]
  BY DEF Answered, TypeOK
<1>2. ~verdict'[a].approved
  BY DEF Answered, TypeOK, NoVerdict
<1> QED
  BY <1>1, <1>2, BoundedStays

(* For any pool, wallet, policy and use of the day, the smallest limit wins.  *)
THEOREM ApprovalsAreBounded == Spec => []ApprovalBounded
<1>1. Init => ApprovalBounded
  BY DEF Init, NoVerdict, ApprovalBounded
<1>2. IInv /\ ApprovalBounded /\ [Next]_vars => ApprovalBounded'
  <2> SUFFICES ASSUME IInv, ApprovalBounded, [Next]_vars PROVE ApprovalBounded'
    OBVIOUS
  <2>1. CASE Seed \/ Update \/ Midnight \/ UNCHANGED vars
    BY <2>1, BoundedStays DEF Seed, Update, Midnight, vars
  <2>2. ASSUME NEW p \in Plans, Build(p) PROVE ApprovalBounded'
    <3>1. ~verdict[p].approved /\ UNCHANGED verdict
          /\ \A q \in Plans \ {p} : plan'[q] = plan[q]
      BY <2>2 DEF Build, IInv, TypeOK, StoredFirst
    <3> QED
      BY <3>1, BoundedStays
  <2>3. ASSUME NEW p \in Plans, ReadPolicy(p) PROVE ApprovalBounded'
    BY <2>3, DenialStaysBounded, BoundedStays DEF ReadPolicy, IInv
  <2>4. ASSUME NEW p \in Plans, ReadUsed(p) \/ Lost(p) PROVE ApprovalBounded'
    BY <2>4, BoundedStays DEF ReadUsed, Lost
  <2>5. ASSUME NEW p \in Plans, Decide(p) PROVE ApprovalBounded'
    <3>1. UNCHANGED plan
      BY <2>5 DEF Decide
    <3>2. ASSUME NEW room \in Rooms, Answered(p, TRUE, Allowed(p, room)),
                 Granted(Allowed(p, room))
          PROVE  ApprovalBounded'
      <4>1. PICK usd \in Int : /\ usd = Allowed(p, room) /\ 0 < usd
                               /\ usd <= plan[p].usd /\ usd <= call[p].per
        BY <3>2, ConstantsTyped, AllowedWithinLimits DEF IInv
      <4> QED
        BY <3>1, <3>2, <4>1, ApprovalStaysBounded DEF IInv
    <3>3. ASSUME NEW usd \in Int, Answered(p, FALSE, usd) PROVE ApprovalBounded'
      BY <3>1, <3>3, DenialStaysBounded DEF IInv
    <3> QED
      BY <2>5, <3>2, <3>3, DecideAnswers DEF IInv
  <2> QED
    BY <2>1, <2>2, <2>3, <2>4, <2>5 DEF Next
<1> QED
  BY <1>1, <1>2, InitCovers, InductiveStep, PTL DEF Spec
=============================================================================
