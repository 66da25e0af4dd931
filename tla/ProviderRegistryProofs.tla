------------------------ MODULE ProviderRegistryProofs ------------------------
(* Proofs about ProviderRegistry for any number of providers and concurrent   *)
(* calls, any threshold and any window of the failure rate.                   *)
EXTENDS ProviderRegistry, FiniteSetTheorems, FunctionTheorems, SequenceTheorems, TLAPS

(***************************************************************************)
(* Types.                                                                  *)
(***************************************************************************)

Ringed(s) == s \in Seq(BOOLEAN) /\ Len(s) <= Window

(* Recording an event keeps the ring within its window. *)
LEMMA RingType ==
    ASSUME NEW s, Ringed(s), NEW b \in BOOLEAN
    PROVE  /\ Ringed(Ring(Append(s, b)))
           /\ Len(s) < Window => Ring(Append(s, b)) = Append(s, b)
           /\ Len(s) = Window => Ring(Append(s, b)) = Tail(Append(s, b))
<1> DEFINE t == Append(s, b)
<1>1. s \in Seq(BOOLEAN) /\ Len(s) <= Window /\ Len(s) \in Nat /\ Window \in Nat
  BY RegistryAssumption DEF Ringed
<1>2. t \in Seq(BOOLEAN) /\ t # <<>> /\ Len(t) = Len(s) + 1
  BY <1>1, AppendProperties
<1>3. Tail(t) \in Seq(BOOLEAN) /\ Len(Tail(t)) = Len(s)
  BY <1>1, <1>2, HeadTailProperties
<1> HIDE DEF t
<1>4. Len(s) < Window => Ring(t) = t
  BY <1>1, <1>2 DEF Ring
<1>5. Len(s) = Window => Ring(t) = Tail(t)
  BY <1>1, <1>2 DEF Ring
<1>6. Ringed(Ring(t))
  <2>1. CASE Len(s) < Window
    BY <1>1, <1>2, <1>4, <2>1 DEF Ringed
  <2>2. CASE Len(s) = Window
    BY <1>1, <1>3, <1>5, <2>2 DEF Ringed
  <2> QED
    BY <1>1, <2>1, <2>2
<1> QED
  BY <1>4, <1>5, <1>6 DEF t

LEMMA InitType == Init => TypeOK
BY RegistryAssumption DEF Init, TypeOK, CallState, Idle

LEMMA NextType == TypeOK /\ [Next]_vars => TypeOK'
<1> SUFFICES ASSUME TypeOK, [Next]_vars PROVE TypeOK'
  OBVIOUS
<1>0. /\ call \in [Callers -> CallState]
      /\ \A p \in Providers : Ringed(events[p])
      /\ events \in [Providers -> Seq(BOOLEAN)]
  BY DEF TypeOK, Ringed
<1>1. ASSUME NEW k \in Callers, List(k) PROVE TypeOK'
  <2>1. call' \in [Callers -> CallState]
    <3>1. [Idle EXCEPT !.pc = "next", !.left = {p \in Providers : ~Open(p)}] \in CallState
      <4> DEFINE fit == {p \in Providers : ~Open(p)}
      <4>1. fit \subseteq Providers /\ 0 \in 0 .. MaxAttempts
        BY RegistryAssumption
      <4> HIDE DEF fit
      <4>2. Idle \in CallState
        BY <4>1 DEF Idle, CallState
      <4>3. [[Idle EXCEPT !.pc = "next"] EXCEPT !.left = fit] \in CallState
        BY <4>1, <4>2 DEF CallState
      <4> QED
        BY <4>3 DEF fit
    <3> QED
      BY <1>0, <1>1, <3>1 DEF List
  <2>2. \A c \in Callers : call'[c].pc = "flight" => call'[c].cur \in Providers
    <3>1. call'[k].pc = "next"
      BY <1>0, <1>1 DEF List, Idle
    <3>2. \A c \in Callers : c # k => call'[c] = call[c]
      BY <1>0, <1>1 DEF List
    <3> QED
      BY <3>1, <3>2 DEF TypeOK
  <2>3. status' \in [Providers -> {"HEALTHY", "DEGRADED", "TRIPPED"}]
    BY <1>1 DEF List, TypeOK
  <2>4. due' \in [Providers -> BOOLEAN]
    BY <1>1, Zenon DEF List, TypeOK
  <2>5. shut' \in [Callers -> SUBSET Providers]
    BY <1>1 DEF List, TypeOK
  <2> QED
    BY <1>1, <2>1, <2>2, <2>3, <2>4, <2>5 DEF List, TypeOK
<1>2. ASSUME NEW k \in Callers, NEW p \in Providers, Attempt(k, p) PROVE TypeOK'
  <2> DEFINE n == call[k].attempts + 1
             rest == call[k].left \ {p}
  <2>1. n \in 0 .. MaxAttempts /\ rest \subseteq Providers
    BY <1>0, <1>2, RegistryAssumption DEF Attempt, CallState
  <2>2. call' = [call EXCEPT ![k] = [pc |-> "flight", left |-> rest, cur |-> p, attempts |-> n]]
    BY <1>0, <1>2 DEF Attempt, CallState
  <2> HIDE DEF n, rest
  <2>3. call' \in [Callers -> CallState]
    BY <1>0, <2>1, <2>2 DEF CallState
  <2>4. \A c \in Callers : call'[c].pc = "flight" => call'[c].cur \in Providers
    BY <1>0, <2>2 DEF TypeOK
  <2> QED
    BY <1>2, <2>3, <2>4 DEF Attempt, TypeOK
<1>3. ASSUME NEW k \in Callers, Exhausted(k) \/ Cancelled(k) PROVE TypeOK'
  <2>1. /\ call' = [call EXCEPT ![k] = Idle] /\ shut' = [shut EXCEPT ![k] = {}]
        /\ UNCHANGED <<status, streak, events, due, lateOk>>
    BY <1>3 DEF Exhausted, Cancelled
  <2> QED
    BY <2>1, RegistryAssumption DEF TypeOK, CallState, Idle
<1>4. ASSUME NEW k \in Callers, Succeeds(k) PROVE TypeOK'
  <2>1. call[k].cur \in Providers
    BY <1>4 DEF Succeeds, TypeOK
  <2>2. PICK p \in Providers : p = call[k].cur
    BY <2>1
  <2>3. Ringed(Ring(Append(events[p], TRUE)))
    BY <1>0, RingType
  <2>4. events' = [events EXCEPT ![p] = Ring(Append(events[p], TRUE))]
    BY <1>4, <2>2 DEF Succeeds
  <2>5. events' \in [Providers -> Seq(BOOLEAN)] /\ \A q \in Providers : Len(events'[q]) <= Window
    BY <1>0, <2>3, <2>4 DEF Ringed
  <2>6. call' \in [Callers -> CallState]
    BY <1>0, <1>4, RegistryAssumption DEF Succeeds, CallState, Idle
  <2>7. \A c \in Callers : call'[c].pc = "flight" => call'[c].cur \in Providers
    BY <1>4 DEF Succeeds, TypeOK, Idle
  <2>8. status' \in [Providers -> {"HEALTHY", "DEGRADED", "TRIPPED"}]
    BY <1>4 DEF Succeeds, TypeOK
  <2>9. streak' \in [Providers -> 0 .. Threshold] /\ shut' \in [Callers -> SUBSET Providers]
    BY <1>4, RegistryAssumption DEF Succeeds, TypeOK
  <2> QED
    BY <1>4, <2>2, <2>5, <2>6, <2>7, <2>8, <2>9 DEF Succeeds, TypeOK
<1>5. ASSUME NEW k \in Callers, Fails(k) PROVE TypeOK'
  <2>1. call[k].cur \in Providers
    BY <1>5 DEF Fails, TypeOK
  <2>2. PICK p \in Providers : p = call[k].cur
    BY <2>1
  <2>3. Ringed(Ring(Append(events[p], FALSE)))
    BY <1>0, RingType
  <2>4. events' = [events EXCEPT ![p] = Ring(Append(events[p], FALSE))]
    BY <1>5, <2>2 DEF Fails
  <2>5. events' \in [Providers -> Seq(BOOLEAN)] /\ \A q \in Providers : Len(events'[q]) <= Window
    BY <1>0, <2>3, <2>4 DEF Ringed
  <2>6. call' \in [Callers -> CallState] /\ call'[k].pc = "next"
    BY <1>0, <1>5 DEF Fails, CallState
  <2>7. \A c \in Callers : c # k => call'[c] = call[c]
    BY <1>0, <1>5 DEF Fails
  <2>8. status' \in [Providers -> {"HEALTHY", "DEGRADED", "TRIPPED"}]
    BY <1>5 DEF Fails, TypeOK
  <2>9. streak' \in [Providers -> 0 .. Threshold]
    BY <1>5, <2>2, RegistryAssumption DEF Fails, TypeOK
  <2>10. shut' \in [Callers -> SUBSET Providers] /\ lateOk' \subseteq Providers
    BY <1>5 DEF Fails, TypeOK
  <2>11. due' \in [Providers -> BOOLEAN]
    BY <1>5, Zenon DEF Fails, TypeOK
  <2> QED
    BY <2>5, <2>6, <2>7, <2>8, <2>9, <2>10, <2>11 DEF TypeOK
<1>6. ASSUME NEW p \in Providers, PauseEnds(p) PROVE TypeOK'
  BY <1>6 DEF PauseEnds, TypeOK
<1>7. CASE UNCHANGED vars
  BY <1>7 DEF vars, TypeOK
<1> QED
  BY <1>1, <1>2, <1>3, <1>4, <1>5, <1>6, <1>7 DEF Next, Continue

(* In every reachable state each variable of the registry has its type.      *)
THEOREM TypeCorrect == Spec => []TypeOK
BY InitType, NextType, PTL DEF Spec


(***************************************************************************)
(* Probation.                                                              *)
(***************************************************************************)

FailedAt(s) == {i \in DOMAIN s : ~s[i]}

LEMMA FailedFinite ==
    ASSUME NEW s \in Seq(BOOLEAN)
    PROVE  /\ IsFiniteSet(FailedAt(s)) /\ Cardinality(FailedAt(s)) \in Nat
           /\ Failures(s) = Cardinality(FailedAt(s))
<1>1. Len(s) \in Nat /\ DOMAIN s = 1 .. Len(s)
  OBVIOUS
<1>2. IsFiniteSet(1 .. Len(s))
  BY <1>1, FS_Interval
<1>3. FailedAt(s) \subseteq 1 .. Len(s)
  BY <1>1 DEF FailedAt
<1>4. IsFiniteSet(FailedAt(s))
  BY <1>2, <1>3, FS_Subset
<1> QED
  BY <1>4, FS_CardinalityType DEF FailedAt, Failures

(* Recording a failure in a full ring drops an event and adds a failure: the  *)
(* ring holds no fewer failures than before.                                  *)
LEMMA FailuresKept ==
    ASSUME NEW s, Ringed(s), Len(s) = Window
    PROVE  /\ Failures(Ring(Append(s, FALSE))) >= Failures(s)
           /\ Len(Ring(Append(s, FALSE))) = Window
<1> DEFINE t == Tail(Append(s, FALSE))
           W == Len(s)
<1>1. s \in Seq(BOOLEAN) /\ W \in Nat \ {0} /\ DOMAIN s = 1 .. W
  BY RegistryAssumption DEF Ringed
<1> DEFINE u == Append(s, FALSE)
<1>2. /\ u \in Seq(BOOLEAN) /\ u # <<>>
      /\ Len(u) = W + 1
      /\ \A i \in 1 .. W : u[i] = s[i]
      /\ u[W + 1] = FALSE
  <2>1. ASSUME NEW b \in BOOLEAN
        PROVE  /\ Append(s, b) \in Seq(BOOLEAN) /\ Append(s, b) # <<>>
               /\ Len(Append(s, b)) = Len(s) + 1
               /\ \A i \in 1 .. Len(s) : Append(s, b)[i] = s[i]
               /\ Append(s, b)[Len(s) + 1] = b
    <3> HIDE DEF t, u, W
    <3>1. s \in Seq(BOOLEAN)
      BY <1>1
    <3>2. Append(s, b) \in Seq(BOOLEAN) /\ Append(s, b) # <<>>
      BY <3>1, AppendProperties
    <3>3. Len(Append(s, b)) = Len(s) + 1
      BY <3>1, AppendProperties
    <3>4. \A i \in 1 .. Len(s) : Append(s, b)[i] = s[i]
      BY <3>1
    <3>5. Append(s, b)[Len(s) + 1] = b
      BY <3>1
    <3> QED
      BY <3>2, <3>3, <3>4, <3>5
  <2> QED
    BY <2>1
<1> HIDE DEF u
<1>3. /\ t \in Seq(BOOLEAN) /\ Len(t) = W
      /\ \A i \in 1 .. W : t[i] = u[i + 1]
  <2>1. /\ Tail(u) \in Seq(BOOLEAN) /\ Len(Tail(u)) = Len(u) - 1
        /\ \A i \in 1 .. Len(Tail(u)) : Tail(u)[i] = u[i + 1]
    BY <1>2, HeadTailProperties, Zenon
  <2>2. Len(u) - 1 = W
    BY <1>1, <1>2
  <2>3. t = Tail(u)
    BY DEF u
  <2> QED
    BY <2>1, <2>2, <2>3, Zenon
<1>4. t[W] = FALSE /\ \A i \in 2 .. W : t[i - 1] = s[i]
  <2>1. t[W] = FALSE
    BY <1>1, <1>2, <1>3
  <2>2. ASSUME NEW i \in 2 .. W PROVE t[i - 1] = s[i]
    <3>1. i - 1 \in 1 .. W /\ (i - 1) + 1 = i /\ i \in 1 .. W
      BY <1>1
    <3> QED
      BY <1>2, <1>3, <3>1
  <2> QED
    BY <2>1, <2>2
<1> HIDE DEF t
<1>5. DOMAIN t = 1 .. W
  BY <1>3
<1> HIDE DEF W
<1> DEFINE A == FailedAt(s) \ {1}
           B == FailedAt(t) \ {W}
<1>6. W \in FailedAt(t)
  BY <1>1, <1>4, <1>5 DEF FailedAt
<1>7. [i \in A |-> i - 1] \in Injection(A, B)
  <2> DEFINE shift == [i \in A |-> i - 1]
  <2>1. ASSUME NEW i \in A PROVE i - 1 \in B
    <3>1. i \in 2 .. W /\ s[i] = FALSE
      BY <1>1 DEF FailedAt
    <3>2. t[i - 1] = FALSE /\ i - 1 \in 1 .. W /\ i - 1 # W
      BY <1>1, <1>4, <3>1
    <3> QED
      BY <1>5, <3>2 DEF FailedAt
  <2>2. \A i, j \in A : shift[i] = shift[j] => i = j
    BY <1>1 DEF FailedAt
  <2>3. shift \in [A -> B]
    BY <2>1
  <2> QED
    BY <2>2, <2>3, Fun_IsInj
<1>8. /\ IsFiniteSet(FailedAt(s)) /\ Cardinality(FailedAt(s)) \in Nat
      /\ IsFiniteSet(FailedAt(t)) /\ Cardinality(FailedAt(t)) \in Nat
      /\ Failures(s) = Cardinality(FailedAt(s)) /\ Failures(t) = Cardinality(FailedAt(t))
  BY <1>1, <1>3, FailedFinite
<1>9. /\ IsFiniteSet(B) /\ Cardinality(B) = Cardinality(FailedAt(t)) - 1
      /\ IsFiniteSet(A) /\ Cardinality(A) >= Cardinality(FailedAt(s)) - 1
      /\ Cardinality(A) \in Nat /\ Cardinality(B) \in Nat
  <2>1. IsFiniteSet(B) /\ Cardinality(B) = Cardinality(FailedAt(t)) - 1
    BY <1>6, <1>8, FS_RemoveElement
  <2>2. /\ IsFiniteSet(A)
        /\ Cardinality(A) = IF 1 \in FailedAt(s) THEN Cardinality(FailedAt(s)) - 1
                            ELSE Cardinality(FailedAt(s))
    BY <1>8, FS_RemoveElement
  <2>3. Cardinality(A) >= Cardinality(FailedAt(s)) - 1
    BY <1>8, <2>2
  <2>4. Cardinality(A) \in Nat /\ Cardinality(B) \in Nat
    BY <2>1, <2>2, FS_CardinalityType
  <2> QED
    BY <2>1, <2>2, <2>3, <2>4
<1>10. Cardinality(A) <= Cardinality(B)
  <2> HIDE DEF A, B
  <2> QED
    BY <1>7, <1>9, FS_Injection
<1>11. Failures(t) >= Failures(s)
  BY <1>8, <1>9, <1>10
<1>12. Ring(Append(s, FALSE)) = t
  BY RingType DEF t
<1> QED
  BY <1>3, <1>11, <1>12 DEF W

(* Once enough failures have tripped a breaker, another failure is enough.   *)
LEMMA TripsAgain ==
    ASSUME NEW s, Ringed(s), NEW n \in 0 .. Threshold, ShouldTrip(n, s)
    PROVE  ShouldTrip(IF n < Threshold THEN n + 1 ELSE Threshold, Ring(Append(s, FALSE)))
<1> DEFINE t == Ring(Append(s, FALSE))
<1>1. s \in Seq(BOOLEAN) /\ Len(s) \in Nat /\ Len(s) <= Window /\ Window \in Nat /\ Threshold \in Nat
  BY RegistryAssumption DEF Ringed
<1> DEFINE m == IF n < Threshold THEN n + 1 ELSE Threshold
<1>2. CASE n >= Threshold
  <2>1. m >= Threshold
    BY <1>1, <1>2
  <2> HIDE DEF m, t
  <2>2. ShouldTrip(m, t)
    BY <2>1 DEF ShouldTrip
  <2> QED
    BY <2>2 DEF m, t
<1>3. CASE Len(s) >= Window /\ 2 * Failures(s) >= Len(s)
  <2>1. Len(s) = Window
    BY <1>1, <1>3
  <2>2. Len(t) = Window /\ Failures(t) >= Failures(s)
    BY <2>1, FailuresKept
  <2>3. t \in Seq(BOOLEAN)
    BY RingType DEF Ringed
  <2>4. Failures(s) \in Nat /\ Failures(t) \in Nat
    BY <1>1, <2>3, FailedFinite
  <2> HIDE DEF t
  <2>5. Len(t) >= Window /\ 2 * Failures(t) >= Len(t)
    BY <1>1, <1>3, <2>1, <2>2, <2>4
  <2> QED
    BY <2>5 DEF ShouldTrip, t
<1> QED
  BY <1>2, <1>3 DEF ShouldTrip

(* A provider whose breaker has opened, and of which nothing has succeeded    *)
(* since, keeps a record that trips.                                          *)
OnProbation ==
    \A p \in Providers : p \notin lateOk => ShouldTrip(streak[p], events[p])

(* What a failed attempt does to its provider. *)
LEMMA FailsDoes ==
    ASSUME TypeOK, OnProbation, NEW k \in Callers, Fails(k)
    PROVE  LET p == call[k].cur
           IN  /\ p \in Providers
               /\ \A q \in Providers : q # p =>
                      /\ status'[q] = status[q]
                      /\ streak'[q] = streak[q] /\ events'[q] = events[q]
                      /\ q \notin lateOk' <=> q \notin lateOk
               /\ p \notin lateOk => status'[p] = "TRIPPED"
               /\ p \notin lateOk' => ShouldTrip(streak'[p], events'[p])
<1>1. call[k].cur \in Providers
  BY DEF Fails, TypeOK
<1>2. PICK p \in Providers : p = call[k].cur
  BY <1>1
<1> DEFINE t == Ring(Append(events[p], FALSE))
           n == IF streak[p] < Threshold THEN streak[p] + 1 ELSE Threshold
<1>3. p \notin lateOk => ShouldTrip(n, t)
  <2>1. Ringed(events[p]) /\ streak[p] \in 0 .. Threshold
    BY DEF TypeOK, Ringed
  <2> QED
    BY <2>1, TripsAgain DEF OnProbation
<1> HIDE DEF n, t
<1>4. /\ events' = [events EXCEPT ![p] = t]
      /\ streak' = [streak EXCEPT ![p] = n]
      /\ status' = [status EXCEPT ![p] = IF ShouldTrip(n, t) THEN "TRIPPED" ELSE "DEGRADED"]
      /\ lateOk' = IF ShouldTrip(n, t) /\ status[p] # "TRIPPED" THEN lateOk \ {p} ELSE lateOk
  BY <1>2 DEF Fails, n, t
<1>5. status'[p] = IF ShouldTrip(n, t) THEN "TRIPPED" ELSE "DEGRADED"
  BY <1>4 DEF TypeOK
<1>6. streak'[p] = n /\ events'[p] = t
  BY <1>4 DEF TypeOK
<1>7. \A q \in Providers : q # p =>
          status'[q] = status[q] /\ streak'[q] = streak[q] /\ events'[q] = events[q]
  BY <1>4 DEF TypeOK
<1>8. \A q \in Providers : q # p => (q \notin lateOk' <=> q \notin lateOk)
  BY <1>4
<1>9. p \notin lateOk' => ShouldTrip(n, t)
  BY <1>3, <1>4
<1>10. p \notin lateOk => status'[p] = "TRIPPED"
  BY <1>3, <1>5
<1> QED
  BY <1>1, <1>2, <1>6, <1>7, <1>8, <1>9, <1>10

LEMMA NextProbation == TypeOK /\ OnProbation /\ [Next]_vars => OnProbation'
<1> SUFFICES ASSUME TypeOK, OnProbation, [Next]_vars PROVE OnProbation'
  OBVIOUS
<1>1. ASSUME NEW k \in Callers, List(k) PROVE OnProbation'
  BY <1>1 DEF List, OnProbation
<1>2. ASSUME NEW k \in Callers, NEW p \in Providers, Attempt(k, p) PROVE OnProbation'
  BY <1>2 DEF Attempt, OnProbation
<1>3. ASSUME NEW k \in Callers, Exhausted(k) \/ Cancelled(k) PROVE OnProbation'
  BY <1>3 DEF Exhausted, Cancelled, OnProbation
<1>4. ASSUME NEW k \in Callers, Succeeds(k) PROVE OnProbation'
  <2> SUFFICES ASSUME NEW q \in Providers, q \notin lateOk'
               PROVE  ShouldTrip(streak'[q], events'[q])
    BY DEF OnProbation
  <2>1. q # call[k].cur /\ q \notin lateOk
    BY <1>4 DEF Succeeds
  <2>2. streak'[q] = streak[q] /\ events'[q] = events[q]
    BY <1>4, <2>1 DEF Succeeds, TypeOK
  <2> QED
    BY <2>1, <2>2 DEF OnProbation
<1>5. ASSUME NEW k \in Callers, Fails(k) PROVE OnProbation'
  <2> SUFFICES ASSUME NEW q \in Providers, q \notin lateOk'
               PROVE  ShouldTrip(streak'[q], events'[q])
    BY DEF OnProbation
  <2>1. CASE q = call[k].cur
    BY <1>5, <2>1, FailsDoes
  <2>2. CASE q # call[k].cur
    <3>1. streak'[q] = streak[q] /\ events'[q] = events[q] /\ q \notin lateOk
      BY <1>5, <2>2, FailsDoes
    <3> QED
      BY <3>1 DEF OnProbation
  <2> QED
    BY <2>1, <2>2
<1>6. ASSUME NEW p \in Providers, PauseEnds(p) PROVE OnProbation'
  BY <1>6 DEF PauseEnds, OnProbation
<1>7. CASE UNCHANGED vars
  BY <1>7 DEF vars, OnProbation
<1> QED
  BY <1>1, <1>2, <1>3, <1>4, <1>5, <1>6, <1>7 DEF Next, Continue

(***************************************************************************)
(* Lists of candidates.                                                    *)
(***************************************************************************)

(* The candidates left to a call, and the one in flight, are none of those    *)
(* shut since before it began.                                                *)
ListedIsNotShut ==
    \A k \in Callers :
        /\ call[k].left \intersect shut[k] = {}
        /\ call[k].cur \notin shut[k]

LEMMA NextListed == TypeOK /\ ListedIsNotShut /\ [Next]_vars => ListedIsNotShut'
<1> SUFFICES ASSUME TypeOK, ListedIsNotShut, [Next]_vars PROVE ListedIsNotShut'
  OBVIOUS
<1>0. call \in [Callers -> CallState] /\ shut \in [Callers -> SUBSET Providers]
  BY DEF TypeOK
<1>1. ASSUME NEW k \in Callers, List(k) PROVE ListedIsNotShut'
  <2>1. \A c \in Callers : c # k => call'[c] = call[c] /\ shut'[c] = shut[c]
    BY <1>0, <1>1 DEF List
  <2>2. shut'[k] = {p \in Providers : Open(p)}
    BY <1>0, <1>1 DEF List
  <2>3. call'[k].left = {p \in Providers : ~Open(p)} /\ call'[k].cur = NoProvider
    BY <1>0, <1>1 DEF List, Idle
  <2>4. call'[k].left \intersect shut'[k] = {} /\ call'[k].cur \notin shut'[k]
    BY <2>2, <2>3, RegistryAssumption
  <2> QED
    BY <2>1, <2>4 DEF ListedIsNotShut
<1>2. ASSUME NEW k \in Callers, NEW p \in Providers, Attempt(k, p) PROVE ListedIsNotShut'
  <2>1. \A c \in Callers : c # k => call'[c] = call[c]
    BY <1>0, <1>2 DEF Attempt
  <2>2. call'[k].left = call[k].left \ {p} /\ call'[k].cur = p
    BY <1>0, <1>2 DEF Attempt, CallState
  <2>3. shut' = shut /\ p \in call[k].left
    BY <1>2 DEF Attempt
  <2> QED
    BY <2>1, <2>2, <2>3 DEF ListedIsNotShut
<1>3. ASSUME NEW k \in Callers, Exhausted(k) \/ Cancelled(k) PROVE ListedIsNotShut'
  BY <1>0, <1>3 DEF Exhausted, Cancelled, ListedIsNotShut, Idle
<1>4. ASSUME NEW k \in Callers, Succeeds(k) PROVE ListedIsNotShut'
  BY <1>0, <1>4 DEF Succeeds, ListedIsNotShut, Idle
<1>5. ASSUME NEW k \in Callers, Fails(k) PROVE ListedIsNotShut'
  <2>1. \A c \in Callers : shut'[c] \subseteq shut[c]
    BY <1>0, <1>5 DEF Fails
  <2>2. \A c \in Callers : call'[c].left = call[c].left
    BY <1>0, <1>5 DEF Fails, CallState
  <2>3. call'[k].cur = NoProvider /\ \A c \in Callers : c # k => call'[c] = call[c]
    BY <1>0, <1>5 DEF Fails, CallState
  <2>4. NoProvider \notin shut[k]
    BY <1>0, RegistryAssumption
  <2> QED
    BY <2>1, <2>2, <2>3, <2>4 DEF ListedIsNotShut
<1>6. ASSUME NEW p \in Providers, PauseEnds(p) PROVE ListedIsNotShut'
  BY <1>0, <1>6 DEF PauseEnds, ListedIsNotShut
<1>7. CASE UNCHANGED vars
  BY <1>7 DEF vars, ListedIsNotShut
<1> QED
  BY <1>1, <1>2, <1>3, <1>4, <1>5, <1>6, <1>7 DEF Next, Continue

(***************************************************************************)
(* The properties.                                                         *)
(***************************************************************************)

IInv == TypeOK /\ OnProbation /\ ListedIsNotShut

LEMMA Invariant == Spec => []IInv
<1>1. Init => IInv
  <2> SUFFICES ASSUME Init PROVE IInv
    OBVIOUS
  <2>1. OnProbation
    BY DEF Init, OnProbation
  <2>2. ListedIsNotShut
    BY DEF Init, ListedIsNotShut, Idle
  <2> QED
    BY <2>1, <2>2, InitType DEF IInv
<1>2. IInv /\ [Next]_vars => IInv'
  BY NextType, NextProbation, NextListed DEF IInv
<1> QED
  BY <1>1, <1>2, PTL DEF Spec

(* No call uses a provider whose breaker has been open since before it began. *)
THEOREM OpenProvidersSkipped == Spec => []OpenIsSkipped
<1>1. IInv => OpenIsSkipped
  BY DEF IInv, ListedIsNotShut, OpenIsSkipped
<1> QED
  BY Invariant, <1>1, PTL

(* A provider back from its pause, with no success since, is tripped by its   *)
(* first failure, however the streak and the rate had tripped it.             *)
THEOREM ProbationHolds == Spec => ProbationTrips
<1>1. IInv /\ [Next]_vars =>
      [\A p \in Providers : FailsOn(p) /\ p \notin lateOk => status'[p] = "TRIPPED"]_vars
  <2> SUFFICES ASSUME IInv, [Next]_vars, NEW p \in Providers, p \notin lateOk,
                      NEW c \in Callers,
                      call[c].pc = "flight", call[c].cur = p, call'[c].pc = "next"
               PROVE  status'[p] = "TRIPPED"
    BY DEF FailsOn
  <2>0. TypeOK /\ OnProbation /\ call \in [Callers -> CallState]
    BY DEF IInv, TypeOK
  <2>1. CASE Fails(c)
    BY <2>0, <2>1, FailsDoes
  <2>2. CASE call'[c] = call[c]
    BY <2>2
  <2>3. ASSUME NEW k \in Callers, k # c, List(k) \/ Continue(k) \/ Cancelled(k) PROVE call'[c] = call[c]
    BY <2>0, <2>3 DEF List, Continue, Cancelled, Attempt, Exhausted, Succeeds, Fails
  <2>4. CASE List(c) \/ Continue(c) \/ Cancelled(c)
    <3>1. CASE Succeeds(c)
      BY <2>0, <3>1 DEF Succeeds, Idle
    <3>2. CASE Cancelled(c)
      BY <2>0, <3>2 DEF Cancelled, Idle
    <3>3. ~List(c) /\ ~Exhausted(c) /\ \A q \in Providers : ~Attempt(c, q)
      BY DEF List, Exhausted, Attempt
    <3> QED
      BY <2>1, <2>4, <3>1, <3>2, <3>3 DEF Continue
  <2>5. ASSUME NEW q \in Providers, PauseEnds(q) PROVE call' = call
    BY <2>5 DEF PauseEnds
  <2> QED
    BY <2>2, <2>3, <2>4, <2>5 DEF Next, vars
<1> QED
  BY Invariant, <1>1, PTL DEF Spec, ProbationTrips

(* An open breaker with no late success stays open until its pause is over.  *)
THEOREM OpenKeepsItsPause == Spec => OpenForItsPause
<1>1. IInv /\ [Next]_vars =>
      [\A p \in Providers : Open(p) /\ status'[p] # "TRIPPED" => p \in lateOk]_vars
  <2> SUFFICES ASSUME IInv, [Next]_vars, NEW p \in Providers,
                      status[p] = "TRIPPED", ~due[p], p \notin lateOk
               PROVE  status'[p] = "TRIPPED"
    BY DEF Open
  <2>0. TypeOK /\ OnProbation
    BY DEF IInv
  <2>1. ASSUME NEW k \in Callers, List(k) PROVE status'[p] = "TRIPPED"
    BY <2>1 DEF List
  <2>2. ASSUME NEW k \in Callers, NEW q \in Providers, Attempt(k, q) PROVE status'[p] = "TRIPPED"
    BY <2>2 DEF Attempt
  <2>3. ASSUME NEW k \in Callers, Exhausted(k) \/ Cancelled(k) PROVE status'[p] = "TRIPPED"
    BY <2>3 DEF Exhausted, Cancelled
  <2>4. ASSUME NEW k \in Callers, Succeeds(k) PROVE status'[p] = "TRIPPED"
    BY <2>0, <2>4 DEF Succeeds, TypeOK
  <2>5. ASSUME NEW k \in Callers, Fails(k) PROVE status'[p] = "TRIPPED"
    <3>1. CASE p = call[k].cur
      BY <2>0, <2>5, <3>1, FailsDoes
    <3>2. CASE p # call[k].cur
      <4>1. status'[p] = status[p]
        BY <2>0, <2>5, <3>2, FailsDoes
      <4> QED
        BY <4>1
    <3> QED
      BY <3>1, <3>2
  <2>6. ASSUME NEW q \in Providers, PauseEnds(q) PROVE status'[p] = "TRIPPED"
    BY <2>6 DEF PauseEnds
  <2>7. CASE UNCHANGED vars
    BY <2>7 DEF vars
  <2> QED
    BY <2>1, <2>2, <2>3, <2>4, <2>5, <2>6, <2>7 DEF Next, Continue
<1> QED
  BY Invariant, <1>1, PTL DEF Spec, OpenForItsPause
=============================================================================
