--------------------------- MODULE BroadcastProofs ---------------------------
(* Proofs about Broadcast, for any number of requests, plans and claims.       *)
EXTENDS Broadcast, TLAPS

(***************************************************************************)
(* The inductive invariant.                                                *)
(***************************************************************************)

(* What was sent is still claimed, so that a second send would be refused.   *)
SentIsClaimed == \A f \in Fingerprints : sends[f] = 0 \/ (sends[f] = 1 /\ f \in claims)

PastKill == {"mode", "policy", "nonce", "call", "revalidate", "sending", "answered"}
PastMode == PastKill \ {"mode"}

(* What the history of a request in state s says of the switch and of the     *)
(* mode now, and of the gates that it has passed.                             *)
Consistent(s, off, on) ==
    /\ s.pc # "idle" /\ off => s.sawOff
    /\ s.pc \in PastKill /\ s.passed => s.sawOff
    /\ s.pc # "idle" /\ on => s.sawLive
    /\ s.pc \in PastMode /\ s.passed => s.sawLive
    /\ s.pc \in {"sending", "answered"} => s.passed /\ s.confirm
Witnessed == \A r \in Requests : Consistent(req[r], ~engaged, live)

IInv == TypeOK /\ SentIsClaimed /\ Witnessed

(* The state of a request that is not running.                               *)
LEMMA IdleTyped == Idle \in RequestState /\ Idle.pc = "idle"
BY DEF Idle, RequestState

(* Type correctness is inductive by itself.                                  *)
LEMMA TypeInit == Init => TypeOK
<1> SUFFICES ASSUME Init PROVE TypeOK
  OBVIOUS
<1>1. req \in [Requests -> RequestState] /\ \A r \in Requests : ~Active(r)
  BY IdleTyped DEF Init, Active
<1> QED
  BY <1>1 DEF Init, TypeOK

(* A gate keeps the type, whatever its verdict.                              *)
LEMMA GateType ==
    ASSUME TypeOK, NEW r \in Requests, NEW here, NEW ok \in BOOLEAN,
           NEW next \in {"mode", "policy", "revalidate"}, here # "idle",
           Gate(r, here, ok, next)
    PROVE  TypeOK'
<1>1. (req[r].passed /\ ok) \in BOOLEAN
  OBVIOUS
<1>2. req'[r] \in RequestState /\ req'[r].plan \in Plans
  BY <1>1 DEF Gate, TypeOK, RequestState, Active
<1>3. \A q \in Requests \ {r} : req'[q] = req[q]
  BY DEF Gate, TypeOK
<1>4. DOMAIN req' = Requests /\ req' = [q \in Requests |-> req'[q]]
  BY DEF Gate, TypeOK
<1>5. req' \in [Requests -> RequestState]
  BY <1>2, <1>3, <1>4 DEF TypeOK
<1> QED
  BY <1>2, <1>3, <1>5 DEF Gate, TypeOK, Active

LEMMA TypeStep == TypeOK /\ [Next]_vars => TypeOK'
<1> SUFFICES ASSUME TypeOK, [Next]_vars PROVE TypeOK'
  OBVIOUS
<1> USE FingerprintsOfPlans, NoPlanIsNone, IdleTyped DEF TypeOK, Active, Finish
<1>1. CASE Engage
  BY <1>1 DEF Engage
<1>2. CASE Disengage
  BY <1>2 DEF Disengage, RequestState
<1>3. CASE Promote
  BY <1>3 DEF Promote, RequestState
<1>4. CASE Rollback
  BY <1>4 DEF Rollback
<1>5. ASSUME NEW r \in Requests, NEW p \in Plans, NEW confirm \in BOOLEAN, Start(r, p, confirm)
      PROVE TypeOK'
  BY <1>5 DEF Start, RequestState
<1>6. ASSUME NEW r \in Requests, KillGate(r) PROVE TypeOK'
  BY <1>6, GateType DEF KillGate
<1>7. ASSUME NEW r \in Requests, ModeGate(r) PROVE TypeOK'
  <2>1. PICK ok \in {live, FALSE} : Gate(r, "mode", ok, "policy")
    BY <1>7 DEF ModeGate
  <2>2. ok \in BOOLEAN
    OBVIOUS
  <2> QED
    BY <2>1, <2>2, GateType
<1>8. ASSUME NEW r \in Requests, PolicyGates(r) PROVE TypeOK'
  BY <1>8 DEF PolicyGates, RequestState
<1>9. ASSUME NEW r \in Requests, Abort(r) PROVE TypeOK'
  BY <1>9 DEF Abort
<1>10. ASSUME NEW r \in Requests, ReadNonce(r) PROVE TypeOK'
  BY <1>10 DEF ReadNonce, RequestState
<1>11. ASSUME NEW r \in Requests, EthCall(r) PROVE TypeOK'
  BY <1>11, GateType DEF EthCall
<1>12. ASSUME NEW r \in Requests, RevalidateDenies(r) PROVE TypeOK'
  BY <1>12 DEF RevalidateDenies
<1>13. ASSUME NEW r \in Requests, RevalidateHolds(r) PROVE TypeOK'
  <2>1. FingerprintOf[req[r].plan] \in Fingerprints
    BY <1>13 DEF RevalidateHolds
  <2> QED
    BY <1>13, <2>1 DEF RevalidateHolds, Claim, Fp
<1>14. ASSUME NEW r \in Requests, RevalidateSends(r) PROVE TypeOK'
  <2>1. FingerprintOf[req[r].plan] \in Fingerprints
    BY <1>14 DEF RevalidateSends
  <2> QED
    BY <1>14, <2>1 DEF RevalidateSends, Claim, Fp, RequestState
<1>15. ASSUME NEW r \in Requests, Answered(r) PROVE TypeOK'
  BY <1>15 DEF Answered
<1>16. ASSUME NEW r \in Requests, Timeout(r) PROVE TypeOK'
  BY <1>16 DEF Timeout, RequestState
<1>17. ASSUME NEW r \in Requests, NodeTakes(r) PROVE TypeOK'
  BY <1>17 DEF NodeTakes, RequestState
<1>18. ASSUME NEW n \in late, LateArrival(n) PROVE TypeOK'
  BY <1>18 DEF LateArrival
<1>19. ASSUME NEW n \in late, LateLoss(n) PROVE TypeOK'
  BY <1>19 DEF LateLoss
<1>20. ASSUME NEW f \in Fingerprints, ClaimExpires(f) PROVE TypeOK'
  BY <1>20 DEF ClaimExpires
<1>21. CASE Restart
  BY <1>21 DEF Restart, RequestState
<1>22. CASE UNCHANGED vars
  BY <1>22 DEF vars
<1> HIDE DEF TypeOK
<1> QED
  BY <1>1, <1>2, <1>3, <1>4, <1>5, <1>6, <1>7, <1>8, <1>9, <1>10, <1>11, <1>12, <1>13,
     <1>14, <1>15, <1>16, <1>17, <1>18, <1>19, <1>20, <1>21, <1>22
     DEF Next, Step, Environment

(***************************************************************************)
(* Claims and sends.                                                       *)
(***************************************************************************)

(* Every step takes the sent-is-claimed invariant along, and is a step of the *)
(* claim registry.                                                            *)
LEMMA ClaimStep ==
    ASSUME TypeOK, SentIsClaimed, [Next]_vars
    PROVE  SentIsClaimed' /\ [Registry!Next]_<<claims, sends>>
<1> USE DEF TypeOK, SentIsClaimed, Active
<1>1. ASSUME NEW r \in Requests, req[r].pc = "revalidate", ~Duplicate(r), Claim(r),
             NEW n \in {0, 1}, sends' = [sends EXCEPT ![Fp(r)] = n]
      PROVE  SentIsClaimed' /\ Registry!Next
  <2>1. Fp(r) \in Fingerprints /\ Fp(r) \notin claims
    BY <1>1, FingerprintsOfPlans DEF Fp, Duplicate
  <2>2. Registry!Take(Fp(r), n)
    BY <1>1, <2>1 DEF Registry!Take, Claim
  <2>3. SentIsClaimed'
    BY <1>1, <2>1 DEF Claim
  <2> QED
    BY <2>1, <2>2, <2>3 DEF Registry!Next
<1>2. ASSUME NEW r \in Requests, RevalidateHolds(r)
      PROVE  SentIsClaimed' /\ Registry!Next
  <2>1. Fp(r) \in Fingerprints /\ Fp(r) \notin claims
    BY <1>2, FingerprintsOfPlans DEF RevalidateHolds, Validated, Fp, Duplicate
  <2>2. sends[Fp(r)] = 0
    BY <2>1
  <2>3. sends' = [sends EXCEPT ![Fp(r)] = 0]
    BY <1>2, <2>1, <2>2 DEF RevalidateHolds
  <2> QED
    BY <1>1, <1>2, <2>3 DEF RevalidateHolds, Validated
<1>3. ASSUME NEW r \in Requests, RevalidateSends(r)
      PROVE  SentIsClaimed' /\ Registry!Next
  <2>1. Fp(r) \in Fingerprints /\ Fp(r) \notin claims
    BY <1>3, FingerprintsOfPlans DEF RevalidateSends, Validated, Fp, Duplicate
  <2>2. sends[Fp(r)] = 0
    BY <2>1
  <2>3. sends' = [sends EXCEPT ![Fp(r)] = 1]
    BY <1>3, <2>1, <2>2 DEF RevalidateSends
  <2> QED
    BY <1>1, <1>3, <2>3 DEF RevalidateSends, Validated
<1>4. ASSUME NEW f \in Fingerprints, ClaimExpires(f)
      PROVE  SentIsClaimed' /\ Registry!Next
  <2>1. Registry!Release({f})
    BY <1>4 DEF ClaimExpires, Registry!Release
  <2> QED
    BY <1>4, <2>1 DEF ClaimExpires, Registry!Next
<1>5. ASSUME Restart PROVE SentIsClaimed' /\ Registry!Next
  <2>1. Registry!Release(Fingerprints)
    BY <1>5 DEF Restart, Registry!Release
  <2> QED
    BY <1>5, <2>1 DEF Restart, Registry!Next
<1>6. ASSUME UNCHANGED <<claims, sends>>
      PROVE  SentIsClaimed' /\ [Registry!Next]_<<claims, sends>>
  BY <1>6
<1> QED
  BY <1>2, <1>3, <1>4, <1>5, <1>6
     DEF Next, Step, Environment, vars, Engage, Disengage, Promote, Rollback, Start, KillGate,
         ModeGate, Gate, PolicyGates, Abort, ReadNonce, EthCall, RevalidateDenies, Answered,
         Timeout, NodeTakes, LateArrival, LateLoss

(***************************************************************************)
(* What the gates have seen.                                               *)
(***************************************************************************)

(* One request moves while the switch and the mode stay.                     *)
LEMMA MoveStep ==
    ASSUME TypeOK, Witnessed, UNCHANGED <<engaged, live>>, NEW r \in Requests, NEW s,
           req' = [req EXCEPT ![r] = s], Consistent(s, ~engaged, live)
    PROVE  Witnessed'
<1> SUFFICES ASSUME NEW q \in Requests PROVE Consistent(req'[q], ~engaged, live)
  BY DEF Witnessed
<1>1. CASE q = r
  BY <1>1 DEF TypeOK
<1>2. CASE q # r
  BY <1>2 DEF TypeOK, Witnessed
<1> QED
  BY <1>1, <1>2

LEMMA FinishStep ==
    ASSUME TypeOK, Witnessed, UNCHANGED <<engaged, live>>, NEW r \in Requests, Finish(r)
    PROVE  Witnessed'
<1>1. Consistent(Idle, ~engaged, live)
  BY IdleTyped DEF Consistent, PastKill, PastMode
<1> QED
  BY <1>1, MoveStep DEF Finish

(* A gate whose verdict is witnessed by the history.                         *)
LEMMA GateStep ==
    ASSUME TypeOK, Witnessed, NEW r \in Requests, NEW here, NEW ok \in BOOLEAN, NEW next,
           Gate(r, here, ok, next), here # "idle",
           \/ here = "kill" /\ next = "mode" /\ ok = ~engaged
           \/ here = "mode" /\ next = "policy" /\ (ok => live)
           \/ here = "call" /\ next = "revalidate"
    PROVE  Witnessed'
<1> DEFINE s == [req[r] EXCEPT !.pc = next, !.passed = @ /\ ok]
<1>1. /\ req[r] \in RequestState
      /\ Consistent(req[r], ~engaged, live)
  BY DEF TypeOK, Witnessed
<1>2. /\ s.pc = next /\ s.passed = (req[r].passed /\ ok)
      /\ s.sawOff = req[r].sawOff /\ s.sawLive = req[r].sawLive
  BY <1>1 DEF RequestState
<1>3. Consistent(s, ~engaged, live)
  BY <1>1, <1>2 DEF Gate, Consistent, PastKill, PastMode
<1>4. req' = [req EXCEPT ![r] = s]
  BY DEF Gate, TypeOK
<1> QED
  BY <1>3, <1>4, MoveStep DEF Gate

(* Every step keeps what the gates have seen.                                *)
LEMMA WitnessStep ==
    ASSUME TypeOK, Witnessed, [Next]_vars
    PROVE  Witnessed'
<1>1. ASSUME NEW r \in Requests, NEW p \in Plans, NEW confirm \in BOOLEAN, Start(r, p, confirm)
      PROVE  Witnessed'
  <2> DEFINE s == [pc |-> "kill", plan |-> p, confirm |-> confirm, passed |-> TRUE, nonce |-> 0,
                   sawOff |-> ~engaged, sawLive |-> live]
  <2>1. Consistent(s, ~engaged, live)
    BY DEF Consistent, PastKill, PastMode
  <2> QED
    BY <1>1, <2>1, MoveStep DEF Start
<1>2. ASSUME NEW r \in Requests, KillGate(r) PROVE Witnessed'
  BY <1>2, GateStep DEF KillGate
<1>3. ASSUME NEW r \in Requests, ModeGate(r) PROVE Witnessed'
  <2>1. PICK ok \in {live, FALSE} : Gate(r, "mode", ok, "policy")
    BY <1>3 DEF ModeGate
  <2>2. CASE ok = FALSE
    BY <2>1, <2>2, GateStep
  <2>3. CASE ok = live
    <3>1. Gate(r, "mode", live, "policy") /\ live \in BOOLEAN
      BY <2>1, <2>3 DEF TypeOK
    <3> QED
      BY <3>1, GateStep
  <2> QED
    BY <2>2, <2>3
<1>4. ASSUME NEW r \in Requests, EthCall(r) PROVE Witnessed'
  BY <1>4, GateStep DEF EthCall
<1>5. ASSUME NEW r \in Requests,
             \/ Abort(r) \/ RevalidateDenies(r) \/ RevalidateHolds(r) \/ Answered(r) \/ Timeout(r)
      PROVE  Witnessed'
  BY <1>5, FinishStep DEF Abort, RevalidateDenies, RevalidateHolds, Answered, Timeout
<1> USE DEF Consistent, PastKill, PastMode
<1>6. ASSUME NEW r \in Requests, PolicyGates(r) PROVE Witnessed'
  <2>1. CASE Finish(r)
    BY <1>6, <2>1, FinishStep DEF PolicyGates
  <2>2. CASE req' = [req EXCEPT ![r].pc = "nonce"] /\ req[r].passed
    <3> DEFINE s == [req[r] EXCEPT !.pc = "nonce"]
    <3>1. /\ req[r] \in RequestState /\ Consistent(req[r], ~engaged, live)
          /\ req[r].pc = "policy" /\ req[r].passed
      BY <1>6, <2>2 DEF PolicyGates, TypeOK, Witnessed
    <3>2. Consistent(s, ~engaged, live)
      BY <3>1 DEF RequestState
    <3>3. req' = [req EXCEPT ![r] = s]
      BY <2>2 DEF TypeOK
    <3> QED
      BY <1>6, <3>2, <3>3, MoveStep DEF PolicyGates
  <2> QED
    BY <1>6, <2>1, <2>2 DEF PolicyGates
<1>7. ASSUME NEW r \in Requests, ReadNonce(r) PROVE Witnessed'
  <2> DEFINE read(n) == [req[r] EXCEPT !.pc = "call", !.nonce = n]
             failed == [req[r] EXCEPT !.pc = "revalidate", !.passed = FALSE]
  <2>1. UNCHANGED <<engaged, live>>
    BY <1>7 DEF ReadNonce
  <2>2. (\E n \in {pending, 0} : req' = [req EXCEPT ![r] = read(n)])
           \/ req' = [req EXCEPT ![r] = failed]
    BY <1>7 DEF ReadNonce
  <2>3. CASE req' = [req EXCEPT ![r] = failed]
    <3>1. Consistent(failed, ~engaged, live)
      BY <1>7 DEF ReadNonce, TypeOK, RequestState, Witnessed
    <3> QED
      BY <2>1, <2>3, <3>1, MoveStep
  <2>4. ASSUME NEW n \in {pending, 0}, req' = [req EXCEPT ![r] = read(n)] PROVE Witnessed'
    <3>1. Consistent(read(n), ~engaged, live)
      BY <1>7 DEF ReadNonce, TypeOK, RequestState, Witnessed
    <3> QED
      BY <2>1, <2>4, <3>1, MoveStep
  <2> QED
    BY <2>2, <2>3, <2>4
<1>8. ASSUME NEW r \in Requests, RevalidateSends(r) PROVE Witnessed'
  <2> DEFINE s == [req[r] EXCEPT !.pc = "sending"]
  <2>1. Consistent(s, ~engaged, live)
    BY <1>8 DEF RevalidateSends, MaySend, TypeOK, RequestState, Witnessed
  <2>2. req' = [req EXCEPT ![r] = s]
    BY <1>8 DEF RevalidateSends, TypeOK
  <2> QED
    BY <1>8, <2>1, <2>2, MoveStep DEF RevalidateSends
<1>9. ASSUME NEW r \in Requests, NodeTakes(r) PROVE Witnessed'
  <2> DEFINE s == [req[r] EXCEPT !.pc = "answered"]
  <2>1. Consistent(s, ~engaged, live)
    BY <1>9 DEF NodeTakes, TypeOK, RequestState, Witnessed
  <2>2. req' = [req EXCEPT ![r] = s]
    BY <1>9 DEF NodeTakes, TypeOK
  <2> QED
    BY <1>9, <2>1, <2>2, MoveStep DEF NodeTakes
<1>10. CASE Engage
  BY <1>10 DEF Engage, Witnessed
<1>11. CASE Disengage
  BY <1>11 DEF Disengage, Active, TypeOK, RequestState, Witnessed
<1>12. CASE Promote
  BY <1>12 DEF Promote, Active, TypeOK, RequestState, Witnessed
<1>13. CASE Rollback
  BY <1>13 DEF Rollback, Witnessed
<1>14. CASE Restart
  BY <1>14, IdleTyped DEF Restart, Witnessed
<1>15. ASSUME UNCHANGED <<engaged, live, req>> PROVE Witnessed'
  BY <1>15 DEF Witnessed
<1> QED
  BY <1>1, <1>2, <1>3, <1>4, <1>5, <1>6, <1>7, <1>8, <1>9, <1>10, <1>11, <1>12, <1>13, <1>14, <1>15
     DEF Next, Step, Environment, vars, LateArrival, LateLoss, ClaimExpires

(***************************************************************************)
(* The theorems.                                                           *)
(***************************************************************************)

LEMMA IInvInit == Init => IInv
<1> SUFFICES ASSUME Init PROVE IInv
  OBVIOUS
<1>1. \A r \in Requests : req[r].pc = "idle"
  BY IdleTyped DEF Init
<1>2. SentIsClaimed
  BY DEF Init, SentIsClaimed
<1> QED
  BY <1>1, <1>2, TypeInit DEF IInv, Witnessed, Consistent, PastKill, PastMode

LEMMA IInvStep == IInv /\ [Next]_vars => IInv'
BY TypeStep, ClaimStep, WitnessStep DEF IInv

LEMMA IInvAlways == Spec => []IInv
BY IInvInit, IInvStep, PTL DEF Spec

(* Type correctness of the broadcaster, broadcast.py and its guards.         *)
THEOREM TypeCorrect == Spec => []TypeOK
<1>1. IInv => TypeOK
  BY DEF IInv
<1> QED
  BY <1>1, IInvAlways, PTL

(* At most one transaction is sent under a claim, for any number of           *)
(* concurrent requests and plans (SeenOpportunityGuard.record).               *)
THEOREM OneSendPerClaim == Spec => []AtMostOneSendPerClaim
<1>1. IInv => AtMostOneSendPerClaim
  BY DEF IInv, TypeOK, SentIsClaimed, AtMostOneSendPerClaim
<1> QED
  BY <1>1, IInvAlways, PTL

(* A request that sends was confirmed and has seen the switch off and the     *)
(* mode live since it started (the gates of broadcast_plan).                  *)
THEOREM SendsAreAuthorised == Spec => []SendIsAuthorised
<1>1. IInv => SendIsAuthorised
  BY DEF IInv, Witnessed, Consistent, SendIsAuthorised, Sending, PastKill, PastMode
<1> QED
  BY <1>1, IInvAlways, PTL

(* The broadcaster implements the claim registry.                            *)
THEOREM ImplementsClaimRegistry == Spec => ClaimPromise
<1>1. Init => Registry!Init
  BY DEF Init, Registry!Init
<1>2. IInv /\ [Next]_vars => [Registry!Next]_<<claims, sends>>
  BY ClaimStep DEF IInv
<1> QED
  BY <1>1, <1>2, IInvAlways, PTL DEF Spec, ClaimPromise, Registry!Spec
=============================================================================
