------------------------------ MODULE Broadcast ------------------------------
(* The only path to eth_sendRawTransaction: LimitedLiveBroadcaster.            *)
(* broadcast_plan (arbicore/execution/broadcast.py) with the kill switch       *)
(* (kill_switch.py), the claim guard of the pre-broadcast validator            *)
(* (pre_broadcast.py), the mode row it reads, and the node it sends to.        *)
(*                                                                             *)
(* Requests come from the operator's HTTP route, with or without confirm, and  *)
(* from the auto executor, without it; each is a coroutine that can be         *)
(* overtaken at every await.  An action is what runs between two awaits.       *)
(*                                                                             *)
(* Gate 0 (the circuit breaker) never denies: nothing in the program calls     *)
(* record_outcome or set_health, so its status is never tripped.  No caller    *)
(* passes force_broadcast.                                                     *)
EXTENDS Integers

CONSTANTS
    Requests,       \* requests that can be in progress at the same time
    Plans,          \* persisted execution plans
    Fingerprints,   \* what the validator tells opportunities apart by
    FingerprintOf,  \* plan -> its opportunity_id, or its own id without one
    NoPlan,         \* the plan of an idle request
    MaxTx           \* bound: no request starts once the node holds this many

ASSUME FingerprintsOfPlans == FingerprintOf \in [Plans -> Fingerprints]
ASSUME NoPlanIsNone == NoPlan \notin Plans
ASSUME MaxTxIsNat == MaxTx \in Nat

VARIABLES
    engaged,    \* kill_switch_state: the global switch is engaged
    live,       \* execution_mode_state: the strategy may broadcast
    claims,     \* SeenOpportunityGuard._seen: fingerprints not yet expired
    req,        \* request -> where its coroutine is and what it has read
    pending,    \* the node's transaction count of the gas wallet, "pending"
    late,       \* nonces of transactions whose request stopped waiting
    sends       \* history: fingerprint -> transactions sent under its claim

vars == <<engaged, live, claims, req, pending, late, sends>>

Idle == [pc |-> "idle", plan |-> NoPlan, confirm |-> FALSE, passed |-> FALSE,
         nonce |-> 0, sawOff |-> FALSE, sawLive |-> FALSE]

Fp(r) == FingerprintOf[req[r].plan]
Active(r) == req[r].pc # "idle"
Finish(r) == req' = [req EXCEPT ![r] = Idle]

Init ==
    /\ engaged = FALSE
    /\ live = FALSE
    /\ claims = {}
    /\ req = [r \in Requests |-> Idle]
    /\ pending = 0
    /\ late = {}
    /\ sends = [f \in Fingerprints |-> 0]

(***************************************************************************)
(* The operator: the kill switch and the mode ladder.                      *)
(***************************************************************************)

Engage ==
    /\ engaged' = TRUE
    /\ UNCHANGED <<live, claims, req, pending, late, sends>>

(* sawOff and sawLive are history: whether the switch was off, and the mode   *)
(* live, at some moment since the request started.                            *)
Disengage ==
    /\ engaged' = FALSE
    /\ req' = [r \in Requests |-> IF Active(r) THEN [req[r] EXCEPT !.sawOff = TRUE] ELSE req[r]]
    /\ UNCHANGED <<live, claims, pending, late, sends>>

Promote ==
    /\ live' = TRUE
    /\ req' = [r \in Requests |-> IF Active(r) THEN [req[r] EXCEPT !.sawLive = TRUE] ELSE req[r]]
    /\ UNCHANGED <<engaged, claims, pending, late, sends>>

Rollback ==
    /\ live' = FALSE
    /\ UNCHANGED <<engaged, claims, req, pending, late, sends>>

(***************************************************************************)
(* broadcast_plan.                                                         *)
(***************************************************************************)

Start(r, p, confirm) ==
    /\ req[r].pc = "idle"
    /\ pending < MaxTx
    /\ req' = [req EXCEPT ![r] = [pc |-> "kill", plan |-> p, confirm |-> confirm,
                                  passed |-> TRUE, nonce |-> 0,
                                  sawOff |-> ~engaged, sawLive |-> live]]
    /\ UNCHANGED <<engaged, live, claims, pending, late, sends>>

(* A gate records its verdict and the request goes on to the next one.       *)
Gate(r, here, ok, next) ==
    /\ req[r].pc = here
    /\ req' = [req EXCEPT ![r].pc = next, ![r].passed = @ /\ ok]
    /\ UNCHANGED <<engaged, live, claims, pending, late, sends>>

(* Faulty variant: the answer of the kill switch is not looked at.           *)
KillGateIgnored(r) == Gate(r, "kill", TRUE, "mode")

KillGate(r) == Gate(r, "kill", ~engaged, "mode")

(* A failed read of the mode counts as OBSERVE.                              *)
ModeGate(r) == \E ok \in {live, FALSE} : Gate(r, "mode", ok, "policy")

(* Capital policy, secret resolution, calldata and slippage: any verdict.    *)
(* A request that has been denied by now answers without a preflight.        *)
PolicyGates(r) ==
    /\ req[r].pc = "policy"
    /\ \/ req[r].passed /\ req' = [req EXCEPT ![r].pc = "nonce"]
       \/ Finish(r)
    /\ UNCHANGED <<engaged, live, claims, pending, late, sends>>

(* A database error in the kill switch or the allocator ends the request.    *)
Abort(r) ==
    /\ req[r].pc \in {"kill", "policy"}
    /\ Finish(r)
    /\ UNCHANGED <<engaged, live, claims, pending, late, sends>>

(* Faulty variant: a failed eth_getTransactionCount leaves no nonce, and the  *)
(* request goes on.                                                           *)
ReadNonceUnchecked(r) ==
    /\ req[r].pc = "nonce"
    /\ \E n \in {pending, NoPlan} : req' = [req EXCEPT ![r].pc = "call", ![r].nonce = n]
    /\ UNCHANGED <<engaged, live, claims, pending, late, sends>>

(* Preflight up to eth_getTransactionCount; a null answer is nonce 0.        *)
ReadNonce(r) ==
    /\ req[r].pc = "nonce"
    /\ \/ \E n \in {pending, 0} : req' = [req EXCEPT ![r].pc = "call", ![r].nonce = n]
       \/ req' = [req EXCEPT ![r].pc = "revalidate", ![r].passed = FALSE]
    /\ UNCHANGED <<engaged, live, claims, pending, late, sends>>

(* eth_call and eth_estimateGas.                                             *)
EthCall(r) == \E ok \in BOOLEAN : Gate(r, "call", ok, "revalidate")

(* Faulty variant: the claim is looked up before the fresh market read is    *)
(* awaited, and taken by two requests in between.                            *)
DuplicateUnseen(r) == FALSE

Duplicate(r) == Fp(r) \in claims

(* The tail of PreBroadcastValidator.validate, after its fresh read: the     *)
(* claim is taken whenever the validator passes, whatever the other gates    *)
(* said.  There is no await from here to the start of the send, so the check, *)
(* the claim and the decision to send are one step.                          *)
Validated(r, fresh) == fresh /\ ~Duplicate(r)

Claim(r) == claims' = claims \union {Fp(r)}

(* Faulty variant: the auto executor, which never confirms, sends too.       *)
MaySendUnconfirmed(r) == req[r].passed

MaySend(r) == req[r].passed /\ req[r].confirm

RevalidateDenies(r) ==
    /\ req[r].pc = "revalidate"
    /\ \E fresh \in BOOLEAN : ~Validated(r, fresh)
    /\ Finish(r)
    /\ UNCHANGED <<engaged, live, claims, pending, late, sends>>

(* Validated but not to be sent, or signing failed: HELD, or FAILED.         *)
RevalidateHolds(r) ==
    /\ req[r].pc = "revalidate"
    /\ Validated(r, TRUE)
    /\ Claim(r)
    /\ Finish(r)
    /\ UNCHANGED <<engaged, live, pending, late, sends>>

RevalidateSends(r) ==
    /\ req[r].pc = "revalidate"
    /\ Validated(r, TRUE) /\ MaySend(r)
    /\ Claim(r)
    /\ req' = [req EXCEPT ![r].pc = "sending"]
    /\ sends' = [sends EXCEPT ![Fp(r)] = @ + 1]
    /\ UNCHANGED <<engaged, live, pending, late>>

(* The answer of the node arrives.                                           *)
Answered(r) ==
    /\ req[r].pc = "answered"
    /\ Finish(r)
    /\ UNCHANGED <<engaged, live, claims, pending, late, sends>>

(* The 15 s timeout of the RPC client, or a lost connection: the receipt says *)
(* FAILED, and the transaction may still be on its way.                       *)
Timeout(r) ==
    /\ req[r].pc \in {"sending", "answered"}
    /\ late' = IF req[r].pc = "sending" THEN late \union {req[r].nonce} ELSE late
    /\ Finish(r)
    /\ UNCHANGED <<engaged, live, claims, pending, sends>>

(***************************************************************************)
(* The node, and the process.                                              *)
(***************************************************************************)

(* The node takes the transaction with the next nonce of the wallet and       *)
(* refuses others; it may refuse any (funds, price).                          *)
NodeTakes(r) ==
    /\ req[r].pc = "sending"
    /\ \/ req[r].nonce = pending /\ pending' = pending + 1
       \/ pending' = pending
    /\ req' = [req EXCEPT ![r].pc = "answered"]
    /\ UNCHANGED <<engaged, live, claims, late, sends>>

LateArrival(n) ==
    /\ n \in late
    /\ late' = late \ {n}
    /\ pending' = IF n = pending THEN pending + 1 ELSE pending
    /\ UNCHANGED <<engaged, live, claims, req, sends>>

LateLoss(n) ==
    /\ n \in late
    /\ late' = late \ {n}
    /\ UNCHANGED <<engaged, live, claims, req, pending, sends>>

(* A claim reaches its time to live, ARBICORE_DEDUPE_TTL_S, and is swept.    *)
ClaimExpires(f) ==
    /\ f \in claims
    /\ claims' = claims \ {f}
    /\ sends' = [sends EXCEPT ![f] = 0]
    /\ UNCHANGED <<engaged, live, req, pending, late>>

(* The process restarts: requests and claims are lost, rows are not, and      *)
(* transactions already on the wire go on.                                    *)
Restart ==
    /\ req' = [r \in Requests |-> Idle]
    /\ claims' = {}
    /\ sends' = [f \in Fingerprints |-> 0]
    /\ late' = late \union {req[r].nonce : r \in {q \in Requests : req[q].pc = "sending"}}
    /\ UNCHANGED <<engaged, live, pending>>

Step(r) ==
    \/ KillGate(r) \/ ModeGate(r) \/ PolicyGates(r) \/ Abort(r)
    \/ ReadNonce(r) \/ EthCall(r)
    \/ RevalidateDenies(r) \/ RevalidateHolds(r) \/ RevalidateSends(r)
    \/ Answered(r) \/ Timeout(r)

Environment ==
    \/ Engage \/ Disengage \/ Promote \/ Rollback \/ Restart
    \/ \E f \in Fingerprints : ClaimExpires(f)
    \/ \E n \in late : LateArrival(n) \/ LateLoss(n)

Next ==
    \/ \E r \in Requests :
          \/ \E p \in Plans, confirm \in BOOLEAN : Start(r, p, confirm)
          \/ Step(r)
          \/ NodeTakes(r)
    \/ Environment

Spec == Init /\ [][Next]_vars

(* A coroutine that is not waiting for an answer runs on, and every wait of   *)
(* broadcast_plan is bounded by the timeout of its client.                    *)
FairSpec == Spec /\ \A r \in Requests : WF_vars(Step(r))

(***************************************************************************)
(* Properties.                                                             *)
(***************************************************************************)

RequestState ==
    [pc : {"idle", "kill", "mode", "policy", "nonce", "call", "revalidate", "sending", "answered"},
     plan : Plans \union {NoPlan}, confirm : BOOLEAN, passed : BOOLEAN, nonce : Nat,
     sawOff : BOOLEAN, sawLive : BOOLEAN]

(* Every variable has its type, and a request in progress has a plan.        *)
TypeOK ==
    /\ engaged \in BOOLEAN /\ live \in BOOLEAN
    /\ claims \subseteq Fingerprints
    /\ req \in [Requests -> RequestState]
    /\ pending \in Nat
    /\ late \subseteq Nat
    /\ sends \in [Fingerprints -> Nat]
    /\ \A r \in Requests : Active(r) => req[r].plan \in Plans

(* Duplicate protection: however requests for the same opportunity interleave, *)
(* at most one transaction is sent for it until its claim expires or the       *)
(* process restarts.                                                           *)
AtMostOneSendPerClaim == \A f \in Fingerprints : sends[f] <= 1

Sending(r) == req[r].pc \in {"sending", "answered"}

(* A request that sends was confirmed, and saw the kill switch off and the     *)
(* mode live: a request that ran from start to end under an engaged switch, or *)
(* under a mode below LIMITED_LIVE, sends nothing.                             *)
SendIsAuthorised ==
    \A r \in Requests : Sending(r) => req[r].confirm /\ req[r].sawOff /\ req[r].sawLive

(* The requests the kill switch gate has let through and no gate denied.     *)
Cleared == {r \in Requests : req[r].pc \notin {"idle", "kill"} /\ req[r].passed}

(* Once the switch is engaged for good, the requests it had let through end   *)
(* and no other gets through: broadcasting comes to a stop.                   *)
EngageDrains == <>[]engaged => <>[](Cleared = {})

(* The claims and sends of the broadcaster are those of the claim registry.  *)
Registry == INSTANCE ClaimRegistry WITH Fingerprints <- Fingerprints, claims <- claims,
                                       sends <- sends
ClaimPromise == Registry!Spec
=============================================================================
