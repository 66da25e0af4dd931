-------------------------- MODULE MCOpportunityLoop --------------------------
EXTENDS OpportunityLoop, TLC

CONSTANTS loop, http, o1, o2, b1, b2

(* OBSERVE, an analysis mode and a broadcast mode: the pipeline tells no       *)
(* others apart.                                                              *)
DryModes == {OBSERVE, SHADOW}
LiveOnly == {LIMITED_LIVE}
CallersAlike == Permutations(Callers)

(* The HTTP calls of a run, and those a run may start with: one evaluation and *)
(* two emissions are left, or two evaluations.                                *)
NoCalls == [r \in Routes |-> 0]
TwoCalls == [r \in Routes |-> 2]
CallsMade == {[evaluate |-> 1, emit |-> 0], [evaluate |-> 0, emit |-> 2]}

(* A process that starts on a journal an earlier one has left: the row is     *)
(* absent, or an evaluation has finished and the ledger has not seen it.      *)
ShadowRow == [status |-> "SHADOW_RECORDED", label |-> "PENDING", consumed |-> FALSE,
              events |-> Stages \union {"shadow_recorded"}]
FailedRow == [status |-> "BROADCAST_FAILED", label |-> "PENDING", consumed |-> FALSE,
              events |-> Stages \union {"broadcast_failed"}]

RestartedInit ==
    /\ journal \in [Opps -> {NoRow, ShadowRow, FailedRow}]
    /\ worker = [w \in Workers |-> Idle]
    /\ ticks = 0
    /\ scratch = NoBackend
    /\ evidence = [used |-> NoBackend, recorded |-> NoBackend, alone |-> TRUE]
    /\ samples = [o \in Opps |-> 0]
    /\ tally = 0
    /\ requests \in CallsMade
    /\ faults = 0
    /\ NothingHappened

RestartedSpec == RestartedInit /\ [][Next]_vars
=============================================================================
