------------------------- MODULE BackendUpgradeProofs -------------------------
(* Proofs about BackendUpgrade for any window and thresholds of the canary    *)
(* and any number of faults: wherever scripts fail or are interrupted, the    *)
(* rollback has what it needs, what it and the canary report is so, and the   *)
(* host keeps a backend.                                                      *)
EXTENDS BackendUpgrade, TLAPS

(* A cutover that is about to stop OLD has taken its snapshot.               *)
SnapshotFirst ==
    /\ StoppedHasSnapshot
    /\ At("stop") => snap # "none"

(* What a rollback in progress knows: a script has said nothing before it     *)
(* ends; OLD is absent only if the operator removed it; unless it is a dry    *)
(* run NEW is gone by the time OLD is started.                                *)
RollbackKnows ==
    /\ ~At("idle") => said = "none"
    /\ old = "absent" => removed
    /\ At("create") => removed
    /\ At("wait") /\ ~removed => old = "running"
    /\ script.pc \in {"find", "start"} /\ ~script.dry => new = "absent"

Deployed == old = "running" \/ new # "absent"

(* Where a script may be with neither container deployed, as long as nothing  *)
(* has failed and OLD is kept.                                               *)
DeployedUntilStopped ==
    faults = 0 /\ ~removed =>
        /\ script.pc \in {"idle", "snapshot", "stop", "probe", "remove", "health", "surface"}
               => Deployed
        /\ At("restart") => new = "absent"
        /\ script.pc \in {"find", "start"} /\ script.dry => Deployed

(* A canary with more probes than failures has had a good answer.            *)
GoodProbesSeen == script.fails < script.total => probed

IInv ==
    /\ TypeOK /\ SnapshotFirst /\ RollbackKnows /\ RollbackWorks
    /\ DeployedUntilStopped /\ GoodProbesSeen /\ GreenWasServed

(***************************************************************************)
(* The canary's arithmetic.                                                *)
(***************************************************************************)

(* All probes failing is one hundred per cent.                               *)
LEMMA AllFailed ==
    ASSUME NEW t \in Nat \ {0} PROVE (t * 100) \div t = 100
OBVIOUS

(* So a canary without a reason to abort has had a good probe.               *)
LEMMA GreenHadGoodProbe ==
    ASSUME TypeOK, script.total > 0, ~AbortReason PROVE script.fails < script.total
<1>1. script.total \in Nat \ {0} /\ script.fails \in Nat /\ script.fails <= script.total
  BY UpgradeAssumption DEF TypeOK
<1>2. ~((script.fails * 100) \div script.total > MaxPct)
  BY DEF AbortReason
<1>3. script.fails # script.total
  BY <1>1, <1>2, AllFailed, UpgradeAssumption
<1> QED
  BY <1>1, <1>3

(***************************************************************************)
(* Types.                                                                  *)
(***************************************************************************)

ScriptState == [pc : Pcs, dry : BOOLEAN, total : 0 .. Window, fails : 0 .. Window,
                consec : 0 .. MaxConsec]

(* A script that starts has counted nothing yet.                             *)
LEMMA FreshType ==
    ASSUME NEW pc \in Pcs, NEW dry \in BOOLEAN
    PROVE  /\ [Idle EXCEPT !.pc = pc, !.dry = dry] \in ScriptState
           /\ Idle \in ScriptState
<1>1. 0 \in 0 .. Window /\ 0 \in 0 .. MaxConsec
  BY UpgradeAssumption
<1> QED
  BY <1>1 DEF Idle, ScriptState, Pcs

LEMMA InitType == Init => TypeOK
<1>1. "idle" \in Pcs /\ FALSE \in BOOLEAN
  BY DEF Pcs
<1>2. Idle \in ScriptState
  BY <1>1, FreshType
<1>3. Idle.fails <= Idle.total
  BY DEF Idle
<1>4. Init => script \in ScriptState /\ script.fails <= script.total
  BY <1>2, <1>3 DEF Init
<1>5. Init => /\ old \in {"running"} /\ new \in {"absent"} /\ snap \in {"none"}
              /\ said \in Messages /\ faults \in Nat
  BY DEF Init, Messages
<1>6. Init => removed \in BOOLEAN /\ probed \in BOOLEAN
  BY Zenon DEF Init
<1> QED
  BY <1>4, <1>5, <1>6 DEF TypeOK, ScriptState

LEMMA NextType == TypeOK /\ [Next]_vars => TypeOK'
<1> SUFFICES ASSUME TypeOK, [Next]_vars PROVE TypeOK'
  OBVIOUS
<1> USE UpgradeAssumption DEF TypeOK, Pcs, Messages, At, Goto, End, Idle
<1>1. ASSUME NEW pc \in {"snapshot", "probe", "remove"}, NEW dry \in BOOLEAN, Start(pc, dry)
      PROVE  TypeOK'
  <2>1. script' = [Idle EXCEPT !.pc = pc, !.dry = dry] /\ pc \in Pcs
    BY <1>1 DEF Start
  <2>2. script' \in ScriptState
    BY <2>1, FreshType
  <2>3. script'.fails <= script'.total
    BY <2>1
  <2> QED
    BY <1>1, <2>2, <2>3 DEF Start, ScriptState
<1>2. ASSUME NEW good \in BOOLEAN, Probe(good) PROVE TypeOK'
  <2>1. script.total + 1 \in 0 .. Window /\ script.fails + 1 \in 0 .. Window
    BY <1>2 DEF Probe
  <2>2. script.consec + 1 \in 0 .. MaxConsec
    BY <1>2 DEF Probe
  <2>3. probed' \in BOOLEAN
    BY <1>2 DEF Probe
  <2>4. UNCHANGED <<old, new, snap, said, faults, removed>>
    BY <1>2 DEF Probe
  <2>5. CASE good
    <3>1. script' = [script EXCEPT !.total = @ + 1, !.consec = 0]
      BY <1>2, <2>5 DEF Probe
    <3>2. script' \in ScriptState
      <4>1. 0 \in 0 .. MaxConsec
        OBVIOUS
      <4>2. script \in ScriptState
        BY DEF ScriptState
      <4> HIDE DEF TypeOK
      <4> QED
        BY <2>1, <3>1, <4>1, <4>2 DEF ScriptState
    <3>3. script'.fails <= script'.total
      BY <3>1
    <3> QED
      BY <2>3, <2>4, <3>2, <3>3 DEF ScriptState
  <2>6. CASE ~good
    <3>1. script' = [script EXCEPT !.total = @ + 1, !.fails = @ + 1, !.consec = @ + 1]
      BY <1>2, <2>6 DEF Probe
    <3>2. script' \in ScriptState
      BY <2>1, <2>2, <3>1 DEF ScriptState
    <3>3. script'.fails <= script'.total
      BY <3>1
    <3> QED
      BY <2>3, <2>4, <3>2, <3>3 DEF ScriptState
  <2> QED
    BY <2>5, <2>6
<1>3. CASE Snapshot
  BY <1>3 DEF Snapshot
<1>4. CASE StopOld
  BY <1>4 DEF StopOld
<1>5. CASE UpNew
  BY <1>5 DEF UpNew
<1>6. CASE HealthPasses
  BY <1>6 DEF HealthPasses
<1>7. CASE HealthGivesUp
  BY <1>7 DEF HealthGivesUp
<1>8. CASE SurfacePasses
  BY <1>8 DEF SurfacePasses
<1>9. CASE SurfaceFails
  BY <1>9 DEF SurfaceFails
<1>10. CASE DownNew
  BY <1>10 DEF DownNew
<1>11. CASE RestartOld
  BY <1>11 DEF RestartOld
<1>12. CASE CanaryGreen
  BY <1>12 DEF CanaryGreen
<1>13. CASE CanaryAborts
  BY <1>13 DEF CanaryAborts
<1>14. CASE RemoveNew
  BY <1>14 DEF RemoveNew
<1>15. CASE FindSnapshot
  BY <1>15 DEF FindSnapshot
<1>16. CASE StartOld
  BY <1>16 DEF StartOld
<1>17. CASE CreateOld
  BY <1>17 DEF CreateOld
<1>18. CASE CreateFails
  BY <1>18 DEF CreateFails
<1>19. CASE RollbackDone
  BY <1>19 DEF RollbackDone
<1>20. CASE NewTurns
  BY <1>20 DEF NewTurns
<1>21. CASE RemoveOld
  BY <1>21 DEF RemoveOld
<1>22. CASE DockerFails
  BY <1>22 DEF DockerFails
<1>23. CASE Interrupted
  BY <1>23 DEF Interrupted
<1>24. CASE UNCHANGED vars
  BY <1>24 DEF vars
<1> QED
  BY <1>1, <1>2, <1>3, <1>4, <1>5, <1>6, <1>7, <1>8, <1>9, <1>10, <1>11, <1>12, <1>13, <1>14, <1>15, <1>16, <1>17, <1>18, <1>19, <1>20, <1>21, <1>22, <1>23, <1>24
     DEF Next, StartScript, Cutover, Canary, Rollback

(* Every variable of the toolkit keeps its type, and no canary counts past    *)
(* its window.                                                                *)
THEOREM TypeCorrect == Spec => []TypeOK
<1>1. Init => TypeOK
  BY InitType
<1>2. TypeOK /\ [Next]_vars => TypeOK'
  BY NextType
<1> QED
  BY <1>1, <1>2, PTL DEF Spec

(***************************************************************************)
(* The steps, one part of the invariant at a time.                         *)
(***************************************************************************)

LEMMA NextSnapshotFirst == TypeOK /\ SnapshotFirst /\ [Next]_vars => SnapshotFirst'
<1> SUFFICES ASSUME TypeOK, SnapshotFirst, [Next]_vars PROVE SnapshotFirst'
  OBVIOUS
<1> USE DEF TypeOK, SnapshotFirst, StoppedHasSnapshot, At, Goto, End, Idle
<1>1. ASSUME NEW pc \in {"snapshot", "probe", "remove"}, NEW dry \in BOOLEAN, Start(pc, dry)
      PROVE  SnapshotFirst'
  BY <1>1 DEF Start
<1>2. ASSUME NEW good \in BOOLEAN, Probe(good) PROVE SnapshotFirst'
  BY <1>2 DEF Probe
<1>3. CASE Snapshot
  BY <1>3 DEF Snapshot
<1>4. CASE StopOld
  BY <1>4 DEF StopOld
<1>5. CASE UpNew
  BY <1>5 DEF UpNew
<1>6. CASE HealthPasses
  BY <1>6 DEF HealthPasses
<1>7. CASE HealthGivesUp
  BY <1>7 DEF HealthGivesUp
<1>8. CASE SurfacePasses
  BY <1>8 DEF SurfacePasses
<1>9. CASE SurfaceFails
  BY <1>9 DEF SurfaceFails
<1>10. CASE DownNew
  BY <1>10 DEF DownNew
<1>11. CASE RestartOld
  BY <1>11 DEF RestartOld
<1>12. CASE CanaryGreen
  BY <1>12 DEF CanaryGreen
<1>13. CASE CanaryAborts
  BY <1>13 DEF CanaryAborts
<1>14. CASE RemoveNew
  BY <1>14 DEF RemoveNew
<1>15. CASE FindSnapshot
  BY <1>15 DEF FindSnapshot
<1>16. CASE StartOld
  BY <1>16 DEF StartOld
<1>17. CASE CreateOld
  BY <1>17 DEF CreateOld
<1>18. CASE CreateFails
  BY <1>18 DEF CreateFails
<1>19. CASE RollbackDone
  BY <1>19 DEF RollbackDone
<1>20. CASE NewTurns
  BY <1>20 DEF NewTurns
<1>21. CASE RemoveOld
  BY <1>21 DEF RemoveOld
<1>22. CASE DockerFails
  BY <1>22 DEF DockerFails
<1>23. CASE Interrupted
  BY <1>23 DEF Interrupted
<1>24. CASE UNCHANGED vars
  BY <1>24 DEF vars
<1> QED
  BY <1>1, <1>2, <1>3, <1>4, <1>5, <1>6, <1>7, <1>8, <1>9, <1>10, <1>11, <1>12, <1>13, <1>14, <1>15, <1>16, <1>17, <1>18, <1>19, <1>20, <1>21, <1>22, <1>23, <1>24
     DEF Next, StartScript, Cutover, Canary, Rollback

LEMMA NextRollbackKnows == TypeOK /\ SnapshotFirst /\ RollbackKnows /\ [Next]_vars => RollbackKnows'
<1> SUFFICES ASSUME TypeOK, SnapshotFirst, RollbackKnows, [Next]_vars PROVE RollbackKnows'
  OBVIOUS
<1> USE DEF TypeOK, SnapshotFirst, StoppedHasSnapshot, RollbackKnows, PortFree, At, Goto, End, Idle
<1>1. ASSUME NEW pc \in {"snapshot", "probe", "remove"}, NEW dry \in BOOLEAN, Start(pc, dry)
      PROVE  RollbackKnows'
  BY <1>1 DEF Start
<1>2. ASSUME NEW good \in BOOLEAN, Probe(good) PROVE RollbackKnows'
  BY <1>2 DEF Probe
<1>3. CASE Snapshot
  BY <1>3 DEF Snapshot
<1>4. CASE StopOld
  BY <1>4 DEF StopOld
<1>5. CASE UpNew
  BY <1>5 DEF UpNew
<1>6. CASE HealthPasses
  BY <1>6 DEF HealthPasses
<1>7. CASE HealthGivesUp
  BY <1>7 DEF HealthGivesUp
<1>8. CASE SurfacePasses
  BY <1>8 DEF SurfacePasses
<1>9. CASE SurfaceFails
  BY <1>9 DEF SurfaceFails
<1>10. CASE DownNew
  BY <1>10 DEF DownNew
<1>11. CASE RestartOld
  BY <1>11 DEF RestartOld
<1>12. CASE CanaryGreen
  BY <1>12 DEF CanaryGreen
<1>13. CASE CanaryAborts
  BY <1>13 DEF CanaryAborts
<1>14. CASE RemoveNew
  BY <1>14 DEF RemoveNew
<1>15. CASE FindSnapshot
  BY <1>15 DEF FindSnapshot
<1>16. CASE StartOld
  BY <1>16 DEF StartOld
<1>17. CASE CreateOld
  BY <1>17 DEF CreateOld
<1>18. CASE CreateFails
  BY <1>18 DEF CreateFails
<1>19. CASE RollbackDone
  BY <1>19 DEF RollbackDone
<1>20. CASE NewTurns
  BY <1>20 DEF NewTurns
<1>21. CASE RemoveOld
  BY <1>21 DEF RemoveOld
<1>22. CASE DockerFails
  BY <1>22 DEF DockerFails
<1>23. CASE Interrupted
  BY <1>23 DEF Interrupted
<1>24. CASE UNCHANGED vars
  BY <1>24 DEF vars
<1> QED
  BY <1>1, <1>2, <1>3, <1>4, <1>5, <1>6, <1>7, <1>8, <1>9, <1>10, <1>11, <1>12, <1>13, <1>14, <1>15, <1>16, <1>17, <1>18, <1>19, <1>20, <1>21, <1>22, <1>23, <1>24
     DEF Next, StartScript, Cutover, Canary, Rollback

LEMMA NextRollbackWorks == TypeOK /\ SnapshotFirst /\ RollbackKnows /\ RollbackWorks /\ [Next]_vars => RollbackWorks'
<1> SUFFICES ASSUME TypeOK, SnapshotFirst, RollbackKnows, RollbackWorks, [Next]_vars PROVE RollbackWorks'
  OBVIOUS
<1> USE DEF TypeOK, SnapshotFirst, StoppedHasSnapshot, RollbackKnows, RollbackWorks, PortFree, At, Goto, End, Idle
<1>1. ASSUME NEW pc \in {"snapshot", "probe", "remove"}, NEW dry \in BOOLEAN, Start(pc, dry)
      PROVE  RollbackWorks'
  BY <1>1 DEF Start
<1>2. ASSUME NEW good \in BOOLEAN, Probe(good) PROVE RollbackWorks'
  BY <1>2 DEF Probe
<1>3. CASE Snapshot
  BY <1>3 DEF Snapshot
<1>4. CASE StopOld
  BY <1>4 DEF StopOld
<1>5. CASE UpNew
  BY <1>5 DEF UpNew
<1>6. CASE HealthPasses
  BY <1>6 DEF HealthPasses
<1>7. CASE HealthGivesUp
  BY <1>7 DEF HealthGivesUp
<1>8. CASE SurfacePasses
  BY <1>8 DEF SurfacePasses
<1>9. CASE SurfaceFails
  BY <1>9 DEF SurfaceFails
<1>10. CASE DownNew
  BY <1>10 DEF DownNew
<1>11. CASE RestartOld
  BY <1>11 DEF RestartOld
<1>12. CASE CanaryGreen
  BY <1>12 DEF CanaryGreen
<1>13. CASE CanaryAborts
  BY <1>13 DEF CanaryAborts
<1>14. CASE RemoveNew
  BY <1>14 DEF RemoveNew
<1>15. CASE FindSnapshot
  BY <1>15 DEF FindSnapshot
<1>16. CASE StartOld
  BY <1>16 DEF StartOld
<1>17. CASE CreateOld
  BY <1>17 DEF CreateOld
<1>18. CASE CreateFails
  BY <1>18 DEF CreateFails
<1>19. CASE RollbackDone
  BY <1>19 DEF RollbackDone
<1>20. CASE NewTurns
  BY <1>20 DEF NewTurns
<1>21. CASE RemoveOld
  BY <1>21 DEF RemoveOld
<1>22. CASE DockerFails
  BY <1>22 DEF DockerFails
<1>23. CASE Interrupted
  BY <1>23 DEF Interrupted
<1>24. CASE UNCHANGED vars
  BY <1>24 DEF vars
<1> QED
  BY <1>1, <1>2, <1>3, <1>4, <1>5, <1>6, <1>7, <1>8, <1>9, <1>10, <1>11, <1>12, <1>13, <1>14, <1>15, <1>16, <1>17, <1>18, <1>19, <1>20, <1>21, <1>22, <1>23, <1>24
     DEF Next, StartScript, Cutover, Canary, Rollback

LEMMA NextDeployed == TypeOK /\ SnapshotFirst /\ RollbackKnows /\ DeployedUntilStopped /\ [Next]_vars => DeployedUntilStopped'
<1> SUFFICES ASSUME TypeOK, SnapshotFirst, RollbackKnows, DeployedUntilStopped, [Next]_vars PROVE DeployedUntilStopped'
  OBVIOUS
<1> USE DEF TypeOK, SnapshotFirst, StoppedHasSnapshot, RollbackKnows, DeployedUntilStopped, Deployed, PortFree, At, Goto, End, Idle
<1>1. ASSUME NEW pc \in {"snapshot", "probe", "remove"}, NEW dry \in BOOLEAN, Start(pc, dry)
      PROVE  DeployedUntilStopped'
  BY <1>1 DEF Start
<1>2. ASSUME NEW good \in BOOLEAN, Probe(good) PROVE DeployedUntilStopped'
  BY <1>2 DEF Probe
<1>3. CASE Snapshot
  BY <1>3 DEF Snapshot
<1>4. CASE StopOld
  BY <1>4 DEF StopOld
<1>5. CASE UpNew
  BY <1>5 DEF UpNew
<1>6. CASE HealthPasses
  BY <1>6 DEF HealthPasses
<1>7. CASE HealthGivesUp
  BY <1>7 DEF HealthGivesUp
<1>8. CASE SurfacePasses
  BY <1>8 DEF SurfacePasses
<1>9. CASE SurfaceFails
  BY <1>9 DEF SurfaceFails
<1>10. CASE DownNew
  BY <1>10 DEF DownNew
<1>11. CASE RestartOld
  BY <1>11 DEF RestartOld
<1>12. CASE CanaryGreen
  BY <1>12 DEF CanaryGreen
<1>13. CASE CanaryAborts
  BY <1>13 DEF CanaryAborts
<1>14. CASE RemoveNew
  BY <1>14 DEF RemoveNew
<1>15. CASE FindSnapshot
  BY <1>15 DEF FindSnapshot
<1>16. CASE StartOld
  BY <1>16 DEF StartOld
<1>17. CASE CreateOld
  BY <1>17 DEF CreateOld
<1>18. CASE CreateFails
  BY <1>18 DEF CreateFails
<1>19. CASE RollbackDone
  BY <1>19 DEF RollbackDone
<1>20. CASE NewTurns
  BY <1>20 DEF NewTurns
<1>21. CASE RemoveOld
  BY <1>21 DEF RemoveOld
<1>22. CASE DockerFails
  BY <1>22 DEF DockerFails
<1>23. CASE Interrupted
  BY <1>23 DEF Interrupted
<1>24. CASE UNCHANGED vars
  BY <1>24 DEF vars
<1> QED
  BY <1>1, <1>2, <1>3, <1>4, <1>5, <1>6, <1>7, <1>8, <1>9, <1>10, <1>11, <1>12, <1>13, <1>14, <1>15, <1>16, <1>17, <1>18, <1>19, <1>20, <1>21, <1>22, <1>23, <1>24
     DEF Next, StartScript, Cutover, Canary, Rollback

LEMMA NextGoodProbesSeen == TypeOK /\ GoodProbesSeen /\ [Next]_vars => GoodProbesSeen'
<1> SUFFICES ASSUME TypeOK, GoodProbesSeen, [Next]_vars PROVE GoodProbesSeen'
  OBVIOUS
<1> USE DEF TypeOK, GoodProbesSeen, At, Goto, End, Idle
<1>1. ASSUME NEW pc \in {"snapshot", "probe", "remove"}, NEW dry \in BOOLEAN, Start(pc, dry)
      PROVE  GoodProbesSeen'
  BY <1>1 DEF Start
<1>2. ASSUME NEW good \in BOOLEAN, Probe(good) PROVE GoodProbesSeen'
  BY <1>2 DEF Probe
<1>3. CASE Snapshot
  BY <1>3 DEF Snapshot
<1>4. CASE StopOld
  BY <1>4 DEF StopOld
<1>5. CASE UpNew
  BY <1>5 DEF UpNew
<1>6. CASE HealthPasses
  BY <1>6 DEF HealthPasses
<1>7. CASE HealthGivesUp
  BY <1>7 DEF HealthGivesUp
<1>8. CASE SurfacePasses
  BY <1>8 DEF SurfacePasses
<1>9. CASE SurfaceFails
  BY <1>9 DEF SurfaceFails
<1>10. CASE DownNew
  BY <1>10 DEF DownNew
<1>11. CASE RestartOld
  BY <1>11 DEF RestartOld
<1>12. CASE CanaryGreen
  BY <1>12 DEF CanaryGreen
<1>13. CASE CanaryAborts
  BY <1>13 DEF CanaryAborts
<1>14. CASE RemoveNew
  BY <1>14 DEF RemoveNew
<1>15. CASE FindSnapshot
  BY <1>15 DEF FindSnapshot
<1>16. CASE StartOld
  BY <1>16 DEF StartOld
<1>17. CASE CreateOld
  BY <1>17 DEF CreateOld
<1>18. CASE CreateFails
  BY <1>18 DEF CreateFails
<1>19. CASE RollbackDone
  BY <1>19 DEF RollbackDone
<1>20. CASE NewTurns
  BY <1>20 DEF NewTurns
<1>21. CASE RemoveOld
  BY <1>21 DEF RemoveOld
<1>22. CASE DockerFails
  BY <1>22 DEF DockerFails
<1>23. CASE Interrupted
  BY <1>23 DEF Interrupted
<1>24. CASE UNCHANGED vars
  BY <1>24 DEF vars
<1> QED
  BY <1>1, <1>2, <1>3, <1>4, <1>5, <1>6, <1>7, <1>8, <1>9, <1>10, <1>11, <1>12, <1>13, <1>14, <1>15, <1>16, <1>17, <1>18, <1>19, <1>20, <1>21, <1>22, <1>23, <1>24
     DEF Next, StartScript, Cutover, Canary, Rollback

LEMMA NextGreenWasServed == TypeOK /\ GoodProbesSeen /\ GreenWasServed /\ [Next]_vars => GreenWasServed'
<1> SUFFICES ASSUME TypeOK, GoodProbesSeen, GreenWasServed, [Next]_vars PROVE GreenWasServed'
  OBVIOUS
<1> USE GreenHadGoodProbe DEF TypeOK, GoodProbesSeen, GreenWasServed, At, Goto, End, Idle
<1>1. ASSUME NEW pc \in {"snapshot", "probe", "remove"}, NEW dry \in BOOLEAN, Start(pc, dry)
      PROVE  GreenWasServed'
  BY <1>1 DEF Start
<1>2. ASSUME NEW good \in BOOLEAN, Probe(good) PROVE GreenWasServed'
  BY <1>2 DEF Probe
<1>3. CASE Snapshot
  BY <1>3 DEF Snapshot
<1>4. CASE StopOld
  BY <1>4 DEF StopOld
<1>5. CASE UpNew
  BY <1>5 DEF UpNew
<1>6. CASE HealthPasses
  BY <1>6 DEF HealthPasses
<1>7. CASE HealthGivesUp
  BY <1>7 DEF HealthGivesUp
<1>8. CASE SurfacePasses
  BY <1>8 DEF SurfacePasses
<1>9. CASE SurfaceFails
  BY <1>9 DEF SurfaceFails
<1>10. CASE DownNew
  BY <1>10 DEF DownNew
<1>11. CASE RestartOld
  BY <1>11 DEF RestartOld
<1>12. CASE CanaryGreen
  BY <1>12 DEF CanaryGreen
<1>13. CASE CanaryAborts
  BY <1>13 DEF CanaryAborts
<1>14. CASE RemoveNew
  BY <1>14 DEF RemoveNew
<1>15. CASE FindSnapshot
  BY <1>15 DEF FindSnapshot
<1>16. CASE StartOld
  BY <1>16 DEF StartOld
<1>17. CASE CreateOld
  BY <1>17 DEF CreateOld
<1>18. CASE CreateFails
  BY <1>18 DEF CreateFails
<1>19. CASE RollbackDone
  BY <1>19 DEF RollbackDone
<1>20. CASE NewTurns
  BY <1>20 DEF NewTurns
<1>21. CASE RemoveOld
  BY <1>21 DEF RemoveOld
<1>22. CASE DockerFails
  BY <1>22 DEF DockerFails
<1>23. CASE Interrupted
  BY <1>23 DEF Interrupted
<1>24. CASE UNCHANGED vars
  BY <1>24 DEF vars
<1> QED
  BY <1>1, <1>2, <1>3, <1>4, <1>5, <1>6, <1>7, <1>8, <1>9, <1>10, <1>11, <1>12, <1>13, <1>14, <1>15, <1>16, <1>17, <1>18, <1>19, <1>20, <1>21, <1>22, <1>23, <1>24
     DEF Next, StartScript, Cutover, Canary, Rollback

(***************************************************************************)
(* The theorems.                                                           *)
(***************************************************************************)

LEMMA InitInductive == Init => IInv
BY InitType
   DEF Init, IInv, SnapshotFirst, StoppedHasSnapshot, RollbackKnows, RollbackWorks,
       DeployedUntilStopped, Deployed, GoodProbesSeen, GreenWasServed, At, Idle

LEMMA NextInductive == IInv /\ [Next]_vars => IInv'
BY NextType, NextSnapshotFirst, NextRollbackKnows, NextRollbackWorks, NextDeployed,
   NextGoodProbesSeen, NextGreenWasServed
   DEF IInv

LEMMA InvariantHolds == Spec => []IInv
BY InitInductive, NextInductive, PTL DEF Spec

(* Wherever a cutover is interrupted, the rollback script finds a snapshot.  *)
THEOREM RollbackFindsSnapshot == Spec => []StoppedHasSnapshot
<1>1. IInv => StoppedHasSnapshot
  BY DEF IInv, SnapshotFirst
<1> QED
  BY <1>1, InvariantHolds, PTL

(* As long as the operator keeps OLD, what the rollback reports is so.       *)
THEOREM RollbackReportsTruly == Spec => []RollbackWorks
<1>1. IInv => RollbackWorks
  BY DEF IInv
<1> QED
  BY <1>1, InvariantHolds, PTL

(* No order of scripts leaves the host without a backend.                    *)
THEOREM HostKeepsBackend == Spec => []SomeoneDeployed
<1>1. IInv => SomeoneDeployed
  BY DEF IInv, DeployedUntilStopped, Deployed, SomeoneDeployed, At
<1> QED
  BY <1>1, InvariantHolds, PTL

(* Whatever its window and thresholds, a canary is green only if the right    *)
(* build has answered.                                                       *)
THEOREM GreenIsServed == Spec => []GreenWasServed
<1>1. IInv => GreenWasServed
  BY DEF IInv
<1> QED
  BY <1>1, InvariantHolds, PTL
=============================================================================
