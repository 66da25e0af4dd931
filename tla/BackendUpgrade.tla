---------------------------- MODULE BackendUpgrade ----------------------------
(***************************************************************************)
(* The upgrade toolkit, deployment/upgrade/steps: the cutover from the OLD  *)
(* backend container to the NEW one with its automatic rollback, the canary *)
(* that watches NEW and may roll back, and the rollback script.  Both       *)
(* containers publish the same port.  The operator runs one script at a     *)
(* time, in any order: each is a make target of its own and is documented   *)
(* as idempotent.                                                           *)
(***************************************************************************)
EXTENDS Naturals

CONSTANTS
    Window,        \* bound: probes of one canary
    MaxConsec,     \* CANARY_MAX_CONSEC_FAIL
    MaxPct,        \* CANARY_MAX_FAIL_PCT
    MayRemove,     \* the operator may docker rm the stopped OLD container
    MaxFaults      \* bound: docker commands that fail and scripts interrupted

ASSUME UpgradeAssumption ==
    /\ Window \in Nat \ {0}
    /\ MaxConsec \in Nat \ {0}
    /\ MaxPct \in 0 .. 99
    /\ MayRemove \in BOOLEAN
    /\ MaxFaults \in Nat

VARIABLES
    old,       \* the OLD container
    new,       \* the NEW container and what its backend answers
    snap,      \* the newest old_backend_state_*.json
    script,    \* the script in progress
    said,      \* what the last script told the operator in the end
    faults,    \* failed docker commands and interrupts so far
    removed,   \* history: the operator has removed OLD
    probed     \* history: the last canary has had an answer of a good NEW

vars == <<old, new, snap, script, said, faults, removed, probed>>

Idle == [pc |-> "idle", dry |-> FALSE, total |-> 0, fails |-> 0, consec |-> 0]

At(pc) == script.pc = pc
Goto(pc) == script' = [script EXCEPT !.pc = pc]
End(message) == script' = [Idle EXCEPT !.dry = script.dry] /\ said' = message

(* Preflight has passed: OLD runs, and no container has the name of NEW.      *)
Init ==
    /\ old = "running"
    /\ new = "absent"
    /\ snap = "none"
    /\ script = Idle
    /\ said = "none"
    /\ faults = 0
    /\ removed = FALSE
    /\ probed = FALSE

(* The operator starts a script.                                             *)
Start(pc, dry) ==
    /\ At("idle")
    /\ script' = [Idle EXCEPT !.pc = pc, !.dry = dry]
    /\ said' = "none"
    /\ probed' = FALSE
    /\ UNCHANGED <<old, new, snap, faults, removed>>

StartScript ==
    \/ Start("snapshot", FALSE)
    \/ Start("probe", FALSE)
    \/ \E dry \in BOOLEAN : Start("remove", dry)

(***************************************************************************)
(* 06_cutover.sh.  The ERR trap sends every failure to the auto-rollback.  *)
(***************************************************************************)

(* Faulty variant: the cutover goes on without a snapshot.                   *)
SnapshotSkipped ==
    /\ At("snapshot")
    /\ Goto("stop")
    /\ UNCHANGED <<old, new, snap, said, faults, removed, probed>>

(* The snapshot of a container that is gone is a file all the same.          *)
Snapshot ==
    /\ At("snapshot")
    /\ snap' = IF old = "absent" THEN "bad" ELSE "good"
    /\ Goto("stop")
    /\ UNCHANGED <<old, new, said, faults, removed, probed>>

StopOld ==
    /\ At("stop")
    /\ IF old = "absent"
       THEN old' = old /\ Goto("down")
       ELSE old' = "stopped" /\ Goto("up")
    /\ UNCHANGED <<new, snap, said, faults, removed, probed>>

(* compose up: a container that runs is kept, or recreated if its image is    *)
(* another by now.                                                           *)
UpNew ==
    /\ At("up")
    /\ new' \in {"starting"} \union ({new} \ {"absent"})
    /\ Goto("health")
    /\ UNCHANGED <<old, snap, said, faults, removed, probed>>

HealthPasses ==
    /\ At("health")
    /\ new \in {"serving", "wrong"}
    /\ Goto("surface")
    /\ UNCHANGED <<old, new, snap, said, faults, removed, probed>>

(* Thirty attempts without an answer.                                        *)
HealthGivesUp ==
    /\ At("health")
    /\ Goto("down")
    /\ UNCHANGED <<old, new, snap, said, faults, removed, probed>>

SurfacePasses ==
    /\ At("surface")
    /\ new = "serving"
    /\ End("cutover_complete")
    /\ UNCHANGED <<old, new, snap, faults, removed, probed>>

(* Also on a good answer: grep -q leaves early, curl fails on the closed pipe *)
(* and pipefail makes the check fail.                                        *)
SurfaceFails ==
    /\ At("surface")
    /\ Goto("down")
    /\ UNCHANGED <<old, new, snap, said, faults, removed, probed>>

(* auto_rollback: compose down ...                                           *)
DownNew ==
    /\ At("down")
    /\ new' = "absent"
    /\ Goto("restart")
    /\ UNCHANGED <<old, snap, said, faults, removed, probed>>

(* Nobody else holds the port that OLD publishes.                            *)
PortFree == new \in {"absent", "dead"}

(* Faulty variant: the auto-rollback takes NEW down and stops there.         *)
RestartOldForgotten ==
    /\ At("restart")
    /\ End("on_old")
    /\ UNCHANGED <<old, new, snap, faults, removed, probed>>

(* ... and docker start, whose failure is only reported.                     *)
RestartOld ==
    /\ At("restart")
    /\ old' = IF old # "absent" /\ PortFree THEN "running" ELSE old
    /\ End("on_old")
    /\ UNCHANGED <<new, snap, faults, removed, probed>>

(***************************************************************************)
(* 09_canary_probe.sh.                                                     *)
(***************************************************************************)

(* Faulty variant: failures in a row do not break the loop.                  *)
ProbeOn(good) ==
    /\ At("probe")
    /\ script.total < Window
    /\ good => new = "serving"
    /\ script' = [script EXCEPT !.total = @ + 1,
                                !.fails = IF good THEN @ ELSE @ + 1,
                                !.consec = IF good THEN 0 ELSE @ + 1]
    /\ probed' = (probed \/ good)
    /\ UNCHANGED <<old, new, snap, said, faults, removed>>

(* One probe; like the surface check it may fail on a good answer.           *)
Probe(good) ==
    /\ At("probe")
    /\ script.total < Window
    /\ script.consec < MaxConsec
    /\ good => new = "serving"
    /\ script' = [script EXCEPT !.total = @ + 1,
                                !.fails = IF good THEN @ ELSE @ + 1,
                                !.consec = IF good THEN 0 ELSE @ + 1]
    /\ probed' = (probed \/ good)
    /\ UNCHANGED <<old, new, snap, said, faults, removed>>

(* Faulty variant: the reason is set in the subshell and lost.               *)
AbortReasonLost == FALSE

(* ABORT_FILE is not empty.                                                  *)
AbortReason ==
    \/ script.consec >= MaxConsec
    \/ (script.fails * 100) \div script.total > MaxPct

(* The window, measured in seconds, is over after any number of probes.      *)
CanaryGreen ==
    /\ At("probe")
    /\ script.total > 0
    /\ ~AbortReason
    /\ End("canary_green")
    /\ UNCHANGED <<old, new, snap, faults, removed, probed>>

CanaryAborts ==
    /\ At("probe")
    /\ script.total > 0
    /\ AbortReason
    /\ \/ Goto("remove") /\ UNCHANGED said
       \/ End("canary_abort")
    /\ UNCHANGED <<old, new, snap, faults, removed, probed>>

(***************************************************************************)
(* 99_rollback.sh.  set -e ends it at the first command that fails.        *)
(***************************************************************************)

(* docker rm -f NEW, which a dry run skips.                                  *)
RemoveNew ==
    /\ At("remove")
    /\ new' = IF script.dry THEN new ELSE "absent"
    /\ Goto("find")
    /\ UNCHANGED <<old, snap, said, faults, removed, probed>>

(* Without any snapshot it dies, also when OLD is there to be started.       *)
FindSnapshot ==
    /\ At("find")
    /\ IF snap = "none"
       THEN End("rollback_failed")
       ELSE Goto(IF old # "absent" THEN "start" ELSE "create") /\ UNCHANGED said
    /\ UNCHANGED <<old, new, snap, faults, removed, probed>>

(* Faulty variant: a docker start that fails does not end the script.        *)
StartOldUnchecked ==
    /\ At("start")
    /\ old' = IF PortFree THEN "running" ELSE old
    /\ Goto("wait")
    /\ UNCHANGED <<new, snap, said, faults, removed, probed>>

(* docker start OLD, in a dry run as well.                                   *)
StartOld ==
    /\ At("start")
    /\ IF PortFree
       THEN old' = "running" /\ Goto("wait") /\ UNCHANGED said
       ELSE old' = old /\ End("rollback_failed")
    /\ UNCHANGED <<new, snap, faults, removed, probed>>

(* docker create from the snapshot; nothing starts the container.            *)
CreateOld ==
    /\ At("create")
    /\ snap = "good"
    /\ old' = IF script.dry THEN old ELSE "created"
    /\ Goto("wait")
    /\ UNCHANGED <<new, snap, said, faults, removed, probed>>

(* Not a snapshot, another name, no image, an entrypoint, a volume mount.    *)
CreateFails ==
    /\ At("create")
    /\ End("rollback_failed")
    /\ UNCHANGED <<old, new, snap, faults, removed, probed>>

(* The wait for OLD only warns when nobody answers.                          *)
RollbackDone ==
    /\ At("wait")
    /\ End("rollback_done")
    /\ UNCHANGED <<old, new, snap, faults, removed, probed>>

(***************************************************************************)
(* Around the scripts.                                                     *)
(***************************************************************************)

(* The backend of NEW comes up, as the right or the wrong build, or crashes;  *)
(* its restart policy starts it again.                                       *)
NewTurns ==
    /\ new \in {"starting", "serving", "dead"}
    /\ new' \in IF new = "serving" THEN {"dead"} ELSE {"serving", "wrong", "dead"}
    /\ UNCHANGED <<old, snap, script, said, faults, removed, probed>>

RemoveOld ==
    /\ MayRemove
    /\ At("idle")
    /\ old \in {"stopped", "created"}
    /\ old' = "absent"
    /\ removed' = TRUE
    /\ UNCHANGED <<new, snap, script, said, faults, probed>>

(* A docker command fails.                                                   *)
DockerFails ==
    /\ faults < MaxFaults
    /\ faults' = faults + 1
    /\ \/ script.pc \in {"stop", "up"} /\ Goto("down") /\ UNCHANGED said
       \/ At("down") /\ Goto("restart") /\ UNCHANGED said
       \/ At("restart") /\ End("on_old")
       \/ script.pc \in {"remove", "start"} /\ End("rollback_failed")
    /\ UNCHANGED <<old, new, snap, removed, probed>>

(* The terminal goes away, or Ctrl-C: there is no trap for that.             *)
Interrupted ==
    /\ faults < MaxFaults
    /\ ~At("idle")
    /\ faults' = faults + 1
    /\ End("none")
    /\ UNCHANGED <<old, new, snap, removed, probed>>

(* Between its start and its end, one step of the script in progress.        *)
Cutover ==
    \/ Snapshot \/ StopOld \/ UpNew \/ HealthPasses \/ HealthGivesUp
    \/ SurfacePasses \/ SurfaceFails \/ DownNew \/ RestartOld
Canary == (\E good \in BOOLEAN : Probe(good)) \/ CanaryGreen \/ CanaryAborts
Rollback ==
    \/ RemoveNew \/ FindSnapshot \/ StartOld \/ CreateOld \/ CreateFails \/ RollbackDone

Next ==
    \/ StartScript \/ Cutover \/ Canary \/ Rollback
    \/ NewTurns \/ RemoveOld \/ DockerFails \/ Interrupted

Spec == Init /\ [][Next]_vars

(***************************************************************************)
(* Properties.                                                             *)
(***************************************************************************)

Pcs == {"idle", "snapshot", "stop", "up", "health", "surface", "down", "restart",
        "probe", "remove", "find", "start", "create", "wait"}
Messages == {"none", "cutover_complete", "on_old", "canary_green", "canary_abort",
             "rollback_done", "rollback_failed"}

(* Every variable has its type, and the canary counts no more failures than   *)
(* probes.                                                                    *)
TypeOK ==
    /\ old \in {"running", "stopped", "created", "absent"}
    /\ new \in {"absent", "starting", "serving", "wrong", "dead"}
    /\ snap \in {"none", "good", "bad"}
    /\ script \in [pc : Pcs, dry : BOOLEAN, total : 0 .. Window, fails : 0 .. Window,
                   consec : 0 .. MaxConsec]
    /\ script.fails <= script.total
    /\ said \in Messages
    /\ faults \in Nat
    /\ removed \in BOOLEAN
    /\ probed \in BOOLEAN

(* Whenever OLD does not run there is a snapshot, without which the rollback  *)
(* would remove NEW and then die before it starts OLD: wherever a cutover is  *)
(* interrupted, the rollback script has what it asks for.                     *)
StoppedHasSnapshot == old # "running" => snap # "none"

(* Unless the operator has removed OLD, a rollback that reports success has    *)
(* OLD running, and one that reports a failure although no command failed,     *)
(* and that was no dry run, has it running too.                               *)
RollbackWorks ==
    /\ said = "rollback_done" /\ ~removed => old = "running"
    /\ said = "rollback_failed" /\ ~removed /\ ~script.dry /\ faults = 0 => old = "running"

(* No order of cutovers, canaries, rollbacks and dry runs leaves the host      *)
(* without a backend, as long as no command fails and OLD is kept.            *)
SomeoneDeployed ==
    At("idle") /\ faults = 0 /\ ~removed => old = "running" \/ new # "absent"

(* A canary is green only if NEW has answered it, right build and all.        *)
GreenWasServed == said = "canary_green" => probed

(* "ROLLBACK DONE - production is on the OLD backend again."                 *)
RollbackServes == said = "rollback_done" /\ ~script.dry => old = "running"
=============================================================================
