------------------------- MODULE DiscoveryQueueProofs -------------------------
(* Proofs about DiscoveryQueue for any number of workers, candidates, faults  *)
(* and claims that run out.                                                   *)
EXTENDS DiscoveryQueue, FiniteSetTheorems, TLAPS

USE DEF NoOutcome

(***************************************************************************)
(* Types.                                                                  *)
(***************************************************************************)

LEMMA InitType == Init => TypeOK
BY QueueAssumption DEF Init, TypeOK, RowState, WorkerState, Absent, Idle, InHand

LEMMA NextType == TypeOK /\ [Next]_vars => TypeOK'
<1> SUFFICES ASSUME TypeOK, [Next]_vars PROVE TypeOK'
  OBVIOUS
<1>1. ASSUME NEW w \in Workers, NEW c \in Candidates, Discover(w, c) PROVE TypeOK'
  BY <1>1 DEF Discover, world, history, TypeOK, RowState, Absent, Fresh
<1>2. ASSUME NEW w \in Workers, StartBatch(w) PROVE TypeOK'
  BY <1>2 DEF StartBatch, world, history, TypeOK, WorkerState, Idle, InHand
<1>3. ASSUME NEW w \in Workers, NEW c \in Candidates, Claim(w, c) PROVE TypeOK'
  <2>1. row' \in [Candidates -> RowState]
    <3>1. row \in [Candidates -> RowState] /\ w \in Workers /\ c \in Candidates
      BY DEF TypeOK
    <3>2. row' = [row EXCEPT ![c] = [[row[c] EXCEPT !.by = w] EXCEPT !.claim = "live"]]
      BY <1>3, <3>1 DEF Claim, RowState
    <3>3. [[row[c] EXCEPT !.by = w] EXCEPT !.claim = "live"] \in RowState
      BY <3>1 DEF RowState
    <3> QED
      BY <3>1, <3>2, <3>3
  <2>2. granted' \in [Candidates -> Nat]
    <3>1. granted \in [Candidates -> Nat]
      BY DEF TypeOK
    <3>2. granted' = [granted EXCEPT ![c] = granted[c] + 1]
      BY <1>3 DEF Claim
    <3> QED
      BY <3>1, <3>2
  <2>3. worker' \in [Workers -> WorkerState]
    <3>1. worker \in [Workers -> WorkerState]
      BY DEF TypeOK
    <3>2. ASSUME NEW t \in WorkerState
          PROVE  /\ [t EXCEPT !.overdue = t.overdue \ {c}] \in WorkerState
                 /\ [[t EXCEPT !.overdue = t.overdue \ {c}] EXCEPT !.batch = t.batch \union {c}] \in WorkerState
      <4> DEFINE u == [t EXCEPT !.overdue = t.overdue \ {c}]
      <4>1. u \in WorkerState /\ u.batch = t.batch
        BY DEF WorkerState
      <4> HIDE DEF u
      <4>2. [u EXCEPT !.batch = u.batch \union {c}] \in WorkerState
        BY <4>1 DEF WorkerState
      <4> QED
        BY <4>1, <4>2 DEF u
    <3>3. worker' = [v \in Workers |->
              IF v # w THEN [worker[v] EXCEPT !.overdue = worker[v].overdue \ {c}]
              ELSE [[worker[v] EXCEPT !.overdue = worker[v].overdue \ {c}]
                        EXCEPT !.batch = worker[v].batch \union {c}]]
      <4>1. \A v \in Workers : [worker[v] EXCEPT !.overdue = worker[v].overdue \ {c}].batch = worker[v].batch
        BY <3>1 DEF WorkerState
      <4> QED
        BY <4>1, <1>3 DEF Claim
    <3>4. \A v \in Workers : worker'[v] \in WorkerState
      BY <3>1, <3>2, <3>3
    <3> QED
      BY <3>3, <3>4
  <2>4. \A v \in Workers : /\ worker'[v].pc = worker[v].pc
                           /\ worker'[v].cur = worker[v].cur
                           /\ worker'[v].verdict = worker[v].verdict
    BY <1>3 DEF Claim, TypeOK, WorkerState
  <2> QED
    BY <2>1, <2>2, <2>3, <2>4, <1>3 DEF Claim, TypeOK, world
<1>4. ASSUME NEW w \in Workers, EndBatch(w) PROVE TypeOK'
  <2>1. worker' \in [Workers -> WorkerState]
    <3>1. worker \in [Workers -> WorkerState] /\ w \in Workers
      BY DEF TypeOK
    <3>2. worker' = [worker EXCEPT ![w] = [[[worker[w] EXCEPT !.pc = "batch"] EXCEPT !.overdue = {}] EXCEPT !.dead = {}]]
      BY <1>4, <3>1 DEF EndBatch
    <3>3. [[[worker[w] EXCEPT !.pc = "batch"] EXCEPT !.overdue = {}] EXCEPT !.dead = {}] \in WorkerState
      BY <3>1 DEF WorkerState
    <3> QED
      BY <3>1, <3>2, <3>3
  <2>2. \A v \in Workers : v # w => worker'[v] = worker[v]
    BY <1>4 DEF EndBatch, TypeOK
  <2>3. worker'[w].pc = "batch"
    BY <1>4 DEF EndBatch, TypeOK
  <2> QED
    BY <2>1, <2>2, <2>3, <1>4 DEF EndBatch, TypeOK, world, history, InHand
<1>5. ASSUME NEW w \in Workers, NEW c \in Candidates, Take(w, c) PROVE TypeOK'
  BY <1>5 DEF Take, TypeOK, WorkerState
<1>6. ASSUME NEW w \in Workers, NEW verdict \in Outcomes, Verify(w, verdict) PROVE TypeOK'
  <2>1. worker' \in [Workers -> WorkerState]
    <3>1. worker \in [Workers -> WorkerState] /\ w \in Workers
      BY DEF TypeOK
    <3>2. \E pc \in {"emit", "mark"} : worker' = [worker EXCEPT ![w] = [[worker[w] EXCEPT !.pc = pc] EXCEPT !.verdict = verdict]]
      BY <1>6, <3>1 DEF Verify
    <3>3. PICK pc \in {"emit", "mark"} :
              worker' = [worker EXCEPT ![w] = [[worker[w] EXCEPT !.pc = pc] EXCEPT !.verdict = verdict]]
      BY <3>2
    <3>4. [worker[w] EXCEPT !.pc = pc] \in WorkerState
      BY <3>1 DEF WorkerState
    <3>5. [[worker[w] EXCEPT !.pc = pc] EXCEPT !.verdict = verdict] \in WorkerState
      BY <3>4 DEF WorkerState, Outcomes
    <3> QED
      BY <3>1, <3>3, <3>5
  <2>2. \A v \in Workers : v # w => worker'[v] = worker[v]
    BY <1>6 DEF Verify, TypeOK
  <2>3. worker'[w].cur = worker[w].cur /\ worker'[w].verdict = verdict
    BY <1>6 DEF Verify, TypeOK
  <2> QED
    BY <2>1, <2>2, <2>3, <1>6 DEF Verify, TypeOK, world, history, InHand
<1>7. ASSUME NEW w \in Workers, Emit(w) PROVE TypeOK'
  <2>1. worker' \in [Workers -> WorkerState]
    <3>1. worker \in [Workers -> WorkerState] /\ w \in Workers
      BY DEF TypeOK
    <3>2. worker' = [worker EXCEPT ![w] = [worker[w] EXCEPT !.pc = "mark"]]
      BY <1>7, <3>1 DEF Emit
    <3> QED
      BY <3>1, <3>2 DEF WorkerState
  <2>2. \A v \in Workers : v # w => worker'[v] = worker[v]
    BY <1>7 DEF Emit
  <2>3. worker'[w].cur = worker[w].cur /\ worker'[w].verdict = worker[w].verdict
    BY <1>7 DEF Emit
  <2>4. worker[w].verdict \in Outcomes /\ worker[w].cur \in Candidates
    BY <1>7 DEF Emit, TypeOK, InHand
  <2>5. emitted' \in [Candidates -> Nat]
    BY <1>7, <2>4 DEF Emit, TypeOK
  <2> QED
    BY <2>1, <2>2, <2>3, <2>4, <2>5, <1>7 DEF Emit, TypeOK, world, InHand
<1>8. ASSUME NEW w \in Workers, Mark(w) PROVE TypeOK'
  BY <1>8 DEF Mark, history, TypeOK, WorkerState, Outcomes
<1>9. ASSUME NEW w \in Workers, EndTick(w) PROVE TypeOK'
  BY <1>9 DEF EndTick, world, history, TypeOK, WorkerState, Idle, InHand
<1>10. ASSUME NEW w \in Workers, MarkFails(w) PROVE TypeOK'
  BY <1>10 DEF MarkFails, TypeOK, WorkerState
<1>11. ASSUME NEW w \in Workers, Abandon(w) PROVE TypeOK'
  BY <1>11 DEF Abandon, history, TypeOK, WorkerState, Idle, InHand
<1>12. CASE Restart
  BY <1>12 DEF Restart, history, TypeOK, WorkerState, Idle, InHand
<1>13. ASSUME NEW c \in Candidates, ClaimRunsOut(c) PROVE TypeOK'
  BY <1>13 DEF ClaimRunsOut, TypeOK, RowState
<1>14. ASSUME NEW c \in Candidates, Expire(c) PROVE TypeOK'
  BY <1>14 DEF Expire, history, TypeOK
<1>15. CASE UNCHANGED vars
  BY <1>15 DEF vars, TypeOK
<1> QED
  BY <1>1, <1>2, <1>3, <1>4, <1>5, <1>6, <1>7, <1>8, <1>9, <1>10, <1>11, <1>12, <1>13, <1>14, <1>15
     DEF Next, Step


(***************************************************************************)
(* What three of the steps do, field by field.                             *)
(***************************************************************************)

LEMMA ClaimDoes ==
    ASSUME TypeOK, NEW w \in Workers, NEW c \in Candidates, Claim(w, c)
    PROVE  /\ \A d \in Candidates :
                  /\ row'[d].stored = row[d].stored
                  /\ row'[d].outcome = row[d].outcome
                  /\ row'[d].claim = IF d = c THEN "live" ELSE row[d].claim
           /\ \A v \in Workers :
                  /\ worker'[v].pc = worker[v].pc
                  /\ worker'[v].cur = worker[v].cur
                  /\ worker'[v].verdict = worker[v].verdict
                  /\ \A d : d \in worker'[v].batch <=> d \in worker[v].batch \/ (v = w /\ d = c)
           /\ \A d \in Candidates : granted'[d] = IF d = c THEN granted[d] + 1 ELSE granted[d]
           /\ emitted' = emitted /\ lapsed' = lapsed
<1>1. /\ row \in [Candidates -> RowState]
      /\ worker \in [Workers -> WorkerState]
      /\ granted \in [Candidates -> Nat]
  BY DEF TypeOK
<1>2. \A d \in Candidates : row'[d].stored = row[d].stored
  BY <1>1 DEF Claim, RowState
<1>3. \A d \in Candidates : row'[d].outcome = row[d].outcome
  BY <1>1 DEF Claim, RowState
<1>4. \A d \in Candidates : row'[d].claim = IF d = c THEN "live" ELSE row[d].claim
  BY <1>1 DEF Claim, RowState
<1>5. \A v \in Workers : worker'[v].pc = worker[v].pc /\ worker'[v].cur = worker[v].cur
  BY <1>1 DEF Claim, WorkerState
<1>6. \A v \in Workers : worker'[v].verdict = worker[v].verdict
  BY <1>1 DEF Claim, WorkerState
<1>7. \A v \in Workers :
          worker'[v].batch = IF v = w THEN worker[v].batch \union {c} ELSE worker[v].batch
  BY <1>1 DEF Claim, WorkerState
<1>8. \A v \in Workers :
          \A d : d \in worker'[v].batch <=> d \in worker[v].batch \/ (v = w /\ d = c)
  BY <1>7
<1>9. \A d \in Candidates : granted'[d] = IF d = c THEN granted[d] + 1 ELSE granted[d]
  BY <1>1 DEF Claim
<1>10. emitted' = emitted /\ lapsed' = lapsed
  BY DEF Claim
<1> QED
  BY <1>2, <1>3, <1>4, <1>5, <1>6, <1>8, <1>9, <1>10

LEMMA StartDoes ==
    ASSUME TypeOK, NEW w \in Workers, StartBatch(w)
    PROVE  /\ \A v \in Workers : v # w => worker'[v] = worker[v]
           /\ worker'[w].pc = "claiming"
           /\ worker'[w].batch = {}
           /\ worker'[w].cur = NoCandidate
           /\ worker'[w].overdue = {c \in Candidates : row[c].claim = "lapsed"}
           /\ row' = row /\ granted' = granted /\ emitted' = emitted /\ lapsed' = lapsed
<1> DEFINE late == {c \in Candidates : row[c].claim = "lapsed"}
<1>1. worker \in [Workers -> WorkerState]
  BY DEF TypeOK
<1>2. worker' = [worker EXCEPT ![w] = [Idle EXCEPT !.pc = "claiming", !.overdue = late, !.dead = expired]]
  BY DEF StartBatch
<1> HIDE DEF late
<1>3. worker'[w] = [Idle EXCEPT !.pc = "claiming", !.overdue = late, !.dead = expired]
  BY <1>1, <1>2
<1>4. worker'[w].pc = "claiming" /\ worker'[w].batch = {}
  BY <1>3 DEF Idle
<1>5. worker'[w].cur = NoCandidate /\ worker'[w].overdue = late
  BY <1>3 DEF Idle
<1>6. \A v \in Workers : v # w => worker'[v] = worker[v]
  BY <1>1, <1>2
<1> QED
  BY <1>4, <1>5, <1>6 DEF late, StartBatch, history

LEMMA TakeDoes ==
    ASSUME TypeOK, NEW w \in Workers, NEW c \in Candidates, Take(w, c)
    PROVE  /\ \A v \in Workers : v # w => worker'[v] = worker[v]
           /\ worker[w].pc = "batch" /\ c \in worker[w].batch
           /\ worker'[w].pc \in {"verify", "mark"}
           /\ worker'[w].batch = worker[w].batch \ {c}
           /\ worker'[w].cur = c
           /\ worker'[w].overdue = worker[w].overdue
           /\ row' = row /\ granted' = granted /\ emitted' = emitted /\ lapsed' = lapsed
<1>1. worker \in [Workers -> WorkerState]
  BY DEF TypeOK
<1>2. worker[w].pc = "batch" /\ c \in worker[w].batch
  BY DEF Take
<1>3. PICK pc \in {"verify", "mark"}, verdict \in {NoOutcome, "no_verifier"} :
          worker' = [worker EXCEPT ![w].batch = @ \ {c}, ![w].cur = c,
                                   ![w].pc = pc, ![w].verdict = verdict]
  BY DEF Take
<1>4. worker'[w].pc = pc /\ worker'[w].cur = c
  BY <1>1, <1>3 DEF WorkerState
<1>5. worker'[w].batch = worker[w].batch \ {c} /\ worker'[w].overdue = worker[w].overdue
  BY <1>1, <1>3 DEF WorkerState
<1>6. \A v \in Workers : v # w => worker'[v] = worker[v]
  BY <1>1, <1>3
<1> QED
  BY <1>2, <1>4, <1>5, <1>6 DEF Take, history

(***************************************************************************)
(* Leases.                                                                 *)
(***************************************************************************)

(* Only a stored row is claimed or has an outcome. *)
StoredFirst ==
    \A c \in Candidates :
        ~row[c].stored => row[c].outcome = NoOutcome /\ row[c].claim # "live"

(* A claim that a batch sees as overdue is not live. *)
OverdueIsNotLive ==
    \A w \in Workers : \A c \in worker[w].overdue : row[c].claim # "live"

(* A worker holds only what it has been granted. *)
HeldWasGranted ==
    \A w \in Workers, c \in Candidates :
        c \in worker[w].batch \/ worker[w].cur = c => granted[c] > 0

LEMMA NextStored == TypeOK /\ TypeOK' /\ StoredFirst /\ [Next]_vars => StoredFirst'
<1> SUFFICES ASSUME TypeOK, TypeOK', StoredFirst, [Next]_vars PROVE StoredFirst'
  OBVIOUS
<1>1. ASSUME NEW w \in Workers, NEW c \in Candidates, Discover(w, c) PROVE StoredFirst'
  BY <1>1 DEF Discover, StoredFirst, Fresh
<1>2. ASSUME NEW w \in Workers, StartBatch(w) PROVE StoredFirst'
  BY <1>2 DEF StartBatch, StoredFirst
<1>3. ASSUME NEW w \in Workers, NEW c \in Candidates, Claim(w, c) PROVE StoredFirst'
  <2>1. \A d \in Candidates :
            /\ row'[d].stored = row[d].stored
            /\ row'[d].outcome = row[d].outcome
            /\ row'[d].claim = IF d = c THEN "live" ELSE row[d].claim
    BY <1>3, ClaimDoes
  <2>2. row[c].stored
    BY <1>3 DEF Claim, Eligible
  <2> QED
    BY <2>1, <2>2 DEF StoredFirst
<1>4. ASSUME NEW w \in Workers, EndBatch(w) PROVE StoredFirst'
  BY <1>4 DEF EndBatch, StoredFirst
<1>5. ASSUME NEW w \in Workers, NEW c \in Candidates, Take(w, c) PROVE StoredFirst'
  BY <1>5 DEF Take, StoredFirst
<1>6. ASSUME NEW w \in Workers, NEW verdict \in Outcomes, Verify(w, verdict) PROVE StoredFirst'
  BY <1>6 DEF Verify, StoredFirst
<1>7. ASSUME NEW w \in Workers, Emit(w) PROVE StoredFirst'
  BY <1>7 DEF Emit, StoredFirst
<1>8. ASSUME NEW w \in Workers, Mark(w) PROVE StoredFirst'
  BY <1>8 DEF Mark, StoredFirst, Fresh
<1>9. ASSUME NEW w \in Workers, EndTick(w) PROVE StoredFirst'
  BY <1>9 DEF EndTick, StoredFirst
<1>10. ASSUME NEW w \in Workers, MarkFails(w) PROVE StoredFirst'
  BY <1>10 DEF MarkFails, TypeOK, WorkerState
<1>11. ASSUME NEW w \in Workers, Abandon(w) PROVE StoredFirst'
  BY <1>11 DEF Abandon, StoredFirst
<1>12. CASE Restart
  BY <1>12 DEF Restart, StoredFirst
<1>13. ASSUME NEW c \in Candidates, ClaimRunsOut(c) PROVE StoredFirst'
  BY <1>13 DEF ClaimRunsOut, StoredFirst
<1>14. ASSUME NEW c \in Candidates, Expire(c) PROVE StoredFirst'
  BY <1>14 DEF Expire, StoredFirst
<1>15. CASE UNCHANGED vars
  BY <1>15 DEF vars, StoredFirst
<1> QED
  BY <1>1, <1>2, <1>3, <1>4, <1>5, <1>6, <1>7, <1>8, <1>9, <1>10, <1>11, <1>12, <1>13, <1>14, <1>15
     DEF Next, Step

LEMMA NextOverdue == TypeOK /\ TypeOK' /\ OverdueIsNotLive /\ StoredFirst /\ [Next]_vars => OverdueIsNotLive'
<1> SUFFICES ASSUME TypeOK, TypeOK', OverdueIsNotLive, StoredFirst, [Next]_vars PROVE OverdueIsNotLive'
  OBVIOUS
<1>1. ASSUME NEW w \in Workers, NEW c \in Candidates, Discover(w, c) PROVE OverdueIsNotLive'
  BY <1>1 DEF Discover, OverdueIsNotLive, Absent, Fresh
<1>2. ASSUME NEW w \in Workers, StartBatch(w) PROVE OverdueIsNotLive'
  BY <1>2, StartDoes DEF OverdueIsNotLive, TypeOK
<1>3. ASSUME NEW w \in Workers, NEW c \in Candidates, Claim(w, c) PROVE OverdueIsNotLive'
  <2>1. \A d \in Candidates : row'[d].claim = IF d = c THEN "live" ELSE row[d].claim
    BY <1>3, ClaimDoes
  <2>2. \A v \in Workers : \A d \in worker'[v].overdue : d \in worker[v].overdue /\ d # c
    <3>1. worker \in [Workers -> WorkerState]
      BY DEF TypeOK
    <3>2. \A v \in Workers : worker'[v].overdue = worker[v].overdue \ {c}
      BY <3>1, <1>3 DEF Claim, WorkerState
    <3> QED
      BY <3>2
  <2>3. \A v \in Workers : worker[v].overdue \subseteq Candidates
    BY DEF TypeOK, WorkerState
  <2> QED
    BY <2>1, <2>2, <2>3 DEF OverdueIsNotLive
<1>4. ASSUME NEW w \in Workers, EndBatch(w) PROVE OverdueIsNotLive'
  BY <1>4 DEF EndBatch, OverdueIsNotLive, TypeOK
<1>5. ASSUME NEW w \in Workers, NEW c \in Candidates, Take(w, c) PROVE OverdueIsNotLive'
  BY <1>5, TakeDoes DEF OverdueIsNotLive
<1>6. ASSUME NEW w \in Workers, NEW verdict \in Outcomes, Verify(w, verdict) PROVE OverdueIsNotLive'
  BY <1>6 DEF Verify, OverdueIsNotLive, TypeOK
<1>7. ASSUME NEW w \in Workers, Emit(w) PROVE OverdueIsNotLive'
  BY <1>7 DEF Emit, OverdueIsNotLive
<1>8. ASSUME NEW w \in Workers, Mark(w) PROVE OverdueIsNotLive'
  BY <1>8 DEF Mark, OverdueIsNotLive, TypeOK, Absent, Fresh
<1>9. ASSUME NEW w \in Workers, EndTick(w) PROVE OverdueIsNotLive'
  BY <1>9 DEF EndTick, OverdueIsNotLive, Idle
<1>10. ASSUME NEW w \in Workers, MarkFails(w) PROVE OverdueIsNotLive'
  BY <1>10 DEF MarkFails, OverdueIsNotLive, TypeOK
<1>11. ASSUME NEW w \in Workers, Abandon(w) PROVE OverdueIsNotLive'
  BY <1>11 DEF Abandon, OverdueIsNotLive, Idle
<1>12. CASE Restart
  BY <1>12 DEF Restart, OverdueIsNotLive, Idle
<1>13. ASSUME NEW c \in Candidates, ClaimRunsOut(c) PROVE OverdueIsNotLive'
  BY <1>13 DEF ClaimRunsOut, OverdueIsNotLive
<1>14. ASSUME NEW c \in Candidates, Expire(c) PROVE OverdueIsNotLive'
  BY <1>14 DEF Expire, OverdueIsNotLive
<1>15. CASE UNCHANGED vars
  BY <1>15 DEF vars, OverdueIsNotLive
<1> QED
  BY <1>1, <1>2, <1>3, <1>4, <1>5, <1>6, <1>7, <1>8, <1>9, <1>10, <1>11, <1>12, <1>13, <1>14, <1>15
     DEF Next, Step

LEMMA NextGranted == TypeOK /\ TypeOK' /\ HeldWasGranted /\ [Next]_vars => HeldWasGranted'
<1> SUFFICES ASSUME TypeOK, TypeOK', HeldWasGranted, [Next]_vars PROVE HeldWasGranted'
  OBVIOUS
<1>1. ASSUME NEW w \in Workers, NEW c \in Candidates, Discover(w, c) PROVE HeldWasGranted'
  BY <1>1 DEF Discover, history, HeldWasGranted
<1>2. ASSUME NEW w \in Workers, StartBatch(w) PROVE HeldWasGranted'
  BY <1>2, StartDoes, QueueAssumption DEF HeldWasGranted, TypeOK
<1>3. ASSUME NEW w \in Workers, NEW c \in Candidates, Claim(w, c) PROVE HeldWasGranted'
  <2>1. granted \in [Candidates -> Nat]
    BY DEF TypeOK
  <2>2. \A d \in Candidates : granted'[d] = IF d = c THEN granted[d] + 1 ELSE granted[d]
    BY <1>3, ClaimDoes
  <2>3. \A v \in Workers :
            /\ worker'[v].cur = worker[v].cur
            /\ \A d : d \in worker'[v].batch <=> d \in worker[v].batch \/ (v = w /\ d = c)
    BY <1>3, ClaimDoes
  <2>4. \A d \in Candidates : granted[d] > 0 => granted'[d] > 0
    BY <2>1, <2>2
  <2>5. granted'[c] > 0
    BY <2>1, <2>2
  <2> SUFFICES ASSUME NEW v \in Workers, NEW d \in Candidates,
                      d \in worker'[v].batch \/ worker'[v].cur = d
               PROVE  granted'[d] > 0
    BY DEF HeldWasGranted
  <2>6. d \in worker[v].batch \/ worker[v].cur = d \/ d = c
    BY <2>3
  <2> QED
    BY <2>4, <2>5, <2>6 DEF HeldWasGranted
<1>4. ASSUME NEW w \in Workers, EndBatch(w) PROVE HeldWasGranted'
  BY <1>4 DEF EndBatch, history, HeldWasGranted, TypeOK
<1>5. ASSUME NEW w \in Workers, NEW c \in Candidates, Take(w, c) PROVE HeldWasGranted'
  BY <1>5, TakeDoes DEF HeldWasGranted
<1>6. ASSUME NEW w \in Workers, NEW verdict \in Outcomes, Verify(w, verdict) PROVE HeldWasGranted'
  BY <1>6 DEF Verify, history, HeldWasGranted, TypeOK
<1>7. ASSUME NEW w \in Workers, Emit(w) PROVE HeldWasGranted'
  BY <1>7 DEF Emit, HeldWasGranted
<1>8. ASSUME NEW w \in Workers, Mark(w) PROVE HeldWasGranted'
  BY <1>8, QueueAssumption DEF Mark, TypeOK, RowState, WorkerState, Absent, Fresh,
     InHand
<1>9. ASSUME NEW w \in Workers, EndTick(w) PROVE HeldWasGranted'
  BY <1>9, QueueAssumption DEF EndTick, history, HeldWasGranted, Idle
<1>10. ASSUME NEW w \in Workers, MarkFails(w) PROVE HeldWasGranted'
  BY <1>10, QueueAssumption DEF MarkFails, history, HeldWasGranted, TypeOK
<1>11. ASSUME NEW w \in Workers, Abandon(w) PROVE HeldWasGranted'
  BY <1>11, QueueAssumption DEF Abandon, history, HeldWasGranted, Idle
<1>12. CASE Restart
  BY <1>12, QueueAssumption DEF Restart, HeldWasGranted, Idle
<1>13. ASSUME NEW c \in Candidates, ClaimRunsOut(c) PROVE HeldWasGranted'
  BY <1>13 DEF ClaimRunsOut, HeldWasGranted
<1>14. ASSUME NEW c \in Candidates, Expire(c) PROVE HeldWasGranted'
  BY <1>14 DEF Expire, history, HeldWasGranted
<1>15. CASE UNCHANGED vars
  BY <1>15 DEF vars, HeldWasGranted
<1> QED
  BY <1>1, <1>2, <1>3, <1>4, <1>5, <1>6, <1>7, <1>8, <1>9, <1>10, <1>11, <1>12, <1>13, <1>14, <1>15
     DEF Next, Step


LeaseInv == TypeOK /\ StoredFirst /\ OverdueIsNotLive /\ HeldWasGranted

LEMMA InitLease == Init => LeaseInv
<1> SUFFICES ASSUME Init PROVE LeaseInv
  OBVIOUS
<1>1. TypeOK
  BY InitType
<1>2. StoredFirst /\ OverdueIsNotLive
  BY DEF Init, StoredFirst, OverdueIsNotLive, Absent, Idle
<1>3. HeldWasGranted
  BY QueueAssumption DEF Init, HeldWasGranted, Idle
<1> QED
  BY <1>1, <1>2, <1>3 DEF LeaseInv

LEMMA NextLease == LeaseInv /\ [Next]_vars => LeaseInv'
BY NextType, NextStored, NextOverdue, NextGranted DEF LeaseInv

LEMMA LeaseInvariant == Spec => []LeaseInv
BY InitLease, NextLease, PTL DEF Spec

(* In every reachable state each variable of the queue has its type.         *)
THEOREM TypeCorrect == Spec => []TypeOK
<1>1. LeaseInv => TypeOK
  BY DEF LeaseInv
<1> QED
  BY LeaseInvariant, <1>1, PTL

(* The stage of every candidate, as one function. *)
Stages == [c \in Candidates |-> StageOf(c)]

LEMMA SameStages ==
    ASSUME \A c \in Candidates :
               row'[c].outcome = row[c].outcome /\ row'[c].claim = row[c].claim
    PROVE  Stages' = Stages
BY DEF Stages, StageOf

LEMMA OneStage ==
    ASSUME NEW c \in Candidates,
           \A d \in Candidates : d # c =>
               row'[d].outcome = row[d].outcome /\ row'[d].claim = row[d].claim
    PROVE  Stages' = [Stages EXCEPT ![c] = StageOf(c)']
BY DEF Stages, StageOf

LEMMA LeaseInit == Init => Lease!Init
BY DEF Init, Lease!Init, StageOf, Absent

LEMMA LeaseNext == LeaseInv /\ LeaseInv' /\ [Next]_vars => [Lease!Next]_(Lease!vars)
<1> SUFFICES ASSUME LeaseInv, LeaseInv', [Next]_vars
             PROVE  Lease!Next \/ UNCHANGED <<Stages, granted, lapsed>>
  BY DEF Lease!vars, Stages
<1>0. /\ TypeOK /\ StoredFirst /\ OverdueIsNotLive /\ HeldWasGranted
      /\ row \in [Candidates -> RowState]
      /\ granted \in [Candidates -> Nat]
  BY DEF LeaseInv, TypeOK
<1>1. ASSUME NEW w \in Workers, NEW c \in Candidates, Discover(w, c)
      PROVE  UNCHANGED <<Stages, granted, lapsed>>
  <2>1. \A d \in Candidates : d # c => row'[d] = row[d]
    BY <1>0, <1>1 DEF Discover
  <2>2. row'[c].outcome = NoOutcome /\ row'[c].claim = "none"
    BY <1>0, <1>1 DEF Discover, Fresh, Absent
  <2>3. row[c].outcome = NoOutcome /\ row[c].claim # "live"
    BY <1>0, <1>1 DEF Discover, StoredFirst
  <2>4. StageOf(c)' = StageOf(c)
    BY <2>2, <2>3 DEF StageOf
  <2>5. Stages' = Stages
    BY <2>1, <2>4 DEF Stages, StageOf
  <2> QED
    BY <1>1, <2>5 DEF Discover, history
<1>3. ASSUME NEW w \in Workers, NEW c \in Candidates, Claim(w, c)
      PROVE  Lease!Grant(c)
  <2>1. \A d \in Candidates :
            /\ row'[d].outcome = row[d].outcome
            /\ row'[d].claim = IF d = c THEN "live" ELSE row[d].claim
    BY <1>0, <1>3, ClaimDoes
  <2>2. row[c].outcome = NoOutcome /\ row[c].claim # "live"
    BY <1>0, <1>3 DEF Claim, Eligible, OverdueIsNotLive
  <2>3. StageOf(c) = "open" /\ StageOf(c)' = "leased"
    BY <2>1, <2>2 DEF StageOf
  <2>4. Stages' = [Stages EXCEPT ![c] = "leased"]
    BY <2>1, <2>3, OneStage
  <2>5. Stages[c] = "open"
    BY <2>3 DEF Stages
  <2>6. granted' = [granted EXCEPT ![c] = @ + 1] /\ lapsed' = lapsed
    BY <1>3 DEF Claim
  <2> QED
    BY <2>4, <2>5, <2>6 DEF Lease!Grant, Stages
<1>8. ASSUME NEW w \in Workers, Mark(w)
      PROVE  Lease!Next \/ UNCHANGED <<Stages, granted, lapsed>>
  <2>0. worker[w].cur \in Candidates /\ worker[w].verdict \in Outcomes
    BY <1>0, <1>8 DEF Mark, TypeOK, InHand
  <2>1. PICK c \in Candidates : c = worker[w].cur
    BY <2>0
  <2>2. granted[c] > 0
    BY <1>0, <2>1 DEF HeldWasGranted
  <2>3. row'[c].outcome = worker[w].verdict
    BY <1>0, <1>8, <2>1 DEF Mark, Fresh, Absent
  <2>4. \A d \in Candidates : d # c => row'[d] = row[d]
    BY <1>0, <1>8, <2>1 DEF Mark
  <2>5. StageOf(c)' = "done"
    BY <2>0, <2>3 DEF StageOf, Outcomes
  <2>6. Stages' = [Stages EXCEPT ![c] = "done"]
    BY <2>1, <2>4, <2>5, OneStage
  <2>7. UNCHANGED <<granted, lapsed>>
    BY <1>8 DEF Mark, history
  <2>8. CASE StageOf(c) = "done"
    BY <2>1, <2>6, <2>7, <2>8 DEF Stages
  <2>9. CASE StageOf(c) # "done"
    <3>1. Stages[c] # "done"
      BY <2>1, <2>9 DEF Stages
    <3>2. Lease!Finish(c)
      BY <2>2, <2>6, <2>7, <3>1 DEF Lease!Finish, Stages
    <3> QED
      BY <2>1, <3>2 DEF Lease!Next
  <2> QED
    BY <2>8, <2>9
<1>13. ASSUME NEW c \in Candidates, ClaimRunsOut(c)
       PROVE  Lease!Next \/ UNCHANGED <<Stages, granted, lapsed>>
  <2>1. \A d \in Candidates : d # c => row'[d] = row[d]
    BY <1>0, <1>13 DEF ClaimRunsOut
  <2>2. row'[c].outcome = row[c].outcome /\ row'[c].claim = "lapsed" /\ row[c].claim = "live"
    BY <1>0, <1>13 DEF ClaimRunsOut, RowState
  <2>3. Stages' = [Stages EXCEPT ![c] = StageOf(c)']
    BY <2>1, OneStage
  <2>4. granted' = granted
    BY <1>13 DEF ClaimRunsOut
  <2>5. CASE row[c].outcome = NoOutcome
    <3>1. StageOf(c) = "leased" /\ StageOf(c)' = "open"
      BY <2>2, <2>5 DEF StageOf
    <3>2. lapsed' = [lapsed EXCEPT ![c] = @ + 1]
      BY <1>13, <2>5 DEF ClaimRunsOut
    <3>3. Stages[c] = "leased"
      BY <3>1 DEF Stages
    <3>4. Lease!Lapse(c)
      BY <2>3, <2>4, <3>1, <3>2, <3>3 DEF Lease!Lapse, Stages
    <3> QED
      BY <3>4 DEF Lease!Next
  <2>6. CASE row[c].outcome # NoOutcome
    <3>1. StageOf(c)' = StageOf(c)
      BY <2>2, <2>6 DEF StageOf
    <3>2. lapsed' = lapsed
      BY <1>13, <2>6 DEF ClaimRunsOut
    <3> QED
      BY <2>3, <2>4, <3>1, <3>2 DEF Stages
  <2> QED
    BY <2>5, <2>6
<1>2. ASSUME NEW w \in Workers, StartBatch(w)
      PROVE  UNCHANGED <<Stages, granted, lapsed>>
  BY <1>2, SameStages DEF StartBatch, world, history
<1>4. ASSUME NEW w \in Workers, EndBatch(w)
      PROVE  UNCHANGED <<Stages, granted, lapsed>>
  BY <1>4, SameStages DEF EndBatch, world, history
<1>5. ASSUME NEW w \in Workers, NEW c \in Candidates, Take(w, c)
      PROVE  UNCHANGED <<Stages, granted, lapsed>>
  BY <1>5, SameStages DEF Take, world, history
<1>6. ASSUME NEW w \in Workers, NEW verdict \in Outcomes, Verify(w, verdict)
      PROVE  UNCHANGED <<Stages, granted, lapsed>>
  BY <1>6, SameStages DEF Verify, world, history
<1>7. ASSUME NEW w \in Workers, Emit(w)
      PROVE  UNCHANGED <<Stages, granted, lapsed>>
  BY <1>7, SameStages DEF Emit, world, history
<1>9. ASSUME NEW w \in Workers, EndTick(w)
      PROVE  UNCHANGED <<Stages, granted, lapsed>>
  BY <1>9, SameStages DEF EndTick, world, history
<1>10. ASSUME NEW w \in Workers, MarkFails(w)
       PROVE  UNCHANGED <<Stages, granted, lapsed>>
  BY <1>10, SameStages DEF MarkFails, world, history
<1>11. ASSUME NEW w \in Workers, Abandon(w)
       PROVE  UNCHANGED <<Stages, granted, lapsed>>
  BY <1>11, SameStages DEF Abandon, world, history
<1>12. CASE Restart
  BY <1>12, SameStages DEF Restart, world, history
<1>14. ASSUME NEW c \in Candidates, Expire(c)
       PROVE  UNCHANGED <<Stages, granted, lapsed>>
  BY <1>14, SameStages DEF Expire, world, history
<1>15. CASE UNCHANGED vars
  BY <1>15, SameStages DEF vars
<1> QED
  BY <1>1, <1>2, <1>3, <1>4, <1>5, <1>6, <1>7, <1>8, <1>9, <1>10, <1>11, <1>12, <1>13, <1>14, <1>15
     DEF Next, Step, Lease!Next

(* The queue implements work leases: a candidate is claimed again only after *)
(* its claim has run out, and what is settled stays settled.                 *)
THEOREM ImplementsWorkLease == Spec => LeasePromise
<1>1. LeaseInv /\ LeaseInv' /\ [Next]_vars => [Lease!Next]_(Lease!vars)
  BY LeaseNext
<1> QED
  BY LeaseInvariant, LeaseInit, <1>1, PTL DEF Spec, LeasePromise, Lease!Spec

(***************************************************************************)
(* Claims, emissions and outcomes.  Whoever holds a candidate was granted  *)
(* it, so holders and emissions are counted against the claims granted;    *)
(* and a claim is only granted again once the one before has run out.      *)
(***************************************************************************)

(* A worker has a row in hand only between taking it and marking it, and no   *)
(* longer in its batch; what it is about to emit is confirmed.                *)
Shape ==
    \A w \in Workers :
        /\ worker[w].pc \notin InHand => worker[w].cur = NoCandidate
        /\ worker[w].cur \notin worker[w].batch
        /\ worker[w].pc = "emit" => worker[w].verdict = "confirmed"

Done(c) == row[c].outcome # NoOutcome

(* As long as a candidate has no outcome, all its claims but a live one have  *)
(* run out.                                                                   *)
Granting ==
    \A c \in Candidates :
        /\ ~Done(c) /\ row[c].claim = "live" => granted[c] = lapsed[c] + 1
        /\ ~Done(c) /\ row[c].claim # "live" => granted[c] = lapsed[c]
        /\ granted[c] <= lapsed[c] + 1

HoldersOf(c) == {w \in Workers : c \in worker[w].batch \/ worker[w].cur = c}

(* The holders of a candidate that have not been past its emission. *)
Unemitted(c) ==
    {w \in Workers : \/ c \in worker[w].batch
                     \/ worker[w].cur = c /\ worker[w].pc \in {"verify", "emit"}}

(* Every holder has a claim of its own, and so has the outcome. *)
HoldersCounted ==
    \A c \in Candidates :
        /\ Cardinality(HoldersOf(c)) <= granted[c]
        /\ Done(c) => Cardinality(HoldersOf(c)) + 1 <= granted[c]

(* Every emission, made or to come, has a claim of its own. *)
EmissionsCounted ==
    \A c \in Candidates : emitted[c] + Cardinality(Unemitted(c)) <= granted[c]

LEMMA NextShape == TypeOK /\ TypeOK' /\ Shape /\ [Next]_vars => Shape'
<1> SUFFICES ASSUME TypeOK, TypeOK', Shape, [Next]_vars PROVE Shape'
  OBVIOUS
<1>1. ASSUME NEW w \in Workers, NEW c \in Candidates, Discover(w, c) PROVE Shape'
  BY <1>1 DEF Discover, Shape
<1>2. ASSUME NEW w \in Workers, StartBatch(w) PROVE Shape'
  BY <1>2, StartDoes DEF Shape, TypeOK, InHand
<1>3. ASSUME NEW w \in Workers, NEW c \in Candidates, Claim(w, c) PROVE Shape'
  <2>1. \A v \in Workers :
            /\ worker'[v].pc = worker[v].pc
            /\ worker'[v].cur = worker[v].cur
            /\ worker'[v].verdict = worker[v].verdict
            /\ \A d : d \in worker'[v].batch <=> d \in worker[v].batch \/ (v = w /\ d = c)
    BY <1>3, ClaimDoes
  <2>2. worker[w].cur = NoCandidate
    BY <1>3 DEF Claim, Shape, InHand
  <2> QED
    BY <2>1, <2>2, QueueAssumption DEF Shape
<1>4. ASSUME NEW w \in Workers, EndBatch(w) PROVE Shape'
  BY <1>4 DEF EndBatch, Shape, TypeOK, InHand
<1>5. ASSUME NEW w \in Workers, NEW c \in Candidates, Take(w, c) PROVE Shape'
  BY <1>5, TakeDoes DEF Shape, InHand
<1>6. ASSUME NEW w \in Workers, NEW verdict \in Outcomes, Verify(w, verdict) PROVE Shape'
  BY <1>6 DEF Verify, Shape, TypeOK, InHand
<1>7. ASSUME NEW w \in Workers, Emit(w) PROVE Shape'
  BY <1>7 DEF Emit, Shape, InHand
<1>8. ASSUME NEW w \in Workers, Mark(w) PROVE Shape'
  BY <1>8 DEF Mark, Shape, TypeOK, WorkerState
<1>9. ASSUME NEW w \in Workers, EndTick(w) PROVE Shape'
  BY <1>9 DEF EndTick, Shape, Idle
<1>10. ASSUME NEW w \in Workers, MarkFails(w) PROVE Shape'
  BY <1>10 DEF MarkFails, TypeOK, WorkerState
<1>11. ASSUME NEW w \in Workers, Abandon(w) PROVE Shape'
  BY <1>11 DEF Abandon, Shape, Idle
<1>12. CASE Restart
  BY <1>12 DEF Restart, Shape, Idle
<1>13. ASSUME NEW c \in Candidates, ClaimRunsOut(c) PROVE Shape'
  BY <1>13 DEF ClaimRunsOut, Shape
<1>14. ASSUME NEW c \in Candidates, Expire(c) PROVE Shape'
  BY <1>14 DEF Expire, Shape
<1>15. CASE UNCHANGED vars
  BY <1>15 DEF vars, Shape
<1> QED
  BY <1>1, <1>2, <1>3, <1>4, <1>5, <1>6, <1>7, <1>8, <1>9, <1>10, <1>11, <1>12, <1>13, <1>14, <1>15
     DEF Next, Step

LEMMA NextGranting == TypeOK /\ TypeOK' /\ StoredFirst /\ OverdueIsNotLive /\ Granting /\ [Next]_vars => Granting'
<1> SUFFICES ASSUME TypeOK, TypeOK', StoredFirst, OverdueIsNotLive, Granting, [Next]_vars PROVE Granting'
  OBVIOUS
<1>1. ASSUME NEW w \in Workers, NEW c \in Candidates, Discover(w, c) PROVE Granting'
  BY <1>1 DEF Discover, history, Granting, Done, StoredFirst, Absent, Fresh
<1>2. ASSUME NEW w \in Workers, StartBatch(w) PROVE Granting'
  BY <1>2 DEF StartBatch, history, Granting, Done
<1>3. ASSUME NEW w \in Workers, NEW c \in Candidates, Claim(w, c) PROVE Granting'
  <2>1. /\ granted \in [Candidates -> Nat]
        /\ lapsed \in [Candidates -> Nat]
    BY DEF TypeOK
  <2>2. \A d \in Candidates :
            /\ row'[d].outcome = row[d].outcome
            /\ row'[d].claim = IF d = c THEN "live" ELSE row[d].claim
    BY <1>3, ClaimDoes
  <2>3. \A d \in Candidates : granted'[d] = IF d = c THEN granted[d] + 1 ELSE granted[d]
    BY <1>3, ClaimDoes
  <2>4. lapsed' = lapsed
    BY <1>3 DEF Claim
  <2>5. row[c].outcome = NoOutcome /\ row[c].claim # "live"
    BY <1>3 DEF Claim, Eligible, OverdueIsNotLive
  <2>6. granted[c] = lapsed[c]
    BY <2>5 DEF Granting, Done
  <2> QED
    BY <2>1, <2>2, <2>3, <2>4, <2>5, <2>6 DEF Granting, Done
<1>4. ASSUME NEW w \in Workers, EndBatch(w) PROVE Granting'
  BY <1>4 DEF EndBatch, history, Granting, Done
<1>5. ASSUME NEW w \in Workers, NEW c \in Candidates, Take(w, c) PROVE Granting'
  BY <1>5 DEF Take, history, Granting, Done
<1>6. ASSUME NEW w \in Workers, NEW verdict \in Outcomes, Verify(w, verdict) PROVE Granting'
  BY <1>6 DEF Verify, history, Granting, Done
<1>7. ASSUME NEW w \in Workers, Emit(w) PROVE Granting'
  BY <1>7 DEF Emit, Granting, Done
<1>8. ASSUME NEW w \in Workers, Mark(w) PROVE Granting'
  <2>1. worker[w].cur \in Candidates /\ worker[w].verdict \in Outcomes
    BY <1>8 DEF Mark, TypeOK, InHand
  <2>2. PICK c \in Candidates : c = worker[w].cur
    BY <2>1
  <2>3. \A d \in Candidates : d # c => row'[d] = row[d]
    BY <1>8, <2>2 DEF Mark, TypeOK
  <2>4. Done(c)'
    <3>1. row'[c].outcome = worker[w].verdict
      BY <1>8, <2>2 DEF Mark, Fresh, Absent, TypeOK
    <3> QED
      BY <2>1, <3>1 DEF Done, Outcomes
  <2>5. granted' = granted /\ lapsed' = lapsed
    BY <1>8 DEF Mark, history
  <2>6. \A d \in Candidates : d # c => (Done(d)' <=> Done(d))
    BY <2>3 DEF Done
  <2> QED
    BY <2>3, <2>4, <2>5, <2>6 DEF Granting
<1>9. ASSUME NEW w \in Workers, EndTick(w) PROVE Granting'
  BY <1>9 DEF EndTick, history, Granting, Done
<1>10. ASSUME NEW w \in Workers, MarkFails(w) PROVE Granting'
  BY <1>10 DEF MarkFails, TypeOK, WorkerState
<1>11. ASSUME NEW w \in Workers, Abandon(w) PROVE Granting'
  BY <1>11 DEF Abandon, history, Granting, Done
<1>12. CASE Restart
  BY <1>12 DEF Restart, history, Granting, Done
<1>13. ASSUME NEW c \in Candidates, ClaimRunsOut(c) PROVE Granting'
  BY <1>13 DEF ClaimRunsOut, Granting, Done, TypeOK
<1>14. ASSUME NEW c \in Candidates, Expire(c) PROVE Granting'
  BY <1>14 DEF Expire, history, Granting, Done
<1>15. CASE UNCHANGED vars
  BY <1>15 DEF vars, Granting, Done
<1> QED
  BY <1>1, <1>2, <1>3, <1>4, <1>5, <1>6, <1>7, <1>8, <1>9, <1>10, <1>11, <1>12, <1>13, <1>14, <1>15
     DEF Next, Step

(* Only a claim adds a holder. *)
LEMMA HoldersShrink ==
    ASSUME TypeOK, Shape, [Next]_vars, NEW c \in Candidates,
           \A w \in Workers : ~Claim(w, c)
    PROVE  HoldersOf(c)' \subseteq HoldersOf(c) /\ Unemitted(c)' \subseteq Unemitted(c)
<1>1. ASSUME NEW w \in Workers, NEW x \in Candidates, Discover(w, x)
      PROVE  HoldersOf(c)' \subseteq HoldersOf(c) /\ Unemitted(c)' \subseteq Unemitted(c)
  BY <1>1 DEF Discover, HoldersOf, Unemitted
<1>2. ASSUME NEW w \in Workers, StartBatch(w)
      PROVE  HoldersOf(c)' \subseteq HoldersOf(c) /\ Unemitted(c)' \subseteq Unemitted(c)
  BY <1>2, StartDoes, QueueAssumption DEF HoldersOf, Unemitted
<1>3. ASSUME NEW w \in Workers, NEW x \in Candidates, Claim(w, x)
      PROVE  HoldersOf(c)' \subseteq HoldersOf(c) /\ Unemitted(c)' \subseteq Unemitted(c)
  <2>1. x # c
    BY <1>3
  <2>2. \A v \in Workers :
            /\ worker'[v].pc = worker[v].pc
            /\ worker'[v].cur = worker[v].cur
            /\ \A e : e \in worker'[v].batch <=> e \in worker[v].batch \/ (v = w /\ e = x)
    BY <1>3, ClaimDoes
  <2> QED
    BY <2>1, <2>2 DEF HoldersOf, Unemitted
<1>4. ASSUME NEW w \in Workers, EndBatch(w)
      PROVE  HoldersOf(c)' \subseteq HoldersOf(c) /\ Unemitted(c)' \subseteq Unemitted(c)
  BY <1>4 DEF EndBatch, HoldersOf, Unemitted, TypeOK
<1>5. ASSUME NEW w \in Workers, NEW x \in Candidates, Take(w, x)
      PROVE  HoldersOf(c)' \subseteq HoldersOf(c) /\ Unemitted(c)' \subseteq Unemitted(c)
  BY <1>5 DEF Take, HoldersOf, Unemitted, TypeOK
<1>6. ASSUME NEW w \in Workers, NEW verdict \in Outcomes, Verify(w, verdict)
      PROVE  HoldersOf(c)' \subseteq HoldersOf(c) /\ Unemitted(c)' \subseteq Unemitted(c)
  BY <1>6 DEF Verify, HoldersOf, Unemitted, TypeOK
<1>7. ASSUME NEW w \in Workers, Emit(w)
      PROVE  HoldersOf(c)' \subseteq HoldersOf(c) /\ Unemitted(c)' \subseteq Unemitted(c)
  BY <1>7 DEF Emit, HoldersOf, Unemitted
<1>8. ASSUME NEW w \in Workers, Mark(w)
      PROVE  HoldersOf(c)' \subseteq HoldersOf(c) /\ Unemitted(c)' \subseteq Unemitted(c)
  BY <1>8, QueueAssumption DEF Mark, HoldersOf, Unemitted, TypeOK
<1>9. ASSUME NEW w \in Workers, EndTick(w)
      PROVE  HoldersOf(c)' \subseteq HoldersOf(c) /\ Unemitted(c)' \subseteq Unemitted(c)
  BY <1>9, QueueAssumption DEF EndTick, HoldersOf, Unemitted, Idle
<1>10. ASSUME NEW w \in Workers, MarkFails(w)
       PROVE  HoldersOf(c)' \subseteq HoldersOf(c) /\ Unemitted(c)' \subseteq Unemitted(c)
  BY <1>10, QueueAssumption DEF MarkFails, HoldersOf, Unemitted, TypeOK
<1>11. ASSUME NEW w \in Workers, Abandon(w)
       PROVE  HoldersOf(c)' \subseteq HoldersOf(c) /\ Unemitted(c)' \subseteq Unemitted(c)
  BY <1>11, QueueAssumption DEF Abandon, HoldersOf, Unemitted, Idle
<1>12. CASE Restart
  BY <1>12, QueueAssumption DEF Restart, HoldersOf, Unemitted, Idle
<1>13. ASSUME NEW x \in Candidates, ClaimRunsOut(x)
       PROVE  HoldersOf(c)' \subseteq HoldersOf(c) /\ Unemitted(c)' \subseteq Unemitted(c)
  BY <1>13 DEF ClaimRunsOut, HoldersOf, Unemitted
<1>14. ASSUME NEW x \in Candidates, Expire(x)
       PROVE  HoldersOf(c)' \subseteq HoldersOf(c) /\ Unemitted(c)' \subseteq Unemitted(c)
  BY <1>14 DEF Expire, HoldersOf, Unemitted
<1>15. CASE UNCHANGED vars
  BY <1>15 DEF vars, HoldersOf, Unemitted
<1> QED
  BY <1>1, <1>2, <1>3, <1>4, <1>5, <1>6, <1>7, <1>8, <1>9, <1>10, <1>11, <1>12, <1>13, <1>14, <1>15
     DEF Next, Step

(* Only claiming a candidate grants it. *)
LEMMA GrantedByClaim ==
    ASSUME TypeOK, [Next]_vars, NEW c \in Candidates,
           \A w \in Workers : ~Claim(w, c)
    PROVE  granted'[c] = granted[c]
<1>1. ASSUME NEW w \in Workers, NEW x \in Candidates, Discover(w, x)
      PROVE  granted'[c] = granted[c]
  BY <1>1 DEF Discover, world, history, TypeOK
<1>2. ASSUME NEW w \in Workers, StartBatch(w)
      PROVE  granted'[c] = granted[c]
  BY <1>2, StartDoes DEF Done
<1>3. ASSUME NEW w \in Workers, NEW x \in Candidates, Claim(w, x)
      PROVE  granted'[c] = granted[c]
  BY <1>3, ClaimDoes DEF Done
<1>4. ASSUME NEW w \in Workers, EndBatch(w)
      PROVE  granted'[c] = granted[c]
  BY <1>4 DEF EndBatch, world, history, TypeOK
<1>5. ASSUME NEW w \in Workers, NEW x \in Candidates, Take(w, x)
      PROVE  granted'[c] = granted[c]
  BY <1>5 DEF Take, world, history, TypeOK
<1>6. ASSUME NEW w \in Workers, NEW verdict \in Outcomes, Verify(w, verdict)
      PROVE  granted'[c] = granted[c]
  BY <1>6 DEF Verify, world, history, TypeOK
<1>7. ASSUME NEW w \in Workers, Emit(w)
      PROVE  granted'[c] = granted[c]
  BY <1>7 DEF Emit, world, history, TypeOK
<1>8. ASSUME NEW w \in Workers, Mark(w)
      PROVE  granted'[c] = granted[c]
  BY <1>8 DEF Mark, world, history, TypeOK
<1>9. ASSUME NEW w \in Workers, EndTick(w)
      PROVE  granted'[c] = granted[c]
  BY <1>9 DEF EndTick, world, history, TypeOK
<1>10. ASSUME NEW w \in Workers, MarkFails(w)
       PROVE  granted'[c] = granted[c]
  BY <1>10 DEF MarkFails, world, history, TypeOK
<1>11. ASSUME NEW w \in Workers, Abandon(w)
       PROVE  granted'[c] = granted[c]
  BY <1>11 DEF Abandon, world, history, TypeOK
<1>12. CASE Restart
  BY <1>12 DEF Restart, world, history, TypeOK
<1>13. ASSUME NEW x \in Candidates, ClaimRunsOut(x)
       PROVE  granted'[c] = granted[c]
  BY <1>13 DEF ClaimRunsOut, world, history, TypeOK
<1>14. ASSUME NEW x \in Candidates, Expire(x)
       PROVE  granted'[c] = granted[c]
  BY <1>14 DEF Expire, world, history, TypeOK
<1>15. CASE UNCHANGED vars
  BY <1>15 DEF vars, TypeOK
<1> QED
  BY <1>1, <1>2, <1>3, <1>4, <1>5, <1>6, <1>7, <1>8, <1>9, <1>10, <1>11, <1>12, <1>13, <1>14, <1>15
     DEF Next, Step

(* Only a worker with the candidate in hand emits it. *)
LEMMA EmittedByEmit ==
    ASSUME TypeOK, [Next]_vars, NEW c \in Candidates,
           \A w \in Workers : ~(Emit(w) /\ worker[w].cur = c)
    PROVE  emitted'[c] = emitted[c]
<1>1. ASSUME NEW w \in Workers, NEW x \in Candidates, Discover(w, x)
      PROVE  emitted'[c] = emitted[c]
  BY <1>1 DEF Discover, world, history, TypeOK
<1>2. ASSUME NEW w \in Workers, StartBatch(w)
      PROVE  emitted'[c] = emitted[c]
  BY <1>2, StartDoes DEF Done
<1>3. ASSUME NEW w \in Workers, NEW x \in Candidates, Claim(w, x)
      PROVE  emitted'[c] = emitted[c]
  BY <1>3, ClaimDoes DEF Done
<1>4. ASSUME NEW w \in Workers, EndBatch(w)
      PROVE  emitted'[c] = emitted[c]
  BY <1>4 DEF EndBatch, world, history, TypeOK
<1>5. ASSUME NEW w \in Workers, NEW x \in Candidates, Take(w, x)
      PROVE  emitted'[c] = emitted[c]
  BY <1>5 DEF Take, world, history, TypeOK
<1>6. ASSUME NEW w \in Workers, NEW verdict \in Outcomes, Verify(w, verdict)
      PROVE  emitted'[c] = emitted[c]
  BY <1>6 DEF Verify, world, history, TypeOK
<1>7. ASSUME NEW w \in Workers, Emit(w)
      PROVE  emitted'[c] = emitted[c]
  BY <1>7 DEF Emit, world, history, TypeOK
<1>8. ASSUME NEW w \in Workers, Mark(w)
      PROVE  emitted'[c] = emitted[c]
  BY <1>8 DEF Mark, world, history, TypeOK
<1>9. ASSUME NEW w \in Workers, EndTick(w)
      PROVE  emitted'[c] = emitted[c]
  BY <1>9 DEF EndTick, world, history, TypeOK
<1>10. ASSUME NEW w \in Workers, MarkFails(w)
       PROVE  emitted'[c] = emitted[c]
  BY <1>10 DEF MarkFails, world, history, TypeOK
<1>11. ASSUME NEW w \in Workers, Abandon(w)
       PROVE  emitted'[c] = emitted[c]
  BY <1>11 DEF Abandon, world, history, TypeOK
<1>12. CASE Restart
  BY <1>12 DEF Restart, world, history, TypeOK
<1>13. ASSUME NEW x \in Candidates, ClaimRunsOut(x)
       PROVE  emitted'[c] = emitted[c]
  BY <1>13 DEF ClaimRunsOut, world, history, TypeOK
<1>14. ASSUME NEW x \in Candidates, Expire(x)
       PROVE  emitted'[c] = emitted[c]
  BY <1>14 DEF Expire, world, history, TypeOK
<1>15. CASE UNCHANGED vars
  BY <1>15 DEF vars, TypeOK
<1> QED
  BY <1>1, <1>2, <1>3, <1>4, <1>5, <1>6, <1>7, <1>8, <1>9, <1>10, <1>11, <1>12, <1>13, <1>14, <1>15
     DEF Next, Step

(* Only a worker with the candidate in hand writes its outcome; discovering it
   anew is not possible. *)
LEMMA OutcomeByMark ==
    ASSUME TypeOK, [Next]_vars, NEW c \in Candidates,
           \A w \in Workers : ~(Mark(w) /\ worker[w].cur = c), Done(c)'
    PROVE  Done(c) /\ row'[c].outcome = row[c].outcome
<1>1. ASSUME NEW w \in Workers, NEW x \in Candidates, Discover(w, x)
      PROVE  Done(c) /\ row'[c].outcome = row[c].outcome
  BY <1>1 DEF Discover, Done, Fresh, Absent
<1>2. ASSUME NEW w \in Workers, StartBatch(w)
      PROVE  Done(c) /\ row'[c].outcome = row[c].outcome
  BY <1>2, StartDoes DEF Done
<1>3. ASSUME NEW w \in Workers, NEW x \in Candidates, Claim(w, x)
      PROVE  Done(c) /\ row'[c].outcome = row[c].outcome
  BY <1>3, ClaimDoes DEF Done
<1>4. ASSUME NEW w \in Workers, EndBatch(w)
      PROVE  Done(c) /\ row'[c].outcome = row[c].outcome
  BY <1>4 DEF EndBatch, Done
<1>5. ASSUME NEW w \in Workers, NEW x \in Candidates, Take(w, x)
      PROVE  Done(c) /\ row'[c].outcome = row[c].outcome
  BY <1>5 DEF Take, Done
<1>6. ASSUME NEW w \in Workers, NEW verdict \in Outcomes, Verify(w, verdict)
      PROVE  Done(c) /\ row'[c].outcome = row[c].outcome
  BY <1>6 DEF Verify, Done
<1>7. ASSUME NEW w \in Workers, Emit(w)
      PROVE  Done(c) /\ row'[c].outcome = row[c].outcome
  BY <1>7 DEF Emit, Done
<1>8. ASSUME NEW w \in Workers, Mark(w)
      PROVE  Done(c) /\ row'[c].outcome = row[c].outcome
  <2>1. worker[w].cur # c
    BY <1>8
  <2>2. row'[c] = row[c]
    BY <1>8, <2>1 DEF Mark, TypeOK
  <2> QED
    BY <2>2 DEF Done
<1>9. ASSUME NEW w \in Workers, EndTick(w)
      PROVE  Done(c) /\ row'[c].outcome = row[c].outcome
  BY <1>9 DEF EndTick, Done
<1>10. ASSUME NEW w \in Workers, MarkFails(w)
       PROVE  Done(c) /\ row'[c].outcome = row[c].outcome
  BY <1>10 DEF MarkFails, Done
<1>11. ASSUME NEW w \in Workers, Abandon(w)
       PROVE  Done(c) /\ row'[c].outcome = row[c].outcome
  BY <1>11 DEF Abandon, Done
<1>12. CASE Restart
  BY <1>12 DEF Restart, Done
<1>13. ASSUME NEW x \in Candidates, ClaimRunsOut(x)
       PROVE  Done(c) /\ row'[c].outcome = row[c].outcome
  BY <1>13 DEF ClaimRunsOut, Done
<1>14. ASSUME NEW x \in Candidates, Expire(x)
       PROVE  Done(c) /\ row'[c].outcome = row[c].outcome
  BY <1>14 DEF Expire, Done
<1>15. CASE UNCHANGED vars
  BY <1>15 DEF vars, Done
<1> QED
  BY <1>1, <1>2, <1>3, <1>4, <1>5, <1>6, <1>7, <1>8, <1>9, <1>10, <1>11, <1>12, <1>13, <1>14, <1>15
     DEF Next, Step

LEMMA HoldersFinite ==
    ASSUME NEW c \in Candidates
    PROVE  /\ IsFiniteSet(HoldersOf(c)) /\ IsFiniteSet(Unemitted(c))
           /\ Cardinality(HoldersOf(c)) \in Nat /\ Cardinality(Unemitted(c)) \in Nat
<1>1. HoldersOf(c) \subseteq Workers /\ Unemitted(c) \subseteq Workers
  BY DEF HoldersOf, Unemitted
<1>2. IsFiniteSet(HoldersOf(c)) /\ IsFiniteSet(Unemitted(c))
  BY <1>1, QueueAssumption, FS_Subset
<1> QED
  BY <1>2, FS_CardinalityType

(* How a finite set's cardinality is bounded by another's. *)
LEMMA Sizes ==
    ASSUME NEW S, IsFiniteSet(S), NEW T, NEW e
    PROVE  /\ Cardinality(S) \in Nat
           /\ T \subseteq S => Cardinality(T) \in Nat /\ Cardinality(T) <= Cardinality(S)
           /\ T \subseteq S \union {e} => Cardinality(T) \in Nat /\ Cardinality(T) <= Cardinality(S) + 1
           /\ e \in S /\ T \subseteq S \ {e} => Cardinality(T) \in Nat /\ Cardinality(T) + 1 <= Cardinality(S)
<1>1. Cardinality(S) \in Nat
  BY FS_CardinalityType
<1>2. T \subseteq S => Cardinality(T) \in Nat /\ Cardinality(T) <= Cardinality(S)
  BY FS_Subset, FS_CardinalityType
<1>3. T \subseteq S \union {e} => Cardinality(T) \in Nat /\ Cardinality(T) <= Cardinality(S) + 1
  <2>1. /\ IsFiniteSet(S \union {e})
        /\ Cardinality(S \union {e}) <= Cardinality(S) + 1
        /\ Cardinality(S \union {e}) \in Nat
    BY <1>1, FS_AddElement, FS_CardinalityType
  <2>2. T \subseteq S \union {e} => IsFiniteSet(T) /\ Cardinality(T) <= Cardinality(S \union {e})
    BY <2>1, FS_Subset
  <2>3. IsFiniteSet(T) => Cardinality(T) \in Nat
    BY FS_CardinalityType
  <2> QED
    BY <1>1, <2>1, <2>2, <2>3
<1>4. e \in S /\ T \subseteq S \ {e} => Cardinality(T) \in Nat /\ Cardinality(T) + 1 <= Cardinality(S)
  <2> SUFFICES ASSUME e \in S, T \subseteq S \ {e}
               PROVE  Cardinality(T) \in Nat /\ Cardinality(T) + 1 <= Cardinality(S)
    OBVIOUS
  <2>1. /\ IsFiniteSet(S \ {e})
        /\ Cardinality(S \ {e}) = Cardinality(S) - 1
    BY FS_RemoveElement
  <2>2. Cardinality(T) <= Cardinality(S \ {e}) /\ IsFiniteSet(T)
    BY <2>1, FS_Subset
  <2>3. Cardinality(T) \in Nat
    BY <2>2, FS_CardinalityType
  <2> QED
    BY <1>1, <2>1, <2>2, <2>3
<1> QED
  BY <1>1, <1>2, <1>3, <1>4

LEMMA NextHolders ==
    ASSUME TypeOK, TypeOK', Shape, OverdueIsNotLive, Granting, HoldersCounted, [Next]_vars
    PROVE  HoldersCounted'
<1> SUFFICES ASSUME NEW c \in Candidates
             PROVE  /\ Cardinality(HoldersOf(c)') <= granted'[c]
                    /\ Done(c)' => Cardinality(HoldersOf(c)') + 1 <= granted'[c]
  BY DEF HoldersCounted
<1>1. /\ IsFiniteSet(HoldersOf(c)) /\ Cardinality(HoldersOf(c)) \in Nat
      /\ granted[c] \in Nat
      /\ Cardinality(HoldersOf(c)) <= granted[c]
      /\ Done(c) => Cardinality(HoldersOf(c)) + 1 <= granted[c]
  BY HoldersFinite DEF TypeOK, HoldersCounted
<1>2. ASSUME NEW w \in Workers, Claim(w, c)
      PROVE  /\ Cardinality(HoldersOf(c)') <= granted'[c]
             /\ ~Done(c)'
  <2>1. ~Done(c)'
    BY <1>2, ClaimDoes DEF Done, Claim, Eligible
  <2>2. \A v \in Workers :
            /\ worker'[v].cur = worker[v].cur
            /\ \A d : d \in worker'[v].batch <=> d \in worker[v].batch \/ (v = w /\ d = c)
    BY <1>2, ClaimDoes
  <2>3. HoldersOf(c)' \subseteq HoldersOf(c) \union {w}
    BY <2>2 DEF HoldersOf
  <2>4. granted'[c] = granted[c] + 1
    BY <1>2, ClaimDoes
  <2>5. Cardinality(HoldersOf(c)') \in Nat /\ Cardinality(HoldersOf(c)') <= Cardinality(HoldersOf(c)) + 1
    BY <1>1, <2>3, Sizes
  <2> QED
    BY <1>1, <2>1, <2>4, <2>5
<1>3. ASSUME \A w \in Workers : ~Claim(w, c)
      PROVE  /\ Cardinality(HoldersOf(c)') <= granted'[c]
             /\ Done(c)' => Cardinality(HoldersOf(c)') + 1 <= granted'[c]
  <2>1. granted'[c] = granted[c]
    BY <1>3, GrantedByClaim
  <2>2. HoldersOf(c)' \subseteq HoldersOf(c)
    BY <1>3, HoldersShrink
  <2>3. Cardinality(HoldersOf(c)') \in Nat /\ Cardinality(HoldersOf(c)') <= Cardinality(HoldersOf(c))
    BY <1>1, <2>2, Sizes
  <2>4. ASSUME NEW w \in Workers, Mark(w), worker[w].cur = c
        PROVE  Cardinality(HoldersOf(c)') + 1 <= granted'[c]
    <3>1. w \in HoldersOf(c)
      BY <2>4 DEF HoldersOf
    <3>2. w \notin HoldersOf(c)'
      <4>1. worker'[w].cur = NoCandidate /\ worker'[w].batch = worker[w].batch
        BY <2>4 DEF Mark, TypeOK, WorkerState
      <4>2. c \notin worker[w].batch
        BY <2>4 DEF Shape
      <4> QED
        BY <4>1, <4>2, QueueAssumption DEF HoldersOf
    <3>3. HoldersOf(c)' \subseteq HoldersOf(c) \ {w}
      BY <2>2, <3>2
    <3>4. Cardinality(HoldersOf(c)') + 1 <= Cardinality(HoldersOf(c))
      BY <1>1, <3>1, <3>3, Sizes
    <3> QED
      BY <1>1, <2>1, <2>3, <3>4
  <2>5. ASSUME \A w \in Workers : ~(Mark(w) /\ worker[w].cur = c), Done(c)'
        PROVE  Cardinality(HoldersOf(c)') + 1 <= granted'[c]
    <3>1. Done(c)
      BY <2>5, OutcomeByMark
    <3> QED
      BY <1>1, <2>1, <2>3, <3>1
  <2> QED
    BY <1>1, <2>1, <2>3, <2>4, <2>5
<1> QED
  BY <1>2, <1>3

LEMMA NextEmissions ==
    ASSUME TypeOK, TypeOK', Shape, EmissionsCounted, [Next]_vars
    PROVE  EmissionsCounted'
<1> SUFFICES ASSUME NEW c \in Candidates
             PROVE  emitted'[c] + Cardinality(Unemitted(c)') <= granted'[c]
  BY DEF EmissionsCounted
<1>1. /\ IsFiniteSet(Unemitted(c)) /\ Cardinality(Unemitted(c)) \in Nat
      /\ granted[c] \in Nat /\ emitted[c] \in Nat
      /\ emitted[c] + Cardinality(Unemitted(c)) <= granted[c]
  BY HoldersFinite DEF TypeOK, EmissionsCounted
<1>2. ASSUME NEW w \in Workers, Claim(w, c)
      PROVE  emitted'[c] + Cardinality(Unemitted(c)') <= granted'[c]
  <2>1. emitted' = emitted
    BY <1>2 DEF Claim
  <2>2. \A v \in Workers :
            /\ worker'[v].pc = worker[v].pc
            /\ worker'[v].cur = worker[v].cur
            /\ \A d : d \in worker'[v].batch <=> d \in worker[v].batch \/ (v = w /\ d = c)
    BY <1>2, ClaimDoes
  <2>3. Unemitted(c)' \subseteq Unemitted(c) \union {w}
    BY <2>2 DEF Unemitted
  <2>4. granted'[c] = granted[c] + 1
    BY <1>2, ClaimDoes
  <2>5. Cardinality(Unemitted(c)') \in Nat /\ Cardinality(Unemitted(c)') <= Cardinality(Unemitted(c)) + 1
    BY <1>1, <2>3, Sizes
  <2> QED
    BY <1>1, <2>1, <2>4, <2>5
<1>3. ASSUME \A w \in Workers : ~Claim(w, c)
      PROVE  emitted'[c] + Cardinality(Unemitted(c)') <= granted'[c]
  <2>1. granted'[c] = granted[c]
    BY <1>3, GrantedByClaim
  <2>2. Unemitted(c)' \subseteq Unemitted(c)
    BY <1>3, HoldersShrink
  <2>3. Cardinality(Unemitted(c)') \in Nat /\ Cardinality(Unemitted(c)') <= Cardinality(Unemitted(c))
    BY <1>1, <2>2, Sizes
  <2>4. ASSUME NEW w \in Workers, Emit(w), worker[w].cur = c
        PROVE  emitted'[c] + Cardinality(Unemitted(c)') <= granted'[c]
    <3>1. w \in Unemitted(c)
      BY <2>4 DEF Unemitted, Emit
    <3>2. w \notin Unemitted(c)'
      <4>1. worker'[w].pc = "mark" /\ worker'[w].batch = worker[w].batch
        BY <2>4 DEF Emit, TypeOK, WorkerState
      <4>2. c \notin worker[w].batch
        BY <2>4 DEF Shape
      <4> QED
        BY <4>1, <4>2 DEF Unemitted
    <3>3. Unemitted(c)' \subseteq Unemitted(c) \ {w}
      BY <2>2, <3>2
    <3>4. Cardinality(Unemitted(c)') + 1 <= Cardinality(Unemitted(c))
      BY <1>1, <3>1, <3>3, Sizes
    <3>5. emitted'[c] = emitted[c] + 1
      BY <2>4 DEF Emit, TypeOK
    <3> QED
      BY <1>1, <2>1, <2>3, <3>4, <3>5
  <2>5. ASSUME \A w \in Workers : ~(Emit(w) /\ worker[w].cur = c)
        PROVE  emitted'[c] + Cardinality(Unemitted(c)') <= granted'[c]
    <3>1. emitted'[c] = emitted[c]
      BY <2>5, EmittedByEmit
    <3> QED
      BY <1>1, <2>1, <2>3, <3>1
  <2> QED
    BY <2>4, <2>5
<1> QED
  BY <1>2, <1>3

(* A worker that has emitted the candidate in its hand and is to mark it so. *)
Emitter(w, c) ==
    worker[w].cur = c /\ worker[w].pc = "mark" /\ worker[w].verdict = "confirmed"

(* While no claim of it ran out, a candidate has been emitted once if its     *)
(* outcome, or the verdict of its holder past the emission, is confirmed, and *)
(* not at all otherwise.                                                      *)
OutcomesTold ==
    \A c \in Candidates : lapsed[c] = 0 =>
        /\ Done(c) => emitted[c] = IF row[c].outcome = "confirmed" THEN 1 ELSE 0
        /\ \A w \in HoldersOf(c) : emitted[c] = IF Emitter(w, c) THEN 1 ELSE 0

(* While no claim of it ran out, a candidate has one holder or an outcome. *)
LEMMA OneHolder ==
    ASSUME TypeOK, Granting, HoldersCounted, NEW c \in Candidates, lapsed[c] = 0
    PROVE  /\ \A v, w \in HoldersOf(c) : v = w
           /\ Done(c) => HoldersOf(c) = {}
           /\ granted[c] = 0 => HoldersOf(c) = {}
<1>1. /\ IsFiniteSet(HoldersOf(c)) /\ Cardinality(HoldersOf(c)) \in Nat
      /\ granted[c] \in Nat /\ granted[c] <= 1
      /\ Cardinality(HoldersOf(c)) <= granted[c]
      /\ Done(c) => Cardinality(HoldersOf(c)) + 1 <= granted[c]
  BY HoldersFinite DEF TypeOK, Granting, HoldersCounted
<1>2. Cardinality(HoldersOf(c)) = 0 => HoldersOf(c) = {}
  BY <1>1, FS_EmptySet
<1>3. ASSUME NEW v \in HoldersOf(c), NEW w \in HoldersOf(c), v # w
      PROVE  FALSE
  <2>1. {v} \subseteq HoldersOf(c) \ {w}
    BY <1>3
  <2>2. Cardinality({v}) \in Nat /\ Cardinality({v}) + 1 <= Cardinality(HoldersOf(c))
    BY <1>1, <2>1, Sizes
  <2>3. Cardinality({v}) = 1
    BY FS_Singleton
  <2> QED
    BY <1>1, <2>2, <2>3
<1>4. Done(c) => Cardinality(HoldersOf(c)) = 0
  BY <1>1
<1>5. granted[c] = 0 => Cardinality(HoldersOf(c)) = 0
  BY <1>1
<1> QED
  BY <1>2, <1>3, <1>4, <1>5

(* A claim is never un-run-out. *)
LEMMA LapsedGrows ==
    ASSUME TypeOK, [Next]_vars, NEW c \in Candidates
    PROVE  lapsed'[c] >= lapsed[c]
<1>1. ASSUME NEW w \in Workers, NEW x \in Candidates, Discover(w, x)
      PROVE  lapsed'[c] >= lapsed[c]
  BY <1>1 DEF Discover, world, history, TypeOK
<1>2. ASSUME NEW w \in Workers, StartBatch(w)
      PROVE  lapsed'[c] >= lapsed[c]
  BY <1>2 DEF StartBatch, world, history, TypeOK
<1>3. ASSUME NEW w \in Workers, NEW x \in Candidates, Claim(w, x)
      PROVE  lapsed'[c] >= lapsed[c]
  <2>1. lapsed' = lapsed
    BY <1>3 DEF Claim
  <2> QED
    BY <2>1 DEF TypeOK
<1>4. ASSUME NEW w \in Workers, EndBatch(w)
      PROVE  lapsed'[c] >= lapsed[c]
  BY <1>4 DEF EndBatch, world, history, TypeOK
<1>5. ASSUME NEW w \in Workers, NEW x \in Candidates, Take(w, x)
      PROVE  lapsed'[c] >= lapsed[c]
  BY <1>5 DEF Take, world, history, TypeOK
<1>6. ASSUME NEW w \in Workers, NEW verdict \in Outcomes, Verify(w, verdict)
      PROVE  lapsed'[c] >= lapsed[c]
  BY <1>6 DEF Verify, world, history, TypeOK
<1>7. ASSUME NEW w \in Workers, Emit(w)
      PROVE  lapsed'[c] >= lapsed[c]
  BY <1>7 DEF Emit, world, history, TypeOK
<1>8. ASSUME NEW w \in Workers, Mark(w)
      PROVE  lapsed'[c] >= lapsed[c]
  BY <1>8 DEF Mark, world, history, TypeOK
<1>9. ASSUME NEW w \in Workers, EndTick(w)
      PROVE  lapsed'[c] >= lapsed[c]
  BY <1>9 DEF EndTick, world, history, TypeOK
<1>10. ASSUME NEW w \in Workers, MarkFails(w)
       PROVE  lapsed'[c] >= lapsed[c]
  BY <1>10 DEF MarkFails, world, history, TypeOK
<1>11. ASSUME NEW w \in Workers, Abandon(w)
       PROVE  lapsed'[c] >= lapsed[c]
  BY <1>11 DEF Abandon, world, history, TypeOK
<1>12. CASE Restart
  BY <1>12 DEF Restart, world, history, TypeOK
<1>13. ASSUME NEW x \in Candidates, ClaimRunsOut(x)
       PROVE  lapsed'[c] >= lapsed[c]
  BY <1>13 DEF ClaimRunsOut, world, history, TypeOK
<1>14. ASSUME NEW x \in Candidates, Expire(x)
       PROVE  lapsed'[c] >= lapsed[c]
  BY <1>14 DEF Expire, world, history, TypeOK
<1>15. CASE UNCHANGED vars
  BY <1>15 DEF vars, TypeOK
<1> QED
  BY <1>1, <1>2, <1>3, <1>4, <1>5, <1>6, <1>7, <1>8, <1>9, <1>10, <1>11, <1>12, <1>13, <1>14, <1>15
     DEF Next, Step

(* Only its emission makes the holder of a candidate its emitter. *)
LEMMA EmitterKept ==
    ASSUME TypeOK, Shape, [Next]_vars, NEW c \in Candidates, NEW v \in Workers,
           v \in HoldersOf(c), v \in HoldersOf(c)', ~(Emit(v) /\ worker[v].cur = c)
    PROVE  Emitter(v, c)' <=> Emitter(v, c)
<1>1. ASSUME NEW w \in Workers, NEW x \in Candidates, Discover(w, x)
      PROVE  Emitter(v, c)' <=> Emitter(v, c)
  BY <1>1 DEF Discover, Emitter
<1>2. ASSUME NEW w \in Workers, StartBatch(w)
      PROVE  Emitter(v, c)' <=> Emitter(v, c)
  BY <1>2, StartDoes, QueueAssumption DEF Emitter, HoldersOf
<1>3. ASSUME NEW w \in Workers, NEW x \in Candidates, Claim(w, x)
      PROVE  Emitter(v, c)' <=> Emitter(v, c)
  <2>1. /\ worker'[v].cur = worker[v].cur
        /\ worker'[v].pc = worker[v].pc
        /\ worker'[v].verdict = worker[v].verdict
    BY <1>3, ClaimDoes
  <2> QED
    BY <2>1 DEF Emitter
<1>4. ASSUME NEW w \in Workers, EndBatch(w)
      PROVE  Emitter(v, c)' <=> Emitter(v, c)
  BY <1>4 DEF EndBatch, Emitter, TypeOK
<1>5. ASSUME NEW w \in Workers, NEW x \in Candidates, Take(w, x)
      PROVE  Emitter(v, c)' <=> Emitter(v, c)
  BY <1>5 DEF Take, Emitter, TypeOK
<1>6. ASSUME NEW w \in Workers, NEW verdict \in Outcomes, Verify(w, verdict)
      PROVE  Emitter(v, c)' <=> Emitter(v, c)
  BY <1>6 DEF Verify, Emitter, TypeOK
<1>7. ASSUME NEW w \in Workers, Emit(w)
      PROVE  Emitter(v, c)' <=> Emitter(v, c)
  BY <1>7 DEF Emit, Emitter, TypeOK, WorkerState
<1>8. ASSUME NEW w \in Workers, Mark(w)
      PROVE  Emitter(v, c)' <=> Emitter(v, c)
  BY <1>8, QueueAssumption DEF Mark, Emitter, Shape, HoldersOf, TypeOK
<1>9. ASSUME NEW w \in Workers, EndTick(w)
      PROVE  Emitter(v, c)' <=> Emitter(v, c)
  BY <1>9, QueueAssumption DEF EndTick, Emitter, Shape, HoldersOf, InHand
<1>10. ASSUME NEW w \in Workers, MarkFails(w)
       PROVE  Emitter(v, c)' <=> Emitter(v, c)
  BY <1>10, QueueAssumption DEF MarkFails, Emitter, Shape, HoldersOf, TypeOK
<1>11. ASSUME NEW w \in Workers, Abandon(w)
       PROVE  Emitter(v, c)' <=> Emitter(v, c)
  BY <1>11, QueueAssumption DEF Abandon, Emitter, HoldersOf, Idle
<1>12. CASE Restart
  BY <1>12, QueueAssumption DEF Restart, HoldersOf, Idle
<1>13. ASSUME NEW x \in Candidates, ClaimRunsOut(x)
       PROVE  Emitter(v, c)' <=> Emitter(v, c)
  BY <1>13 DEF ClaimRunsOut, Emitter
<1>14. ASSUME NEW x \in Candidates, Expire(x)
       PROVE  Emitter(v, c)' <=> Emitter(v, c)
  BY <1>14 DEF Expire, Emitter
<1>15. CASE UNCHANGED vars
  BY <1>15 DEF vars, Emitter
<1> QED
  BY <1>1, <1>2, <1>3, <1>4, <1>5, <1>6, <1>7, <1>8, <1>9, <1>10, <1>11, <1>12, <1>13, <1>14, <1>15
     DEF Next, Step

(* Discovering a candidate again does not take its outcome away. *)
LEMMA DoneStays ==
    ASSUME TypeOK, StoredFirst, [Next]_vars, NEW c \in Candidates, Done(c)
    PROVE  Done(c)'
<1>1. ASSUME NEW w \in Workers, NEW x \in Candidates, Discover(w, x)
      PROVE  Done(c)'
  BY <1>1 DEF Discover, Done, StoredFirst
<1>2. ASSUME NEW w \in Workers, StartBatch(w)
      PROVE  Done(c)'
  BY <1>2 DEF StartBatch, Done
<1>3. ASSUME NEW w \in Workers, NEW x \in Candidates, Claim(w, x)
      PROVE  Done(c)'
  BY <1>3, ClaimDoes DEF Done
<1>4. ASSUME NEW w \in Workers, EndBatch(w)
      PROVE  Done(c)'
  BY <1>4 DEF EndBatch, Done
<1>5. ASSUME NEW w \in Workers, NEW x \in Candidates, Take(w, x)
      PROVE  Done(c)'
  BY <1>5 DEF Take, Done
<1>6. ASSUME NEW w \in Workers, NEW verdict \in Outcomes, Verify(w, verdict)
      PROVE  Done(c)'
  BY <1>6 DEF Verify, Done
<1>7. ASSUME NEW w \in Workers, Emit(w)
      PROVE  Done(c)'
  BY <1>7 DEF Emit, Done
<1>8. ASSUME NEW w \in Workers, Mark(w)
      PROVE  Done(c)'
  <2>1. worker[w].cur \in Candidates /\ worker[w].verdict \in Outcomes
    BY <1>8 DEF Mark, TypeOK, InHand
  <2>2. \/ row'[c] = row[c]
        \/ row'[c].outcome = worker[w].verdict
    BY <1>8, <2>1 DEF Mark, TypeOK, Fresh, Absent
  <2> QED
    BY <2>1, <2>2 DEF Done, Outcomes
<1>9. ASSUME NEW w \in Workers, EndTick(w)
      PROVE  Done(c)'
  BY <1>9 DEF EndTick, Done
<1>10. ASSUME NEW w \in Workers, MarkFails(w)
       PROVE  Done(c)'
  BY <1>10 DEF MarkFails, Done
<1>11. ASSUME NEW w \in Workers, Abandon(w)
       PROVE  Done(c)'
  BY <1>11 DEF Abandon, Done
<1>12. CASE Restart
  BY <1>12 DEF Restart, Done
<1>13. ASSUME NEW x \in Candidates, ClaimRunsOut(x)
       PROVE  Done(c)'
  BY <1>13 DEF ClaimRunsOut, Done
<1>14. ASSUME NEW x \in Candidates, Expire(x)
       PROVE  Done(c)'
  BY <1>14 DEF Expire, Done
<1>15. CASE UNCHANGED vars
  BY <1>15 DEF vars, Done
<1> QED
  BY <1>1, <1>2, <1>3, <1>4, <1>5, <1>6, <1>7, <1>8, <1>9, <1>10, <1>11, <1>12, <1>13, <1>14, <1>15
     DEF Next, Step

LEMMA NextTold ==
    ASSUME TypeOK, TypeOK', Shape, OverdueIsNotLive, Granting, HoldersCounted,
           EmissionsCounted, OutcomesTold, [Next]_vars
    PROVE  OutcomesTold'
<1> SUFFICES ASSUME NEW c \in Candidates, lapsed'[c] = 0
             PROVE  /\ Done(c)' => emitted'[c] = IF row'[c].outcome = "confirmed" THEN 1 ELSE 0
                    /\ \A w \in HoldersOf(c)' : emitted'[c] = IF Emitter(w, c)' THEN 1 ELSE 0
  BY DEF OutcomesTold
<1>1. lapsed[c] = 0
  BY LapsedGrows DEF TypeOK
<1>2. /\ Done(c) => emitted[c] = IF row[c].outcome = "confirmed" THEN 1 ELSE 0
      /\ \A w \in HoldersOf(c) : emitted[c] = IF Emitter(w, c) THEN 1 ELSE 0
  BY <1>1 DEF OutcomesTold
<1>3. /\ \A v, w \in HoldersOf(c) : v = w
      /\ Done(c) => HoldersOf(c) = {}
      /\ granted[c] = 0 => HoldersOf(c) = {}
  BY <1>1, OneHolder
<1>4. HoldersOf(c) \subseteq Workers /\ HoldersOf(c)' \subseteq Workers
  BY DEF HoldersOf
<1>5. ASSUME NEW w \in Workers, Claim(w, c)
      PROVE  /\ ~Done(c)'
             /\ \A v \in HoldersOf(c)' : emitted'[c] = IF Emitter(v, c)' THEN 1 ELSE 0
  <2>1. ~Done(c) /\ row[c].claim # "live"
    BY <1>5 DEF Claim, Eligible, OverdueIsNotLive, Done
  <2>2. granted[c] = 0 /\ HoldersOf(c) = {}
    BY <1>1, <1>3, <2>1 DEF Granting
  <2>3. emitted[c] = 0
    <3>1. emitted[c] + Cardinality(Unemitted(c)) <= 0
      BY <2>2 DEF EmissionsCounted
    <3> QED
      BY <3>1, HoldersFinite DEF TypeOK
  <2>4. \A v \in Workers :
            /\ worker'[v].cur = worker[v].cur
            /\ \A d : d \in worker'[v].batch <=> d \in worker[v].batch \/ (v = w /\ d = c)
    BY <1>5, ClaimDoes
  <2>5. \A v \in HoldersOf(c)' : v = w
    BY <2>2, <2>4 DEF HoldersOf
  <2>6. worker'[w].cur # c
    <3>1. worker[w].cur = NoCandidate
      BY <1>5 DEF Claim, Shape, InHand
    <3> QED
      BY <2>4, <3>1, QueueAssumption
  <2>7. emitted' = emitted
    BY <1>5 DEF Claim
  <2>8. ~Done(c)'
    BY <1>5, <2>1, ClaimDoes DEF Done
  <2> QED
    BY <2>3, <2>5, <2>6, <2>7, <2>8 DEF Emitter
<1>6. ASSUME NEW w \in Workers, Emit(w), worker[w].cur = c
      PROVE  /\ ~Done(c)'
             /\ \A v \in HoldersOf(c)' : emitted'[c] = IF Emitter(v, c)' THEN 1 ELSE 0
  <2>1. w \in HoldersOf(c)
    BY <1>6 DEF HoldersOf
  <2>2. ~Done(c)
    BY <1>3, <2>1
  <2>3. emitted[c] = 0
    BY <1>2, <1>6, <2>1 DEF Emit, Emitter
  <2>4. emitted'[c] = 1
    BY <1>6, <2>3 DEF Emit, TypeOK
  <2>5. HoldersOf(c)' \subseteq HoldersOf(c)
    <3>1. granted' = granted /\ granted[c] \in Nat
      BY <1>6 DEF Emit, history, TypeOK
    <3>2. ASSUME NEW v \in Workers, Claim(v, c) PROVE FALSE
      <4>1. granted'[c] = granted[c] + 1
        BY <3>2, ClaimDoes
      <4> QED
        BY <3>1, <4>1
    <3> QED
      BY <3>2, HoldersShrink
  <2>6. \A v \in HoldersOf(c)' : v = w
    BY <1>3, <2>1, <2>5
  <2>7. worker'[w].cur = c /\ worker'[w].pc = "mark" /\ worker'[w].verdict = worker[w].verdict
    BY <1>6 DEF Emit, TypeOK, WorkerState
  <2>8. worker[w].verdict = "confirmed"
    BY <1>6 DEF Emit, Shape
  <2>9. Emitter(w, c)'
    BY <2>7, <2>8 DEF Emitter
  <2>10. ~Done(c)'
    BY <1>6, <2>2 DEF Emit, Done
  <2> QED
    BY <2>4, <2>6, <2>9, <2>10
<1>7. ASSUME NEW w \in Workers, Mark(w), worker[w].cur = c
      PROVE  /\ emitted'[c] = IF row'[c].outcome = "confirmed" THEN 1 ELSE 0
             /\ HoldersOf(c)' = {}
  <2>1. w \in HoldersOf(c)
    BY <1>7 DEF HoldersOf
  <2>2. row'[c].outcome = worker[w].verdict
    BY <1>7 DEF Mark, TypeOK, Fresh, Absent
  <2>3. emitted[c] = IF worker[w].verdict = "confirmed" THEN 1 ELSE 0
    BY <1>2, <1>7, <2>1 DEF Mark, Emitter
  <2>4. emitted' = emitted
    BY <1>7 DEF Mark, history
  <2>5. HoldersOf(c)' \subseteq HoldersOf(c)
    <3>1. granted' = granted /\ granted[c] \in Nat
      BY <1>7 DEF Mark, history, TypeOK
    <3>2. ASSUME NEW v \in Workers, Claim(v, c) PROVE FALSE
      <4>1. granted'[c] = granted[c] + 1
        BY <3>2, ClaimDoes
      <4> QED
        BY <3>1, <4>1
    <3> QED
      BY <3>2, HoldersShrink
  <2>6. w \notin HoldersOf(c)'
    <3>1. worker'[w].cur = NoCandidate /\ worker'[w].batch = worker[w].batch
      BY <1>7 DEF Mark, TypeOK, WorkerState
    <3>2. c \notin worker[w].batch
      BY <1>7 DEF Shape
    <3> QED
      BY <3>1, <3>2, QueueAssumption DEF HoldersOf
  <2> QED
    BY <1>3, <2>1, <2>2, <2>3, <2>4, <2>5, <2>6
<1>8. ASSUME \A w \in Workers : ~Claim(w, c),
             \A w \in Workers : ~(Emit(w) /\ worker[w].cur = c),
             \A w \in Workers : ~(Mark(w) /\ worker[w].cur = c)
      PROVE  /\ Done(c)' => emitted'[c] = IF row'[c].outcome = "confirmed" THEN 1 ELSE 0
             /\ \A w \in HoldersOf(c)' : emitted'[c] = IF Emitter(w, c)' THEN 1 ELSE 0
  <2>1. emitted'[c] = emitted[c]
    BY <1>8, EmittedByEmit
  <2>2. Done(c)' => Done(c) /\ row'[c].outcome = row[c].outcome
    BY <1>8, OutcomeByMark
  <2>3. HoldersOf(c)' \subseteq HoldersOf(c)
    BY <1>8, HoldersShrink
  <2>4. ASSUME NEW v \in HoldersOf(c)'
        PROVE  emitted'[c] = IF Emitter(v, c)' THEN 1 ELSE 0
    <3>1. v \in HoldersOf(c) /\ v \in Workers
      BY <1>4, <2>3, <2>4
    <3>2. Emitter(v, c)' <=> Emitter(v, c)
      BY <1>8, <2>4, <3>1, EmitterKept
    <3>3. emitted[c] = IF Emitter(v, c) THEN 1 ELSE 0
      BY <1>2, <3>1
    <3> QED
      BY <2>1, <3>2, <3>3
  <2> QED
    BY <1>2, <2>1, <2>2, <2>4
<1> QED
  BY <1>5, <1>6, <1>7, <1>8

(***************************************************************************)
(* The properties.                                                         *)
(***************************************************************************)

IInv ==
    /\ LeaseInv
    /\ Shape
    /\ Granting
    /\ HoldersCounted
    /\ EmissionsCounted
    /\ OutcomesTold

LEMMA InitIInv == Init => IInv
<1> SUFFICES ASSUME Init PROVE IInv
  OBVIOUS
<1>1. LeaseInv
  BY InitLease
<1>4. Shape
  BY QueueAssumption DEF Init, Shape, Idle, InHand
<1>5. Granting
  BY DEF Init, Granting, Done, Absent
<1>6. \A c \in Candidates : HoldersOf(c) = {} /\ Unemitted(c) = {} /\ ~Done(c)
  BY QueueAssumption DEF Init, HoldersOf, Unemitted, Idle, Done, Absent
<1>7. \A c \in Candidates :
          Cardinality(HoldersOf(c)) = 0 /\ Cardinality(Unemitted(c)) = 0
  BY <1>6, FS_EmptySet
<1>8. \A c \in Candidates : granted[c] = 0 /\ emitted[c] = 0
  BY DEF Init
<1>9. HoldersCounted
  BY <1>6, <1>7, <1>8 DEF HoldersCounted
<1>10. EmissionsCounted
  BY <1>7, <1>8 DEF EmissionsCounted
<1>11. OutcomesTold
  BY <1>6 DEF OutcomesTold
<1> QED
  BY <1>1, <1>4, <1>5, <1>9, <1>10, <1>11 DEF IInv

LEMMA NextIInv == IInv /\ [Next]_vars => IInv'
<1> SUFFICES ASSUME IInv, [Next]_vars PROVE IInv'
  OBVIOUS
<1>1. /\ TypeOK /\ StoredFirst /\ OverdueIsNotLive /\ HeldWasGranted /\ Shape
      /\ Granting /\ HoldersCounted /\ EmissionsCounted /\ OutcomesTold
  BY DEF IInv, LeaseInv
<1>2. TypeOK'
  BY <1>1, NextType
<1>3. StoredFirst' /\ OverdueIsNotLive' /\ HeldWasGranted'
  BY <1>1, <1>2, NextStored, NextOverdue, NextGranted
<1>4. Shape' /\ Granting'
  BY <1>1, <1>2, NextShape, NextGranting
<1>5. HoldersCounted'
  BY <1>1, <1>2, NextHolders
<1>6. EmissionsCounted'
  BY <1>1, <1>2, NextEmissions
<1>7. OutcomesTold'
  BY <1>1, <1>2, NextTold
<1> QED
  BY <1>2, <1>3, <1>4, <1>5, <1>6, <1>7 DEF IInv, LeaseInv

LEMMA Invariant == Spec => []IInv
BY InitIInv, NextIInv, PTL DEF Spec

(* A candidate is never emitted more often than once and once for each claim *)
(* of it that ran out.                                                       *)
THEOREM EmittedPerClaim == Spec => []EmissionsPerClaim
<1>1. IInv => EmissionsPerClaim
  <2> SUFFICES ASSUME IInv, NEW c \in Candidates PROVE emitted[c] <= 1 + lapsed[c]
    BY DEF EmissionsPerClaim
  <2>1. /\ emitted[c] \in Nat /\ granted[c] \in Nat /\ lapsed[c] \in Nat
        /\ emitted[c] + Cardinality(Unemitted(c)) <= granted[c]
        /\ granted[c] <= lapsed[c] + 1
    BY DEF IInv, LeaseInv, TypeOK, EmissionsCounted, Granting
  <2>2. Cardinality(Unemitted(c)) \in Nat
    BY HoldersFinite
  <2> QED
    BY <2>1, <2>2
<1> QED
  BY Invariant, <1>1, PTL

(* What a row says of its candidate is what happened, as long as no claim of *)
(* it ran out.                                                               *)
THEOREM OutcomesAreTrue == Spec => []OutcomeTellsEmission
<1>1. IInv => OutcomeTellsEmission
  BY DEF IInv, OutcomesTold, OutcomeTellsEmission, Done
<1> QED
  BY Invariant, <1>1, PTL

(* An outcome is only ever replaced after a claim of its candidate ran out.  *)
THEOREM OutcomesStand == Spec => OutcomeStands
<1>1. IInv /\ [Next]_vars =>
      [\A c \in Candidates :
           row[c].outcome # NoOutcome /\ row'[c].outcome # row[c].outcome => lapsed[c] > 0]_vars
  <2> SUFFICES ASSUME IInv, [Next]_vars, NEW c \in Candidates,
                      row[c].outcome # NoOutcome, row'[c].outcome # row[c].outcome, lapsed[c] = 0
               PROVE  FALSE
    BY DEF IInv, LeaseInv, TypeOK
  <2>1. TypeOK /\ Granting /\ HoldersCounted /\ Shape /\ Done(c) /\ StoredFirst
    BY DEF IInv, LeaseInv, Done
  <2>2. HoldersOf(c) = {}
    BY <2>1, OneHolder
  <2>3. \A w \in Workers : ~(Mark(w) /\ worker[w].cur = c)
    BY <2>2 DEF HoldersOf
  <2>4. Done(c)'
    BY <2>1, DoneStays
  <2> QED
    BY <2>1, <2>3, <2>4, OutcomeByMark
<1> QED
  BY Invariant, <1>1, PTL DEF Spec, OutcomeStands

=============================================================================
