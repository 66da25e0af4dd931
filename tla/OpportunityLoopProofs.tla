------------------------ MODULE OpportunityLoopProofs ------------------------
(* Proofs about OpportunityLoop, for any number of opportunities and workers. *)
EXTENDS OpportunityLoop, FiniteSetTheorems, TLAPS

(***************************************************************************)
(* The inductive invariant.                                                *)
(***************************************************************************)

PCs == {"idle", "next", "mode", "load", "save", "simulate", "broadcast", "persist", "list", "emit",
        "readTally", "writeTally"}

WorkerState ==
    [pc : PCs, opp : Opps \union {NoOpp}, todo : SUBSET Opps, mode : MODES,
     kind : Kinds \union {Done}, buf : JournalRow, backend : Backends \union {NoBackend},
     list : SUBSET [opp : Opps, label : LearningLabel], label : LearningLabel, count : Counts]

(* The status of a row, saved or about to be, is explained by its trail.     *)
Explained(row) ==
    /\ Present(row) <=> row.events # {}
    /\ Present(row) => row.events \intersect EventsOf(row.status) # {}

Labelling(s) ==
    \/ s.pc \in {"readTally", "writeTally"}
    \/ s.pc \in {"load", "save"} /\ s.kind = "learning_labelled"

(* What a worker in state s holds is true of the journal j and of the sample  *)
(* counts smp: it writes beside the first event only of a row that exists, and *)
(* a decided label it holds, read or to be written, has its sample.           *)
Sound(s, j, smp) ==
    /\ s.pc \in {"load", "save"} => s.kind \in Kinds
    /\ s.pc \in {"mode", "load", "save", "simulate", "broadcast", "readTally", "writeTally"}
          => s.opp \in Opps
    /\ \/ s.pc \in {"simulate", "broadcast", "readTally", "writeTally"}
       \/ s.pc = "load" /\ s.kind # "discovered"
       => Present(j[s.opp])
    /\ s.pc = "save" =>
          /\ Explained(s.buf)
          /\ s.kind # "discovered" => Present(s.buf)
          /\ Sampled(s.buf.label) => smp[s.opp] > 0
    /\ Labelling(s) /\ Sampled(s.label) => smp[s.opp] > 0
    /\ \A e \in s.list : Present(j[e.opp])

RowsSound ==
    /\ journal \in [Opps -> JournalRow]
    /\ \A o \in Opps : Explained(journal[o])
    /\ \A o \in Opps : Sampled(journal[o].label) => samples[o] > 0
WorkersSound ==
    /\ worker \in [Workers -> WorkerState]
    /\ \A w \in Workers : Sound(worker[w], journal, samples)
RestTyped ==
    /\ ticks \in 0..LearnEvery - 1
    /\ scratch \in Backends \union {NoBackend}
    /\ evidence \in [used : Backends \union {NoBackend}, recorded : Backends \union {NoBackend},
                     alone : BOOLEAN]
    /\ samples \in [Opps -> Counts]
    /\ tally \in Counts
    /\ requests \in [Routes -> Nat] /\ \A r \in Routes : requests[r] <= MaxCalls[r]
    /\ faults \in 0..MaxFaults
HistoryTyped ==
    /\ met \in [Opps -> Counts] /\ races \in Counts
    /\ shared \subseteq Workers /\ overtaken \subseteq Opps

IInv == RowsSound /\ WorkersSound /\ RestTyped /\ HistoryTyped

(***************************************************************************)
(* The operators of the model.                                             *)
(***************************************************************************)

LEMMA BumpTyped == ASSUME NEW n \in Counts PROVE Bump(n) \in Counts /\ Bump(n) > 0
BY BoundsAreNat DEF Bump, Counts

LEMMA IdleSound ==
    ASSUME NEW j, NEW smp
    PROVE  Idle \in WorkerState /\ Sound(Idle, j, smp)
<1>1. NoRow \in JournalRow
  BY DEF NoRow, JournalRow, LearningLabel
<1>2. Idle \in WorkerState
  BY <1>1, BoundsAreNat, ModesHeldAreModes
     DEF Idle, WorkerState, PCs, MODES, OBSERVE, FULL_LIVE, LearningLabel, Counts
<1>3. Idle.pc = "idle" /\ Idle.list = {}
  BY DEF Idle
<1> QED
  BY <1>2, <1>3 DEF Sound, Labelling

LEMMA LabelTyped == ASSUME NEW status PROVE LabelOf(status) \in LearningLabel
BY DEF LabelOf, LearningLabel

(* Where the writes of an evaluation can lead.                               *)
NextKinds == (Kinds \ {"discovered", "learning_labelled"}) \union {"simulate", "broadcast", Done}

(* A status that the write of an event sets is one that the event explains.  *)
LEMMA OutcomesSound ==
    ASSUME NEW kind \in Kinds \ {"learning_labelled"}, NEW mode, NEW v \in Outcomes(kind, mode)
    PROVE  /\ v[1] = Keep \/ (v[1] \in ExecutionStatus /\ kind \in EventsOf(v[1]))
           /\ v[2] \in NextKinds
<1> USE DEF NextKinds, Kinds, Stages, Keep, Done, ExecutionStatus, TERMINAL_STATUSES, EventsOf
<1>1. CASE kind = "discovered"
  BY <1>1 DEF Outcomes
<1>2. CASE kind = "quoted"
  BY <1>2 DEF Outcomes
<1>3. CASE kind = "liquidity_checked"
  BY <1>3 DEF Outcomes
<1>4. CASE kind = "gas_estimated"
  BY <1>4 DEF Outcomes
<1>5. CASE kind = "profit_evaluated"
  BY <1>5 DEF Outcomes
<1>6. CASE kind = "policy_evaluated"
  BY <1>6 DEF Outcomes
<1>7. CASE kind = "certified"
  BY <1>7 DEF Outcomes
<1>8. CASE kind = "simulated"
  BY <1>8 DEF Outcomes
<1>9. CASE kind \in {"rejected", "policy_denied", "shadow_recorded", "broadcast_sent",
                     "broadcast_failed"}
  BY <1>9 DEF Outcomes
<1> QED
  BY <1>1, <1>2, <1>3, <1>4, <1>5, <1>6, <1>7, <1>8, <1>9

(* A write of an event keeps a row explained, and keeps its label.           *)
LEMMA RecordedSound ==
    ASSUME NEW row \in JournalRow, NEW kind \in Kinds, NEW status, Explained(row),
           kind = "discovered" \/ Present(row),
           status = Keep \/ (status \in ExecutionStatus /\ kind \in EventsOf(status))
    PROVE  LET new == Recorded(row, kind, status)
           IN  new \in JournalRow /\ Explained(new) /\ Present(new) /\ new.label = row.label
<1> DEFINE new == Recorded(row, kind, status)
<1>1. /\ new.events = row.events \union {kind} /\ new.label = row.label
      /\ new.consumed = row.consumed
      /\ new.status = IF status # Keep THEN status ELSE IF Present(row) THEN row.status ELSE "DISCOVERED"
  BY DEF Recorded, JournalRow
<1>2. "DISCOVERED" \in ExecutionStatus /\ EventsOf("DISCOVERED") = {"discovered"}
      /\ "NONE" \notin ExecutionStatus
  BY DEF ExecutionStatus, TERMINAL_STATUSES, EventsOf
<1>3. new.status \in ExecutionStatus /\ new.events \intersect EventsOf(new.status) # {}
  <2>1. CASE status # Keep
    BY <1>1, <2>1
  <2>2. CASE status = Keep /\ Present(row)
    BY <1>1, <2>2 DEF Explained, Present, JournalRow
  <2>3. CASE status = Keep /\ ~Present(row)
    BY <1>1, <1>2, <2>3
  <2> QED
    BY <2>1, <2>2, <2>3
<1>4. new \in JournalRow
  <2>1. new.status \in ExecutionStatus \union {"NONE"} /\ new.events \in SUBSET Kinds
    BY <1>1, <1>3 DEF JournalRow
  <2>2. new = [[row EXCEPT !.events = new.events] EXCEPT !.status = new.status]
    BY <1>1 DEF Recorded, JournalRow
  <2> HIDE DEF new
  <2> QED
    BY <2>1, <2>2 DEF JournalRow
<1>5. Present(new) /\ Explained(new)
  BY <1>1, <1>2, <1>3 DEF Present, Explained
<1> QED
  BY <1>1, <1>4, <1>5

(* Where an evaluation goes next, the row that it goes on with exists.       *)
LEMMA AfterSound ==
    ASSUME NEW s \in WorkerState, NEW next \in NextKinds, NEW j, NEW smp,
           next = Done \/ (s.opp \in Opps /\ Present(j[s.opp])),
           \A e \in s.list : Present(j[e.opp])
    PROVE  After(s, next) \in WorkerState /\ Sound(After(s, next), j, smp)
<1> DEFINE t == After(s, next)
<1>0. OBSERVE \in MODES
  BY DEF OBSERVE, MODES, FULL_LIVE
<1>1. NoRow \in JournalRow
  BY DEF NoRow, JournalRow, LearningLabel
<1>2. CASE next = Done
  <2>1. t = [s EXCEPT !.pc = "persist", !.kind = Done, !.buf = NoRow, !.mode = OBSERVE]
    BY <1>2 DEF After, Done
  <2> HIDE DEF t
  <2>2. t \in WorkerState /\ t.pc = "persist" /\ t.list = s.list
    BY <1>0, <1>1, <2>1 DEF WorkerState, PCs
  <2>3. Sound(t, j, smp)
    BY <2>2 DEF Sound, Labelling
  <2> QED
    BY <2>2, <2>3 DEF t
<1>3. CASE next \in {"simulate", "broadcast"}
  <2>1. t \in WorkerState /\ t.pc = next /\ t.list = s.list /\ t.opp = s.opp
    BY <1>1, <1>3 DEF After, WorkerState, PCs, Done
  <2> QED
    BY <1>3, <2>1 DEF Sound, Labelling, Done
<1>4. CASE next \in Kinds \ {"discovered", "learning_labelled"}
  <2>1. next \notin {Done, "simulate", "broadcast"}
    BY <1>4 DEF Kinds, Stages, Done
  <2>2. t = [s EXCEPT !.pc = "load", !.kind = next, !.buf = NoRow]
    BY <2>1 DEF After
  <2> HIDE DEF t
  <2>3. t \in WorkerState /\ t.pc = "load" /\ t.kind = next /\ t.list = s.list /\ t.opp = s.opp
    BY <1>1, <1>4, <2>2 DEF WorkerState, PCs
  <2>4. Sound(t, j, smp)
    BY <1>4, <2>1, <2>3 DEF Sound, Labelling
  <2> QED
    BY <2>3, <2>4 DEF t
<1> QED
  BY <1>2, <1>3, <1>4 DEF NextKinds

(***************************************************************************)
(* What a step leaves alone.                                               *)
(***************************************************************************)

(* No row is deleted and no sample is withdrawn.                             *)
Grows ==
    \A o \in Opps : /\ Present(journal[o]) => Present(journal'[o])
                    /\ samples[o] > 0 => samples'[o] > 0

LEMMA SoundStays ==
    ASSUME Grows, NEW s \in WorkerState, Sound(s, journal, samples)
    PROVE  Sound(s, journal', samples')
BY DEF Sound, Grows, Labelling, WorkerState

(* One worker moves: the others stay sound when the step grows.              *)
LEMMA OthersStay ==
    ASSUME WorkersSound, Grows, NEW w \in Workers, NEW s \in WorkerState, Become(w, s),
           Sound(s, journal', samples')
    PROVE  WorkersSound'
<1>1. worker' \in [Workers -> WorkerState]
  BY DEF WorkersSound, Become
<1>2. ASSUME NEW v \in Workers PROVE Sound(worker'[v], journal', samples')
  <2>1. CASE v = w
    BY <2>1 DEF WorkersSound, Become
  <2>2. CASE v # w
    BY <2>2, SoundStays DEF WorkersSound, Become
  <2> QED
    BY <2>1, <2>2
<1> QED
  BY <1>1, <1>2 DEF WorkersSound

(* A step that writes neither the journal nor a sample only moves a worker.  *)
LEMMA QuietStep ==
    ASSUME RowsSound, WorkersSound, UNCHANGED <<journal, samples>>,
           NEW w \in Workers, NEW s \in WorkerState, Become(w, s), Sound(s, journal, samples)
    PROVE  RowsSound' /\ WorkersSound'
<1>1. Grows
  BY DEF Grows
<1>2. RowsSound'
  BY DEF RowsSound
<1> QED
  BY <1>1, <1>2, OthersStay

(***************************************************************************)
(* Every step keeps the invariant.                                         *)
(***************************************************************************)

LEMMA InitSound == Init => IInv
<1> SUFFICES ASSUME Init PROVE IInv
  OBVIOUS
<1>1. NoRow \in JournalRow /\ Explained(NoRow) /\ ~Sampled(NoRow.label)
  BY DEF NoRow, JournalRow, LearningLabel, Explained, Present, Sampled
<1>2. RowsSound
  BY <1>1 DEF Init, RowsSound
<1>3. WorkersSound
  BY IdleSound DEF Init, WorkersSound
<1>4. RestTyped
  BY BoundsAreNat DEF Init, RestTyped, Counts
<1>5. HistoryTyped
  BY BoundsAreNat DEF Init, NothingHappened, HistoryTyped, Counts
<1> QED
  BY <1>2, <1>3, <1>4, <1>5 DEF IInv

(* What the coroutines do to one another is recorded at every step.          *)
LEMMA StepsObserved == ASSUME [Next]_vars PROVE Observe \/ UNCHANGED vars
<1>1. ASSUME NEW w \in Workers, Step(w) PROVE Observe
  BY <1>1
     DEF Step, TickSkips, TickEvaluates, TickEnds, Evaluate, ReadMode, Load, SaveEvent, Simulate,
         Broadcast, Persist, EmitList, EmitSample, EmitNeutral, ReadTally, WriteTally, SaveLabel,
         EmitEnds, Become
<1>2. ASSUME NEW w \in Workers, TickStart(w) \/ CallEvaluate(w) \/ CallEmit(w) \/ Fails(w)
      PROVE  Observe
  BY <1>2 DEF TickStart, CallEvaluate, CallEmit, Fails, Evaluate, Become
<1>3. CASE Crash
  BY <1>3 DEF Crash
<1> QED
  BY <1>1, <1>2, <1>3 DEF Next

LEMMA HistoryStep == ASSUME HistoryTyped, [Next]_vars PROVE HistoryTyped'
<1>1. CASE Observe
  <2>1. met' \in [Opps -> Counts] /\ races' \in Counts
    BY <1>1, BumpTyped DEF HistoryTyped, Observe
  <2>2. shared' \subseteq Workers /\ overtaken' \subseteq Opps
    BY <1>1 DEF HistoryTyped, Observe
  <2> QED
    BY <2>1, <2>2 DEF HistoryTyped
<1>2. CASE UNCHANGED vars
  BY <1>2 DEF HistoryTyped, vars, history
<1> QED
  BY <1>1, <1>2, StepsObserved

(* An evaluation that begins holds an opportunity, and nothing of its row.   *)
LEMMA EvaluateStep ==
    ASSUME RowsSound, WorkersSound, NEW w \in Workers, NEW o \in Opps, Evaluate(w, o)
    PROVE  RowsSound' /\ WorkersSound'
<1> DEFINE s == worker[w]
           t == [s EXCEPT !.pc = "mode", !.opp = o]
<1>1. s \in WorkerState /\ Sound(s, journal, samples)
  BY DEF WorkersSound
<1>2. t \in WorkerState /\ t.pc = "mode" /\ t.opp = o /\ t.list = s.list
  BY <1>1 DEF WorkerState, PCs
<1>3. Sound(t, journal, samples)
  BY <1>1, <1>2 DEF Sound, Labelling
<1>4. UNCHANGED <<journal, samples>> /\ Become(w, t)
  BY DEF Evaluate, results
<1> QED
  BY <1>2, <1>3, <1>4, QuietStep

(* The tick: each of its steps only moves its worker.                        *)
LEMMA TickSteps ==
    ASSUME RowsSound, WorkersSound, NEW w \in Workers,
           TickStart(w) \/ TickSkips(w) \/ TickEvaluates(w) \/ TickEnds(w)
    PROVE  RowsSound' /\ WorkersSound'
<1> DEFINE s == worker[w]
<1>1. s \in WorkerState /\ Sound(s, journal, samples)
  BY DEF WorkersSound
<1>2. Idle \in WorkerState /\ Sound(Idle, journal, samples) /\ Idle.pc = "idle" /\ Idle.list = {}
  BY IdleSound DEF Idle
<1>3. CASE TickStart(w)
  <2>1. PICK batch \in SUBSET Opps : Become(w, [Idle EXCEPT !.pc = "next", !.todo = batch])
    BY <1>3 DEF TickStart
  <2> DEFINE t == [Idle EXCEPT !.pc = "next", !.todo = batch]
  <2>2. t \in WorkerState /\ t.pc = "next" /\ t.list = {}
    BY <1>2 DEF WorkerState, PCs
  <2>3. Sound(t, journal, samples)
    BY <2>2 DEF Sound, Labelling
  <2>4. UNCHANGED <<journal, samples>>
    BY <1>3 DEF TickStart, results
  <2> QED
    BY <2>1, <2>2, <2>3, <2>4, QuietStep
<1>4. CASE TickSkips(w)
  <2>1. PICK o \in s.todo : Become(w, [s EXCEPT !.todo = s.todo \ {o}])
    BY <1>4 DEF TickSkips
  <2> DEFINE t == [s EXCEPT !.todo = s.todo \ {o}]
  <2>2. t \in WorkerState /\ t.pc = "next" /\ t.list = s.list
    BY <1>1, <1>4 DEF WorkerState, PCs, TickSkips, At
  <2>3. Sound(t, journal, samples)
    BY <1>1, <2>2 DEF Sound, Labelling
  <2>4. UNCHANGED <<journal, samples>>
    BY <1>4 DEF TickSkips, results
  <2> QED
    BY <2>1, <2>2, <2>3, <2>4, QuietStep
<1>5. CASE TickEvaluates(w)
  <2>1. PICK o \in s.todo : Evaluate(w, o)
    BY <1>5 DEF TickEvaluates
  <2> QED
    BY <1>1, <2>1, EvaluateStep DEF WorkerState
<1>6. CASE TickEnds(w)
  <2>1. PICK pc \in {"list", "idle"} : Become(w, [Idle EXCEPT !.pc = pc])
    BY <1>6 DEF TickEnds
  <2> DEFINE t == [Idle EXCEPT !.pc = pc]
  <2>2. t \in WorkerState /\ t.pc = pc /\ t.list = {}
    BY <1>2 DEF WorkerState, PCs
  <2>3. Sound(t, journal, samples)
    BY <2>2 DEF Sound, Labelling
  <2>4. UNCHANGED <<journal, samples>>
    BY <1>6 DEF TickEnds, results
  <2> QED
    BY <2>1, <2>2, <2>3, <2>4, QuietStep
<1> QED
  BY <1>3, <1>4, <1>5, <1>6

(* The routes start an evaluation or an emission.                            *)
LEMMA CallSteps ==
    ASSUME RowsSound, WorkersSound, NEW w \in Workers, CallEvaluate(w) \/ CallEmit(w)
    PROVE  RowsSound' /\ WorkersSound'
<1>1. CASE CallEvaluate(w)
  BY <1>1, EvaluateStep DEF CallEvaluate
<1>2. CASE CallEmit(w)
  <2> DEFINE t == [Idle EXCEPT !.pc = "list"]
  <2>1. t \in WorkerState /\ t.pc = "list" /\ t.list = {}
    <3>1. Idle \in WorkerState /\ Idle.list = {}
      BY IdleSound DEF Idle
    <3> QED
      BY <3>1 DEF WorkerState, PCs
  <2>2. Sound(t, journal, samples)
    BY <2>1 DEF Sound, Labelling
  <2>3. UNCHANGED <<journal, samples>> /\ Become(w, t)
    BY <1>2 DEF CallEmit, results
  <2> QED
    BY <2>1, <2>2, <2>3, QuietStep
<1> QED
  BY <1>1, <1>2

(* A worker whose evaluation has returned holds nothing of any row.          *)
LEMMA ReturnedSound ==
    ASSUME NEW w \in Workers, worker[w] \in WorkerState, NEW j, NEW smp
    PROVE  Returned(w) \in WorkerState /\ Sound(Returned(w), j, smp)
<1>1. Idle \in WorkerState /\ Sound(Idle, j, smp) /\ Idle.list = {}
  BY IdleSound DEF Idle
<1>2. CASE w \in Tickers
  <2> DEFINE t == [Idle EXCEPT !.pc = "next", !.todo = worker[w].todo \ {worker[w].opp}]
  <2>1. t \in WorkerState /\ t.pc = "next" /\ t.list = {}
    BY <1>1 DEF WorkerState, PCs
  <2>2. Sound(t, j, smp)
    BY <2>1 DEF Sound, Labelling
  <2> QED
    BY <1>2, <2>1, <2>2 DEF Returned
<1>3. CASE w \notin Tickers
  BY <1>1, <1>3 DEF Returned
<1> QED
  BY <1>2, <1>3

(* The steps of an evaluation that do not write the journal.                 *)
LEMMA PipelineSteps ==
    ASSUME RowsSound, WorkersSound, NEW w \in Workers,
           ReadMode(w) \/ Load(w) \/ Simulate(w) \/ Broadcast(w) \/ Persist(w)
    PROVE  RowsSound' /\ WorkersSound'
<1> DEFINE s == worker[w]
<1>1. s \in WorkerState /\ Sound(s, journal, samples)
  BY DEF WorkersSound
<1>2. {Done, "broadcast_sent", "broadcast_failed", "simulated"} \subseteq NextKinds
  BY DEF NextKinds, Kinds, Stages
<1>3. \A e \in s.list : Present(journal[e.opp])
  BY <1>1 DEF Sound
<1>4. UNCHANGED <<journal, samples>>
  BY DEF ReadMode, Load, Simulate, Broadcast, Persist, results
<1>5. CASE ReadMode(w)
  <2>1. CASE Become(w, After(s, Done))
    BY <1>1, <1>2, <1>3, <1>4, <2>1, AfterSound, QuietStep
  <2>2. ASSUME NEW m \in ModesHeld,
               Become(w, [s EXCEPT !.pc = "load", !.kind = "discovered", !.mode = m])
        PROVE  RowsSound' /\ WorkersSound'
    <3> DEFINE t == [s EXCEPT !.pc = "load", !.kind = "discovered", !.mode = m]
    <3>1. s.pc = "mode" /\ m \in MODES /\ "discovered" \in Kinds
      BY <1>5, ModesHeldAreModes DEF ReadMode, At, Kinds, Stages
    <3>2. t \in WorkerState /\ t.pc = "load" /\ t.kind = "discovered" /\ t.opp = s.opp
          /\ t.list = s.list
      BY <1>1, <3>1 DEF WorkerState, PCs
    <3>3. Sound(t, journal, samples)
      BY <1>1, <3>1, <3>2 DEF Sound, Labelling
    <3> QED
      BY <1>4, <2>2, <3>2, <3>3, QuietStep
  <2> QED
    BY <1>5, <2>1, <2>2 DEF ReadMode
<1>6. CASE Load(w)
  <2> DEFINE t == [s EXCEPT !.pc = "save", !.buf = journal[s.opp]]
  <2>1. s.pc = "load" /\ s.opp \in Opps /\ s.kind \in Kinds
    BY <1>1, <1>6 DEF Load, At, Sound
  <2>2. journal[s.opp] \in JournalRow /\ Explained(journal[s.opp])
        /\ (Sampled(journal[s.opp].label) => samples[s.opp] > 0)
    BY <2>1 DEF RowsSound
  <2>3. t \in WorkerState /\ t.pc = "save" /\ t.kind = s.kind /\ t.opp = s.opp
        /\ t.list = s.list /\ t.label = s.label /\ t.buf = journal[s.opp]
    BY <1>1, <2>2 DEF WorkerState, PCs
  <2>4. Sound(t, journal, samples)
    BY <1>1, <2>1, <2>2, <2>3 DEF Sound, Labelling
  <2>5. Become(w, t)
    BY <1>6 DEF Load
  <2> QED
    BY <1>4, <2>3, <2>4, <2>5, QuietStep
<1>7. CASE Simulate(w)
  <2>1. PICK b \in Backends : Become(w, [After(s, "simulated") EXCEPT !.backend = b])
    BY <1>7 DEF Simulate
  <2> DEFINE a == After(s, "simulated")
             t == [a EXCEPT !.backend = b]
  <2>2. s.pc = "simulate" /\ s.opp \in Opps /\ Present(journal[s.opp])
    BY <1>1, <1>7 DEF Simulate, At, Sound
  <2>3. a \in WorkerState /\ Sound(a, journal, samples)
    BY <1>1, <1>2, <1>3, <2>2, AfterSound
  <2> HIDE DEF a
  <2>4. t \in WorkerState /\ t.pc = a.pc /\ t.kind = a.kind /\ t.opp = a.opp /\ t.list = a.list
        /\ t.label = a.label /\ t.buf = a.buf
    BY <2>3 DEF WorkerState
  <2>5. Sound(t, journal, samples)
    BY <2>3, <2>4 DEF Sound, Labelling
  <2>6. Become(w, t)
    BY <2>1 DEF a
  <2> QED
    BY <1>4, <2>4, <2>5, <2>6, QuietStep
<1>8. CASE Broadcast(w)
  <2>1. PICK kind \in {"broadcast_sent", "broadcast_failed"} : Become(w, After(s, kind))
    BY <1>8 DEF Broadcast
  <2>2. s.opp \in Opps /\ Present(journal[s.opp])
    BY <1>1, <1>8 DEF Broadcast, At, Sound
  <2>3. After(s, kind) \in WorkerState /\ Sound(After(s, kind), journal, samples)
    BY <1>1, <1>2, <1>3, <2>2, AfterSound
  <2> QED
    BY <1>4, <2>1, <2>3, QuietStep
<1>9. CASE Persist(w)
  <2>1. Returned(w) \in WorkerState /\ Sound(Returned(w), journal, samples)
    BY <1>1, ReturnedSound
  <2> QED
    BY <1>4, <1>9, <2>1, QuietStep DEF Persist
<1> QED
  BY <1>5, <1>6, <1>7, <1>8, <1>9

(* A row is overwritten by a present one that is sound: a status that another *)
(* coroutine saved meanwhile may be lost, what the row promises is not.       *)
LEMMA RowSaved ==
    ASSUME RowsSound, NEW o \in Opps, NEW row \in JournalRow, Explained(row), Present(row),
           Sampled(row.label) => samples[o] > 0,
           journal' = [journal EXCEPT ![o] = row], UNCHANGED samples
    PROVE  RowsSound' /\ Grows /\ Present(journal'[o])
<1>1. \A p \in Opps : journal'[p] = IF p = o THEN row ELSE journal[p]
  BY DEF RowsSound
<1>2. RowsSound'
  BY <1>1 DEF RowsSound
<1> QED
  BY <1>1, <1>2 DEF Grows

LEMMA SaveEventStep ==
    ASSUME RowsSound, WorkersSound, NEW w \in Workers, SaveEvent(w)
    PROVE  RowsSound' /\ WorkersSound'
<1> DEFINE s == worker[w]
<1>1. s \in WorkerState /\ Sound(s, journal, samples)
  BY DEF WorkersSound
<1>2. s.pc = "save" /\ s.kind \in Kinds \ {"learning_labelled"} /\ s.opp \in Opps
      /\ s.buf \in JournalRow /\ Explained(s.buf) /\ (s.kind = "discovered" \/ Present(s.buf))
      /\ (Sampled(s.buf.label) => samples[s.opp] > 0)
  BY <1>1 DEF SaveEvent, At, Sound, WorkerState
<1>3. PICK v \in Outcomes(s.kind, s.mode) :
         /\ journal' = [journal EXCEPT ![s.opp] = Recorded(s.buf, s.kind, v[1])]
         /\ Become(w, After(s, v[2]))
  BY DEF SaveEvent
<1>4. /\ v[1] = Keep \/ (v[1] \in ExecutionStatus /\ s.kind \in EventsOf(v[1]))
      /\ v[2] \in NextKinds
  BY <1>2, <1>3, OutcomesSound
<1> DEFINE row == Recorded(s.buf, s.kind, v[1])
<1>5. row \in JournalRow /\ Explained(row) /\ Present(row) /\ row.label = s.buf.label
  BY <1>2, <1>4, RecordedSound
<1> HIDE DEF row
<1>6. UNCHANGED samples
  BY DEF SaveEvent, results
<1>7. RowsSound' /\ Grows /\ Present(journal'[s.opp])
  BY <1>2, <1>3, <1>5, <1>6, RowSaved DEF row
<1>8. Sound(s, journal', samples')
  BY <1>1, <1>7, SoundStays
<1>9. After(s, v[2]) \in WorkerState /\ Sound(After(s, v[2]), journal', samples')
  BY <1>1, <1>2, <1>4, <1>7, <1>8, AfterSound DEF Sound
<1> QED
  BY <1>3, <1>7, <1>9, OthersStay

(* A label is saved with its sample logged, over a row that was loaded.      *)
LEMMA SaveLabelStep ==
    ASSUME RowsSound, WorkersSound, NEW w \in Workers, SaveLabel(w)
    PROVE  RowsSound' /\ WorkersSound'
<1> DEFINE s == worker[w]
           row == [s.buf EXCEPT !.label = s.label, !.consumed = TRUE,
                                !.events = s.buf.events \union {"learning_labelled"}]
           t == [Idle EXCEPT !.pc = "emit", !.list = s.list]
<1>1. s \in WorkerState /\ Sound(s, journal, samples)
  BY DEF WorkersSound
<1>2. s.pc = "save" /\ s.kind = "learning_labelled" /\ s.opp \in Opps
      /\ s.buf \in JournalRow /\ Explained(s.buf) /\ Present(s.buf)
      /\ (Sampled(s.label) => samples[s.opp] > 0)
  BY <1>1 DEF SaveLabel, At, Sound, WorkerState, Labelling
<1>3. row \in JournalRow /\ row.status = s.buf.status /\ row.label = s.label
      /\ row.events = s.buf.events \union {"learning_labelled"}
  BY <1>1, <1>2 DEF JournalRow, WorkerState, Kinds
<1>4. Explained(row) /\ Present(row)
  BY <1>2, <1>3 DEF Explained, Present
<1>5. journal' = [journal EXCEPT ![s.opp] = row] /\ Become(w, t) /\ UNCHANGED samples
  BY DEF SaveLabel, results
<1> HIDE DEF row
<1>6. RowsSound' /\ Grows
  BY <1>2, <1>3, <1>4, <1>5, RowSaved
<1>7. Idle \in WorkerState
  BY IdleSound
<1>8. t \in WorkerState /\ t.pc = "emit" /\ t.list = s.list
  BY <1>1, <1>7 DEF WorkerState, PCs
<1>9. Sound(s, journal', samples')
  BY <1>1, <1>6, SoundStays
<1>10. Sound(t, journal', samples')
  BY <1>8, <1>9 DEF Sound, Labelling
<1> QED
  BY <1>5, <1>6, <1>8, <1>10, OthersStay

(* The ledger logs a sample first, then counts it, then labels the row.      *)
LEMMA EmitSampleStep ==
    ASSUME RowsSound, WorkersSound, samples \in [Opps -> Counts], NEW w \in Workers, EmitSample(w)
    PROVE  RowsSound' /\ WorkersSound'
<1> DEFINE s == worker[w]
<1>1. s \in WorkerState /\ Sound(s, journal, samples)
  BY DEF WorkersSound
<1>2. PICK e \in s.list :
         /\ samples' = [samples EXCEPT ![e.opp] = Bump(samples[e.opp])]
         /\ Become(w, [s EXCEPT !.pc = "readTally", !.opp = e.opp, !.label = e.label,
                                 !.list = s.list \ {e}])
  BY DEF EmitSample
<1> DEFINE t == [s EXCEPT !.pc = "readTally", !.opp = e.opp, !.label = e.label,
                          !.list = s.list \ {e}]
<1>3. e.opp \in Opps /\ e.label \in LearningLabel /\ Present(journal[e.opp])
  BY <1>1 DEF WorkerState, Sound
<1>4. UNCHANGED journal
  BY DEF EmitSample
<1>5. samples'[e.opp] > 0 /\ \A o \in Opps : samples[o] > 0 => samples'[o] > 0
  BY <1>2, <1>3, BumpTyped
<1>6. RowsSound' /\ Grows
  BY <1>4, <1>5 DEF RowsSound, Grows
<1>7. t \in WorkerState /\ t.pc = "readTally" /\ t.opp = e.opp /\ t.list = s.list \ {e}
  BY <1>1, <1>3 DEF WorkerState, PCs
<1>8. Sound(t, journal', samples')
  BY <1>1, <1>3, <1>4, <1>5, <1>7 DEF Sound, Labelling
<1> QED
  BY <1>2, <1>6, <1>7, <1>8, OthersStay

LEMMA LedgerSteps ==
    ASSUME RowsSound, WorkersSound, tally \in Counts, NEW w \in Workers,
           EmitList(w) \/ EmitNeutral(w) \/ ReadTally(w) \/ WriteTally(w) \/ EmitEnds(w)
    PROVE  RowsSound' /\ WorkersSound'
<1> DEFINE s == worker[w]
<1>1. s \in WorkerState /\ Sound(s, journal, samples)
  BY DEF WorkersSound
<1>2. UNCHANGED <<journal, samples>>
  BY DEF EmitList, EmitNeutral, ReadTally, WriteTally, EmitEnds, results
<1>3. CASE EmitList(w)
  <2> DEFINE pending == {p \in Opps : Listed(journal[p]) /\ Terminal(journal[p])}
             list == {[opp |-> o, label |-> LabelOf(journal[o].status)] : o \in pending}
             t == [s EXCEPT !.pc = "emit", !.list = list]
  <2>1. \A e \in list : e \in [opp : Opps, label : LearningLabel] /\ Present(journal[e.opp])
    BY LabelTyped DEF Listed
  <2>2. Become(w, t) /\ s.pc = "list"
    BY <1>3 DEF EmitList, At
  <2> HIDE DEF list
  <2>3. t \in WorkerState /\ t.pc = "emit" /\ t.list = list
    BY <1>1, <2>1 DEF WorkerState, PCs
  <2>4. Sound(t, journal, samples)
    BY <2>1, <2>3 DEF Sound, Labelling
  <2> QED
    BY <1>2, <2>2, <2>3, <2>4, QuietStep
<1>4. CASE EmitNeutral(w)
  <2>1. PICK e \in s.list :
           /\ ~Sampled(e.label)
           /\ Become(w, [s EXCEPT !.pc = "load", !.opp = e.opp, !.label = e.label,
                                   !.list = s.list \ {e}, !.kind = "learning_labelled"])
    BY <1>4 DEF EmitNeutral
  <2> DEFINE t == [s EXCEPT !.pc = "load", !.opp = e.opp, !.label = e.label,
                            !.list = s.list \ {e}, !.kind = "learning_labelled"]
  <2>2. e.opp \in Opps /\ e.label \in LearningLabel /\ Present(journal[e.opp])
        /\ "learning_labelled" \in Kinds
    BY <1>1 DEF WorkerState, Sound, Kinds
  <2>3. t \in WorkerState /\ t.pc = "load" /\ t.opp = e.opp /\ t.label = e.label
        /\ t.list = s.list \ {e} /\ t.kind = "learning_labelled"
    BY <1>1, <2>2 DEF WorkerState, PCs
  <2>4. Sound(t, journal, samples)
    BY <1>1, <2>1, <2>2, <2>3 DEF Sound, Labelling
  <2> QED
    BY <1>2, <2>1, <2>3, <2>4, QuietStep
<1>5. CASE ReadTally(w)
  <2> DEFINE t == [s EXCEPT !.pc = "writeTally", !.count = tally]
  <2>1. t \in WorkerState /\ t.pc = "writeTally" /\ t.opp = s.opp /\ t.label = s.label
        /\ t.list = s.list
    BY <1>1 DEF WorkerState, PCs
  <2>2. s.pc = "readTally" /\ Become(w, t)
    BY <1>5 DEF ReadTally, At
  <2>3. Sound(t, journal, samples)
    BY <1>1, <2>1, <2>2 DEF Sound, Labelling
  <2> QED
    BY <1>2, <2>1, <2>2, <2>3, QuietStep
<1>6. CASE WriteTally(w)
  <2> DEFINE t == [s EXCEPT !.pc = "load", !.kind = "learning_labelled", !.count = 0]
  <2>1. 0 \in Counts /\ "learning_labelled" \in Kinds
    BY BoundsAreNat DEF Counts, Kinds
  <2>2. t \in WorkerState /\ t.pc = "load" /\ t.opp = s.opp /\ t.label = s.label
        /\ t.list = s.list /\ t.kind = "learning_labelled"
    BY <1>1, <2>1 DEF WorkerState, PCs
  <2>3. s.pc = "writeTally" /\ Become(w, t)
    BY <1>6 DEF WriteTally, At
  <2>4. Sound(t, journal, samples)
    BY <1>1, <2>1, <2>2, <2>3 DEF Sound, Labelling
  <2> QED
    BY <1>2, <2>2, <2>3, <2>4, QuietStep
<1>7. CASE EmitEnds(w)
  BY <1>2, <1>7, IdleSound, QuietStep DEF EmitEnds
<1> QED
  BY <1>3, <1>4, <1>5, <1>6, <1>7

(* A failed call or a crash drops what was held, and nothing that was saved. *)
LEMMA FaultSteps ==
    ASSUME RowsSound, WorkersSound, (\E w \in Workers : Fails(w)) \/ Crash
    PROVE  RowsSound' /\ WorkersSound'
<1>1. ASSUME NEW w \in Workers, Fails(w) PROVE RowsSound' /\ WorkersSound'
  <2>1. worker[w] \in WorkerState
    BY DEF WorkersSound
  <2>2. UNCHANGED <<journal, samples>> /\ (Become(w, Idle) \/ Become(w, Returned(w)))
    BY <1>1 DEF Fails, results
  <2> QED
    BY <2>1, <2>2, IdleSound, ReturnedSound, QuietStep
<1>2. CASE Crash
  <2>1. UNCHANGED <<journal, samples>> /\ worker' = [w \in Workers |-> Idle]
    BY <1>2 DEF Crash, results
  <2> QED
    BY <2>1, IdleSound DEF RowsSound, WorkersSound
<1> QED
  BY <1>1, <1>2

LEMMA CallsCounted ==
    ASSUME RestTyped, NEW route \in Routes, Called(route)
    PROVE  requests' \in [Routes -> Nat] /\ \A r \in Routes : requests'[r] <= MaxCalls[r]
<1>1. /\ requests \in [Routes -> Nat] /\ \A r \in Routes : requests[r] <= MaxCalls[r]
      /\ requests[route] < MaxCalls[route]
      /\ requests' = [requests EXCEPT ![route] = requests[route] + 1]
  BY DEF RestTyped, Called
<1>2. MaxCalls[route] \in Nat /\ requests[route] \in Nat
  BY <1>1, BoundsAreNat
<1>3. requests[route] + 1 \in Nat /\ requests[route] + 1 <= MaxCalls[route]
  BY <1>1, <1>2
<1> HIDE DEF Routes
<1>4. \A r \in Routes : requests'[r] = IF r = route THEN requests[route] + 1 ELSE requests[r]
  BY <1>1
<1> QED
  BY <1>1, <1>3, <1>4

LEMMA RestStep == WorkersSound /\ RestTyped /\ [Next]_vars => RestTyped'
<1> SUFFICES ASSUME WorkersSound, RestTyped, [Next]_vars PROVE RestTyped'
  OBVIOUS
<1> USE DEF results, bounds, Routes
<1>1. 0 \in 0..LearnEvery - 1 /\ (ticks + 1) % LearnEvery \in 0..LearnEvery - 1
  BY BoundsAreNat DEF RestTyped
<1>2. \A w \in Workers : worker[w].backend \in Backends \union {NoBackend}
                         /\ worker[w].count \in Counts
  BY DEF WorkersSound, WorkerState
<1>3. ASSUME NEW w \in Workers, TickStart(w) \/ TickSkips(w) \/ ReadMode(w) \/ Load(w)
                                \/ SaveEvent(w) \/ SaveLabel(w)
      PROVE  RestTyped'
  BY <1>3 DEF RestTyped, TickStart, TickSkips, ReadMode, Load, SaveEvent, SaveLabel
<1>4. ASSUME NEW w \in Workers, TickEnds(w) PROVE RestTyped'
  BY <1>1, <1>4 DEF RestTyped, TickEnds
<1>5. ASSUME NEW w \in Workers, TickEvaluates(w) PROVE RestTyped'
  BY <1>5 DEF RestTyped, TickEvaluates, Evaluate, ResetScratch
<1>6. ASSUME NEW w \in Workers, CallEvaluate(w) PROVE RestTyped'
  BY <1>6, CallsCounted DEF RestTyped, CallEvaluate, Evaluate, ResetScratch
<1>7. ASSUME NEW w \in Workers, CallEmit(w) PROVE RestTyped'
  BY <1>7, CallsCounted DEF RestTyped, CallEmit
<1>8. ASSUME NEW w \in Workers, Simulate(w) PROVE RestTyped'
  BY <1>8 DEF RestTyped, Simulate
<1>9. ASSUME NEW w \in Workers, Broadcast(w) PROVE RestTyped'
  BY <1>9 DEF RestTyped, Broadcast
<1>10. ASSUME NEW w \in Workers, Persist(w) PROVE RestTyped'
  <2> DEFINE alone == w \notin shared
             bundle == [used |-> worker[w].backend, recorded |-> scratch, alone |-> alone]
  <2>1. evidence' \in {evidence, bundle}
    BY <1>10 DEF Persist
  <2>2. alone \in BOOLEAN
    OBVIOUS
  <2> HIDE DEF alone
  <2>3. bundle \in [used : Backends \union {NoBackend}, recorded : Backends \union {NoBackend},
                    alone : BOOLEAN]
    BY <1>2, <2>2 DEF RestTyped
  <2> QED
    BY <1>10, <2>1, <2>3 DEF RestTyped, Persist
<1>11. ASSUME NEW w \in Workers, EmitList(w) \/ EmitNeutral(w) \/ ReadTally(w) \/ EmitEnds(w)
       PROVE  RestTyped'
  BY <1>11 DEF RestTyped, EmitList, EmitNeutral, ReadTally, EmitEnds
<1>12. ASSUME NEW w \in Workers, EmitSample(w) PROVE RestTyped'
  <2>1. PICK e \in worker[w].list : samples' = [samples EXCEPT ![e.opp] = Bump(samples[e.opp])]
    BY <1>12 DEF EmitSample
  <2>2. samples' \in [Opps -> Counts]
    BY <2>1, BumpTyped DEF RestTyped
  <2> QED
    BY <1>12, <2>2 DEF RestTyped, EmitSample
<1>13. ASSUME NEW w \in Workers, WriteTally(w) PROVE RestTyped'
  <2>1. tally' \in Counts
    BY <1>2, <1>13, BumpTyped DEF WriteTally, Counted
  <2> QED
    BY <1>13, <2>1 DEF RestTyped, WriteTally
<1>14. ASSUME NEW w \in Workers, Fails(w) PROVE RestTyped'
  BY <1>14, BoundsAreNat DEF RestTyped, Fails
<1>15. CASE Crash
  BY <1>1, <1>15, BoundsAreNat DEF RestTyped, Crash
<1>16. CASE UNCHANGED vars
  BY <1>16 DEF RestTyped, vars
<1> QED
  BY <1>3, <1>4, <1>5, <1>6, <1>7, <1>8, <1>9, <1>10, <1>11, <1>12, <1>13, <1>14, <1>15, <1>16
     DEF Next, Step

LEMMA InductiveStep == IInv /\ [Next]_vars => IInv'
<1> SUFFICES ASSUME IInv, [Next]_vars PROVE IInv'
  OBVIOUS
<1>1. RowsSound /\ WorkersSound /\ RestTyped /\ HistoryTyped
  BY DEF IInv
<1>2. RestTyped' /\ HistoryTyped'
  BY <1>1, RestStep, HistoryStep
<1>3. RowsSound' /\ WorkersSound'
  <2>1. ASSUME NEW w \in Workers,
               TickStart(w) \/ TickSkips(w) \/ TickEvaluates(w) \/ TickEnds(w)
        PROVE  RowsSound' /\ WorkersSound'
    BY <1>1, <2>1, TickSteps
  <2>2. ASSUME NEW w \in Workers, CallEvaluate(w) \/ CallEmit(w)
        PROVE  RowsSound' /\ WorkersSound'
    BY <1>1, <2>2, CallSteps
  <2>3. ASSUME NEW w \in Workers,
               ReadMode(w) \/ Load(w) \/ Simulate(w) \/ Broadcast(w) \/ Persist(w)
        PROVE  RowsSound' /\ WorkersSound'
    BY <1>1, <2>3, PipelineSteps
  <2>4. ASSUME NEW w \in Workers, SaveEvent(w) PROVE RowsSound' /\ WorkersSound'
    BY <1>1, <2>4, SaveEventStep
  <2>5. ASSUME NEW w \in Workers, SaveLabel(w) PROVE RowsSound' /\ WorkersSound'
    BY <1>1, <2>5, SaveLabelStep
  <2>6. ASSUME NEW w \in Workers, EmitSample(w) PROVE RowsSound' /\ WorkersSound'
    BY <1>1, <2>6, EmitSampleStep DEF RestTyped
  <2>7. ASSUME NEW w \in Workers,
               EmitList(w) \/ EmitNeutral(w) \/ ReadTally(w) \/ WriteTally(w) \/ EmitEnds(w)
        PROVE  RowsSound' /\ WorkersSound'
    BY <1>1, <2>7, LedgerSteps DEF RestTyped
  <2>8. CASE (\E w \in Workers : Fails(w)) \/ Crash
    BY <1>1, <2>8, FaultSteps
  <2>9. CASE UNCHANGED vars
    BY <1>1, <2>9 DEF RowsSound, WorkersSound, vars, results
  <2> QED
    BY <2>1, <2>2, <2>3, <2>4, <2>5, <2>6, <2>7, <2>8, <2>9 DEF Next, Step
<1> QED
  BY <1>1, <1>2, <1>3 DEF IInv

(***************************************************************************)
(* Theorems.                                                               *)
(***************************************************************************)

(* The invariant holds of a process that starts on an empty journal, and of   *)
(* one that starts on whatever journal and log an earlier process has left,   *)
(* as long as those satisfy it: evaluations, ticks and emissions overlap, and *)
(* fail, in any way.                                                         *)
THEOREM InvariantFromAnyJournal == IInv /\ [][Next]_vars => []IInv
<1>1. IInv /\ [Next]_vars => IInv'
  BY InductiveStep
<1> QED
  BY <1>1, PTL

(* Every variable keeps its type, and an absent row is one without events,    *)
(* for any number of opportunities, tickers and callers.                     *)
THEOREM TypeSafe == Spec => []TypeOK
<1>1. IInv => TypeOK
  BY DEF IInv, RowsSound, WorkersSound, RestTyped, HistoryTyped, Explained, TypeOK
<1> QED
  BY <1>1, InitSound, InvariantFromAnyJournal, PTL DEF Spec

(* The status of a row is explained by its trail although record_event saves  *)
(* a document that another coroutine may have overtaken: no interleaving of   *)
(* loads and saves produces a status without the event that sets it.         *)
THEOREM StatusAlwaysExplained == Spec => []StatusExplained
<1>1. IInv => StatusExplained
  BY DEF IInv, RowsSound, Explained, StatusExplained
<1> QED
  BY <1>1, InitSound, InvariantFromAnyJournal, PTL DEF Spec

(* emit_from_journal writes the sample before the label, and a stale save can *)
(* bring back an older label but never one without its sample.               *)
THEOREM LabelAlwaysSampled == Spec => []NoLabelWithoutSample
<1>1. IInv => NoLabelWithoutSample
  BY DEF IInv, RowsSound, Sampled, NoLabelWithoutSample
<1> QED
  BY <1>1, InitSound, InvariantFromAnyJournal, PTL DEF Spec

(***************************************************************************)
(* What overlapping coroutines cost.  A save writes back the whole document   *)
(* it loaded, the scratchpad is one per pipeline, and the ledger reads what   *)
(* it later writes: two coroutines on one row, or two evaluations at a time,  *)
(* can undo each other.  The theorems below say of each promise that nothing  *)
(* else breaks it, and no more than once for each such encounter.             *)
(***************************************************************************)

HeldApart ==
    \A v, w \in Workers, o \in Opps : Holds(worker[v], o) /\ Holds(worker[w], o) => v = w

(* Only the tick, which skips consumed rows, starts an evaluation.           *)
NoEvaluateCall == \A w \in Callers : ~CallEvaluate(w)

(* The write or the call that a worker has before it.                        *)
Pending(s) == IF s.pc \in {"load", "save"} THEN s.kind ELSE s.pc

(* The stages that a row has gone through when that is before it.            *)
Needed(pending) ==
    CASE pending = "quoted" -> {"discovered"}
      [] pending = "liquidity_checked" -> {"discovered", "quoted"}
      [] pending = "gas_estimated" -> {"discovered", "quoted", "liquidity_checked"}
      [] pending = "profit_evaluated" -> {"discovered", "quoted", "liquidity_checked", "gas_estimated"}
      [] pending = "policy_evaluated" -> Stages \ {"policy_evaluated", "certified", "simulated"}
      [] pending = "certified" -> Stages \ {"certified", "simulated"}
      [] pending \in {"simulate", "simulated"} -> Stages \ {"simulated"}
      [] pending \in {"broadcast", "shadow_recorded", "broadcast_sent", "broadcast_failed"} -> Stages
      [] OTHER -> {}

(***************************************************************************)
(* Their inductive invariants.                                             *)
(***************************************************************************)

(* An evaluation that runs alone has the scratchpad for itself.              *)
ScratchOwn ==
    \A w \in Workers :
        IF Evaluating(worker[w])
        THEN w \notin shared => /\ worker[w].backend = scratch
                                /\ \A v \in Workers \ {w} : ~Evaluating(worker[v])
        ELSE worker[w].backend = NoBackend

(* Two saves of one row have overtaken each other; where none have, the       *)
(* document that a worker is about to save is the one in the journal.        *)
SavesFresh ==
    \A w \in Workers, o \in Opps :
        Saving(worker[w], o) /\ o \notin overtaken =>
            /\ worker[w].buf = journal[o]
            /\ \A v \in Workers \ {w} : ~Saving(worker[v], o)

(* There, the stages behind an evaluation are on the trail of its row.       *)
TrailSoFar ==
    \A w \in Workers :
        Evaluating(worker[w]) /\ worker[w].opp \notin overtaken
            => Needed(Pending(worker[w])) \subseteq journal[worker[w].opp].events

(* Evaluations work on rows not consumed, emissions on finished ones.        *)
UnconsumedAtWork ==
    \A w \in Workers :
        LET s == worker[w]
        IN  /\ Evaluating(s) /\ s.pc # "persist" => ~journal[s.opp].consumed
            /\ Labelling(s) => Terminal(journal[s.opp])
            /\ \A e \in s.list : Terminal(journal[e.opp])
            /\ s.list # {} => Labelling(s) \/ s.pc = "emit"

(* A worker in state s has the row of o to label, or to evaluate.            *)
Emits(s, o) == (\E e \in s.list : e.opp = o) \/ (Labelling(s) /\ s.opp = o)
Evaluates(s, o) == Evaluating(s) /\ s.pc # "persist" /\ s.opp = o

(* The workers that have listed o and not sampled it yet.                    *)
Listers(o) == {w \in Workers : \E e \in worker[w].list : e.opp = o}

(* What is listed gets a label, and once.                                    *)
ListedOnce(s) ==
    /\ \A e \in s.list : e.label # "PENDING"
    /\ \A e, f \in s.list : e.opp = f.opp => e = f
    /\ s.list # {} => Labelling(s) \/ s.pc = "emit"
    /\ Labelling(s) => s.label # "PENDING" /\ \A e \in s.list : e.opp # s.opp

(* The row of o may be listed once more although nobody else holds it then:   *)
(* it is pending and nobody labels it, or an evaluation keeps it pending or   *)
(* is about to make it so.                                                   *)
Relistable(o) ==
    \/ \E w \in Workers : /\ Evaluates(worker[w], o) /\ worker[w].pc = "save"
                          /\ worker[w].buf.label = "PENDING"
    \/ /\ journal[o].label = "PENDING"
       /\ \/ \E w \in Workers : Evaluates(worker[w], o)
          \/ \A w \in Workers : ~Emits(worker[w], o)

(* The samples of a row and those about to be made are one more, at most,     *)
(* than the faults and the encounters on it; and no more while it may be       *)
(* listed again.                                                             *)
Owed(o) == samples[o] + Cardinality(Listers(o))
Accounted(o) ==
    \/ met[o] = MaxCount
    \/ /\ Owed(o) <= 1 + faults + met[o]
       /\ Relistable(o) => Owed(o) <= faults + met[o]
SamplesAccounted == (\A w \in Workers : ListedOnce(worker[w])) /\ \A o \in Opps : Accounted(o)

(* The tally, and what a worker is about to write over it, count no sample    *)
(* that is not logged or not counted yet, and are behind by no more than the   *)
(* faults, the races and the sample being counted.                           *)
TallyBounded ==
    LogFits =>
        /\ tally + Cardinality(AtTally) <= Cardinality(Logged)
        /\ races = MaxCount \/ Cardinality(Logged) <= tally + faults + races
                                                      + (IF AtTally = {} THEN 0 ELSE 1)
        /\ \A w \in Workers : At(w, "writeTally") =>
              /\ worker[w].count + Cardinality(AtTally) <= Cardinality(Logged)
              /\ races = MaxCount \/ Cardinality(Logged) <= worker[w].count + 1 + faults + races
TallyAccounted == IsFiniteSet(Logged) /\ TallyBounded

(***************************************************************************)
(* What each step does to the worker that takes it and to what it shares,     *)
(* without the detail that these invariants do not look at.                  *)
(***************************************************************************)

Rowless == {"idle", "next", "list"}
SameResults == samples' = samples /\ tally' = tally
Calm == scratch' = scratch /\ evidence' = evidence /\ faults' = faults

(* A tick or an emission goes on or ends, or an evaluation returns.          *)
Rests(w) ==
    LET s == worker[w]
        t == worker'[w]
    IN  /\ s.pc \in {"idle", "next", "emit", "persist"} /\ t.pc \in Rowless
        /\ t.list = {} \/ (s.pc = "next" /\ t.list = s.list)
        /\ s.pc = "emit" => s.list = {}
        /\ t.backend \in {s.backend, NoBackend} /\ (s.pc = "persist" => t.backend = NoBackend)
        /\ journal' = journal /\ SameResults /\ scratch' = scratch /\ faults' = faults
        /\ \/ evidence' = evidence
           \/ s.pc = "persist" /\ evidence' = [used |-> s.backend, recorded |-> scratch,
                                            alone |-> w \notin shared]

(* A call raises, and its worker holds nothing any more.                     *)
Drops(w) ==
    LET t == worker'[w]
    IN  /\ t.pc \in Rowless /\ t.list = {} /\ t.backend = NoBackend
        /\ journal' = journal /\ SameResults /\ scratch' = scratch /\ evidence' = evidence
        /\ faults' = faults + 1

Begins(w) ==
    LET s == worker[w]
        t == worker'[w]
    IN  /\ s.pc \in Rowless /\ t.pc = "mode"
        /\ t.list = s.list /\ t.backend = s.backend
        /\ journal' = journal /\ SameResults
        /\ scratch' = NoBackend /\ evidence' = evidence /\ faults' = faults
        /\ t.opp \in Opps /\ (~Skip(journal[t.opp]) \/ (w \in Callers /\ CallEvaluate(w)))

(* The mode is read, the simulation or the broadcast has answered.           *)
Goes(w) ==
    LET s == worker[w]
        t == worker'[w]
    IN  /\ s.pc \in {"mode", "simulate", "broadcast"} /\ t.pc \in {"load", "persist"}
        /\ t.opp = s.opp /\ t.list = s.list
        /\ t.pc = "load" => t.kind # "learning_labelled"
        /\ Needed(Pending(t)) \subseteq Needed(Pending(s))
        /\ (t.backend = s.backend /\ scratch' = scratch) \/ t.backend = scratch'
        /\ journal' = journal /\ SameResults /\ evidence' = evidence /\ faults' = faults

Loads(w) ==
    LET s == worker[w]
        t == worker'[w]
    IN  /\ s.pc = "load" /\ t.pc = "save" /\ t.kind = s.kind /\ t.opp = s.opp /\ t.list = s.list
        /\ t.label = s.label /\ t.backend = s.backend /\ t.buf = journal[s.opp]
        /\ journal' = journal /\ SameResults /\ Calm

SavesRow(w) ==
    LET s == worker[w]
        t == worker'[w]
    IN  /\ s.pc = "save" /\ s.opp \in Opps
        /\ t.list = s.list
        /\ \A o \in Opps \ {s.opp} : journal'[o] = journal[o]
        /\ journal'[s.opp].events = s.buf.events \union {s.kind}
        /\ SameResults /\ Calm

Finals == {"SHADOW_RECORDED", "BROADCAST_SENT", "BROADCAST_FAILED"}

SavesEvent(w) ==
    LET s == worker[w]
        t == worker'[w]
    IN  /\ SavesRow(w)
        /\ s.kind # "learning_labelled"
        /\ t.pc \in {"load", "simulate", "broadcast", "persist"} /\ t.opp = s.opp
        /\ t.pc = "load" => t.kind # "learning_labelled"
        /\ t.backend = s.backend
        /\ Needed(Pending(t)) \subseteq Needed(s.kind) \union {s.kind}
        /\ journal'[s.opp].label = s.buf.label
        /\ journal'[s.opp].consumed = s.buf.consumed
        /\ journal'[s.opp].status \in Finals =>
              s.buf.status \in Finals \/ Needed(s.kind) = Stages

SavesLabel(w) ==
    LET s == worker[w]
        t == worker'[w]
    IN  /\ SavesRow(w)
        /\ s.kind = "learning_labelled"
        /\ t.pc = "emit" /\ t.backend = NoBackend
        /\ journal'[s.opp].label = s.label
        /\ journal'[s.opp].status = s.buf.status

Lists(w) ==
    LET s == worker[w]
        t == worker'[w]
    IN  /\ s.pc = "list" /\ t.pc = "emit" /\ t.backend = s.backend
        /\ \A e \in t.list : /\ journal[e.opp].label = "PENDING" /\ Terminal(journal[e.opp])
                             /\ e.label = LabelOf(journal[e.opp].status)
        /\ journal' = journal /\ SameResults /\ Calm

Takes(w) ==
    LET s == worker[w]
        t == worker'[w]
    IN  /\ s.pc = "emit"
        /\ \E e \in s.list :
              /\ t.opp = e.opp /\ t.label = e.label /\ t.list = s.list \ {e}
              /\ \/ t.pc = "readTally" /\ samples' = [samples EXCEPT ![e.opp] = Bump(@)]
                 \/ t.pc = "load" /\ t.kind = "learning_labelled" /\ samples' = samples
        /\ t.backend = s.backend
        /\ journal' = journal /\ tally' = tally /\ Calm

Tallies(w) ==
    LET s == worker[w]
        t == worker'[w]
    IN  /\ \/ s.pc = "readTally" /\ t.pc = "writeTally" /\ t.count = tally /\ tally' = tally
           \/ /\ s.pc = "writeTally" /\ t.pc = "load" /\ t.kind = "learning_labelled"
              /\ tally' = Bump(s.count)
        /\ t.opp = s.opp /\ t.label = s.label /\ t.list = s.list /\ t.backend = s.backend
        /\ journal' = journal /\ samples' = samples /\ Calm

(* One worker takes one of those steps, and the others wait.                 *)
Moves(w) ==
    /\ worker' = [worker EXCEPT ![w] = worker'[w]]
    /\ \/ Rests(w) \/ Drops(w) \/ Begins(w) \/ Goes(w) \/ Loads(w) \/ SavesEvent(w)
       \/ SavesLabel(w) \/ Lists(w) \/ Takes(w) \/ Tallies(w)

Restarts ==
    /\ worker' = [w \in Workers |-> Idle]
    /\ journal' = journal /\ SameResults /\ scratch' = NoBackend /\ evidence' = evidence
    /\ faults' = faults + 1

LEMMA Becomes ==
    ASSUME WorkersSound, NEW w \in Workers, NEW t, Become(w, t)
    PROVE  worker'[w] = t /\ worker' = [worker EXCEPT ![w] = worker'[w]]
BY DEF WorkersSound, Become

LEMMA IdleFields ==
    /\ Idle.pc = "idle" /\ Idle.list = {} /\ Idle.backend = NoBackend
    /\ DOMAIN Idle = {"pc", "opp", "todo", "mode", "kind", "buf", "backend", "list", "label", "count"}
BY DEF Idle

LEMMA ReturnedFields ==
    ASSUME NEW w \in Workers
    PROVE  Returned(w).pc \in Rowless /\ Returned(w).list = {} /\ Returned(w).backend = NoBackend
BY DEF Returned, Idle, Rowless

(* What is next after a write is needed up to the stage just written.        *)
LEMMA AfterFields ==
    ASSUME NEW s \in WorkerState, NEW next \in NextKinds
    PROVE  LET t == After(s, next)
           IN  /\ t.opp = s.opp /\ t.list = s.list /\ t.backend = s.backend
               /\ t.pc \in {"load", "simulate", "broadcast", "persist"}
               /\ t.pc = "load" => t.kind # "learning_labelled"
               /\ Needed(Pending(t)) = Needed(next)
               /\ next \notin Kinds => t.pc # "load"
               /\ next \in Kinds => t.pc = "load"
<1> DEFINE t == After(s, next)
<1>1. CASE next = Done
  <2>1. t = [s EXCEPT !.pc = "persist", !.kind = Done, !.buf = NoRow, !.mode = OBSERVE]
    BY <1>1 DEF After, Done
  <2>2. t.opp = s.opp /\ t.list = s.list /\ t.backend = s.backend /\ t.pc = "persist"
    BY <2>1 DEF WorkerState
  <2>3. Pending(t) = "persist" /\ Needed("persist") = {} /\ Needed(Done) = {}
    BY <2>2 DEF Pending, Needed, Done
  <2> QED
    BY <1>1, <2>2, <2>3 DEF Kinds, Stages, Done
<1>2. CASE next \in {"simulate", "broadcast"}
  <2>1. t = [s EXCEPT !.pc = next, !.kind = Done, !.buf = NoRow]
    BY <1>2 DEF After, Done
  <2>2. t.opp = s.opp /\ t.list = s.list /\ t.backend = s.backend /\ t.pc = next
    BY <2>1 DEF WorkerState
  <2> QED
    BY <1>2, <2>2 DEF Pending, Kinds, Stages
<1>3. CASE next \in Kinds \ {"discovered", "learning_labelled"}
  <2>1. next \notin {Done, "simulate", "broadcast"}
    BY <1>3 DEF Kinds, Stages, Done
  <2>2. t = [s EXCEPT !.pc = "load", !.kind = next, !.buf = NoRow]
    BY <2>1 DEF After
  <2>3. t.opp = s.opp /\ t.list = s.list /\ t.backend = s.backend /\ t.pc = "load" /\ t.kind = next
    BY <2>2 DEF WorkerState
  <2> QED
    BY <1>3, <2>3 DEF Pending
<1> QED
  BY <1>1, <1>2, <1>3 DEF NextKinds

(* A write leads on only from the stage it records, and finishes a row only   *)
(* behind all stages.                                                        *)
LEMMA OutcomesInOrder ==
    ASSUME NEW kind \in Kinds \ {"learning_labelled"}, NEW mode, NEW v \in Outcomes(kind, mode)
    PROVE  /\ Needed(v[2]) \subseteq Needed(kind) \union {kind}
           /\ v[1] \in Finals => Needed(kind) = Stages
<1> USE DEF Needed, Stages, Keep, Done, Finals
<1>1. CASE kind = "discovered"
  BY <1>1 DEF Outcomes
<1>2. CASE kind = "quoted"
  BY <1>2 DEF Outcomes
<1>3. CASE kind = "liquidity_checked"
  BY <1>3 DEF Outcomes
<1>4. CASE kind = "gas_estimated"
  BY <1>4 DEF Outcomes
<1>5. CASE kind = "profit_evaluated"
  BY <1>5 DEF Outcomes
<1>6. CASE kind = "policy_evaluated"
  BY <1>6 DEF Outcomes
<1>7. CASE kind = "certified"
  BY <1>7 DEF Outcomes
<1>8. CASE kind = "simulated"
  BY <1>8 DEF Outcomes
<1>9. CASE kind \in {"rejected", "policy_denied", "shadow_recorded", "broadcast_sent",
                     "broadcast_failed"}
  BY <1>9 DEF Outcomes
<1> QED
  BY <1>1, <1>2, <1>3, <1>4, <1>5, <1>6, <1>7, <1>8, <1>9 DEF Kinds

LEMMA RestingMoves ==
    ASSUME WorkersSound, NEW w \in Workers,
           \/ TickStart(w) \/ TickSkips(w) \/ TickEnds(w) \/ CallEmit(w) \/ Persist(w)
           \/ EmitEnds(w)
    PROVE  Moves(w)
<1> DEFINE s == worker[w]
<1>1. s \in WorkerState
  BY DEF WorkersSound
<1> USE DEF SameResults, Rowless, results, bounds, At
<1>2. CASE TickStart(w)
  <2>1. PICK batch \in SUBSET Opps : Become(w, [Idle EXCEPT !.pc = "next", !.todo = batch])
    BY <1>2 DEF TickStart
  <2>2. worker'[w].pc = "next" /\ worker'[w].list = {} /\ worker'[w].backend = NoBackend
    <3>1. worker'[w] = [Idle EXCEPT !.pc = "next", !.todo = batch]
      BY <2>1, Becomes
    <3> QED
      BY <3>1 DEF Idle
  <2>3. Rests(w)
    BY <1>2, <2>2 DEF Rests, TickStart
  <2> QED
    BY <2>1, <2>3, Becomes DEF Moves
<1>3. CASE TickSkips(w)
  <2>1. PICK o \in s.todo : Become(w, [s EXCEPT !.todo = s.todo \ {o}])
    BY <1>3 DEF TickSkips
  <2>2. worker'[w].pc = "next" /\ worker'[w].list = s.list /\ worker'[w].backend = s.backend
    BY <1>1, <1>3, <2>1, Becomes DEF WorkerState, TickSkips
  <2>3. Rests(w)
    BY <1>3, <2>2 DEF Rests, TickSkips
  <2> QED
    BY <2>1, <2>3, Becomes DEF Moves
<1>4. CASE TickEnds(w)
  <2>1. PICK pc \in {"list", "idle"} : Become(w, [Idle EXCEPT !.pc = pc])
    BY <1>4 DEF TickEnds
  <2>2. worker'[w].pc = pc /\ worker'[w].list = {} /\ worker'[w].backend = NoBackend
    BY <2>1, Becomes, IdleFields
  <2>3. Rests(w)
    BY <1>4, <2>2 DEF Rests, TickEnds
  <2> QED
    BY <2>1, <2>3, Becomes DEF Moves
<1>5. CASE CallEmit(w)
  <2>1. Become(w, [Idle EXCEPT !.pc = "list"])
    BY <1>5 DEF CallEmit
  <2>2. worker'[w].pc = "list" /\ worker'[w].list = {} /\ worker'[w].backend = NoBackend
    BY <2>1, Becomes, IdleFields
  <2>3. Rests(w)
    BY <1>5, <2>2 DEF Rests, CallEmit
  <2> QED
    BY <2>1, <2>3, Becomes DEF Moves
<1>6. CASE Persist(w)
  <2>1. Become(w, Returned(w))
    BY <1>6 DEF Persist
  <2>2. worker'[w].pc \in Rowless /\ worker'[w].list = {} /\ worker'[w].backend = NoBackend
    BY <2>1, Becomes, ReturnedFields
  <2>3. Rests(w)
    BY <1>6, <2>2 DEF Rests, Persist
  <2> QED
    BY <2>1, <2>3, Becomes DEF Moves
<1>7. CASE EmitEnds(w)
  <2>1. Become(w, Idle)
    BY <1>7 DEF EmitEnds
  <2>2. worker'[w].pc = "idle" /\ worker'[w].list = {} /\ worker'[w].backend = NoBackend
    BY <2>1, Becomes, IdleFields
  <2>3. Rests(w)
    BY <1>7, <2>2 DEF Rests, EmitEnds
  <2> QED
    BY <2>1, <2>3, Becomes DEF Moves
<1> QED
  BY <1>2, <1>3, <1>4, <1>5, <1>6, <1>7

LEMMA BeginningMoves ==
    ASSUME WorkersSound, NEW w \in Workers, TickEvaluates(w) \/ CallEvaluate(w)
    PROVE  Moves(w)
<1> DEFINE s == worker[w]
<1>1. s \in WorkerState
  BY DEF WorkersSound
<1>2. PICK o \in Opps :
         /\ Evaluate(w, o) /\ s.pc \in Rowless
         /\ ~Skip(journal[o]) \/ (w \in Callers /\ CallEvaluate(w))
  BY <1>1 DEF TickEvaluates, CallEvaluate, WorkerState, Rowless, At
<1>3. Become(w, [s EXCEPT !.pc = "mode", !.opp = o])
  BY <1>2 DEF Evaluate
<1>4. /\ worker'[w].pc = "mode" /\ worker'[w].opp = o
      /\ worker'[w].list = s.list /\ worker'[w].backend = s.backend
  <2>1. worker'[w] = [s EXCEPT !.pc = "mode", !.opp = o]
    BY <1>3, Becomes
  <2> QED
    BY <1>1, <2>1 DEF WorkerState
<1>5. Begins(w)
  BY <1>2, <1>4 DEF Begins, Evaluate, ResetScratch, SameResults, results
<1> QED
  BY <1>3, <1>5, Becomes DEF Moves

LEMMA GoingMoves ==
    ASSUME WorkersSound, NEW w \in Workers, ReadMode(w) \/ Simulate(w) \/ Broadcast(w)
    PROVE  Moves(w)
<1> DEFINE s == worker[w]
<1>1. s \in WorkerState
  BY DEF WorkersSound
<1>2. {Done, "broadcast_sent", "broadcast_failed", "simulated"} \subseteq NextKinds
  BY DEF NextKinds, Kinds, Stages
<1>3. /\ Needed(Done) = {} /\ Needed("discovered") = {}
      /\ \A kind \in {"broadcast_sent", "broadcast_failed"} : Needed(kind) = Needed("broadcast")
      /\ Needed("simulated") = Needed("simulate")
  BY DEF Needed, Done
<1> USE DEF SameResults, results, bounds, At
<1>4. CASE ReadMode(w)
  <2>1. CASE Become(w, After(s, Done))
    <3>1. /\ worker'[w].pc = "persist" /\ worker'[w].opp = s.opp /\ worker'[w].list = s.list
          /\ worker'[w].backend = s.backend /\ Needed(Pending(worker'[w])) = {}
      <4>1. worker'[w] = After(s, Done)
        BY <2>1, Becomes
      <4>2. After(s, Done) = [s EXCEPT !.pc = "persist", !.kind = Done, !.buf = NoRow, !.mode = OBSERVE]
        BY DEF After, Done
      <4>3. worker'[w].pc = "persist"
        BY <1>1, <4>1, <4>2 DEF WorkerState
      <4> QED
        BY <1>1, <1>2, <1>3, <4>1, <4>3, AfterFields
    <3>2. Goes(w)
      BY <1>4, <3>1 DEF Goes, ReadMode
    <3> QED
      BY <2>1, <3>2, Becomes DEF Moves
  <2>2. ASSUME NEW m \in ModesHeld,
               Become(w, [s EXCEPT !.pc = "load", !.kind = "discovered", !.mode = m])
        PROVE  Moves(w)
    <3>1. /\ worker'[w].pc = "load" /\ worker'[w].kind = "discovered"
          /\ worker'[w].opp = s.opp /\ worker'[w].list = s.list /\ worker'[w].backend = s.backend
      <4>1. worker'[w] = [s EXCEPT !.pc = "load", !.kind = "discovered", !.mode = m]
        BY <2>2, Becomes
      <4> QED
        BY <1>1, <4>1 DEF WorkerState
    <3>2. Needed(Pending(worker'[w])) = {}
      BY <1>3, <3>1 DEF Pending
    <3>3. Goes(w)
      BY <1>4, <3>1, <3>2 DEF Goes, ReadMode
    <3> QED
      BY <2>2, <3>3, Becomes DEF Moves
  <2> QED
    BY <1>4, <2>1, <2>2 DEF ReadMode
<1>5. CASE Simulate(w)
  <2>1. PICK b \in Backends :
           scratch' = b /\ Become(w, [After(s, "simulated") EXCEPT !.backend = b])
    BY <1>5 DEF Simulate
  <2> DEFINE a == [s EXCEPT !.pc = "load", !.kind = "simulated", !.buf = NoRow]
  <2>2. After(s, "simulated") = a
    BY DEF After, Done
  <2>3. worker'[w] = [a EXCEPT !.backend = b]
    BY <2>1, <2>2, Becomes
  <2>4. /\ worker'[w].pc = "load" /\ worker'[w].kind = "simulated"
        /\ worker'[w].opp = s.opp /\ worker'[w].list = s.list /\ worker'[w].backend = b
    BY <1>1, <2>3 DEF WorkerState
  <2>5. Needed(Pending(worker'[w])) = Needed(Pending(s))
    BY <1>3, <1>5, <2>4 DEF Pending, Simulate
  <2>6. Goes(w)
    BY <1>5, <2>1, <2>4, <2>5 DEF Goes, Simulate
  <2> QED
    BY <2>1, <2>6, Becomes DEF Moves
<1>6. CASE Broadcast(w)
  <2>1. PICK kind \in {"broadcast_sent", "broadcast_failed"} : Become(w, After(s, kind))
    BY <1>6 DEF Broadcast
  <2>2. worker'[w] = After(s, kind) /\ kind \in NextKinds /\ kind \in Kinds
    BY <1>2, <2>1, Becomes DEF Kinds
  <2>3. /\ worker'[w].pc = "load" /\ worker'[w].kind # "learning_labelled"
        /\ worker'[w].opp = s.opp /\ worker'[w].list = s.list /\ worker'[w].backend = s.backend
        /\ Needed(Pending(worker'[w])) = Needed(kind)
    BY <1>1, <2>2, AfterFields
  <2>4. Needed(Pending(s)) = Needed(kind)
    BY <1>3, <1>6 DEF Pending, Broadcast
  <2>5. Goes(w)
    BY <1>6, <2>3, <2>4 DEF Goes, Broadcast
  <2> QED
    BY <2>1, <2>5, Becomes DEF Moves
<1> QED
  BY <1>4, <1>5, <1>6

LEMMA LoadingMoves == ASSUME WorkersSound, NEW w \in Workers, Load(w) PROVE Moves(w)
<1> DEFINE s == worker[w]
<1>1. s \in WorkerState /\ Become(w, [s EXCEPT !.pc = "save", !.buf = journal[s.opp]])
  BY DEF WorkersSound, Load
<1>2. /\ worker'[w].pc = "save" /\ worker'[w].kind = s.kind /\ worker'[w].opp = s.opp
      /\ worker'[w].list = s.list /\ worker'[w].label = s.label
      /\ worker'[w].backend = s.backend /\ worker'[w].buf = journal[s.opp]
  <2>1. worker'[w] = [s EXCEPT !.pc = "save", !.buf = journal[s.opp]]
    BY <1>1, Becomes
  <2> QED
    BY <1>1, <2>1 DEF WorkerState
<1>3. Loads(w)
  BY <1>2 DEF Loads, Load, At, SameResults, Calm, results, bounds
<1> QED
  BY <1>1, <1>3, Becomes DEF Moves

LEMMA SavingMoves ==
    ASSUME RowsSound, WorkersSound, NEW w \in Workers, SaveEvent(w)
    PROVE  Moves(w)
<1> DEFINE s == worker[w]
<1>1. /\ s \in WorkerState /\ s.pc = "save" /\ s.kind \in Kinds \ {"learning_labelled"}
      /\ s.opp \in Opps /\ s.buf \in JournalRow
  BY DEF WorkersSound, SaveEvent, At, Sound, WorkerState
<1>2. PICK v \in Outcomes(s.kind, s.mode) :
         /\ journal' = [journal EXCEPT ![s.opp] = Recorded(s.buf, s.kind, v[1])]
         /\ Become(w, After(s, v[2]))
  BY DEF SaveEvent
<1> DEFINE row == Recorded(s.buf, s.kind, v[1])
<1>3. v[2] \in NextKinds /\ Needed(v[2]) \subseteq Needed(s.kind) \union {s.kind}
      /\ (v[1] \in Finals => Needed(s.kind) = Stages)
  BY <1>1, <1>2, OutcomesSound, OutcomesInOrder
<1>4. /\ row.events = s.buf.events \union {s.kind} /\ row.label = s.buf.label
      /\ row.consumed = s.buf.consumed
      /\ row.status = IF v[1] # Keep THEN v[1]
                      ELSE IF Present(s.buf) THEN s.buf.status ELSE "DISCOVERED"
  BY <1>1 DEF Recorded, JournalRow
<1> HIDE DEF row
<1>5. row.status \in Finals => s.buf.status \in Finals \/ Needed(s.kind) = Stages
  BY <1>3, <1>4 DEF Finals
<1>6. journal'[s.opp] = row /\ \A o \in Opps \ {s.opp} : journal'[o] = journal[o]
  BY <1>1, <1>2 DEF RowsSound, row
<1>7. LET t == worker'[w]
      IN  /\ t.opp = s.opp /\ t.list = s.list /\ t.backend = s.backend
          /\ t.pc \in {"load", "simulate", "broadcast", "persist"}
          /\ t.pc = "load" => t.kind # "learning_labelled"
          /\ Needed(Pending(t)) \subseteq Needed(s.kind) \union {s.kind}
  <2>1. worker'[w] = After(s, v[2])
    BY <1>2, Becomes
  <2> QED
    BY <1>1, <1>3, <2>1, AfterFields
<1>8. SavesEvent(w)
  BY <1>1, <1>4, <1>5, <1>6, <1>7
     DEF SavesEvent, SavesRow, SaveEvent, SameResults, Calm, results, bounds
<1> QED
  BY <1>2, <1>8, Becomes DEF Moves

LEMMA LabellingMoves ==
    ASSUME RowsSound, WorkersSound, NEW w \in Workers, SaveLabel(w)
    PROVE  Moves(w)
<1> DEFINE s == worker[w]
           row == [s.buf EXCEPT !.label = s.label, !.consumed = TRUE,
                                !.events = s.buf.events \union {"learning_labelled"}]
<1>1. /\ s \in WorkerState /\ s.pc = "save" /\ s.kind = "learning_labelled"
      /\ s.opp \in Opps /\ s.buf \in JournalRow
  BY DEF WorkersSound, SaveLabel, At, Sound, WorkerState
<1>2. journal' = [journal EXCEPT ![s.opp] = row]
      /\ Become(w, [Idle EXCEPT !.pc = "emit", !.list = s.list])
  BY DEF SaveLabel
<1>3. row.events = s.buf.events \union {s.kind} /\ row.label = s.label
      /\ row.status = s.buf.status
  BY <1>1 DEF JournalRow
<1> HIDE DEF row
<1>4. journal'[s.opp] = row /\ \A o \in Opps \ {s.opp} : journal'[o] = journal[o]
  BY <1>1, <1>2 DEF RowsSound
<1>5. worker'[w].pc = "emit" /\ worker'[w].list = s.list /\ worker'[w].backend = NoBackend
  <2>1. worker'[w] = [Idle EXCEPT !.pc = "emit", !.list = s.list]
    BY <1>2, Becomes
  <2> QED
    BY <2>1 DEF Idle
<1>6. SavesLabel(w)
  BY <1>1, <1>3, <1>4, <1>5
     DEF SavesLabel, SavesRow, SaveLabel, SameResults, Calm, results, bounds
<1> QED
  BY <1>2, <1>6, Becomes DEF Moves

LEMMA LedgerMoves ==
    ASSUME WorkersSound, NEW w \in Workers,
           EmitList(w) \/ EmitSample(w) \/ EmitNeutral(w) \/ ReadTally(w) \/ WriteTally(w)
    PROVE  Moves(w)
<1> DEFINE s == worker[w]
<1>1. s \in WorkerState
  BY DEF WorkersSound
<1> USE DEF SameResults, Calm, results, bounds, At
<1>2. CASE EmitList(w)
  <2> DEFINE list == {[opp |-> o, label |-> LabelOf(journal[o].status)] :
                         o \in {p \in Opps : Listed(journal[p]) /\ Terminal(journal[p])}}
  <2>1. Become(w, [s EXCEPT !.pc = "emit", !.list = list])
    BY <1>2 DEF EmitList
  <2>2. \A e \in list : /\ journal[e.opp].label = "PENDING" /\ Terminal(journal[e.opp])
                        /\ e.label = LabelOf(journal[e.opp].status)
    BY DEF Listed
  <2> HIDE DEF list
  <2>3. worker'[w].pc = "emit" /\ worker'[w].list = list /\ worker'[w].backend = s.backend
    <3>1. worker'[w] = [s EXCEPT !.pc = "emit", !.list = list]
      BY <2>1, Becomes
    <3> QED
      BY <1>1, <3>1 DEF WorkerState
  <2>4. Lists(w)
    BY <1>2, <2>2, <2>3 DEF Lists, EmitList
  <2> QED
    BY <2>1, <2>4, Becomes DEF Moves
<1>3. CASE EmitSample(w)
  <2>1. PICK e \in s.list :
           /\ samples' = [samples EXCEPT ![e.opp] = Bump(@)]
           /\ Become(w, [s EXCEPT !.pc = "readTally", !.opp = e.opp, !.label = e.label,
                                   !.list = s.list \ {e}])
    BY <1>3 DEF EmitSample
  <2>2. /\ worker'[w].pc = "readTally" /\ worker'[w].opp = e.opp /\ worker'[w].label = e.label
        /\ worker'[w].list = s.list \ {e} /\ worker'[w].backend = s.backend
    <3>1. worker'[w] = [s EXCEPT !.pc = "readTally", !.opp = e.opp, !.label = e.label,
                                 !.list = s.list \ {e}]
      BY <2>1, Becomes
    <3> QED
      BY <1>1, <3>1 DEF WorkerState
  <2>3. Takes(w)
    BY <1>3, <2>1, <2>2 DEF Takes, EmitSample
  <2> QED
    BY <2>1, <2>3, Becomes DEF Moves
<1>4. CASE EmitNeutral(w)
  <2>1. PICK e \in s.list :
           Become(w, [s EXCEPT !.pc = "load", !.opp = e.opp, !.label = e.label,
                                !.list = s.list \ {e}, !.kind = "learning_labelled"])
    BY <1>4 DEF EmitNeutral
  <2>2. /\ worker'[w].pc = "load" /\ worker'[w].opp = e.opp /\ worker'[w].label = e.label
        /\ worker'[w].list = s.list \ {e} /\ worker'[w].backend = s.backend
        /\ worker'[w].kind = "learning_labelled"
    <3>1. worker'[w] = [s EXCEPT !.pc = "load", !.opp = e.opp, !.label = e.label,
                                 !.list = s.list \ {e}, !.kind = "learning_labelled"]
      BY <2>1, Becomes
    <3> QED
      BY <1>1, <3>1 DEF WorkerState
  <2>3. Takes(w)
    BY <1>4, <2>1, <2>2 DEF Takes, EmitNeutral
  <2> QED
    BY <2>1, <2>3, Becomes DEF Moves
<1>5. CASE ReadTally(w)
  <2>1. Become(w, [s EXCEPT !.pc = "writeTally", !.count = tally])
    BY <1>5 DEF ReadTally
  <2>2. /\ worker'[w].pc = "writeTally" /\ worker'[w].count = tally /\ worker'[w].opp = s.opp
        /\ worker'[w].label = s.label /\ worker'[w].list = s.list
        /\ worker'[w].backend = s.backend
    <3>1. worker'[w] = [s EXCEPT !.pc = "writeTally", !.count = tally]
      BY <2>1, Becomes
    <3> QED
      BY <1>1, <3>1 DEF WorkerState
  <2>3. Tallies(w)
    BY <1>5, <2>2 DEF Tallies, ReadTally
  <2> QED
    BY <2>1, <2>3, Becomes DEF Moves
<1>6. CASE WriteTally(w)
  <2>1. Become(w, [s EXCEPT !.pc = "load", !.kind = "learning_labelled", !.count = 0])
    BY <1>6 DEF WriteTally
  <2>2. /\ worker'[w].pc = "load" /\ worker'[w].kind = "learning_labelled"
        /\ worker'[w].opp = s.opp /\ worker'[w].label = s.label /\ worker'[w].list = s.list
        /\ worker'[w].backend = s.backend
    <3>1. worker'[w] = [s EXCEPT !.pc = "load", !.kind = "learning_labelled", !.count = 0]
      BY <2>1, Becomes
    <3> QED
      BY <1>1, <3>1 DEF WorkerState
  <2>3. Tallies(w)
    BY <1>6, <2>2 DEF Tallies, WriteTally, Counted
  <2> QED
    BY <2>1, <2>3, Becomes DEF Moves
<1> QED
  BY <1>2, <1>3, <1>4, <1>5, <1>6

LEMMA FailingMoves == ASSUME WorkersSound, NEW w \in Workers, Fails(w) PROVE Moves(w)
<1>1. Become(w, Idle) \/ Become(w, Returned(w))
  BY DEF Fails
<1>2. /\ worker'[w].pc \in Rowless /\ worker'[w].list = {} /\ worker'[w].backend = NoBackend
      /\ worker' = [worker EXCEPT ![w] = worker'[w]]
  BY <1>1, Becomes, IdleFields, ReturnedFields DEF Rowless
<1>3. Drops(w)
  BY <1>2 DEF Drops, Fails, SameResults, results
<1> QED
  BY <1>2, <1>3 DEF Moves

(* Every step is one of those.                                               *)
LEMMA StepMoves ==
    ASSUME RowsSound, WorkersSound, [Next]_vars
    PROVE  (\E w \in Workers : Moves(w)) \/ Restarts \/ UNCHANGED vars
<1>1. CASE Crash
  BY <1>1 DEF Crash, Restarts, SameResults, results
<1>2. ASSUME NEW w \in Workers,
             TickStart(w) \/ CallEvaluate(w) \/ CallEmit(w) \/ Step(w) \/ Fails(w)
      PROVE  Moves(w)
  BY <1>2, RestingMoves, BeginningMoves, GoingMoves, LoadingMoves, SavingMoves, LabellingMoves,
     LedgerMoves, FailingMoves DEF Step
<1> QED
  BY <1>1, <1>2 DEF Next

(* Where one worker moves, each is where it was or is the one that moved.    *)
LEMMA OthersWait ==
    ASSUME WorkersSound, NEW w \in Workers, Moves(w)
    PROVE  \A v \in Workers : v # w => worker'[v] = worker[v]
BY DEF Moves, WorkersSound

LEMMA RestartsIdle ==
    ASSUME Restarts, NEW w \in Workers
    PROVE  /\ worker'[w].pc = "idle" /\ worker'[w].list = {} /\ worker'[w].backend = NoBackend
BY IdleFields DEF Restarts

LEMMA StutterKeeps ==
    ASSUME UNCHANGED vars
    PROVE  UNCHANGED <<journal, worker, scratch, evidence, samples, tally, faults,
                       met, races, shared, overtaken>>
BY DEF vars, results, bounds, history

(***************************************************************************)
(* Evidence.                                                               *)
(***************************************************************************)

LEMMA ScratchStep ==
    ASSUME IInv, [Next]_vars, ScratchOwn, EvidenceIsOwn
    PROVE  ScratchOwn' /\ EvidenceIsOwn'
<1>0. RowsSound /\ WorkersSound
  BY DEF IInv
<1>1. ASSUME NEW w \in Workers, Moves(w), Observe PROVE ScratchOwn' /\ EvidenceIsOwn'
  <2> DEFINE s == worker[w]
             t == worker'[w]
  <2>1. \A v \in Workers : v # w => worker'[v] = worker[v]
    BY <1>0, <1>1, OthersWait
  (* An evaluation that has the scratchpad for itself has had it before.      *)
  <2>2. \A v \in Workers : Evaluating(worker'[v]) /\ v \notin shared' =>
            /\ v \notin shared
            /\ \A u \in Workers \ {v} : ~Evaluating(worker'[u])
    BY <1>1 DEF Observe
  <2>3. SUFFICES /\ IF Evaluating(t) THEN w \notin shared => t.backend = scratch'
                                     ELSE t.backend = NoBackend
                 /\ Evaluating(s) \/ Evaluating(t) \/ scratch' = scratch
                 /\ EvidenceIsOwn'
    <3>1. ASSUME NEW v \in Workers, Evaluating(worker'[v]), v \notin shared'
          PROVE  worker'[v].backend = scratch'
      <4>1. CASE v = w
        BY <2>2, <2>3, <3>1, <4>1
      <4>2. CASE v # w
        <5>1. Evaluating(worker[v]) /\ v \notin shared /\ worker'[v].backend = worker[v].backend
          BY <2>1, <2>2, <3>1, <4>2
        <5>2. ~Evaluating(s) /\ worker[v].backend = scratch
          BY <4>2, <5>1 DEF ScratchOwn
        <5>3. ~Evaluating(t)
          BY <2>2, <3>1, <4>2
        <5> QED
          BY <2>3, <5>1, <5>2, <5>3
      <4> QED
        BY <4>1, <4>2
    <3>2. ASSUME NEW v \in Workers, ~Evaluating(worker'[v]) PROVE worker'[v].backend = NoBackend
      BY <2>1, <2>3, <3>2 DEF ScratchOwn
    <3> QED
      BY <2>2, <2>3, <3>1, <3>2 DEF ScratchOwn
  <2>4. IF Evaluating(s) THEN w \notin shared => s.backend = scratch ELSE s.backend = NoBackend
    BY DEF ScratchOwn
  <2> USE DEF Rowless, Calm, EvidenceIsOwn, Evaluating
  <2>5. CASE Rests(w)
    <3>1. ASSUME evidence' # evidence PROVE EvidenceIsOwn'
      <4> DEFINE alone == w \notin shared
      <4>1. s.pc = "persist" /\ evidence' = [used |-> s.backend, recorded |-> scratch, alone |-> alone]
        BY <2>5, <3>1 DEF Rests
      <4>2. alone => s.backend = scratch
        BY <2>4, <4>1
      <4> HIDE DEF alone
      <4>3. /\ evidence'.used = s.backend /\ evidence'.recorded = scratch
            /\ evidence'.alone = alone
        BY <4>1
      <4> QED
        BY <4>2, <4>3
    <3>2. EvidenceIsOwn'
      BY <3>1
    <3> QED
      BY <2>4, <2>5, <3>2 DEF Rests
  <2>6. CASE Drops(w)
    BY <2>6 DEF Drops
  <2>7. CASE Begins(w)
    BY <2>4, <2>7 DEF Begins
  <2>8. CASE Goes(w)
    BY <2>4, <2>8 DEF Goes
  <2>9. CASE Loads(w)
    BY <2>4, <2>9 DEF Loads
  <2>10. CASE SavesEvent(w)
    BY <2>4, <2>10 DEF SavesEvent, SavesRow
  <2>11. CASE SavesLabel(w)
    BY <2>4, <2>11 DEF SavesLabel, SavesRow
  <2>12. CASE Lists(w)
    BY <2>4, <2>12 DEF Lists
  <2>13. CASE Takes(w)
    BY <2>4, <2>13 DEF Takes
  <2>14. CASE Tallies(w)
    BY <2>4, <2>14 DEF Tallies
  <2> QED
    BY <1>1, <2>5, <2>6, <2>7, <2>8, <2>9, <2>10, <2>11, <2>12, <2>13, <2>14 DEF Moves
<1>2. CASE Restarts
  BY <1>2, RestartsIdle DEF Restarts, ScratchOwn, EvidenceIsOwn, Evaluating
<1>3. CASE UNCHANGED vars
  BY <1>3, StutterKeeps DEF ScratchOwn, EvidenceIsOwn
<1> QED
  BY <1>0, <1>1, <1>2, <1>3, StepMoves, StepsObserved

(* "State does not leak between opps": evaluate resets the scratchpad first    *)
(* and persists it last, so that an evaluation beside which no other has run  *)
(* records its own backend, whatever evaluations overlapped before it, and    *)
(* whatever ticks, emissions and failures there were meanwhile.              *)
THEOREM EvidenceAlwaysOwn == Spec => []EvidenceIsOwn
<1>1. Init => ScratchOwn /\ EvidenceIsOwn
  BY IdleFields DEF Init, ScratchOwn, EvidenceIsOwn, Evaluating
<1>2. IInv /\ [Next]_vars /\ ScratchOwn /\ EvidenceIsOwn => ScratchOwn' /\ EvidenceIsOwn'
  BY ScratchStep
<1> QED
  BY <1>1, <1>2, InitSound, InvariantFromAnyJournal, PTL DEF Spec

(***************************************************************************)
(* Trails.                                                                 *)
(***************************************************************************)

(* An overtaken row stays one.                                               *)
LEMMA OvertakenStays == ASSUME [Next]_vars PROVE overtaken \subseteq overtaken'
<1>1. Observe => overtaken \subseteq overtaken'
  BY DEF Observe
<1> QED
  BY <1>1, StepsObserved, StutterKeeps

LEMMA FreshStep ==
    ASSUME IInv, [Next]_vars, SavesFresh
    PROVE  SavesFresh'
<1>0. RowsSound /\ WorkersSound
  BY DEF IInv
<1>1. ASSUME NEW w \in Workers, Moves(w), Observe PROVE SavesFresh'
  <2> DEFINE s == worker[w]
             t == worker'[w]
  <2>1. \A v \in Workers : v # w => worker'[v] = worker[v]
    BY <1>0, <1>1, OthersWait
  <2>2. \A v \in Workers, o \in Opps : Saving(worker'[v], o) /\ o \notin overtaken' =>
            /\ o \notin overtaken
            /\ \A u \in Workers \ {v} : ~Saving(worker'[u], o)
    BY <1>1 DEF Observe
  <2>3. SUFFICES ASSUME NEW v \in Workers, NEW o \in Opps, Saving(worker'[v], o), o \notin overtaken'
                 PROVE  worker'[v].buf = journal'[o]
    BY <2>2, <2>3 DEF SavesFresh
  <2>4. o \notin overtaken
    BY <2>2, <2>3
  <2>5. CASE v # w
    <3>1. /\ Saving(worker[v], o) /\ worker'[v] = worker[v] /\ worker[v].buf = journal[o]
          /\ ~Saving(s, o)
      BY <2>1, <2>3, <2>4, <2>5 DEF SavesFresh
    <3>2. journal'[o] = journal[o]
      <4>1. CASE SavesRow(w)
        BY <3>1, <4>1 DEF SavesRow, Saving
      <4>2. CASE ~SavesRow(w)
        BY <1>1, <4>2
           DEF Moves, Rests, Drops, Begins, Goes, Loads, Lists, Takes, Tallies, SavesEvent, SavesLabel
      <4> QED
        BY <4>1, <4>2
    <3> QED
      BY <3>1, <3>2
  <2>6. CASE v = w
    <3>1. t.pc = "save" /\ t.opp = o
      BY <2>3, <2>6 DEF Saving
    <3>2. Loads(w)
      BY <1>1, <3>1
         DEF Moves, Rests, Drops, Begins, Goes, Lists, Takes, Tallies, SavesEvent, SavesLabel, Rowless
    <3> QED
      BY <2>6, <3>1, <3>2 DEF Loads
  <2> QED
    BY <2>5, <2>6
<1>2. CASE Restarts
  BY <1>2, RestartsIdle DEF SavesFresh, Saving
<1>3. CASE UNCHANGED vars
  BY <1>3, StutterKeeps DEF SavesFresh
<1> QED
  BY <1>0, <1>1, <1>2, <1>3, StepMoves, StepsObserved

LEMMA TrailStep ==
    ASSUME IInv, [Next]_vars, SavesFresh, TrailSoFar, TrailIsComplete
    PROVE  TrailSoFar' /\ TrailIsComplete'
<1> USE DEF At, Finals
<1>0. RowsSound /\ WorkersSound
  BY DEF IInv
<1>00. \A o : o \notin overtaken' => o \notin overtaken
  BY OvertakenStays
<1>1. ASSUME NEW w \in Workers, Moves(w) PROVE TrailSoFar' /\ TrailIsComplete'
  <2> DEFINE s == worker[w]
             t == worker'[w]
  <2>1. \A v \in Workers : v # w => worker'[v] = worker[v]
    BY <1>0, <1>1, OthersWait
  <2>2. \A v \in Workers : /\ worker[v].pc \in {"mode", "load", "save", "simulate", "broadcast"}
                              => worker[v].opp \in Opps
                           /\ worker[v].pc = "persist" => Needed(Pending(worker[v])) = {}
    BY <1>0 DEF WorkersSound, Sound, Pending, Needed
  <2>3. CASE SavesEvent(w) \/ SavesLabel(w)
    <3>1. /\ SavesRow(w) /\ Pending(s) = s.kind /\ s.opp \in Opps
          /\ s.opp \notin overtaken => s.buf = journal[s.opp]
      BY <2>3 DEF SavesEvent, SavesLabel, SavesRow, SavesFresh, Saving, Pending
    <3>2. \A o \in Opps \ overtaken : journal[o].events \subseteq journal'[o].events
      BY <3>1 DEF SavesRow
    <3>3. ASSUME NEW o \in Opps \ overtaken, journal'[o].status \in Finals
          PROVE  Stages \subseteq journal'[o].events
      <4>1. CASE journal[o].status \in Finals
        BY <3>2, <4>1 DEF TrailIsComplete
      <4>2. CASE journal[o].status \notin Finals
        <5>1. o = s.opp
          BY <3>1, <3>3, <4>2 DEF SavesRow
        <5>2. SavesEvent(w) /\ Needed(s.kind) = Stages
          BY <2>3, <3>1, <3>3, <4>2, <5>1 DEF SavesEvent, SavesLabel
        <5>3. Needed(s.kind) \subseteq journal[o].events
          BY <3>1, <5>1, <5>2 DEF TrailSoFar, Evaluating, SavesEvent, SavesRow
        <5> QED
          BY <3>2, <5>2, <5>3
      <4> QED
        BY <4>1, <4>2
    <3>4. ASSUME NEW v \in Workers, Evaluating(worker'[v]), worker'[v].opp \notin overtaken
          PROVE  Needed(Pending(worker'[v])) \subseteq journal'[worker'[v].opp].events
      <4>1. CASE v # w
        BY <2>1, <2>2, <3>2, <3>4, <4>1 DEF TrailSoFar, Evaluating
      <4>2. CASE v = w
        <5>1. SavesEvent(w) /\ s.opp \notin overtaken
          BY <2>3, <3>4, <4>2 DEF SavesLabel, SavesEvent, Evaluating
        <5>2. Needed(s.kind) \subseteq journal[s.opp].events
          BY <3>1, <5>1 DEF TrailSoFar, Evaluating, SavesEvent, SavesRow
        <5> QED
          BY <3>1, <4>2, <5>1, <5>2 DEF SavesEvent, SavesRow
      <4> QED
        BY <4>1, <4>2
    <3> QED
      BY <1>00, <3>3, <3>4 DEF TrailSoFar, TrailIsComplete
  <2>4. ASSUME journal' = journal,
               Evaluating(t) /\ t.opp \notin overtaken
                   => Needed(Pending(t)) \subseteq journal[t.opp].events
        PROVE  TrailSoFar' /\ TrailIsComplete'
    BY <1>00, <2>1, <2>4 DEF TrailSoFar, TrailIsComplete
  <2> USE DEF Evaluating
  <2>5. CASE Rests(w) \/ Drops(w) \/ Lists(w)
    BY <2>4, <2>5 DEF Rests, Drops, Lists, Rowless
  <2>6. CASE Begins(w)
    <3>1. Needed(Pending(t)) = {}
      BY <2>6 DEF Begins, Pending, Needed
    <3> QED
      BY <2>4, <2>6, <3>1 DEF Begins
  <2>7. CASE Goes(w)
    <3>1. s.opp \notin overtaken => Needed(Pending(s)) \subseteq journal[s.opp].events
      BY <2>7 DEF Goes, TrailSoFar
    <3> QED
      BY <2>4, <2>7, <3>1 DEF Goes
  <2>8. CASE Loads(w)
    <3>1. Pending(t) = Pending(s)
      BY <2>8 DEF Loads, Pending
    <3> QED
      BY <2>4, <2>8, <3>1 DEF Loads, TrailSoFar
  <2>9. CASE Takes(w) \/ Tallies(w)
    BY <2>4, <2>9 DEF Takes, Tallies
  <2> QED
    BY <1>1, <2>3, <2>5, <2>6, <2>7, <2>8, <2>9 DEF Moves
<1>2. CASE Restarts
  BY <1>00, <1>2, RestartsIdle DEF Restarts, TrailSoFar, TrailIsComplete, Evaluating
<1>3. CASE UNCHANGED vars
  BY <1>3, StutterKeeps DEF TrailSoFar, TrailIsComplete
<1> QED
  BY <1>0, <1>1, <1>2, <1>3, StepMoves

(* "Journals every stage": a save over a document that another one has         *)
(* replaced meanwhile is all that can lose a stage of the trail of a row.      *)
(* Other overlaps, crashes and failed calls cannot.                          *)
THEOREM TrailAlwaysComplete == Spec => []TrailIsComplete
<1>1. Init => SavesFresh /\ TrailSoFar /\ TrailIsComplete
  BY IdleFields
     DEF Init, NoRow, SavesFresh, TrailSoFar, TrailIsComplete, Evaluating, Saving
<1>2. IInv /\ [Next]_vars /\ SavesFresh /\ TrailSoFar /\ TrailIsComplete
      => SavesFresh' /\ TrailSoFar' /\ TrailIsComplete'
  BY FreshStep, TrailStep
<1> QED
  BY <1>1, <1>2, InitSound, InvariantFromAnyJournal, PTL DEF Spec

(***************************************************************************)
(* Consumed rows.                                                          *)
(***************************************************************************)

(* Coroutines that hold different rows never overtake one another.           *)
LEMMA NoneOvertaken ==
    ASSUME IInv', HeldApart', [Next]_vars, overtaken = {}
    PROVE  overtaken' = {}
<1>1. CASE Observe
  <2>1. \A v, w \in Workers, o \in Opps :
            Saving(worker'[v], o) /\ Saving(worker'[w], o) => v = w
    BY DEF HeldApart, Holds, Saving
  <2> QED
    BY <1>1, <2>1 DEF Observe
<1> QED
  BY <1>1, StepsObserved, StutterKeeps

(* What a worker holds no step of another writes.                            *)
LEMMA HeldRowsStay ==
    ASSUME IInv, HeldApart, NEW w \in Workers, Moves(w), NEW v \in Workers, v # w,
           NEW o \in Opps, Holds(worker[v], o)
    PROVE  journal'[o] = journal[o] /\ samples'[o] = samples[o]
<1> DEFINE s == worker[w]
<1>1. ~Holds(s, o)
  BY DEF HeldApart
<1>2. samples \in [Opps -> Counts] /\ s \in WorkerState
  BY DEF IInv, RestTyped, WorkersSound
<1>3. CASE SavesEvent(w) \/ SavesLabel(w)
  <2>1. SavesRow(w)
    BY <1>3 DEF SavesEvent, SavesLabel
  <2>2. o # s.opp
    BY <1>1, <2>1 DEF SavesRow, Holds
  <2> QED
    BY <2>1, <2>2 DEF SavesRow, SameResults
<1>4. CASE Takes(w)
  <2>1. \A e \in s.list : e.opp # o
    BY <1>1 DEF Holds
  <2> QED
    BY <1>2, <1>4, <2>1 DEF Takes
<1> QED
  BY <1>3, <1>4
     DEF Moves, Rests, Drops, Begins, Goes, Loads, Lists, Tallies, SameResults

(* A worker at work on a row holds it, and it is the row of an opportunity.  *)
LEMMA AtWorkHolds ==
    ASSUME IInv, NEW v \in Workers
    PROVE  LET s == worker[v]
           IN  /\ Labelling(s) \/ (Evaluating(s) /\ s.pc # "persist")
                     => s.opp \in Opps /\ Holds(s, s.opp)
               /\ \A e \in s.list : e.opp \in Opps /\ Holds(s, e.opp)
BY DEF IInv, WorkersSound, WorkerState, Sound, Labelling, Evaluating, Holds

(* The part of UnconsumedAtWork that is about a worker in state s.           *)
AtWork(s, j) ==
    /\ Evaluating(s) /\ s.pc # "persist" => ~j[s.opp].consumed
    /\ Labelling(s) => Terminal(j[s.opp])
    /\ \A e \in s.list : Terminal(j[e.opp])
    /\ s.list # {} => Labelling(s) \/ s.pc = "emit"

LEMMA ConsumedStep ==
    ASSUME IInv, HeldApart, [Next]_vars, [NoEvaluateCall]_vars, SavesFresh, overtaken = {},
           UnconsumedAtWork, ConsumedIsTerminal
    PROVE  UnconsumedAtWork' /\ ConsumedIsTerminal'
<1> USE DEF At
<1>0. RowsSound /\ WorkersSound
  BY DEF IInv
<1>1. ASSUME NEW w \in Workers, Moves(w), NoEvaluateCall
      PROVE  UnconsumedAtWork' /\ ConsumedIsTerminal'
  <2> DEFINE s == worker[w]
             t == worker'[w]
  <2>1. \A v \in Workers : v # w => worker'[v] = worker[v]
    BY <1>0, <1>1, OthersWait
  <2>2. \A v \in Workers : AtWork(worker[v], journal)
    BY DEF UnconsumedAtWork, AtWork
  <2>3. ASSUME NEW v \in Workers, v # w PROVE AtWork(worker'[v], journal')
    <3>1. worker'[v] = worker[v] /\ AtWork(worker[v], journal)
      BY <2>1, <2>2, <2>3
    <3>2. \A o \in Opps : Holds(worker[v], o) => journal'[o] = journal[o]
      BY <1>1, <2>3, HeldRowsStay
    <3> QED
      BY <3>1, <3>2, AtWorkHolds DEF AtWork
  <2>4. AtWork(s, journal)
    BY <2>2
  <2>5. SUFFICES AtWork(t, journal') /\ ConsumedIsTerminal'
    BY <2>3, <2>5 DEF UnconsumedAtWork, AtWork
  <2>6. CASE Rests(w) \/ Drops(w) \/ Lists(w)
    BY <2>4, <2>6
       DEF Rests, Drops, Lists, Rowless, AtWork, Evaluating, Labelling, ConsumedIsTerminal
  <2>7. CASE Begins(w)
    <3>1. ~journal[t.opp].consumed
      BY <1>1, <2>7 DEF Begins, NoEvaluateCall, Skip, ConsumedIsTerminal
    <3>2. s.list = {}
      BY <2>4, <2>7 DEF Begins, Rowless, AtWork, Labelling
    <3> QED
      BY <2>7, <3>1, <3>2 DEF Begins, AtWork, Labelling, ConsumedIsTerminal
  <2>8. CASE Goes(w)
    BY <2>4, <2>8 DEF Goes, AtWork, Evaluating, Labelling, ConsumedIsTerminal
  <2>9. CASE Loads(w)
    BY <2>4, <2>9 DEF Loads, AtWork, Evaluating, Labelling, ConsumedIsTerminal
  <2>10. CASE Takes(w) \/ Tallies(w)
    BY <2>4, <2>10 DEF Takes, Tallies, AtWork, Evaluating, Labelling, ConsumedIsTerminal
  <2>11. CASE SavesEvent(w)
    <3>1. /\ SavesRow(w) /\ s.buf = journal[s.opp] /\ s.opp \in Opps
          /\ ~journal[s.opp].consumed
      BY <2>4, <2>11 DEF SavesEvent, SavesRow, SavesFresh, Saving, AtWork, Evaluating
    <3>2. ~journal'[s.opp].consumed
      BY <2>11, <3>1 DEF SavesEvent
    <3>3. s.list = {}
      BY <2>4, <2>11, <3>1 DEF SavesEvent, SavesRow, AtWork, Labelling
    <3> QED
      BY <2>11, <3>1, <3>2, <3>3
         DEF SavesEvent, SavesRow, AtWork, Evaluating, Labelling, ConsumedIsTerminal
  <2>12. CASE SavesLabel(w)
    <3>1. /\ SavesRow(w) /\ s.buf = journal[s.opp] /\ s.opp \in Opps
          /\ Terminal(journal[s.opp])
      BY <2>4, <2>12 DEF SavesLabel, SavesRow, SavesFresh, Saving, AtWork, Labelling
    <3>2. \A o \in Opps : journal'[o].status = journal[o].status
      BY <2>12, <3>1 DEF SavesLabel, SavesRow
    <3>3. \A o \in Opps : Terminal(journal[o]) => Terminal(journal'[o])
      BY <3>2 DEF Terminal
    <3>4. \A e \in s.list : e.opp \in Opps
      BY AtWorkHolds
    <3> QED
      BY <2>4, <2>12, <3>1, <3>3, <3>4
         DEF SavesLabel, SavesRow, AtWork, Evaluating, Labelling, ConsumedIsTerminal
  <2> QED
    BY <1>1, <2>6, <2>7, <2>8, <2>9, <2>10, <2>11, <2>12 DEF Moves
<1>2. CASE Restarts
  BY <1>2, RestartsIdle
     DEF Restarts, UnconsumedAtWork, ConsumedIsTerminal, Evaluating, Labelling
<1>3. CASE UNCHANGED vars
  BY <1>3, StutterKeeps DEF UnconsumedAtWork, ConsumedIsTerminal
<1> QED
  BY <1>0, <1>1, <1>2, <1>3, StepMoves

(* A consumed row is finished and stays so, whatever fails, as long as no two  *)
(* coroutines hold one row and only the tick evaluates: its check of consumed *)
(* rows stays true until the last write, because nobody else labels the row.  *)
THEOREM ConsumedAlwaysTerminal ==
    Spec /\ []HeldApart /\ [][NoEvaluateCall]_vars => []ConsumedIsTerminal
<1>1. Init => SavesFresh /\ overtaken = {} /\ UnconsumedAtWork /\ ConsumedIsTerminal
  BY IdleFields
     DEF Init, NothingHappened, NoRow, SavesFresh, Saving, UnconsumedAtWork, ConsumedIsTerminal,
         Evaluating, Labelling
<1>2. /\ IInv /\ IInv' /\ HeldApart /\ HeldApart' /\ [Next]_vars /\ [NoEvaluateCall]_vars
      /\ SavesFresh /\ overtaken = {} /\ UnconsumedAtWork /\ ConsumedIsTerminal
      => SavesFresh' /\ (overtaken = {})' /\ UnconsumedAtWork' /\ ConsumedIsTerminal'
  BY NoneOvertaken, FreshStep, ConsumedStep
<1> QED
  BY <1>1, <1>2, InitSound, InvariantFromAnyJournal, PTL DEF Spec

(***************************************************************************)
(* Samples.                                                                *)
(***************************************************************************)

LEMMA TerminalLabelled == ASSUME NEW row, Terminal(row) PROVE LabelOf(row.status) # "PENDING"
BY DEF Terminal, TERMINAL_STATUSES, LabelOf

(* Whoever has a row to label or to evaluate holds it, and nobody else does.  *)
LEMMA HoldersWork ==
    ASSUME NEW s, NEW o
    PROVE  Holds(s, o) <=> Emits(s, o) \/ Evaluates(s, o)
BY DEF Holds, Emits, Evaluates, Labelling, Evaluating

(* The step of a worker changes the number of those that have listed o by one *)
(* at most.                                                                  *)
LEMMA ListersFinite == \A o \in Opps : IsFiniteSet(Listers(o)) /\ Cardinality(Listers(o)) \in Nat
<1>1. IsFiniteSet(Workers)
  BY WorkersAreFinite, FS_Union DEF Workers
<1>2. \A o \in Opps : Listers(o) \in SUBSET Workers
  BY DEF Listers
<1>3. \A o \in Opps : IsFiniteSet(Listers(o))
  BY <1>1, <1>2, FS_Subset
<1> QED
  BY <1>3, FS_CardinalityType

Has(s, o) == \E e \in s.list : e.opp = o

LEMMA ListersMove ==
    ASSUME WorkersSound, NEW w \in Workers, Moves(w), NEW o \in Opps
    PROVE  /\ Cardinality(Listers(o)) \in Nat
           /\ Has(worker'[w], o) => Has(worker[w], o) \/ Cardinality(Listers(o)') = Cardinality(Listers(o)) + 1
           /\ Has(worker'[w], o) /\ Has(worker[w], o) => Cardinality(Listers(o)') = Cardinality(Listers(o))
           /\ ~Has(worker'[w], o) => Cardinality(Listers(o)') <= Cardinality(Listers(o))
           /\ ~Has(worker'[w], o) /\ Has(worker[w], o) => Cardinality(Listers(o)') = Cardinality(Listers(o)) - 1
<1> USE DEF Has
<1>1. \A v \in Workers : v # w => worker'[v] = worker[v]
  BY OthersWait
<1>2. IsFiniteSet(Listers(o)) /\ Cardinality(Listers(o)) \in Nat
  BY ListersFinite
<1>3. CASE Has(worker'[w], o) /\ Has(worker[w], o)
  <2>1. Listers(o)' = Listers(o)
    BY <1>1, <1>3 DEF Listers
  <2> QED
    BY <1>2, <1>3, <2>1
<1>4. CASE Has(worker'[w], o) /\ ~Has(worker[w], o)
  <2>1. Listers(o)' = Listers(o) \union {w} /\ w \notin Listers(o)
    BY <1>1, <1>4 DEF Listers
  <2>2. Cardinality(Listers(o)') = Cardinality(Listers(o)) + 1
    BY <1>2, <2>1, FS_AddElement
  <2> QED
    BY <1>2, <1>4, <2>2
<1>5. CASE ~Has(worker'[w], o) /\ Has(worker[w], o)
  <2>1. Listers(o)' = Listers(o) \ {w} /\ w \in Listers(o)
    BY <1>1, <1>5 DEF Listers
  <2>2. Cardinality(Listers(o)') = Cardinality(Listers(o)) - 1
    BY <1>2, <2>1, FS_RemoveElement
  <2> QED
    BY <1>2, <1>5, <2>2
<1>6. CASE ~Has(worker'[w], o) /\ ~Has(worker[w], o)
  <2>1. Listers(o)' = Listers(o)
    BY <1>1, <1>6 DEF Listers
  <2> QED
    BY <1>2, <1>6, <2>1
<1> QED
  BY <1>3, <1>4, <1>5, <1>6

(* The account of a row: nothing more is owed, and the row may be listed       *)
(* again only if it could be, or if an encounter or a fault excuses it.       *)
LEMMA NothingMoreOwed ==
    ASSUME IInv, IInv', [Next]_vars, Observe, NEW o \in Opps, Accounted(o),
           Owed(o) \in Nat, Owed(o)' \in Nat, Owed(o)' <= Owed(o),
           faults' = faults \/ faults' = faults + 1,
           Relistable(o)' => Relistable(o) \/ Meets(o) \/ faults' = faults + 1
    PROVE  Accounted(o)'
<1>1. /\ faults \in Nat /\ faults' \in Nat /\ met[o] \in 0..MaxCount /\ met'[o] \in 0..MaxCount
      /\ MaxCount \in Nat
  BY BoundsAreNat DEF IInv, RestTyped, HistoryTyped, Counts
<1>2. met'[o] = IF Meets(o) THEN Bump(met[o]) ELSE met[o]
  BY DEF Observe
<1>3. CASE met[o] = MaxCount
  BY <1>1, <1>2, <1>3 DEF Bump, Accounted
<1>4. CASE met[o] # MaxCount
  <2>1. /\ Owed(o) <= 1 + faults + met[o]
        /\ Relistable(o) => Owed(o) <= faults + met[o]
    BY <1>4 DEF Accounted
  <2>2. /\ met'[o] >= met[o] /\ (Meets(o) => met'[o] = met[o] + 1)
    BY <1>1, <1>2, <1>4 DEF Bump
  <2> HIDE DEF Owed, Relistable, Meets
  <2>3. Owed(o)' <= 1 + faults' + met'[o]
    BY <1>1, <2>1, <2>2
  <2>4. ASSUME Relistable(o)' PROVE Owed(o)' <= faults' + met'[o]
    BY <1>1, <2>1, <2>2, <2>4
  <2> QED
    BY <2>3, <2>4 DEF Accounted
<1> QED
  BY <1>3, <1>4

(* A row that is listed once more is owed one sample more.                   *)
LEMMA OneMoreOwed ==
    ASSUME IInv, IInv', [Next]_vars, Observe, NEW o \in Opps, Accounted(o),
           Owed(o) \in Nat, Owed(o)' \in Nat, Owed(o)' <= Owed(o) + 1, faults' = faults,
           Meets(o) \/ (Relistable(o) /\ ~Relistable(o)'),
           Relistable(o)' => Relistable(o)
    PROVE  Accounted(o)'
<1>1. /\ faults \in Nat /\ met[o] \in 0..MaxCount /\ met'[o] \in 0..MaxCount
      /\ MaxCount \in Nat
  BY BoundsAreNat DEF IInv, RestTyped, HistoryTyped, Counts
<1>2. met'[o] = IF Meets(o) THEN Bump(met[o]) ELSE met[o]
  BY DEF Observe
<1>3. CASE met[o] = MaxCount
  BY <1>1, <1>2, <1>3 DEF Bump, Accounted
<1>4. CASE met[o] # MaxCount
  <2>1. /\ Owed(o) <= 1 + faults + met[o]
        /\ Relistable(o) => Owed(o) <= faults + met[o]
    BY <1>4 DEF Accounted
  <2>2. /\ met'[o] >= met[o] /\ (Meets(o) => met'[o] = met[o] + 1)
    BY <1>1, <1>2, <1>4 DEF Bump
  <2> HIDE DEF Owed, Relistable, Meets
  <2>3. Owed(o)' <= 1 + faults' + met'[o]
    BY <1>1, <2>1, <2>2
  <2>4. ASSUME Relistable(o)' PROVE Owed(o)' <= faults' + met'[o]
    BY <1>1, <2>1, <2>2, <2>4
  <2> QED
    BY <2>3, <2>4 DEF Accounted
<1> QED
  BY <1>3, <1>4

(* A row becomes relistable only by a load of a pending row, by a label that   *)
(* is put back, or when nobody labels it any more.                           *)
LEMMA RelistableStays ==
    ASSUME WorkersSound, NEW w \in Workers, Moves(w), NEW o \in Opps, Relistable(o)',
           ~(Evaluates(worker'[w], o) /\ worker'[w].pc = "save"),
           (journal'[o].label = "PENDING") =>
               \/ Relistable(o)
               \/ /\ journal[o].label = "PENDING"
                  /\ Emits(worker[w], o) => Emits(worker'[w], o)
                  /\ Evaluates(worker'[w], o) => Evaluates(worker[w], o)
    PROVE  Relistable(o)
<1>1. \A v \in Workers : v # w => worker'[v] = worker[v]
  BY OthersWait
<1>2. ASSUME NEW v \in Workers, Evaluates(worker'[v], o), worker'[v].pc = "save",
             worker'[v].buf.label = "PENDING"
      PROVE  Relistable(o)
  <2>1. v # w
    BY <1>2
  <2>2. worker'[v] = worker[v]
    BY <1>1, <2>1
  <2> QED
    BY <1>2, <2>2 DEF Relistable
<1>3. ASSUME journal'[o].label = "PENDING", NEW v \in Workers, Evaluates(worker'[v], o),
             ~Relistable(o)
      PROVE  FALSE
  <2>1. journal[o].label = "PENDING" /\ (Evaluates(worker'[w], o) => Evaluates(worker[w], o))
    BY <1>3
  <2>2. Evaluates(worker[v], o)
    BY <1>1, <1>3, <2>1
  <2> QED
    BY <1>3, <2>1, <2>2 DEF Relistable
<1>4. ASSUME journal'[o].label = "PENDING", \A v \in Workers : ~Emits(worker'[v], o),
             ~Relistable(o)
      PROVE  FALSE
  <2>1. journal[o].label = "PENDING" /\ (Emits(worker[w], o) => Emits(worker'[w], o))
    BY <1>4
  <2>2. \A v \in Workers : ~Emits(worker[v], o)
    BY <1>1, <1>4, <2>1
  <2> QED
    BY <1>4, <2>1, <2>2 DEF Relistable
<1> QED
  BY <1>2, <1>3, <1>4 DEF Relistable

LEMMA ListedOnceStep ==
    ASSUME IInv, IInv', NEW w \in Workers, Moves(w), ListedOnce(worker[w])
    PROVE  ListedOnce(worker'[w])
<1> DEFINE s == worker[w]
           t == worker'[w]
<1>1. s \in WorkerState /\ t \in WorkerState
  BY DEF IInv, WorkersSound
<1>2. CASE Rests(w) \/ Drops(w) \/ Begins(w) \/ Goes(w) \/ SavesEvent(w)
  <2>1. t.list = {} /\ ~Labelling(t)
    BY <1>2 DEF Rests, Drops, Begins, Goes, SavesEvent, SavesRow, Rowless, Labelling, ListedOnce
  <2> QED
    BY <2>1 DEF ListedOnce
<1>3. CASE Loads(w)
  BY <1>3 DEF Loads, Labelling, ListedOnce
<1>4. CASE SavesLabel(w)
  BY <1>4 DEF SavesLabel, SavesRow, Labelling, ListedOnce
<1>5. CASE Lists(w)
  <2>1. \A e, f \in t.list : e.opp = f.opp => e = f
    BY <1>1, <1>5 DEF Lists, WorkerState
  <2>2. \A e \in t.list : e.label # "PENDING"
    BY <1>5, TerminalLabelled DEF Lists
  <2> QED
    BY <1>5, <2>1, <2>2 DEF Lists, Labelling, ListedOnce
<1>6. CASE Takes(w)
  BY <1>6 DEF Takes, Labelling, ListedOnce
<1>7. CASE Tallies(w)
  BY <1>7 DEF Tallies, Labelling, ListedOnce
<1> QED
  BY <1>2, <1>3, <1>4, <1>5, <1>6, <1>7 DEF Moves

LEMMA OwedCounts ==
    ASSUME IInv, IInv', NEW o \in Opps
    PROVE  /\ samples[o] \in Nat /\ samples'[o] \in Nat
           /\ Cardinality(Listers(o)) \in Nat /\ Cardinality(Listers(o)') \in Nat
           /\ Owed(o) \in Nat /\ Owed(o)' \in Nat
<1>1. samples[o] \in Nat /\ samples'[o] \in Nat
  BY BoundsAreNat DEF IInv, RestTyped, Counts
<1>2. Cardinality(Listers(o)) \in Nat
  BY ListersFinite
<1>3. Cardinality(Listers(o)') \in Nat
  <2>1. IsFiniteSet(Workers)
    BY WorkersAreFinite, FS_Union DEF Workers
  <2>2. Listers(o)' \in SUBSET Workers
    BY DEF Listers
  <2> QED
    BY <2>1, <2>2, FS_Subset, FS_CardinalityType
<1> QED
  BY <1>1, <1>2, <1>3 DEF Owed

(* Each step keeps the account of each row.                                  *)
LEMMA AccountedStep ==
    ASSUME IInv, IInv', [Next]_vars, Observe, NEW w \in Workers, Moves(w), ListedOnce(worker[w]),
           NEW o \in Opps, Accounted(o)
    PROVE  Accounted(o)'
<1> DEFINE s == worker[w]
           t == worker'[w]
<1> USE DEF Has
<1>1. /\ RowsSound /\ WorkersSound /\ s \in WorkerState /\ t \in WorkerState
      /\ samples \in [Opps -> Counts] /\ faults \in Nat
  BY BoundsAreNat DEF IInv, WorkersSound, RestTyped
<1>2. \A v \in Workers : v # w => worker'[v] = worker[v]
  BY <1>1, OthersWait
<1>3. /\ samples[o] \in Nat /\ samples'[o] \in Nat
      /\ Cardinality(Listers(o)) \in Nat /\ Cardinality(Listers(o)') \in Nat
      /\ Owed(o) \in Nat /\ Owed(o)' \in Nat
  BY OwedCounts
<1>4. /\ Has(t, o) => Has(s, o) \/ Cardinality(Listers(o)') = Cardinality(Listers(o)) + 1
      /\ Has(t, o) /\ Has(s, o) => Cardinality(Listers(o)') = Cardinality(Listers(o))
      /\ ~Has(t, o) => Cardinality(Listers(o)') <= Cardinality(Listers(o))
      /\ ~Has(t, o) /\ Has(s, o) => Cardinality(Listers(o)') = Cardinality(Listers(o)) - 1
  BY <1>1, ListersMove
<1>5. Owed(o) = samples[o] + Cardinality(Listers(o)) /\ Owed(o)' = samples'[o] + Cardinality(Listers(o)')
  BY DEF Owed
<1>6. (\A e \in s.list : e.opp # o) => ~Has(s, o)
  OBVIOUS
<1>7. s.list # {} => Labelling(s) \/ s.pc = "emit"
  BY DEF ListedOnce
<1> HIDE DEF Has
(* A step after which the row is no more relistable than before.             *)
<1>8. ASSUME Has(t, o) => Has(s, o), samples'[o] = samples[o], faults' = faults,
             ~(Evaluates(t, o) /\ t.pc = "save"),
             (journal'[o].label = "PENDING") =>
                 \/ Relistable(o)
                 \/ /\ journal[o].label = "PENDING"
                    /\ Emits(s, o) => Emits(t, o)
                    /\ Evaluates(t, o) => Evaluates(s, o)
      PROVE  Accounted(o)'
  <2>1. Owed(o)' <= Owed(o)
    BY <1>3, <1>4, <1>5, <1>8
  <2>2. Relistable(o)' => Relistable(o)
    BY <1>1, <1>8, RelistableStays
  <2> QED
    BY <1>3, <1>8, <2>1, <2>2, NothingMoreOwed
<1>9. CASE Rests(w)
  <2>1. ~Has(t, o) /\ ~Emits(s, o) /\ ~Evaluates(t, o)
    BY <1>7, <1>9 DEF Rests, Rowless, Has, Emits, Evaluates, Evaluating, Labelling
  <2> QED
    BY <1>8, <1>9, <2>1 DEF Rests, SameResults
<1>10. CASE Drops(w)
  <2>1. ~Has(t, o) /\ samples'[o] = samples[o] /\ faults' = faults + 1
    BY <1>10 DEF Drops, Has, SameResults
  <2>2. Owed(o)' <= Owed(o)
    BY <1>3, <1>4, <1>5, <2>1
  <2> QED
    BY <1>3, <2>1, <2>2, NothingMoreOwed
<1>11. CASE Begins(w)
  <2>1. /\ ~Has(s, o) /\ ~Has(t, o) /\ ~Emits(s, o) /\ t.pc = "mode"
        /\ samples' = samples /\ journal' = journal /\ faults' = faults
    BY <1>7, <1>11 DEF Begins, Rowless, Has, Emits, Labelling, SameResults
  <2>2. CASE t.opp # o
    <3>1. ~Evaluates(t, o)
      BY <2>2 DEF Evaluates
    <3> QED
      BY <1>8, <2>1, <3>1
  <2>3. CASE t.opp = o
    <3>1. Holds(t, o) /\ ~Holds(s, o)
      BY <1>7, <1>11, <2>1, <2>3 DEF Begins, Rowless, Holds, Labelling
    <3>2. CASE \E v \in Workers : Holds(worker[v], o)
      <4>1. Meets(o)
        BY <3>1, <3>2 DEF Meets
      <4>2. Owed(o)' <= Owed(o)
        BY <1>3, <1>4, <1>5, <2>1
      <4> QED
        BY <1>3, <2>1, <4>1, <4>2, NothingMoreOwed
    <3>3. CASE \A v \in Workers : ~Holds(worker[v], o)
      <4>1. \A v \in Workers : ~Emits(worker[v], o)
        BY <3>3, HoldersWork
      <4>2. journal[o].label = "PENDING" => Relistable(o)
        BY <4>1 DEF Relistable
      <4> QED
        BY <1>8, <2>1, <4>2
    <3> QED
      BY <3>2, <3>3
  <2> QED
    BY <2>2, <2>3
<1>12. CASE Goes(w)
  <2>1. /\ Has(t, o) = Has(s, o) /\ t.pc # "save" /\ ~Emits(s, o)
        /\ Evaluates(t, o) => Evaluates(s, o)
    BY <1>7, <1>12 DEF Goes, Has, Emits, Evaluates, Evaluating, Labelling
  <2> QED
    BY <1>8, <1>12, <2>1 DEF Goes, SameResults
<1>13. CASE Loads(w)
  <2>1. /\ Has(t, o) = Has(s, o) /\ Emits(t, o) = Emits(s, o) /\ Evaluates(t, o) = Evaluates(s, o)
        /\ samples' = samples /\ journal' = journal /\ faults' = faults
    BY <1>13 DEF Loads, Has, Emits, Evaluates, Evaluating, Labelling, SameResults, Calm
  <2>2. Owed(o)' <= Owed(o)
    BY <1>3, <1>4, <1>5, <2>1
  <2>3. ASSUME Relistable(o)' PROVE Relistable(o)
    <3>1. CASE Evaluates(t, o) /\ t.buf.label = "PENDING"
      <4>1. Evaluates(s, o) /\ journal[o].label = "PENDING"
        BY <1>13, <2>1, <3>1 DEF Loads, Evaluates
      <4> QED
        BY <4>1 DEF Relistable
    <3>2. CASE ~(Evaluates(t, o) /\ t.buf.label = "PENDING")
      <4>1. \A v \in Workers : /\ Evaluates(worker'[v], o) <=> Evaluates(worker[v], o)
                               /\ Emits(worker'[v], o) <=> Emits(worker[v], o)
        BY <1>2, <2>1
      <4>2. ASSUME NEW v \in Workers, Evaluates(worker'[v], o), worker'[v].pc = "save",
                   worker'[v].buf.label = "PENDING"
            PROVE  Relistable(o)
        <5>1. worker'[v] = worker[v]
          BY <1>2, <3>2, <4>2
        <5> QED
          BY <4>2, <5>1 DEF Relistable
      <4> QED
        BY <2>1, <2>3, <4>1, <4>2 DEF Relistable
    <3> QED
      BY <3>1, <3>2
  <2> QED
    BY <1>3, <2>1, <2>2, <2>3, NothingMoreOwed
<1>14. CASE SavesEvent(w)
  <2>1. /\ SavesRow(w) /\ s.pc = "save" /\ s.opp \in Opps /\ ~Has(s, o) /\ ~Has(t, o)
        /\ ~Emits(s, o) /\ t.pc # "save" /\ t.opp = s.opp /\ samples' = samples /\ faults' = faults
    BY <1>7, <1>14 DEF SavesEvent, SavesRow, Has, Emits, Labelling, SameResults, Calm
  <2>2. CASE s.opp = o
    <3>1. journal'[o].label = s.buf.label /\ Evaluates(s, o)
      BY <1>14, <2>1, <2>2 DEF SavesEvent, Evaluates, Evaluating
    <3>2. journal'[o].label = "PENDING" => Relistable(o)
      BY <2>1, <3>1 DEF Relistable
    <3> QED
      BY <1>8, <2>1, <3>2
  <2>3. CASE s.opp # o
    <3>1. journal'[o] = journal[o] /\ ~Evaluates(t, o)
      BY <2>1, <2>3 DEF SavesRow, Evaluates
    <3> QED
      BY <1>8, <2>1, <3>1
  <2> QED
    BY <2>2, <2>3
<1>15. CASE SavesLabel(w)
  <2>1. /\ SavesRow(w) /\ s.pc = "save" /\ s.kind = "learning_labelled" /\ s.opp \in Opps
        /\ t.list = s.list /\ t.pc = "emit" /\ samples' = samples /\ faults' = faults
        /\ journal'[s.opp].label = s.label
    BY <1>15 DEF SavesLabel, SavesRow, SameResults, Calm
  <2>2. Has(t, o) = Has(s, o) /\ ~Evaluates(t, o) /\ s.label # "PENDING"
    BY <2>1 DEF Has, Evaluates, Evaluating, Labelling, ListedOnce
  <2>3. CASE s.opp = o
    BY <1>8, <2>1, <2>2, <2>3
  <2>4. CASE s.opp # o
    <3>1. journal'[o] = journal[o] /\ (Emits(s, o) => Emits(t, o))
      BY <2>1, <2>4 DEF SavesRow, Emits
    <3> QED
      BY <1>8, <2>1, <2>2, <3>1
  <2> QED
    BY <2>3, <2>4
<1>16. CASE Lists(w)
  <2>1. /\ ~Has(s, o) /\ ~Emits(s, o) /\ ~Holds(s, o) /\ ~Evaluates(t, o) /\ t.pc = "emit"
        /\ samples' = samples /\ journal' = journal /\ faults' = faults
        /\ Emits(t, o) <=> Has(t, o)
        /\ Has(t, o) => Holds(t, o)
    BY <1>7, <1>16
       DEF Lists, Has, Emits, Evaluates, Evaluating, Labelling, Holds, SameResults, Calm
  <2>2. CASE ~Has(t, o)
    BY <1>8, <2>1, <2>2
  <2>3. CASE Has(t, o)
    <3>1. journal[o].label = "PENDING" /\ Owed(o)' = Owed(o) + 1 /\ Emits(t, o)
      BY <1>3, <1>4, <1>5, <1>16, <2>1, <2>3 DEF Lists, Has
    <3>2. Relistable(o)' => Relistable(o)
      BY <1>1, <2>1, <3>1, RelistableStays
    <3>3. CASE \E v \in Workers : Holds(worker[v], o)
      <4>1. Meets(o)
        BY <2>1, <2>3, <3>3 DEF Meets
      <4> QED
        BY <1>3, <2>1, <3>1, <3>2, <4>1, OneMoreOwed
    <3>4. CASE \A v \in Workers : ~Holds(worker[v], o)
      <4>1. \A v \in Workers : ~Emits(worker[v], o) /\ ~Evaluates(worker[v], o)
        BY <3>4, HoldersWork
      <4>2. Relistable(o)
        BY <3>1, <4>1 DEF Relistable
      <4>3. \A v \in Workers : ~Evaluates(worker'[v], o)
        BY <1>2, <2>1, <4>1
      <4>4. ~Relistable(o)'
        BY <3>1, <4>3 DEF Relistable
      <4> QED
        BY <1>3, <2>1, <3>1, <3>2, <4>2, <4>4, OneMoreOwed
    <3> QED
      BY <3>3, <3>4
  <2> QED
    BY <2>2, <2>3
<1>17. CASE Takes(w)
  <2>1. PICK e \in s.list :
           /\ t.opp = e.opp /\ t.label = e.label /\ t.list = s.list \ {e}
           /\ \/ t.pc = "readTally" /\ samples' = [samples EXCEPT ![e.opp] = Bump(@)]
              \/ t.pc = "load" /\ t.kind = "learning_labelled" /\ samples' = samples
    BY <1>17 DEF Takes
  <2>2. /\ journal' = journal /\ faults' = faults /\ s.pc = "emit" /\ Labelling(t)
        /\ ~Evaluates(t, o) /\ e.opp \in Opps
    BY <1>1, <1>17, <2>1
       DEF Takes, Calm, Labelling, Evaluates, Evaluating, WorkerState
  <2>3. CASE e.opp # o
    <3>1. samples'[o] = samples[o] /\ Has(t, o) = Has(s, o) /\ (Emits(s, o) => Emits(t, o))
      BY <1>1, <2>1, <2>2, <2>3 DEF Has, Emits, Labelling
    <3> QED
      BY <1>8, <2>2, <3>1
  <2>4. CASE e.opp = o
    <3>1. Has(s, o) /\ ~Has(t, o) /\ Emits(t, o)
      BY <2>1, <2>2, <2>4 DEF Has, ListedOnce, Emits
    <3>2. samples'[o] <= samples[o] + 1
      BY <1>1, <1>3, <2>1, <2>4, BoundsAreNat DEF Bump
    <3>3. Owed(o)' <= Owed(o)
      BY <1>3, <1>4, <1>5, <3>1, <3>2
    <3>4. Relistable(o)' => Relistable(o)
      BY <1>1, <2>2, <3>1, RelistableStays
    <3> QED
      BY <1>3, <2>2, <3>3, <3>4, NothingMoreOwed
  <2> QED
    BY <2>3, <2>4
<1>18. CASE Tallies(w)
  <2>1. /\ Has(t, o) = Has(s, o) /\ Emits(t, o) = Emits(s, o) /\ ~Evaluates(t, o)
        /\ samples' = samples /\ journal' = journal /\ faults' = faults
    BY <1>18 DEF Tallies, Has, Emits, Evaluates, Evaluating, Labelling, Calm
  <2> QED
    BY <1>8, <2>1
<1> QED
  BY <1>9, <1>10, <1>11, <1>12, <1>13, <1>14, <1>15, <1>16, <1>17, <1>18 DEF Moves

LEMMA SamplesStep ==
    ASSUME IInv, IInv', [Next]_vars, SamplesAccounted
    PROVE  SamplesAccounted'
<1>0. RowsSound /\ WorkersSound
  BY DEF IInv
<1>1. ASSUME NEW w \in Workers, Moves(w), Observe PROVE SamplesAccounted'
  <2>1. ASSUME NEW v \in Workers PROVE ListedOnce(worker'[v])
    <3>1. CASE v = w
      BY <1>1, <3>1, ListedOnceStep DEF SamplesAccounted
    <3>2. CASE v # w
      BY <1>0, <1>1, <3>2, OthersWait DEF SamplesAccounted
    <3> QED
      BY <3>1, <3>2
  <2>2. ASSUME NEW o \in Opps PROVE Accounted(o)'
    BY <1>1, AccountedStep DEF SamplesAccounted
  <2> QED
    BY <2>1, <2>2 DEF SamplesAccounted
<1>2. CASE Restarts /\ Observe
  <2>1. \A v \in Workers : worker'[v].pc = "idle" /\ worker'[v].list = {}
    BY <1>2, RestartsIdle
  <2>2. \A v \in Workers : ListedOnce(worker'[v])
    BY <2>1 DEF ListedOnce, Labelling
  <2>3. ASSUME NEW o \in Opps PROVE Accounted(o)'
    <3>1. Listers(o)' = {} /\ samples' = samples /\ faults' = faults + 1
      BY <1>2, <2>1 DEF Listers, Restarts, SameResults
    <3>2. Cardinality(Listers(o)') = 0
      BY <3>1, FS_EmptySet
    <3>3. Owed(o) \in Nat /\ Owed(o)' \in Nat /\ Owed(o)' <= Owed(o)
      BY <3>1, <3>2, OwedCounts DEF Owed
    <3> QED
      BY <1>2, <3>1, <3>3, NothingMoreOwed DEF SamplesAccounted
  <2> QED
    BY <2>2, <2>3 DEF SamplesAccounted
<1>3. CASE UNCHANGED vars
  BY <1>3, StutterKeeps DEF SamplesAccounted, Accounted, Owed, Listers, Relistable
<1> QED
  BY <1>0, <1>1, <1>2, <1>3, StepMoves, StepsObserved

LEMMA SamplesFirst == Init => SamplesAccounted
<1> SUFFICES ASSUME Init PROVE SamplesAccounted
  OBVIOUS
<1>1. \A w \in Workers : worker[w].pc = "idle" /\ worker[w].list = {}
  BY IdleFields DEF Init
<1>2. \A w \in Workers : ListedOnce(worker[w])
  BY <1>1 DEF ListedOnce, Labelling
<1>3. ASSUME NEW o \in Opps PROVE Accounted(o)
  <2>1. Listers(o) = {} /\ samples[o] = 0 /\ faults = 0 /\ met[o] = 0
    BY <1>1 DEF Listers, Init, NothingHappened
  <2>2. Cardinality(Listers(o)) = 0
    BY <2>1, FS_EmptySet
  <2>3. Owed(o) = 0
    BY <2>1, <2>2 DEF Owed
  <2> QED
    BY <2>1, <2>3 DEF Accounted
<1> QED
  BY <1>2, <1>3 DEF SamplesAccounted

(* "Idempotent": beyond the first sample of a row, every further one is due to *)
(* a fault or to a coroutine that took the row up while another was at work on *)
(* it, and each of those costs one sample at most: two emissions that listed   *)
(* the row, or an evaluation that put its label back.                        *)
THEOREM RepeatsAlwaysExplained == Spec => []RepeatsExplained
<1>1. IInv /\ SamplesAccounted => RepeatsExplained
  <2> SUFFICES ASSUME IInv, SamplesAccounted, NEW o \in Opps
               PROVE  samples[o] <= 1 + faults + met[o]
    BY DEF RepeatsExplained
  <2>1. /\ samples[o] \in 0..MaxCount /\ met[o] \in 0..MaxCount /\ MaxCount \in Nat
        /\ faults \in Nat
    BY BoundsAreNat DEF IInv, RestTyped, HistoryTyped, Counts
  <2>2. Cardinality(Listers(o)) \in Nat
    BY ListersFinite
  <2>3. CASE met[o] = MaxCount
    BY <2>1, <2>3
  <2>4. CASE Owed(o) <= 1 + faults + met[o]
    BY <2>1, <2>2, <2>4 DEF Owed
  <2> QED
    BY <2>3, <2>4 DEF SamplesAccounted, Accounted
<1>2. IInv /\ IInv' /\ [Next]_vars /\ SamplesAccounted => SamplesAccounted'
  BY SamplesStep
<1> QED
  BY <1>1, <1>2, SamplesFirst, InitSound, InvariantFromAnyJournal, PTL DEF Spec

(***************************************************************************)
(* The tally.                                                              *)
(***************************************************************************)

(* The log of the sample counts smp.                                         *)
LogOf(smp) == {doc \in Opps \X (1..MaxCount) : doc[2] <= smp[doc[1]]}

(* A log below the bound grows by one document with each sample.             *)
LEMMA LogGrows ==
    ASSUME NEW smp \in [Opps -> Counts], NEW o \in Opps,
           IsFiniteSet(LogOf(smp)), Cardinality(LogOf(smp)) < MaxCount
    PROVE  LET new == [smp EXCEPT ![o] = Bump(smp[o])]
           IN  /\ IsFiniteSet(LogOf(new))
               /\ Cardinality(LogOf(new)) = Cardinality(LogOf(smp)) + 1
<1> DEFINE n == smp[o]
           own == {o} \X (1..n)
           new == [smp EXCEPT ![o] = Bump(n)]
<1>1. n \in 0..MaxCount /\ MaxCount \in Nat \ {0}
  BY BoundsAreNat DEF Counts
<1>2. own \in SUBSET LogOf(smp)
  BY <1>1 DEF LogOf
<1>3. Cardinality(own) = n
  <2>1. IsFiniteSet({o}) /\ Cardinality({o}) = 1
    BY FS_Singleton
  <2>2. IsFiniteSet(1..n) /\ Cardinality(1..n) = IF 1 > n THEN 0 ELSE n - 1 + 1
    <3>1. 1 \in Int /\ n \in Int
      BY <1>1
    <3> QED
      BY <3>1, FS_Interval
  <2>3. Cardinality(own) = Cardinality({o}) * Cardinality(1..n)
    BY <2>1, <2>2, FS_Product
  <2> QED
    BY <1>1, <2>1, <2>2, <2>3
<1>4. Cardinality(LogOf(smp)) \in Nat /\ Cardinality(own) <= Cardinality(LogOf(smp))
  BY <1>2, FS_Subset, FS_CardinalityType
<1>5. n < MaxCount
  BY <1>1, <1>3, <1>4
<1>6. new = [smp EXCEPT ![o] = n + 1]
  BY <1>5 DEF Bump
<1>7. LogOf(new) = LogOf(smp) \union {<<o, n + 1>>} /\ <<o, n + 1>> \notin LogOf(smp)
  <2>1. \A p \in Opps : new[p] = IF p = o THEN n + 1 ELSE smp[p]
    BY <1>6
  <2>2. ASSUME NEW p \in Opps, NEW k \in 1..MaxCount
        PROVE  k <= new[p] <=> k <= smp[p] \/ (p = o /\ k = n + 1)
    <3>1. smp[p] \in Nat
      BY BoundsAreNat DEF Counts
    <3> QED
      BY <1>1, <2>1, <3>1
  <2>3. n + 1 \in 1..MaxCount /\ ~(n + 1 <= n)
    BY <1>1, <1>5
  <2> QED
    BY <2>2, <2>3 DEF LogOf
<1>8. /\ IsFiniteSet(LogOf(smp) \union {<<o, n + 1>>})
      /\ Cardinality(LogOf(smp) \union {<<o, n + 1>>}) = Cardinality(LogOf(smp)) + 1
  BY <1>7, FS_AddElement
<1> QED
  BY <1>7, <1>8

(* The log stays finite, and no document of it is deleted.                   *)
LEMMA LogStays ==
    ASSUME NEW smp \in [Opps -> Counts], NEW o \in Opps, IsFiniteSet(LogOf(smp))
    PROVE  LET new == [smp EXCEPT ![o] = Bump(smp[o])]
           IN  IsFiniteSet(LogOf(new)) /\ LogOf(smp) \subseteq LogOf(new)
<1> DEFINE n == smp[o]
           new == [smp EXCEPT ![o] = Bump(n)]
<1>1. n \in 0..MaxCount /\ MaxCount \in Nat /\ \A p \in Opps : smp[p] \in Nat
  BY BoundsAreNat DEF Counts
<1>2. Bump(n) \in {n, n + 1}
  BY DEF Bump
<1> HIDE DEF n
<1>3. \A p \in Opps : new[p] = IF p = o THEN Bump(n) ELSE smp[p]
  OBVIOUS
<1>4. n = smp[o]
  BY DEF n
<1>5. \A p \in Opps, k \in 1..MaxCount :
          /\ k <= smp[p] => k <= new[p]
          /\ k <= new[p] => k <= smp[p] \/ (p = o /\ k = n + 1)
  BY <1>1, <1>2, <1>3, <1>4
<1> HIDE DEF new
<1>6. LogOf(smp) \subseteq LogOf(new)
  BY <1>5 DEF LogOf
<1>7. LogOf(new) \in SUBSET (LogOf(smp) \union {<<o, n + 1>>})
  BY <1>5 DEF LogOf
<1>8. IsFiniteSet(LogOf(smp) \union {<<o, n + 1>>})
  BY FS_AddElement
<1>9. IsFiniteSet(LogOf(new))
  BY <1>7, <1>8, FS_Subset
<1> QED
  BY <1>6, <1>9 DEF new, n

(* The workers at the tally can be counted, before and after a step.         *)
LEMMA AtTallyFinite ==
    /\ IsFiniteSet(AtTally) /\ Cardinality(AtTally) \in Nat
    /\ Cardinality(AtTally) = 0 <=> AtTally = {}
    /\ IsFiniteSet(AtTally') /\ Cardinality(AtTally') \in Nat
    /\ Cardinality(AtTally') = 0 <=> AtTally' = {}
<1>1. IsFiniteSet(Workers)
  BY WorkersAreFinite, FS_Union DEF Workers
<1>2. AtTally \in SUBSET Workers /\ AtTally' \in SUBSET Workers
  BY DEF AtTally
<1>3. IsFiniteSet(AtTally) /\ IsFiniteSet(AtTally')
  BY <1>1, <1>2, FS_Subset
<1> QED
  BY <1>3, FS_CardinalityType, FS_EmptySet

(* One that goes to the tally makes them one more, one that leaves one fewer. *)
LEMMA AtTallyMoves ==
    ASSUME WorkersSound, NEW w \in Workers, Moves(w)
    PROVE  /\ Tallying(worker[w]) = Tallying(worker'[w]) => AtTally' = AtTally
           /\ ~Tallying(worker[w]) /\ Tallying(worker'[w])
                 => Cardinality(AtTally') = Cardinality(AtTally) + 1
           /\ Tallying(worker[w]) /\ ~Tallying(worker'[w])
                 => Cardinality(AtTally') = Cardinality(AtTally) - 1
<1>1. \A v \in Workers : v # w => worker'[v] = worker[v]
  BY OthersWait
<1>2. Tallying(worker[w]) \in BOOLEAN /\ Tallying(worker'[w]) \in BOOLEAN
  BY DEF Tallying
<1>3. ASSUME Tallying(worker[w]) = Tallying(worker'[w]) PROVE AtTally' = AtTally
  BY <1>1, <1>3 DEF AtTally
<1>4. ASSUME ~Tallying(worker[w]), Tallying(worker'[w])
      PROVE  Cardinality(AtTally') = Cardinality(AtTally) + 1
  <2>1. AtTally' = AtTally \union {w} /\ w \notin AtTally
    BY <1>1, <1>4 DEF AtTally
  <2>2. IsFiniteSet(AtTally)
    BY AtTallyFinite
  <2> QED
    BY <2>1, <2>2, FS_AddElement
<1>5. ASSUME Tallying(worker[w]), ~Tallying(worker'[w])
      PROVE  Cardinality(AtTally') = Cardinality(AtTally) - 1
  <2>1. AtTally' = AtTally \ {w} /\ w \in AtTally
    BY <1>1, <1>5 DEF AtTally
  <2>2. IsFiniteSet(AtTally)
    BY AtTallyFinite
  <2> QED
    BY <2>1, <2>2, FS_RemoveElement
<1> QED
  BY <1>3, <1>4, <1>5

(* Steps that log nothing, count nothing and bring nobody to the tally, but   *)
(* may take somebody away from it, at the price of a fault.                  *)
LEMMA TallyLeft ==
    ASSUME IInv, IInv', Observe, TallyAccounted, samples' = samples, tally' = tally,
           \A v \in Workers : At(v, "writeTally")' =>
              At(v, "writeTally") /\ worker'[v].count = worker[v].count,
           \/ AtTally' = AtTally /\ faults' = faults
           \/ Cardinality(AtTally') <= Cardinality(AtTally) /\ faults' = faults + 1
    PROVE  TallyAccounted'
<1>1. Logged' = Logged
  BY DEF Logged
<1>2. /\ MaxCount \in Nat /\ tally \in Nat /\ faults \in Nat
      /\ races \in 0..MaxCount /\ \A v \in Workers : worker[v].count \in Nat
  BY BoundsAreNat DEF IInv, RestTyped, HistoryTyped, Counts, WorkersSound, WorkerState
<1>3. Cardinality(Logged) \in Nat
  BY FS_CardinalityType DEF TallyAccounted
<1>4. /\ Cardinality(AtTally) \in Nat /\ Cardinality(AtTally') \in Nat
      /\ Cardinality(AtTally) = 0 <=> AtTally = {}
      /\ Cardinality(AtTally') = 0 <=> AtTally' = {}
  BY AtTallyFinite
<1>5. races' \in Nat /\ (races' = MaxCount \/ (races # MaxCount /\ races <= races'))
  BY <1>2 DEF Observe, Bump
<1>6. SUFFICES ASSUME LogFits' PROVE TallyBounded'
  BY <1>1, <1>6 DEF TallyAccounted, TallyBounded
<1>7. TallyBounded /\ LogFits
  BY <1>1, <1>6 DEF TallyAccounted, LogFits
<1>8. tally' + Cardinality(AtTally') <= Cardinality(Logged')
  BY <1>1, <1>2, <1>3, <1>4, <1>7 DEF TallyBounded
<1>9. races' = MaxCount \/ Cardinality(Logged') <= tally' + faults' + races' + (IF AtTally' = {} THEN 0 ELSE 1)
  BY <1>1, <1>2, <1>3, <1>4, <1>5, <1>7 DEF TallyBounded
<1>10. ASSUME NEW v \in Workers, At(v, "writeTally")'
       PROVE  /\ worker'[v].count + Cardinality(AtTally') <= Cardinality(Logged')
              /\ races' = MaxCount \/ Cardinality(Logged') <= worker'[v].count + 1 + faults' + races'
  <2>1. /\ worker'[v].count = worker[v].count
        /\ worker[v].count + Cardinality(AtTally) <= Cardinality(Logged)
        /\ races = MaxCount \/ Cardinality(Logged) <= worker[v].count + 1 + faults + races
    BY <1>7, <1>10 DEF TallyBounded
  <2> QED
    BY <1>1, <1>2, <1>3, <1>4, <1>5, <2>1
<1> QED
  BY <1>8, <1>9, <1>10 DEF TallyBounded

LEMMA TallyStep ==
    ASSUME IInv, IInv', [Next]_vars, TallyAccounted
    PROVE  TallyAccounted'
<1> USE DEF At
<1>0. /\ RowsSound /\ WorkersSound /\ faults \in Nat /\ MaxCount \in Nat \ {0}
      /\ samples \in [Opps -> Counts] /\ tally \in Nat /\ tally' \in Nat
      /\ races \in 0..MaxCount /\ \A v \in Workers : worker[v].count \in Nat
  BY BoundsAreNat DEF IInv, RestTyped, HistoryTyped, Counts, WorkersSound, WorkerState
<1>00. /\ Cardinality(AtTally) \in Nat /\ Cardinality(AtTally') \in Nat
       /\ Cardinality(AtTally) = 0 <=> AtTally = {}
       /\ Cardinality(AtTally') = 0 <=> AtTally' = {}
  BY AtTallyFinite
<1>1. IsFiniteSet(Logged) /\ Cardinality(Logged) \in Nat
  BY FS_CardinalityType DEF TallyAccounted
<1>2. ASSUME NEW w \in Workers, Moves(w), Observe PROVE TallyAccounted'
  <2> DEFINE s == worker[w]
             t == worker'[w]
  <2>1. \A v \in Workers : v # w => worker'[v] = worker[v]
    BY <1>0, <1>2, OthersWait
  <2>2. /\ Tallying(s) = Tallying(t) => AtTally' = AtTally
        /\ ~Tallying(s) /\ Tallying(t) => Cardinality(AtTally') = Cardinality(AtTally) + 1
        /\ Tallying(s) /\ ~Tallying(t) => Cardinality(AtTally') = Cardinality(AtTally) - 1
    BY <1>0, <1>2, AtTallyMoves
  <2>3. /\ races' \in Nat /\ (races' = MaxCount \/ (races # MaxCount /\ races <= races'))
        /\ Races => races' = MaxCount \/ races' = races + 1
    <3>1. races' = IF Races THEN Bump(races) ELSE races
      BY <1>2 DEF Observe
    <3>2. CASE Races
      BY <1>0, <3>1, <3>2 DEF Bump
    <3>3. CASE ~Races
      BY <1>0, <3>1, <3>3
    <3> QED
      BY <3>2, <3>3
  <2> USE DEF SameResults, Calm
  <2>4. ASSUME tally' = tally, samples' = samples, faults' = faults, ~Tallying(s), ~Tallying(t)
        PROVE  TallyAccounted'
    <3>1. \A v \in Workers : At(v, "writeTally")' =>
              At(v, "writeTally") /\ worker'[v].count = worker[v].count
      BY <2>1, <2>4 DEF Tallying
    <3>2. AtTally' = AtTally
      BY <2>2, <2>4 DEF Tallying
    <3> QED
      BY <1>2, <2>4, <3>1, <3>2, TallyLeft
  <2>5. CASE Rests(w) \/ Begins(w) \/ Goes(w) \/ Loads(w) \/ SavesEvent(w) \/ SavesLabel(w)
             \/ Lists(w)
    BY <2>4, <2>5
       DEF Rests, Begins, Goes, Loads, SavesEvent, SavesLabel, SavesRow, Lists, Rowless, Tallying
  <2>6. CASE Drops(w)
    <3>1. ~Tallying(t) /\ tally' = tally /\ samples' = samples /\ faults' = faults + 1
      BY <2>6 DEF Drops, Rowless, Tallying
    <3>2. Cardinality(AtTally') <= Cardinality(AtTally)
      <4>1. CASE Tallying(s)
        BY <1>00, <2>2, <3>1, <4>1
      <4>2. CASE ~Tallying(s)
        BY <1>00, <2>2, <3>1, <4>2 DEF Tallying
      <4> QED
        BY <4>1, <4>2
    <3>3. \A v \in Workers : At(v, "writeTally")' =>
              At(v, "writeTally") /\ worker'[v].count = worker[v].count
      BY <2>1, <3>1 DEF Tallying
    <3> QED
      BY <1>2, <3>1, <3>2, <3>3, TallyLeft
  <2>7. CASE Takes(w)
    <3>1. PICK e \in s.list :
             \/ t.pc = "readTally" /\ samples' = [samples EXCEPT ![e.opp] = Bump(@)]
             \/ t.pc = "load" /\ samples' = samples
      BY <2>7 DEF Takes
    <3>2. s.pc = "emit" /\ tally' = tally /\ faults' = faults /\ ~Tallying(s)
      BY <2>7 DEF Takes, Tallying
    <3>3. CASE t.pc = "load" /\ samples' = samples
      BY <2>4, <3>2, <3>3 DEF Tallying
    <3>4. CASE t.pc = "readTally" /\ samples' = [samples EXCEPT ![e.opp] = Bump(@)]
      <4>1. e.opp \in Opps
        BY AtWorkHolds
      <4>2. Logged = LogOf(samples) /\ Logged' = LogOf(samples')
        BY DEF Logged, LogOf
      <4>3. IsFiniteSet(Logged') /\ Logged \subseteq Logged'
        BY <1>0, <1>1, <3>4, <4>1, <4>2, LogStays
      <4>4. SUFFICES ASSUME LogFits' PROVE TallyBounded'
        BY <4>3, <4>4 DEF TallyAccounted, TallyBounded
      <4>5. Cardinality(Logged') \in Nat /\ Cardinality(Logged) <= Cardinality(Logged')
        BY <4>3, FS_Subset, FS_CardinalityType
      <4>6. LogFits /\ Cardinality(Logged) < MaxCount
        BY <1>0, <1>1, <4>4, <4>5 DEF LogFits
      <4>7. Cardinality(Logged') = Cardinality(Logged) + 1
        BY <1>0, <1>1, <3>4, <4>1, <4>2, <4>6, LogGrows
      <4>8. Tallying(t) /\ Cardinality(AtTally') = Cardinality(AtTally) + 1
        BY <2>2, <3>2, <3>4 DEF Tallying
      <4>9. TallyBounded
        BY DEF TallyAccounted
      <4>10. AtTally # {} => Races
        BY <3>2, <4>8 DEF AtTally, Races
      <4>11. tally' + Cardinality(AtTally') <= Cardinality(Logged')
        BY <1>0, <1>00, <1>1, <3>2, <4>6, <4>7, <4>8, <4>9 DEF TallyBounded
      <4>12. races' = MaxCount \/ Cardinality(Logged') <= tally' + faults' + races' + (IF AtTally' = {} THEN 0 ELSE 1)
        BY <1>0, <1>00, <1>1, <2>3, <3>2, <4>6, <4>7, <4>8, <4>9, <4>10 DEF TallyBounded
      <4>13. ASSUME NEW v \in Workers, At(v, "writeTally")'
             PROVE  /\ worker'[v].count + Cardinality(AtTally') <= Cardinality(Logged')
                    /\ races' = MaxCount
                       \/ Cardinality(Logged') <= worker'[v].count + 1 + faults' + races'
        <5>1. worker'[v] = worker[v] /\ At(v, "writeTally")
          BY <2>1, <3>4, <4>13
        <5>2. /\ worker[v].count + Cardinality(AtTally) <= Cardinality(Logged)
              /\ races = MaxCount \/ Cardinality(Logged) <= worker[v].count + 1 + faults + races
          BY <4>6, <4>9, <5>1 DEF TallyBounded
        <5>3. Races
          BY <4>10, <5>1 DEF AtTally, Tallying
        <5> QED
          BY <1>0, <1>00, <1>1, <2>3, <3>2, <4>7, <4>8, <5>1, <5>2, <5>3
      <4> QED
        BY <4>11, <4>12, <4>13 DEF TallyBounded
    <3> QED
      BY <3>1, <3>3, <3>4
  <2>8. CASE Tallies(w)
    <3>1. Logged' = Logged /\ Tallying(s) /\ faults' = faults
      BY <2>8 DEF Tallies, Logged, Tallying
    <3>2. SUFFICES ASSUME LogFits' PROVE TallyBounded'
      BY <1>1, <3>1, <3>2 DEF TallyAccounted, TallyBounded
    <3>3. TallyBounded /\ LogFits /\ Cardinality(Logged) < MaxCount
      BY <3>1, <3>2 DEF TallyAccounted, LogFits
    <3>4. w \in AtTally /\ Cardinality(AtTally) >= 1
      <4>1. w \in AtTally
        BY <3>1 DEF AtTally
      <4> QED
        BY <1>00, <4>1
    <3>5. /\ tally + Cardinality(AtTally) <= Cardinality(Logged)
          /\ races = MaxCount \/ Cardinality(Logged) <= tally + faults + races + 1
          /\ \A v \in Workers : At(v, "writeTally") =>
                /\ worker[v].count + Cardinality(AtTally) <= Cardinality(Logged)
                /\ races = MaxCount \/ Cardinality(Logged) <= worker[v].count + 1 + faults + races
      BY <3>3, <3>4 DEF TallyBounded
    <3>6. CASE s.pc = "readTally"
      <4>1. t.pc = "writeTally" /\ t.count = tally /\ tally' = tally
        BY <2>8, <3>6 DEF Tallies
      <4>2. AtTally' = AtTally
        BY <2>2, <3>6, <4>1 DEF Tallying
      <4>3. races' = MaxCount \/ Cardinality(Logged') <= tally' + faults' + races' + (IF AtTally' = {} THEN 0 ELSE 1)
        BY <1>0, <1>1, <2>3, <3>1, <3>4, <3>5, <4>1, <4>2
      <4>4. ASSUME NEW v \in Workers, At(v, "writeTally")'
            PROVE  /\ worker'[v].count + Cardinality(AtTally') <= Cardinality(Logged')
                   /\ races' = MaxCount
                      \/ Cardinality(Logged') <= worker'[v].count + 1 + faults' + races'
        <5>1. CASE v = w
          BY <1>0, <1>00, <1>1, <2>3, <3>1, <3>5, <4>1, <4>2, <5>1
        <5>2. CASE v # w
          <6>1. worker'[v] = worker[v] /\ At(v, "writeTally")
            BY <2>1, <4>4, <5>2
          <6> QED
            BY <1>0, <1>00, <1>1, <2>3, <3>1, <3>5, <4>2, <6>1
        <5> QED
          BY <5>1, <5>2
      <4> QED
        BY <3>1, <3>5, <4>1, <4>2, <4>3, <4>4 DEF TallyBounded
    <3>7. CASE s.pc = "writeTally"
      <4>1. t.pc = "load" /\ tally' = Bump(s.count)
        BY <2>8, <3>7 DEF Tallies
      <4>2. /\ s.count + Cardinality(AtTally) <= Cardinality(Logged)
            /\ races = MaxCount \/ Cardinality(Logged) <= s.count + 1 + faults + races
        BY <3>5, <3>7
      <4>3. tally' = s.count + 1
        BY <1>0, <1>00, <1>1, <3>3, <3>4, <4>1, <4>2 DEF Bump
      <4>4. Cardinality(AtTally') = Cardinality(AtTally) - 1
        BY <2>2, <3>1, <4>1 DEF Tallying
      <4>5. tally' + Cardinality(AtTally') <= Cardinality(Logged')
        BY <1>0, <1>00, <1>1, <3>1, <4>2, <4>3, <4>4
      <4>6. races' = MaxCount \/ Cardinality(Logged') <= tally' + faults' + races' + (IF AtTally' = {} THEN 0 ELSE 1)
        BY <1>0, <1>00, <1>1, <2>3, <3>1, <4>2, <4>3
      <4>7. ASSUME NEW v \in Workers, At(v, "writeTally")'
            PROVE  /\ worker'[v].count + Cardinality(AtTally') <= Cardinality(Logged')
                   /\ races' = MaxCount
                      \/ Cardinality(Logged') <= worker'[v].count + 1 + faults' + races'
        <5>1. worker'[v] = worker[v] /\ At(v, "writeTally")
          BY <2>1, <4>1, <4>7
        <5> QED
          BY <1>0, <1>00, <1>1, <2>3, <3>1, <3>5, <4>4, <5>1
      <4> QED
        BY <4>5, <4>6, <4>7 DEF TallyBounded
    <3> QED
      BY <3>1, <3>6, <3>7 DEF Tallying
  <2> QED
    BY <1>2, <2>5, <2>6, <2>7, <2>8 DEF Moves
<1>3. CASE Restarts /\ Observe
  <2>1. \A v \in Workers : worker'[v].pc = "idle"
    BY <1>3, RestartsIdle
  <2>2. AtTally' = {}
    BY <2>1 DEF AtTally, Tallying
  <2> QED
    BY <1>00, <1>3, <2>1, <2>2, TallyLeft DEF Restarts, SameResults
<1>4. CASE UNCHANGED vars
  BY <1>4, StutterKeeps DEF TallyAccounted, TallyBounded, LogFits, Logged, AtTally
<1> QED
  BY <1>0, <1>2, <1>3, <1>4, StepMoves, StepsObserved

LEMMA TallyFirst == Init => TallyAccounted
<1> SUFFICES ASSUME Init PROVE TallyAccounted
  OBVIOUS
<1>1. \A w \in Workers : worker[w].pc = "idle"
  BY IdleFields DEF Init
<1>2. \A o \in Opps : samples[o] = 0
  BY DEF Init
<1>3. Logged = {} /\ AtTally = {}
  BY <1>1, <1>2, BoundsAreNat DEF Logged, AtTally, Tallying
<1>4. IsFiniteSet(Logged) /\ Cardinality(Logged) = 0 /\ Cardinality(AtTally) = 0
  BY <1>3, FS_EmptySet
<1>5. tally = 0 /\ faults = 0 /\ races = 0
  BY DEF Init, NothingHappened
<1> QED
  BY <1>1, <1>3, <1>4, <1>5 DEF TallyAccounted, TallyBounded, At

(* "sample_count counts every emission for the signal": it never counts more   *)
(* than was logged, and what it misses is due to faults and to coroutines that *)
(* were in touch_signal_metric at once, one sample for each at most: a lost    *)
(* update is never worse than that, however many of them overlap.            *)
THEOREM TallyAlwaysExplained == Spec => []TallyMissesExplained
<1>1. IInv /\ TallyAccounted => TallyMissesExplained
  <2> SUFFICES ASSUME IInv, TallyAccounted, LogFits
               PROVE  /\ tally + Cardinality(AtTally) <= Cardinality(Logged)
                      /\ Cardinality(Logged) <= tally + faults + races
                                                + (IF AtTally = {} THEN 0 ELSE 1)
    BY DEF TallyMissesExplained
  <2>1. /\ tally \in Nat /\ faults \in Nat /\ races \in Nat /\ MaxCount \in Nat
        /\ Cardinality(Logged) \in Nat /\ Cardinality(Logged) < MaxCount
    BY BoundsAreNat, FS_CardinalityType
       DEF IInv, RestTyped, HistoryTyped, Counts, TallyAccounted, LogFits
  <2> QED
    BY <2>1 DEF TallyAccounted, TallyBounded
<1>2. IInv /\ IInv' /\ [Next]_vars /\ TallyAccounted => TallyAccounted'
  BY TallyStep
<1> QED
  BY <1>1, <1>2, TallyFirst, InitSound, InvariantFromAnyJournal, PTL DEF Spec

(***************************************************************************)
(* The loop alone.                                                         *)
(***************************************************************************)

(* A single coroutine never overlaps another one.                            *)
LEMMA AloneStep ==
    ASSUME \A v, w \in Workers : v = w, IInv, [Next]_vars, NothingHappened, evidence.alone
    PROVE  NothingHappened' /\ evidence'.alone
<1>0. RowsSound /\ WorkersSound
  BY DEF IInv
<1>1. NothingHappened'
  <2>1. CASE Observe
    <3>1. ~Races /\ \A o \in Opps : ~Meets(o)
      BY DEF Races, Meets
    <3>2. met' = [o \in Opps |-> 0]
      BY <2>1, <3>1 DEF Observe, NothingHappened
    <3>3. races' = 0
      BY <2>1, <3>1 DEF Observe, NothingHappened
    <3>4. shared' = {} /\ overtaken' = {}
      BY <2>1 DEF Observe, NothingHappened
    <3> QED
      BY <3>2, <3>3, <3>4 DEF NothingHappened
  <2>2. CASE UNCHANGED vars
    BY <2>2, StutterKeeps DEF NothingHappened
  <2> QED
    BY <2>1, <2>2, StepsObserved
<1>2. evidence'.alone
  <2>1. ASSUME NEW w \in Workers, Moves(w) PROVE evidence'.alone
    <3>1. CASE Rests(w)
      <4>1. w \notin shared
        BY DEF NothingHappened
      <4>2. CASE evidence' = evidence
        BY <4>2
      <4>3. CASE evidence' = [used |-> worker[w].backend, recorded |-> scratch, alone |-> w \notin shared]
        <5>1. evidence'.alone = (w \notin shared)
          BY <4>3
        <5> QED
          BY <4>1, <5>1
      <4> QED
        BY <3>1, <4>2, <4>3 DEF Rests
    <3> QED
      BY <2>1, <3>1
         DEF Moves, Drops, Begins, Goes, Loads, SavesEvent, SavesLabel, SavesRow, Lists, Takes,
             Tallies, Calm
  <2> QED
    BY <1>0, <2>1, StepMoves, StutterKeeps DEF Restarts
<1> QED
  BY <1>1, <1>2

(* Where one coroutine does all the work, the exceptions that the theorems     *)
(* above make for encounters are void: every bundle is an evaluation's own,    *)
(* every finished trail is complete, consumed rows stay finished, and only a   *)
(* fault makes a row count twice.                                            *)
THEOREM AloneKeepsAll ==
    ASSUME \A v, w \in Workers : v = w, Callers = {}
    PROVE  Spec => [](/\ evidence.used = evidence.recorded
                      /\ \A o \in Opps : journal[o].status \in Finals
                                            => Stages \subseteq journal[o].events
                      /\ ConsumedIsTerminal
                      /\ \A o \in Opps : samples[o] <= 1 + faults)
<1>1. HeldApart /\ NoEvaluateCall
  BY DEF HeldApart, NoEvaluateCall
<1>2. Init => NothingHappened /\ evidence.alone
  BY DEF Init
<1>3. IInv /\ [Next]_vars /\ NothingHappened /\ evidence.alone
      => (NothingHappened /\ evidence.alone)'
  BY AloneStep
<1>4. IInv /\ NothingHappened /\ evidence.alone /\ EvidenceIsOwn /\ TrailIsComplete /\ RepeatsExplained
      => /\ evidence.used = evidence.recorded
         /\ \A o \in Opps : journal[o].status \in Finals => Stages \subseteq journal[o].events
         /\ \A o \in Opps : samples[o] <= 1 + faults
  <2> SUFFICES ASSUME IInv, NothingHappened, evidence.alone, EvidenceIsOwn, TrailIsComplete,
                      RepeatsExplained
               PROVE  /\ evidence.used = evidence.recorded
                      /\ \A o \in Opps : journal[o].status \in Finals
                                            => Stages \subseteq journal[o].events
                      /\ \A o \in Opps : samples[o] <= 1 + faults
    OBVIOUS
  <2>1. faults \in Nat /\ \A o \in Opps : met[o] = 0
    BY BoundsAreNat DEF NothingHappened, IInv, RestTyped
  <2>2. overtaken = {}
    BY DEF NothingHappened
  <2> QED
    BY <2>1, <2>2 DEF EvidenceIsOwn, TrailIsComplete, RepeatsExplained, Finals
<1> QED
  BY <1>1, <1>2, <1>3, <1>4, EvidenceAlwaysOwn, TrailAlwaysComplete, ConsumedAlwaysTerminal,
     RepeatsAlwaysExplained, InitSound, InvariantFromAnyJournal, PTL DEF Spec

=============================================================================
