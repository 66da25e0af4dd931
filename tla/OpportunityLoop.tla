--------------------------- MODULE OpportunityLoop ---------------------------
(* The autonomous loop: the auto executor's tick (execution/auto_executor.py)  *)
(* takes discovered opportunities through the pipeline (execution/pipeline.py), *)
(* which journals every stage (data/journal.py), and from time to time the     *)
(* learning ledger (learning/ledger.py) turns finished journal rows into       *)
(* training samples.  HTTP routes evaluate, tick and emit beside the loop.     *)
(*                                                                             *)
(* Every journal write is a find_one, an await, and an update_one that sets    *)
(* the whole document; an action is what runs between two awaits.  A ledger    *)
(* emission lists all pending rows (a batch is never full) and all             *)
(* opportunities share one signal.                                             *)
EXTENDS Modes, FiniteSets

CONSTANTS
    Opps,           \* discovered opportunities
    Tickers,        \* coroutines that tick: the loop, and POST .../tick
    Callers,        \* coroutines of POST .../evaluate and .../ledger/emit
    ModesHeld,      \* modes the operator sets for the strategy
    Backends,       \* simulation backends the router may choose
    NoBackend,      \* no simulation ran
    NoOpp,          \* the opportunity of a worker that has none
    LearnEvery,     \* ticks between two emissions of the loop
    MaxCalls,       \* bound on HTTP calls of each route
    MaxFaults,      \* bound on crashes and failed database calls
    MaxCount        \* bound at which samples, the tally, met and races saturate

Routes == {"evaluate", "emit"}

ASSUME ModesHeldAreModes == ModesHeld \subseteq MODES
ASSUME NonesAreNone == NoBackend \notin Backends /\ NoOpp \notin Opps
ASSUME BoundsAreNat == LearnEvery \in Nat \ {0} /\ MaxCalls \in [Routes -> Nat] /\ MaxFaults \in Nat /\ MaxCount \in Nat \ {0}
ASSUME WorkersAreFinite == IsFiniteSet(Tickers) /\ IsFiniteSet(Callers)

VARIABLES
    journal,    \* arbicore_opportunity_journal: opportunity -> row
    worker,     \* ticker or caller -> where it is and what it holds
    ticks,      \* AutoExecutor._total_ticks, modulo LearnEvery
    scratch,    \* OpportunityPipeline._last_simulation_backend
    evidence,   \* the last evidence bundle: the backend used, the one recorded,
                \* and (history) whether its evaluation has run alone
    samples,    \* calibration_log: opportunity -> samples logged
    tally,      \* sample_count of the signal in arbicore_signal_metrics
    requests,   \* bound: route -> HTTP calls so far
    faults,     \* bound: faults so far
    met,        \* history: opportunity -> how often its row was taken up while
                \* another coroutine was at work on it
    races,      \* history: how often the tally was touched by two coroutines
    shared,     \* history: workers whose evaluation has overlapped another one
    overtaken   \* history: opportunities whose row two coroutines were saving

results == <<samples, tally>>
bounds == <<requests, faults>>
history == <<met, races, shared, overtaken>>
vars == <<journal, worker, ticks, scratch, evidence, results, bounds, history>>

Workers == Tickers \union Callers
Bump(n) == IF n < MaxCount THEN n + 1 ELSE n

TERMINAL_STATUSES == {"REJECTED", "POLICY_DENIED", "SHADOW_RECORDED", "BROADCAST_FAILED"}
ExecutionStatus ==
    TERMINAL_STATUSES \union
    {"DISCOVERED", "QUOTED", "GAS_ESTIMATED", "PROFITED", "CERTIFIED", "BROADCAST_SENT"}
LearningLabel == {"POSITIVE", "NEGATIVE", "NEUTRAL", "PENDING"}

(* A row of the journal; an opportunity without one has status "NONE".        *)
NoRow == [status |-> "NONE", label |-> "PENDING", consumed |-> FALSE, events |-> {}]
Present(row) == row.status # "NONE"

(* Faulty variant: shadow records are not taken for finished.                *)
TerminalExceptShadow(row) == row.status \in TERMINAL_STATUSES \ {"SHADOW_RECORDED"}

Terminal(row) == row.status \in TERMINAL_STATUSES

Keep == "KEEP"      \* a write that leaves execution_status alone
Done == "done"      \* no further write in this evaluation

(***************************************************************************)
(* The pipeline as a table: what the write of an event may do to the status *)
(* and which write comes next.  A stage that fails keeps the status; the    *)
(* kill switch denies at the policy stage, the capital check never does.    *)
(* "rejected" stands for rejected_at_liquidity, _certification and           *)
(* _simulation too.                                                          *)
(***************************************************************************)

Outcomes(kind, mode) ==
    CASE kind = "discovered" ->
            {<<Keep, IF mode = OBSERVE THEN Done ELSE "quoted">>}
      [] kind = "quoted" -> {"QUOTED", Keep} \X {"liquidity_checked"}
      [] kind = "liquidity_checked" -> {Keep} \X {"gas_estimated", "rejected"}
      [] kind = "gas_estimated" -> {"GAS_ESTIMATED", Keep} \X {"profit_evaluated"}
      [] kind = "profit_evaluated" -> {<<"PROFITED", "policy_evaluated">>, <<Keep, "rejected">>}
      [] kind = "policy_evaluated" -> {Keep} \X {"certified", "policy_denied"}
      [] kind = "certified" -> {<<"CERTIFIED", "simulate">>, <<Keep, "rejected">>}
      [] kind = "simulated" ->
            {Keep} \X {"rejected",
                       IF IsBroadcastAllowed(mode) THEN "broadcast" ELSE "shadow_recorded"}
      [] kind = "policy_denied" -> {<<"POLICY_DENIED", Done>>}
      [] kind = "shadow_recorded" -> {<<"SHADOW_RECORDED", Done>>}
      [] kind = "broadcast_sent" -> {<<"BROADCAST_SENT", Done>>}
      [] kind = "broadcast_failed" -> {<<"BROADCAST_FAILED", Done>>}
      [] OTHER -> {<<"REJECTED", Done>>}

Stages == {"discovered", "quoted", "liquidity_checked", "gas_estimated", "profit_evaluated",
           "policy_evaluated", "certified", "simulated"}
Kinds == Stages \union {"rejected", "policy_denied", "shadow_recorded", "broadcast_sent",
                         "broadcast_failed", "learning_labelled"}

(* Faulty variants: the event is appended only by writes that set no status;  *)
(* the status None is written too.                                           *)
RecordedUnexplained(row, kind, status) ==
    [row EXCEPT !.events = IF status = Keep THEN @ \union {kind} ELSE @,
                !.status = IF status # Keep THEN status ELSE IF Present(row) THEN @ ELSE "DISCOVERED"]
RecordedRaw(row, kind, status) ==
    [row EXCEPT !.events = @ \union {kind}, !.status = status]

(* The row that record_discovery or record_event saves over the row it loaded. *)
Recorded(row, kind, status) ==
    [row EXCEPT !.events = @ \union {kind},
                !.status = IF status # Keep THEN status
                           ELSE IF Present(row) THEN @ ELSE "DISCOVERED"]

(* label_entry: the label of a finished row, and whether it makes a sample.   *)
LabelOf(status) ==
    CASE status = "BROADCAST_FAILED" -> "NEGATIVE"
      [] status = "SHADOW_RECORDED" -> "POSITIVE"
      [] status \in {"POLICY_DENIED", "REJECTED"} -> "NEUTRAL"
      [] OTHER -> "PENDING"

(* Faulty variant: negative outcomes make no sample.                         *)
SampledPositive(label) == label = "POSITIVE"

Sampled(label) == label \in {"POSITIVE", "NEGATIVE"}

(***************************************************************************)
(* Workers.                                                                *)
(***************************************************************************)

Idle == [pc |-> "idle", opp |-> NoOpp, todo |-> {}, mode |-> OBSERVE, kind |-> Done,
         buf |-> NoRow, backend |-> NoBackend, list |-> {}, label |-> "PENDING", count |-> 0]

(***************************************************************************)
(* What the coroutines do to one another.  This is no state of the program  *)
(* and nothing but the properties looks at it: they tell by it what an      *)
(* overlap has cost.  Every step records what it brings about.              *)
(***************************************************************************)

Evaluating(s) ==
    \/ s.pc \in {"mode", "simulate", "broadcast", "persist"}
    \/ s.pc \in {"load", "save"} /\ s.kind # "learning_labelled"

(* A worker in state s is in touch_signal_metric.                            *)
Tallying(s) == s.pc \in {"readTally", "writeTally"}

(* A worker in state s is at work on the row of o, or has listed it.         *)
Holds(s, o) ==
    \/ /\ s.pc \in {"mode", "load", "save", "simulate", "broadcast", "readTally", "writeTally"}
       /\ s.opp = o
    \/ \E e \in s.list : e.opp = o

Saving(s, o) == s.pc = "save" /\ s.opp = o

(* A coroutine takes up the row of o that another one holds.                 *)
Meets(o) ==
    \E v, w \in Workers : Holds(worker[v], o) /\ ~Holds(worker[w], o) /\ Holds(worker'[w], o)

(* A coroutine goes to the tally while another one is at it.                 *)
Races ==
    \E v, w \in Workers : Tallying(worker[v]) /\ ~Tallying(worker[w]) /\ Tallying(worker'[w])

Observe ==
    /\ met' = [o \in Opps |-> IF Meets(o) THEN Bump(met[o]) ELSE met[o]]
    /\ races' = IF Races THEN Bump(races) ELSE races
    /\ shared' = {v \in Workers :
                      /\ Evaluating(worker'[v])
                      /\ v \in shared \/ \E u \in Workers \ {v} : Evaluating(worker'[u])}
    /\ overtaken' = overtaken \union
           {o \in Opps : \E v \in Workers : \E w \in Workers \ {v} :
                             Saving(worker'[v], o) /\ Saving(worker'[w], o)}

NothingHappened ==
    /\ met = [o \in Opps |-> 0] /\ races = 0
    /\ shared = {} /\ overtaken = {}

Init ==
    /\ journal = [o \in Opps |-> NoRow]
    /\ worker = [w \in Workers |-> Idle]
    /\ ticks = 0
    /\ scratch = NoBackend
    /\ evidence = [used |-> NoBackend, recorded |-> NoBackend, alone |-> TRUE]
    /\ samples = [o \in Opps |-> 0]
    /\ tally = 0
    /\ requests = [r \in Routes |-> 0]
    /\ faults = 0
    /\ NothingHappened

At(w, pc) == worker[w].pc = pc
Become(w, s) == worker' = [worker EXCEPT ![w] = s] /\ Observe

(* Where an evaluation goes after the write it has just saved.               *)
After(s, next) ==
    CASE next = Done -> [s EXCEPT !.pc = "persist", !.kind = Done, !.buf = NoRow, !.mode = OBSERVE]
      [] next \in {"simulate", "broadcast"} -> [s EXCEPT !.pc = next, !.kind = Done, !.buf = NoRow]
      [] OTHER -> [s EXCEPT !.pc = "load", !.kind = next, !.buf = NoRow]

(* evaluate returns to the tick, which goes on, or to the HTTP route.        *)
Returned(w) ==
    IF w \in Tickers
    THEN [Idle EXCEPT !.pc = "next", !.todo = worker[w].todo \ {worker[w].opp}]
    ELSE Idle

(* Faulty variant: evaluate does not reset the scratchpad.                   *)
ScratchKept == UNCHANGED scratch

ResetScratch == scratch' = NoBackend

Evaluate(w, o) ==
    /\ ResetScratch
    /\ Become(w, [worker[w] EXCEPT !.pc = "mode", !.opp = o])
    /\ UNCHANGED <<journal, ticks, evidence, results, faults>>

(***************************************************************************)
(* tick_once and the two routes.                                           *)
(***************************************************************************)

TickStart(w) ==
    /\ w \in Tickers /\ At(w, "idle")
    /\ \E batch \in SUBSET Opps : Become(w, [Idle EXCEPT !.pc = "next", !.todo = batch])
    /\ UNCHANGED <<journal, ticks, scratch, evidence, results, bounds>>

(* Faulty variant: no row is ever skipped.                                   *)
SkipNever(row) == FALSE

Skip(row) == Terminal(row) /\ row.consumed

TickSkips(w) ==
    /\ At(w, "next")
    /\ \E o \in worker[w].todo :
          /\ Skip(journal[o])
          /\ Become(w, [worker[w] EXCEPT !.todo = @ \ {o}])
    /\ UNCHANGED <<journal, ticks, scratch, evidence, results, bounds>>

TickEvaluates(w) ==
    /\ At(w, "next")
    /\ \E o \in worker[w].todo : ~Skip(journal[o]) /\ Evaluate(w, o)
    /\ UNCHANGED requests

TickEnds(w) ==
    /\ At(w, "next") /\ worker[w].todo = {}
    /\ ticks' = (ticks + 1) % LearnEvery
    /\ Become(w, [Idle EXCEPT !.pc = IF ticks' = 0 THEN "list" ELSE "idle"])
    /\ UNCHANGED <<journal, scratch, evidence, results, bounds>>

Called(route) ==
    /\ requests[route] < MaxCalls[route]
    /\ requests' = [requests EXCEPT ![route] = @ + 1]

CallEvaluate(w) ==
    /\ Called("evaluate")
    /\ w \in Callers /\ At(w, "idle")
    /\ \E o \in Opps : Evaluate(w, o)

CallEmit(w) ==
    /\ Called("emit")
    /\ w \in Callers /\ At(w, "idle")
    /\ Become(w, [Idle EXCEPT !.pc = "list"])
    /\ UNCHANGED <<journal, ticks, scratch, evidence, results, faults>>

(***************************************************************************)
(* OpportunityPipeline.evaluate.                                           *)
(***************************************************************************)

(* A missing or unreadable mode ends the evaluation before it is journalled. *)
ReadMode(w) ==
    /\ At(w, "mode")
    /\ \/ \E m \in ModesHeld :
             Become(w, [worker[w] EXCEPT !.pc = "load", !.kind = "discovered", !.mode = m])
       \/ Become(w, After(worker[w], Done))
    /\ UNCHANGED <<journal, ticks, scratch, evidence, results, bounds>>

(* Every write of the journal first loads the row.                           *)
Load(w) ==
    /\ At(w, "load")
    /\ Become(w, [worker[w] EXCEPT !.pc = "save", !.buf = journal[worker[w].opp]])
    /\ UNCHANGED <<journal, ticks, scratch, evidence, results, bounds>>

SaveEvent(w) ==
    /\ At(w, "save") /\ worker[w].kind # "learning_labelled"
    /\ \E v \in Outcomes(worker[w].kind, worker[w].mode) :
          /\ journal' = [journal EXCEPT ![worker[w].opp] =
                            Recorded(worker[w].buf, worker[w].kind, v[1])]
          /\ Become(w, After(worker[w], v[2]))
    /\ UNCHANGED <<ticks, scratch, evidence, results, bounds>>

Simulate(w) ==
    /\ At(w, "simulate")
    /\ \E b \in Backends :
          /\ scratch' = b
          /\ Become(w, [After(worker[w], "simulated") EXCEPT !.backend = b])
    /\ UNCHANGED <<journal, ticks, evidence, results, bounds>>

(* _broadcast: without a persisted plan the broadcaster is not called; any    *)
(* receipt, also of a plan that was denied or held, counts as sent.           *)
Broadcast(w) ==
    /\ At(w, "broadcast")
    /\ \E kind \in {"broadcast_sent", "broadcast_failed"} : Become(w, After(worker[w], kind))
    /\ UNCHANGED <<journal, ticks, scratch, evidence, results, bounds>>

(* _persist_evidence; a failed insert is only logged.                        *)
Persist(w) ==
    /\ At(w, "persist")
    /\ evidence' \in {evidence, [used |-> worker[w].backend, recorded |-> scratch,
                                 alone |-> w \notin shared]}
    /\ Become(w, Returned(w))
    /\ UNCHANGED <<journal, ticks, scratch, results, bounds>>

(***************************************************************************)
(* LearningLedger.emit_from_journal.                                       *)
(***************************************************************************)

(* Faulty variant: rows that carry a label already are listed too.           *)
ListedAgain(row) == Present(row)

Listed(row) == Present(row) /\ row.label = "PENDING"

(* The pending rows as they are now; those not finished are passed over.     *)
EmitList(w) ==
    /\ At(w, "list")
    /\ Become(w, [worker[w] EXCEPT !.pc = "emit",
                    !.list = {[opp |-> o, label |-> LabelOf(journal[o].status)] :
                                 o \in {p \in Opps : Listed(journal[p]) /\ Terminal(journal[p])}}])
    /\ UNCHANGED <<journal, ticks, scratch, evidence, results, bounds>>

EmitSample(w) ==
    /\ At(w, "emit")
    /\ \E e \in worker[w].list :
          /\ Sampled(e.label)
          /\ samples' = [samples EXCEPT ![e.opp] = Bump(@)]
          /\ Become(w, [worker[w] EXCEPT !.pc = "readTally", !.opp = e.opp, !.label = e.label,
                                          !.list = @ \ {e}])
    /\ UNCHANGED <<journal, ticks, scratch, evidence, tally, bounds>>

EmitNeutral(w) ==
    /\ At(w, "emit")
    /\ \E e \in worker[w].list :
          /\ ~Sampled(e.label)
          /\ Become(w, [worker[w] EXCEPT !.pc = "load", !.opp = e.opp, !.label = e.label,
                                          !.list = @ \ {e}, !.kind = "learning_labelled"])
    /\ UNCHANGED <<journal, ticks, scratch, evidence, results, bounds>>

(* touch_signal_metric.                                                      *)
ReadTally(w) ==
    /\ At(w, "readTally")
    /\ Become(w, [worker[w] EXCEPT !.pc = "writeTally", !.count = tally])
    /\ UNCHANGED <<journal, ticks, scratch, evidence, results, bounds>>

(* Faulty variant: the mean is updated, the count is not.                    *)
CountedNot(n) == n

Counted(n) == Bump(n)

WriteTally(w) ==
    /\ At(w, "writeTally")
    /\ tally' = Counted(worker[w].count)
    /\ Become(w, [worker[w] EXCEPT !.pc = "load", !.kind = "learning_labelled", !.count = 0])
    /\ UNCHANGED <<journal, ticks, scratch, evidence, samples, bounds>>

(* set_learning_label with consumed=True.                                    *)
SaveLabel(w) ==
    /\ At(w, "save") /\ worker[w].kind = "learning_labelled"
    /\ journal' = [journal EXCEPT ![worker[w].opp] =
                      [worker[w].buf EXCEPT !.label = worker[w].label, !.consumed = TRUE,
                                            !.events = @ \union {"learning_labelled"}]]
    /\ Become(w, [Idle EXCEPT !.pc = "emit", !.list = worker[w].list])
    /\ UNCHANGED <<ticks, scratch, evidence, results, bounds>>

EmitEnds(w) ==
    /\ At(w, "emit") /\ worker[w].list = {}
    /\ Become(w, Idle)
    /\ UNCHANGED <<journal, ticks, scratch, evidence, results, bounds>>

(***************************************************************************)
(* Failures.                                                               *)
(***************************************************************************)

Emitting(w) ==
    \/ worker[w].pc \in {"list", "emit", "readTally", "writeTally"}
    \/ worker[w].kind = "learning_labelled"

(* A database call, or the simulator, raises: the tick goes on with the next  *)
(* opportunity, or ends when its own read or its emission failed.             *)
Fails(w) ==
    /\ faults < MaxFaults /\ faults' = faults + 1
    /\ worker[w].pc \in {"next", "load", "save", "simulate", "list", "emit", "readTally", "writeTally"}
    /\ Become(w, IF Emitting(w) \/ At(w, "next") THEN Idle ELSE Returned(w))
    /\ UNCHANGED <<journal, ticks, scratch, evidence, results, requests>>

Crash ==
    /\ faults < MaxFaults /\ faults' = faults + 1
    /\ worker' = [w \in Workers |-> Idle] /\ Observe
    /\ ticks' = 0 /\ scratch' = NoBackend
    /\ UNCHANGED <<journal, evidence, results, requests>>

Step(w) ==
    \/ TickSkips(w) \/ TickEvaluates(w) \/ TickEnds(w)
    \/ ReadMode(w) \/ Load(w) \/ SaveEvent(w) \/ Simulate(w) \/ Broadcast(w) \/ Persist(w)
    \/ EmitList(w) \/ EmitSample(w) \/ EmitNeutral(w) \/ ReadTally(w) \/ WriteTally(w)
    \/ SaveLabel(w) \/ EmitEnds(w)

Next ==
    \/ \E w \in Workers : TickStart(w) \/ CallEvaluate(w) \/ CallEmit(w) \/ Step(w) \/ Fails(w)
    \/ Crash

Spec == Init /\ [][Next]_vars

(* Every call a worker awaits returns, and the loop ticks again and again.   *)
FairSpec ==
    /\ Spec
    /\ \A w \in Workers : WF_vars(Step(w))
    /\ \A w \in Tickers : WF_vars(TickStart(w))

(***************************************************************************)
(* Properties.                                                             *)
(***************************************************************************)

JournalRow ==
    [status : ExecutionStatus \union {"NONE"}, label : LearningLabel, consumed : BOOLEAN,
     events : SUBSET Kinds]
Counts == 0..MaxCount

(* Every variable has its type; what a worker saves is a row that exists.    *)
TypeOK ==
    /\ journal \in [Opps -> JournalRow]
    /\ \A o \in Opps : Present(journal[o]) <=> journal[o].events # {}
    /\ DOMAIN worker = Workers
    /\ ticks \in 0..LearnEvery - 1
    /\ scratch \in Backends \union {NoBackend}
    /\ evidence \in [used : Backends \union {NoBackend}, recorded : Backends \union {NoBackend},
                     alone : BOOLEAN]
    /\ samples \in [Opps -> Counts]
    /\ tally \in Counts
    /\ requests \in [Routes -> Nat] /\ \A r \in Routes : requests[r] <= MaxCalls[r]
    /\ faults \in 0..MaxFaults
    /\ met \in [Opps -> Counts] /\ races \in Counts
    /\ shared \subseteq Workers /\ overtaken \subseteq Opps

EventsOf(status) ==
    CASE status = "DISCOVERED" -> {"discovered"}
      [] status = "QUOTED" -> {"quoted"}
      [] status = "GAS_ESTIMATED" -> {"gas_estimated"}
      [] status = "PROFITED" -> {"profit_evaluated"}
      [] status = "CERTIFIED" -> {"certified"}
      [] status = "POLICY_DENIED" -> {"policy_denied"}
      [] status = "SHADOW_RECORDED" -> {"shadow_recorded"}
      [] status = "BROADCAST_SENT" -> {"broadcast_sent"}
      [] status = "BROADCAST_FAILED" -> {"broadcast_failed"}
      [] OTHER -> {"rejected"}

(* "Captured with a stable execution_status label": however evaluations and   *)
(* emissions of one row overlap, and wherever they fail, the status of a row  *)
(* is explained by an event of its trail.                                     *)
StatusExplained ==
    \A o \in Opps : Present(journal[o]) => journal[o].events \intersect EventsOf(journal[o].status) # {}

(* The ledger labels a row POSITIVE or NEGATIVE only after its sample is in    *)
(* the calibration log: no crash or overlap loses the sample of a labelled    *)
(* row.                                                                       *)
NoLabelWithoutSample ==
    \A o \in Opps : journal[o].label \in {"POSITIVE", "NEGATIVE"} => samples[o] > 0

(* "Idempotent. Each journal row is consumed at most once" (ledger.py:19): it *)
(* makes at most one sample.                                                 *)
ConsumedOnce == \A o \in Opps : samples[o] <= 1

(* What becomes of that promise: a row is consumed once, and once more at most *)
(* for each fault, and each time it was taken up while another coroutine was   *)
(* at work on it: two emissions have both listed it, or a save of an          *)
(* evaluation has put the label back.  One encounter never costs two samples.  *)
RepeatsExplained == \A o \in Opps : samples[o] <= 1 + faults + met[o]

(* A consumed row is finished, and stays so: nobody evaluates it again.      *)
ConsumedIsTerminal == \A o \in Opps : journal[o].consumed => Terminal(journal[o])

(* "Journals every stage": a row that was shadow-recorded or handed to the    *)
(* broadcaster has gone through every stage, and its trail shows them all,    *)
(* whatever coroutines have worked on it and failed, unless two of them were   *)
(* between the load and the save of that row at once.                        *)
TrailIsComplete ==
    \A o \in Opps \ overtaken :
        journal[o].status \in {"SHADOW_RECORDED", "BROADCAST_SENT", "BROADCAST_FAILED"}
            => Stages \subseteq journal[o].events

(* "State does not leak between opps": an evidence bundle names the backend   *)
(* that the simulation of its own evaluation used, if no other evaluation has *)
(* run while this one did; those that came before, also beside each other or   *)
(* failed, leave nothing behind.                                             *)
EvidenceIsOwn == evidence.alone => evidence.used = evidence.recorded

(* The documents of the calibration log: the n-th sample of an opportunity.   *)
Logged == {doc \in Opps \X (1..MaxCount) : doc[2] <= samples[doc[1]]}

(* The model's bound on counts is not reached.                               *)
LogFits == Cardinality(Logged) < MaxCount

AtTally == {w \in Workers : Tallying(worker[w])}

(* "sample_count counts every emission for the signal" (ledger.py:196), and    *)
(* what becomes of that: the tally never counts a sample before it is logged,  *)
(* nor twice, and misses at most one for each fault, and for each time a       *)
(* coroutine went to the tally while another one was at it; apart from the     *)
(* sample that is just being counted.                                        *)
TallyMissesExplained ==
    LogFits =>
        /\ tally + Cardinality(AtTally) <= Cardinality(Logged)
        /\ Cardinality(Logged) <= tally + faults + races + (IF AtTally = {} THEN 0 ELSE 1)

(* A finished row is consumed in the end, so that it leaves the loop, unless  *)
(* a later evaluation of it reaches the broadcaster first.                   *)
FinishedIsLearned ==
    \A o \in Opps :
        Terminal(journal[o]) ~> (journal[o].consumed \/ journal[o].status = "BROADCAST_SENT")
=============================================================================
