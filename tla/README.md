# ArbiCore X: a TLA+ model of the execution core

ArbiCore X discovers arbitrage opportunities, takes each through a pipeline of
checks, may broadcast a flash-loan transaction for it, and learns from the
outcome; beside that it walks the owner's funds through purchase, transfer and
sale, and a set of shell scripts replaces the running backend by a new one.
What must not go wrong is small compared with the code base: who may broadcast,
when, how often, with how much; where the funds are said to be; which backend
serves; and whether the record that the system learns from is the record of
what happened.  The backend runs in one asyncio process over a MongoDB database.
Nothing is shared between threads, but every `await` is a point where another
request, a background loop or the operator can come in, hardly any database
update is a compare-and-set, and the process can be restarted between any two
calls.  These modules model that core at the granularity of its awaits.

Paths below are relative to the repository; `arbicore/` stands for
`app/backend/arbicore/`, and `execution/`, `data/`, `learning/`, `providers/`
and `scanners/` for the directories in it.

## 1. Inventory

| Component | State | Operations | Hard behaviour | What makes it correct |
|---|---|---|---|---|
| Execution mode ladder, `execution/mode.py` | one row per strategy in `execution_mode_state`, one row per change in `execution_mode_audit` | `ensure_defaults` at start-up, `transition` from HTTP, `get` by everyone | read, validate, write, audit are four awaits; no compare-and-set; crash between write and audit | a strategy reaches a broadcasting mode only through the one below; the audit trail explains the mode |
| LIMITED_LIVE broadcaster, `execution/broadcast.py`, `kill_switch.py`, `pre_broadcast.py` | the kill switch row, the mode row, claims in memory, the wallet's nonce at the node | `broadcast_plan` from HTTP and from the pipeline; `engage`, `disengage` | about fifteen awaits between the first gate and the send; requests overlap; 15 s client timeout on the send; claims die with the process | one claim, one transaction; only authorised requests send; engaging the switch stops broadcasting in the end |
| Opportunity pipeline, `execution/pipeline.py` | a scratchpad on the shared instance | `evaluate` | two evaluations of one row interleave; scratchpad shared | decisions rest on a complete trail; evidence is that of the evaluation |
| Opportunity journal, `data/journal.py` | one document per opportunity: status, label, events | `record_discovery`, `record_event`, `set_learning_label`, `list` | load, await, save of the whole document: lost updates | trails only grow; a status is explained by an event |
| Auto executor, `execution/auto_executor.py` | task, tick counter | `start`, `stop`, `tick_once` | re-ticks rows; starts and stops overlap | consumed rows are left alone; finished rows leave the loop |
| Learning ledger, `learning/ledger.py` | `calibration_log`, `arbicore_signal_metrics` | `emit_from_journal` | sample, tally and label are separate writes; emissions overlap | one sample per row, and one more only for an overlap or a fault; no label without its sample; the tally counts the samples but for as many |
| Capital allocator, `execution/capital_policy.py` | policy rows; reads over today's plans | `ensure_defaults`, `update`, `evaluate` | read of the sum, then decision, while other plans are built and decided; failed reads; amounts whose sign nobody checks; midnight | the plans of a day stay below the daily cap; each plan is within its own |
| Circuit breaker, `pre_broadcast.py` | recorded outcomes | `record_outcome`, `guard` | boundaries | trips exactly on its limits |
| Discovery queue, `data/discovery_queue.py`, and the scanners that share it, `scanners/*/scanner.py` | candidates with claim and expiry | `upsert_many`, `claim_batch`, `mark_processed`; a scanner's tick | a claim runs out under a slow worker; marks do not ask for the holder; failed calls, cancellation, restart between emission and mark | a candidate is emitted once per claim and keeps its outcome; none is forgotten |
| Approval workflow, `services/execution/approval_workflow.py` | decisions | `approve`, `reject` | decision row before the cycle, no dedupe | every approval opens one cycle |
| Provider registry, `providers/registry.py` | status, failure streak, event ring and pause of each provider | a call with failover, the breaker's open, probation and close | concurrent calls work on the list they made at the start; late answers reach an open breaker | open providers are not called; a breaker keeps its pause; nobody is locked out for good |
| Signer, vault, wallets, secrets | rows | insert, lookup | none of interest here | |
| Planner, certification, readiness | none | evaluate a plan or report | deterministic | |
| Calldata, quotes, gas, simulation, economics | none | arithmetic, RPC | numeric | |
| Discovery sources, verifiers, searcher | caches, queues | poll, subscribe | reconnects, stale caches | |
| Fund cycles, `services/execution/fund_tracker.py`, `cycle_model.py`, `shadow.py` | one document per cycle: state, previous state, stuck flag, legs of the ledger | operators create, advance, abort, review; the shadow runner's tick; the sweep for stuck cycles | all of them read, await and write unconditionally | the ledger backs the state; ended cycles stay ended; a wait that takes too long is noticed |
| Campaigns, permanent ledger, observers, `services/execution/` | rows, cursors | periodic | crash between cursor and rows; check-then-insert | nothing lost or counted twice |
| Learning workers, intelligence, paper and shadow certification | statistics, reports | periodic | | |
| Upgrade toolkit, `deployment/upgrade/steps/*.sh` | two containers, a snapshot file, what the scripts say | cutover with automatic rollback, canary, rollback script | a command fails or the terminal goes away half way; subshells and pipes | a rollback has what it needs and reports truly; some backend stays |
| HTTP server, consoles, configuration, contracts | wiring, settings | | | |

How they interact:

- Operators call `transition`, `engage`/`disengage`, `broadcast_plan`,
  `evaluate`, `tick_once` and `emit_from_journal` over HTTP (`server.py`).  Each
  call is a coroutine of its own.
- The auto executor's loop calls `OpportunityPipeline.evaluate` for each
  discovered row and, on every fourth tick, `emit_from_journal`.
- The pipeline reads the mode, writes the journal at each stage and, in a
  broadcasting mode, calls `broadcast_plan` without `confirm` (the
  `auto_confirm` switch is off unless it is configured).
- Each scanner's loop discovers candidates into the queue, claims a batch,
  verifies it, emits confirmed candidates on the event bus, and marks the
  outcome.
- The live scanners and the searcher reach the outside through the provider
  registry.
- Operators, the shadow runner and the sweep move the fund cycles; they share
  nothing with the broadcaster but the process.
- The broadcaster reads the kill switch, the mode and the capital policy from
  the database, the duplicate guard in memory, and the node over RPC.
- The ledger reads the journal, writes samples and tallies, and labels the row.

`PROJECT.json` lists every component with its status, and the hazards of this
code with the line where each bites and the properties that are about it.

## 2. Modules

| Module | Role |
|---|---|
| `Modes` | the five modes as rung numbers, `ValidTransition`, `IsBroadcastAllowed` |
| `PromotionLadder` | abstract: the history of modes a strategy may have |
| `ExecutionMode` | the mode registry, implements `PromotionLadder` |
| `ClaimRegistry` | abstract: claims of opportunities and how often each was sent under its claim |
| `Broadcast` | the broadcaster with switch, mode, guard and node, implements `ClaimRegistry` |
| `OpportunityLoop` | pipeline, journal, auto executor and ledger composed |
| `WorkLease` | abstract: items that are leased, lapse and are done |
| `DiscoveryQueue` | the queue composed with the scanners that share it, implements `WorkLease` |
| `ProviderRegistry` | calls with failover and a circuit breaker per provider |
| `CapitalPolicy` | the allocator with its policy row and the day's plans |
| `FundCycle` | the fund tracker's cycles with operators, shadow runner and sweep |
| `BackendUpgrade` | the cutover, canary and rollback scripts |
| `...Proofs` | the theorems about the module of that name |
| `MC...` | values for the constants of the runs |

In `app/backend/` an action is the code between two awaits.  A read of the
database is one action and the write that depends on it another, so what a
coroutine holds may be stale by the time it uses it.  An atomic `update_one` is
one action.  In `deployment/` an action is a command of a script.  Faults are
actions of their own: a call that raises, a crash, a restart, a timeout, a
transaction that arrives late or never, a `Ctrl-C`.  Variables named "history"
in a module's comments exist only for the properties, no guard reads them.
Operators whose comment begins "Faulty variant" are what a plausible slip would
make of the operator that follows them; nothing in a specification uses them,
and each is known to break the property it is paired with in `PROJECT.json`.

### 2.1 ExecutionMode

`mode[s]` is the row of strategy `s` (`Missing` before it is seeded), `audit[s]`
its audit rows in order, `op[o]` the `transition` call in progress for operator
`o` with the mode it read, `boot` the seeding loop.

| Action | Code |
|---|---|
| `SeedKeepsExisting`, `SeedMissing`, `SeedAudit` | the two inserts of `ensure_defaults` and its early `continue` |
| `StartServing`, `SeedFails` | the start-up hook of `server.py`, which logs an exception and serves anyway |
| `ReadMode` | `get` and `validate_transition`; a refused request leaves no step |
| `WriteMode`, `AuditMode` | `update_one` of the row, `insert_one` of the audit row |
| `RequestFails`, `Crash` | an exception at either write; the process restarts and seeds again |

A missing row is read as OBSERVE (`(current or {}).get("mode") or "OBSERVE"`),
which is why `SeedFails` matters.  Mode names are rung numbers: `_idx` maps one
to the other and is a bijection on the five names.

### 2.2 Broadcast

`req[r]` is a coroutine in `broadcast_plan`: where it is, its plan, whether it
was confirmed, whether a gate has denied it (`passed`), the nonce it read, and
two history fields, `sawOff` and `sawLive`, that record whether the switch was
off, and the mode live, at any moment since it started.  `claims` is the
dictionary of `SeenOpportunityGuard` without its clock, `pending` the node's
transaction count of the gas wallet, `late` the nonces of transactions whose
request no longer waits, `sends` the transactions sent under a present claim.

| Action | Code |
|---|---|
| `KillGate`, `ModeGate`, `PolicyGates` | gates 1 to 4a and the short-circuit; capital, secrets, calldata and slippage give any verdict |
| `Abort` | an exception of the switch or the allocator, which nothing catches |
| `ReadNonce`, `EthCall` | the preflight; any of its calls may fail |
| `RevalidateDenies`, `RevalidateHolds`, `RevalidateSends` | the tail of `PreBroadcastValidator.validate` after its fresh read, the operator gate, and the decision to send; no await separates them |
| `NodeTakes`, `Answered`, `Timeout` | the RPC call and its 15 s timeout |
| `LateArrival`, `LateLoss` | a transaction whose request has gone |
| `ClaimExpires`, `Restart` | the time to live, and the loss of all claims |
| `Engage`, `Disengage`, `Promote`, `Rollback` | the operator |

Two facts of the present wiring are built in.  Gate 0, the circuit breaker, never
denies, because no code records outcomes in it.  The validator is wired
(`server.py` passes it; without a Base RPC it is absent and every request is
denied, which the model covers as a run in which `fresh` is always false).
A null answer for the nonce becomes nonce 0 (`broadcast.py:652`).
`Promote` sets the mode live at any time: the ladder that limits it is the
subject of `ExecutionMode`, and this module is about what happens after.

### 2.3 OpportunityLoop

`journal[o]` is the document of one opportunity reduced to its status, label,
consumed flag and the set of event kinds in its trail.  `worker[w]` is a
coroutine, either a ticker (the loop, or `POST .../tick`) or a caller
(`POST .../evaluate`, `POST .../emit`), and `buf` in it is the document it has
loaded and not yet saved.  `scratch` is the attribute
`_last_simulation_backend` of the one pipeline instance.  `samples` and `tally`
count what the ledger logged and what the signal row says; they saturate at
`MaxCount`.  `requests` bounds the HTTP calls of each route.

Four history variables tell what the coroutines have done to one another, and
`Observe`, a part of every step, keeps them: `met[o]` counts how often a coroutine
took up the row of `o`, to evaluate it or by listing it, while another one was at
work on it; `races` how often a coroutine went to the tally while another one was
at it; `shared` are the workers whose evaluation another one has overlapped; and
`overtaken` the rows that two coroutines were saving at once.  The properties
measure by them what an overlap may cost, so that overlaps need not be excluded.

The pipeline is a table, `Outcomes`: for the write of each event the statuses
it may set and the write that follows.  `Load` and `SaveEvent` run that table
over the journal, `Simulate`, `Broadcast` and `Persist` are the stages that do
something else.  `EmitList` to `EmitEnds` are `emit_from_journal`.  `Fails` is
an exception and `Crash` a restart.

What is merged: the four kinds of rejection event are one, `"rejected"`; all
opportunities share one signal (`_compute_signal_id` would give opportunities on
different routes different ones, the shared one is the case where tallies
race); a batch of 100 is never full; `COMPLETED` is left out because nothing
writes it.  Receipts do not matter to the pipeline: `_broadcast` calls any
receipt a success, also one that was denied or held, so `BROADCAST_SENT` in the
journal means that the broadcaster answered.  The capital check in
`_policy_check` never denies, since its result is a dataclass, `.get` raises and
the exception is swallowed.

### 2.4 DiscoveryQueue

`row[c]` is the document of a candidate: its outcome, who claimed it and whether
that claim still stands.  `worker[w]` is the tick in progress of a scanner: the
rows it has claimed, the one in hand, the verdict, and what its `now`, read once
per batch, told it about claims and expiry.

| Action | Code |
|---|---|
| `Discover` | a source comes up with a candidate and `upsert_many` stores it; `$setOnInsert` leaves a row that is there alone |
| `StartBatch`, `Claim`, `EndBatch` | `claim_batch`: `now`, then one `find_one_and_update` per row |
| `Take`, `Verify`, `Emit`, `Mark`, `EndTick` | the scanner's tick over its batch: a row of another kind or without a verifier, the verdict, `EmissionBus.emit`, `mark_processed` |
| `MarkFails`, `Abandon`, `Restart` | the failed mark, which the flash-loan scanner survives and the dex scanner does not; a cancelled tick; the process |
| `ClaimRunsOut`, `Expire` | the 60 s of a claim, the time to live of a row |

A batch is claimed with one `now`, so its leases all end 60 s after the claiming
began (`discovery_queue.py:72`).  The model takes the claiming itself to be
shorter than that: a row it has just claimed has a lease that stands.  A batch
whose last claim is already over when it is made is left out; its rows would be
as those whose claim runs out at once, which `ClaimRunsOut` may do.

Two facts of the code shape it.  `claim_batch` does not filter by kind, so each
scanner takes rows of the other and settles them as `no_verifier`; and
`mark_processed` matches the id alone, so a worker whose claim has run out still
marks.  `expires_at` is stored as a float, so the TTL index that is meant to
delete rows (`discovery_queue.py:36`) deletes nothing, and
`reap_expired_unclaimed` has no caller: rows never go away, and an expired row
is only no longer claimed.

### 2.5 ProviderRegistry

`status`, `streak`, `events` and `due` are the record of a provider: its
status, its consecutive failures up to the threshold, the ring of its last
outcomes, and whether the pause of an open breaker is over.  `call[k]` is a call
with the candidates it has left, the one in flight and its attempts.  `List`
makes the list, and thereby lets providers back whose pause is over, `Attempt`,
`Succeeds`, `Fails` and `Exhausted` are the failover loop with
`_record_event`.  `Cancelled` is a caller whose task ends while it waits: a
`CancelledError` is no `Exception`, so nothing is recorded of the attempt
(`registry.py:227`).  The order of the list, by score, is left open.  `lateOk` and `shut` are history.

### 2.6 CapitalPolicy

`Seed` and `Update` are the policy row, `Build` stores a plan, and `ReadPolicy`,
`ReadUsed`, `Decide` and `Lost` are `evaluate` between its awaits.  Pool, wallet,
profit floor and stop-loss come from outside and leave any amount or deny.  What
the model shows of the code, beyond its properties: the sum runs over plans
built, not sent, and includes the plan under evaluation; a limit of zero means
the default (`policy.get(...) or default`, `capital_policy.py:225`); a failed
read of the use counts as none; and a plan built before midnight and evaluated
after it is in no sum, although the cap is called rolling
(`capital_policy.py:38`).

Amounts are integers.  Limits are checked for their sign when they are patched,
but what a plan borrows is stored as it comes: neither the route
(`server.py:3744`) nor the planner looks at the sign, and `_daily_used_usd` sums
it as it is (`capital_policy.py:158`).  A plan below zero is never approved (its
denial may carry a negative `approved_usd`, `capital_policy.py:245`), but while it
is stored it makes room for others above the cap of that day.

### 2.7 FundCycle

`cycle[c]` is the document of a cycle, `worker[w]` the call of an operator or of
the runner between its read and its write, `missed` the sweep's candidates with
the states it read, `overdue` the cycles past a deadline.

| Action | Code |
|---|---|
| `OperatorCalls` | what `create_cycle`, `advance`, `abort` and `force_manual_review` read and decide |
| `TickOpens`, `TickRecovers`, `TickDrives`, `SetStuckDecides`, `TickAdvances` | the shadow runner's tick, with the second reads of `set_stuck` and `advance` |
| `Write` | the `update_one`, or the insert, that a call ends with |
| `SweepReads`, `SweepMarks` | `_detect_stuck`: one query, then one update per cycle |
| `DeadlinePasses`, `Dropped` | time; a call or sweep that fails, a cancelled loop, a restart |

The hard freeze and the deposit gates may turn at any time and are choices at
the read.  `advance` looks at the freeze before it looks for a terminal state
(`fund_tracker.py:226`), so a frozen `advance` reopens an ended cycle for review:
`FreezeDecides` allows it and `EndedStaysEnded` names it.  The hold that an
operator asks for does look first, so it is an update of another kind ("hold",
not "freeze") although both write the same.  `TickRecovers` takes a
cycle from any stuck state to `BDAG_RECEIVED` (`shadow.py:178`), which is the
exception in `LedgerBacksState`.  Amounts, fees and wording are left out; the
text of an abort, "Aborted before any side effect" (`fund_tracker.py:51`), is
the same for a cycle that has spent money.

### 2.8 BackendUpgrade

`old` and `new` are the two containers, `snap` the newest snapshot file,
`script` the script in progress with the canary's counters, `said` what the last
one told the operator.  One action per command, in the order of
`06_cutover.sh` (`Snapshot` to `RestartOld`), `09_canary_probe.sh` (`Probe`,
`CanaryGreen`, `CanaryAborts`) and `99_rollback.sh` (`RemoveNew` to
`RollbackDone`).  `NewTurns` is the new backend coming up, right or wrong, or
crashing; `RemoveOld` the operator's `docker rm` after the retention time;
`DockerFails` and `Interrupted` the faults.  One script runs at a time, as the
make targets are meant to be used.

The scripts' own peculiarities are in the model: `curl | grep -q` under
`pipefail` may fail a good check (`SurfaceFails`, `Probe`); the automatic
rollback says that OLD is back even if `docker start` failed (`RestartOld`); a
rollback with `--dry-run` still starts OLD (`StartOld`); the rollback script
dies without any snapshot, also when OLD is there (`FindSnapshot`).

## 3. Runs

| Run | Instance | Shows |
|---|---|---|
| `mode_races` | 1 strategy, 2 operators, 1 fault, 4 audit rows | a broadcasting mode is earned under every interleaving; the audit is the history of the modes; the registry implements `PromotionLadder` |
| `broadcast_requests` | 2 requests for one opportunity, requests start while the node has fewer than 2 transactions, fair | one transaction per claim, only authorised sends, implements `ClaimRegistry`; an engaged switch drains |
| `loop_learns` | the loop, 2 opportunities, modes without broadcast, fair | a consumed row is finished and stays so; every finished row is learned |
| `loop_overlaps` | 2 HTTP callers with up to 2 calls of each route, 1 opportunity, broadcasting, 1 fault, from a journal left by an earlier process | statuses are explained and labels have samples; trails, evidence, samples and tally are right but for what overlaps and the fault account for |
| `queue_workers` | flash-loan and dex scanner, 2 candidates, batches of 2, 1 claim that runs out early, 1 fault, fair | emissions per claim, outcomes true and lasting, implements `WorkLease`; every stored candidate is settled or expires |
| `providers_calls` | 2 providers, 2 callers, threshold 2, ring of 3, 3 attempts, fair | open breakers are skipped and keep their pause, probation trips at once, nobody is locked out for good |
| `upgrade_steps` | canaries of up to 6 probes, 1 fault, OLD may be removed | a rollback finds its snapshot and reports truly, a backend stays, green was served |
| `funds_moves` | a shadow and an operator's cycle, 1 operator with 2 calls, runner, sweep, 1 fault, fair | the ledger backs the state, ended cycles stay ended, waits are noticed |
| `capital_day` | 2 plans of 1 to 3 units or of one unit below zero, daily cap 3 or 4, one midnight, one change of policy | the plans of a day stay below the daily cap, but for what plans below zero take off it |
| `upgrade_removed` | OLD removed, no fault | violated: "production is on the OLD backend again" |
| `funds_held` | one cycle held twice | violated: it can be resumed |
| `loop_twice` | the loop's emission beside one over HTTP, no fault | violated: "each journal row is consumed at most once" |

The bounds.  Two requests, operators, callers or workers are enough for every
race in this code: each is between one coroutine that holds something stale and
one that changes it, and no code path distinguishes a third.  The two requests
of `broadcast_requests` are for the same opportunity, since requests for
different ones share no claim, and two transactions let a nonce be taken by
another request and a second send follow the first.  `MaxFaults = 1` puts a
failure or crash at any point; a second one repeats the first.  `MaxAudit = 4`
leaves room for seeding and three transitions, the number a climb over two rungs
and a rollback needs.  `RestartedSpec` begins with no row, or with one that an earlier process left
finished but not consumed, and with part of the two calls of each route used up
(`CallsMade`): an evaluation and two emissions are left, or two evaluations.  So
short schedules reach an emission across an evaluation, two emissions and two
evaluations across each other, and a third call after any of them.  Callers are
interchangeable (`CallersAlike`), as are the plans of `capital_day`
(`PlanSymmetry`).  In the queue a batch of two lets a worker hold one row
while it works on the other, two workers let a claim pass from one to the other,
and two candidates are of different kinds.  A threshold of 2 below a ring of 3
lets a breaker trip by its streak and by its rate, and on probation for either
reason; three attempts are more than there are providers, so that the list runs
out first as well.  Six probes are enough for a canary to abort on a streak
and, without one, on a rate above 20 per cent.  Two operator calls beside
runner and sweep put two stale updates against each other; `MaxConcurrent = 1`
makes the limit bite.  Plans of up to 3 units against a cap of 3 or 4 let one
plan fit, two small ones fit, and two large ones not; a plan of one unit below
zero then lets a large one exceed the cap.  `MaxCount = 4` is more than the
samples of the two emissions of `loop_overlaps`, so that repeated samples and lost
updates of the tally show; a history count that saturates there allows more than
those samples anyway.  `CHECK_DEADLOCK FALSE`
appears where a bound stops the environment: audit rows, calls, days or plans
are used up.

`loop_learns` has the modes that do not broadcast, OBSERVE and SHADOW;
`FinishedIsLearned` holds as well with `ModesHeld <- LiveOnly` in the same
configuration, and with all three kinds of mode and `LearnEvery = 1`.

The violated runs state what a comment or a message of the repository says,
and TLC's trace is the schedule in which the code does something else;
`PROJECT.json` quotes each.  Their counterparts that hold are the part of the
promise the code keeps: `RollbackWorks` holds while OLD is kept, and
`RepeatsExplained` says what is left of consuming a row once.

### Where promises end

Some passing properties hold of a restricted schedule, or are the weaker form of
what a comment says, and the reader should know the edge.

- *The ladder.* `mode.py:3` says one rung at a time.  Two operators that both
  read a strategy before either writes (`mode.py:197`) can take it past a rung it
  never stood on.  `LiveRungEarned` and the refinement are what remains: no such
  skip ends on a rung that may broadcast unless the one below was held.
- *The audit.* `mode.py:12` says that every transition leaves an audit row.  A
  failure between the two writes leaves none: `AuditIsHistory` promises
  completeness only without faults, and truth always.
- *The kill switch.* It is read once, at the first gate (`broadcast.py:463`), and
  the send (`broadcast.py:771`) comes many awaits later, while
  `docs/BASE_MAINNET_PROMOTION_PLAN.md:305` has it stop a send.  `SendIsAuthorised`
  and `EngageDrains` remain.  The mode is read once as well (`broadcast.py:471`).
- *Previews.* A request without `confirm` takes the claim (`pre_broadcast.py:179`),
  so the confirmed request that `OPERATOR_WALKTHROUGH_v1.0.md:343` describes next is
  refused as a duplicate until the claim expires.
- *Samples.* Two overlapping emissions, or a crash before the label
  (`ledger.py:254`), log a second sample for a row, although it is to be consumed
  at most once (`ledger.py:19`): `loop_twice` is the shortest such schedule, without
  a fault.  An HTTP evaluation that has loaded the row before the label was set puts
  PENDING back and has the same effect.  `RepeatsExplained` is what remains: a row
  makes one sample, and one more at most for each fault and for each time it was
  taken up while somebody was at work on it.  `NoLabelWithoutSample` holds everywhere.
- *The tally.* Two coroutines in `touch_signal_metric` (`ledger.py:200`) lose counts,
  although the tally is to count every emission (`ledger.py:196`), and so does a
  fault after the sample.  `TallyMissesExplained` bounds the loss by their number,
  and says that the tally is never ahead of the log.
- *Evidence and trails.* Evaluations share the scratchpad (`pipeline.py:181`) and save
  whole documents over each other's (`journal.py:220`).  `EvidenceIsOwn` leaves out the
  evaluations that another one has overlapped, `TrailIsComplete` the rows that two
  coroutines were saving at once; both are checked and proved with overlaps and
  faults before, after and elsewhere.
- *Consumed rows.* `ConsumedIsTerminal` is checked for the loop alone.  The tick skips
  consumed rows (`auto_executor.py:154`), the HTTP evaluation does not look, and takes
  a consumed row back to a status that is not terminal, with no overlap at all.
- *Broadcast rows.* `BROADCAST_SENT` is no terminal status (`journal.py:63`), so
  such a row is never learned, although the ledger is to emit samples for every
  opportunity (`ledger.py:22`), and the loop evaluates it and hands it to the
  broadcaster again on each tick (`auto_executor.py:148`).  `FinishedIsLearned` names the exception.
- *The daily cap.* `DailyCapHolds` counts plans below zero together with those
  approved, since they have made room for them: without one the approved plans stay
  below the cap (`CapBindsUnlessNegative`), with one they may exceed it by its amount.
  Decisions whose read of the use failed are left out: they are bound by nothing.
- *The cap per plan.* A plan above a limit is approved for the smaller amount
  (`capital_policy.py:245`), and `broadcast_plan` asks only whether it is approved
  (`broadcast.py:506`) and sends the whole plan, although the policy is to cap each
  (`capital_policy.py:3`).  This happens with every such plan, so no run is spent on it;
  `ApprovalsAreBounded` says what the approved amount is.

Two more places do the wrong thing every time, so that there is nothing to
model-check.  `10_validate.sh:23` sets `RED=1` in a block that is piped to `tee`,
so the failure is lost with the subshell.  `execution/discovery.py:262` inserts a
dict where the repository expects a plan, and the exception is swallowed.

### Fairness

Fairness is weak throughout, and only of what the program's own scheduling or
the passage of time gives.

- `Broadcast!FairSpec`: `Step(r)`.  A coroutine that waits for nothing is
  scheduled by the event loop, and one that waits for an answer is ended by the
  timeout of its client (15 s in `_rpc`).  The node, the operator, claim expiry
  and restarts have no fairness.
- `OpportunityLoop!FairSpec`: each worker's steps and `TickStart`.  The loop
  sleeps for its interval and ticks again, and its database calls return.
  `FinishedIsLearned` is checked without faults; a crash starts the loop again
  and the property is about the run that follows.
- `DiscoveryQueue!FairSpec`: each worker's steps, its claims included, and
  `ClaimRunsOut`.  The scanners' loops have no end but cancellation, and a claim
  runs out by the clock.  Discovery and expiry of rows are not fair.
- `ProviderRegistry!FairSpec`: callers call again, providers answer or their
  client times out, and a pause ends by the clock.  Which of the two an answer
  is, success or failure, is open.
- `FundCycle!FairSpec`: the sweep, and time.  The runner may be switched off and
  operators may stay away, so `WaitIsNoticed` does not depend on them.

## 4. Proofs

Proved for every value of the constants, from the named assumptions of the
modules alone (defaults are PAPER or SHADOW, markers such as `NoPlan` are not
members, fingerprints are those of plans, bounds are natural numbers, workers of
the queue and of the loop and plans of the allocator are finitely many).  One
promise does not survive every overlap, and its theorem names in a hypothesis,
in italics, what it is spared; all others hold of `Spec` as it is.

| Module | Invariants and action properties | Refinement |
|---|---|---|
| `ExecutionModeProofs` | `TypeOK`, `LiveRungEarned`, `AuditIsHistory` | `LadderPromise` |
| `BroadcastProofs` | `TypeOK`, `AtMostOneSendPerClaim`, `SendIsAuthorised` | `ClaimPromise` |
| `OpportunityLoopProofs` | `TypeOK`, `StatusExplained`, `NoLabelWithoutSample`, `EvidenceIsOwn`, `TrailIsComplete`, `RepeatsExplained`, `TallyMissesExplained`, `ConsumedIsTerminal` (*no two coroutines hold one row, only ticks evaluate*) | |
| `DiscoveryQueueProofs` | `TypeOK`, `EmissionsPerClaim`, `OutcomeTellsEmission`, `OutcomeStands` | `LeasePromise` |
| `ProviderRegistryProofs` | `TypeOK`, `OpenIsSkipped`, `OpenForItsPause`, `ProbationTrips` | |
| `CapitalPolicyProofs` | `TypeOK`, `DailyCapHolds` | |
| `FundCycleProofs` | `TypeOK`, `LedgerBacksState`, `EndedStaysEnded` | |
| `BackendUpgradeProofs` | `TypeOK`, `StoppedHasSnapshot`, `RollbackWorks`, `SomeoneDeployed`, `GreenWasServed` | |

Hardly any of these is inductive as it stands; what each needs besides is the
interesting part.

**LiveRungEarned.**  A request writes what it validated some
time ago, so the invariant must say what a validated request still knows.  The
row it read may have changed, but what it read was once in the row, and history
does not shrink: for a request in progress the mode it read is in `held` unless
the row was missing, and then it is OBSERVE.  `ValidTransition` puts the target
at most one rung above, so a broadcasting target has its lower neighbour either
read or below something already earned.  The arithmetic of a single rung is a
lemma of its own.  The refinement needs the invariant in the `WriteMode` step
only; every other step but `SeedMissing` stutters.

**AuditIsHistory.**  `AuditInv` says of every mode held that it is in the audit,
or about to be (the seeding loop or a request has written the row and not yet
the audit), or something has failed; and of every write in progress that what it
is about to audit is held.

**AtMostOneSendPerClaim** needs `SentIsClaimed`: what has been sent is claimed.
A send requires an unclaimed fingerprint, so its counter is zero before, and
expiry and restart reset counter and claim together.

**SendIsAuthorised** needs `Witnessed`: a request past the kill gate that has
not been denied has `sawOff`, and one past the mode gate has `sawLive`.  The
history fields only ever turn true while the request runs.

**ClaimPromise** maps `RevalidateHolds` and `RevalidateSends` to `Take` with 0
and 1, `ClaimExpires` and `Restart` to `Release`, everything else to a stutter.

**StatusExplained** and **NoLabelWithoutSample** are about rows, and rows are
overwritten by whole documents loaded some time ago.  So the invariant of
`OpportunityLoopProofs` says the same of every document a worker holds (`Sound`),
and that a worker past its first event works on a row that exists, because a
status that is left alone is "DISCOVERED" only on the write that says so.  Both
facts survive the steps of other workers because a step only grows the set of
rows and the sample counts (`Grows`).  A save then puts back an explained row
with a sampled label, whatever it overtook (`RowSaved`).
`InvariantFromAnyJournal` is the same result for a process that starts on a
journal and a log that an earlier one left, as `loop_overlaps` does.

**What overlaps cost.**  The other promises of the loop are about coroutines that
undo each other's work.  None of their theorems excludes an overlap or a fault; the
invariants say how much is left of the promise after each.

- `EvidenceAlwaysOwn`: `ScratchOwn` says that of a worker outside `shared` no other
  evaluation is under way, and that what it has simulated with is what the scratchpad
  holds.  An evaluation that starts beside another puts both into `shared`; one that
  starts alone begins with the reset, whatever the overlaps before it have left.
- `TrailAlwaysComplete`: on a row outside `overtaken` only one worker is between load
  and save, and what it holds is the document in the journal (`SavesFresh`).  There
  trails grow, and `TrailSoFar` says that the stages behind each evaluation are on
  them, also with several evaluations of the row at work.
- `RepeatsAlwaysExplained` is a count.  `Owed` is the number of samples of a row plus
  that of the workers that have it listed and not sampled.  `Accounted` bounds it by
  one more than the faults and encounters, and by no more than these while the row is
  `Relistable`, that is, while a coroutine could list it without meeting anybody.  A
  listing that meets nobody uses up the one; a label that is saved ends the
  relistable time; what begins it anew is a fault, or an evaluation that holds an old
  document and so has met the emission or was met by it.  `ListedOnce` keeps a worker
  from owing two samples for one row.
- `TallyAlwaysExplained`: `TallyBounded` bounds the tally, and the value that each
  worker in `touch_signal_metric` is about to write over it, from both sides.  From
  above, each worker there has a sample logged and not counted; from below, a value
  is behind by the faults, the races, and one for a sample being counted.  Samples
  are counted as a set of pairs, `Logged`, to which each sample adds one; `LogFits`
  keeps them below `MaxCount`, the bound of the model.
- `ConsumedAlwaysTerminal` has hypotheses: `HeldApart`, that no two coroutines are at
  work on one row or have it listed, and that only ticks evaluate.  The tick looks at
  the consumed flag once and `UnconsumedAtWork` carries that to its last write.
  Neither can be dropped: an emission may consume the row after the tick has looked,
  and the HTTP evaluation does not look.

`AloneKeepsAll` shows the exceptions to be what they say: where one worker does all
the work and nobody calls over HTTP, nothing is ever shared, overtaken, met or raced
for, and own evidence, complete trails, finished consumed rows and one sample per row
(and one more for each fault) hold without exception.  All of these proofs rest on
one lemma, `StepMoves`: whatever the action, a step rests, drops the work, begins
an evaluation, goes on, loads, saves, lists, takes, tallies or restarts, and each
of these is described by what it does to one worker and to what is shared.

**LeasePromise** needs `LeaseInv`: what a worker holds was stored first and
granted once (`HeldWasGranted`), so that whoever marks had a lease, and a claim
its batch took for overdue does not stand (`OverdueIsNotLive`), so that `Claim`
grants only what is open.  A claim that runs out is the lapse, a mark the
finish.

**EmissionsPerClaim** is a count.  `EmissionsCounted` says that the workers that
hold a candidate and have not emitted it, plus the emissions made, are together
at most the claims granted, and `Granting` that a claim is granted again only
after the one before has run out.  An emission moves one unit from the first
number to the second.  `HoldersCounted` is the same count of all holders, with
the outcome as one more: so while no claim has run out a candidate has one
holder or an outcome, and never both (`OneHolder`).  **OutcomeStands** follows,
for the mark of a second worker needs a second holder.  **OutcomeTellsEmission**
is `OutcomesTold`, which says the same of the holder before it marks.  The lemmas
about the cardinality of the holders when one worker comes or goes are why the
workers must be finitely many.

**ProbationTrips** needs `OnProbation`: while nothing of a provider has succeeded
since its breaker opened, the record that tripped it still would.  A streak only
grows without a success.  The rate is the hard part: a failure pushes the oldest
event out of a full ring, and `FailuresKept` shows that the number of failures
does not go down, by an injection from the failures before into those after.
**OpenIsSkipped** needs `ListedIsNotShut`, and **OpenForItsPause** follows step by
step: only an answer of a call in flight changes an open breaker.

**DailyCapHolds** speaks of a sum over a set of plans of any size.  A decision
compares the sum it has read with the cap some awaits later, so the invariant
must cover decisions on their way: `ReadingsCover` says that for any plans
approved on a day, together with any that have read that day's use and not
decided, the sum of all is below the cap of one of the approved or at most what
one of the readers has read.  The last to read has seen all the others, for a
plan is stored before it is evaluated (`StoredFirst`) and keeps its day and
amount.  A decision turns its plan from a reader into an approved one, and an
approval means that its use was below its cap.  The sum itself is a fold, whose
value takes induction over the set: `SubsetInduction` states that induction
without an operator parameter, for a set of subsets, and derives it from the
well-foundedness of strict inclusion; with it the sum is shown to be the number
of pairs of a plan and one of its units, less that of pairs of a plan below zero and
one of its units (`SumIsBalance`), and facts about sums become facts about
cardinalities.  Plans below zero make the sum of a set larger than that of a set that
contains it; so `ReadingsCover` adds to each set the day's plans below zero, and among
the sums that do, more plans make a larger sum (`TotalGrows`).  `CapBindsUnlessNegative`
is the case of a day without them.  `ApprovalsAreBounded` adds what an approval
is worth: a positive amount, within the plan and both limits.

**LedgerBacksState** and **EndedStaysEnded** are about updates decided on a
document that may have changed since.  `WorkSound` says of every update in
progress, and `SweepSound` of every cycle the sweep still has to mark, that it
would be sound whenever it is written: the legs it relied on were in the ledger
when it was decided, the ledger of a cycle only grows, and only a freeze was decided
on an ended cycle.

**BackendUpgrade.**  `SnapshotFirst` carries the snapshot from the command that
takes it to the one that stops OLD, `RollbackKnows` says what the rollback
script has established at each of its lines, `DeployedUntilStopped` where in the
scripts some container is there, and `GoodProbesSeen` turns the canary's
arithmetic (fewer failures than probes) into an answer it had.

Checked by TLC only: liveness, since fairness and ENABLED are outside the
prover's reach.  That is `EngageDrains`, `FinishedIsLearned`,
`CandidateSettled`, `LockedOutEnds` and `WaitIsNoticed`.

## 5. Not modelled

Section 1 and `PROJECT.json` say for each component why.  The bulk of the
repository is arithmetic over quotes and gas, RPC decoding, market heuristics,
statistics, reports, HTTP routes and user interface: it keeps no state whose
order of changes matters, and in the models its verdicts are free choices.
Within the modelled components: authentication of routes; indexes; wording and
contents of receipts, events and evidence; gas price and amounts; the
`debug_traceCall` fallback of the preflight, which changes no state; the audit
rows of the kill switch, which nothing reads back; the shadow-only pipeline of
the flash-loan scanner, which is a second instance with a scratchpad of its own
over the same journal and adds no interleaving the callers do not have; the row
of the queue that fails to parse after it was claimed; `rpc_failover.py`, a
second failover list independent of the registry; in the upgrade toolkit
preflight, builds, restore tests, the read-only validation report, and two
scripts at once.

Known hazards no model covers are listed without properties in `PROJECT.json`.
The most substantial: `campaign.py:168` checks for an active campaign and inserts
one in separate steps, and `_finalize` races with a check that switches shadow
mode on again; `approval_workflow.py:262` inserts the decision before its cycle;
`permanent_ledger.py:99` may freeze a cycle twice; `wallet_observer.py:244`
advances its cursor before it records what it passed.

## 6. Plan

Done: the modules of section 2, their runs, and the theorems of section 4.  What
would come next, in this order:

1. `Campaign`: start, check and finalize of a campaign with the shadow flag that
   `FundCycle` now leaves open, composed with the runner's tick.
2. `ApprovalWorkflow` in front of `FundCycle`: decisions and the cycles they
   open, duplicates and the crash in between.
3. `ExecutorLifecycle`: start and stop of the background loop, the shared event
   and the five-second wait; at most one live loop (`auto_executor.py:103`).
4. `OpportunityLoop` with a bounded emission batch ordered by `last_seen`: which
   rows starve (`ledger.py:241`).
5. The permanent ledger and the observers' cursors.
