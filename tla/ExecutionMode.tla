---------------------------- MODULE ExecutionMode ----------------------------
(* The per-strategy execution mode registry, arbicore/execution/mode.py.     *)
(*                                                                            *)
(* One row per strategy in execution_mode_state, and one audit row per        *)
(* transition in execution_mode_audit.  ExecutionModeRepo.transition reads    *)
(* the row, validates, writes the row and inserts the audit row with an       *)
(* await at each database call, and no compare-and-set: the requests of two   *)
(* operators interleave at each of those awaits.  The server seeds missing    *)
(* rows when it starts (ensure_defaults, called from the start-up handler     *)
(* that swallows its errors) and serves requests afterwards.                  *)
EXTENDS Modes, Sequences

CONSTANTS
    Strategies,     \* TRADING_STRATEGIES
    Operators,      \* requests being served at the same time
    DefaultMode,    \* default_mode_map()
    NoStrategy,     \* the strategy of no request
    MaxAudit,       \* bound: audit rows written per strategy
    MaxFaults       \* bound: crashes and failed database calls

Missing == -1       \* no row for the strategy, or None as an audit row's from_mode

ASSUME DefaultsAreNotLive == DefaultMode \in [Strategies -> {PAPER, SHADOW}]
ASSUME NoStrategyIsNone == NoStrategy \notin Strategies
ASSUME BoundsAreNat == MaxAudit \in Nat /\ MaxFaults \in Nat

VARIABLES
    mode,       \* execution_mode_state: strategy -> mode or Missing
    audit,      \* execution_mode_audit: strategy -> sequence of rows
    op,         \* operator -> the transition request it has in progress
    boot,       \* the start-up seeding loop
    faults,     \* crashes and failed calls so far (bounded by MaxFaults)
    held        \* history: strategy -> every mode its row has ever held

vars == <<mode, audit, op, boot, faults, held>>

Idle == [pc |-> "idle", strategy |-> NoStrategy, from |-> OBSERVE, to |-> OBSERVE]
Row(from, to) == [from_mode |-> from, to_mode |-> to]

(* The start-up loop about to look at the strategies of todo.                *)
Seeding(todo) == [pc |-> "seed", todo |-> todo, cur |-> NoStrategy]
Serving == [pc |-> "serving", todo |-> {}, cur |-> NoStrategy]

Init ==
    /\ mode = [s \in Strategies |-> Missing]
    /\ audit = [s \in Strategies |-> <<>>]
    /\ op = [o \in Operators |-> Idle]
    /\ boot = Seeding(Strategies)
    /\ faults = 0
    /\ held = [s \in Strategies |-> {}]

(***************************************************************************)
(* Start-up: ensure_defaults.                                              *)
(***************************************************************************)

(* A write of the state row, by the seeding loop or by a request.            *)
SetMode(s, m) ==
    /\ mode' = [mode EXCEPT ![s] = m]
    /\ held' = [held EXCEPT ![s] = @ \union {m}]

SeedKeepsExisting(s) ==
    /\ boot.pc = "seed" /\ s \in boot.todo
    /\ mode[s] # Missing
    /\ boot' = Seeding(boot.todo \ {s})
    /\ UNCHANGED <<mode, audit, op, faults, held>>

SeedMissing(s) ==
    /\ boot.pc = "seed" /\ s \in boot.todo
    /\ mode[s] = Missing
    /\ SetMode(s, DefaultMode[s])
    /\ boot' = [boot EXCEPT !.pc = "audit", !.cur = s]
    /\ UNCHANGED <<audit, op, faults>>

SeedAudit ==
    /\ boot.pc = "audit"
    /\ audit' = [audit EXCEPT ![boot.cur] = Append(@, Row(Missing, DefaultMode[boot.cur]))]
    /\ boot' = Seeding(boot.todo \ {boot.cur})
    /\ UNCHANGED <<mode, op, faults, held>>

StartServing ==
    /\ boot.pc = "seed" /\ boot.todo = {}
    /\ boot' = Serving
    /\ UNCHANGED <<mode, audit, op, faults, held>>

(* A database error while seeding is logged by the start-up handler, and     *)
(* the server goes on to serve with the rows it has.                         *)
SeedFails ==
    /\ boot.pc \in {"seed", "audit"}
    /\ faults < MaxFaults
    /\ boot' = Serving
    /\ faults' = faults + 1
    /\ UNCHANGED <<mode, audit, op, held>>

(***************************************************************************)
(* transition(strategy, to_mode, reason, actor).                           *)
(***************************************************************************)

(* Faulty variant: a missing row is not defaulted.                           *)
CurrentModeNoDefault(s) == mode[s]

(* The mode a request takes the strategy to be in: a missing row is OBSERVE. *)
CurrentMode(s) == IF mode[s] = Missing THEN OBSERVE ELSE mode[s]

(* get, then validate_transition.  An unknown strategy or mode, and an        *)
(* invalid transition, raise before anything is written: they leave no step. *)
ReadMode(o, s, to) ==
    /\ boot.pc = "serving"
    /\ op[o].pc = "idle"
    /\ Len(audit[s]) < MaxAudit
    /\ ValidTransition(CurrentMode(s), to)
    /\ op' = [op EXCEPT ![o] = [pc |-> "validated", strategy |-> s,
                                from |-> CurrentMode(s), to |-> to]]
    /\ UNCHANGED <<mode, audit, boot, faults, held>>

(* Faulty variant: the audit row is forgotten.                               *)
WriteModeUnaudited(o) ==
    /\ op[o].pc = "validated"
    /\ SetMode(op[o].strategy, op[o].to)
    /\ op' = [op EXCEPT ![o] = Idle]
    /\ UNCHANGED <<audit, boot, faults>>

(* update_one with $set: whatever the row holds by now is overwritten.       *)
WriteMode(o) ==
    /\ op[o].pc = "validated"
    /\ SetMode(op[o].strategy, op[o].to)
    /\ op' = [op EXCEPT ![o].pc = "written"]
    /\ UNCHANGED <<audit, boot, faults>>

(* insert_one into the audit collection, with the from_mode read at first.   *)
AuditMode(o) ==
    /\ op[o].pc = "written"
    /\ audit' = [audit EXCEPT ![op[o].strategy] = Append(@, Row(op[o].from, op[o].to))]
    /\ op' = [op EXCEPT ![o] = Idle]
    /\ UNCHANGED <<mode, boot, faults, held>>

(* The pending database call of a request raises: the request answers 500.   *)
RequestFails(o) ==
    /\ op[o].pc \in {"validated", "written"}
    /\ faults < MaxFaults
    /\ op' = [op EXCEPT ![o] = Idle]
    /\ faults' = faults + 1
    /\ UNCHANGED <<mode, audit, boot, held>>

(* The process dies and is started again; the database keeps its rows.       *)
Crash ==
    /\ faults < MaxFaults
    /\ op' = [o \in Operators |-> Idle]
    /\ boot' = Seeding(Strategies)
    /\ faults' = faults + 1
    /\ UNCHANGED <<mode, audit, held>>

Transition(o) ==
    \/ \E s \in Strategies, to \in MODES : ReadMode(o, s, to)
    \/ WriteMode(o)
    \/ AuditMode(o)
    \/ RequestFails(o)

Startup ==
    \/ \E s \in Strategies : SeedKeepsExisting(s) \/ SeedMissing(s)
    \/ SeedAudit
    \/ StartServing
    \/ SeedFails

Next == Startup \/ Crash \/ \E o \in Operators : Transition(o)

Spec == Init /\ [][Next]_vars

(***************************************************************************)
(* Properties.                                                             *)
(***************************************************************************)

OpState == [pc : {"idle", "validated", "written"},
            strategy : Strategies \union {NoStrategy}, from : MODES, to : MODES]

BootState == [pc : {"seed", "audit", "serving"}, todo : SUBSET Strategies,
              cur : Strategies \union {NoStrategy}]

(* Every variable has its type, and a request or a seeding step that is in    *)
(* progress names a strategy.                                                 *)
TypeOK ==
    /\ mode \in [Strategies -> MODES \union {Missing}]
    /\ audit \in [Strategies -> Seq([from_mode : MODES \union {Missing}, to_mode : MODES])]
    /\ op \in [Operators -> OpState]
    /\ boot \in BootState
    /\ faults \in Nat
    /\ held \in [Strategies -> SUBSET MODES]
    /\ \A o \in Operators : op[o].pc # "idle" => op[o].strategy \in Strategies
    /\ boot.pc = "audit" => boot.cur \in Strategies

(* No strategy is ever on a rung that may broadcast without having stood on   *)
(* the rung below it: transition() keeps this although two requests can       *)
(* validate against the same row, a request can fail half way and the         *)
(* process can crash between the state write and the audit row.               *)
LiveRungEarned ==
    \A s \in Strategies : \A m \in held[s] : IsBroadcastAllowed(m) => (m - 1) \in held[s]

(* The registry implements the abstract promise of the ladder.               *)
Ladder == INSTANCE PromotionLadder WITH Strategies <- Strategies, held <- held
LadderPromise == Ladder!Spec

Audited(s) == {audit[s][i].to_mode : i \in DOMAIN audit[s]}

(* The audit trail is the history of the modes, also when transitions race:   *)
(* it never claims a mode that was not held, and, unless something failed,    *)
(* it misses none once the writes in progress are through.                    *)
AuditIsHistory ==
    \A s \in Strategies :
        /\ Audited(s) \subseteq held[s]
        /\ (/\ boot.pc = "serving" /\ faults = 0
            /\ \A o \in Operators : op[o].pc = "written" => op[o].strategy # s)
           => held[s] \subseteq Audited(s)
=============================================================================
