------------------------------- MODULE FundCycle -------------------------------
(***************************************************************************)
(* services/execution: the fund tracker's cycles and the four parties that *)
(* move them.  The shadow runner drives the open shadow cycle one state    *)
(* per tick, the sweep marks cycles that wait too long as stuck, operators *)
(* advance, abort and review any cycle over HTTP.  Every one of them reads *)
(* the document, decides, and writes later with an update that does not    *)
(* ask whether the document is still what was read.                        *)
(*                                                                         *)
(* The switches shadow_enabled and hard_freeze and the deposit gates of    *)
(* the exchanges may turn at any time, so that what a call reads of them   *)
(* is a choice, and the read belongs to the action that uses it.           *)
(***************************************************************************)
EXTENDS Naturals, Sequences, FiniteSets

CONSTANTS
    Cycles,         \* ids of the cycles that may be created
    Shadow,         \* those that the shadow runner creates
    Operators,      \* HTTP requests of operators that may be in progress at once
    Runner,         \* the shadow runner's loop
    NoCycle,        \* a worker without a cycle in hand
    MaxConcurrent,  \* limits.max_concurrent_cycles
    MaxCalls,       \* bound: operator calls
    MaxFaults       \* bound: calls and sweeps that fail or are cancelled

ASSUME CycleAssumption ==
    /\ Shadow \subseteq Cycles
    /\ Runner \notin Operators
    /\ NoCycle \notin Cycles
    /\ MaxConcurrent \in Nat
    /\ MaxCalls \in Nat
    /\ MaxFaults \in Nat

STATE_FLOW ==
    << "CREATED", "PURCHASE_ORDER_CREATED", "PAYMENT_SENT", "WAITING_FOR_BDAG",
       "BDAG_RECEIVED", "TRANSFER_SENT", "WAITING_DEPOSIT", "DEPOSIT_CONFIRMED",
       "SELL_SUBMITTED", "SELL_FILLED", "WITHDRAWAL_SUBMITTED", "WITHDRAWAL_CONFIRMED",
       "COMPLETE" >>

TERMINAL == {"COMPLETE", "ABORTED"}

(* The states with a deadline, and what becomes of a cycle that misses it.   *)
STUCK_STATE ==
    [WAITING_FOR_BDAG     |-> "STUCK_WAITING_FOR_BDAG",
     WAITING_DEPOSIT      |-> "STUCK_WAITING_DEPOSIT",
     SELL_SUBMITTED       |-> "STUCK_SELL",
     WITHDRAWAL_SUBMITTED |-> "STUCK_WITHDRAWAL"]

SLA == DOMAIN STUCK_STATE

STUCK == {STUCK_STATE[s] : s \in SLA}

(* The states that confirm a leg of the ledger when they are entered; a leg  *)
(* goes by the name of its state.                                            *)
LEDGER_ON_ENTER ==
    {"PURCHASE_ORDER_CREATED", "PAYMENT_SENT", "BDAG_RECEIVED", "TRANSFER_SENT",
     "DEPOSIT_CONFIRMED", "SELL_FILLED", "WITHDRAWAL_SUBMITTED", "WITHDRAWAL_CONFIRMED"}

Flow == {STATE_FLOW[i] : i \in DOMAIN STATE_FLOW}

States == Flow \union STUCK \union {"ABORTED", "MANUAL_REVIEW"}

Pos(s) == CHOOSE i \in DOMAIN STATE_FLOW : STATE_FLOW[i] = s

Following(s) == STATE_FLOW[Pos(s) + 1]

Workers == Operators \union {Runner}

VARIABLES
    cycle,    \* cycle[c]: the document of cycle c
    overdue,  \* cycles whose entered_state_at is longer ago than a deadline
    worker,   \* worker[w]: the call in progress of worker w
    missed,   \* the sweep's candidates still to be marked, with the states it read
    calls,    \* operator calls so far
    faults    \* calls and sweeps dropped so far

vars == <<cycle, overdue, worker, missed, calls, faults>>

Absent == [state |-> "ABSENT", prev |-> "NONE", stuck |-> FALSE, legs |-> {}]

(* kind, from and to are the update that a call has decided on.              *)
Idle == [pc |-> "idle", cycle |-> NoCycle, kind |-> "none", from |-> "NONE", to |-> "NONE"]

Init ==
    /\ cycle = [c \in Cycles |-> Absent]
    /\ overdue = {}
    /\ worker = [w \in Workers |-> Idle]
    /\ missed = {}
    /\ calls = 0
    /\ faults = 0

Open(c) == cycle[c].state \notin TERMINAL \union {"ABSENT"}

(* The cycles that count against the limit of c's mode.                      *)
Peers(c) == {d \in Cycles : Open(d) /\ (d \in Shadow <=> c \in Shadow)}

Decided(w, c, kind, from, to) ==
    worker' = [worker EXCEPT ![w] = [Idle EXCEPT !.pc = "write", !.cycle = c,
                                                 !.kind = kind, !.from = from, !.to = to]]

(***************************************************************************)
(* The fund tracker's calls: what each reads and decides.                  *)
(***************************************************************************)

(* create_cycle, up to its last read; the insert comes later.  An id is made  *)
(* up by one call.                                                           *)
CreateChecks(w, c) ==
    /\ cycle[c].state = "ABSENT"
    /\ \A v \in Workers : worker[v].cycle # c
    /\ Cardinality(Peers(c)) < MaxConcurrent
    /\ Decided(w, c, "create", "NONE", "CREATED")

(* A cycle set aside goes back to its prev_state, or to CREATED.             *)
ResumeDecides(w, c) ==
    /\ cycle[c].state \in STUCK \union {"MANUAL_REVIEW"}
    /\ Decided(w, c, "resume", cycle[c].state,
               IF cycle[c].prev = "NONE" THEN "CREATED" ELSE cycle[c].prev)

StepDecides(w, c) ==
    /\ cycle[c].state \in Flow \ TERMINAL
    /\ Decided(w, c, "advance", cycle[c].state, Following(cycle[c].state))

(* Faulty variant: no look at the state.                                     *)
ReviewDecidesAnyway(w, c) ==
    /\ cycle[c].state # "ABSENT"
    /\ Decided(w, c, "hold", cycle[c].state, "MANUAL_REVIEW")

(* force_manual_review, which an operator asks for.                          *)
ReviewDecides(w, c) ==
    /\ Open(c)
    /\ Decided(w, c, "hold", cycle[c].state, "MANUAL_REVIEW")

(* Under a hard freeze advance holds the cycle before it looks at the state,  *)
(* be it set aside or even terminal.                                         *)
FreezeDecides(w, c) ==
    /\ cycle[c].state # "ABSENT"
    /\ Decided(w, c, "freeze", cycle[c].state, "MANUAL_REVIEW")

AdvanceDecides(w, c) == ResumeDecides(w, c) \/ StepDecides(w, c) \/ FreezeDecides(w, c)

AbortDecides(w, c) ==
    /\ Open(c)
    /\ Decided(w, c, "abort", cycle[c].state, "ABORTED")

(***************************************************************************)
(* The update, one document at a time: "advance" confirms the leg of the    *)
(* state it enters, "resume" keeps prev_state, "hold", "freeze" and        *)
(* "stuck" set the cycle aside.                                             *)
(***************************************************************************)

(* Faulty variant: an update confirms the leg of the state it leaves.        *)
UpdatedBehind(doc, kind, from, to) ==
    [doc EXCEPT !.state = to,
                !.prev  = IF kind \in {"resume", "create"} THEN @ ELSE from,
                !.stuck = kind \in {"hold", "freeze", "stuck"},
                !.legs  = IF kind = "advance" THEN @ \union ({from} \intersect LEDGER_ON_ENTER)
                                              ELSE @]

Updated(doc, kind, from, to) ==
    [doc EXCEPT !.state = to,
                !.prev  = IF kind \in {"resume", "create"} THEN @ ELSE from,
                !.stuck = kind \in {"hold", "freeze", "stuck"},
                !.legs  = IF kind = "advance" THEN @ \union ({to} \intersect LEDGER_ON_ENTER)
                                              ELSE @]

Write(w) ==
    LET c == worker[w].cycle
    IN  /\ worker[w].pc = "write"
        /\ cycle' = [cycle EXCEPT
               ![c] = Updated(@, worker[w].kind, worker[w].from, worker[w].to)]
        /\ overdue' = IF worker[w].kind \in {"advance", "resume", "create"}
                      THEN overdue \ {c} ELSE overdue
        /\ worker' = [worker EXCEPT ![w] = Idle]
        /\ UNCHANGED <<missed, calls, faults>>

(***************************************************************************)
(* Operators, over HTTP.  Any cycle will do, a shadow cycle too.            *)
(***************************************************************************)

OperatorCalls(o) ==
    /\ worker[o].pc = "idle"
    /\ calls < MaxCalls
    /\ calls' = calls + 1
    /\ \E c \in Cycles :
           \/ c \notin Shadow /\ CreateChecks(o, c)
           \/ AdvanceDecides(o, c)
           \/ AbortDecides(o, c)
           \/ ReviewDecides(o, c)
    /\ UNCHANGED <<cycle, overdue, missed, faults>>

(***************************************************************************)
(* The shadow runner's tick, with shadow_enabled and without a freeze.      *)
(***************************************************************************)

ShadowOpen == {c \in Shadow : Open(c)}

(* _maybe_open finds an opportunity.                                         *)
TickOpens(c) ==
    /\ worker[Runner].pc = "idle"
    /\ ShadowOpen = {}
    /\ c \in Shadow
    /\ CreateChecks(Runner, c)
    /\ UNCHANGED <<cycle, overdue, missed, calls, faults>>

(* A stuck cycle of whatever kind goes on at BDAG_RECEIVED as soon as a       *)
(* deposit gate is open.                                                     *)
TickRecovers(c) ==
    /\ worker[Runner].pc = "idle"
    /\ c \in ShadowOpen
    /\ cycle[c].state \in STUCK
    /\ Decided(Runner, c, "resume", cycle[c].state, "BDAG_RECEIVED")
    /\ UNCHANGED <<cycle, overdue, missed, calls, faults>>

(* Every other cycle that is not under review is handed to set_stuck, when no *)
(* venue takes deposits at the transfer leg, or to advance.                  *)
TickDrives(c) ==
    /\ worker[Runner].pc = "idle"
    /\ c \in ShadowOpen
    /\ cycle[c].state \in Flow
    /\ \/ cycle[c].state = "BDAG_RECEIVED"
          /\ worker' = [worker EXCEPT ![Runner].pc = "set_stuck", ![Runner].cycle = c]
       \/ worker' = [worker EXCEPT ![Runner].pc = "advance", ![Runner].cycle = c]
    /\ UNCHANGED <<cycle, overdue, missed, calls, faults>>

(* set_stuck reads the document again, and leaves an ended or stuck one.     *)
SetStuckDecides ==
    LET c == worker[Runner].cycle
    IN  /\ worker[Runner].pc = "set_stuck"
        /\ IF Open(c) /\ ~cycle[c].stuck
           THEN Decided(Runner, c, "stuck", cycle[c].state, "STUCK_WAITING_DEPOSIT")
           ELSE worker' = [worker EXCEPT ![Runner] = Idle]
        /\ UNCHANGED <<cycle, overdue, missed, calls, faults>>

(* advance reads it again too, and raises on an ended one.                   *)
TickAdvances ==
    LET c == worker[Runner].cycle
    IN  /\ worker[Runner].pc = "advance"
        /\ \/ AdvanceDecides(Runner, c)
           \/ cycle[c].state \in TERMINAL /\ worker' = [worker EXCEPT ![Runner] = Idle]
        /\ UNCHANGED <<cycle, overdue, missed, calls, faults>>

(***************************************************************************)
(* The sweep.                                                              *)
(***************************************************************************)

(* Faulty variant: the query asks for cycles that are marked already.        *)
CandidatesMarked == {c \in overdue : cycle[c].state \in SLA /\ cycle[c].stuck}

(* Faulty variant: the query asks for no state.                              *)
CandidatesAny == {c \in overdue : ~cycle[c].stuck}

(* The query and the deadlines of _detect_stuck.                             *)
Candidates == {c \in overdue : cycle[c].state \in SLA /\ ~cycle[c].stuck}

SweepReads ==
    /\ missed = {}
    /\ Candidates # {}
    /\ missed' = {<<c, cycle[c].state>> : c \in Candidates}
    /\ UNCHANGED <<cycle, overdue, worker, calls, faults>>

(* The next candidate is marked on the state that was read at the start.     *)
SweepMarks ==
    \E m \in missed :
        /\ missed' = missed \ {m}
        /\ cycle' = [cycle EXCEPT ![m[1]] = Updated(@, "stuck", m[2], STUCK_STATE[m[2]])]
        /\ UNCHANGED <<overdue, worker, calls, faults>>

(***************************************************************************)
(* Time and faults.                                                        *)
(***************************************************************************)

DeadlinePasses(c) ==
    /\ cycle[c].state \in SLA
    /\ c \notin overdue
    /\ overdue' = overdue \union {c}
    /\ UNCHANGED <<cycle, worker, missed, calls, faults>>

(* A call or a sweep fails, a loop is cancelled, the process restarts: what   *)
(* had been decided is not written.                                          *)
Dropped ==
    /\ faults < MaxFaults
    /\ faults' = faults + 1
    /\ \/ \E w \in Workers : /\ worker[w].pc # "idle"
                            /\ worker' = [worker EXCEPT ![w] = Idle]
                            /\ UNCHANGED missed
       \/ missed # {} /\ missed' = {} /\ UNCHANGED worker
    /\ UNCHANGED <<cycle, overdue, calls>>

Tick == \E c \in Cycles : TickOpens(c) \/ TickRecovers(c) \/ TickDrives(c)

Next ==
    \/ \E o \in Operators : OperatorCalls(o)
    \/ \E w \in Workers : Write(w)
    \/ Tick \/ SetStuckDecides \/ TickAdvances
    \/ SweepReads \/ SweepMarks
    \/ \E c \in Cycles : DeadlinePasses(c)
    \/ Dropped

Spec == Init /\ [][Next]_vars

(* The sweep loop goes on, database calls return and time passes.  The runner *)
(* may stay switched off, and operators may stay away.                       *)
FairSpec ==
    /\ Spec
    /\ WF_vars(SweepReads) /\ WF_vars(SweepMarks)
    /\ \A c \in Cycles : WF_vars(DeadlinePasses(c))

(***************************************************************************)
(* Properties.                                                             *)
(***************************************************************************)

Document == [state : States \union {"ABSENT"}, prev : States \union {"NONE"},
             stuck : BOOLEAN, legs : SUBSET LEDGER_ON_ENTER]

Call == [pc : {"idle", "write", "set_stuck", "advance"}, cycle : Cycles \union {NoCycle},
         kind : {"none", "create", "advance", "resume", "hold", "freeze", "stuck", "abort"},
         from : States \union {"NONE"}, to : States \union {"NONE"}]

(* Every variable has its type, and a call that is to write has its cycle and *)
(* the state to write.                                                       *)
TypeOK ==
    /\ cycle \in [Cycles -> Document]
    /\ overdue \subseteq Cycles
    /\ worker \in [Workers -> Call]
    /\ missed \subseteq Cycles \X SLA
    /\ calls \in 0 .. MaxCalls
    /\ faults \in 0 .. MaxFaults
    /\ \A w \in Workers :
           /\ worker[w].pc # "idle" => worker[w].cycle \in Cycles
           /\ worker[w].pc = "write" => worker[w].to \in States

(* The legs that a cycle in state s, or beyond it, has been through.          *)
Through(s) == {t \in LEDGER_ON_ENTER : Pos(t) <= Pos(s)}

(* A cycle is in no state whose leg, or whose earlier legs, the ledger does   *)
(* not confirm, whatever updates overtake each other: where the cycle says    *)
(* the funds are, the ledger says they have got to.  The one exception is the *)
(* receipt of a shadow cycle, which the runner may pass over when it recovers *)
(* a cycle that was stuck waiting for it.                                    *)
LedgerBacksState ==
    \A c \in Cycles : cycle[c].state \in Flow =>
        Through(cycle[c].state) \subseteq
            cycle[c].legs \union IF c \in Shadow THEN {"BDAG_RECEIVED"} ELSE {}

(* An ended cycle is only reopened by the hard freeze, or by the very update   *)
(* that the sweep or a call had decided on while it was open: no call that    *)
(* finds a cycle ended, and no one else, brings it back.                     *)
EndedStaysEnded ==
    [][\A c \in Cycles :
           cycle[c].state \in TERMINAL /\ cycle'[c].state # cycle[c].state =>
               \/ \E m \in missed : m[1] = c /\ cycle'[c].state = STUCK_STATE[m[2]]
               \/ \E w \in Workers :
                     /\ worker[w].pc = "write" /\ worker[w].cycle = c
                     /\ worker[w].to = cycle'[c].state
                     /\ worker[w].from \notin TERMINAL \/ worker[w].kind = "freeze"]_vars

(* No cycle waits for its BDAG, its deposit, its sale or its withdrawal for   *)
(* ever without being reported as stuck.                                     *)
WaitIsNoticed == \A c \in Cycles : []<>(cycle[c].state \notin SLA)

(* A cycle held for review can be resumed: fund_tracker.py recommends to      *)
(* "review the cycle ... then resume or abort manually".                     *)
HeldCanResume ==
    \A c \in Cycles : cycle[c].state = "MANUAL_REVIEW" => cycle[c].prev # "MANUAL_REVIEW"
=============================================================================
