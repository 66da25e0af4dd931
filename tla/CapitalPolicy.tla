---------------------------- MODULE CapitalPolicy ----------------------------
(***************************************************************************)
(* arbicore/execution/capital_policy.py: the allocator that a broadcast    *)
(* asks whether a plan may be sent, for one strategy.  A plan is stored    *)
(* when it is built; each evaluation then reads, with an await before each *)
(* read, the strategy's policy, the notional of today's plans and the loss *)
(* of today's plans.  Meanwhile other plans are built and evaluated, the   *)
(* operator changes the policy, and midnight passes.                       *)
(*                                                                         *)
(* Amounts are small integers: the limits of a policy are checked for      *)
(* their sign when they are patched, what a plan borrows is not, by the    *)
(* route, the planner or the allocator.  The pool and the wallet limit     *)
(* come from outside and are one choice of what they leave; so are the     *)
(* floor on the profit and the state of the loss ledger.                   *)
(***************************************************************************)
EXTENDS Integers, FiniteSetsExt

CONSTANTS
    Plans,        \* ids of the plans that may be built
    Amounts,      \* borrow_amount_usd of a plan
    Rooms,        \* what pool and wallet may leave
    PerPlan,      \* values of max_per_plan_usd
    Daily,        \* values of daily_notional_usd
    DefaultPer,   \* DEFAULT_POLICY["max_per_plan_usd"]
    DefaultDaily, \* DEFAULT_POLICY["daily_notional_usd"]
    MaxDay,       \* bound: midnights
    MaxUpdates    \* bound: changes of the policy

ASSUME AmountAssumption ==
    /\ Amounts \subseteq Int
    /\ Rooms \union PerPlan \union Daily \union {DefaultPer, DefaultDaily} \subseteq Nat
    /\ MaxDay \in Nat
    /\ MaxUpdates \in Nat
ASSUME PlansAreFinite == IsFiniteSet(Plans)

VARIABLES
    policy,   \* the strategy's row of capital_policy, or NoPolicy
    plan,     \* plan[p]: the stored plan, with the day of its created_at
    call,     \* call[p]: the evaluation of p in progress
    verdict,  \* verdict[p]: the last AllocationDecision for p
    today,    \* the date
    updates   \* changes of the policy so far

vars == <<policy, plan, call, verdict, today, updates>>

NoPolicy == [per |-> 0, daily |-> 0, stored |-> FALSE]

DEFAULT_POLICY == [per |-> DefaultPer, daily |-> DefaultDaily, stored |-> TRUE]

Unbuilt == [stored |-> FALSE, usd |-> 0, day |-> 0]

NoCall == [pc |-> "idle", per |-> 0, daily |-> 0, used |-> 0, day |-> 0, blind |-> FALSE]

(* blind tells that the read of today's use failed; it is no field of the     *)
(* program's, and only the properties look at it.  Of a denial only usd is    *)
(* kept.                                                                     *)
NoVerdict == [approved |-> FALSE, usd |-> 0, per |-> 0, daily |-> 0, day |-> 0, blind |-> FALSE]

Init ==
    /\ policy \in {NoPolicy, DEFAULT_POLICY}
    /\ plan = [p \in Plans |-> Unbuilt]
    /\ call = [p \in Plans |-> NoCall]
    /\ verdict = [p \in Plans |-> NoVerdict]
    /\ today = 0
    /\ updates = 0

(***************************************************************************)
(* The policy.                                                             *)
(***************************************************************************)

(* ensure_defaults never overwrites a row.                                   *)
Seed ==
    /\ ~policy.stored
    /\ policy' = DEFAULT_POLICY
    /\ UNCHANGED <<plan, call, verdict, today, updates>>

(* update patches some of the fields of the row, or makes a row of them.     *)
Update ==
    /\ updates < MaxUpdates
    /\ updates' = updates + 1
    /\ \/ \E x \in PerPlan : policy' = [policy EXCEPT !.per = x, !.stored = TRUE]
       \/ \E x \in Daily : policy' = [policy EXCEPT !.daily = x, !.stored = TRUE]
    /\ UNCHANGED <<plan, call, verdict, today>>

(* policy.get(field) or default: zero and a missing field mean the default.  *)
Effective(x, default) == IF x = 0 THEN default ELSE x

(***************************************************************************)
(* Plans.                                                                  *)
(***************************************************************************)

(* POST plans/build: the plan is dated, quoted, and stored at last, with the  *)
(* amount of the request as it is.                                           *)
Build(p) ==
    /\ ~plan[p].stored
    /\ \E usd \in Amounts, d \in {today} \union ({today - 1} \intersect Nat) :
           plan' = [plan EXCEPT ![p] = [stored |-> TRUE, usd |-> usd, day |-> d]]
    /\ UNCHANGED <<policy, call, verdict, today, updates>>

(***************************************************************************)
(* evaluate, with the plan's own amount as proposed_usd.                    *)
(***************************************************************************)

Answered(p, approved, usd) ==
    /\ verdict' = [verdict EXCEPT ![p] =
           IF approved
           THEN [approved |-> TRUE, usd |-> usd, per |-> call[p].per,
                 daily |-> call[p].daily, day |-> call[p].day, blind |-> call[p].blind]
           ELSE [NoVerdict EXCEPT !.usd = usd]]
    /\ call' = [call EXCEPT ![p] = NoCall]

ReadPolicy(p) ==
    /\ plan[p].stored
    /\ call[p].pc = "idle"
    /\ IF policy.stored
       THEN /\ call' = [call EXCEPT ![p] =
                   [NoCall EXCEPT !.pc = "used",
                                  !.per = Effective(policy.per, DefaultPer),
                                  !.daily = Effective(policy.daily, DefaultDaily)]]
            /\ UNCHANGED verdict
       ELSE Answered(p, FALSE, 0)
    /\ UNCHANGED <<policy, plan, today, updates>>

(* Faulty variant: the plan under evaluation is left out of the sum.         *)
CountedOthers(p) == {q \in Plans \ {p} : plan[q].stored /\ plan[q].day = today}

(* The plans stored so far that were created today.                          *)
Counted(p) == {q \in Plans : plan[q].stored /\ plan[q].day = today}

(* What the plans in S borrow together, by what they are stored with.        *)
Notional == [q \in Plans |-> plan[q].usd]
Total(S) == SumFunctionOnSet(Notional, S)

(* _daily_used_usd; a read that fails counts as no use.                      *)
ReadUsed(p) ==
    /\ call[p].pc = "used"
    /\ \E blind \in BOOLEAN :
           call' = [call EXCEPT ![p].pc = "loss", ![p].day = today, ![p].blind = blind,
                                ![p].used = IF blind THEN 0 ELSE Total(Counted(p))]
    /\ UNCHANGED <<policy, plan, verdict, today, updates>>

Remaining(p) == IF call[p].used < call[p].daily THEN call[p].daily - call[p].used ELSE 0

(* The smallest limit wins; room is what pool and wallet leave.              *)
Allowed(p, room) == Min({plan[p].usd, room, call[p].per, Remaining(p)})

(* Faulty variant: nothing is enough.                                        *)
GrantedAtZero(usd) == usd >= 0

Granted(usd) == usd > 0

(* After the limits come the floor on the profit, which keeps approved_usd,  *)
(* and the stop-loss, which clears it: it is reached, or cannot be read.     *)
Decide(p) ==
    /\ call[p].pc = "loss"
    /\ \E room \in Rooms :
           \/ Answered(p, Granted(Allowed(p, room)), Allowed(p, room))
           \/ Answered(p, FALSE, Allowed(p, room))
           \/ Answered(p, FALSE, 0)
    /\ UNCHANGED <<policy, plan, today, updates>>

(* The request is cancelled or the process stops; only an answer counts.     *)
Lost(p) ==
    /\ call[p].pc # "idle"
    /\ call' = [call EXCEPT ![p] = NoCall]
    /\ UNCHANGED <<policy, plan, verdict, today, updates>>

Midnight ==
    /\ today < MaxDay
    /\ today' = today + 1
    /\ UNCHANGED <<policy, plan, call, verdict, updates>>

Next ==
    \/ Seed \/ Update \/ Midnight
    \/ \E p \in Plans : Build(p) \/ ReadPolicy(p) \/ ReadUsed(p) \/ Decide(p) \/ Lost(p)

Spec == Init /\ [][Next]_vars

(***************************************************************************)
(* Properties.                                                             *)
(***************************************************************************)

(* Every variable has its type: a plan, the sum of a day and the amount of a  *)
(* denial may be negative, the amount that is approved is positive, whatever  *)
(* negative plans have made of the day's use.                                *)
TypeOK ==
    /\ policy \in [per : Nat, daily : Nat, stored : BOOLEAN]
    /\ plan \in [Plans -> [stored : BOOLEAN, usd : Int, day : 0 .. MaxDay]]
    /\ call \in [Plans -> [pc : {"idle", "used", "loss"}, per : Nat, daily : Nat,
                           used : Int, day : 0 .. MaxDay, blind : BOOLEAN]]
    /\ verdict \in [Plans -> [approved : BOOLEAN, usd : Int, per : Nat, daily : Nat,
                              day : 0 .. MaxDay, blind : BOOLEAN]]
    /\ \A p \in Plans : verdict[p].approved => verdict[p].usd > 0
    /\ today \in 0 .. MaxDay
    /\ updates \in 0 .. MaxUpdates

(* The plans of day d that were approved on day d by a decision that could    *)
(* read the day's use.                                                       *)
ApprovedOn(d) ==
    {p \in Plans : verdict[p].approved /\ ~verdict[p].blind
                   /\ verdict[p].day = d /\ plan[p].day = d}

(* The plans of day d stored with a negative amount.                         *)
NegativeOn(d) == {p \in Plans : plan[p].stored /\ plan[p].day = d /\ plan[p].usd < 0}

(* However the evaluations interleave with one another and with changes of    *)
(* the policy, the plans of a day that are approved on that day exceed the    *)
(* daily notional that one of those decisions went by at most by what plans   *)
(* with negative amounts have taken off the day's use, and without such plans *)
(* stay below it.  It holds because a plan is stored before it is evaluated   *)
(* and so is part of the sum it is checked against, and of every later one.   *)
DailyCapHolds ==
    \A d \in 0 .. MaxDay : ApprovedOn(d) # {} =>
        \E p \in ApprovedOn(d) : Total(ApprovedOn(d) \union NegativeOn(d)) < verdict[p].daily
=============================================================================
