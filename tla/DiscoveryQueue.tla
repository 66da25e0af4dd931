---------------------------- MODULE DiscoveryQueue ----------------------------
(***************************************************************************)
(* The Mongo-backed queue of discovery candidates and the scanner workers  *)
(* that share it.  One scanner runs per kind of opportunity, each with one *)
(* worker loop: discover, claim a batch, verify, emit, mark.  A claim is   *)
(* cooperative: it runs out after 60 s whether or not its worker is done,  *)
(* and marking a row does not ask who holds it.                            *)
(***************************************************************************)
EXTENDS Naturals, FiniteSets

CONSTANTS
    Workers,      \* the scanners' worker loops
    Candidates,   \* candidate ids that the sources may come up with
    NoWorker,     \* claimed_by is None
    NoCandidate,  \* a worker with no row in hand
    KindOf,       \* KindOf[x]: opportunity type of a candidate, or the one a worker verifies
    Guarded,      \* the workers whose tick survives a failed mark of a verdict
    BatchSize,    \* rows a worker claims in one batch
    MaxSlow,      \* bound: claims that run out while their worker is alive
    MaxFaults     \* bound: failed database calls, cancelled ticks and restarts

ASSUME QueueAssumption ==
    /\ IsFiniteSet(Workers)
    /\ NoWorker \notin Workers
    /\ NoCandidate \notin Candidates
    /\ Guarded \subseteq Workers
    /\ BatchSize \in Nat \ {0}
    /\ MaxSlow \in Nat
    /\ MaxFaults \in Nat

Outcomes == {"confirmed", "denied", "no_verifier", "error"}

NoOutcome == "none"

VARIABLES
    row,      \* row[c]: the document of candidate c
    expired,  \* rows whose expires_at has passed
    worker,   \* worker[w]: the tick in progress in worker w
    slow,     \* number of claims that ran out under a live worker
    faults,   \* number of faults so far
    emitted,  \* history: emitted[c] calls of EmissionBus.emit for c
    granted,  \* history: granted[c] claims of c
    lapsed    \* history: lapsed[c] claims that ran out before c had an outcome

vars == <<row, expired, worker, slow, faults, emitted, granted, lapsed>>

Absent == [stored |-> FALSE, outcome |-> NoOutcome, by |-> NoWorker, claim |-> "none"]

Fresh == [Absent EXCEPT !.stored = TRUE]

(* Between ticks.  overdue and dead are what the worker's "now", read once    *)
(* per batch, tells it: the claims that had run out and the rows that had     *)
(* expired.                                                                   *)
Idle == [pc |-> "idle", batch |-> {}, cur |-> NoCandidate, verdict |-> NoOutcome,
         overdue |-> {}, dead |-> {}]

Init ==
    /\ row = [c \in Candidates |-> Absent]
    /\ expired = {}
    /\ worker = [w \in Workers |-> Idle]
    /\ slow = 0
    /\ faults = 0
    /\ emitted = [c \in Candidates |-> 0]
    /\ granted = [c \in Candidates |-> 0]
    /\ lapsed = [c \in Candidates |-> 0]

history == <<emitted, granted, lapsed>>
world == <<expired, slow, faults>>

(* The candidates that worker w has claimed and not yet been through.        *)
Held(w) == worker[w].batch \union ({worker[w].cur} \ {NoCandidate})

(***************************************************************************)
(* The queue's calls, made by a worker's tick.                             *)
(***************************************************************************)

(* Faulty variant: $set, so that a row that is there starts afresh.          *)
DiscoverAnew(w, c) ==
    /\ worker[w].pc = "idle"
    /\ KindOf[w] = KindOf[c]
    /\ row' = [row EXCEPT ![c] = Fresh]
    /\ UNCHANGED <<world, worker, history>>

(* upsert_many: $setOnInsert, so a row that is there is left as it is.       *)
Discover(w, c) ==
    /\ worker[w].pc = "idle"
    /\ KindOf[w] = KindOf[c]
    /\ ~row[c].stored
    /\ row' = [row EXCEPT ![c] = Fresh]
    /\ UNCHANGED <<world, worker, history>>

(* claim_batch reads the clock, once for the whole batch.                    *)
StartBatch(w) ==
    /\ worker[w].pc = "idle"
    /\ worker' = [worker EXCEPT ![w] =
           [Idle EXCEPT !.pc = "claiming",
                        !.overdue = {c \in Candidates : row[c].claim = "lapsed"},
                        !.dead = expired]]
    /\ UNCHANGED <<row, world, history>>

(* Faulty variant: the filter takes claimed rows too.                        *)
EligibleClaimed(w, c) ==
    /\ row[c].stored
    /\ row[c].outcome = NoOutcome
    /\ c \notin worker[w].dead
    /\ c \notin worker[w].batch

(* Faulty variant: a claim that ran out is never taken over.                 *)
EligibleOnce(w, c) ==
    /\ row[c].stored
    /\ row[c].outcome = NoOutcome
    /\ c \notin worker[w].dead
    /\ row[c].claim = "none"

(* Faulty variant: the filter takes rows with an outcome too.                *)
EligibleSettled(w, c) ==
    /\ row[c].stored
    /\ c \notin worker[w].dead
    /\ row[c].claim = "none" \/ c \in worker[w].overdue

(* The filter of find_one_and_update, on the clock that w has read.          *)
Eligible(w, c) ==
    /\ row[c].stored
    /\ row[c].outcome = NoOutcome
    /\ c \notin worker[w].dead
    /\ row[c].claim = "none" \/ c \in worker[w].overdue

(* One find_one_and_update: the row is w's, whoever had it before.  Its lease *)
(* counts from the start of the batch.  Abstraction: the claims of a batch    *)
(* are made within that lease (32 updates in claim_ttl_s, 60 seconds), so     *)
(* that no clock read before a claim shows it over.                          *)
Claim(w, c) ==
    /\ worker[w].pc = "claiming"
    /\ Cardinality(worker[w].batch) < BatchSize
    /\ Eligible(w, c)
    /\ row' = [row EXCEPT ![c].by = w, ![c].claim = "live"]
    /\ worker' = [v \in Workers |->
           LET t == [worker[v] EXCEPT !.overdue = @ \ {c}]
           IN  IF v # w THEN t ELSE [t EXCEPT !.batch = @ \union {c}]]
    /\ granted' = [granted EXCEPT ![c] = @ + 1]
    /\ UNCHANGED <<world, emitted, lapsed>>

EndBatch(w) ==
    /\ worker[w].pc = "claiming"
    /\ \/ Cardinality(worker[w].batch) = BatchSize
       \/ \A c \in Candidates : ~Eligible(w, c)
    /\ worker' = [worker EXCEPT ![w].pc = "batch", ![w].overdue = {}, ![w].dead = {}]
    /\ UNCHANGED <<row, world, history>>

(***************************************************************************)
(* The tick's loop over its batch.                                         *)
(***************************************************************************)

(* Nobody verifies a row of another kind: it goes straight to its mark.      *)
Take(w, c) ==
    /\ worker[w].pc = "batch"
    /\ c \in worker[w].batch
    /\ worker' = [worker EXCEPT
           ![w].batch = @ \ {c}, ![w].cur = c,
           ![w].pc = IF KindOf[c] = KindOf[w] THEN "verify" ELSE "mark",
           ![w].verdict = IF KindOf[c] = KindOf[w] THEN NoOutcome ELSE "no_verifier"]
    /\ UNCHANGED <<row, world, history>>

(* Faulty variant: an exception of verify() leaves no verdict.               *)
VerifyUnset(w, verdict) ==
    /\ worker[w].pc = "verify"
    /\ verdict \in {"confirmed", "denied", "error"}
    /\ worker' = [worker EXCEPT
           ![w].pc = IF verdict = "confirmed" THEN "emit" ELSE "mark",
           ![w].verdict = IF verdict = "error" THEN NoOutcome ELSE verdict]
    /\ UNCHANGED <<row, world, history>>

(* Faulty variant: a verdict is emitted whether or not it confirms.          *)
VerifyEmitsAll(w, verdict) ==
    /\ worker[w].pc = "verify"
    /\ verdict \in {"confirmed", "denied", "error"}
    /\ worker' = [worker EXCEPT
           ![w].pc = IF verdict # "error" THEN "emit" ELSE "mark",
           ![w].verdict = verdict]
    /\ UNCHANGED <<row, world, history>>

(* verify() answers, or raises, which is marked as an error.                 *)
Verify(w, verdict) ==
    /\ worker[w].pc = "verify"
    /\ verdict \in {"confirmed", "denied", "error"}
    /\ worker' = [worker EXCEPT
           ![w].pc = IF verdict = "confirmed" THEN "emit" ELSE "mark",
           ![w].verdict = verdict]
    /\ UNCHANGED <<row, world, history>>

(* EmissionBus.emit never raises.                                            *)
Emit(w) ==
    /\ worker[w].pc = "emit"
    /\ emitted' = [emitted EXCEPT ![worker[w].cur] = @ + 1]
    /\ worker' = [worker EXCEPT ![w].pc = "mark"]
    /\ UNCHANGED <<row, world, granted, lapsed>>

(* mark_processed writes the outcome and releases the claim, whosever it is. *)
Mark(w) ==
    /\ worker[w].pc = "mark"
    /\ row' = [row EXCEPT ![worker[w].cur] = [Fresh EXCEPT !.outcome = worker[w].verdict]]
    /\ worker' = [worker EXCEPT ![w].pc = "batch", ![w].cur = NoCandidate,
                                ![w].verdict = NoOutcome]
    /\ UNCHANGED <<world, history>>

EndTick(w) ==
    /\ worker[w].pc = "batch"
    /\ worker[w].batch = {}
    /\ worker' = [worker EXCEPT ![w] = Idle]
    /\ UNCHANGED <<row, world, history>>

(***************************************************************************)
(* Time and faults.                                                        *)
(***************************************************************************)

(* A guarded tick goes on with its batch when the mark of a verdict fails,    *)
(* with the row left unmarked under a claim that must run out.                *)
MarkFails(w) ==
    /\ worker[w].pc = "mark"
    /\ w \in Guarded
    /\ worker[w].verdict \in {"confirmed", "denied"}
    /\ faults < MaxFaults
    /\ faults' = faults + 1
    /\ worker' = [worker EXCEPT ![w].pc = "batch", ![w].cur = NoCandidate,
                                ![w].verdict = NoOutcome]
    /\ UNCHANGED <<row, expired, slow, history>>

(* Any other failed call ends the tick, and so does stop(), which cancels the *)
(* task after 5 s: what the worker holds stays claimed.                       *)
Abandon(w) ==
    /\ worker[w].pc # "idle"
    /\ faults < MaxFaults
    /\ faults' = faults + 1
    /\ worker' = [worker EXCEPT ![w] = Idle]
    /\ UNCHANGED <<row, expired, slow, history>>

Restart ==
    /\ faults < MaxFaults
    /\ faults' = faults + 1
    /\ worker' = [w \in Workers |-> Idle]
    /\ UNCHANGED <<row, expired, slow, history>>

(* claimed_until passes.  The holder may be at work all the same.            *)
ClaimRunsOut(c) ==
    LET held == c \in Held(row[c].by)
    IN  /\ row[c].claim = "live"
        /\ held => slow < MaxSlow
        /\ slow' = IF held THEN slow + 1 ELSE slow
        /\ row' = [row EXCEPT ![c].claim = "lapsed"]
        /\ lapsed' = IF row[c].outcome = NoOutcome THEN [lapsed EXCEPT ![c] = @ + 1] ELSE lapsed
        /\ UNCHANGED <<expired, worker, faults, emitted, granted>>

(* expires_at passes; 15 minutes, far longer than a claim.  Nothing deletes   *)
(* the row.                                                                   *)
Expire(c) ==
    /\ row[c].stored
    /\ c \notin expired
    /\ expired' = expired \union {c}
    /\ UNCHANGED <<row, worker, slow, faults, history>>

Step(w) ==
    \/ StartBatch(w)
    \/ \E c \in Candidates : Claim(w, c) \/ Take(w, c)
    \/ EndBatch(w)
    \/ \E verdict \in Outcomes : Verify(w, verdict)
    \/ Emit(w)
    \/ Mark(w)
    \/ EndTick(w)

Next ==
    \/ \E w \in Workers : Step(w) \/ MarkFails(w) \/ Abandon(w)
    \/ \E w \in Workers, c \in Candidates : Discover(w, c)
    \/ \E c \in Candidates : ClaimRunsOut(c) \/ Expire(c)
    \/ Restart

Spec == Init /\ [][Next]_vars

(* Worker loops tick on, their calls return, and time passes for a claim.    *)
FairSpec ==
    /\ Spec
    /\ \A w \in Workers : WF_vars(Step(w))
    /\ \A c \in Candidates : WF_vars(ClaimRunsOut(c))

(***************************************************************************)
(* Properties.                                                             *)
(***************************************************************************)

RowState == [stored : BOOLEAN, outcome : Outcomes \union {NoOutcome},
             by : Workers \union {NoWorker}, claim : {"none", "live", "lapsed"}]

WorkerState ==
    [pc : {"idle", "claiming", "batch", "verify", "emit", "mark"},
     batch : SUBSET Candidates, cur : Candidates \union {NoCandidate},
     verdict : Outcomes \union {NoOutcome},
     overdue : SUBSET Candidates, dead : SUBSET Candidates]

InHand == {"verify", "emit", "mark"}

(* Every variable has its type; a worker past Take has a row in hand, and one *)
(* about to emit or mark it has a verdict.                                    *)
TypeOK ==
    /\ row \in [Candidates -> RowState]
    /\ expired \subseteq Candidates
    /\ worker \in [Workers -> WorkerState]
    /\ slow \in Nat
    /\ faults \in Nat
    /\ emitted \in [Candidates -> Nat]
    /\ granted \in [Candidates -> Nat]
    /\ lapsed \in [Candidates -> Nat]
    /\ \A w \in Workers : worker[w].pc \in InHand => worker[w].cur \in Candidates
    /\ \A w \in Workers : worker[w].pc \in {"emit", "mark"} => worker[w].verdict \in Outcomes

(* A candidate is put on the emission bus at most once, and once more for     *)
(* each claim of it that ran out: neither two scanners that share the queue,  *)
(* nor a crash after the emission, nor a failed mark, emits it again.         *)
EmissionsPerClaim == \A c \in Candidates : emitted[c] <= 1 + lapsed[c]

(* As long as no claim of it ran out, what the row says is what happened: it  *)
(* is confirmed if it has been emitted, and denied if not.                    *)
OutcomeTellsEmission ==
    \A c \in Candidates :
        row[c].outcome # NoOutcome /\ lapsed[c] = 0
            => emitted[c] = IF row[c].outcome = "confirmed" THEN 1 ELSE 0

(* The outcome of a candidate, once written, is only ever replaced after a    *)
(* claim of it ran out; discovering the candidate again does not reset it.    *)
OutcomeStands ==
    [][\A c \in Candidates :
           row[c].outcome # NoOutcome /\ row'[c].outcome # row[c].outcome => lapsed[c] > 0]_vars

(* A stored candidate gets an outcome or expires, although workers are        *)
(* cancelled, calls fail and the process restarts with claims in the queue.   *)
CandidateSettled ==
    \A c \in Candidates : row[c].stored ~> row[c].outcome # NoOutcome \/ c \in expired

StageOf(c) ==
    IF row[c].outcome # NoOutcome THEN "done"
    ELSE IF row[c].claim = "live" THEN "leased" ELSE "open"

(* The queue implements work leases.                                         *)
Lease == INSTANCE WorkLease WITH Items <- Candidates,
                                 stage <- [c \in Candidates |-> StageOf(c)],
                                 granted <- granted,
                                 lapsed <- lapsed
LeasePromise == Lease!Spec
=============================================================================
