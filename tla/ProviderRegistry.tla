--------------------------- MODULE ProviderRegistry ---------------------------
(***************************************************************************)
(* The registry of RPC and venue providers: calls that fail over from one   *)
(* provider to the next, and a circuit breaker per provider that trips on   *)
(* failures and lets the provider back in after a pause.  Calls run         *)
(* concurrently; each works on the list of candidates it made when it       *)
(* started.                                                                 *)
(***************************************************************************)
EXTENDS Integers, Sequences, FiniteSets

CONSTANTS
    Providers,    \* providers of one kind and chain
    Callers,      \* coroutines that call the registry
    NoProvider,   \* a caller with no attempt in flight
    Threshold,    \* consecutive failures that trip a breaker
    Window,       \* events in the failure rate window, half of which trip it
    MaxAttempts   \* attempts of one call

ASSUME RegistryAssumption ==
    /\ NoProvider \notin Providers
    /\ Threshold \in Nat \ {0}
    /\ Window \in Nat \ {0}
    /\ MaxAttempts \in Nat \ {0}

VARIABLES
    status,    \* status[p]: HEALTHY, DEGRADED or TRIPPED
    streak,    \* streak[p]: consecutive failures, counted up to Threshold
    events,    \* events[p]: the last outcomes of p, TRUE for a success
    due,       \* due[p]: circuit_open_until of p has passed
    call,      \* call[k]: the call in progress of caller k
    lateOk,    \* history: providers with a success since their breaker last
               \* opened, and those whose breaker has never opened
    shut       \* history: shut[k] providers whose breaker has been open, and not
               \* due, for as long as the call of k has run

vars == <<status, streak, events, due, call, lateOk, shut>>

Idle == [pc |-> "idle", left |-> {}, cur |-> NoProvider, attempts |-> 0]

Init ==
    /\ status = [p \in Providers |-> "HEALTHY"]
    /\ streak = [p \in Providers |-> 0]
    /\ events = [p \in Providers |-> <<>>]
    /\ due = [p \in Providers |-> FALSE]
    /\ call = [k \in Callers |-> Idle]
    /\ lateOk = Providers
    /\ shut = [k \in Callers |-> {}]

Open(p) == status[p] = "TRIPPED" /\ ~due[p]

(* Faulty variant: one event too many stays in the ring.                     *)
RingOverfull(s) == IF Len(s) > Window + 1 THEN Tail(s) ELSE s

(* The event ring holds Window events.                                       *)
Ring(s) == IF Len(s) > Window THEN Tail(s) ELSE s

Failures(s) == Cardinality({i \in DOMAIN s : ~s[i]})

ShouldTrip(n, s) ==
    \/ n >= Threshold
    \/ Len(s) >= Window /\ 2 * Failures(s) >= Len(s)

(* Faulty variant: tripped providers are listed like the others.             *)
ListAll(k) ==
    LET back == {p \in Providers : status[p] = "TRIPPED" /\ due[p]}
    IN  /\ call[k].pc = "idle"
        /\ status' = [p \in Providers |-> IF p \in back THEN "DEGRADED" ELSE status[p]]
        /\ due' = [p \in Providers |-> due[p] /\ p \notin back]
        /\ call' = [call EXCEPT ![k] =
               [Idle EXCEPT !.pc = "next", !.left = Providers]]
        /\ shut' = [shut EXCEPT ![k] = {p \in Providers : Open(p)}]
        /\ UNCHANGED <<streak, events, lateOk>>

(* Faulty variant: a provider let back in starts with a clean record.        *)
ListForgiving(k) ==
    LET back == {p \in Providers : status[p] = "TRIPPED" /\ due[p]}
    IN  /\ call[k].pc = "idle"
        /\ status' = [p \in Providers |-> IF p \in back THEN "DEGRADED" ELSE status[p]]
        /\ due' = [p \in Providers |-> due[p] /\ p \notin back]
        /\ streak' = [p \in Providers |-> IF p \in back THEN 0 ELSE streak[p]]
        /\ events' = [p \in Providers |-> IF p \in back THEN <<>> ELSE events[p]]
        /\ call' = [call EXCEPT ![k] =
               [Idle EXCEPT !.pc = "next",
                            !.left = {p \in Providers : ~Open(p)}]]
        /\ shut' = [shut EXCEPT ![k] = {p \in Providers : Open(p)}]
        /\ UNCHANGED lateOk

(* Faulty variant: the list leaves tripped providers out for good.           *)
ListNeverBack(k) ==
    /\ call[k].pc = "idle"
    /\ call' = [call EXCEPT ![k] =
           [Idle EXCEPT !.pc = "next",
                        !.left = {p \in Providers : status[p] # "TRIPPED"}]]
    /\ shut' = [shut EXCEPT ![k] = {p \in Providers : Open(p)}]
    /\ UNCHANGED <<status, streak, events, due, lateOk>>

(* Reading the candidates lets every tripped provider back in whose pause is  *)
(* over, and leaves out the others.  The order by score is left open.         *)
List(k) ==
    LET back == {p \in Providers : status[p] = "TRIPPED" /\ due[p]}
    IN  /\ call[k].pc = "idle"
        /\ status' = [p \in Providers |-> IF p \in back THEN "DEGRADED" ELSE status[p]]
        /\ due' = [p \in Providers |-> due[p] /\ p \notin back]
        /\ call' = [call EXCEPT ![k] =
               [Idle EXCEPT !.pc = "next",
                            !.left = {p \in Providers : ~Open(p)}]]
        /\ shut' = [shut EXCEPT ![k] = {p \in Providers : Open(p)}]
        /\ UNCHANGED <<streak, events, lateOk>>

(* The next candidate, whatever has become of it since the list was made.    *)
Attempt(k, p) ==
    /\ call[k].pc = "next"
    /\ call[k].attempts < MaxAttempts
    /\ p \in call[k].left
    /\ call' = [call EXCEPT ![k].pc = "flight", ![k].cur = p,
                            ![k].left = @ \ {p}, ![k].attempts = @ + 1]
    /\ UNCHANGED <<status, streak, events, due, lateOk, shut>>

(* ProviderError: no candidates, or none that answered.                      *)
Exhausted(k) ==
    /\ call[k].pc = "next"
    /\ call[k].left = {} \/ call[k].attempts >= MaxAttempts
    /\ call' = [call EXCEPT ![k] = Idle]
    /\ shut' = [shut EXCEPT ![k] = {}]
    /\ UNCHANGED <<status, streak, events, due, lateOk>>

(* _record_event(ok): a degraded provider is healthy again; a tripped one     *)
(* keeps its status and loses its count of failures.                          *)
Succeeds(k) ==
    LET p == call[k].cur
    IN  /\ call[k].pc = "flight"
        /\ events' = [events EXCEPT ![p] = Ring(Append(@, TRUE))]
        /\ streak' = [streak EXCEPT ![p] = 0]
        /\ status' = [status EXCEPT ![p] = IF @ = "DEGRADED" THEN "HEALTHY" ELSE @]
        /\ lateOk' = lateOk \union {p}
        /\ call' = [call EXCEPT ![k] = Idle]
        /\ shut' = [shut EXCEPT ![k] = {}]
        /\ UNCHANGED due

(* Faulty variant: a failure that does not trip degrades, also from tripped. *)
FailsReopens(k) ==
    LET p == call[k].cur
        s == Ring(Append(events[p], FALSE))
        n == IF streak[p] < Threshold THEN streak[p] + 1 ELSE Threshold
        trips == ShouldTrip(n, s) /\ status[p] # "TRIPPED"
    IN  /\ call[k].pc = "flight"
        /\ events' = [events EXCEPT ![p] = s]
        /\ streak' = [streak EXCEPT ![p] = n]
        /\ status' = [status EXCEPT ![p] = IF trips THEN "TRIPPED" ELSE "DEGRADED"]
        /\ due' = [due EXCEPT ![p] = @ /\ trips]
        /\ lateOk' = IF trips THEN lateOk \ {p} ELSE lateOk
        /\ call' = [call EXCEPT ![k].pc = "next", ![k].cur = NoProvider]
        /\ shut' = [c \in Callers |-> IF trips THEN shut[c] ELSE shut[c] \ {p}]

(* _record_event(not ok) trips or degrades.  A breaker that opens sets its    *)
(* pause; one that is open keeps the pause it has.                            *)
Fails(k) ==
    LET p == call[k].cur
        s == Ring(Append(events[p], FALSE))
        n == IF streak[p] < Threshold THEN streak[p] + 1 ELSE Threshold
        trips == ShouldTrip(n, s)
        opens == trips /\ status[p] # "TRIPPED"
    IN  /\ call[k].pc = "flight"
        /\ events' = [events EXCEPT ![p] = s]
        /\ streak' = [streak EXCEPT ![p] = n]
        /\ status' = [status EXCEPT ![p] = IF trips THEN "TRIPPED" ELSE "DEGRADED"]
        /\ due' = [due EXCEPT ![p] = @ /\ trips]
        /\ lateOk' = IF opens THEN lateOk \ {p} ELSE lateOk
        /\ call' = [call EXCEPT ![k].pc = "next", ![k].cur = NoProvider]
        /\ shut' = [c \in Callers |-> IF trips THEN shut[c] ELSE shut[c] \ {p}]

(* The task of the caller is cancelled while it waits for the provider: a     *)
(* cancellation is no Exception, and nothing is recorded of the attempt.      *)
Cancelled(k) ==
    /\ call[k].pc = "flight"
    /\ call' = [call EXCEPT ![k] = Idle]
    /\ shut' = [shut EXCEPT ![k] = {}]
    /\ UNCHANGED <<status, streak, events, due, lateOk>>

(* Its pause of open_duration_seconds is over.                               *)
PauseEnds(p) ==
    /\ Open(p)
    /\ due' = [due EXCEPT ![p] = TRUE]
    /\ shut' = [k \in Callers |-> shut[k] \ {p}]
    /\ UNCHANGED <<status, streak, events, call, lateOk>>

Continue(k) ==
    \/ \E p \in Providers : Attempt(k, p)
    \/ Exhausted(k)
    \/ Succeeds(k)
    \/ Fails(k)

Next ==
    \/ \E k \in Callers : List(k) \/ Continue(k) \/ Cancelled(k)
    \/ \E p \in Providers : PauseEnds(p)

Spec == Init /\ [][Next]_vars

(* Providers answer or their client times out, callers call again, and time   *)
(* passes.                                                                    *)
FairSpec ==
    /\ Spec
    /\ \A k \in Callers : WF_vars(List(k)) /\ WF_vars(Continue(k))
    /\ \A p \in Providers : WF_vars(PauseEnds(p))

(***************************************************************************)
(* Properties.                                                             *)
(***************************************************************************)

CallState == [pc : {"idle", "next", "flight"}, left : SUBSET Providers,
              cur : Providers \union {NoProvider}, attempts : 0 .. MaxAttempts]

(* Every variable has its type, and a call in flight has a provider.         *)
TypeOK ==
    /\ status \in [Providers -> {"HEALTHY", "DEGRADED", "TRIPPED"}]
    /\ streak \in [Providers -> 0 .. Threshold]
    /\ events \in [Providers -> Seq(BOOLEAN)]
    /\ \A p \in Providers : Len(events[p]) <= Window
    /\ due \in [Providers -> BOOLEAN]
    /\ call \in [Callers -> CallState]
    /\ lateOk \subseteq Providers
    /\ shut \in [Callers -> SUBSET Providers]
    /\ \A k \in Callers : call[k].pc = "flight" => call[k].cur \in Providers

(* A call never uses a provider whose breaker has been open since before the  *)
(* call began; a breaker that opens later does not stop the attempts of calls *)
(* that have listed it.                                                       *)
OpenIsSkipped == \A k \in Callers : call[k].cur \notin shut[k]

(* An open breaker stays open until its pause is over, unless a call that was *)
(* in flight when it opened succeeds: then the next late failure, of all      *)
(* things, closes it.                                                         *)
OpenForItsPause ==
    [][\A p \in Providers :
           Open(p) /\ status'[p] # "TRIPPED" => p \in lateOk]_vars

FailsOn(p) ==
    \E k \in Callers : call[k].pc = "flight" /\ call[k].cur = p /\ call'[k].pc = "next"

(* A provider let back in after its pause is on probation: while nothing of   *)
(* it has succeeded since it was tripped, a failure trips it again at once,   *)
(* whether it was the streak or the failure rate that had tripped it.         *)
ProbationTrips ==
    [][\A p \in Providers : FailsOn(p) /\ p \notin lateOk => status'[p] = "TRIPPED"]_vars

(* No provider is locked out for good while there are calls: its breaker      *)
(* lets it back in, also when late failures of other calls come in.           *)
LockedOutEnds == \A p \in Providers : status[p] = "TRIPPED" ~> status[p] # "TRIPPED"
=============================================================================
