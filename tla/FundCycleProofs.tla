--------------------------- MODULE FundCycleProofs ----------------------------
(* Proofs about FundCycle for any number of cycles, operators, calls and      *)
(* faults.                                                                    *)
EXTENDS FundCycle, TLAPS

(***************************************************************************)
(* The order of the states.                                                *)
(***************************************************************************)

LEMMA FlowOrder ==
    /\ DOMAIN STATE_FLOW = 1 .. 13
    /\ \A i, j \in 1 .. 13 : STATE_FLOW[i] = STATE_FLOW[j] => i = j
BY DEF STATE_FLOW

LEMMA PosInverts ==
    /\ \A s \in Flow : Pos(s) \in 1 .. 13 /\ STATE_FLOW[Pos(s)] = s
    /\ \A i \in 1 .. 13 : STATE_FLOW[i] \in Flow /\ Pos(STATE_FLOW[i]) = i
<1>1. \A s \in Flow : Pos(s) \in 1 .. 13 /\ STATE_FLOW[Pos(s)] = s
  BY FlowOrder DEF Flow, Pos
<1>2. \A i \in 1 .. 13 : STATE_FLOW[i] \in Flow
  BY FlowOrder DEF Flow
<1> QED
  BY <1>1, <1>2, FlowOrder

LEMMA Positions ==
    /\ Pos("CREATED") = 1 /\ Pos("PURCHASE_ORDER_CREATED") = 2 /\ Pos("PAYMENT_SENT") = 3
    /\ Pos("WAITING_FOR_BDAG") = 4 /\ Pos("BDAG_RECEIVED") = 5 /\ Pos("TRANSFER_SENT") = 6
    /\ Pos("WAITING_DEPOSIT") = 7 /\ Pos("DEPOSIT_CONFIRMED") = 8 /\ Pos("SELL_SUBMITTED") = 9
    /\ Pos("SELL_FILLED") = 10 /\ Pos("WITHDRAWAL_SUBMITTED") = 11
    /\ Pos("WITHDRAWAL_CONFIRMED") = 12 /\ Pos("COMPLETE") = 13
<1>1. \A i \in 1 .. 13 : Pos(STATE_FLOW[i]) = i
  BY PosInverts
<1>2. Pos(STATE_FLOW[1]) = 1 /\ Pos(STATE_FLOW[2]) = 2 /\ Pos(STATE_FLOW[3]) = 3
      /\ Pos(STATE_FLOW[4]) = 4 /\ Pos(STATE_FLOW[5]) = 5 /\ Pos(STATE_FLOW[6]) = 6
      /\ Pos(STATE_FLOW[7]) = 7 /\ Pos(STATE_FLOW[8]) = 8 /\ Pos(STATE_FLOW[9]) = 9
      /\ Pos(STATE_FLOW[10]) = 10 /\ Pos(STATE_FLOW[11]) = 11
      /\ Pos(STATE_FLOW[12]) = 12 /\ Pos(STATE_FLOW[13]) = 13
  BY <1>1
<1> QED
  BY <1>2 DEF STATE_FLOW

LEMMA LedgerInFlow == LEDGER_ON_ENTER \subseteq Flow /\ "CREATED" \in Flow
<1>1. \A i \in 1 .. 13 : STATE_FLOW[i] \in Flow
  BY PosInverts
<1>2. /\ STATE_FLOW[1] \in Flow /\ STATE_FLOW[2] \in Flow /\ STATE_FLOW[3] \in Flow
      /\ STATE_FLOW[5] \in Flow /\ STATE_FLOW[6] \in Flow /\ STATE_FLOW[8] \in Flow
      /\ STATE_FLOW[10] \in Flow /\ STATE_FLOW[11] \in Flow /\ STATE_FLOW[12] \in Flow
  BY <1>1
<1> QED
  BY <1>2 DEF STATE_FLOW, LEDGER_ON_ENTER

(* A step of the flow adds its own leg and no other. *)
LEMMA ThroughFollowing ==
    ASSUME NEW s \in Flow \ TERMINAL
    PROVE  /\ Following(s) \in Flow
           /\ Through(Following(s)) \subseteq Through(s) \union ({Following(s)} \intersect LEDGER_ON_ENTER)
<1>1. Pos(s) \in 1 .. 13 /\ STATE_FLOW[Pos(s)] = s
  BY PosInverts
<1>2. Pos(s) # 13
  <2>1. STATE_FLOW[13] = "COMPLETE"
    BY DEF STATE_FLOW
  <2> QED
    BY <1>1, <2>1 DEF TERMINAL
<1>3. Pos(s) + 1 \in 1 .. 13
  BY <1>1, <1>2
<1>4. Following(s) \in Flow /\ Pos(Following(s)) = Pos(s) + 1
  BY <1>3, PosInverts DEF Following
<1>5. ASSUME NEW t \in LEDGER_ON_ENTER, Pos(t) <= Pos(s) + 1, ~(Pos(t) <= Pos(s))
      PROVE  t = Following(s)
  <2>1. Pos(t) \in 1 .. 13 /\ STATE_FLOW[Pos(t)] = t
    BY LedgerInFlow, PosInverts
  <2>2. Pos(t) = Pos(s) + 1
    BY <1>1, <1>5, <2>1
  <2> QED
    BY <2>1, <2>2 DEF Following
<1> QED
  BY <1>4, <1>5 DEF Through

LEMMA ThroughEarly ==
    /\ Through("CREATED") = {}
    /\ Through("BDAG_RECEIVED") \subseteq {"PURCHASE_ORDER_CREATED", "PAYMENT_SENT", "BDAG_RECEIVED"}
    /\ \A s \in SLA \union {"BDAG_RECEIVED"} :
           {"PURCHASE_ORDER_CREATED", "PAYMENT_SENT"} \subseteq Through(s)
<1>1. Through("CREATED") = {}
  BY Positions DEF Through, LEDGER_ON_ENTER
<1>2. Through("BDAG_RECEIVED") \subseteq {"PURCHASE_ORDER_CREATED", "PAYMENT_SENT", "BDAG_RECEIVED"}
  BY Positions DEF Through, LEDGER_ON_ENTER
<1>3. SLA = {"WAITING_FOR_BDAG", "WAITING_DEPOSIT", "SELL_SUBMITTED", "WITHDRAWAL_SUBMITTED"}
  BY DEF SLA, STUCK_STATE
<1>4. \A s \in SLA \union {"BDAG_RECEIVED"} :
          {"PURCHASE_ORDER_CREATED", "PAYMENT_SENT"} \subseteq Through(s)
  BY <1>3, Positions DEF Through, LEDGER_ON_ENTER
<1> QED
  BY <1>1, <1>2, <1>4

(***************************************************************************)
(* What backs a state, and which updates are sound.                        *)
(***************************************************************************)

Early == {"PURCHASE_ORDER_CREATED", "PAYMENT_SENT"}

Legs(c) == cycle[c].legs

(* What a cycle of this mode may have passed over. *)
Skippable(c) == IF c \in Shadow THEN {"BDAG_RECEIVED"} ELSE {}

(* The ledger of c confirms what state s stands for; a stuck cycle has at     *)
(* least been paid for.                                                       *)
Supported(c, s) ==
    /\ s \in Flow => Through(s) \subseteq Legs(c) \union Skippable(c)
    /\ s \in STUCK => Early \subseteq Legs(c)

Kinds == {"create", "advance", "resume", "hold", "freeze", "stuck", "abort"}

(* An update that may be written to c whenever it comes to be written. *)
Sound(c, kind, from, to) ==
    /\ kind \in Kinds /\ from \in States \union {"NONE"} /\ to \in States
    /\ Supported(c, from)
    /\ kind # "advance" => Supported(c, to)
    /\ kind = "advance" => from \in Flow \ TERMINAL /\ to = Following(from)
    /\ kind # "freeze" => from \notin TERMINAL

DocumentsBacked ==
    \A c \in Cycles : Supported(c, cycle[c].state) /\ Supported(c, cycle[c].prev)

WorkSound ==
    \A w \in Workers :
        /\ worker[w].pc = "write" =>
               Sound(worker[w].cycle, worker[w].kind, worker[w].from, worker[w].to)
        /\ worker[w].pc = "set_stuck" => Early \subseteq Legs(worker[w].cycle)

SweepSound == \A m \in missed : Supported(m[1], m[2])

IInv == TypeOK /\ DocumentsBacked /\ WorkSound /\ SweepSound

LEMMA StuckStates ==
    /\ \A s \in SLA : STUCK_STATE[s] \in STUCK /\ s \in Flow
    /\ "STUCK_WAITING_DEPOSIT" \in STUCK
    /\ STUCK \subseteq States /\ Flow \subseteq States
    /\ STUCK \intersect Flow = {} /\ STUCK \intersect TERMINAL = {} /\ SLA \intersect TERMINAL = {}
    /\ "MANUAL_REVIEW" \notin Flow \union STUCK \union TERMINAL
    /\ "ABORTED" \notin Flow \union STUCK
    /\ "NONE" \notin Flow \union STUCK \union TERMINAL
    /\ "ABSENT" \notin Flow \union STUCK \union TERMINAL
    /\ "BDAG_RECEIVED" \in Flow /\ "CREATED" \in Flow \ TERMINAL
<1>1. SLA = {"WAITING_FOR_BDAG", "WAITING_DEPOSIT", "SELL_SUBMITTED", "WITHDRAWAL_SUBMITTED"}
  BY DEF SLA, STUCK_STATE
<1>2. STUCK = {"STUCK_WAITING_FOR_BDAG", "STUCK_WAITING_DEPOSIT", "STUCK_SELL", "STUCK_WITHDRAWAL"}
  BY <1>1 DEF STUCK, STUCK_STATE
<1>3. Flow = { "CREATED", "PURCHASE_ORDER_CREATED", "PAYMENT_SENT", "WAITING_FOR_BDAG",
               "BDAG_RECEIVED", "TRANSFER_SENT", "WAITING_DEPOSIT", "DEPOSIT_CONFIRMED",
               "SELL_SUBMITTED", "SELL_FILLED", "WITHDRAWAL_SUBMITTED",
               "WITHDRAWAL_CONFIRMED", "COMPLETE" }
  <2>1. \A s \in Flow : \E i \in 1 .. 13 : s = STATE_FLOW[i]
    BY FlowOrder DEF Flow
  <2>2. \A i \in 1 .. 13 : STATE_FLOW[i] \in Flow
    BY PosInverts
  <2>3. /\ STATE_FLOW[1] = "CREATED" /\ STATE_FLOW[2] = "PURCHASE_ORDER_CREATED"
        /\ STATE_FLOW[3] = "PAYMENT_SENT" /\ STATE_FLOW[4] = "WAITING_FOR_BDAG"
        /\ STATE_FLOW[5] = "BDAG_RECEIVED" /\ STATE_FLOW[6] = "TRANSFER_SENT"
        /\ STATE_FLOW[7] = "WAITING_DEPOSIT" /\ STATE_FLOW[8] = "DEPOSIT_CONFIRMED"
        /\ STATE_FLOW[9] = "SELL_SUBMITTED" /\ STATE_FLOW[10] = "SELL_FILLED"
        /\ STATE_FLOW[11] = "WITHDRAWAL_SUBMITTED" /\ STATE_FLOW[12] = "WITHDRAWAL_CONFIRMED"
        /\ STATE_FLOW[13] = "COMPLETE"
    BY DEF STATE_FLOW
  <2>4. \A i \in 1 .. 13 : i \in {1, 2, 3, 4, 5, 6, 7, 8, 9, 10, 11, 12, 13}
    OBVIOUS
  <2>5. {1, 2, 3, 4, 5, 6, 7, 8, 9, 10, 11, 12, 13} \subseteq 1 .. 13
    OBVIOUS
  <2> QED
    BY <2>1, <2>2, <2>3, <2>4, <2>5
<1>4. \A s \in SLA : STUCK_STATE[s] \in STUCK
  BY DEF STUCK
<1> QED
  BY <1>1, <1>2, <1>3, <1>4 DEF States, TERMINAL

LEMMA UpdateType ==
    ASSUME NEW doc \in Document, NEW kind, NEW from \in States \union {"NONE"}, NEW to \in States
    PROVE  /\ Updated(doc, kind, from, to) \in Document
           /\ Updated(doc, kind, from, to).state = to
           /\ Updated(doc, kind, from, to).prev =
                  IF kind \in {"resume", "create"} THEN doc.prev ELSE from
           /\ doc.legs \subseteq Updated(doc, kind, from, to).legs
           /\ kind = "advance" /\ to \in LEDGER_ON_ENTER => to \in Updated(doc, kind, from, to).legs
<1> DEFINE prev == IF kind \in {"resume", "create"} THEN doc.prev ELSE from
           stuck == kind \in {"hold", "freeze", "stuck"}
           legs == IF kind = "advance" THEN doc.legs \union ({to} \intersect LEDGER_ON_ENTER)
                                       ELSE doc.legs
<1>1. prev \in States \union {"NONE"} /\ stuck \in BOOLEAN /\ legs \subseteq LEDGER_ON_ENTER
  BY DEF Document
<1> HIDE DEF prev, stuck, legs
<1> DEFINE new == [doc EXCEPT !.state = to, !.prev = prev, !.stuck = stuck, !.legs = legs]
<1>2. new \in Document
  BY <1>1 DEF Document
<1>3. new.state = to /\ new.prev = prev /\ new.legs = legs
  BY DEF Document
<1>4. Updated(doc, kind, from, to) = new
  BY DEF Updated, prev, stuck, legs
<1> QED
  BY <1>2, <1>3, <1>4 DEF prev, legs

(***************************************************************************)
(* Decisions.                                                              *)
(***************************************************************************)

LEMMA DecidedDoes ==
    ASSUME worker \in [Workers -> Call], NEW w \in Workers, NEW c \in Cycles,
           NEW kind \in Kinds, NEW from \in States \union {"NONE"}, NEW to \in States,
           Decided(w, c, kind, from, to)
    PROVE  /\ worker' \in [Workers -> Call]
           /\ worker'[w].pc = "write" /\ worker'[w].cycle = c /\ worker'[w].kind = kind
           /\ worker'[w].from = from /\ worker'[w].to = to
           /\ \A v \in Workers : v # w => worker'[v] = worker[v]
<1> DEFINE new == [Idle EXCEPT !.pc = "write", !.cycle = c, !.kind = kind,
                               !.from = from, !.to = to]
<1>1. Idle \in Call
  BY DEF Idle, Call
<1>2. new.pc = "write" /\ new.cycle = c /\ new.kind = kind /\ new.from = from /\ new.to = to
  BY DEF Idle
<1>3. new \in Call
  BY <1>1 DEF Call, Kinds
<1>4. worker' = [worker EXCEPT ![w] = new]
  BY DEF Decided
<1> HIDE DEF new
<1>5. worker'[w] = new
  BY <1>4
<1> QED
  BY <1>2, <1>3, <1>4, <1>5

(* Whatever a call decides on is sound on the document that it has read. *)
LEMMA CallsAreSound ==
    ASSUME TypeOK, DocumentsBacked, NEW w \in Workers, NEW c \in Cycles,
           \/ CreateChecks(w, c) \/ AdvanceDecides(w, c)
           \/ AbortDecides(w, c) \/ ReviewDecides(w, c)
    PROVE  \E kind \in Kinds, from \in States \union {"NONE"}, to \in States :
               Decided(w, c, kind, from, to) /\ Sound(c, kind, from, to)
<1>1. /\ Supported(c, cycle[c].state) /\ Supported(c, cycle[c].prev)
      /\ cycle[c].state \in States \union {"ABSENT"} /\ cycle[c].prev \in States \union {"NONE"}
  BY DEF DocumentsBacked, TypeOK, Document
<1>2. /\ Supported(c, "NONE") /\ Supported(c, "CREATED")
      /\ Supported(c, "MANUAL_REVIEW") /\ Supported(c, "ABORTED")
  BY StuckStates, ThroughEarly DEF Supported
<1>3. /\ "CREATED" \in States /\ "MANUAL_REVIEW" \in States /\ "ABORTED" \in States
      /\ "NONE" \notin TERMINAL
  BY StuckStates DEF States, TERMINAL
<1>4. CASE CreateChecks(w, c)
  BY <1>2, <1>3, <1>4 DEF CreateChecks, Sound, Kinds
<1>5. CASE ResumeDecides(w, c)
  <2> DEFINE to == IF cycle[c].prev = "NONE" THEN "CREATED" ELSE cycle[c].prev
  <2>1. Decided(w, c, "resume", cycle[c].state, to) /\ cycle[c].state \in STUCK \union {"MANUAL_REVIEW"}
    BY <1>5 DEF ResumeDecides
  <2>2. to \in States /\ Supported(c, to)
    BY <1>1, <1>2, <1>3
  <2>3. cycle[c].state \in States /\ cycle[c].state \notin TERMINAL
    BY <2>1, <1>3, StuckStates DEF TERMINAL
  <2> HIDE DEF to
  <2>4. Sound(c, "resume", cycle[c].state, to)
    BY <1>1, <2>2, <2>3 DEF Sound, Kinds
  <2> QED
    BY <2>1, <2>2, <2>3, <2>4 DEF Kinds
<1>6. CASE StepDecides(w, c)
  <2>1. cycle[c].state \in Flow \ TERMINAL
        /\ Decided(w, c, "advance", cycle[c].state, Following(cycle[c].state))
    BY <1>6 DEF StepDecides
  <2>2. Following(cycle[c].state) \in States /\ cycle[c].state \in States
    BY <2>1, ThroughFollowing, StuckStates
  <2>3. Sound(c, "advance", cycle[c].state, Following(cycle[c].state))
    BY <1>1, <2>1, <2>2 DEF Sound, Kinds
  <2> QED
    BY <2>1, <2>2, <2>3 DEF Kinds
<1>7. CASE FreezeDecides(w, c)
  <2>1. Decided(w, c, "freeze", cycle[c].state, "MANUAL_REVIEW") /\ cycle[c].state \in States
    BY <1>1, <1>7 DEF FreezeDecides
  <2>2. Sound(c, "freeze", cycle[c].state, "MANUAL_REVIEW")
    BY <1>1, <1>2, <1>3, <2>1 DEF Sound, Kinds
  <2> QED
    BY <1>3, <2>1, <2>2 DEF Kinds
<1>9. CASE ReviewDecides(w, c)
  <2>1. /\ Decided(w, c, "hold", cycle[c].state, "MANUAL_REVIEW")
        /\ cycle[c].state \in States /\ cycle[c].state \notin TERMINAL
    BY <1>1, <1>9 DEF ReviewDecides, Open
  <2>2. Sound(c, "hold", cycle[c].state, "MANUAL_REVIEW")
    BY <1>1, <1>2, <1>3, <2>1 DEF Sound, Kinds
  <2> QED
    BY <1>3, <2>1, <2>2 DEF Kinds
<1>8. CASE AbortDecides(w, c)
  <2>1. /\ Decided(w, c, "abort", cycle[c].state, "ABORTED")
        /\ cycle[c].state \in States /\ cycle[c].state \notin TERMINAL
    BY <1>1, <1>8 DEF AbortDecides, Open
  <2>2. Sound(c, "abort", cycle[c].state, "ABORTED")
    BY <1>1, <1>2, <1>3, <2>1 DEF Sound, Kinds
  <2> QED
    BY <1>3, <2>1, <2>2 DEF Kinds
<1> QED
  BY <1>4, <1>5, <1>6, <1>7, <1>8, <1>9 DEF AdvanceDecides

(* Deciding changes neither the documents nor the work of others. *)
LEMMA DecidingKeeps ==
    ASSUME IInv, NEW w \in Workers, NEW c \in Cycles, NEW kind \in Kinds,
           NEW from \in States \union {"NONE"}, NEW to \in States,
           Decided(w, c, kind, from, to), Sound(c, kind, from, to),
           UNCHANGED <<cycle, overdue, missed, faults>>, calls' \in 0 .. MaxCalls
    PROVE  IInv'
<1>1. /\ worker' \in [Workers -> Call]
      /\ worker'[w].pc = "write" /\ worker'[w].cycle = c /\ worker'[w].kind = kind
      /\ worker'[w].from = from /\ worker'[w].to = to
      /\ \A v \in Workers : v # w => worker'[v] = worker[v]
  BY DecidedDoes DEF IInv, TypeOK
<1>2. TypeOK'
  BY <1>1 DEF IInv, TypeOK
<1>3. DocumentsBacked' /\ SweepSound'
  BY DEF IInv, DocumentsBacked, SweepSound, Supported, Legs
<1>4. WorkSound'
  <2>1. \A x, k, f, t : Sound(x, k, f, t) => Sound(x, k, f, t)'
    BY DEF Sound, Supported, Legs
  <2>2. \A x : Legs(x)' = Legs(x)
    BY DEF Legs
  <2> QED
    BY <1>1, <2>1, <2>2 DEF IInv, WorkSound
<1> QED
  BY <1>2, <1>3, <1>4 DEF IInv

(* Dropping work, or putting new work in hand that is yet to be decided on.  *)
LEMMA WorkerStepKeeps ==
    ASSUME IInv, worker' \in [Workers -> Call],
           \A w \in Workers :
               /\ worker'[w].pc # "idle" => worker'[w].cycle \in Cycles
               /\ \/ worker'[w] = worker[w]
                  \/ worker'[w].pc \in {"idle", "advance"}
                  \/ worker'[w].pc = "set_stuck" /\ Early \subseteq Legs(worker'[w].cycle),
           cycle' = cycle, overdue' = overdue, missed' \subseteq missed,
           calls' = calls, faults' \in 0 .. MaxFaults
    PROVE  IInv'
<1>1. TypeOK'
  BY DEF IInv, TypeOK
<1>2. DocumentsBacked' /\ SweepSound'
  BY DEF IInv, DocumentsBacked, SweepSound, Supported, Legs
<1>3. \A x, k, f, t : Sound(x, k, f, t) => Sound(x, k, f, t)'
  BY DEF Sound, Supported, Legs
<1>4. \A x : Legs(x)' = Legs(x)
  BY DEF Legs
<1>5. WorkSound'
  BY <1>3, <1>4 DEF IInv, WorkSound
<1> QED
  BY <1>1, <1>2, <1>5 DEF IInv

(* Writing an update to a document leaves every document backed. *)
LEMMA UpdatingKeeps ==
    ASSUME IInv, NEW c \in Cycles, NEW kind, NEW from, NEW to, Sound(c, kind, from, to),
           cycle' = [cycle EXCEPT ![c] = Updated(cycle[c], kind, from, to)]
    PROVE  /\ cycle' \in [Cycles -> Document]
           /\ DocumentsBacked'
           /\ \A x \in Cycles : Legs(x) \subseteq Legs(x)'
<1>1. /\ cycle \in [Cycles -> Document] /\ cycle[c] \in Document
      /\ from \in States \union {"NONE"} /\ to \in States
      /\ Supported(c, cycle[c].state) /\ Supported(c, cycle[c].prev)
  BY DEF IInv, TypeOK, Sound, DocumentsBacked
<1>2. /\ cycle'[c] \in Document /\ cycle'[c].state = to
      /\ cycle'[c].prev = IF kind \in {"resume", "create"} THEN cycle[c].prev ELSE from
      /\ cycle[c].legs \subseteq cycle'[c].legs
      /\ kind = "advance" /\ to \in LEDGER_ON_ENTER => to \in cycle'[c].legs
  <2>1. PICK doc \in Document : doc = cycle[c]
    BY <1>1
  <2>2. cycle'[c] = Updated(doc, kind, from, to)
    BY <1>1, <2>1
  <2>3. /\ Updated(doc, kind, from, to) \in Document
        /\ Updated(doc, kind, from, to).state = to
        /\ Updated(doc, kind, from, to).prev =
               IF kind \in {"resume", "create"} THEN doc.prev ELSE from
        /\ doc.legs \subseteq Updated(doc, kind, from, to).legs
        /\ kind = "advance" /\ to \in LEDGER_ON_ENTER => to \in Updated(doc, kind, from, to).legs
    BY <1>1, UpdateType
  <2> QED
    BY <2>1, <2>2, <2>3
<1>3. \A x \in Cycles : x # c => cycle'[x] = cycle[x]
  BY <1>1
<1>4. cycle' \in [Cycles -> Document]
  BY <1>1, <1>2, <1>3
<1>5. cycle[c].legs \subseteq cycle'[c].legs
  BY <1>2
<1>6. \A x \in Cycles : Legs(x) \subseteq Legs(x)'
  BY <1>3, <1>5 DEF Legs
<1>7. \A x \in Cycles : \A s : Supported(x, s) => Supported(x, s)'
  BY <1>6 DEF Supported
<1>8. Supported(c, to)'
  <2>1. CASE kind # "advance"
    <3>1. Supported(c, to)
      BY <2>1 DEF Sound
    <3> QED
      BY <1>6, <3>1 DEF Supported
  <2>2. CASE kind = "advance"
    <3>1. from \in Flow \ TERMINAL /\ to = Following(from) /\ Supported(c, from)
      BY <2>2 DEF Sound
    <3>2. to \in Flow /\ Through(to) \subseteq Through(from) \union ({to} \intersect LEDGER_ON_ENTER)
      BY <3>1, ThroughFollowing
    <3>3. Through(from) \subseteq cycle[c].legs \union Skippable(c)
      BY <3>1 DEF Supported, Legs
    <3>4. Through(to) \subseteq cycle'[c].legs \union Skippable(c)
      BY <1>2, <2>2, <3>2, <3>3
    <3>5. to \notin STUCK
      BY <3>2, StuckStates
    <3> QED
      BY <3>4, <3>5 DEF Supported, Legs
  <2> QED
    BY <2>1, <2>2
<1>9. Supported(c, from)
  BY DEF Sound
<1>10. ASSUME NEW x \in Cycles PROVE (Supported(x, cycle[x].state) /\ Supported(x, cycle[x].prev))'
  <2>1. CASE x = c
    <3>1. PICK p : p = cycle'[c].prev
      OBVIOUS
    <3>2. Supported(c, p)
      BY <1>1, <1>2, <1>9, <3>1
    <3>3. p' = p
      OBVIOUS
    <3>4. Supported(c, p)'
      BY <1>6, <3>2 DEF Supported
    <3> QED
      BY <1>2, <1>8, <2>1, <3>1, <3>4
  <2>2. CASE x # c
    <3>1. Supported(x, cycle[x].state) /\ Supported(x, cycle[x].prev)
      BY DEF IInv, DocumentsBacked
    <3>2. cycle'[x] = cycle[x] /\ Legs(x)' = Legs(x)
      BY <1>3, <2>2 DEF Legs
    <3> QED
      BY <3>1, <3>2 DEF Supported
  <2> QED
    BY <2>1, <2>2
<1>11. DocumentsBacked'
  BY <1>10 DEF DocumentsBacked
<1> QED
  BY <1>4, <1>6, <1>11

(* An update written to a document leaves the work in hand sound. *)
LEMMA SoundGrows ==
    ASSUME \A x \in Cycles : Legs(x) \subseteq Legs(x)', NEW c \in Cycles,
           NEW kind, NEW from, NEW to
    PROVE  /\ Supported(c, to) => Supported(c, to)'
           /\ Sound(c, kind, from, to) => Sound(c, kind, from, to)'
<1>1. \A s : Supported(c, s) => Supported(c, s)'
  BY DEF Supported
<1> QED
  BY <1>1 DEF Sound

(* A state with a deadline, or the one after the receipt, is only backed by a *)
(* cycle that has been paid for.                                              *)
LEMMA PaidFor ==
    ASSUME NEW c, NEW s \in SLA \union {"BDAG_RECEIVED"}, Supported(c, s)
    PROVE  Early \subseteq Legs(c)
<1>1. Early \subseteq Through(s)
  BY ThroughEarly DEF Early
<1>2. Through(s) \subseteq Legs(c) \union {"BDAG_RECEIVED"}
  BY StuckStates DEF Supported, Skippable
<1> QED
  BY <1>1, <1>2 DEF Early

LEMMA InitIInv == Init => IInv
<1> SUFFICES ASSUME Init PROVE IInv
  OBVIOUS
<1>1. TypeOK
  BY CycleAssumption DEF Init, TypeOK, Document, Call, Absent, Idle
<1>2. \A c \in Cycles : Supported(c, cycle[c].state) /\ Supported(c, cycle[c].prev)
  BY StuckStates DEF Init, Absent, Supported
<1>3. WorkSound /\ SweepSound
  BY DEF Init, WorkSound, SweepSound, Idle
<1> QED
  BY <1>1, <1>2, <1>3 DEF IInv, DocumentsBacked

LEMMA NextIInv == IInv /\ [Next]_vars => IInv'
<1> SUFFICES ASSUME IInv, [Next]_vars PROVE IInv'
  OBVIOUS
<1>0. /\ TypeOK /\ DocumentsBacked /\ WorkSound /\ SweepSound
      /\ worker \in [Workers -> Call] /\ cycle \in [Cycles -> Document]
      /\ Idle \in Call /\ Runner \in Workers /\ Operators \subseteq Workers
      /\ calls \in 0 .. MaxCalls /\ faults \in 0 .. MaxFaults
      /\ MaxCalls \in Nat /\ MaxFaults \in Nat
  BY CycleAssumption DEF IInv, TypeOK, Idle, Call, Workers
<1>1. ASSUME NEW o \in Operators, OperatorCalls(o) PROVE IInv'
  <2>1. PICK c \in Cycles : \/ CreateChecks(o, c) \/ AdvanceDecides(o, c)
                            \/ AbortDecides(o, c) \/ ReviewDecides(o, c)
    BY <1>1 DEF OperatorCalls
  <2>2. PICK kind \in Kinds, from \in States \union {"NONE"}, to \in States :
            Decided(o, c, kind, from, to) /\ Sound(c, kind, from, to)
    BY <1>0, <2>1, CallsAreSound
  <2>3. UNCHANGED <<cycle, overdue, missed, faults>> /\ calls' \in 0 .. MaxCalls
    BY <1>0, <1>1 DEF OperatorCalls
  <2> QED
    BY <1>0, <2>2, <2>3, DecidingKeeps
<1>2. ASSUME NEW w \in Workers, Write(w) PROVE IInv'
  <2>1. worker[w].cycle \in Cycles
    BY <1>2 DEF Write, IInv, TypeOK
  <2>2. PICK c, kind, from, to :
            /\ c \in Cycles /\ c = worker[w].cycle /\ kind = worker[w].kind
            /\ from = worker[w].from /\ to = worker[w].to
    BY <2>1
  <2>3. Sound(c, kind, from, to)
    BY <1>0, <1>2, <2>2 DEF Write, WorkSound
  <2>4. cycle' = [cycle EXCEPT ![c] = Updated(cycle[c], kind, from, to)]
    BY <1>2, <2>2 DEF Write
  <2>5. /\ cycle' \in [Cycles -> Document] /\ DocumentsBacked'
        /\ \A x \in Cycles : Legs(x) \subseteq Legs(x)'
    BY <2>2, <2>3, <2>4, UpdatingKeeps
  <2>6. /\ worker' \in [Workers -> Call] /\ worker'[w] = Idle
        /\ \A v \in Workers : v # w => worker'[v] = worker[v]
    BY <1>0, <1>2 DEF Write
  <2>7. TypeOK'
    BY <1>2, <2>5, <2>6 DEF Write, IInv, TypeOK, Idle
  <2>8. WorkSound'
    <3> SUFFICES ASSUME NEW v \in Workers, worker'[v].pc \in {"write", "set_stuck"}
                 PROVE  /\ worker'[v].pc = "write" =>
                               Sound(worker[v].cycle, worker[v].kind, worker[v].from, worker[v].to)'
                        /\ worker'[v].pc = "set_stuck" => Early \subseteq Legs(worker[v].cycle)'
      BY DEF WorkSound
    <3>1. worker'[v] = worker[v]
      BY <2>6 DEF Idle
    <3>2. worker[v].cycle \in Cycles
      BY <3>1 DEF IInv, TypeOK
    <3>3. PICK d, k, f, t :
              /\ d \in Cycles /\ d = worker[v].cycle /\ k = worker[v].kind
              /\ f = worker[v].from /\ t = worker[v].to
      BY <3>2
    <3>4. worker[v].pc = "write" => Sound(d, k, f, t)'
      BY <1>0, <2>5, <3>3, SoundGrows DEF WorkSound
    <3>5. worker[v].pc = "set_stuck" => Early \subseteq Legs(d)'
      BY <1>0, <2>5, <3>3 DEF WorkSound
    <3> QED
      BY <3>1, <3>3, <3>4, <3>5
  <2>9. SweepSound'
    <3>1. ASSUME NEW m \in missed PROVE Supported(m[1], m[2])'
      <4>1. m[1] \in Cycles /\ Supported(m[1], m[2])
        BY <1>0 DEF SweepSound, TypeOK
      <4> QED
        BY <2>5, <4>1, SoundGrows
    <3>2. missed' = missed
      BY <1>2 DEF Write
    <3> QED
      BY <3>1, <3>2 DEF SweepSound
  <2> QED
    BY <2>5, <2>7, <2>8, <2>9 DEF IInv
<1>3. ASSUME NEW c \in Cycles, TickOpens(c) PROVE IInv'
  <2>1. PICK kind \in Kinds, from \in States \union {"NONE"}, to \in States :
            Decided(Runner, c, kind, from, to) /\ Sound(c, kind, from, to)
    BY <1>0, <1>3, CallsAreSound DEF TickOpens
  <2>2. UNCHANGED <<cycle, overdue, missed, faults>> /\ calls' \in 0 .. MaxCalls
    BY <1>0, <1>3 DEF TickOpens
  <2> QED
    BY <1>0, <2>1, <2>2, DecidingKeeps
<1>4. ASSUME NEW c \in Cycles, TickRecovers(c) PROVE IInv'
  <2>1. /\ c \in Shadow /\ cycle[c].state \in STUCK
        /\ Decided(Runner, c, "resume", cycle[c].state, "BDAG_RECEIVED")
        /\ UNCHANGED <<cycle, overdue, missed, faults>> /\ calls' \in 0 .. MaxCalls
    BY <1>0, <1>4 DEF TickRecovers, ShadowOpen
  <2>2. Supported(c, cycle[c].state) /\ Early \subseteq Legs(c)
    BY <1>0, <2>1 DEF DocumentsBacked, Supported
  <2>3. Supported(c, "BDAG_RECEIVED")
    BY <2>1, <2>2, ThroughEarly, StuckStates DEF Supported, Skippable, Early
  <2>4. /\ "BDAG_RECEIVED" \in States /\ cycle[c].state \in States
        /\ cycle[c].state \notin TERMINAL
    BY <2>1, StuckStates
  <2>5. Sound(c, "resume", cycle[c].state, "BDAG_RECEIVED")
    BY <2>2, <2>3, <2>4 DEF Sound, Kinds
  <2> QED
    BY <1>0, <2>1, <2>4, <2>5, DecidingKeeps DEF Kinds
<1>5. ASSUME NEW c \in Cycles, TickDrives(c) PROVE IInv'
  <2>1. cycle[c].state = "BDAG_RECEIVED" => Early \subseteq Legs(c)
    BY <1>0, PaidFor DEF DocumentsBacked
  <2>2. PICK pc \in {"set_stuck", "advance"} :
            /\ worker' = [worker EXCEPT ![Runner] = [[worker[Runner] EXCEPT !.pc = pc] EXCEPT !.cycle = c]]
            /\ pc = "set_stuck" => cycle[c].state = "BDAG_RECEIVED"
    BY <1>0, <1>5 DEF TickDrives
  <2>3. [[worker[Runner] EXCEPT !.pc = pc] EXCEPT !.cycle = c] \in Call
    BY <1>0 DEF Call
  <2>4. /\ worker' \in [Workers -> Call] /\ worker'[Runner].pc = pc /\ worker'[Runner].cycle = c
        /\ \A w \in Workers : w # Runner => worker'[w] = worker[w]
    BY <1>0, <2>2, <2>3 DEF Call
  <2>5. /\ cycle' = cycle /\ overdue' = overdue /\ missed' \subseteq missed
        /\ calls' = calls /\ faults' \in 0 .. MaxFaults
    BY <1>0, <1>5 DEF TickDrives
  <2>6. \A w \in Workers :
            /\ worker'[w].pc # "idle" => worker'[w].cycle \in Cycles
            /\ \/ worker'[w] = worker[w]
               \/ worker'[w].pc \in {"idle", "advance"}
               \/ worker'[w].pc = "set_stuck" /\ Early \subseteq Legs(worker'[w].cycle)
    BY <1>0, <2>1, <2>2, <2>4 DEF TypeOK
  <2> QED
    BY <2>4, <2>5, <2>6, WorkerStepKeeps
<1>6. CASE SetStuckDecides
  <2>1. worker[Runner].cycle \in Cycles /\ worker[Runner].pc = "set_stuck"
    BY <1>0, <1>6 DEF SetStuckDecides, TypeOK
  <2>2. PICK c \in Cycles : c = worker[Runner].cycle
    BY <2>1
  <2>3. UNCHANGED <<cycle, overdue, missed, faults, calls>>
    BY <1>6 DEF SetStuckDecides
  <2>4. CASE Decided(Runner, c, "stuck", cycle[c].state, "STUCK_WAITING_DEPOSIT") /\ Open(c)
    <3>1. cycle[c].state \in States /\ cycle[c].state \notin TERMINAL
      BY <1>0, <2>4 DEF Open, Document
    <3>2. Supported(c, "STUCK_WAITING_DEPOSIT") /\ "STUCK_WAITING_DEPOSIT" \in States
      BY <1>0, <2>1, <2>2, StuckStates DEF WorkSound, Supported
    <3>3. Sound(c, "stuck", cycle[c].state, "STUCK_WAITING_DEPOSIT")
      BY <1>0, <3>1, <3>2 DEF Sound, Kinds, DocumentsBacked
    <3> QED
      BY <1>0, <2>3, <2>4, <3>1, <3>2, <3>3, DecidingKeeps DEF Kinds
  <2>5. CASE worker' = [worker EXCEPT ![Runner] = Idle]
    BY <1>0, <2>3, <2>5, WorkerStepKeeps DEF TypeOK, Idle
  <2> QED
    BY <1>6, <2>2, <2>4, <2>5 DEF SetStuckDecides
<1>7. CASE TickAdvances
  <2>1. worker[Runner].cycle \in Cycles
    BY <1>0, <1>7 DEF TickAdvances, TypeOK
  <2>2. PICK c \in Cycles : c = worker[Runner].cycle
    BY <2>1
  <2>3. UNCHANGED <<cycle, overdue, missed, faults, calls>>
    BY <1>7 DEF TickAdvances
  <2>4. CASE AdvanceDecides(Runner, c)
    <3>1. PICK kind \in Kinds, from \in States \union {"NONE"}, to \in States :
              Decided(Runner, c, kind, from, to) /\ Sound(c, kind, from, to)
      BY <1>0, <2>4, CallsAreSound
    <3> QED
      BY <1>0, <2>3, <3>1, DecidingKeeps
  <2>5. CASE worker' = [worker EXCEPT ![Runner] = Idle]
    BY <1>0, <2>3, <2>5, WorkerStepKeeps DEF TypeOK, Idle
  <2> QED
    BY <1>7, <2>2, <2>4, <2>5 DEF TickAdvances
<1>8. CASE SweepReads
  <2>1. \A m \in missed' : \E c \in Cycles : m = <<c, cycle[c].state>> /\ cycle[c].state \in SLA
    BY <1>0, <1>8 DEF SweepReads, Candidates, TypeOK
  <2>2. missed' \subseteq Cycles \X SLA
    BY <2>1
  <2>3. UNCHANGED <<cycle, overdue, worker, calls, faults>>
    BY <1>8 DEF SweepReads
  <2>4. TypeOK'
    BY <1>0, <2>2, <2>3 DEF TypeOK
  <2>5. \A m \in missed' : Supported(m[1], m[2])
    BY <1>0, <2>1 DEF DocumentsBacked
  <2>6. SweepSound'
    BY <2>3, <2>5 DEF SweepSound, Supported, Legs
  <2>7. DocumentsBacked' /\ WorkSound'
    BY <1>0, <2>3 DEF DocumentsBacked, WorkSound, Sound, Supported, Legs
  <2> QED
    BY <2>4, <2>6, <2>7 DEF IInv
<1>9. CASE SweepMarks
  <2>1. PICK m \in missed :
            /\ missed' = missed \ {m}
            /\ cycle' = [cycle EXCEPT ![m[1]] = Updated(@, "stuck", m[2], STUCK_STATE[m[2]])]
            /\ UNCHANGED <<overdue, worker, calls, faults>>
    BY <1>9 DEF SweepMarks
  <2>2. m[1] \in Cycles /\ m[2] \in SLA /\ Supported(m[1], m[2])
    BY <1>0 DEF TypeOK, SweepSound
  <2>3. PICK c \in Cycles, from \in SLA : c = m[1] /\ from = m[2]
    BY <2>2
  <2>4. Supported(c, from) /\ Early \subseteq Legs(c)
    BY <2>2, <2>3, PaidFor
  <2>5. STUCK_STATE[from] \in STUCK /\ STUCK_STATE[from] \in States
        /\ from \in States /\ from \notin TERMINAL
    BY StuckStates
  <2>6. PICK to : to = STUCK_STATE[from]
    OBVIOUS
  <2>7. Sound(c, "stuck", from, to)
    BY <2>4, <2>5, <2>6, StuckStates DEF Sound, Kinds, Supported
  <2>8. cycle' = [cycle EXCEPT ![c] = Updated(cycle[c], "stuck", from, to)]
    BY <2>1, <2>3, <2>6
  <2>9. /\ cycle' \in [Cycles -> Document] /\ DocumentsBacked'
        /\ \A x \in Cycles : Legs(x) \subseteq Legs(x)'
    BY <2>7, <2>8, UpdatingKeeps
  <2>10. TypeOK'
    BY <1>0, <2>1, <2>9 DEF TypeOK
  <2>11. WorkSound'
    <3> SUFFICES ASSUME NEW v \in Workers, worker'[v].pc \in {"write", "set_stuck"}
                 PROVE  /\ worker'[v].pc = "write" =>
                               Sound(worker[v].cycle, worker[v].kind, worker[v].from, worker[v].to)'
                        /\ worker'[v].pc = "set_stuck" => Early \subseteq Legs(worker[v].cycle)'
      BY DEF WorkSound
    <3>1. worker' = worker
      BY <2>1
    <3>2. worker[v].cycle \in Cycles
      BY <3>1 DEF IInv, TypeOK
    <3>3. PICK d, k, f, t :
              /\ d \in Cycles /\ d = worker[v].cycle /\ k = worker[v].kind
              /\ f = worker[v].from /\ t = worker[v].to
      BY <3>2
    <3>4. worker[v].pc = "write" => Sound(d, k, f, t)'
      BY <1>0, <2>9, <3>3, SoundGrows DEF WorkSound
    <3>5. worker[v].pc = "set_stuck" => Early \subseteq Legs(d)'
      BY <1>0, <2>9, <3>3 DEF WorkSound
    <3> QED
      BY <3>1, <3>3, <3>4, <3>5
  <2>12. SweepSound'
    <3>1. ASSUME NEW n \in missed PROVE Supported(n[1], n[2])'
      <4>1. n[1] \in Cycles /\ Supported(n[1], n[2])
        BY <1>0 DEF SweepSound, TypeOK
      <4> QED
        BY <2>9, <4>1, SoundGrows
    <3> QED
      BY <2>1, <3>1 DEF SweepSound
  <2> QED
    BY <2>9, <2>10, <2>11, <2>12 DEF IInv
<1>10. ASSUME NEW c \in Cycles, DeadlinePasses(c) PROVE IInv'
  BY <1>0, <1>10
     DEF DeadlinePasses, IInv, TypeOK, DocumentsBacked, WorkSound, SweepSound, Sound, Supported, Legs
<1>11. CASE Dropped
  <2>1. /\ cycle' = cycle /\ overdue' = overdue /\ calls' = calls /\ faults' \in 0 .. MaxFaults
    BY <1>0, <1>11 DEF Dropped
  <2>2. CASE missed' = {} /\ worker' = worker
    BY <1>0, <2>1, <2>2, WorkerStepKeeps DEF TypeOK
  <2>3. ASSUME NEW w \in Workers, worker' = [worker EXCEPT ![w] = Idle], missed' = missed
        PROVE  IInv'
    BY <1>0, <2>1, <2>3, WorkerStepKeeps DEF TypeOK, Idle
  <2> QED
    BY <1>11, <2>2, <2>3 DEF Dropped
<1>12. CASE UNCHANGED vars
  BY <1>0, <1>12
     DEF vars, IInv, TypeOK, DocumentsBacked, WorkSound, SweepSound, Sound, Supported, Legs
<1> QED
  BY <1>1, <1>2, <1>3, <1>4, <1>5, <1>6, <1>7, <1>8, <1>9, <1>10, <1>11, <1>12 DEF Next, Tick

LEMMA Invariant == Spec => []IInv
BY InitIInv, NextIInv, PTL DEF Spec

(***************************************************************************)
(* The properties.                                                         *)
(***************************************************************************)

(* In every reachable state each variable of the tracker has its type.       *)
THEOREM TypeCorrect == Spec => []TypeOK
<1>1. IInv => TypeOK
  BY DEF IInv
<1> QED
  BY Invariant, <1>1, PTL

(* However operators, runner and sweep overtake one another, no cycle is in a *)
(* state whose legs the ledger does not confirm.                              *)
THEOREM LedgerAlwaysBacks == Spec => []LedgerBacksState
<1>1. IInv => LedgerBacksState
  <2> SUFFICES ASSUME IInv, NEW c \in Cycles, cycle[c].state \in Flow
               PROVE  Through(cycle[c].state) \subseteq Legs(c) \union Skippable(c)
    BY DEF LedgerBacksState, Legs, Skippable
  <2> QED
    BY DEF IInv, DocumentsBacked, Supported
<1> QED
  BY Invariant, <1>1, PTL

(* An ended cycle comes back only through the hard freeze, or through the      *)
(* very update that was decided on while it was open.                         *)
THEOREM EndedCyclesStay == Spec => EndedStaysEnded
<1>1. IInv /\ [Next]_vars =>
      [\A c \in Cycles :
           cycle[c].state \in TERMINAL /\ cycle'[c].state # cycle[c].state =>
               \/ \E m \in missed : m[1] = c /\ cycle'[c].state = STUCK_STATE[m[2]]
               \/ \E w \in Workers :
                     /\ worker[w].pc = "write" /\ worker[w].cycle = c
                     /\ worker[w].to = cycle'[c].state
                     /\ worker[w].from \notin TERMINAL \/ worker[w].kind = "freeze"]_vars
  <2> SUFFICES ASSUME IInv, [Next]_vars, NEW c \in Cycles, cycle'[c] # cycle[c]
               PROVE  \/ \E m \in missed : m[1] = c /\ cycle'[c].state = STUCK_STATE[m[2]]
                      \/ \E w \in Workers :
                            /\ worker[w].pc = "write" /\ worker[w].cycle = c
                            /\ worker[w].to = cycle'[c].state
                            /\ worker[w].from \notin TERMINAL \/ worker[w].kind = "freeze"
    OBVIOUS
  <2>1. cycle \in [Cycles -> Document] /\ WorkSound
    BY DEF IInv, TypeOK
  <2>2. ASSUME NEW w \in Workers, Write(w)
        PROVE  /\ worker[w].pc = "write" /\ worker[w].cycle = c
               /\ worker[w].to = cycle'[c].state
               /\ worker[w].from \notin TERMINAL \/ worker[w].kind = "freeze"
    <3>1. worker[w].pc = "write"
      BY <2>2 DEF Write
    <3>2. worker[w].cycle = c
      BY <2>1, <2>2 DEF Write
    <3>3. cycle'[c] = Updated(cycle[c], worker[w].kind, worker[w].from, worker[w].to)
      BY <2>1, <2>2, <3>2 DEF Write
    <3>4. cycle'[c].state = worker[w].to
      BY <2>1, <3>3 DEF Updated, Document
    <3> QED
      BY <2>1, <3>1, <3>2, <3>4 DEF WorkSound, Sound
  <2>3. CASE SweepMarks
    <3>1. PICK m \in missed :
              cycle' = [cycle EXCEPT ![m[1]] = Updated(@, "stuck", m[2], STUCK_STATE[m[2]])]
      BY <2>3 DEF SweepMarks
    <3>2. m[1] = c
      BY <2>1, <3>1
    <3>3. cycle'[c] = Updated(cycle[c], "stuck", m[2], STUCK_STATE[m[2]])
      BY <2>1, <3>1, <3>2
    <3>4. cycle'[c].state = STUCK_STATE[m[2]]
      BY <2>1, <3>3 DEF Updated, Document
    <3> QED
      BY <3>2, <3>4
  <2>4. (\E o \in Operators : OperatorCalls(o)) => cycle' = cycle
    BY DEF OperatorCalls
  <2>5. Tick => cycle' = cycle
    BY DEF Tick, TickOpens, TickRecovers, TickDrives
  <2>6. SetStuckDecides \/ TickAdvances \/ SweepReads \/ Dropped => cycle' = cycle
    BY DEF SetStuckDecides, TickAdvances, SweepReads, Dropped
  <2>7. (\E x \in Cycles : DeadlinePasses(x)) \/ UNCHANGED vars => cycle' = cycle
    BY DEF DeadlinePasses, vars
  <2> QED
    BY <2>2, <2>3, <2>4, <2>5, <2>6, <2>7 DEF Next
<1> QED
  BY Invariant, <1>1, PTL DEF Spec, EndedStaysEnded
=============================================================================
