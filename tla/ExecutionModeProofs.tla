------------------------- MODULE ExecutionModeProofs -------------------------
(* Proofs about ExecutionMode for any set of strategies and operators: its    *)
(* type invariant, that live rungs are earned under every interleaving, and   *)
(* that the registry implements the abstract ladder.                          *)
EXTENDS ExecutionMode, SequenceTheorems, TLAPS

USE DEF MODES, OBSERVE, PAPER, SHADOW, LIMITED_LIVE, FULL_LIVE, Missing

(* The mode in a row was held, and so was the mode a request that is about to *)
(* write had read, unless it had found no row and took it for OBSERVE.        *)
ReadsWereHeld ==
    /\ \A s \in Strategies : mode[s] # Missing => mode[s] \in held[s]
    /\ \A o \in Operators :
          op[o].pc = "validated" =>
             /\ ValidTransition(op[o].from, op[o].to)
             /\ op[o].from \in held[op[o].strategy] \/ op[o].from = OBSERVE

IInv == TypeOK /\ ReadsWereHeld /\ LiveRungEarned

(***************************************************************************)
(* Types.                                                                  *)
(***************************************************************************)

LEMMA InitType == Init => TypeOK
BY DefaultsAreNotLive, NoStrategyIsNone
   DEF Init, TypeOK, OpState, BootState, Idle, Seeding

(* Appending a row keeps every audit history a sequence of rows.             *)
LEMMA AppendType ==
    ASSUME NEW s \in Strategies, TypeOK, NEW from \in MODES \union {Missing}, NEW to \in MODES
    PROVE  [audit EXCEPT ![s] = Append(@, Row(from, to))]
              \in [Strategies -> Seq([from_mode : MODES \union {Missing}, to_mode : MODES])]
<1>1. audit[s] \in Seq([from_mode : MODES \union {Missing}, to_mode : MODES])
  BY DEF TypeOK
<1>2. Row(from, to) \in [from_mode : MODES \union {Missing}, to_mode : MODES]
  BY DEF Row
<1>3. Append(audit[s], Row(from, to)) \in Seq([from_mode : MODES \union {Missing}, to_mode : MODES])
  BY <1>1, <1>2
<1> QED
  BY <1>3 DEF TypeOK

LEMMA NextType == TypeOK /\ [Next]_vars => TypeOK'
<1> SUFFICES ASSUME TypeOK, [Next]_vars PROVE TypeOK'
  OBVIOUS
<1> USE DEF TypeOK, OpState, BootState
<1>1. ASSUME NEW s \in Strategies, SeedKeepsExisting(s) PROVE TypeOK'
  <2>1. boot.todo \ {s} \in SUBSET Strategies
    OBVIOUS
  <2>2. boot' \in BootState /\ boot'.pc = "seed"
    BY <1>1, <2>1 DEF SeedKeepsExisting, Seeding
  <2> QED
    BY <1>1, <2>2 DEF SeedKeepsExisting
<1>2. ASSUME NEW s \in Strategies, SeedMissing(s) PROVE TypeOK'
  <2>1. DefaultMode[s] \in MODES
    BY DefaultsAreNotLive
  <2>2. mode' \in [Strategies -> MODES \union {Missing}] /\ held' \in [Strategies -> SUBSET MODES]
    BY <1>2, <2>1 DEF SeedMissing, SetMode
  <2>3. boot' \in BootState /\ boot'.cur = s
    BY <1>2 DEF SeedMissing
  <2> QED
    BY <1>2, <2>2, <2>3 DEF SeedMissing
<1>3. CASE SeedAudit
  <2>1. boot.cur \in Strategies
    BY <1>3 DEF SeedAudit
  <2>2. DefaultMode[boot.cur] \in MODES
    BY <2>1, DefaultsAreNotLive
  <2>3. audit' \in [Strategies -> Seq([from_mode : MODES \union {Missing}, to_mode : MODES])]
    BY <1>3, <2>1, <2>2, AppendType DEF SeedAudit
  <2>4. boot.todo \ {boot.cur} \in SUBSET Strategies
    OBVIOUS
  <2>5. boot' \in BootState /\ boot'.pc = "seed"
    BY <1>3, <2>4 DEF SeedAudit, Seeding
  <2> QED
    BY <1>3, <2>3, <2>5 DEF SeedAudit
<1>4. CASE StartServing
  BY <1>4 DEF StartServing, Serving
<1>5. CASE SeedFails
  BY <1>5 DEF SeedFails, Serving
<1>6. CASE Crash
  BY <1>6 DEF Crash, Idle, Seeding
<1>7. ASSUME NEW o \in Operators, NEW s \in Strategies, NEW to \in MODES, ReadMode(o, s, to)
      PROVE TypeOK'
  <2>1. CurrentMode(s) \in MODES
    BY DEF CurrentMode
  <2> QED
    BY <1>7, <2>1 DEF ReadMode
<1>8. ASSUME NEW o \in Operators, WriteMode(o) PROVE TypeOK'
  <2>1. op[o].strategy \in Strategies /\ op[o].to \in MODES
    BY <1>8 DEF WriteMode
  <2>2. mode' \in [Strategies -> MODES \union {Missing}] /\ held' \in [Strategies -> SUBSET MODES]
    BY <1>8, <2>1 DEF WriteMode, SetMode
  <2>3. /\ op' \in [Operators -> OpState]
        /\ \A p \in Operators : op'[p].strategy = op[p].strategy
        /\ \A p \in Operators : op[p].pc = "idle" => op'[p].pc = "idle"
    BY <1>8 DEF WriteMode
  <2> QED
    BY <1>8, <2>2, <2>3 DEF WriteMode
<1>9. ASSUME NEW o \in Operators, AuditMode(o) PROVE TypeOK'
  <2>1. op[o].strategy \in Strategies /\ op[o].from \in MODES /\ op[o].to \in MODES
    BY <1>9 DEF AuditMode
  <2>2. audit' \in [Strategies -> Seq([from_mode : MODES \union {Missing}, to_mode : MODES])]
    BY <1>9, <2>1, AppendType DEF AuditMode
  <2> QED
    BY <1>9, <2>2 DEF AuditMode, Idle
<1>10. ASSUME NEW o \in Operators, RequestFails(o) PROVE TypeOK'
  BY <1>10 DEF RequestFails, Idle
<1>11. CASE UNCHANGED vars
  BY <1>11 DEF vars
<1> QED
  BY <1>1, <1>2, <1>3, <1>4, <1>5, <1>6, <1>7, <1>8, <1>9, <1>10, <1>11
     DEF Next, Startup, Transition

(* Every variable of the registry keeps its type, whoever runs when.         *)
THEOREM TypeCorrect == Spec => []TypeOK
<1>1. Init => TypeOK
  BY InitType
<1>2. TypeOK /\ [Next]_vars => TypeOK'
  BY NextType
<1> QED
  BY <1>1, <1>2, PTL DEF Spec

(***************************************************************************)
(* Live rungs are earned.                                                  *)
(***************************************************************************)

(* Writing an earned mode keeps the rows and the histories in order, and      *)
(* leaves every request that is about to write justified.                     *)
LEMMA WriteKeeps ==
    ASSUME IInv, TypeOK', NEW s \in Strategies, NEW m \in MODES,
           SetMode(s, m), IsBroadcastAllowed(m) => (m - 1) \in held[s],
           \A o \in Operators : op'[o] = op[o] \/ op'[o].pc # "validated"
    PROVE  IInv'
<1>1. \A r \in Strategies : held[r] \subseteq held'[r]
  BY DEF SetMode, IInv, TypeOK
<1>2. m \in held'[s] /\ mode'[s] = m /\ \A r \in Strategies \ {s} : mode'[r] = mode[r]
  BY DEF SetMode, IInv, TypeOK
<1>3. ReadsWereHeld'
  <2>1. \A r \in Strategies : mode'[r] # Missing => mode'[r] \in held'[r]
    BY <1>1, <1>2 DEF IInv, ReadsWereHeld
  <2>2. ASSUME NEW o \in Operators, op'[o].pc = "validated"
        PROVE  /\ ValidTransition(op'[o].from, op'[o].to)
               /\ op'[o].from \in held'[op'[o].strategy] \/ op'[o].from = OBSERVE
    BY <2>2, <1>1 DEF IInv, ReadsWereHeld, TypeOK
  <2> QED
    BY <2>1, <2>2 DEF ReadsWereHeld
<1>4. LiveRungEarned'
  BY <1>1 DEF IInv, LiveRungEarned, SetMode, TypeOK
<1> QED
  BY <1>3, <1>4 DEF IInv

(* What a validated request is about to write is earned.                     *)
LEMMA ValidatedIsEarned ==
    ASSUME IInv, NEW o \in Operators, op[o].pc = "validated"
    PROVE  IsBroadcastAllowed(op[o].to) => (op[o].to - 1) \in held[op[o].strategy]
<1> DEFINE from == op[o].from
           to == op[o].to
           past == held[op[o].strategy]
<1>1. op[o].strategy \in Strategies /\ from \in MODES /\ to \in MODES
  BY DEF IInv, TypeOK, OpState
<1>2. to <= from + 1 /\ (from \in past \/ from = OBSERVE)
  BY <1>1 DEF IInv, ReadsWereHeld, ValidTransition
<1>3. \A m \in past : IsBroadcastAllowed(m) => (m - 1) \in past
  BY <1>1 DEF IInv, LiveRungEarned
<1>4. ASSUME to \in {LIMITED_LIVE, FULL_LIVE} PROVE (to - 1) \in past
  <2>1. from \in past /\ from >= SHADOW
    BY <1>1, <1>2, <1>4
  <2>2. from = SHADOW \/ from = LIMITED_LIVE \/ from = FULL_LIVE
    BY <2>1, <1>1
  <2>3. CASE from = SHADOW
    BY <2>1, <2>3, <1>2, <1>4
  <2>4. CASE from = LIMITED_LIVE
    <3>1. SHADOW \in past
      BY <2>1, <2>4, <1>3 DEF IsBroadcastAllowed
    <3> QED
      BY <2>1, <2>4, <3>1, <1>4
  <2>5. CASE from = FULL_LIVE
    <3>1. LIMITED_LIVE \in past
      BY <2>1, <2>5, <1>3 DEF IsBroadcastAllowed
    <3>2. SHADOW \in past
      BY <3>1, <1>3 DEF IsBroadcastAllowed
    <3> QED
      BY <3>1, <3>2, <1>4
  <2> QED
    BY <2>2, <2>3, <2>4, <2>5
<1> QED
  BY <1>4 DEF IsBroadcastAllowed

LEMMA InitInductive == Init => IInv
BY InitType DEF Init, IInv, ReadsWereHeld, LiveRungEarned, Idle

LEMMA NextInductive == IInv /\ [Next]_vars => IInv'
<1> SUFFICES ASSUME IInv, [Next]_vars PROVE IInv'
  OBVIOUS
<1>t. TypeOK'
  BY NextType DEF IInv
<1> USE <1>t DEF IInv, ReadsWereHeld
<1>1. ASSUME NEW s \in Strategies, SeedKeepsExisting(s) PROVE IInv'
  BY <1>1 DEF SeedKeepsExisting, LiveRungEarned
<1>2. ASSUME NEW s \in Strategies, SeedMissing(s) PROVE IInv'
  <2>1. DefaultMode[s] \in MODES /\ ~IsBroadcastAllowed(DefaultMode[s])
    BY DefaultsAreNotLive DEF IsBroadcastAllowed
  <2>2. SetMode(s, DefaultMode[s]) /\ op' = op
    BY <1>2 DEF SeedMissing
  <2> QED
    BY <2>1, <2>2, WriteKeeps
<1>3. CASE SeedAudit
  BY <1>3 DEF SeedAudit, LiveRungEarned
<1>4. CASE StartServing
  BY <1>4 DEF StartServing, LiveRungEarned
<1>5. CASE SeedFails
  BY <1>5 DEF SeedFails, LiveRungEarned
<1>6. CASE Crash
  BY <1>6 DEF Crash, Idle, LiveRungEarned
<1>7. ASSUME NEW o \in Operators, NEW s \in Strategies, NEW to \in MODES, ReadMode(o, s, to)
      PROVE IInv'
  <2>1. CurrentMode(s) \in held[s] \/ CurrentMode(s) = OBSERVE
    BY DEF CurrentMode
  <2> QED
    BY <1>7, <2>1 DEF ReadMode, LiveRungEarned, TypeOK
<1>8. ASSUME NEW o \in Operators, WriteMode(o) PROVE IInv'
  <2>1. op[o].strategy \in Strategies /\ op[o].to \in MODES /\ op[o].pc = "validated"
    BY <1>8 DEF WriteMode, TypeOK, OpState
  <2>2. IsBroadcastAllowed(op[o].to) => (op[o].to - 1) \in held[op[o].strategy]
    BY <2>1, ValidatedIsEarned
  <2>3. SetMode(op[o].strategy, op[o].to)
    BY <1>8 DEF WriteMode
  <2>4. \A p \in Operators : op'[p] = op[p] \/ op'[p].pc # "validated"
    BY <1>8 DEF WriteMode, TypeOK, OpState
  <2> QED
    BY <2>1, <2>2, <2>3, <2>4, WriteKeeps
<1>9. ASSUME NEW o \in Operators, AuditMode(o) PROVE IInv'
  BY <1>9 DEF AuditMode, Idle, TypeOK, LiveRungEarned
<1>10. ASSUME NEW o \in Operators, RequestFails(o) PROVE IInv'
  BY <1>10 DEF RequestFails, Idle, TypeOK, LiveRungEarned
<1>11. CASE UNCHANGED vars
  BY <1>11 DEF vars, LiveRungEarned
<1> QED
  BY <1>1, <1>2, <1>3, <1>4, <1>5, <1>6, <1>7, <1>8, <1>9, <1>10, <1>11
     DEF Next, Startup, Transition

(* Whatever the operators do and wherever the process crashes, a strategy is  *)
(* never on a broadcasting rung without having stood on the one below.        *)
THEOREM LiveRungsAreEarned == Spec => []LiveRungEarned
<1>1. Init => IInv
  BY InitInductive
<1>2. IInv /\ [Next]_vars => IInv'
  BY NextInductive
<1>3. IInv => LiveRungEarned
  BY DEF IInv
<1> QED
  BY <1>1, <1>2, <1>3, PTL DEF Spec

(***************************************************************************)
(* Implementation of the abstract ladder.                                  *)
(***************************************************************************)

(* A write of an earned mode is a Reach step of the abstract ladder.         *)
LEMMA WriteReaches ==
    ASSUME TypeOK, NEW s \in Strategies, NEW m \in MODES, SetMode(s, m),
           IsBroadcastAllowed(m) => (m - 1) \in held[s]
    PROVE  Ladder!Next
<1>1. Ladder!Reach(s, m)
  BY DEF Ladder!Reach, Ladder!Earned, SetMode, IsBroadcastAllowed, Ladder!IsBroadcastAllowed,
         Ladder!LIMITED_LIVE, Ladder!FULL_LIVE
<1> QED
  BY <1>1 DEF Ladder!Next, Ladder!MODES, Ladder!OBSERVE, Ladder!FULL_LIVE

LEMMA StepRefines == IInv /\ [Next]_vars => [Ladder!Next]_held
<1> SUFFICES ASSUME IInv, [Next]_vars PROVE Ladder!Next \/ UNCHANGED held
  OBVIOUS
<1>1. ASSUME NEW s \in Strategies, SeedMissing(s) PROVE Ladder!Next
  <2>1. DefaultMode[s] \in MODES /\ ~IsBroadcastAllowed(DefaultMode[s])
    BY DefaultsAreNotLive DEF IsBroadcastAllowed
  <2>2. SetMode(s, DefaultMode[s])
    BY <1>1 DEF SeedMissing
  <2> QED
    BY <2>1, <2>2, WriteReaches DEF IInv
<1>2. ASSUME NEW o \in Operators, WriteMode(o) PROVE Ladder!Next
  <2>1. op[o].strategy \in Strategies /\ op[o].to \in MODES /\ op[o].pc = "validated"
    BY <1>2 DEF WriteMode, IInv, TypeOK, OpState
  <2>2. IsBroadcastAllowed(op[o].to) => (op[o].to - 1) \in held[op[o].strategy]
    BY <2>1, ValidatedIsEarned
  <2>3. SetMode(op[o].strategy, op[o].to)
    BY <1>2 DEF WriteMode
  <2> QED
    BY <2>1, <2>2, <2>3, WriteReaches DEF IInv
<1>3. ASSUME NEW o \in Operators, NEW s \in Strategies, NEW to \in MODES, ReadMode(o, s, to)
      PROVE UNCHANGED held
  BY <1>3 DEF ReadMode
<1> QED
  BY <1>1, <1>2, <1>3
     DEF Next, Startup, Transition, SeedKeepsExisting, SeedAudit, StartServing, SeedFails,
         Crash, AuditMode, RequestFails, vars

(* The registry, with its races and crashes, implements PromotionLadder.      *)
THEOREM ImplementsLadder == Spec => LadderPromise
<1>1. Init => Ladder!Init
  BY DEF Init, Ladder!Init
<1>2. Init => IInv
  BY InitInductive
<1>3. IInv /\ [Next]_vars => IInv'
  BY NextInductive
<1>4. IInv /\ [Next]_vars => [Ladder!Next]_held
  BY StepRefines
<1> QED
  BY <1>1, <1>2, <1>3, <1>4, PTL DEF Spec, LadderPromise, Ladder!Spec

(***************************************************************************)
(* The audit trail is the history.                                         *)
(***************************************************************************)

AuditRow == [from_mode : MODES \union {Missing}, to_mode : MODES]

(* Whoever is about to insert an audit row has written its mode, and a mode   *)
(* that was held is in the audit, or about to be, unless something failed.    *)
AuditInv ==
    /\ \A s \in Strategies : Audited(s) \subseteq held[s]
    /\ boot.pc = "audit" => DefaultMode[boot.cur] \in held[boot.cur]
    /\ \A o \in Operators : op[o].pc = "written" => op[o].to \in held[op[o].strategy]
    /\ \A s \in Strategies : \A m \in held[s] :
          \/ m \in Audited(s)
          \/ faults > 0
          \/ boot.pc = "audit" /\ boot.cur = s /\ DefaultMode[s] = m
          \/ \E o \in Operators :
                op[o].pc = "written" /\ op[o].strategy = s /\ op[o].to = m

(* A row appended to a history adds its mode and keeps the others.           *)
LEMMA AppendAudits ==
    ASSUME TypeOK, NEW s \in Strategies, NEW from \in MODES \union {Missing}, NEW to \in MODES,
           audit' = [audit EXCEPT ![s] = Append(@, Row(from, to))]
    PROVE  \A r \in Strategies :
              Audited(r)' = IF r = s THEN Audited(r) \union {to} ELSE Audited(r)
<1> DEFINE q == audit[s]
           row == Row(from, to)
<1>1. q \in Seq(AuditRow) /\ row \in AuditRow /\ row.to_mode = to
  BY DEF TypeOK, AuditRow, Row
<1>2. audit'[s] = Append(q, row) /\ \A r \in Strategies \ {s} : audit'[r] = audit[r]
  BY DEF TypeOK
<1>3. /\ DOMAIN q = 1 .. Len(q) /\ DOMAIN Append(q, row) = 1 .. Len(q) + 1
      /\ \A i \in 1 .. Len(q) : Append(q, row)[i] = q[i]
      /\ Append(q, row)[Len(q) + 1] = row
      /\ Len(q) \in Nat
  BY <1>1
<1>4. {Append(q, row)[i].to_mode : i \in DOMAIN Append(q, row)}
         = {q[i].to_mode : i \in DOMAIN q} \union {to}
  <2>1. 1 .. Len(q) + 1 = (1 .. Len(q)) \union {Len(q) + 1}
    BY <1>3
  <2> QED
    BY <1>1, <1>3, <2>1
<1>5. Audited(s)' = Audited(s) \union {to}
  BY <1>2, <1>4 DEF Audited
<1>6. ASSUME NEW r \in Strategies \ {s} PROVE Audited(r)' = Audited(r)
  BY <1>2 DEF Audited
<1> QED
  BY <1>5, <1>6

(* A write of a mode leaves the audit as it is.                              *)
LEMMA AuditUnchanged ==
    ASSUME audit' = audit PROVE \A s \in Strategies : Audited(s)' = Audited(s)
BY DEF Audited

LEMMA AuditInit == Init => AuditInv
BY DEF Init, AuditInv, Audited, Idle, Seeding

LEMMA AuditNext == TypeOK /\ AuditInv /\ [Next]_vars => AuditInv'
<1> SUFFICES ASSUME TypeOK, AuditInv, [Next]_vars PROVE AuditInv'
  OBVIOUS
<1> USE DEF TypeOK, OpState, BootState
<1>1. ASSUME NEW s \in Strategies, SeedKeepsExisting(s) PROVE AuditInv'
  BY <1>1, AuditUnchanged DEF SeedKeepsExisting, Seeding, AuditInv
<1>2. ASSUME NEW s \in Strategies, SeedMissing(s) PROVE AuditInv'
  BY <1>2, AuditUnchanged, DefaultsAreNotLive DEF SeedMissing, SetMode, AuditInv
<1>3. CASE SeedAudit
  <2>1. PICK s \in Strategies : boot.cur = s
    BY <1>3 DEF SeedAudit
  <2>2. DefaultMode[s] \in MODES
    BY DefaultsAreNotLive
  <2>3. audit' = [audit EXCEPT ![s] = Append(@, Row(Missing, DefaultMode[s]))]
    BY <1>3, <2>1 DEF SeedAudit
  <2>4. \A r \in Strategies :
           Audited(r)' = IF r = s THEN Audited(r) \union {DefaultMode[s]} ELSE Audited(r)
    BY <2>2, <2>3, AppendAudits
  <2>5. boot.pc = "audit" /\ boot'.pc = "seed" /\ UNCHANGED <<op, faults, held>>
    BY <1>3 DEF SeedAudit, Seeding
  <2>6. \A r \in Strategies : Audited(r)' \subseteq held'[r]
    <3>1. DefaultMode[s] \in held[s]
      BY <2>1, <2>5 DEF AuditInv
    <3>2. \A r \in Strategies : Audited(r) \subseteq held[r] /\ held'[r] = held[r]
      BY <2>5 DEF AuditInv
    <3> HIDE DEF TypeOK
    <3> QED
      BY <2>4, <3>1, <3>2
  <2>7. \A p \in Operators : op'[p].pc = "written" => op'[p].to \in held'[op'[p].strategy]
    BY <2>5 DEF AuditInv
  <2>8. ASSUME NEW r \in Strategies, NEW x \in held'[r]
        PROVE  \/ x \in Audited(r)'
               \/ faults' > 0
               \/ \E p \in Operators :
                     op'[p].pc = "written" /\ op'[p].strategy = r /\ op'[p].to = x
    BY <2>1, <2>4, <2>5, <2>8 DEF AuditInv
  <2> QED
    BY <2>5, <2>6, <2>7, <2>8 DEF AuditInv
<1>4. CASE StartServing
  BY <1>4, AuditUnchanged DEF StartServing, Serving, AuditInv
<1>5. CASE SeedFails
  BY <1>5, AuditUnchanged DEF SeedFails, Serving, AuditInv
<1>6. CASE Crash
  BY <1>6, AuditUnchanged DEF Crash, Idle, Seeding, AuditInv
<1>7. ASSUME NEW o \in Operators, NEW s \in Strategies, NEW to \in MODES, ReadMode(o, s, to)
      PROVE AuditInv'
  <2>1. op[o].pc # "written" /\ op'[o].pc # "written" /\ \A p \in Operators \ {o} : op'[p] = op[p]
    BY <1>7 DEF ReadMode
  <2> QED
    BY <1>7, <2>1, AuditUnchanged DEF ReadMode, AuditInv
<1>8. ASSUME NEW o \in Operators, WriteMode(o) PROVE AuditInv'
  <2>1. PICK s \in Strategies, m \in MODES : op[o].strategy = s /\ op[o].to = m
    BY <1>8 DEF WriteMode
  <2>2. /\ op'[o].pc = "written" /\ op'[o].strategy = s /\ op'[o].to = m
        /\ \A p \in Operators \ {o} : op'[p] = op[p]
    BY <1>8, <2>1 DEF WriteMode
  <2>3. /\ held'[s] = held[s] \union {m}
        /\ \A r \in Strategies \ {s} : held'[r] = held[r]
    BY <1>8, <2>1 DEF WriteMode, SetMode
  <2>4. op[o].pc = "validated" /\ UNCHANGED <<audit, boot, faults>>
    BY <1>8 DEF WriteMode
  <2>5. \A r \in Strategies : Audited(r)' = Audited(r) /\ held[r] \subseteq held'[r]
    BY <2>3, <2>4, AuditUnchanged
  <2>6. \A r \in Strategies : Audited(r)' \subseteq held'[r]
    BY <2>5 DEF AuditInv
  <2>7. boot'.pc = "audit" => DefaultMode[boot'.cur] \in held'[boot'.cur]
    BY <2>4, <2>5 DEF AuditInv
  <2>8. \A p \in Operators : op'[p].pc = "written" => op'[p].to \in held'[op'[p].strategy]
    BY <2>2, <2>3, <2>5 DEF AuditInv
  <2>9. ASSUME NEW r \in Strategies, NEW x \in held'[r]
        PROVE  \/ x \in Audited(r)'
               \/ faults' > 0
               \/ boot'.pc = "audit" /\ boot'.cur = r /\ DefaultMode[r] = x
               \/ \E p \in Operators :
                     op'[p].pc = "written" /\ op'[p].strategy = r /\ op'[p].to = x
    <3>1. CASE r = s /\ x = m
      BY <2>2, <3>1
    <3>2. CASE x \in held[r]
      BY <2>2, <2>4, <2>5, <3>2 DEF AuditInv
    <3> QED
      BY <2>3, <2>9, <3>1, <3>2
  <2> QED
    BY <2>6, <2>7, <2>8, <2>9 DEF AuditInv
<1>9. ASSUME NEW o \in Operators, AuditMode(o) PROVE AuditInv'
  <2>1. PICK s \in Strategies, from \in MODES, to \in MODES :
           op[o].strategy = s /\ op[o].from = from /\ op[o].to = to
    BY <1>9 DEF AuditMode
  <2>2. audit' = [audit EXCEPT ![s] = Append(@, Row(from, to))]
    BY <1>9, <2>1 DEF AuditMode
  <2>3. \A r \in Strategies :
           Audited(r)' = IF r = s THEN Audited(r) \union {to} ELSE Audited(r)
    BY <2>2, AppendAudits
  <2>4. op[o].pc = "written" /\ op'[o].pc = "idle" /\ \A p \in Operators \ {o} : op'[p] = op[p]
    BY <1>9 DEF AuditMode, Idle
  <2>5. UNCHANGED <<boot, faults, held>>
    BY <1>9 DEF AuditMode
  <2>6. ASSUME NEW r \in Strategies PROVE Audited(r)' \subseteq held'[r]
    <3>1. Audited(r) \subseteq held[r]
      BY DEF AuditInv
    <3>2. to \in held[s]
      BY <2>1, <2>4 DEF AuditInv
    <3> QED
      BY <2>3, <2>5, <3>1, <3>2
  <2>7. boot'.pc = "audit" => DefaultMode[boot'.cur] \in held'[boot'.cur]
    BY <2>5 DEF AuditInv
  <2>8. \A p \in Operators : op'[p].pc = "written" => op'[p].to \in held'[op'[p].strategy]
    BY <2>4, <2>5 DEF AuditInv
  <2>9. ASSUME NEW r \in Strategies, NEW x \in held'[r]
        PROVE  \/ x \in Audited(r)'
               \/ faults' > 0
               \/ boot'.pc = "audit" /\ boot'.cur = r /\ DefaultMode[r] = x
               \/ \E p \in Operators :
                     op'[p].pc = "written" /\ op'[p].strategy = r /\ op'[p].to = x
    <3>1. CASE r = s /\ x = to
      BY <2>3, <3>1
    <3>2. CASE ~(r = s /\ x = to)
      <4>1. \/ x \in Audited(r)
            \/ faults > 0
            \/ boot.pc = "audit" /\ boot.cur = r /\ DefaultMode[r] = x
            \/ \E p \in Operators : op[p].pc = "written" /\ op[p].strategy = r /\ op[p].to = x
        BY <2>5, <2>9 DEF AuditInv
      <4>2. \A p \in Operators : op[p].strategy = r /\ op[p].to = x => p # o
        BY <2>1, <3>2
      <4> QED
        BY <2>3, <2>4, <2>5, <4>1, <4>2
    <3> QED
      BY <3>1, <3>2
  <2> QED
    BY <2>6, <2>7, <2>8, <2>9 DEF AuditInv
<1>10. ASSUME NEW o \in Operators, RequestFails(o) PROVE AuditInv'
  <2>1. op'[o].pc = "idle" /\ \A p \in Operators \ {o} : op'[p] = op[p]
    BY <1>10 DEF RequestFails, Idle
  <2> QED
    BY <1>10, <2>1, AuditUnchanged DEF RequestFails, AuditInv
<1>11. CASE UNCHANGED vars
  BY <1>11, AuditUnchanged DEF vars, AuditInv
<1> QED
  BY <1>1, <1>2, <1>3, <1>4, <1>5, <1>6, <1>7, <1>8, <1>9, <1>10, <1>11
     DEF Next, Startup, Transition

(* Whoever transitions when, the audit trail claims no mode that was not      *)
(* held, and misses none as long as nothing fails.                            *)
THEOREM AuditTrailIsHistory == Spec => []AuditIsHistory
<1>1. Init => TypeOK /\ AuditInv
  BY InitType, AuditInit
<1>2. TypeOK /\ AuditInv /\ [Next]_vars => TypeOK' /\ AuditInv'
  BY NextType, AuditNext
<1>3. TypeOK /\ AuditInv => AuditIsHistory
  BY DEF AuditInv, AuditIsHistory
<1> QED
  BY <1>1, <1>2, <1>3, PTL DEF Spec
=============================================================================
