----------------------------- MODULE LedgerProofs -----------------------------
(***************************************************************************)
(* The attempt book-keeping of RecoverySystem, for every value of the      *)
(* constants.  First, AttemptsInOrder holds and the engine implements      *)
(* AttemptLedger.                                                          *)
(*                                                                         *)
(* The ledger has three writers (an ingested first outcome, a reservation, *)
(* a resolution), none of which locks the case.  What makes them safe is   *)
(* an invariant that relates four places: a SCHEDULED case has only        *)
(* attempts that failed or ended unknown, a verdict reached on such a case *)
(* stays true until it is used, and an undelivered outbox row stands for   *)
(* the one attempt in flight.                                              *)
(*                                                                         *)
(* The second part is the ledger and the rail: they agree on every         *)
(* delivered attempt, and a second debit can only come after an attempt on *)
(* record as unknown. The worker takes no lock at the rail and may give up *)
(* on a request that goes on; what holds the two together is the           *)
(* idempotency key, whose outcome the rail never changes, and the fact     *)
(* that only the row being sent can be answered.                           *)
(***************************************************************************)
EXTENDS RecoveryTypes

\* Nothing is in flight and nothing forbids another attempt.
Settled(c) ==
  /\ intents[c][1] # "none"
  /\ \A n \in SequenceNos : intents[c][n] \in {"none", "failure", "unknown"}

SettledWhenScheduled ==
  \A c \in Cycles : cycleState[c] = "SCHEDULED" => Settled(c)

\* A read of a SCHEDULED case is still good when it is acted on.
VerdictCurrent ==
  phase = "decide" /\ seen.state = "SCHEDULED" =>
    Settled(current[1]) /\ seen.attempts = CountAttempts(current[1])

\* Undelivered rows and attempts in flight correspond; the worker's own list
\* holds undelivered rows, and not the one being sent.
RowsReserved ==
  /\ \A c \in Cycles, n \in SequenceNos :
       intents[c][n] = "reserved" <=> \E r \in outbox : r.cycle = c /\ r.seq = n
  /\ \A r, s \in outbox : r.cycle = s.cycle => r = s
  /\ rows \subseteq outbox
  /\ phase \in {"await", "settle"} => sending \in outbox \ rows

LedgerInv == AttemptsInOrder /\ SettledWhenScheduled /\ VerdictCurrent /\ RowsReserved

------------------------------------------------------------------------------

\* A set of sequence numbers without gaps is 1 .. its cardinality.
LEMMA PrefixCount ==
  ASSUME NEW S \in SUBSET SequenceNos,
         \A m, n \in SequenceNos : m < n /\ n \in S => m \in S
  PROVE  \A m \in SequenceNos : m \in S <=> m <= Cardinality(S)
<1> SUFFICES ASSUME NEW m \in SequenceNos
             PROVE  m \in S <=> m <= Cardinality(S)
  OBVIOUS
<1>1. m \in Nat \ {0} /\ IsFiniteSet(S) /\ Cardinality(S) \in Nat
  BY CountBound, PolicyAssumption DEF SequenceNos
<1>2. ASSUME m \in S PROVE m <= Cardinality(S)
  <2>1. 1 .. m \subseteq S
    BY <1>1, <1>2, PolicyAssumption DEF SequenceNos
  <2>2. Cardinality(1 .. m) = m
    BY <1>1, FS_Interval
  <2> QED  BY <1>1, <2>1, <2>2, FS_Subset
<1>3. ASSUME m \notin S PROVE Cardinality(S) <= m - 1
  <2>1. S \subseteq 1 .. m - 1
    BY <1>1, <1>3, PolicyAssumption DEF SequenceNos
  <2>2. IsFiniteSet(1 .. m - 1) /\ Cardinality(1 .. m - 1) = m - 1
    <3>1. PICK k \in Int : k = m - 1
      BY <1>1
    <3>2. IsFiniteSet(1 .. k) /\ Cardinality(1 .. k) = IF 1 > k THEN 0 ELSE k - 1 + 1
      BY FS_Interval
    <3> QED  BY <1>1, <3>1, <3>2
  <2> QED  BY <2>1, <2>2, FS_Subset
<1> QED  BY <1>1, <1>2, <1>3

\* The number of attempts is the last sequence number used.
LEMMA CountIsLast ==
  ASSUME AttemptsInOrder, NEW c \in Cycles, NEW n \in SequenceNos
  PROVE  intents[c][n] # "none" <=> n <= CountAttempts(c)
<1> DEFINE S == {m \in SequenceNos : intents[c][m] # "none"}
<1>1. \A m, k \in SequenceNos : m < k /\ k \in S => m \in S
  BY DEF AttemptsInOrder
<1>2. n \in S <=> n <= Cardinality(S)
  <2> HIDE DEF S
  <2>1. S \in SUBSET SequenceNos
    BY DEF S
  <2> QED  BY <1>1, <2>1, PrefixCount
<1> QED  BY <1>2 DEF CountAttempts

\* What the writer of an attempt in flight may rely on: it is the last one and
\* all earlier ones may be followed.
LEMMA InFlightIsLast ==
  ASSUME AttemptsInOrder, NEW c \in Cycles, NEW n \in SequenceNos,
         intents[c][n] \in {"reserved", "none"}
  PROVE  \A m \in SequenceNos :
           /\ m > n => intents[c][m] = "none"
           /\ m < n /\ intents[c][n] = "reserved" => intents[c][m] \in {"failure", "unknown"}
BY DEF AttemptsInOrder, SequenceNos

------------------------------------------------------------------------------
(***************************************************************************)
(* Steps that do not write the ledger                                      *)
(***************************************************************************)

\* Such a step may take cases out of SCHEDULED but not into it.
LEMMA LedgerKept ==
  ASSUME LedgerInv, UNCHANGED <<intents, outbox>>,
         \A c \in Cycles : cycleState'[c] = "SCHEDULED" => cycleState[c] = "SCHEDULED",
         rows' \subseteq outbox,
         phase' \in {"await", "settle"} => sending' \in outbox \ rows',
         phase' = "decide" /\ seen'.state = "SCHEDULED" =>
           /\ Settled(current'[1])
           /\ seen'.attempts = CountAttempts(current'[1])
  PROVE  LedgerInv'
<1>1. AttemptsInOrder'
  BY DEF LedgerInv, AttemptsInOrder
<1>2. SettledWhenScheduled'
  BY DEF LedgerInv, SettledWhenScheduled, Settled
<1>3. VerdictCurrent'
  BY DEF VerdictCurrent, Settled, CountAttempts
<1>4. RowsReserved'
  BY DEF LedgerInv, RowsReserved
<1> QED  BY <1>1, <1>2, <1>3, <1>4 DEF LedgerInv

\* Every request that is not a first outcome.
LEMMA OtherRequestsLedger ==
  ASSUME TypeInv, LedgerInv, NEW w \in Webhooks,
         \/ IngestCycleDue(w) \/ BeginRequest(w) \/ AbortRequest(w)
         \/ QuarantineStaleOutcome(w)
         \/ IngestMandateRevoked(w) \/ IngestNotificationOptedOut(w),
         UNCHANGED local
  PROVE  LedgerInv' /\ UNCHANGED intents
<1>1. UNCHANGED <<intents, outbox>>
  BY DEF IngestCycleDue, BeginRequest, AbortRequest, QuarantineStaleOutcome,
         IngestMandateRevoked, IngestNotificationOptedOut, tables
<1>2. \A c \in Cycles : cycleState'[c] = "SCHEDULED" => cycleState[c] = "SCHEDULED"
  <2>1. CASE IngestCycleDue(w)
    BY <2>1 DEF IngestCycleDue, TypeInv, TypeOK, DbTypeOK
  <2>2. CASE BeginRequest(w) \/ AbortRequest(w) \/ QuarantineStaleOutcome(w)
    BY <2>2 DEF BeginRequest, AbortRequest, QuarantineStaleOutcome, tables
  <2>3. CASE IngestMandateRevoked(w) \/ IngestNotificationOptedOut(w)
    <3>1. PICK e \in {"MANDATE_REVOKED", "OPTED_OUT"} : AbandonInFlightCycles(w, e)
      BY <2>3 DEF IngestMandateRevoked, IngestNotificationOptedOut
    <3>2. \A c \in Cycles : cycleState'[c] \in {cycleState[c], "ABANDONED"}
      BY <3>1, AbandonEffect
    <3> QED  BY <3>2
  <2> QED  BY <2>1, <2>2, <2>3
<1>3. LedgerInv'
  BY <1>1, <1>2, LedgerKept DEF LedgerInv, VerdictCurrent, RowsReserved, local
<1> QED  BY <1>1, <1>3

\* The worker, when it does not write the ledger.  ReadStep is where the
\* verdict is reached.
LEMMA WorkerReadsLedger ==
  ASSUME TypeInv, LedgerInv,
         \/ StartTick \/ (\E r \in batch : ReadStep(r))
         \/ CancelStep \/ ProcessNotifyStep
         \/ FetchOutbox \/ (\E row \in rows : SendToRail(row))
         \/ RetryLater \/ ReadDeliveredCycle
         \/ FindExhaustedPlans \/ (\E c \in sweepList : SweepCycle(c)) \/ EndTick
  PROVE  LedgerInv' /\ UNCHANGED intents
<1>1. CASE StartTick
  BY <1>1, LedgerKept DEF StartTick, FetchDueSteps, LedgerInv, RowsReserved
<1>2. CASE \E r \in batch : ReadStep(r)
  <2>1. PICK r \in batch : ReadStep(r)
    BY <1>2
  <2>2. r[1] \in Cycles
    BY DEF TypeInv, TypeOK, WorkerTypeOK, StepRef
  <2>3. /\ phase' = "decide" /\ current' = r
        /\ seen'.state = cycleState[r[1]] /\ seen'.attempts = CountAttempts(r[1])
        /\ UNCHANGED <<intents, outbox, cycleState, rows>>
    BY <2>1 DEF ReadStep, tables
  <2> QED
    BY <2>2, <2>3, LedgerKept DEF LedgerInv, SettledWhenScheduled, RowsReserved
<1>3. CASE CancelStep \/ ProcessNotifyStep
  <2>1. UNCHANGED <<intents, outbox, cycleState, rows>> /\ phase' = "steps"
    BY <1>3 DEF CancelStep, ProcessNotifyStep, CommitStep
  <2> QED  BY <2>1, LedgerKept DEF LedgerInv, RowsReserved
<1>4. CASE FetchOutbox
  BY <1>4, LedgerKept DEF FetchOutbox, tables, LedgerInv, RowsReserved
<1>5. CASE \E row \in rows : SendToRail(row)
  BY <1>5, LedgerKept DEF SendToRail, tables, LedgerInv, RowsReserved
<1>6. CASE RetryLater
  BY <1>6, LedgerKept DEF RetryLater, RowHandled, tables, LedgerInv, RowsReserved
<1>7. CASE ReadDeliveredCycle
  BY <1>7, LedgerKept DEF ReadDeliveredCycle, tables, LedgerInv, RowsReserved
<1>8. CASE FindExhaustedPlans \/ EndTick
  BY <1>8, LedgerKept DEF FindExhaustedPlans, EndTick, tables, LedgerInv, RowsReserved
<1>9. CASE \E c \in sweepList : SweepCycle(c)
  <2>1. PICK c \in sweepList : SweepCycle(c)
    BY <1>9
  <2>2. /\ cycleState' = [cycleState EXCEPT ![c] =
                            Transition("SCHEDULED", "BUDGET_EXHAUSTED")]
        /\ UNCHANGED <<intents, outbox, rows, sending, phase, current, seen>>
    BY <2>1 DEF SweepCycle
  <2>3. cycleState' = [cycleState EXCEPT ![c] = "ABANDONED"]
    BY <2>2, Edges
  <2>4. \A d \in Cycles : cycleState'[d] = "SCHEDULED" => cycleState[d] = "SCHEDULED"
    BY <2>3 DEF TypeInv, TypeOK, DbTypeOK
  <2> QED  BY <2>2, <2>4, LedgerKept DEF LedgerInv, VerdictCurrent, RowsReserved
<1> QED  BY <1>1, <1>2, <1>3, <1>4, <1>5, <1>6, <1>7, <1>8, <1>9

\* Faults, the rail, the operator and the clock.
LEMMA EnvironmentLedger ==
  ASSUME LedgerInv,
         \/ RequestError \/ WorkerCrash \/ RailStep
         \/ SetKillSwitch \/ ClockTick \/ UNCHANGED vars
  PROVE  LedgerInv' /\ UNCHANGED intents
<1>1. CASE WorkerCrash
  BY <1>1, LedgerKept DEF WorkerCrash
<1>2. CASE RequestError \/ RailStep \/ SetKillSwitch \/ ClockTick \/ UNCHANGED vars
  <2>1. UNCHANGED <<intents, outbox, cycleState, local>>
    BY <1>2 DEF RequestError, RailStep, SetKillSwitch, ClockTick, vars, tables
  <2> QED
    BY <2>1, LedgerKept DEF LedgerInv, VerdictCurrent, RowsReserved, local
<1> QED  BY <1>1, <1>2

------------------------------------------------------------------------------
(***************************************************************************)
(* The three writers of the ledger                                         *)
(***************************************************************************)

\* Writing one cell: the other attempts keep their outcome, and the other
\* cycles their number of attempts.
LEMMA OneCell ==
  ASSUME TypeInv, NEW c \in Cycles, NEW n \in SequenceNos, NEW v,
         intents' = [intents EXCEPT ![c][n] = v]
  PROVE  /\ intents'[c][n] = v
         /\ \A m \in SequenceNos : m # n => intents'[c][m] = intents[c][m]
         /\ \A d \in Cycles : d # c => intents'[d] = intents[d]
BY DEF TypeInv, TypeOK, DbTypeOK

\* The same, cell by cell.
LEMMA EachCell ==
  ASSUME TypeInv, NEW c \in Cycles, NEW n \in SequenceNos, NEW v,
         intents' = [intents EXCEPT ![c][n] = v]
  PROVE  \A d \in Cycles, m \in SequenceNos :
           \/ d = c /\ m = n /\ intents'[d][m] = v
           \/ intents'[d][m] = intents[d][m]
<1> TAKE d \in Cycles, m \in SequenceNos
<1>1. CASE d = c /\ m = n
  BY <1>1, OneCell
<1>2. CASE d = c /\ m # n
  BY <1>2, OneCell
<1>3. CASE d # c
  BY <1>3, OneCell
<1> QED  BY <1>1, <1>2, <1>3

\* A case without a first attempt has no attempt at all.
LEMMA NoFirstNoOther ==
  ASSUME AttemptsInOrder, NEW c \in Cycles, intents[c][1] = "none"
  PROVE  \A n \in SequenceNos : intents[c][n] = "none"
BY PolicyAssumption DEF AttemptsInOrder, SequenceNos

\* A first outcome is ingested: the case had no attempt, so nobody holds a
\* verdict or a row of it.
LEMMA FirstOutcome ==
  ASSUME TypeInv, LedgerInv, NEW c \in Cycles, intents[c][1] = "none",
         NEW v \in {"success", "failure"},
         intents' = [intents EXCEPT ![c][1] = v],
         \A d \in Cycles : d # c => cycleState'[d] = cycleState[d],
         cycleState'[c] = "SCHEDULED" => v = "failure",
         UNCHANGED <<outbox, local>>
  PROVE  LedgerInv' /\ Ledger!FirstAttempt(c)
<1>1. 1 \in SequenceNos
  BY PolicyAssumption DEF SequenceNos
<1>2. /\ intents'[c][1] = v
      /\ \A m \in SequenceNos : m # 1 => intents'[c][m] = intents[c][m]
      /\ \A d \in Cycles : d # c => intents'[d] = intents[d]
  BY <1>1, OneCell
<1>3. \A n \in SequenceNos : intents[c][n] = "none"
  BY NoFirstNoOther DEF LedgerInv
<1>4. AttemptsInOrder'
  BY <1>1, <1>2, <1>3 DEF LedgerInv, AttemptsInOrder, SequenceNos
<1>5. SettledWhenScheduled'
  BY <1>1, <1>2, <1>3 DEF LedgerInv, SettledWhenScheduled, Settled
<1>6. VerdictCurrent'
  <2> SUFFICES ASSUME phase = "decide", seen.state = "SCHEDULED"
               PROVE  Settled(current[1])' /\ seen.attempts = CountAttempts(current[1])'
    BY DEF VerdictCurrent, local
  <2>1. current[1] \in Cycles
    BY DEF TypeInv, StepsPlanned, StepRef
  <2>2. Settled(current[1]) /\ seen.attempts = CountAttempts(current[1])
    BY DEF LedgerInv, VerdictCurrent
  <2>3. current[1] # c
    BY <2>2 DEF Settled
  <2>4. intents'[current[1]] = intents[current[1]] /\ current' = current
    BY <1>2, <2>1, <2>3 DEF local
  <2> QED  BY <2>2, <2>4 DEF Settled, CountAttempts
<1>7. RowsReserved'
  <2>1. \A d \in Cycles, n \in SequenceNos :
          intents'[d][n] = "reserved" <=> intents[d][n] = "reserved"
    BY <1>1, <1>2, <1>3
  <2> QED  BY <2>1 DEF LedgerInv, RowsReserved, local
<1>8. Ledger!FirstAttempt(c)
  BY <1>3 DEF Ledger!FirstAttempt, Ledger!Numbers, SequenceNos
<1> QED  BY <1>4, <1>5, <1>6, <1>7, <1>8 DEF LedgerInv

\* An attempt is reserved: the verdict is still good, so every earlier attempt
\* may be followed and no other is in flight.
LEMMA Reservation ==
  ASSUME TypeInv, LedgerInv, DispatchAttempt
  PROVE  LedgerInv' /\ Ledger!Next
<1> DEFINE c == current[1]
           n == seen.attempts + 1
           row == [cycle |-> c, seq |-> n, step |-> current[2], at |-> StepAt(current).at]
<1>1. /\ phase = "decide" /\ seen.state = "SCHEDULED" /\ CanReserve(c, n)
      /\ cycleState' = [cycleState EXCEPT ![c] = Transition("SCHEDULED", "STEP_DUE")]
      /\ intents' = [intents EXCEPT ![c][n] = "reserved"]
      /\ outbox' = outbox \cup {row}
      /\ phase' = "steps" /\ UNCHANGED rows
  BY DEF DispatchAttempt, CommitStep, SetOutcome
<1>2. c \in Cycles
  BY <1>1 DEF TypeInv, StepsPlanned, StepRef
<1>3. row.cycle = c /\ row.seq = n
  OBVIOUS
<1>4. Settled(c) /\ seen.attempts = CountAttempts(c)
  BY <1>1 DEF LedgerInv, VerdictCurrent
<1>5. CountAttempts(c) \in Nat /\ n = CountAttempts(c) + 1
  BY <1>2, <1>4, CountType, PolicyAssumption
<1>6. cycleState' = [cycleState EXCEPT ![c] = "EXECUTING"]
  BY <1>1, Edges
<1> HIDE DEF c, n, row
<1>7. n \in SequenceNos /\ intents[c][n] = "none"
  BY <1>1 DEF CanReserve
<1>8. \A m \in SequenceNos :
        /\ m < n => intents[c][m] \in {"failure", "unknown"}
        /\ m > n => intents[c][m] = "none"
  <2>1. \A m \in SequenceNos : intents[c][m] # "none" <=> m <= CountAttempts(c)
    BY <1>2, CountIsLast DEF LedgerInv
  <2> QED  BY <1>4, <1>5, <2>1 DEF Settled, SequenceNos
<1>9. /\ intents'[c][n] = "reserved"
      /\ \A m \in SequenceNos : m # n => intents'[c][m] = intents[c][m]
      /\ \A d \in Cycles : d # c => intents'[d] = intents[d]
  BY <1>1, <1>2, <1>7, OneCell
<1>10. AttemptsInOrder'
  BY <1>7, <1>8, <1>9 DEF LedgerInv, AttemptsInOrder, SequenceNos
<1>11. SettledWhenScheduled'
  <2>1. cycleState'[c] # "SCHEDULED"
        /\ \A d \in Cycles : d # c => cycleState'[d] = cycleState[d]
    BY <1>2, <1>6 DEF TypeInv, TypeOK, DbTypeOK
  <2> QED  BY <1>9, <2>1 DEF LedgerInv, SettledWhenScheduled, Settled
<1>12. VerdictCurrent'
  BY <1>1 DEF VerdictCurrent
<1>13. RowsReserved'
  <2>1. \A r \in outbox : r.cycle \in Cycles /\ r.seq \in SequenceNos
    BY DEF TypeInv, TypeOK, DbTypeOK, OutboxRow
  <2>2. \A r \in outbox : r.cycle # c
    BY <2>1, <1>4 DEF LedgerInv, RowsReserved, Settled
  <2>3. \A d \in Cycles, m \in SequenceNos :
          intents'[d][m] = "reserved" <=> \E r \in outbox' : r.cycle = d /\ r.seq = m
    <3> TAKE d \in Cycles, m \in SequenceNos
    <3>1. CASE d = c /\ m = n
      BY <1>1, <1>3, <1>9, <3>1
    <3>2. CASE d # c
      BY <1>1, <1>3, <1>9, <3>2 DEF LedgerInv, RowsReserved
    <3>3. CASE d = c /\ m # n
      BY <1>1, <1>3, <1>4, <1>9, <2>2, <3>3 DEF Settled
    <3> QED  BY <3>1, <3>2, <3>3
  <2>4. \A r, s \in outbox' : r.cycle = s.cycle => r = s
    BY <1>1, <1>3, <2>2 DEF LedgerInv, RowsReserved
  <2> QED  BY <1>1, <2>3, <2>4 DEF LedgerInv, RowsReserved
<1>14. Ledger!Open(c, n)
  <2>1. \E m \in SequenceNos : m < n
    <3>1. 1 \in SequenceNos /\ intents[c][1] # "none"
      BY <1>4, PolicyAssumption DEF Settled, SequenceNos
    <3>2. 1 < n
      BY <3>1, <1>7 DEF SequenceNos
    <3> QED  BY <3>1, <3>2
  <2> QED
    BY <1>1, <1>7, <1>8, <2>1
    DEF Ledger!Open, Ledger!Retryable, Ledger!Numbers, SequenceNos
<1>15. Ledger!Next
  BY <1>2, <1>7, <1>14 DEF Ledger!Next, Ledger!Numbers, SequenceNos
<1> QED  BY <1>10, <1>11, <1>12, <1>13, <1>15 DEF LedgerInv

\* The attempt in flight gets its outcome and its row goes.
LEMMA Resolution ==
  ASSUME TypeInv, LedgerInv, phase \in {"await", "settle"},
         NEW o \in {"success", "failure", "unknown", "blocked"},
         intents' = [intents EXCEPT ![sending.cycle][sending.seq] = o],
         outbox' = outbox \ {sending}, phase' = "drain", UNCHANGED rows,
         \A d \in Cycles : d # sending.cycle => cycleState'[d] = cycleState[d],
         \/ cycleState'[sending.cycle] = cycleState[sending.cycle]
         \/ cycleState'[sending.cycle] = "SCHEDULED" => o \in {"failure", "unknown"}
  PROVE  LedgerInv' /\ Ledger!Next
<1> DEFINE c == sending.cycle
           n == sending.seq
<1>1. /\ sending \in outbox \ rows
      /\ c \in Cycles /\ n \in SequenceNos
      /\ intents[c][n] = "reserved"
  BY DEF LedgerInv, RowsReserved, TypeInv, StepsPlanned, OutboxRow
<1>2. \A m \in SequenceNos :
        /\ m > n => intents[c][m] = "none"
        /\ m < n => intents[c][m] \in {"failure", "unknown"}
  BY <1>1, InFlightIsLast DEF LedgerInv
<1>3. /\ intents'[c][n] = o
      /\ \A m \in SequenceNos : m # n => intents'[c][m] = intents[c][m]
      /\ \A d \in Cycles : d # c => intents'[d] = intents[d]
  BY <1>1, OneCell
<1>4. AttemptsInOrder'
  BY <1>1, <1>2, <1>3 DEF LedgerInv, AttemptsInOrder, SequenceNos
<1>5. SettledWhenScheduled'
  <2>1. cycleState[c] # "SCHEDULED"
    BY <1>1 DEF LedgerInv, SettledWhenScheduled, Settled
  <2>2. cycleState'[c] = "SCHEDULED" => o \in {"failure", "unknown"}
    BY <2>1
  <2>3. o \in {"failure", "unknown"} =>
          /\ intents'[c][1] # "none"
          /\ \A m \in SequenceNos : intents'[c][m] \in {"none", "failure", "unknown"}
    <3>1. 1 \in SequenceNos /\ (n = 1 \/ 1 < n)
      BY <1>1, PolicyAssumption DEF SequenceNos
    <3>2. \A m \in SequenceNos : m = n \/ m < n \/ m > n
      BY <1>1 DEF SequenceNos
    <3> QED  BY <1>1, <1>2, <1>3, <3>1, <3>2
  <2> HIDE DEF c, n
  <2>4. \A d \in Cycles : d # c => cycleState'[d] = cycleState[d]
    BY DEF c
  <2> QED  BY <1>3, <2>2, <2>3, <2>4 DEF LedgerInv, SettledWhenScheduled, Settled
<1>6. VerdictCurrent'
  BY DEF VerdictCurrent
<1>7. RowsReserved'
  <2>1. outbox' \subseteq outbox /\ \A r \in outbox' : r.cycle # c
    BY <1>1 DEF LedgerInv, RowsReserved
  <2>2. \A m \in SequenceNos : intents'[c][m] # "reserved"
    <3> HIDE DEF c, n
    <3>1. \A m \in SequenceNos : m = n \/ m < n \/ m > n
      BY <1>1 DEF SequenceNos
    <3> QED  BY <1>2, <1>3, <3>1
  <2> HIDE DEF c, n
  <2>3. \A d \in Cycles, m \in SequenceNos :
          d # c => (intents'[d][m] = "reserved" <=>
                      \E r \in outbox' : r.cycle = d /\ r.seq = m)
    <3>1. \A d \in Cycles, r \in outbox : d # c /\ r.cycle = d => r \in outbox'
      BY DEF c
    <3> QED  BY <1>3, <2>1, <3>1 DEF LedgerInv, RowsReserved
  <2> QED  BY <1>1, <2>1, <2>2, <2>3 DEF LedgerInv, RowsReserved
<1>8. Ledger!Resolve(c, n)
  BY <1>1 DEF Ledger!Resolve, Ledger!Outcomes
<1>9. Ledger!Next
  BY <1>1, <1>8 DEF Ledger!Next, Ledger!Numbers, SequenceNos
<1> QED  BY <1>4, <1>5, <1>6, <1>7, <1>9 DEF LedgerInv

------------------------------------------------------------------------------

\* A step of the engine keeps the invariant, and is a step of the abstract
\* ledger or leaves the ledger alone.
LEMMA LedgerNext ==
  TypeInv /\ LedgerInv /\ [Next]_vars => LedgerInv' /\ [Ledger!Next]_intents
<1> SUFFICES ASSUME TypeInv, LedgerInv, [Next]_vars
             PROVE  LedgerInv' /\ [Ledger!Next]_intents
  OBVIOUS
<1>1. CASE ApiStep
  <2>1. UNCHANGED <<railVars, clock, local>>
    BY <1>1 DEF ApiStep
  <2>2. PICK w \in Webhooks :
          \/ IngestCycleDue(w) \/ BeginRequest(w) \/ AbortRequest(w)
             \/ QuarantineStaleOutcome(w)
             \/ IngestMandateRevoked(w) \/ IngestNotificationOptedOut(w)
          \/ IngestDebitSucceeded(w)
          \/ IngestDebitFailedPlanned(w) \/ IngestDebitFailedStopped(w)
    BY <1>1 DEF ApiStep, IngestNext
  <2>3. CASE IngestCycleDue(w) \/ BeginRequest(w) \/ AbortRequest(w)
             \/ QuarantineStaleOutcome(w)
             \/ IngestMandateRevoked(w) \/ IngestNotificationOptedOut(w)
    BY <2>1, <2>3, OtherRequestsLedger
  <2>4. ASSUME IngestDebitSucceeded(w) \/ DebitFailedCommit(w)
        PROVE  /\ w.about \in Cycles /\ intents[w.about][1] = "none"
               /\ UNCHANGED outbox
    BY <2>4, WebhookAssumption
    DEF IngestDebitSucceeded, DebitFailedCommit, AppliesToOpenCycle, CanReserve,
        LifecycleEvents
  <2>5. CASE IngestDebitSucceeded(w)
    <3>1. /\ intents' = [intents EXCEPT ![w.about][1] = "success"]
          /\ cycleState' = [cycleState EXCEPT ![w.about] = "RECOVERED"]
      BY <2>5 DEF IngestDebitSucceeded, SetOutcome
    <3>2. /\ \A d \in Cycles : d # w.about => cycleState'[d] = cycleState[d]
          /\ cycleState'[w.about] # "SCHEDULED"
      BY <2>4, <2>5, <3>1 DEF TypeInv, TypeOK, DbTypeOK
    <3>3. LedgerInv' /\ Ledger!FirstAttempt(w.about)
      BY <2>1, <2>4, <2>5, <3>1, <3>2, FirstOutcome
    <3> QED  BY <2>4, <2>5, <3>3 DEF Ledger!Next
  <2>6. CASE IngestDebitFailedPlanned(w) \/ IngestDebitFailedStopped(w)
    <3>1. DebitFailedCommit(w)
      BY <2>6 DEF IngestDebitFailedPlanned, IngestDebitFailedStopped
    <3>2. intents' = [intents EXCEPT ![w.about][1] = "failure"]
      BY <3>1 DEF DebitFailedCommit, SetOutcome
    <3>3. \E s : cycleState' = [cycleState EXCEPT ![w.about] = s]
      BY <2>6, PlannedState, StoppedState
    <3>4. \A d \in Cycles : d # w.about => cycleState'[d] = cycleState[d]
      BY <3>3 DEF TypeInv, TypeOK, DbTypeOK
    <3>5. LedgerInv' /\ Ledger!FirstAttempt(w.about)
      BY <2>1, <2>4, <3>1, <3>2, <3>4, FirstOutcome
    <3> QED  BY <2>4, <3>1, <3>5 DEF Ledger!Next
  <2> QED  BY <2>2, <2>3, <2>5, <2>6
<1>2. CASE \/ StartTick \/ (\E r \in batch : ReadStep(r))
           \/ CancelStep \/ ProcessNotifyStep
           \/ FetchOutbox \/ (\E row \in rows : SendToRail(row))
           \/ RetryLater \/ ReadDeliveredCycle
           \/ FindExhaustedPlans \/ (\E c \in sweepList : SweepCycle(c)) \/ EndTick
  BY <1>2, WorkerReadsLedger
<1>3. CASE DispatchAttempt
  BY <1>3, Reservation
<1>4. CASE HandleRailDenied
  <2>1. /\ phase = "await" /\ phase' = "drain" /\ UNCHANGED <<rows, cycleState>>
        /\ intents' = [intents EXCEPT ![sending.cycle][sending.seq] = "blocked"]
        /\ outbox' = outbox \ {sending}
    BY <1>4 DEF HandleRailDenied, RowHandled, SetOutcome
  <2> QED  BY <2>1, Resolution
<1>5. CASE DeliveredAfterClose \/ AttemptSucceeded \/ BudgetExhausted \/ AttemptFailed
  <2>1. CommitDelivered
    BY <1>5
    DEF DeliveredAfterClose, AttemptSucceeded, BudgetExhausted, AttemptFailed, MoveCase
  <2>2. /\ phase = "settle" /\ phase' = "drain" /\ UNCHANGED rows
        /\ intents' = [intents EXCEPT ![sending.cycle][sending.seq] = reply]
        /\ outbox' = outbox \ {sending}
    BY <2>1 DEF CommitDelivered, RowHandled, SetOutcome
  <2>3. reply \in {"success", "failure", "unknown"} /\ sending.cycle \in Cycles
    BY <2>2 DEF TypeInv, Conversation, StepsPlanned, OutboxRow, RailOutcome
  <2>4. /\ \A d \in Cycles : d # sending.cycle => cycleState'[d] = cycleState[d]
        /\ \/ cycleState'[sending.cycle] = cycleState[sending.cycle]
           \/ cycleState'[sending.cycle] = "SCHEDULED" =>
                reply \in {"failure", "unknown"}
    <3>1. CASE DeliveredAfterClose
      BY <3>1 DEF DeliveredAfterClose
    <3>2. CASE AttemptSucceeded
      <4>1. cycleState' = [cycleState EXCEPT ![sending.cycle] =
                             Transition("EXECUTING", "ATTEMPT_SUCCEEDED")]
        BY <3>2 DEF AttemptSucceeded, MoveCase
      <4>2. cycleState' = [cycleState EXCEPT ![sending.cycle] = "RECOVERED"]
        BY <4>1, Edges
      <4> QED  BY <2>3, <4>2 DEF TypeInv, TypeOK, DbTypeOK
    <3>3. CASE BudgetExhausted \/ AttemptFailed
      <4>1. /\ reply # "success"
            /\ \E s : cycleState' = [cycleState EXCEPT ![sending.cycle] = s]
        BY <3>3 DEF BudgetExhausted, AttemptFailed, MoveCase
      <4> QED  BY <2>3, <4>1 DEF TypeInv, TypeOK, DbTypeOK
    <3> QED  BY <1>5, <3>1, <3>2, <3>3
  <2> QED  BY <2>2, <2>3, <2>4, Resolution
<1>6. CASE \/ RequestError \/ WorkerCrash \/ RailStep
           \/ SetKillSwitch \/ ClockTick \/ UNCHANGED vars
  BY <1>6, EnvironmentLedger
<1> QED  BY <1>1, <1>2, <1>3, <1>4, <1>5, <1>6 DEF Next, WorkerStep

\* The implemented abstract ledger never forgets an attempt and never changes
\* an outcome.
LEMMA LedgerGrows ==
  ASSUME TypeInv, [Ledger!Next]_intents
  PROVE  \A c \in Cycles, n \in SequenceNos :
           /\ intents[c][n] # "none" => intents'[c][n] # "none"
           /\ intents[c][n] \in RailOutcome => intents'[c][n] = intents[c][n]
<1>1. CASE UNCHANGED intents
  BY <1>1
<1>2. CASE Ledger!Next
  <2>1. intents \in [Cycles -> [SequenceNos -> IntentOutcome]] /\ 1 \in SequenceNos
    BY PolicyAssumption DEF TypeInv, TypeOK, DbTypeOK, SequenceNos
  <2>2. PICK c \in Cycles :
          Ledger!FirstAttempt(c)
          \/ \E n \in Ledger!Numbers : Ledger!Open(c, n) \/ Ledger!Resolve(c, n)
    BY <1>2 DEF Ledger!Next
  <2>3. CASE Ledger!FirstAttempt(c)
    BY <2>1, <2>3 DEF Ledger!FirstAttempt, Ledger!Numbers, SequenceNos, RailOutcome
  <2>4. ASSUME NEW n \in SequenceNos, Ledger!Open(c, n) \/ Ledger!Resolve(c, n)
        PROVE  /\ intents[c][n] \in {"none", "reserved"}
               /\ \E v : v # "none" /\ intents' = [intents EXCEPT ![c][n] = v]
    BY <2>4 DEF Ledger!Open, Ledger!Resolve, Ledger!Outcomes
  <2>5. CASE \E n \in Ledger!Numbers : Ledger!Open(c, n) \/ Ledger!Resolve(c, n)
    <3>1. PICK n \in SequenceNos : Ledger!Open(c, n) \/ Ledger!Resolve(c, n)
      BY <2>5 DEF Ledger!Numbers, SequenceNos
    <3>2. PICK v : v # "none" /\ intents' = [intents EXCEPT ![c][n] = v]
      BY <2>4, <3>1
    <3>3. intents[c][n] \notin RailOutcome
      BY <2>4, <3>1 DEF RailOutcome
    <3>4. \A d \in Cycles, m \in SequenceNos :
            \/ d = c /\ m = n /\ intents'[d][m] = v
            \/ intents'[d][m] = intents[d][m]
      BY <3>2, EachCell
    <3> QED  BY <3>2, <3>3, <3>4
  <2> QED  BY <2>2, <2>3, <2>5
<1> QED  BY <1>1, <1>2

\* Initially nothing has been attempted.
LEMMA LedgerInit == Init => LedgerInv /\ Ledger!Init
<1> SUFFICES ASSUME Init PROVE LedgerInv /\ Ledger!Init
  OBVIOUS
<1> USE DEF Init, DbInit, WorkerInit
<1>1. AttemptsInOrder /\ SettledWhenScheduled
  BY DEF AttemptsInOrder, SettledWhenScheduled
<1>2. VerdictCurrent /\ RowsReserved
  BY DEF VerdictCurrent, RowsReserved
<1>3. Ledger!Init
  BY DEF Ledger!Init, Ledger!Numbers, SequenceNos
<1> QED  BY <1>1, <1>2, <1>3 DEF LedgerInv

\* The four parts of LedgerInv hold in every reachable state.
THEOREM LedgerInvariant == Spec => []LedgerInv
<1>1. Init => LedgerInv
  BY LedgerInit
<1>2. TypeInv /\ LedgerInv /\ [Next]_vars => LedgerInv'
  BY LedgerNext
<1> QED  BY <1>1, <1>2, TypeInvariant, PTL DEF Spec

\* Sequence numbers have no gap, at most one attempt is in flight and none
\* follows a success or a refusal, however requests, ticks, crashes and lost
\* replies interleave and whatever plans the policies return.
THEOREM AttemptsInOrderHolds == Spec => []AttemptsInOrder
<1>1. LedgerInv => AttemptsInOrder
  BY DEF LedgerInv
<1> QED  BY <1>1, LedgerInvariant, PTL

\* Every behaviour of the engine is, as far as the attempts go, a behaviour of
\* AttemptLedger.
THEOREM ImplementsLedger == Spec => LedgerSpec
<1>1. Init => Ledger!Init
  BY LedgerInit
<1>2. TypeInv /\ LedgerInv /\ [Next]_vars => [Ledger!Next]_intents
  BY LedgerNext
<1> QED  BY <1>1, <1>2, TypeInvariant, LedgerInvariant, PTL DEF Spec, LedgerSpec, Ledger!Spec

------------------------------------------------------------------------------
(* The ledger and the rail. *)

\* The engine never sends the merchant's first attempt to the rail ...
RetriesOnly ==
  /\ \A r \in outbox : r.seq # 1
  /\ \A q \in handling : q.row.seq # 1

\* ... and nobody else uses the rail.
FirstElsewhere == \A c \in Cycles : railOutcome[c][1] = "none"

\* The rail only works on attempts that were reserved.
HandlersReserved ==
  \A q \in handling : intents[q.row.cycle][q.row.seq] # "none"

\* The client hears only about the row it sent, and what it has heard is what
\* the rail recorded.
AnswerIsRecorded ==
  /\ \A q \in handling : q.awaited => q.row = sending
  /\ phase \in {"await", "settle"} /\ reply \in RailOutcome =>
       railOutcome[sending.cycle][sending.seq] = reply

RailInv == RetriesOnly /\ HandlersReserved /\ AnswerIsRecorded /\ RailAgreesWithLedger

------------------------------------------------------------------------------

\* A step that does nothing at the rail.
LEMMA RailQuiet ==
  ASSUME RailInv, UNCHANGED <<railOutcome, handling>>,
         handling \subseteq Handler,
         \A c \in Cycles, n \in SequenceNos :
           intents[c][n] # "none" => intents'[c][n] # "none",
         \A c \in Cycles, n \in SequenceNos \ {1} :
           intents'[c][n] \in RailOutcome => railOutcome[c][n] = intents'[c][n],
         \A r \in outbox' : r.seq # 1,
         \/ /\ UNCHANGED <<sending, reply>>
            /\ phase' \in {"await", "settle"} => phase \in {"await", "settle"}
         \/ /\ \A q \in handling : ~q.awaited
            /\ phase' \notin {"await", "settle"}
  PROVE  RailInv'
<1>1. RetriesOnly'
  BY DEF RailInv, RetriesOnly
<1>2. HandlersReserved'
  BY DEF RailInv, HandlersReserved, Handler, OutboxRow
<1>3. AnswerIsRecorded'
  BY DEF RailInv, AnswerIsRecorded
<1>4. RailAgreesWithLedger'
  BY DEF RailInv, RailAgreesWithLedger
<1> QED  BY <1>1, <1>2, <1>3, <1>4 DEF RailInv

\* Steps that leave ledger, outbox and rail alone.
LEMMA UnrelatedSteps ==
  ASSUME TypeInv, RailInv, UNCHANGED <<intents, outbox, railVars>>,
         \/ UNCHANGED <<phase, sending>>
         \/ UNCHANGED sending /\ phase' \notin {"await", "settle"}
         \/ ReadDeliveredCycle
  PROVE  RailInv'
<1>1. UNCHANGED <<railOutcome, handling, reply, sending>>
  BY DEF railVars, ReadDeliveredCycle
<1>2. phase' \in {"await", "settle"} => phase \in {"await", "settle"}
  BY DEF ReadDeliveredCycle
<1>3. handling \subseteq Handler
  BY DEF TypeInv, TypeOK, RailTypeOK
<1>4. \A r \in outbox' : r.seq # 1
  BY DEF RailInv, RetriesOnly
<1>5. \A c \in Cycles, n \in SequenceNos \ {1} :
        intents'[c][n] \in RailOutcome => railOutcome[c][n] = intents'[c][n]
  BY DEF RailInv, RailAgreesWithLedger
<1> QED  BY <1>1, <1>2, <1>3, <1>4, <1>5, RailQuiet

\* A request writes only first attempts.
LEMMA RequestRail ==
  ASSUME TypeInv, RailInv, ApiStep, [Ledger!Next]_intents
  PROVE  RailInv'
<1>1. UNCHANGED <<railVars, local>>
  BY DEF ApiStep
<1>2. /\ UNCHANGED outbox
      /\ \A c \in Cycles, n \in SequenceNos \ {1} : intents'[c][n] = intents[c][n]
  <2>1. PICK w \in Webhooks :
          \/ IngestCycleDue(w) \/ BeginRequest(w) \/ AbortRequest(w)
             \/ QuarantineStaleOutcome(w)
             \/ IngestMandateRevoked(w) \/ IngestNotificationOptedOut(w)
          \/ IngestDebitSucceeded(w)
          \/ DebitFailedCommit(w)
    BY DEF ApiStep, IngestNext, IngestDebitFailedPlanned, IngestDebitFailedStopped
  <2>2. CASE \/ IngestCycleDue(w) \/ BeginRequest(w) \/ AbortRequest(w)
             \/ QuarantineStaleOutcome(w)
             \/ IngestMandateRevoked(w) \/ IngestNotificationOptedOut(w)
    BY <2>2
    DEF IngestCycleDue, BeginRequest, AbortRequest, QuarantineStaleOutcome,
        IngestMandateRevoked, IngestNotificationOptedOut, tables
  <2>3. CASE IngestDebitSucceeded(w) \/ DebitFailedCommit(w)
    <3>1. /\ UNCHANGED outbox
          /\ \/ intents' = [intents EXCEPT ![w.about][1] = "success"]
             \/ intents' = [intents EXCEPT ![w.about][1] = "failure"]
      BY <2>3 DEF IngestDebitSucceeded, DebitFailedCommit, SetOutcome
    <3>2. w.about \in Cycles /\ 1 \in SequenceNos
      BY <2>3, WebhookAssumption, PolicyAssumption
      DEF IngestDebitSucceeded, DebitFailedCommit, LifecycleEvents, SequenceNos
    <3> QED  BY <3>1, <3>2, EachCell
  <2> QED  BY <2>1, <2>2, <2>3
<1>3. \A c \in Cycles, n \in SequenceNos \ {1} :
        intents'[c][n] \in RailOutcome => railOutcome[c][n] = intents'[c][n]
  BY <1>2 DEF RailInv, RailAgreesWithLedger
<1>4. handling \subseteq Handler /\ \A r \in outbox' : r.seq # 1
  BY <1>2 DEF TypeInv, TypeOK, RailTypeOK, RailInv, RetriesOnly
<1>5. \A c \in Cycles, n \in SequenceNos :
        intents[c][n] # "none" => intents'[c][n] # "none"
  BY LedgerGrows
<1> QED  BY <1>1, <1>3, <1>4, <1>5, RailQuiet DEF railVars, local

\* A reservation follows a first attempt, so it is a retry.
LEMMA ReserveRail ==
  ASSUME TypeInv, LedgerInv, RailInv, DispatchAttempt, [Ledger!Next]_intents
  PROVE  RailInv'
<1> DEFINE c == current[1]
           n == seen.attempts + 1
           row == [cycle |-> c, seq |-> n, step |-> current[2], at |-> StepAt(current).at]
<1>1. /\ phase = "decide" /\ phase' = "steps" /\ seen.state = "SCHEDULED"
      /\ CanReserve(c, n)
      /\ intents' = [intents EXCEPT ![c][n] = "reserved"]
      /\ outbox' = outbox \cup {row}
      /\ UNCHANGED <<railVars, sending>>
  BY DEF DispatchAttempt, CommitStep, SetOutcome
<1>2. c \in Cycles /\ row.seq = n
  BY <1>1 DEF TypeInv, StepsPlanned, StepRef
<1>3. intents[c][1] # "none"
  BY <1>1 DEF LedgerInv, VerdictCurrent, Settled
<1> HIDE DEF c, n, row
<1>4. n \in SequenceNos /\ n # 1
  BY <1>1, <1>3 DEF CanReserve
<1>5. \A r \in outbox' : r.seq # 1
  BY <1>1, <1>2, <1>4 DEF RailInv, RetriesOnly
<1>6. \A d \in Cycles, m \in SequenceNos \ {1} :
        intents'[d][m] \in RailOutcome => railOutcome[d][m] = intents'[d][m]
  <2>1. \A d \in Cycles, m \in SequenceNos :
          intents'[d][m] = "reserved" \/ intents'[d][m] = intents[d][m]
    BY <1>1, <1>2, <1>4, EachCell
  <2> QED  BY <2>1 DEF RailInv, RailAgreesWithLedger, RailOutcome
<1>7. handling \subseteq Handler
  BY DEF TypeInv, TypeOK, RailTypeOK
<1>8. \A d \in Cycles, m \in SequenceNos :
        intents[d][m] # "none" => intents'[d][m] # "none"
  BY LedgerGrows
<1> QED  BY <1>1, <1>5, <1>6, <1>7, <1>8, RailQuiet DEF railVars

\* The client settles what it heard, or what it heard is no outcome.
LEMMA ResolveRail ==
  ASSUME TypeInv, LedgerInv, RailInv, RetryLater \/ HandleRailDenied \/ CommitDelivered,
         [Ledger!Next]_intents
  PROVE  RailInv'
<1>1. /\ UNCHANGED <<railOutcome, handling>> /\ phase' = "drain"
      /\ outbox' \subseteq outbox
      /\ \A q \in handling : ~q.awaited
  BY DEF RetryLater, HandleRailDenied, CommitDelivered, RowHandled, tables, TypeInv,
         Conversation
<1>2. phase \in {"await", "settle"} => sending.cycle \in Cycles /\ sending.seq \in SequenceNos
  BY DEF TypeInv, StepsPlanned, OutboxRow
<1>3. \A c \in Cycles, n \in SequenceNos \ {1} :
        intents'[c][n] \in RailOutcome => railOutcome[c][n] = intents'[c][n]
  <2>1. CASE RetryLater
    BY <2>1 DEF RetryLater, tables, RailInv, RailAgreesWithLedger
  <2>2. ASSUME NEW o, phase \in {"await", "settle"},
               SetOutcome(sending.cycle, sending.seq, o),
               o \in RailOutcome => railOutcome[sending.cycle][sending.seq] = o
        PROVE  \A c \in Cycles, n \in SequenceNos \ {1} :
                 intents'[c][n] \in RailOutcome => railOutcome[c][n] = intents'[c][n]
    <3>1. intents' = [intents EXCEPT ![sending.cycle][sending.seq] = o]
      BY <2>2 DEF SetOutcome
    <3>2. \A c \in Cycles, n \in SequenceNos :
            \/ c = sending.cycle /\ n = sending.seq /\ intents'[c][n] = o
            \/ intents'[c][n] = intents[c][n]
      BY <1>2, <2>2, <3>1, EachCell
    <3> QED  BY <2>2, <3>2 DEF RailInv, RailAgreesWithLedger
  <2>3. CASE HandleRailDenied
    BY <2>2, <2>3 DEF HandleRailDenied, RailOutcome
  <2>4. CASE CommitDelivered
    BY <2>2, <2>4 DEF CommitDelivered, RailInv, AnswerIsRecorded, TypeInv, Conversation
  <2> QED  BY <2>1, <2>3, <2>4
<1>4. handling \subseteq Handler /\ \A r \in outbox' : r.seq # 1
  BY <1>1 DEF TypeInv, TypeOK, RailTypeOK, RailInv, RetriesOnly
<1>5. \A c \in Cycles, n \in SequenceNos :
        intents[c][n] # "none" => intents'[c][n] # "none"
  BY LedgerGrows
<1> QED  BY <1>1, <1>3, <1>4, <1>5, RailQuiet

\* The row sent is an undelivered one, and nobody else is awaited.
LEMMA SendRail ==
  ASSUME TypeInv, LedgerInv, RailInv, NEW row \in rows, SendToRail(row)
  PROVE  RailInv'
<1> DEFINE h == [row |-> row, stage |-> "sent", awaited |-> TRUE]
<1>1. /\ handling' = handling \cup {h}
      /\ phase = "drain" /\ reply' = "none" /\ sending' = row
      /\ UNCHANGED <<railOutcome, intents, outbox>>
  BY DEF SendToRail, Post, tables
<1>2. h.row = row
  OBVIOUS
<1> HIDE DEF h
<1>3. row \in outbox /\ row.seq # 1 /\ row.cycle \in Cycles /\ row.seq \in SequenceNos
  BY DEF LedgerInv, RowsReserved, RailInv, RetriesOnly, TypeInv, TypeOK, DbTypeOK, OutboxRow
<1>4. intents[row.cycle][row.seq] = "reserved"
  BY <1>3 DEF LedgerInv, RowsReserved
<1>5. \A q \in handling : ~q.awaited
  BY <1>1 DEF TypeInv, Conversation
<1>6. RetriesOnly'
  BY <1>1, <1>2, <1>3 DEF RailInv, RetriesOnly
<1>7. HandlersReserved'
  BY <1>1, <1>2, <1>4 DEF RailInv, HandlersReserved
<1>8. AnswerIsRecorded'
  BY <1>1, <1>2, <1>5 DEF AnswerIsRecorded, RailOutcome
<1>9. RailAgreesWithLedger'
  BY <1>1 DEF RailInv, RailAgreesWithLedger
<1> QED  BY <1>6, <1>7, <1>8, <1>9 DEF RailInv

\* Giving up on a request changes nothing at the rail.
LEMMA FaultRail ==
  ASSUME TypeInv, RailInv, RequestError \/ WorkerCrash
  PROVE  RailInv'
<1> DEFINE quiet(q) == [q EXCEPT !.awaited = FALSE]
<1>1. /\ UNCHANGED <<railOutcome, intents, outbox>>
      /\ handling' = {quiet(q) : q \in handling}
      /\ reply' \in {"none", "error"}
  BY DEF RequestError, WorkerCrash, StopWaiting, tables
<1>2. \A q \in handling : quiet(q).row = q.row /\ quiet(q).awaited = FALSE
  BY DEF TypeInv, TypeOK, RailTypeOK, Handler
<1> HIDE DEF quiet
<1>3. \A p \in handling' : p.awaited = FALSE /\ \E q \in handling : p.row = q.row
  BY <1>1, <1>2
<1>4. RetriesOnly'
  BY <1>1, <1>3 DEF RailInv, RetriesOnly
<1>5. HandlersReserved'
  BY <1>1, <1>3 DEF RailInv, HandlersReserved
<1>6. AnswerIsRecorded'
  BY <1>1, <1>3 DEF AnswerIsRecorded, RailOutcome
<1>7. RailAgreesWithLedger'
  BY <1>1 DEF RailInv, RailAgreesWithLedger
<1> QED  BY <1>4, <1>5, <1>6, <1>7 DEF RailInv

\* An answer that is no outcome, or the outcome on record.
LEMMA AnswerRail ==
  ASSUME TypeInv, RailInv, NEW q \in handling, NEW what, Answer(q, what),
         UNCHANGED <<intents, outbox, phase, sending>>,
         railOutcome' \in [Cycles -> [SequenceNos -> RailOutcome \cup {"none"}]],
         \A c \in Cycles, n \in SequenceNos :
           railOutcome[c][n] # "none" => railOutcome'[c][n] = railOutcome[c][n],
         \A c \in Cycles, n \in SequenceNos :
           railOutcome'[c][n] = railOutcome[c][n] \/ (c = q.row.cycle /\ n = q.row.seq),
         what \in RailOutcome => railOutcome'[q.row.cycle][q.row.seq] = what
  PROVE  RailInv'
<1>1. /\ handling' \subseteq handling
      /\ reply' = IF q.awaited THEN what ELSE reply
  BY DEF Answer
<1>2. q.row.cycle \in Cycles /\ q.row.seq \in SequenceNos
  BY DEF TypeInv, TypeOK, RailTypeOK, Handler, OutboxRow
<1>3. phase \in {"await", "settle"} => sending.cycle \in Cycles /\ sending.seq \in SequenceNos
  BY DEF TypeInv, StepsPlanned, OutboxRow
<1>4. RetriesOnly'
  BY <1>1 DEF RailInv, RetriesOnly
<1>5. HandlersReserved'
  BY <1>1 DEF RailInv, HandlersReserved
<1>6. AnswerIsRecorded'
  <2>1. \A p \in handling' : p.awaited => p.row = sending
    BY <1>1 DEF RailInv, AnswerIsRecorded
  <2>2. CASE q.awaited
    <3>1. q.row = sending
      BY <2>2 DEF RailInv, AnswerIsRecorded
    <3> QED  BY <1>1, <2>1, <2>2, <3>1 DEF AnswerIsRecorded
  <2>3. CASE ~q.awaited
    <3>1. ASSUME phase \in {"await", "settle"}, reply \in RailOutcome
          PROVE  /\ railOutcome[sending.cycle][sending.seq] = reply
                 /\ railOutcome[sending.cycle][sending.seq] # "none"
      BY <3>1 DEF RailInv, AnswerIsRecorded, RailOutcome
    <3> QED  BY <1>1, <1>3, <2>1, <2>3, <3>1 DEF AnswerIsRecorded
  <2> QED  BY <2>2, <2>3
<1>7. RailAgreesWithLedger'
  <2>1. ASSUME NEW c \in Cycles, NEW n \in SequenceNos \ {1}, intents[c][n] \in RailOutcome
        PROVE  railOutcome'[c][n] = intents[c][n]
    <3>1. railOutcome[c][n] = intents[c][n] /\ railOutcome[c][n] # "none"
      BY <2>1 DEF RailInv, RailAgreesWithLedger, RailOutcome
    <3> QED  BY <3>1
  <2>2. intents[q.row.cycle][q.row.seq] # "none"
    BY DEF RailInv, HandlersReserved
  <2>3. ASSUME NEW c \in Cycles, NEW n \in SequenceNos \ {1}, railOutcome'[c][n] # "none"
        PROVE  intents[c][n] # "none"
    <3>1. CASE c = q.row.cycle /\ n = q.row.seq
      BY <2>2, <3>1
    <3>2. CASE railOutcome'[c][n] = railOutcome[c][n]
      BY <2>3, <3>2 DEF RailInv, RailAgreesWithLedger
    <3> QED  BY <3>1, <3>2
  <2> QED  BY <2>1, <2>3 DEF RailAgreesWithLedger
<1> QED  BY <1>4, <1>5, <1>6, <1>7 DEF RailInv

\* Every step of a handler at the rail.
LEMMA HandlerRail ==
  ASSUME TypeInv, RailInv, RailStep
  PROVE  RailInv'
<1>1. UNCHANGED <<intents, outbox, phase, sending>>
  BY DEF RailStep, tables, local
<1>2. PICK q \in handling :
        RailReplay(q) \/ RailRefuse(q) \/ RailDown(q) \/ RailAccept(q) \/ RailPersist(q)
  BY DEF RailStep, RailNext
<1>3. /\ railOutcome \in [Cycles -> [SequenceNos -> RailOutcome \cup {"none"}]]
      /\ q.row.cycle \in Cycles /\ q.row.seq \in SequenceNos
  BY <1>2 DEF TypeInv, TypeOK, RailTypeOK, Handler, OutboxRow
<1>4. CASE RailReplay(q)
  BY <1>1, <1>3, <1>4, AnswerRail DEF RailReplay, RailRecord
<1>5. CASE RailRefuse(q) \/ RailDown(q)
  <2>1. PICK what \in {"denied", "error"} : Answer(q, what) /\ UNCHANGED railOutcome
    BY <1>5 DEF RailRefuse, RailDown
  <2>2. what \notin RailOutcome
    BY DEF RailOutcome
  <2> QED  BY <1>1, <1>3, <2>1, <2>2, AnswerRail
<1>6. CASE RailAccept(q)
  <2> DEFINE e == [q EXCEPT !.stage = "executing"]
  <2>1. e.row = q.row /\ e.awaited = q.awaited
    BY <1>2 DEF TypeInv, TypeOK, RailTypeOK, Handler
  <2>2. handling' \subseteq handling \cup {e} /\ UNCHANGED <<railOutcome, reply>>
    BY <1>6 DEF RailAccept
  <2> HIDE DEF e
  <2>3. \A p \in handling' : \E o \in handling : p.row = o.row /\ p.awaited = o.awaited
    BY <2>1, <2>2
  <2>4. RetriesOnly' /\ HandlersReserved' /\ AnswerIsRecorded' /\ RailAgreesWithLedger'
    BY <1>1, <2>2, <2>3
    DEF RailInv, RetriesOnly, HandlersReserved, AnswerIsRecorded, RailAgreesWithLedger
  <2> QED  BY <2>4 DEF RailInv
<1>7. CASE RailPersist(q)
  <2>1. CASE RailRecord(q) # "none"
    <3>1. Answer(q, "denied") /\ UNCHANGED railOutcome /\ "denied" \notin RailOutcome
      BY <1>7, <2>1 DEF RailPersist, RailOutcome
    <3> QED  BY <1>1, <1>3, <3>1, AnswerRail
  <2>2. CASE RailRecord(q) = "none"
    <3>1. PICK what \in RailOutcome :
            /\ railOutcome' = [railOutcome EXCEPT ![q.row.cycle][q.row.seq] = what]
            /\ Answer(q, what)
      BY <1>7, <2>2 DEF RailPersist
    <3>2. railOutcome[q.row.cycle][q.row.seq] = "none"
      BY <2>2 DEF RailRecord
    <3>3. railOutcome' \in [Cycles -> [SequenceNos -> RailOutcome \cup {"none"}]]
      BY <1>3, <3>1, CellType
    <3>4. railOutcome'[q.row.cycle][q.row.seq] = what
      BY <1>3, <3>1
    <3>5. \A c \in Cycles, n \in SequenceNos :
            railOutcome'[c][n] = railOutcome[c][n] \/ (c = q.row.cycle /\ n = q.row.seq)
      BY <1>3, <3>1
    <3>6. \A c \in Cycles, n \in SequenceNos :
            railOutcome[c][n] # "none" => railOutcome'[c][n] = railOutcome[c][n]
      BY <3>2, <3>5
    <3> QED  BY <1>1, <3>1, <3>3, <3>4, <3>5, <3>6, AnswerRail
  <2> QED  BY <2>1, <2>2
<1> QED  BY <1>2, <1>4, <1>5, <1>6, <1>7

------------------------------------------------------------------------------

\* Every step of the engine preserves RailInv.
LEMMA RailInvNext == TypeInv /\ LedgerInv /\ RailInv /\ [Next]_vars => RailInv'
<1> SUFFICES ASSUME TypeInv, LedgerInv, RailInv, [Next]_vars PROVE RailInv'
  OBVIOUS
<1>1. [Ledger!Next]_intents
  BY LedgerNext
<1>2. CASE ApiStep
  BY <1>1, <1>2, RequestRail
<1>3. CASE DispatchAttempt
  BY <1>1, <1>3, ReserveRail
<1>4. CASE RetryLater \/ HandleRailDenied
           \/ DeliveredAfterClose \/ AttemptSucceeded \/ BudgetExhausted \/ AttemptFailed
  BY <1>1, <1>4, ResolveRail
  DEF DeliveredAfterClose, AttemptSucceeded, BudgetExhausted, AttemptFailed, MoveCase
<1>5. CASE \E row \in rows : SendToRail(row)
  BY <1>5, SendRail
<1>6. CASE RequestError \/ WorkerCrash
  BY <1>6, FaultRail
<1>7. CASE RailStep
  BY <1>7, HandlerRail
<1>8. CASE ReadDeliveredCycle
  BY <1>8, UnrelatedSteps DEF ReadDeliveredCycle, tables
<1>9. CASE SetKillSwitch \/ ClockTick \/ UNCHANGED vars
           \/ (\E c \in sweepList : SweepCycle(c))
  BY <1>9, UnrelatedSteps DEF SetKillSwitch, ClockTick, SweepCycle, vars, tables, local
<1>10. CASE StartTick \/ (\E r \in batch : ReadStep(r)) \/ CancelStep
            \/ ProcessNotifyStep \/ FetchOutbox \/ FindExhaustedPlans \/ EndTick
  <2>1. UNCHANGED <<intents, outbox, railVars, sending>> /\ phase' \notin {"await", "settle"}
    BY <1>10
    DEF StartTick, FetchDueSteps, ReadStep, CancelStep, ProcessNotifyStep, CommitStep,
        FetchOutbox, FindExhaustedPlans, EndTick, tables
  <2> QED  BY <2>1, UnrelatedSteps
<1> QED
  BY <1>2, <1>3, <1>4, <1>5, <1>6, <1>7, <1>8, <1>9, <1>10 DEF Next, WorkerStep

\* Only a handler that persists its outcome writes at the rail.
LEMMA RailWrites ==
  ASSUME [Next]_vars
  PROVE  UNCHANGED railOutcome \/ \E q \in handling : RailPersist(q)
<1>1. CASE RailStep
  BY <1>1 DEF RailStep, RailNext, RailReplay, RailRefuse, RailDown, RailAccept
<1>2. CASE UNCHANGED railVars \/ UNCHANGED vars
  BY <1>2 DEF railVars, vars
<1>3. CASE WorkerStep \/ RequestError \/ WorkerCrash
  BY <1>3
  DEF WorkerStep, ReadStep, CancelStep, ProcessNotifyStep, DispatchAttempt, CommitStep,
      FetchOutbox, SendToRail, Post, RetryLater, RowHandled, HandleRailDenied,
      ReadDeliveredCycle, DeliveredAfterClose, AttemptSucceeded, BudgetExhausted,
      AttemptFailed, MoveCase, CommitDelivered, FindExhaustedPlans, SweepCycle, EndTick,
      RequestError, WorkerCrash, railVars
<1> QED
  BY <1>1, <1>2, <1>3 DEF Next, ApiStep, StartTick, FetchDueSteps, SetKillSwitch, ClockTick

\* So the rail never learns of a first attempt.
LEMMA FirstElsewhereNext ==
  TypeInv /\ RailInv /\ FirstElsewhere /\ [Next]_vars => FirstElsewhere'
<1> SUFFICES ASSUME TypeInv, RailInv, FirstElsewhere, [Next]_vars PROVE FirstElsewhere'
  OBVIOUS
<1>1. CASE UNCHANGED railOutcome
  BY <1>1 DEF FirstElsewhere
<1>2. CASE \E q \in handling : RailPersist(q)
  <2>1. PICK q \in handling : RailPersist(q)
    BY <1>2
  <2>2. \/ UNCHANGED railOutcome
        \/ \E o \in RailOutcome :
             railOutcome' = [railOutcome EXCEPT ![q.row.cycle][q.row.seq] = o]
    BY <2>1 DEF RailPersist
  <2>3. /\ railOutcome \in [Cycles -> [SequenceNos -> RailOutcome \cup {"none"}]]
        /\ q.row.cycle \in Cycles /\ q.row.seq \in SequenceNos /\ q.row.seq # 1
    BY <2>1 DEF TypeInv, TypeOK, RailTypeOK, Handler, OutboxRow, RailInv, RetriesOnly
  <2>4. 1 \in SequenceNos
    BY PolicyAssumption DEF SequenceNos
  <2> QED  BY <2>2, <2>3, <2>4 DEF FirstElsewhere
<1> QED  BY <1>1, <1>2, RailWrites

\* The five parts hold in every reachable state.
THEOREM RailInvariant == Spec => [](RailInv /\ FirstElsewhere)
<1>1. Init => RailInv /\ FirstElsewhere
  BY PolicyAssumption
  DEF Init, DbInit, RailInit, WorkerInit, RailInv, RetriesOnly, HandlersReserved,
      AnswerIsRecorded, RailAgreesWithLedger, FirstElsewhere, SequenceNos, RailOutcome
<1>2. TypeInv /\ LedgerInv /\ RailInv /\ FirstElsewhere /\ [Next]_vars
        => RailInv' /\ FirstElsewhere'
  BY RailInvNext, FirstElsewhereNext
<1> QED  BY <1>1, <1>2, TypeInvariant, LedgerInvariant, PTL DEF Spec

\* Whatever the client missed, resent or gave up on, the outcome on record for
\* a delivered attempt is the rail's own, and the rail executed nothing that
\* was not reserved first.
THEOREM RailAgrees == Spec => []RailAgreesWithLedger
<1>1. RailInv => RailAgreesWithLedger
  BY DEF RailInv
<1> QED  BY <1>1, RailInvariant, PTL

\* Whichever executions the engine has not heard of, a second attempt that may
\* have debited the payer follows only attempts on record as unknown.
THEOREM SecondDebitExplained == Spec => []SecondDebitOnlyAfterUnknown
<1>1. LedgerInv /\ RailInv /\ FirstElsewhere => SecondDebitOnlyAfterUnknown
  <2> SUFFICES ASSUME AttemptsInOrder, FirstElsewhere, RailAgreesWithLedger,
                      NEW c \in Cycles, NEW m \in SequenceNos, NEW n \in SequenceNos,
                      m < n, MayHaveDebited(c, m), MayHaveDebited(c, n)
               PROVE  intents[c][m] = "unknown"
    BY DEF LedgerInv, RailInv, SecondDebitOnlyAfterUnknown
  <2>1. n # 1
    BY DEF SequenceNos
  <2>2. intents[c][n] # "none"
    BY <2>1 DEF MayHaveDebited, RailAgreesWithLedger
  <2>3. intents[c][m] \in {"failure", "unknown"}
    BY <2>2 DEF AttemptsInOrder
  <2>4. intents[c][m] # "failure"
    BY <2>3 DEF MayHaveDebited, FirstElsewhere, RailAgreesWithLedger, RailOutcome
  <2> QED  BY <2>3, <2>4
<1> QED  BY <1>1, LedgerInvariant, RailInvariant, PTL

==============================================================================
