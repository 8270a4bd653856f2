------------------------------ MODULE StepProofs ------------------------------
(***************************************************************************)
(* The plan steps, for every value of the constants: an undelivered outbox *)
(* row and a dispatched step go together, what is queued was covered by a  *)
(* notice, and a closed case has no pending step.  The worker takes its    *)
(* batch once per tick and writes step and case by id, on reads made       *)
(* earlier; the invariants say what those reads still guarantee.           *)
(*                                                                         *)
(* The last two parts are about records that later decisions read, the     *)
(* column attempts_used and the notices. Both are written beside what they *)
(* describe, so each needs that no other writer moves that without them.   *)
(***************************************************************************)
EXTENDS LedgerProofs

\* A step taken into the batch can only have been cancelled since.
BatchTaken ==
  /\ \A r \in batch : stepStatus[r[1]][r[2]] \in {"pending", "cancelled"}
  /\ phase \notin {"steps", "decide"} => batch = {}
  /\ phase = "decide" => current \in batch

RowsDispatched == \A r \in outbox : stepStatus[r.cycle][r.step] = "dispatched"

\* A debit at this instant is inside the window and has a notice of its own.
Covered(c, at) ==
  /\ at % SlotsPerDay \in PermittedSlots
  /\ \E k \in notices[c] : /\ k.covers = at
                           /\ k.sent + NoticeMin <= at
                           /\ at <= k.sent + NoticeMaxAge

\* A positive verdict on an attempt is not undone by later commits.
VerdictCovers ==
  phase = "decide" /\ seen.allowed /\ StepAt(current).type = "attempt" =>
    Covered(current[1], StepAt(current).at)

StepInv == BatchTaken /\ RowsDispatched /\ VerdictCovers /\ DispatchCovered

\* A case that got beyond DUE, now or when a request read it, has its first
\* attempt on record, so nobody will plan steps for it again.
Attempted(c) == intents[c][1] # "none"

AttemptedBeyondDue ==
  \A c \in Cycles :
    /\ cycleState[c] \notin {"absent", "DUE"} => Attempted(c)
    /\ \A w \in Webhooks : readState[w][c] \notin {"absent", "DUE"} => Attempted(c)

NothingPending(c) == \A i \in StepIds : stepStatus[c][i] # "pending"

SweptIsExhausted == \A c \in sweepList : Attempted(c) /\ NothingPending(c)

ClosingInv == AttemptedBeyondDue /\ SweptIsExhausted /\ ClosedCaseHasNoPendingSteps

------------------------------------------------------------------------------
(***************************************************************************)
(* Queued debits                                                           *)
(***************************************************************************)

\* What every step but those of the worker on a plan step or an outbox row
\* does to the steps: it plans a case that had none or cancels pending ones.
LEMMA StepsQuiet ==
  ASSUME TypeInv, StepInv, UNCHANGED <<outbox, notices>>,
         \A c \in Cycles, i \in StepIds :
           stepStatus[c][i] # "absent" =>
             /\ plan'[c] = plan[c]
             /\ \/ stepStatus'[c][i] = stepStatus[c][i]
                \/ stepStatus[c][i] = "pending" /\ stepStatus'[c][i] = "cancelled",
         \/ UNCHANGED <<batch, phase, current, seen>>
         \/ phase' # "decide" /\ batch' = {}
         \/ phase \notin {"steps", "decide"} /\ phase' \notin {"steps", "decide"}
            /\ UNCHANGED batch
  PROVE  StepInv'
<1>1. /\ \A r \in batch : r \in StepRef /\ Exists(r)
      /\ \A r \in outbox : /\ r.cycle \in Cycles /\ r.step \in StepIds
                           /\ stepStatus[r.cycle][r.step] # "absent"
      /\ phase = "decide" => current \in StepRef /\ Exists(current)
  BY DEF TypeInv, TypeOK, DbTypeOK, WorkerTypeOK, StepsPlanned, OutboxRow, Exists, StepOf
<1>2. BatchTaken'
  BY <1>1 DEF StepInv, BatchTaken, StepRef, Exists
<1>3. RowsDispatched'
  BY <1>1 DEF StepInv, RowsDispatched
<1>4. VerdictCovers'
  <2>1. CASE UNCHANGED <<batch, phase, current, seen>>
    <3>1. phase = "decide" => StepAt(current)' = StepAt(current)
      BY <1>1, <2>1 DEF StepAt, StepRef, Exists
    <3> QED  BY <2>1, <3>1 DEF StepInv, VerdictCovers, Covered
  <2>2. CASE phase' # "decide"
    BY <2>2 DEF VerdictCovers
  <2> QED  BY <2>1, <2>2
<1>5. DispatchCovered'
  BY DEF StepInv, DispatchCovered
<1> QED  BY <1>2, <1>3, <1>4, <1>5 DEF StepInv

\* A positive verdict on an attempt means its debit is covered now.
LEMMA VerdictSound ==
  ASSUME TypeInv, NEW r \in StepRef, Exists(r), StepAt(r).type = "attempt", Verdict(r)
  PROVE  Covered(r[1], StepAt(r).at)
<1> DEFINE t == StepAt(r).at
<1>1. r[1] \in Cycles /\ t \in Int
  BY StepType, DbAssumption DEF StepRef, Step, Time
<1>2. AttemptAuthorized(Snapshot(r[1], now), t)
  BY DEF Verdict
<1>3. Snapshot(r[1], now).notices = notices[r[1]]
  BY DEF Snapshot
<1>4. InPermittedWindow(t) /\ NoticeCoversDebit(notices[r[1]], t)
  BY <1>2, <1>3 DEF AttemptAuthorized
<1>5. PICK k \in notices[r[1]] : k.covers = t /\ t - k.sent \in NoticeMin .. NoticeMaxAge
  BY <1>4 DEF NoticeCoversDebit
<1>6. k.sent \in Int
  BY <1>1, DbAssumption DEF TypeInv, TypeOK, DbTypeOK, Notice, Time
<1>7. k.sent + NoticeMin <= t /\ t <= k.sent + NoticeMaxAge
  BY <1>1, <1>5, <1>6, PolicyAssumption
<1> QED  BY <1>4, <1>5, <1>7 DEF Covered, InPermittedWindow

\* The worker takes due steps and reads one of them.
LEMMA BatchSteps ==
  ASSUME TypeInv, StepInv, StartTick \/ \E r \in batch : ReadStep(r)
  PROVE  StepInv'
<1>1. CASE StartTick
  <2>1. /\ batch' = DueSteps(clock) /\ phase' = "steps"
        /\ UNCHANGED <<stepStatus, outbox, notices>>
    BY <1>1 DEF StartTick, FetchDueSteps
  <2>2. BatchTaken'
    BY <2>1 DEF BatchTaken, DueSteps
  <2>3. RowsDispatched' /\ VerdictCovers' /\ DispatchCovered'
    BY <2>1 DEF StepInv, RowsDispatched, VerdictCovers, DispatchCovered
  <2> QED  BY <2>2, <2>3 DEF StepInv
<1>2. CASE \E r \in batch : ReadStep(r)
  <2>1. PICK r \in batch : ReadStep(r)
    BY <1>2
  <2>2. /\ phase' = "decide" /\ current' = r /\ seen'.allowed = Verdict(r)
        /\ UNCHANGED <<stepStatus, outbox, notices, plan, batch>>
    BY <2>1 DEF ReadStep, tables
  <2>3. r \in StepRef /\ Exists(r)
    BY DEF TypeInv, TypeOK, WorkerTypeOK, StepsPlanned
  <2>4. BatchTaken'
    BY <2>2 DEF StepInv, BatchTaken
  <2>5. VerdictCovers'
    <3>1. StepAt(current)' = StepAt(r)
      BY <2>2 DEF StepAt
    <3>2. StepAt(r).type = "attempt" /\ Verdict(r) => Covered(r[1], StepAt(r).at)
      BY <2>3, VerdictSound
    <3> QED  BY <2>2, <3>1, <3>2 DEF VerdictCovers, Covered
  <2>6. RowsDispatched' /\ DispatchCovered'
    BY <2>2 DEF StepInv, RowsDispatched, DispatchCovered
  <2> QED  BY <2>4, <2>5, <2>6 DEF StepInv
<1> QED  BY <1>1, <1>2

\* A step is committed; a row appears only for the step being committed.
LEMMA StepTaken ==
  ASSUME TypeInv, StepInv, NEW status \in StepStatus, CommitStep(status),
         \A c \in Cycles : notices[c] \subseteq notices'[c],
         \A r \in outbox' :
           \/ r \in outbox
           \/ /\ StepOf(r) = current /\ r.cycle \in Cycles
              /\ status = "dispatched" /\ Covered(r.cycle, r.at)
  PROVE  StepInv'
<1>1. /\ phase = "decide" /\ phase' = "steps" /\ batch' = batch \ {current}
      /\ stepStatus' = [stepStatus EXCEPT ![current[1]][current[2]] = status]
  BY DEF CommitStep, SetStepStatus
<1>2. /\ current \in batch /\ current \in StepRef /\ Exists(current)
      /\ stepStatus \in [Cycles -> [StepIds -> StepStatus]]
      /\ batch \subseteq StepRef
  BY <1>1 DEF StepInv, BatchTaken, TypeInv, TypeOK, DbTypeOK, WorkerTypeOK, StepsPlanned
<1>3. /\ stepStatus'[current[1]][current[2]] = status
      /\ \A c \in Cycles, i \in StepIds :
           <<c, i>> # current => stepStatus'[c][i] = stepStatus[c][i]
  BY <1>1, <1>2 DEF StepRef
<1>4. BatchTaken'
  <2>1. \A r \in batch' : r = <<r[1], r[2]>> /\ r[1] \in Cycles /\ r[2] \in StepIds /\ r # current
    BY <1>1, <1>2 DEF StepRef
  <2>2. \A r \in batch' : stepStatus'[r[1]][r[2]] \in {"pending", "cancelled"}
    BY <1>1, <1>3, <2>1 DEF StepInv, BatchTaken
  <2> QED  BY <1>1, <2>2 DEF BatchTaken
<1>5. RowsDispatched'
  <2>1. \A r \in outbox : r.cycle \in Cycles /\ r.step \in StepIds
    BY DEF TypeInv, TypeOK, DbTypeOK, OutboxRow
  <2>2. stepStatus[current[1]][current[2]] # "dispatched"
    BY <1>2 DEF StepInv, BatchTaken
  <2>3. \A r \in outbox : <<r.cycle, r.step>> # current
    BY <2>2 DEF StepInv, RowsDispatched
  <2>4. \A r \in outbox' : StepOf(r) = current => r.cycle = current[1] /\ r.step = current[2]
    BY DEF StepOf
  <2> QED  BY <1>3, <2>1, <2>3, <2>4 DEF StepInv, RowsDispatched
<1>6. VerdictCovers'
  BY <1>1 DEF VerdictCovers
<1>7. DispatchCovered'
  <2>1. \A r \in outbox' : r.cycle \in Cycles /\ Covered(r.cycle, r.at)
    BY DEF StepInv, DispatchCovered, Covered, TypeInv, TypeOK, DbTypeOK, OutboxRow
  <2> QED  BY <2>1 DEF DispatchCovered, Covered
<1> QED  BY <1>4, <1>5, <1>6, <1>7 DEF StepInv

\* The three ways to commit a step.
LEMMA CommitSteps ==
  ASSUME TypeInv, StepInv, CancelStep \/ ProcessNotifyStep \/ DispatchAttempt
  PROVE  StepInv'
<1>1. {"cancelled", "done", "dispatched"} \subseteq StepStatus
  BY DEF StepStatus
<1>2. CASE CancelStep
  <2>1. CommitStep("cancelled") /\ UNCHANGED <<outbox, notices>>
    BY <1>2 DEF CancelStep
  <2> QED  BY <1>1, <2>1, StepTaken
<1>3. CASE ProcessNotifyStep
  <2>1. CommitStep("done") /\ UNCHANGED outbox
    BY <1>3 DEF ProcessNotifyStep
  <2>2. \A c \in Cycles : notices[c] \subseteq notices'[c]
    <3>1. \/ UNCHANGED notices
          \/ \E k : notices' = [notices EXCEPT ![current[1]] = @ \cup {k}]
      BY <1>3 DEF ProcessNotifyStep
    <3>2. notices \in [Cycles -> SUBSET Notice]
      BY DEF TypeInv, TypeOK, DbTypeOK
    <3> QED  BY <3>1, <3>2
  <2> QED  BY <1>1, <2>1, <2>2, StepTaken
<1>4. CASE DispatchAttempt
  <2> DEFINE row == [cycle |-> current[1], seq |-> seen.attempts + 1,
                     step |-> current[2], at |-> StepAt(current).at]
  <2>1. /\ CommitStep("dispatched") /\ phase = "decide" /\ seen.allowed
        /\ StepAt(current).type = "attempt"
        /\ outbox' = outbox \cup {row} /\ UNCHANGED notices
    BY <1>4 DEF DispatchAttempt, CommitStep
  <2>2. current \in StepRef
    BY <2>1 DEF TypeInv, StepsPlanned
  <2>3. Covered(row.cycle, row.at)
    BY <2>1 DEF StepInv, VerdictCovers
  <2>4. StepOf(row) = current /\ row.cycle \in Cycles
    BY <2>2 DEF StepOf, StepRef
  <2> HIDE DEF row
  <2> QED  BY <1>1, <2>1, <2>3, <2>4, StepTaken
<1> QED  BY <1>2, <1>3, <1>4

\* A row is settled; its step is no other row's.
LEMMA RowSettled ==
  ASSUME TypeInv, LedgerInv, StepInv, phase \in {"await", "settle"}, phase' = "drain",
         UNCHANGED <<batch, notices>>, outbox' = outbox \ {sending},
         \A c \in Cycles : c # sending.cycle => stepStatus'[c] = stepStatus[c]
  PROVE  StepInv'
<1>1. \A r \in outbox' : r.cycle \in Cycles /\ r.cycle # sending.cycle
  BY DEF TypeInv, TypeOK, DbTypeOK, OutboxRow, LedgerInv, RowsReserved
<1>2. BatchTaken'
  BY DEF StepInv, BatchTaken
<1>3. RowsDispatched'
  BY <1>1 DEF StepInv, RowsDispatched
<1>4. VerdictCovers'
  BY DEF VerdictCovers
<1>5. DispatchCovered'
  BY DEF StepInv, DispatchCovered
<1> QED  BY <1>2, <1>3, <1>4, <1>5 DEF StepInv

\* Requests plan steps for a case that had none, or cancel pending ones.
LEMMA RequestSteps ==
  ASSUME TypeInv, NEW w \in Webhooks,
         \/ IngestCycleDue(w) \/ BeginRequest(w) \/ AbortRequest(w)
         \/ QuarantineStaleOutcome(w) \/ IngestDebitSucceeded(w)
         \/ IngestDebitFailedPlanned(w) \/ IngestDebitFailedStopped(w)
         \/ IngestMandateRevoked(w) \/ IngestNotificationOptedOut(w)
  PROVE  /\ UNCHANGED <<outbox, notices>>
         /\ \A c \in Cycles, i \in StepIds :
              stepStatus[c][i] # "absent" =>
                /\ plan'[c] = plan[c]
                /\ \/ stepStatus'[c][i] = stepStatus[c][i]
                   \/ stepStatus[c][i] = "pending" /\ stepStatus'[c][i] = "cancelled"
<1>1. CASE \/ IngestCycleDue(w) \/ BeginRequest(w) \/ AbortRequest(w)
           \/ QuarantineStaleOutcome(w) \/ IngestDebitSucceeded(w)
           \/ IngestDebitFailedStopped(w)
  BY <1>1
  DEF IngestCycleDue, BeginRequest, AbortRequest, QuarantineStaleOutcome,
      IngestDebitSucceeded, IngestDebitFailedStopped, DebitFailedCommit, tables
<1>2. CASE IngestDebitFailedPlanned(w)
  <2>1. PICK p \in Plans :
          /\ plan' = [plan EXCEPT ![w.about] = p]
          /\ stepStatus' = [stepStatus EXCEPT ![w.about] =
               [i \in StepIds |-> IF i \in DOMAIN p THEN "pending" ELSE "absent"]]
    BY <1>2 DEF IngestDebitFailedPlanned
  <2>2. w.about \in Cycles /\ intents[w.about][1] = "none" /\ UNCHANGED <<outbox, notices>>
    BY <1>2, WebhookAssumption
    DEF IngestDebitFailedPlanned, DebitFailedCommit, AppliesToOpenCycle, CanReserve,
        LifecycleEvents
  <2>3. \A i \in StepIds : stepStatus[w.about][i] = "absent"
    BY <2>2 DEF TypeInv, StepsPlanned
  <2> QED  BY <2>1, <2>2, <2>3 DEF TypeInv, TypeOK, DbTypeOK
<1>3. CASE IngestMandateRevoked(w) \/ IngestNotificationOptedOut(w)
  <2>1. PICK e \in {"MANDATE_REVOKED", "OPTED_OUT"} : AbandonInFlightCycles(w, e)
    BY <1>3 DEF IngestMandateRevoked, IngestNotificationOptedOut
  <2>2. UNCHANGED <<outbox, notices, plan>>
    BY <1>3 DEF IngestMandateRevoked, IngestNotificationOptedOut
  <2>3. \A c \in Cycles : stepStatus'[c] \in {stepStatus[c], CancelPending(stepStatus[c])}
    BY <2>1 DEF AbandonInFlightCycles
  <2>4. \A c \in Cycles, i \in StepIds :
          CancelPending(stepStatus[c])[i] =
            IF stepStatus[c][i] = "pending" THEN "cancelled" ELSE stepStatus[c][i]
    BY DEF CancelPending
  <2> QED  BY <2>2, <2>3, <2>4
<1> QED  BY <1>1, <1>2, <1>3

\* Every step of the engine preserves StepInv.
LEMMA StepInvNext == TypeInv /\ LedgerInv /\ StepInv /\ [Next]_vars => StepInv'
<1> SUFFICES ASSUME TypeInv, LedgerInv, StepInv, [Next]_vars PROVE StepInv'
  OBVIOUS
<1>1. CASE ApiStep
  <2>1. UNCHANGED local
    BY <1>1 DEF ApiStep
  <2>2. PICK w \in Webhooks :
          \/ IngestCycleDue(w) \/ BeginRequest(w) \/ AbortRequest(w)
          \/ QuarantineStaleOutcome(w) \/ IngestDebitSucceeded(w)
          \/ IngestDebitFailedPlanned(w) \/ IngestDebitFailedStopped(w)
          \/ IngestMandateRevoked(w) \/ IngestNotificationOptedOut(w)
    BY <1>1 DEF ApiStep, IngestNext
  <2> QED  BY <2>1, <2>2, RequestSteps, StepsQuiet DEF local
<1>2. CASE StartTick \/ \E r \in batch : ReadStep(r)
  BY <1>2, BatchSteps
<1>3. CASE CancelStep \/ ProcessNotifyStep \/ DispatchAttempt
  BY <1>3, CommitSteps
<1>4. CASE HandleRailDenied
           \/ DeliveredAfterClose \/ AttemptSucceeded \/ BudgetExhausted \/ AttemptFailed
  <2>1. /\ phase \in {"await", "settle"} /\ phase' = "drain"
        /\ outbox' = outbox \ {sending} /\ UNCHANGED <<batch, notices>>
    BY <1>4
    DEF HandleRailDenied, DeliveredAfterClose, AttemptSucceeded, BudgetExhausted,
        AttemptFailed, MoveCase, CommitDelivered, RowHandled
  <2>2. \E s : stepStatus' = [stepStatus EXCEPT ![sending.cycle] = s]
    <3>1. CASE HandleRailDenied \/ DeliveredAfterClose \/ AttemptFailed
      <4>1. \E s : SetStepStatus(sending.cycle, sending.step, s)
        BY <3>1 DEF HandleRailDenied, DeliveredAfterClose, AttemptFailed
      <4>2. PICK s : stepStatus' = [stepStatus EXCEPT ![sending.cycle][sending.step] = s]
        BY <4>1 DEF SetStepStatus
      <4>3. stepStatus' = [stepStatus EXCEPT ![sending.cycle] =
                             [stepStatus[sending.cycle] EXCEPT ![sending.step] = s]]
        BY <4>2
      <4> QED  BY <4>3
    <3>2. CASE AttemptSucceeded \/ BudgetExhausted
      <4>1. CloseSteps
        BY <3>2 DEF AttemptSucceeded, BudgetExhausted
      <4> QED  BY <4>1 DEF CloseSteps
    <3> QED  BY <1>4, <3>1, <3>2
  <2>3. \A c \in Cycles : c # sending.cycle => stepStatus'[c] = stepStatus[c]
    BY <2>2 DEF TypeInv, TypeOK, DbTypeOK
  <2> QED  BY <2>1, <2>3, RowSettled
<1>5. CASE FetchOutbox \/ WorkerCrash
  <2>1. /\ UNCHANGED <<outbox, notices, plan, stepStatus>>
        /\ phase' # "decide" /\ batch' = {}
    BY <1>5 DEF FetchOutbox, WorkerCrash, tables
  <2> QED  BY <2>1, StepsQuiet
<1>6. CASE (\E row \in rows : SendToRail(row)) \/ RetryLater \/ ReadDeliveredCycle
           \/ FindExhaustedPlans \/ EndTick
  <2>1. /\ UNCHANGED <<outbox, notices, plan, stepStatus, batch>>
        /\ phase \notin {"steps", "decide"} /\ phase' \notin {"steps", "decide"}
    BY <1>6
    DEF SendToRail, RetryLater, RowHandled, ReadDeliveredCycle, FindExhaustedPlans,
        EndTick, tables
  <2> QED  BY <2>1, StepsQuiet
<1>7. CASE (\E c \in sweepList : SweepCycle(c)) \/ RequestError \/ RailStep
           \/ SetKillSwitch \/ ClockTick \/ UNCHANGED vars
  <2>1. UNCHANGED <<outbox, notices, plan, stepStatus, batch, phase, current, seen>>
    BY <1>7
    DEF SweepCycle, RequestError, RailStep, SetKillSwitch, ClockTick, vars, tables, local
  <2> QED  BY <2>1, StepsQuiet
<1> QED  BY <1>1, <1>2, <1>3, <1>4, <1>5, <1>6, <1>7 DEF Next, WorkerStep

\* The four parts of StepInv hold in every reachable state.
THEOREM StepInvariant == Spec => []StepInv
<1>1. Init => StepInv
  BY DEF Init, DbInit, WorkerInit, StepInv, BatchTaken, RowsDispatched, VerdictCovers,
         DispatchCovered
<1>2. TypeInv /\ LedgerInv /\ StepInv /\ [Next]_vars => StepInv'
  BY StepInvNext
<1> QED  BY <1>1, <1>2, TypeInvariant, LedgerInvariant, PTL DEF Spec

\* An attempt is in flight exactly while one undelivered row stands for it, and
\* the plan step of that row is the dispatched one: no crash, refusal or lost
\* reply leaves the three tables out of step.
THEOREM OutboxMatches == Spec => []OutboxMatchesLedger
<1>1. LedgerInv /\ StepInv => OutboxMatchesLedger
  BY DEF LedgerInv, RowsReserved, StepInv, RowsDispatched, OutboxMatchesLedger
<1> QED  BY <1>1, LedgerInvariant, StepInvariant, PTL

\* Whatever plan a policy returns, a debit queued for the rail lies in the
\* permitted window and has a notice of its own, neither too fresh nor too old.
THEOREM QueuedDebitsCovered == Spec => []DispatchCovered
<1>1. StepInv => DispatchCovered
  BY DEF StepInv
<1> QED  BY <1>1, StepInvariant, PTL

------------------------------------------------------------------------------
(***************************************************************************)
(* Closed cases                                                            *)
(***************************************************************************)

\* What a step may do to cases and steps without breaking ClosingInv.
LEMMA ClosingKept ==
  ASSUME TypeInv, ClosingInv,
         \A c \in Cycles : Attempted(c) => intents'[c][1] # "none",
         \A c \in Cycles, i \in StepIds :
           stepStatus'[c][i] = "pending" => stepStatus[c][i] = "pending" \/ ~Attempted(c),
         \A c \in Cycles :
           \/ cycleState'[c] = cycleState[c]
           \/ /\ cycleState'[c] \notin {"absent", "DUE"} => intents'[c][1] # "none"
              /\ cycleState'[c] \in TerminalStates =>
                   \A i \in StepIds : stepStatus'[c][i] # "pending",
         \A w \in Webhooks, c \in Cycles :
           readState'[w][c] \in {readState[w][c], cycleState[c], "absent"},
         sweepList' \subseteq sweepList
  PROVE  ClosingInv'
<1>1. AttemptedBeyondDue'
  BY DEF ClosingInv, AttemptedBeyondDue, Attempted
<1>2. SweptIsExhausted'
  BY DEF ClosingInv, SweptIsExhausted, Attempted, NothingPending, TypeInv, TypeOK,
         WorkerTypeOK
<1>3. ClosedCaseHasNoPendingSteps'
  <2> SUFFICES ASSUME NEW c \in Cycles, NEW i \in StepIds, cycleState'[c] \in TerminalStates
               PROVE  stepStatus'[c][i] # "pending"
    BY DEF ClosedCaseHasNoPendingSteps
  <2>1. CASE cycleState'[c] = cycleState[c]
    <3>1. cycleState[c] \notin {"absent", "DUE"}
      BY <2>1 DEF TerminalStates
    <3>2. Attempted(c) /\ stepStatus[c][i] # "pending"
      BY <2>1, <3>1 DEF ClosingInv, AttemptedBeyondDue, ClosedCaseHasNoPendingSteps
    <3> QED  BY <3>2
  <2>2. CASE cycleState'[c] # cycleState[c]
    BY <2>2
  <2> QED  BY <2>1, <2>2
<1> QED  BY <1>1, <1>2, <1>3 DEF ClosingInv

\* A revocation or an opt-out only concerns cases that got beyond DUE.
LEMMA AbandonableIsEngaged ==
  ASSUME NEW s, NEW e \in {"MANDATE_REVOKED", "OPTED_OUT"}, e \in LegalEvents(s)
  PROVE  s \notin {"absent", "DUE"}
BY DEF LegalEvents, Transitions

\* What a request has read is what the case was, or nothing.
LEMMA ReadStates ==
  ASSUME TypeInv, NEW w \in Webhooks,
         \/ BeginRequest(w) \/ CloseRequest(w) \/ UNCHANGED readState
  PROVE  \A v \in Webhooks, c \in Cycles :
           readState'[v][c] \in {readState[v][c], cycleState[c], "absent"}
<1>0. readState \in [Webhooks -> [Cycles -> CaseState \cup {"absent"}]]
  BY DEF TypeInv, TypeOK, ApiTypeOK
<1>1. CASE BeginRequest(w)
  BY <1>0, <1>1 DEF BeginRequest
<1>2. CASE CloseRequest(w)
  BY <1>0, <1>2 DEF CloseRequest, NothingRead
<1>3. CASE UNCHANGED readState
  BY <1>3
<1> QED  BY <1>1, <1>2, <1>3

\* Requests: a first outcome concerns a case without steps; an abandonment
\* cancels the steps of the cases it closes.
LEMMA RequestClosing ==
  ASSUME TypeInv, ClosingInv, [Ledger!Next]_intents, UNCHANGED sweepList,
         NEW w \in Webhooks,
         \/ IngestCycleDue(w) \/ BeginRequest(w) \/ AbortRequest(w)
         \/ QuarantineStaleOutcome(w) \/ IngestDebitSucceeded(w)
         \/ IngestDebitFailedPlanned(w) \/ IngestDebitFailedStopped(w)
         \/ IngestMandateRevoked(w) \/ IngestNotificationOptedOut(w)
  PROVE  ClosingInv'
<1>0. /\ cycleState \in [Cycles -> CaseState \cup {"absent"}]
      /\ intents \in [Cycles -> [SequenceNos -> IntentOutcome]]
      /\ stepStatus \in [Cycles -> [StepIds -> StepStatus]]
      /\ 1 \in SequenceNos
  BY PolicyAssumption DEF TypeInv, TypeOK, DbTypeOK, SequenceNos
<1>1. \A c \in Cycles : Attempted(c) => intents'[c][1] # "none"
  BY <1>0, LedgerGrows DEF Attempted
<1>2. \A v \in Webhooks, c \in Cycles :
        readState'[v][c] \in {readState[v][c], cycleState[c], "absent"}
  <2>1. BeginRequest(w) \/ CloseRequest(w) \/ UNCHANGED readState
    BY DEF IngestCycleDue, AbortRequest, QuarantineStaleOutcome, IngestDebitSucceeded,
           IngestDebitFailedPlanned, IngestDebitFailedStopped, DebitFailedCommit,
           IngestMandateRevoked, IngestNotificationOptedOut, CommitRequest, apiVars
  <2> QED  BY <2>1, ReadStates
<1>3. CASE BeginRequest(w) \/ AbortRequest(w) \/ QuarantineStaleOutcome(w)
  <2>1. UNCHANGED <<cycleState, stepStatus>>
    BY <1>3 DEF BeginRequest, AbortRequest, QuarantineStaleOutcome, tables
  <2> QED  BY <1>1, <1>2, <2>1, ClosingKept
<1>4. CASE IngestCycleDue(w)
  <2>1. /\ UNCHANGED stepStatus
        /\ \A c \in Cycles : cycleState'[c] \in {cycleState[c], "DUE"}
    BY <1>0, <1>4 DEF IngestCycleDue
  <2> QED  BY <1>1, <1>2, <2>1, ClosingKept DEF TerminalStates
<1>5. ASSUME IngestDebitSucceeded(w) \/ DebitFailedCommit(w)
      PROVE  /\ w.about \in Cycles /\ ~Attempted(w.about)
             /\ intents'[w.about][1] # "none"
             /\ \A i \in StepIds : stepStatus[w.about][i] = "absent"
  <2>1. w.about \in Cycles /\ intents[w.about][1] = "none"
    BY <1>5, WebhookAssumption
    DEF IngestDebitSucceeded, DebitFailedCommit, AppliesToOpenCycle, CanReserve,
        LifecycleEvents
  <2>2. \/ intents' = [intents EXCEPT ![w.about][1] = "success"]
        \/ intents' = [intents EXCEPT ![w.about][1] = "failure"]
    BY <1>5 DEF IngestDebitSucceeded, DebitFailedCommit, SetOutcome
  <2>3. intents'[w.about][1] # "none"
    BY <1>0, <2>1, <2>2
  <2> QED  BY <2>1, <2>3 DEF Attempted, TypeInv, StepsPlanned
<1>6. CASE IngestDebitSucceeded(w)
  <2>1. cycleState' = [cycleState EXCEPT ![w.about] = "RECOVERED"] /\ UNCHANGED stepStatus
    BY <1>6 DEF IngestDebitSucceeded
  <2>2. \A c \in Cycles : cycleState'[c] = cycleState[c] \/ c = w.about
    BY <1>0, <2>1
  <2> QED  BY <1>1, <1>2, <1>5, <1>6, <2>1, <2>2, ClosingKept
<1>7. CASE IngestDebitFailedPlanned(w) \/ IngestDebitFailedStopped(w)
  <2>1. DebitFailedCommit(w)
    BY <1>7 DEF IngestDebitFailedPlanned, IngestDebitFailedStopped
  <2>2. \E s \in {"SCHEDULED", "AWAITING_MANUAL"} :
          cycleState' = [cycleState EXCEPT ![w.about] = s]
    BY <1>7, PlannedState, StoppedState
  <2>3. \A c \in Cycles : \/ cycleState'[c] = cycleState[c]
                          \/ c = w.about /\ cycleState'[c] \notin TerminalStates
    BY <1>0, <2>2 DEF TerminalStates
  <2>4. \A c \in Cycles : c # w.about => stepStatus'[c] = stepStatus[c]
    <3>1. UNCHANGED stepStatus \/ \E s : stepStatus' = [stepStatus EXCEPT ![w.about] = s]
      BY <1>7 DEF IngestDebitFailedPlanned, IngestDebitFailedStopped
    <3> QED  BY <1>0, <3>1
  <2> QED  BY <1>1, <1>2, <1>5, <2>1, <2>3, <2>4, ClosingKept
<1>8. CASE IngestMandateRevoked(w) \/ IngestNotificationOptedOut(w)
  <2>1. PICK e \in {"MANDATE_REVOKED", "OPTED_OUT"} : AbandonInFlightCycles(w, e)
    BY <1>8 DEF IngestMandateRevoked, IngestNotificationOptedOut
  <2> DEFINE abandoned == {c \in CyclesOf(w) : /\ readState[w][c] \notin TerminalStates
                                              /\ e \in LegalEvents(readState[w][c])}
  <2>2. \A c \in Cycles :
          /\ c \notin abandoned => cycleState'[c] = cycleState[c]
          /\ stepStatus'[c] = IF c \in abandoned THEN CancelPending(stepStatus[c])
                                                 ELSE stepStatus[c]
    BY <2>1 DEF AbandonInFlightCycles
  <2>3. \A c \in Cycles : c \in abandoned => Attempted(c)
    BY AbandonableIsEngaged DEF ClosingInv, AttemptedBeyondDue
  <2>4. \A c \in Cycles, i \in StepIds :
          CancelPending(stepStatus[c])[i] =
            IF stepStatus[c][i] = "pending" THEN "cancelled" ELSE stepStatus[c][i]
    BY DEF CancelPending
  <2> HIDE DEF abandoned
  <2>5. \A c \in Cycles, i \in StepIds :
          stepStatus'[c][i] = "pending" => stepStatus[c][i] = "pending" /\ c \notin abandoned
    BY <2>2, <2>4
  <2>6. \A c \in Cycles :
           \/ cycleState'[c] = cycleState[c]
           \/ /\ intents'[c][1] # "none"
              /\ \A i \in StepIds : stepStatus'[c][i] # "pending"
    BY <1>1, <2>2, <2>3, <2>5
  <2> QED  BY <1>1, <1>2, <2>5, <2>6, ClosingKept
<1> QED  BY <1>3, <1>4, <1>6, <1>7, <1>8

\* The worker commits a plan step.
LEMMA CommitClosing ==
  ASSUME TypeInv, LedgerInv, ClosingInv, [Ledger!Next]_intents,
         CancelStep \/ ProcessNotifyStep \/ DispatchAttempt, UNCHANGED apiVars
  PROVE  ClosingInv'
<1>0. /\ cycleState \in [Cycles -> CaseState \cup {"absent"}]
      /\ stepStatus \in [Cycles -> [StepIds -> StepStatus]]
      /\ 1 \in SequenceNos
  BY PolicyAssumption DEF TypeInv, TypeOK, DbTypeOK, SequenceNos
<1>1. \A c \in Cycles : Attempted(c) => intents'[c][1] # "none"
  BY <1>0, LedgerGrows DEF Attempted
<1>2. PICK status \in {"cancelled", "done", "dispatched"} : CommitStep(status)
  BY DEF CancelStep, ProcessNotifyStep, DispatchAttempt
<1>3. /\ phase = "decide" /\ UNCHANGED <<sweepList, readState>>
      /\ stepStatus' = [stepStatus EXCEPT ![current[1]][current[2]] = status]
  BY <1>2 DEF CommitStep, SetStepStatus, apiVars
<1>4. current \in StepRef /\ current[1] \in Cycles /\ current[2] \in StepIds
  BY <1>3 DEF TypeInv, StepsPlanned, StepRef
<1>5. \A c \in Cycles, i \in StepIds :
        stepStatus'[c][i] = "pending" => stepStatus[c][i] = "pending"
  BY <1>0, <1>3, <1>4
<1>6. \A c \in Cycles :
        \/ cycleState'[c] = cycleState[c]
        \/ intents'[c][1] # "none" /\ cycleState'[c] \notin TerminalStates
  <2>1. CASE CancelStep \/ ProcessNotifyStep
    BY <2>1 DEF CancelStep, ProcessNotifyStep
  <2>2. CASE DispatchAttempt
    <3>1. /\ seen.state = "SCHEDULED"
          /\ cycleState' = [cycleState EXCEPT ![current[1]] =
                              Transition("SCHEDULED", "STEP_DUE")]
      BY <2>2 DEF DispatchAttempt
    <3>2. cycleState' = [cycleState EXCEPT ![current[1]] = "EXECUTING"]
      BY <3>1, Edges
    <3>3. Attempted(current[1])
      BY <1>3, <3>1 DEF LedgerInv, VerdictCurrent, Settled, Attempted
    <3> QED  BY <1>0, <1>1, <1>4, <3>2, <3>3 DEF TerminalStates
  <2> QED  BY <2>1, <2>2
<1> QED  BY <1>1, <1>3, <1>5, <1>6, ClosingKept

\* The worker settles a row: only AttemptSucceeded and BudgetExhausted close.
LEMMA SettleClosing ==
  ASSUME TypeInv, LedgerInv, ClosingInv, [Ledger!Next]_intents, UNCHANGED apiVars,
         \/ RetryLater \/ HandleRailDenied \/ DeliveredAfterClose
         \/ AttemptSucceeded \/ BudgetExhausted \/ AttemptFailed
  PROVE  ClosingInv'
<1>0. /\ cycleState \in [Cycles -> CaseState \cup {"absent"}]
      /\ stepStatus \in [Cycles -> [StepIds -> StepStatus]]
      /\ 1 \in SequenceNos
  BY PolicyAssumption DEF TypeInv, TypeOK, DbTypeOK, SequenceNos
<1>1. \A c \in Cycles : Attempted(c) => intents'[c][1] # "none"
  BY <1>0, LedgerGrows DEF Attempted
<1>2. UNCHANGED <<sweepList, readState>> /\ phase \in {"await", "settle"}
  BY DEF RetryLater, HandleRailDenied, DeliveredAfterClose, AttemptSucceeded,
         BudgetExhausted, AttemptFailed, MoveCase, CommitDelivered, RowHandled, apiVars
<1>3. /\ sending.cycle \in Cycles /\ sending.step \in StepIds
      /\ Attempted(sending.cycle)
  BY <1>2 DEF TypeInv, StepsPlanned, Exists, StepOf, OutboxRow, Attempted
<1>4. ASSUME NEW s \in {"done", "cancelled"},
             SetStepStatus(sending.cycle, sending.step, s)
      PROVE  \A c \in Cycles, i \in StepIds :
               stepStatus'[c][i] = "pending" => stepStatus[c][i] = "pending"
  BY <1>0, <1>3, <1>4 DEF SetStepStatus
<1>5. CASE RetryLater
  BY <1>1, <1>2, <1>5, ClosingKept DEF RetryLater, tables
<1>6. CASE HandleRailDenied \/ DeliveredAfterClose
  <2>1. /\ UNCHANGED cycleState
        /\ \E s \in {"done", "cancelled"} : SetStepStatus(sending.cycle, sending.step, s)
    BY <1>6 DEF HandleRailDenied, DeliveredAfterClose
  <2> QED  BY <1>1, <1>2, <1>4, <2>1, ClosingKept
<1>7. CASE AttemptFailed
  <2>1. /\ cycleState' = [cycleState EXCEPT ![sending.cycle] =
                            Transition("EXECUTING", "ATTEMPT_FAILED_BUDGET_LEFT")]
        /\ SetStepStatus(sending.cycle, sending.step, "done")
    BY <1>7 DEF AttemptFailed, MoveCase
  <2>2. cycleState' = [cycleState EXCEPT ![sending.cycle] = "SCHEDULED"]
    BY <2>1, Edges
  <2>3. \A c \in Cycles :
          \/ cycleState'[c] = cycleState[c]
          \/ intents'[c][1] # "none" /\ cycleState'[c] \notin TerminalStates
    BY <1>0, <1>1, <1>3, <2>2 DEF TerminalStates
  <2> QED  BY <1>1, <1>2, <1>4, <2>1, <2>3, ClosingKept
<1>8. CASE AttemptSucceeded \/ BudgetExhausted
  <2> DEFINE marked == [stepStatus[sending.cycle] EXCEPT ![sending.step] = "done"]
  <2>1. /\ \E s : cycleState' = [cycleState EXCEPT ![sending.cycle] = s]
        /\ stepStatus' = [stepStatus EXCEPT ![sending.cycle] = CancelPending(marked)]
    BY <1>0, <1>3, <1>8 DEF AttemptSucceeded, BudgetExhausted, MoveCase, CloseSteps
  <2> HIDE DEF marked
  <2>2. \A i \in StepIds : CancelPending(marked)[i] # "pending"
    BY DEF CancelPending
  <2>3. \A c \in Cycles :
          /\ c # sending.cycle => stepStatus'[c] = stepStatus[c]
                                  /\ cycleState'[c] = cycleState[c]
          /\ c = sending.cycle => \A i \in StepIds : stepStatus'[c][i] # "pending"
    BY <1>0, <1>3, <2>1, <2>2
  <2> QED  BY <1>1, <1>2, <1>3, <2>3, ClosingKept
<1> QED  BY <1>5, <1>6, <1>7, <1>8

\* The sweep lists cases that have nothing left to do, and closes only those.
LEMMA SweepClosing ==
  ASSUME TypeInv, LedgerInv, ClosingInv, UNCHANGED apiVars,
         FindExhaustedPlans \/ \E c \in sweepList : SweepCycle(c)
  PROVE  ClosingInv'
<1>0. cycleState \in [Cycles -> CaseState \cup {"absent"}] /\ UNCHANGED readState
  BY DEF TypeInv, TypeOK, DbTypeOK, apiVars
<1>1. CASE FindExhaustedPlans
  <2>1. /\ UNCHANGED <<cycleState, stepStatus, intents>>
        /\ sweepList' = {c \in Cycles : cycleState[c] = "SCHEDULED" /\ ~CycleHasOpenSteps(c)}
    BY <1>1 DEF FindExhaustedPlans, tables
  <2>2. SweptIsExhausted'
    <3>1. \A c \in Cycles : ~CycleHasOpenSteps(c) => NothingPending(c)
      BY DEF CycleHasOpenSteps, NothingPending
    <3>2. \A c \in Cycles : cycleState[c] = "SCHEDULED" => Attempted(c)
      BY DEF LedgerInv, SettledWhenScheduled, Settled, Attempted
    <3> QED  BY <2>1, <3>1, <3>2 DEF SweptIsExhausted, Attempted, NothingPending
  <2>3. AttemptedBeyondDue' /\ ClosedCaseHasNoPendingSteps'
    BY <1>0, <2>1
    DEF ClosingInv, AttemptedBeyondDue, Attempted, ClosedCaseHasNoPendingSteps
  <2> QED  BY <2>2, <2>3 DEF ClosingInv
<1>2. CASE \E c \in sweepList : SweepCycle(c)
  <2>1. PICK c \in sweepList : SweepCycle(c)
    BY <1>2
  <2>2. /\ cycleState' = [cycleState EXCEPT ![c] =
                            Transition("SCHEDULED", "BUDGET_EXHAUSTED")]
        /\ UNCHANGED <<stepStatus, intents>> /\ sweepList' \subseteq sweepList
    BY <2>1 DEF SweepCycle
  <2>3. cycleState' = [cycleState EXCEPT ![c] = "ABANDONED"]
    BY <2>2, Edges
  <2>4. Attempted(c) /\ NothingPending(c)
    BY DEF ClosingInv, SweptIsExhausted
  <2>5. \A d \in Cycles :
          \/ cycleState'[d] = cycleState[d]
          \/ intents'[d][1] # "none" /\ \A i \in StepIds : stepStatus'[d][i] # "pending"
    BY <1>0, <2>2, <2>3, <2>4 DEF Attempted, NothingPending
  <2> QED  BY <1>0, <2>2, <2>5, ClosingKept DEF Attempted
<1> QED  BY <1>1, <1>2

\* Every step of the engine preserves ClosingInv.
LEMMA ClosingInvNext == TypeInv /\ LedgerInv /\ ClosingInv /\ [Next]_vars => ClosingInv'
<1> SUFFICES ASSUME TypeInv, LedgerInv, ClosingInv, [Next]_vars PROVE ClosingInv'
  OBVIOUS
<1>1. [Ledger!Next]_intents
  BY LedgerNext
<1>2. CASE ApiStep
  <2>1. UNCHANGED sweepList
    BY <1>2 DEF ApiStep, local
  <2>2. PICK w \in Webhooks :
          \/ IngestCycleDue(w) \/ BeginRequest(w) \/ AbortRequest(w)
          \/ QuarantineStaleOutcome(w) \/ IngestDebitSucceeded(w)
          \/ IngestDebitFailedPlanned(w) \/ IngestDebitFailedStopped(w)
          \/ IngestMandateRevoked(w) \/ IngestNotificationOptedOut(w)
    BY <1>2 DEF ApiStep, IngestNext
  <2> QED  BY <1>1, <2>1, <2>2, RequestClosing
<1>3. CASE (CancelStep \/ ProcessNotifyStep \/ DispatchAttempt) /\ UNCHANGED apiVars
  BY <1>1, <1>3, CommitClosing
<1>4. CASE /\ \/ RetryLater \/ HandleRailDenied \/ DeliveredAfterClose
              \/ AttemptSucceeded \/ BudgetExhausted \/ AttemptFailed
           /\ UNCHANGED apiVars
  BY <1>1, <1>4, SettleClosing
<1>5. CASE (FindExhaustedPlans \/ \E c \in sweepList : SweepCycle(c)) /\ UNCHANGED apiVars
  BY <1>5, SweepClosing
<1>6. CASE \/ StartTick
           \/ /\ \/ (\E r \in batch : ReadStep(r)) \/ FetchOutbox
                 \/ (\E row \in rows : SendToRail(row))
                 \/ ReadDeliveredCycle \/ EndTick \/ RequestError \/ WorkerCrash
              /\ UNCHANGED apiVars
           \/ RailStep \/ SetKillSwitch \/ ClockTick \/ UNCHANGED vars
  <2>1. /\ UNCHANGED <<cycleState, stepStatus, intents, readState>>
        /\ sweepList' \in {sweepList, {}}
    BY <1>6
    DEF StartTick, FetchDueSteps, ReadStep, FetchOutbox, SendToRail, ReadDeliveredCycle,
        EndTick, RequestError, WorkerCrash, RailStep, SetKillSwitch, ClockTick, vars,
        tables, local, apiVars
  <2> QED  BY <2>1, ClosingKept DEF Attempted
<1> QED  BY <1>2, <1>3, <1>4, <1>5, <1>6 DEF Next, WorkerStep

\* The three parts of ClosingInv hold in every reachable state.
THEOREM ClosingInvariant == Spec => []ClosingInv
<1>1. Init => ClosingInv
  BY DEF Init, DbInit, ApiInit, NothingRead, WorkerInit, ClosingInv, AttemptedBeyondDue,
         SweptIsExhausted, ClosedCaseHasNoPendingSteps, TerminalStates
<1>2. TypeInv /\ LedgerInv /\ ClosingInv /\ [Next]_vars => ClosingInv'
  BY ClosingInvNext
<1> QED  BY <1>1, <1>2, TypeInvariant, LedgerInvariant, PTL DEF Spec

\* Whoever closes a case (a request, the settling of an attempt, the sweep) and
\* however stale its read was, none of the case's steps stays pending.
THEOREM ClosedIsClosed == Spec => []ClosedCaseHasNoPendingSteps
<1>1. ClosingInv => ClosedCaseHasNoPendingSteps
  BY DEF ClosingInv
<1> QED  BY <1>1, ClosingInvariant, PTL


------------------------------------------------------------------------------
(***************************************************************************)
(* cycles.attempts_used                                                    *)
(***************************************************************************)

\* Overwriting an outcome does not change how many attempts there are.
LEMMA SameCount ==
  ASSUME NEW c \in Cycles,
         \A n \in SequenceNos : intents'[c][n] # "none" <=> intents[c][n] # "none"
  PROVE  CountAttempts(c)' = CountAttempts(c)
<1>1. {n \in SequenceNos : intents'[c][n] # "none"} = {n \in SequenceNos : intents[c][n] # "none"}
  OBVIOUS
<1> QED  BY <1>1 DEF CountAttempts

\* A case with a first attempt only has one attempt.
LEMMA OneAttempt ==
  ASSUME NEW c \in Cycles,
         \A n \in SequenceNos : intents'[c][n] # "none" <=> n = 1
  PROVE  CountAttempts(c)' = 1
<1>1. {n \in SequenceNos : intents'[c][n] # "none"} = {1}
  BY PolicyAssumption DEF SequenceNos
<1>2. Cardinality({1}) = 1
  BY FS_Singleton
<1> QED  BY <1>1, <1>2 DEF CountAttempts

\* What a step may do without breaking BudgetColumnHonest: a case that is, or
\* becomes, SCHEDULED or RECOVERED keeps its count and its column.
LEMMA BudgetKept ==
  ASSUME BudgetColumnHonest,
         \A c \in Cycles :
           cycleState'[c] \in {"SCHEDULED", "RECOVERED"} =>
             \/ attemptsUsed'[c] = CountAttempts(c)'
             \/ /\ cycleState'[c] = cycleState[c] /\ attemptsUsed'[c] = attemptsUsed[c]
                /\ \A n \in SequenceNos : intents'[c][n] # "none" <=> intents[c][n] # "none"
  PROVE  BudgetColumnHonest'
BY SameCount DEF BudgetColumnHonest

\* Requests: a first outcome is the only attempt of its case.
LEMMA RequestBudget ==
  ASSUME TypeInv, LedgerInv, BudgetColumnHonest, NEW w \in Webhooks,
         \/ IngestCycleDue(w) \/ BeginRequest(w) \/ AbortRequest(w)
         \/ QuarantineStaleOutcome(w) \/ IngestDebitSucceeded(w)
         \/ IngestDebitFailedPlanned(w) \/ IngestDebitFailedStopped(w)
         \/ IngestMandateRevoked(w) \/ IngestNotificationOptedOut(w)
  PROVE  BudgetColumnHonest'
<1>0. /\ cycleState \in [Cycles -> CaseState \cup {"absent"}]
      /\ intents \in [Cycles -> [SequenceNos -> IntentOutcome]]
      /\ attemptsUsed \in [Cycles -> 0 .. MaxAttempts]
      /\ 1 \in SequenceNos
  BY PolicyAssumption DEF TypeInv, TypeOK, DbTypeOK, SequenceNos
<1>1. CASE BeginRequest(w) \/ AbortRequest(w) \/ QuarantineStaleOutcome(w)
  <2>1. UNCHANGED <<cycleState, attemptsUsed, intents>>
    BY <1>1 DEF BeginRequest, AbortRequest, QuarantineStaleOutcome, tables
  <2> QED  BY <2>1, BudgetKept
<1>2. CASE IngestCycleDue(w)
  <2>1. /\ UNCHANGED <<attemptsUsed, intents>>
        /\ \A c \in Cycles : cycleState'[c] \in {cycleState[c], "DUE"}
    BY <1>0, <1>2 DEF IngestCycleDue
  <2> QED  BY <2>1, BudgetKept
<1>3. CASE IngestMandateRevoked(w) \/ IngestNotificationOptedOut(w)
  <2>1. PICK e \in {"MANDATE_REVOKED", "OPTED_OUT"} : AbandonInFlightCycles(w, e)
    BY <1>3 DEF IngestMandateRevoked, IngestNotificationOptedOut
  <2>2. \A c \in Cycles : cycleState'[c] \in {cycleState[c], "ABANDONED"}
    BY <2>1, AbandonEffect
  <2>3. UNCHANGED <<attemptsUsed, intents>>
    BY <1>3 DEF IngestMandateRevoked, IngestNotificationOptedOut
  <2> QED  BY <2>2, <2>3, BudgetKept
<1>4. CASE \/ IngestDebitSucceeded(w)
           \/ IngestDebitFailedPlanned(w) \/ IngestDebitFailedStopped(w)
  <2>0. IngestDebitSucceeded(w) \/ DebitFailedCommit(w)
    BY <1>4 DEF IngestDebitFailedPlanned, IngestDebitFailedStopped
  <2>1. /\ w.about \in Cycles /\ intents[w.about][1] = "none"
        /\ attemptsUsed' = [attemptsUsed EXCEPT ![w.about] = 1]
        /\ \E v \in {"success", "failure"} : intents' = [intents EXCEPT ![w.about][1] = v]
    BY <2>0, WebhookAssumption
    DEF IngestDebitSucceeded, DebitFailedCommit, AppliesToOpenCycle, CanReserve,
        SetOutcome, LifecycleEvents
  <2>2. PICK v \in {"success", "failure"} : intents' = [intents EXCEPT ![w.about][1] = v]
    BY <2>1
  <2>3. \A n \in SequenceNos : intents[w.about][n] = "none"
    BY <2>1, NoFirstNoOther DEF LedgerInv
  <2>4. \A n \in SequenceNos : intents'[w.about][n] # "none" <=> n = 1
    <3>1. /\ intents'[w.about][1] = v
          /\ \A n \in SequenceNos : n # 1 => intents'[w.about][n] = intents[w.about][n]
      BY <1>0, <2>1, <2>2, OneCell
    <3> QED  BY <2>3, <3>1
  <2>5. attemptsUsed'[w.about] = CountAttempts(w.about)'
    BY <1>0, <2>1, <2>4, OneAttempt
  <2>6. \E s : cycleState' = [cycleState EXCEPT ![w.about] = s]
    <3>1. CASE IngestDebitSucceeded(w)
      BY <3>1 DEF IngestDebitSucceeded
    <3>2. CASE IngestDebitFailedPlanned(w) \/ IngestDebitFailedStopped(w)
      BY <3>2, PlannedState, StoppedState
    <3> QED  BY <1>4, <3>1, <3>2
  <2>7. \A c \in Cycles : c # w.about =>
          /\ cycleState'[c] = cycleState[c] /\ attemptsUsed'[c] = attemptsUsed[c]
          /\ intents'[c] = intents[c]
    BY <1>0, <2>1, <2>2, <2>6
  <2> QED  BY <2>5, <2>7, BudgetKept
<1> QED  BY <1>1, <1>2, <1>3, <1>4

\* Every step of the engine preserves BudgetColumnHonest.
LEMMA BudgetNext ==
  TypeInv /\ LedgerInv /\ BudgetColumnHonest /\ [Next]_vars => BudgetColumnHonest'
<1> SUFFICES ASSUME TypeInv, LedgerInv, BudgetColumnHonest, [Next]_vars
             PROVE  BudgetColumnHonest'
  OBVIOUS
<1>0. /\ cycleState \in [Cycles -> CaseState \cup {"absent"}]
      /\ intents \in [Cycles -> [SequenceNos -> IntentOutcome]]
      /\ attemptsUsed \in [Cycles -> 0 .. MaxAttempts]
  BY DEF TypeInv, TypeOK, DbTypeOK
<1>1. CASE ApiStep
  <2>1. PICK w \in Webhooks :
          \/ IngestCycleDue(w) \/ BeginRequest(w) \/ AbortRequest(w)
          \/ QuarantineStaleOutcome(w) \/ IngestDebitSucceeded(w)
          \/ IngestDebitFailedPlanned(w) \/ IngestDebitFailedStopped(w)
          \/ IngestMandateRevoked(w) \/ IngestNotificationOptedOut(w)
    BY <1>1 DEF ApiStep, IngestNext
  <2> QED  BY <2>1, RequestBudget
<1>2. CASE DispatchAttempt
  <2>1. /\ phase = "decide"
        /\ cycleState' = [cycleState EXCEPT ![current[1]] = Transition("SCHEDULED", "STEP_DUE")]
        /\ intents' = [intents EXCEPT ![current[1]][seen.attempts + 1] = "reserved"]
        /\ UNCHANGED attemptsUsed
    BY <1>2 DEF DispatchAttempt, CommitStep, SetOutcome
  <2>2. current[1] \in Cycles
    BY <2>1 DEF TypeInv, StepsPlanned, StepRef
  <2>3. cycleState' = [cycleState EXCEPT ![current[1]] = "EXECUTING"]
    BY <2>1, Edges
  <2>4. \A c \in Cycles :
          /\ c = current[1] => cycleState'[c] = "EXECUTING"
          /\ c # current[1] => cycleState'[c] = cycleState[c] /\ intents'[c] = intents[c]
    BY <1>0, <2>1, <2>2, <2>3
  <2> QED  BY <2>1, <2>4, BudgetKept
<1>3. CASE \/ HandleRailDenied \/ DeliveredAfterClose
           \/ AttemptSucceeded \/ BudgetExhausted \/ AttemptFailed
  <2>1. /\ phase \in {"await", "settle"}
        /\ \E v : v # "none" /\ intents' = [intents EXCEPT ![sending.cycle][sending.seq] = v]
    <3>1. CASE HandleRailDenied
      <4>1. /\ phase = "await"
            /\ intents' = [intents EXCEPT ![sending.cycle][sending.seq] = "blocked"]
        BY <3>1 DEF HandleRailDenied, SetOutcome
      <4> QED  BY <4>1
    <3>2. CASE DeliveredAfterClose \/ AttemptSucceeded \/ BudgetExhausted \/ AttemptFailed
      <4>1. CommitDelivered
        BY <3>2
        DEF DeliveredAfterClose, AttemptSucceeded, BudgetExhausted, AttemptFailed, MoveCase
      <4>2. phase = "settle" /\ reply # "none"
        BY <4>1 DEF CommitDelivered, TypeInv, Conversation, RailOutcome
      <4>3. intents' = [intents EXCEPT ![sending.cycle][sending.seq] = reply]
        BY <4>1 DEF CommitDelivered, SetOutcome
      <4> QED  BY <4>2, <4>3
    <3> QED  BY <1>3, <3>1, <3>2
  <2>2. /\ sending.cycle \in Cycles /\ sending.seq \in SequenceNos
        /\ intents[sending.cycle][sending.seq] # "none"
    BY <2>1 DEF LedgerInv, RowsReserved, TypeInv, StepsPlanned, OutboxRow
  <2>3. PICK v : v # "none" /\ intents' = [intents EXCEPT ![sending.cycle][sending.seq] = v]
    BY <2>1
  <2>4. \A c \in Cycles, n \in SequenceNos : intents'[c][n] # "none" <=> intents[c][n] # "none"
    BY <2>2, <2>3, EachCell
  <2>5. CASE HandleRailDenied \/ DeliveredAfterClose
    <3>1. UNCHANGED <<cycleState, attemptsUsed>>
      BY <2>5 DEF HandleRailDenied, DeliveredAfterClose
    <3> QED  BY <2>4, <3>1, BudgetKept
  <2>6. CASE AttemptSucceeded \/ BudgetExhausted \/ AttemptFailed
    <3>1. /\ \E s : cycleState' = [cycleState EXCEPT ![sending.cycle] = s]
          /\ attemptsUsed' = [attemptsUsed EXCEPT ![sending.cycle] =
                                CountAttempts(sending.cycle)]
      BY <2>6 DEF AttemptSucceeded, BudgetExhausted, AttemptFailed, MoveCase
    <3>2. PICK c \in Cycles : c = sending.cycle
      BY <2>2
    <3>3. CountAttempts(c)' = CountAttempts(c)
      BY <2>4, SameCount
    <3>4. attemptsUsed'[c] = CountAttempts(c)'
      BY <1>0, <3>1, <3>2, <3>3
    <3>5. \A d \in Cycles : d # c =>
            cycleState'[d] = cycleState[d] /\ attemptsUsed'[d] = attemptsUsed[d]
      BY <1>0, <3>1, <3>2
    <3> QED  BY <2>4, <3>4, <3>5, BudgetKept
  <2> QED  BY <1>3, <2>5, <2>6
<1>4. CASE \E c \in sweepList : SweepCycle(c)
  <2>1. PICK c \in sweepList :
          /\ cycleState' = [cycleState EXCEPT ![c] = Transition("SCHEDULED", "BUDGET_EXHAUSTED")]
          /\ UNCHANGED <<attemptsUsed, intents>>
    BY <1>4 DEF SweepCycle
  <2>2. cycleState' = [cycleState EXCEPT ![c] = "ABANDONED"]
    BY <2>1, Edges
  <2>3. \A d \in Cycles : cycleState'[d] \in {cycleState[d], "ABANDONED"}
    BY <1>0, <2>2
  <2> QED  BY <2>1, <2>3, BudgetKept
<1>5. CASE \/ StartTick \/ (\E r \in batch : ReadStep(r)) \/ CancelStep \/ ProcessNotifyStep
           \/ FetchOutbox \/ (\E row \in rows : SendToRail(row))
           \/ RetryLater \/ ReadDeliveredCycle \/ FindExhaustedPlans \/ EndTick
           \/ RequestError \/ WorkerCrash \/ RailStep
           \/ SetKillSwitch \/ ClockTick \/ UNCHANGED vars
  <2>1. UNCHANGED <<cycleState, attemptsUsed, intents>>
    BY <1>5
    DEF StartTick, FetchDueSteps, ReadStep, CancelStep, ProcessNotifyStep, CommitStep,
        FetchOutbox, SendToRail, RetryLater, ReadDeliveredCycle, FindExhaustedPlans,
        EndTick, RequestError, WorkerCrash, RailStep, SetKillSwitch, ClockTick, vars, tables
  <2> QED  BY <2>1, BudgetKept
<1> QED  BY <1>1, <1>2, <1>3, <1>4, <1>5 DEF Next, WorkerStep

\* attempts_used is the number of attempts whenever the case waits for its next
\* step or is recovered, although three transactions write the column and the
\* reservation does not.
THEOREM BudgetHonest == Spec => []BudgetColumnHonest
<1>1. Init => BudgetColumnHonest
  BY DEF Init, DbInit, BudgetColumnHonest
<1>2. TypeInv /\ LedgerInv /\ BudgetColumnHonest /\ [Next]_vars => BudgetColumnHonest'
  BY BudgetNext
<1> QED  BY <1>1, <1>2, TypeInvariant, LedgerInvariant, PTL DEF Spec

------------------------------------------------------------------------------
(***************************************************************************)
(* notifications                                                           *)
(***************************************************************************)

\* No plan announces the same debit twice at the same time, as no plan of
\* domain/planner.py or policies/ does: a notice is emitted with its attempt.
DistinctNotices ==
  \A p \in Plans : \A i, j \in DOMAIN p :
    /\ p[i].type = "notify" /\ p[j].type = "notify" /\ p[i].covers # NoTime
    /\ p[i].at = p[j].at /\ p[i].covers = p[j].covers
    => i = j

\* A notice on record is the work of a step that is done.
NoticesDone ==
  \A c \in Cycles : \A k \in notices[c] : \E i \in StepIds :
    /\ stepStatus[c][i] = "done"
    /\ plan[c][i].type = "notify" /\ plan[c][i].at = k.sent /\ plan[c][i].covers = k.covers

NoticeInv == NoticesDone /\ NoticeSentOnce

\* A step that is done stays done.
LEMMA DoneStays ==
  ASSUME TypeInv, LedgerInv, StepInv, [Next]_vars
  PROVE  \A c \in Cycles, i \in StepIds :
           stepStatus[c][i] = "done" => stepStatus'[c][i] = "done" /\ plan'[c] = plan[c]
<1>0. stepStatus \in [Cycles -> [StepIds -> StepStatus]]
  BY DEF TypeInv, TypeOK, DbTypeOK
<1>1. CASE ApiStep
  <2>1. PICK w \in Webhooks :
          \/ IngestCycleDue(w) \/ BeginRequest(w) \/ AbortRequest(w)
          \/ QuarantineStaleOutcome(w) \/ IngestDebitSucceeded(w)
          \/ IngestDebitFailedPlanned(w) \/ IngestDebitFailedStopped(w)
          \/ IngestMandateRevoked(w) \/ IngestNotificationOptedOut(w)
    BY <1>1 DEF ApiStep, IngestNext
  <2> QED  BY <2>1, RequestSteps
<1>2. CASE CancelStep \/ ProcessNotifyStep \/ DispatchAttempt
  <2>1. /\ phase = "decide" /\ UNCHANGED plan
        /\ \E s : SetStepStatus(current[1], current[2], s)
    BY <1>2 DEF CancelStep, ProcessNotifyStep, DispatchAttempt, CommitStep
  <2>2. current \in StepRef /\ stepStatus[current[1]][current[2]] # "done"
    BY <2>1 DEF StepInv, BatchTaken, TypeInv, StepsPlanned
  <2>3. PICK s : stepStatus' = [stepStatus EXCEPT ![current[1]][current[2]] = s]
    BY <2>1 DEF SetStepStatus
  <2> QED  BY <1>0, <2>1, <2>2, <2>3 DEF StepRef
<1>3. CASE \/ HandleRailDenied \/ DeliveredAfterClose
           \/ AttemptSucceeded \/ BudgetExhausted \/ AttemptFailed
  <2>1. phase \in {"await", "settle"} /\ UNCHANGED plan
    BY <1>3
    DEF HandleRailDenied, DeliveredAfterClose, AttemptSucceeded, BudgetExhausted,
        AttemptFailed, MoveCase, CommitDelivered
  <2>2. /\ sending.cycle \in Cycles /\ sending.step \in StepIds
        /\ stepStatus[sending.cycle][sending.step] = "dispatched"
    BY <2>1
    DEF LedgerInv, RowsReserved, StepInv, RowsDispatched, TypeInv, StepsPlanned, OutboxRow
  <2>3. CASE HandleRailDenied \/ DeliveredAfterClose \/ AttemptFailed
    <3>1. \E s : SetStepStatus(sending.cycle, sending.step, s)
      BY <2>3 DEF HandleRailDenied, DeliveredAfterClose, AttemptFailed
    <3>2. PICK s : stepStatus' = [stepStatus EXCEPT ![sending.cycle][sending.step] = s]
      BY <3>1 DEF SetStepStatus
    <3> QED  BY <1>0, <2>1, <2>2, <3>2
  <2>4. CASE AttemptSucceeded \/ BudgetExhausted
    <3> DEFINE marked == [stepStatus[sending.cycle] EXCEPT ![sending.step] = "done"]
    <3>1. stepStatus' = [stepStatus EXCEPT ![sending.cycle] = CancelPending(marked)]
      BY <1>0, <2>2, <2>4 DEF AttemptSucceeded, BudgetExhausted, CloseSteps
    <3>2. \A i \in StepIds : stepStatus[sending.cycle][i] = "done" => marked[i] = "done"
      BY <1>0, <2>2
    <3> HIDE DEF marked
    <3>3. \A i \in StepIds : marked[i] = "done" => CancelPending(marked)[i] = "done"
      BY DEF CancelPending
    <3> QED  BY <1>0, <2>1, <2>2, <3>1, <3>2, <3>3
  <2> QED  BY <1>3, <2>3, <2>4
<1>4. CASE \/ StartTick \/ (\E r \in batch : ReadStep(r))
           \/ FetchOutbox \/ (\E row \in rows : SendToRail(row))
           \/ RetryLater \/ ReadDeliveredCycle \/ FindExhaustedPlans \/ EndTick
           \/ (\E c \in sweepList : SweepCycle(c))
           \/ RequestError \/ WorkerCrash \/ RailStep
           \/ SetKillSwitch \/ ClockTick \/ UNCHANGED vars
  BY <1>4
  DEF StartTick, FetchDueSteps, ReadStep, FetchOutbox, SendToRail, RetryLater,
      ReadDeliveredCycle, FindExhaustedPlans, EndTick, SweepCycle, RequestError,
      WorkerCrash, RailStep, SetKillSwitch, ClockTick, vars, tables
<1> QED  BY <1>1, <1>2, <1>3, <1>4 DEF Next, WorkerStep

\* A notice is put on record only by the step being committed.
LEMMA NoticesWritten ==
  ASSUME TypeInv, [Next]_vars
  PROVE  UNCHANGED notices \/ ProcessNotifyStep
<1>1. CASE ApiStep
  <2>1. PICK w \in Webhooks :
          \/ IngestCycleDue(w) \/ BeginRequest(w) \/ AbortRequest(w)
          \/ QuarantineStaleOutcome(w) \/ IngestDebitSucceeded(w)
          \/ IngestDebitFailedPlanned(w) \/ IngestDebitFailedStopped(w)
          \/ IngestMandateRevoked(w) \/ IngestNotificationOptedOut(w)
    BY <1>1 DEF ApiStep, IngestNext
  <2> QED  BY <2>1, RequestSteps
<1>2. CASE ~ApiStep
  BY <1>2
  DEF Next, WorkerStep, StartTick, FetchDueSteps, ReadStep, CancelStep, DispatchAttempt,
      FetchOutbox, SendToRail, RetryLater, HandleRailDenied, ReadDeliveredCycle,
      DeliveredAfterClose, AttemptSucceeded, BudgetExhausted, AttemptFailed, MoveCase,
      CommitDelivered, FindExhaustedPlans, EndTick, SweepCycle, RequestError,
      WorkerCrash, RailStep, SetKillSwitch, ClockTick, vars, tables
<1> QED  BY <1>1, <1>2

\* The step that writes a notice was not done, so no notice on record is its.
LEMMA NotifyOnce ==
  ASSUME DistinctNotices, TypeInv, StepInv, NoticeInv, ProcessNotifyStep,
         \A c \in Cycles, i \in StepIds :
           stepStatus[c][i] = "done" => stepStatus'[c][i] = "done" /\ plan'[c] = plan[c]
  PROVE  NoticeInv'
<1>1. /\ phase = "decide" /\ UNCHANGED plan
      /\ SetStepStatus(current[1], current[2], "done")
      /\ StepAt(current).type = "notify"
  BY DEF ProcessNotifyStep, CommitStep
<1>2. PICK c \in Cycles, i \in StepIds : current = <<c, i>>
  BY <1>1 DEF TypeInv, StepsPlanned, StepRef
<1>3. /\ stepStatus[c][i] \in {"pending", "cancelled"}
      /\ stepStatus[c][i] # "absent"
  BY <1>1, <1>2 DEF StepInv, BatchTaken
<1>4. stepStatus'[c][i] = "done"
  BY <1>1, <1>2 DEF SetStepStatus, TypeInv, TypeOK, DbTypeOK
<1>5. /\ plan[c] \in Plans /\ i \in DOMAIN plan[c] /\ plan[c][i].type = "notify"
      /\ \A j \in StepIds : stepStatus[c][j] # "absent" => j \in DOMAIN plan[c]
  BY <1>1, <1>2, <1>3 DEF TypeInv, TypeOK, DbTypeOK, StepsPlanned, StepAt
<1>6. CASE UNCHANGED notices
  BY <1>1, <1>6 DEF NoticeInv, NoticesDone, NoticeSentOnce
<1>7. CASE ~UNCHANGED notices
  <2> DEFINE k == [sent |-> plan[c][i].at, covers |-> plan[c][i].covers, sentReally |-> now]
  <2>1. notices' = [notices EXCEPT ![c] = @ \cup {k}] /\ plan[c][i].covers # NoTime
    BY <1>2, <1>7 DEF ProcessNotifyStep, StepAt
  <2>2. k.sent = plan[c][i].at /\ k.covers = plan[c][i].covers
    OBVIOUS
  <2> HIDE DEF k
  <2>3. \A d \in Cycles : /\ d # c => notices'[d] = notices[d]
                          /\ notices'[c] = notices[c] \cup {k}
    BY <2>1 DEF TypeInv, TypeOK, DbTypeOK
  <2>4. ASSUME NEW n \in notices[c], n.sent = k.sent, n.covers = k.covers
        PROVE  FALSE
    <3>1. PICK j \in StepIds :
            /\ stepStatus[c][j] = "done"
            /\ plan[c][j].type = "notify" /\ plan[c][j].at = n.sent
            /\ plan[c][j].covers = n.covers
      BY DEF NoticeInv, NoticesDone
    <3>2. j \in DOMAIN plan[c]
      BY <1>5, <3>1
    <3>3. j = i
      BY <1>5, <2>1, <2>2, <2>4, <3>1, <3>2 DEF DistinctNotices
    <3> QED  BY <1>3, <3>1, <3>3
  <2>5. NoticesDone'
    <3> SUFFICES ASSUME NEW d \in Cycles, NEW n \in notices'[d]
                 PROVE  \E j \in StepIds :
                          /\ stepStatus'[d][j] = "done"
                          /\ plan'[d][j].type = "notify" /\ plan'[d][j].at = n.sent
                          /\ plan'[d][j].covers = n.covers
      BY DEF NoticesDone
    <3>1. CASE n \in notices[d]
      <4>1. PICK j \in StepIds :
              /\ stepStatus[d][j] = "done"
              /\ plan[d][j].type = "notify" /\ plan[d][j].at = n.sent
              /\ plan[d][j].covers = n.covers
        BY <3>1 DEF NoticeInv, NoticesDone
      <4> QED  BY <1>1, <4>1
    <3>2. CASE d = c /\ n = k
      BY <1>1, <1>4, <1>5, <2>2, <3>2
    <3> QED  BY <2>3, <3>1, <3>2
  <2>6. NoticeSentOnce'
    <3> SUFFICES ASSUME NEW d \in Cycles, NEW m \in notices'[d], NEW n \in notices'[d],
                        m.sent = n.sent, m.covers = n.covers
                 PROVE  m = n
      BY DEF NoticeSentOnce
    <3>1. CASE m \in notices[d] /\ n \in notices[d]
      BY <3>1 DEF NoticeInv, NoticeSentOnce
    <3>2. CASE ~(m \in notices[d] /\ n \in notices[d])
      BY <2>3, <2>4, <3>2
    <3> QED  BY <3>1, <3>2
  <2> QED  BY <2>5, <2>6 DEF NoticeInv
<1> QED  BY <1>6, <1>7

\* Under any plans that do not announce a debit twice at one time, a step puts
\* one notice on record, although its tick may crash at any point and a step
\* cancelled meanwhile is still carried out.
THEOREM NoticeOnce == ASSUME DistinctNotices PROVE Spec => []NoticeSentOnce
<1>1. Init => NoticeInv
  BY DEF Init, DbInit, NoticeInv, NoticesDone, NoticeSentOnce
<1>2. TypeInv /\ LedgerInv /\ StepInv /\ NoticeInv /\ [Next]_vars => NoticeInv'
  <2> SUFFICES ASSUME TypeInv, LedgerInv, StepInv, NoticeInv, [Next]_vars
               PROVE  NoticeInv'
    OBVIOUS
  <2>1. \A c \in Cycles, i \in StepIds :
          stepStatus[c][i] = "done" => stepStatus'[c][i] = "done" /\ plan'[c] = plan[c]
    BY DoneStays
  <2>2. CASE UNCHANGED notices
    BY <2>1, <2>2 DEF NoticeInv, NoticesDone, NoticeSentOnce
  <2>3. CASE ProcessNotifyStep
    BY <2>1, <2>3, NotifyOnce
  <2> QED  BY <2>2, <2>3, NoticesWritten
<1>3. NoticeInv => NoticeSentOnce
  BY DEF NoticeInv
<1> QED  BY <1>1, <1>2, <1>3, TypeInvariant, LedgerInvariant, StepInvariant, PTL DEF Spec

==============================================================================
