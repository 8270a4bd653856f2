-------------------------------- MODULE Worker --------------------------------
(***************************************************************************)
(* The single worker process (backend/app/workflows/worker.py).  A tick    *)
(* fetches the due plan steps and takes them one by one, drains the        *)
(* outbox, then sweeps the cycles whose plan ran out; it commits after     *)
(* every step, row and cycle.  The step, row and cycle lists are fetched   *)
(* once per tick.  Whatever raises ends the tick with a rollback, as a     *)
(* crash of the process does.                                              *)
(***************************************************************************)
EXTENDS Rail

VARIABLES
  clock,      \* the clock the caller reads
  phase,      \* control state of the tick
  now,        \* the instant passed to this tick
  batch,      \* due plan steps fetched and not yet taken
  current,    \* the plan step being processed
  seen,       \* what the current transaction has read
  rows,       \* outbox rows fetched and not yet delivered
  sending,    \* the outbox row being delivered
  sweepList   \* cycles found with nothing left to do

local == <<phase, now, batch, current, seen, rows, sending, sweepList>>

NoStep == <<>>
NoRow == [cycle |-> "none"]
NothingSeen == [state |-> "absent", attempts |-> 0, allowed |-> FALSE]

WorkerInit ==
  /\ clock = 0
  /\ phase = "idle"
  /\ now = 0
  /\ batch = {}
  /\ current = NoStep
  /\ seen = NothingSeen
  /\ rows = {}
  /\ sending = NoRow
  /\ sweepList = {}

StepAt(r) == plan[r[1]][r[2]]

(***************************************************************************)
(* process_due_plan_steps                                                  *)
(***************************************************************************)

\* FOR UPDATE SKIP LOCKED: the whole batch stays locked to the first commit.
FetchDueSteps ==
  /\ phase = "idle"
  /\ phase' = "steps"
  /\ now' = clock
  /\ batch' = DueSteps(clock)
  /\ lockedSteps' = DueSteps(clock)
  /\ UNCHANGED <<events, mandateStatus, optedOut, killSwitches, cycleState,
                 attemptsUsed, intents, plan, stepStatus, notices, outbox,
                 railVars, clock, current, seen, rows, sending, sweepList>>

Verdict(r) == LET s == Snapshot(r[1], now)
              IN  IF StepAt(r).type = "attempt" THEN AttemptAuthorized(s, StepAt(r).at)
                                                ELSE NotifyAuthorized(s)

\* Earliest scheduled_for first.  The step's own status is not read again.
ReadStep(r) ==
  /\ phase = "steps"
  /\ r \in batch
  /\ \A o \in batch : StepAt(r).at <= StepAt(o).at
  /\ phase' = "decide"
  /\ current' = r
  /\ seen' = [state    |-> cycleState[r[1]],
              attempts |-> CountAttempts(r[1]),
              allowed  |-> Verdict(r)]
  /\ UNCHANGED <<tables, railVars, clock, now, batch, rows, sending, sweepList>>

CommitStep(status) ==
  /\ phase = "decide"
  /\ phase' = "steps"
  /\ SetStepStatus(current[1], current[2], status)
  /\ batch' = batch \ {current}
  /\ current' = NoStep
  /\ seen' = NothingSeen
  /\ lockedSteps' = {}
  /\ UNCHANGED <<events, mandateStatus, optedOut, killSwitches, attemptsUsed,
                 plan, railVars, clock, now, rows, sending, sweepList>>

\* Denied, or an attempt whose cycle has left SCHEDULED.
CancelStep ==
  /\ CommitStep("cancelled")
  /\ \/ ~seen.allowed
     \/ StepAt(current).type = "attempt" /\ seen.state # "SCHEDULED"
  /\ UNCHANGED <<cycleState, intents, notices, outbox>>

\* A notice for which no attempt was planned is skipped; the row of a sent one
\* carries the planned time.
ProcessNotifyStep ==
  LET s == StepAt(current)
  IN  /\ CommitStep("done")
      /\ s.type = "notify"
      /\ seen.allowed
      /\ notices' = IF s.covers = NoTime THEN notices
                    ELSE [notices EXCEPT ![current[1]] = @ \cup
                            {[sent |-> s.at, covers |-> s.covers, sentReally |-> now]}]
      /\ UNCHANGED <<cycleState, intents, outbox>>

\* Reserve the attempt and enqueue its delivery in one transaction.
DispatchAttempt ==
  LET c == current[1]
      n == seen.attempts + 1
  IN  /\ CommitStep("dispatched")
      /\ StepAt(current).type = "attempt"
      /\ seen.state = "SCHEDULED"
      /\ seen.allowed
      /\ CanReserve(c, n)
      /\ cycleState' = [cycleState EXCEPT ![c] = Transition(seen.state, "STEP_DUE")]
      /\ SetOutcome(c, n, "reserved")
      /\ outbox' = outbox \cup
           {[cycle |-> c, seq |-> n, step |-> current[2], at |-> StepAt(current).at]}
      /\ UNCHANGED notices

(***************************************************************************)
(* drain_outbox                                                            *)
(***************************************************************************)

FetchOutbox ==
  /\ phase = "steps"
  /\ batch = {}
  /\ phase' = "drain"
  /\ rows' = outbox
  /\ UNCHANGED <<tables, railVars, clock, now, batch, current, seen, sending,
                 sweepList>>

SendToRail(row) ==
  /\ phase = "drain"
  /\ row \in rows
  /\ phase' = "await"
  /\ rows' = rows \ {row}
  /\ sending' = row
  /\ Post(row)
  /\ UNCHANGED <<tables, clock, now, batch, current, seen, sweepList>>

\* A timeout, a refused connection or a lost response.
RequestError ==
  /\ phase = "await"
  /\ reply # "error"
  /\ reply' = "error"
  /\ StopWaiting
  /\ UNCHANGED <<tables, railOutcome, clock, local>>

RowHandled ==
  /\ phase' = "drain"
  /\ sending' = NoRow
  /\ reply' = "none"
  /\ seen' = NothingSeen
  /\ UNCHANGED <<railOutcome, handling, clock, now, batch, current, rows, sweepList>>

\* bump_outbox_attempt: the row stays, for a later tick.
RetryLater ==
  /\ phase = "await"
  /\ reply = "error"
  /\ RowHandled
  /\ UNCHANGED tables

\* Seeded fault: the outbox row is not marked delivered.
DeniedRowKept ==
  /\ phase = "await"
  /\ reply = "denied"
  /\ RowHandled
  /\ SetOutcome(sending.cycle, sending.seq, "blocked")
  /\ SetStepStatus(sending.cycle, sending.step, "cancelled")
  /\ UNCHANGED <<events, mandateStatus, optedOut, killSwitches, cycleState,
                 attemptsUsed, plan, notices, outbox, lockedSteps>>

HandleRailDenied ==
  /\ phase = "await"
  /\ reply = "denied"
  /\ RowHandled
  /\ SetOutcome(sending.cycle, sending.seq, "blocked")
  /\ outbox' = outbox \ {sending}
  /\ SetStepStatus(sending.cycle, sending.step, "cancelled")
  /\ UNCHANGED <<events, mandateStatus, optedOut, killSwitches, cycleState,
                 attemptsUsed, plan, notices, lockedSteps>>

\* _handle_delivered reads the cycle, takes no lock on it ...
ReadDeliveredCycle ==
  /\ phase = "await"
  /\ reply \in RailOutcome
  /\ phase' = "settle"
  /\ seen' = [NothingSeen EXCEPT !.state = cycleState[sending.cycle]]
  /\ UNCHANGED <<tables, railVars, clock, now, batch, current, rows, sending,
                 sweepList>>

\* ... and then commits the outcome together with the case transition.
CommitDelivered ==
  /\ phase = "settle"
  /\ RowHandled
  /\ SetOutcome(sending.cycle, sending.seq, reply)
  /\ outbox' = outbox \ {sending}
  /\ UNCHANGED <<events, mandateStatus, optedOut, killSwitches, plan, notices,
                 lockedSteps>>

DeliveredAfterClose ==
  /\ CommitDelivered
  /\ seen.state # "EXECUTING"
  /\ SetStepStatus(sending.cycle, sending.step, "done")
  /\ UNCHANGED <<cycleState, attemptsUsed>>

\* Seeded fault: the Phase 7 guard is missing.
SettlingAnyCase == phase = "settle"

Settling == phase = "settle" /\ seen.state = "EXECUTING"

\* Seeded fault: attempts_used is not written.
MoveCaseOnly(event) ==
  /\ CommitDelivered
  /\ cycleState' = [cycleState EXCEPT ![sending.cycle] = Transition("EXECUTING", event)]
  /\ UNCHANGED attemptsUsed

MoveCase(event) ==
  /\ CommitDelivered
  /\ cycleState' = [cycleState EXCEPT ![sending.cycle] = Transition("EXECUTING", event)]
  /\ attemptsUsed' = [attemptsUsed EXCEPT ![sending.cycle] = CountAttempts(sending.cycle)]

\* The step of this attempt is done; a case that closes drops the others.
CloseSteps ==
  stepStatus' = [stepStatus EXCEPT ![sending.cycle] =
                   CancelPending([@ EXCEPT ![sending.step] = "done"])]

AttemptSucceeded ==
  /\ Settling
  /\ reply = "success"
  /\ MoveCase("ATTEMPT_SUCCEEDED")
  /\ CloseSteps

BudgetExhausted ==
  /\ Settling
  /\ reply # "success"
  /\ CountAttempts(sending.cycle) >= MaxAttempts
  /\ MoveCase("BUDGET_EXHAUSTED")
  /\ CloseSteps

AttemptFailed ==
  /\ Settling
  /\ reply # "success"
  /\ CountAttempts(sending.cycle) < MaxAttempts
  /\ MoveCase("ATTEMPT_FAILED_BUDGET_LEFT")
  /\ SetStepStatus(sending.cycle, sending.step, "done")

(***************************************************************************)
(* sweep_exhausted_plans                                                   *)
(***************************************************************************)

FindExhaustedPlans ==
  /\ phase = "drain"
  /\ rows = {}
  /\ phase' = "sweep"
  /\ sweepList' = {c \in Cycles : /\ cycleState[c] = "SCHEDULED"
                                  /\ ~CycleHasOpenSteps(c)}
  /\ UNCHANGED <<tables, railVars, clock, now, batch, current, seen, rows,
                 sending>>

SweepCycle(c) ==
  /\ phase = "sweep"
  /\ c \in sweepList
  /\ sweepList' = sweepList \ {c}
  /\ cycleState' = [cycleState EXCEPT ![c] = Transition("SCHEDULED", "BUDGET_EXHAUSTED")]
  /\ UNCHANGED <<events, mandateStatus, optedOut, killSwitches, attemptsUsed,
                 intents, plan, stepStatus, notices, outbox, lockedSteps,
                 railVars, clock, phase, now, batch, current, seen, rows, sending>>

EndTick ==
  /\ phase = "sweep"
  /\ sweepList = {}
  /\ phase' = "idle"
  /\ now' = 0
  /\ UNCHANGED <<tables, railVars, clock, batch, current, seen, rows, sending,
                 sweepList>>

\* Process crash, connection loss, exception or deadlock victim: the open
\* transaction is rolled back and its locks go; a request already sent stays
\* at the rail.
WorkerCrash ==
  /\ phase # "idle"
  /\ phase' = "idle"
  /\ now' = 0
  /\ batch' = {}
  /\ current' = NoStep
  /\ seen' = NothingSeen
  /\ rows' = {}
  /\ sending' = NoRow
  /\ sweepList' = {}
  /\ lockedSteps' = {}
  /\ StopWaiting
  /\ reply' = "none"
  /\ UNCHANGED <<events, mandateStatus, optedOut, killSwitches, cycleState,
                 attemptsUsed, intents, plan, stepStatus, notices, outbox,
                 railOutcome, clock>>

WorkerStep ==
  \/ \E r \in batch : ReadStep(r)
  \/ CancelStep \/ ProcessNotifyStep \/ DispatchAttempt
  \/ FetchOutbox
  \/ \E row \in rows : SendToRail(row)
  \/ RetryLater \/ HandleRailDenied \/ ReadDeliveredCycle
  \/ DeliveredAfterClose \/ AttemptSucceeded \/ BudgetExhausted \/ AttemptFailed
  \/ FindExhaustedPlans
  \/ \E c \in sweepList : SweepCycle(c)
  \/ EndTick

==============================================================================
