-------------------------------- MODULE Ingest --------------------------------
(***************************************************************************)
(* backend/app/ingest.py behind POST /events (api/app.py).  Webhooks come  *)
(* at least once and in any order.  A request inserts its events row       *)
(* first, reads the cycles it concerns, then writes and commits; between   *)
(* the two the worker and other requests may commit.  A request that       *)
(* raises (unknown cycle, unique violation, deadlock victim, lost          *)
(* connection) rolls back, its events row included, and may be redelivered.*)
(***************************************************************************)
EXTENDS RecoveryDb

CONSTANT ApiConcurrency  \* bound: requests open at the same time

LifecycleEvents == {"mandate.revoked", "notification.opted_out"}
EventTypes ==
  LifecycleEvents \cup {"mandate.cycle.due", "debit.succeeded", "debit.failed"}

\* about is a mandate for the lifecycle events, a cycle for the others; ext is
\* the external_id, which tells two events of one kind apart.
ASSUME WebhookAssumption ==
  \A w \in Webhooks :
    /\ w.type \in EventTypes
    /\ w.about \in (IF w.type \in LifecycleEvents THEN Mandates ELSE Cycles)

VARIABLES
  requests,  \* webhooks whose request has read but not yet committed
  readState  \* the cycle states that request read

apiVars == <<requests, readState>>

NothingRead == [c \in Cycles |-> "absent"]

ApiInit ==
  /\ requests = {}
  /\ readState = [w \in Webhooks |-> NothingRead]

CyclesOf(w) == IF w.type \in LifecycleEvents
               THEN {c \in Cycles : MandateOf[c] = w.about}
               ELSE {w.about}

\* insert_event: ON CONFLICT (external_id) DO NOTHING returned a row.
FirstDelivery(w) == w \notin events

\* A lifecycle request UPDATEs its mandate row before it reads the cycles and
\* holds the row lock until it ends.
MandateRowFree(m) ==
  \A v \in requests : v.type \in LifecycleEvents => v.about # m

IngestCycleDue(w) ==
  /\ w.type = "mandate.cycle.due"
  /\ FirstDelivery(w)
  /\ MandateRowFree(MandateOf[w.about])
  /\ events' = events \cup {w}
  /\ mandateStatus' = [mandateStatus EXCEPT ![MandateOf[w.about]] = "active"]
  /\ cycleState' = [cycleState EXCEPT ![w.about] =
                      IF @ = "absent" THEN "DUE" ELSE @]
  /\ UNCHANGED <<optedOut, killSwitches, attemptsUsed, intents, plan,
                 stepStatus, notices, outbox, lockedSteps, apiVars>>

BeginRequest(w) ==
  /\ w.type # "mandate.cycle.due"
  /\ w \notin requests
  /\ Cardinality(requests) < ApiConcurrency
  /\ FirstDelivery(w)
  /\ w.type \in LifecycleEvents => MandateRowFree(w.about)
  /\ requests' = requests \cup {w}
  /\ readState' = [readState EXCEPT ![w] =
       [c \in Cycles |-> IF c \in CyclesOf(w) THEN cycleState[c] ELSE "absent"]]
  /\ UNCHANGED tables

CloseRequest(w) ==
  /\ requests' = requests \ {w}
  /\ readState' = [readState EXCEPT ![w] = NothingRead]

\* Roll back: the response is an error (or none) and nothing was written.
AbortRequest(w) ==
  /\ w \in requests
  /\ CloseRequest(w)
  /\ UNCHANGED tables

CommitRequest(w) ==
  /\ w \in requests
  /\ events' = events \cup {w}
  /\ CloseRequest(w)

\* A first-attempt outcome for a case already closed: recorded, not applied.
QuarantineStaleOutcome(w) ==
  /\ w.type \in {"debit.succeeded", "debit.failed"}
  /\ CommitRequest(w)
  /\ readState[w][w.about] \in TerminalStates
  /\ UNCHANGED <<mandateStatus, optedOut, killSwitches, cycleState,
                 attemptsUsed, intents, plan, stepStatus, notices, outbox,
                 lockedSteps>>

\* An outcome that passes the checks: its cycle exists, is open and has no
\* sequence number 1 yet.
AppliesToOpenCycle(w) ==
  /\ readState[w][w.about] \notin TerminalStates \cup {"absent"}
  /\ CanReserve(w.about, 1)

\* The first attempt went through; deliberately not an FSM transition.
IngestDebitSucceeded(w) ==
  LET c == w.about
  IN  /\ w.type = "debit.succeeded"
      /\ CommitRequest(w)
      /\ AppliesToOpenCycle(w)
      /\ SetOutcome(c, 1, "success")
      /\ cycleState' = [cycleState EXCEPT ![c] = "RECOVERED"]
      /\ attemptsUsed' = [attemptsUsed EXCEPT ![c] = 1]
      /\ UNCHANGED <<mandateStatus, optedOut, killSwitches, plan, stepStatus,
                     notices, outbox, lockedSteps>>

\* The first attempt failed.  The diagnosis and planning states exist only
\* inside this transaction.
DebitFailedCommit(w) ==
  /\ w.type = "debit.failed"
  /\ CommitRequest(w)
  /\ AppliesToOpenCycle(w)
  /\ SetOutcome(w.about, 1, "failure")
  /\ attemptsUsed' = [attemptsUsed EXCEPT ![w.about] = 1]
  /\ UNCHANGED <<mandateStatus, optedOut, killSwitches, notices, outbox,
                 lockedSteps>>

IngestDebitFailedPlanned(w) ==
  LET c == w.about
      planning == Transition(Transition("DUE", "CYCLE_FAILED"), "CAUSE_NORMALIZED")
  IN  /\ DebitFailedCommit(w)
      /\ cycleState' = [cycleState EXCEPT ![c] = Transition(planning, "PLAN_READY")]
      /\ \E p \in Plans :
           /\ plan' = [plan EXCEPT ![c] = p]
           /\ stepStatus' = [stepStatus EXCEPT ![c] =
                [i \in StepIds |-> IF i \in DOMAIN p THEN "pending" ELSE "absent"]]

\* The planner's root decision is to stop: hand over to a person.
IngestDebitFailedStopped(w) ==
  LET planning == Transition(Transition("DUE", "CYCLE_FAILED"), "CAUSE_NORMALIZED")
      stopping == Transition(planning, "STOP_AND_ESCALATE")
  IN  /\ DebitFailedCommit(w)
      /\ cycleState' = [cycleState EXCEPT ![w.about] = Transition(stopping, "ESCALATED")]
      /\ UNCHANGED <<plan, stepStatus>>

\* Close every cycle whose state, as read, has an edge for the event.  The
\* UPDATE of its pending steps waits for rows the worker holds locked.
AbandonInFlightCycles(w, event) ==
  LET abandoned ==
        {c \in CyclesOf(w) : /\ readState[w][c] \notin TerminalStates
                             /\ event \in LegalEvents(readState[w][c])}
  IN  /\ \A c \in abandoned, i \in StepIds :
           stepStatus[c][i] = "pending" => <<c, i>> \notin lockedSteps
      /\ cycleState' = [c \in Cycles |->
           IF c \in abandoned THEN Transition(readState[w][c], event)
                              ELSE cycleState[c]]
      /\ stepStatus' = [c \in Cycles |->
           IF c \in abandoned THEN CancelPending(stepStatus[c])
                              ELSE stepStatus[c]]

\* An UPDATE of a mandate that was never registered touches no row.
IngestMandateRevoked(w) ==
  /\ w.type = "mandate.revoked"
  /\ CommitRequest(w)
  /\ mandateStatus' = [mandateStatus EXCEPT ![w.about] =
                         IF @ = "absent" THEN @ ELSE "revoked"]
  /\ AbandonInFlightCycles(w, "MANDATE_REVOKED")
  /\ UNCHANGED <<optedOut, killSwitches, attemptsUsed, intents, plan, notices,
                 outbox, lockedSteps>>

IngestNotificationOptedOut(w) ==
  /\ w.type = "notification.opted_out"
  /\ CommitRequest(w)
  /\ optedOut' = [optedOut EXCEPT ![w.about] = mandateStatus[w.about] # "absent"]
  /\ AbandonInFlightCycles(w, "OPTED_OUT")
  /\ UNCHANGED <<mandateStatus, killSwitches, attemptsUsed, intents, plan,
                 notices, outbox, lockedSteps>>

IngestNext ==
  \E w \in Webhooks :
    \/ IngestCycleDue(w)
    \/ BeginRequest(w)
    \/ AbortRequest(w)
    \/ QuarantineStaleOutcome(w)
    \/ IngestDebitSucceeded(w)
    \/ IngestDebitFailedPlanned(w)
    \/ IngestDebitFailedStopped(w)
    \/ IngestMandateRevoked(w)
    \/ IngestNotificationOptedOut(w)

==============================================================================
