------------------------------ MODULE RecoveryDb ------------------------------
(***************************************************************************)
(* The Postgres tables (migrations/) and the statements of                 *)
(* backend/app/repo.py.  One variable per table or column group; rows a    *)
(* property never tells apart (decisions, audit text) are left out.  A     *)
(* transaction is a read action that copies what it SELECTs into local     *)
(* state and a later action that writes and commits: plain SELECTs take    *)
(* no lock at READ COMMITTED, so anything may commit in between.  The one  *)
(* lock that outlives a statement here is FOR UPDATE on due plan steps.    *)
(***************************************************************************)
EXTENDS CaseFSM, Policy, Sequences, FiniteSets

CONSTANTS
  Cycles, Mandates, MandateOf,  \* cycles.mandate_id
  MerchantOf,                   \* mandates.merchant_id
  NeedsAFA,                     \* cycles whose amount is over the AFA threshold
  Plans,                        \* the step lists a policy may return
  MaxSteps,                     \* bound: longest plan
  Horizon,                      \* bound: last instant of the clock
  Webhooks                      \* the events a provider may deliver

Time == 0 .. Horizon
NoTime == -1
SequenceNos == 1 .. MaxAttempts
StepIds == 1 .. MaxSteps
Scopes == {"global"} \cup {MerchantOf[m] : m \in Mandates}

Step == [type : {"notify", "attempt"}, at : Time, covers : Time \cup {NoTime}]

ASSUME DbAssumption ==
  /\ MandateOf \in [Cycles -> Mandates]
  /\ NeedsAFA \subseteq Cycles
  /\ MaxSteps \in Nat
  /\ Horizon \in Nat
  /\ \A p \in Plans : p \in Seq(Step) /\ Len(p) <= MaxSteps

VARIABLES
  events,         \* webhooks recorded, one row per external_id
  mandateStatus, optedOut,
  killSwitches,   \* scopes whose kill switch is active
  cycleState, attemptsUsed,
  intents,        \* attempt_intents: outcome by cycle and sequence number
  plan,           \* the steps inserted for a cycle, in order
  stepStatus,     \* plan_steps.status
  notices,        \* notifications
  outbox,         \* undelivered outbox rows
  lockedSteps     \* plan_steps rows held FOR UPDATE

tables == <<events, mandateStatus, optedOut, killSwitches, cycleState,
            attemptsUsed, intents, plan, stepStatus, notices, outbox,
            lockedSteps>>

RailOutcome == {"success", "failure", "unknown"}
\* "none": no row.  "reserved": a row whose outcome is still NULL.
IntentOutcome == RailOutcome \cup {"none", "reserved", "blocked"}
StepStatus == {"absent", "pending", "dispatched", "done", "cancelled"}
StepRef == Cycles \X StepIds
\* The idempotency key is <<cycle, seq>>; the payload also carries the plan
\* step and its scheduled_for.
OutboxRow == [cycle : Cycles, seq : SequenceNos, step : StepIds, at : Time]
\* sent is the sent_at column; sentReally is the instant of the send, kept
\* only so that properties can speak of it.
Notice == [sent : Time, covers : Time, sentReally : Time]

DbInit ==
  /\ events = {}
  /\ mandateStatus = [m \in Mandates |-> "absent"]
  /\ optedOut = [m \in Mandates |-> FALSE]
  /\ killSwitches = {}
  /\ cycleState = [c \in Cycles |-> "absent"]
  /\ attemptsUsed = [c \in Cycles |-> 0]
  /\ intents = [c \in Cycles |-> [n \in SequenceNos |-> "none"]]
  /\ plan = [c \in Cycles |-> <<>>]
  /\ stepStatus = [c \in Cycles |-> [i \in StepIds |-> "absent"]]
  /\ notices = [c \in Cycles |-> {}]
  /\ outbox = {}
  /\ lockedSteps = {}

CountAttempts(c) == Cardinality({n \in SequenceNos : intents[c][n] # "none"})

\* Seeded fault: finished steps are fetched again.
DueStepsAgain(t) ==
  {r \in StepRef : /\ stepStatus[r[1]][r[2]] \in {"pending", "done"}
                   /\ plan[r[1]][r[2]].at <= t}

DueSteps(t) ==
  {r \in StepRef : /\ stepStatus[r[1]][r[2]] = "pending"
                   /\ plan[r[1]][r[2]].at <= t}

\* Seeded fault: a step in any status counts as something left to do.
CycleHasAnySteps(c) == \E i \in StepIds : stepStatus[c][i] # "absent"

CycleHasOpenSteps(c) ==
  \E i \in StepIds : stepStatus[c][i] \in {"pending", "dispatched"}

\* Seeded fault: the WHERE clause matches nothing.
CancelNothing(status) == status

\* Seeded fault: a word of attempt_intents.outcome, which the CHECK on
\* plan_steps.status does not allow.
CancelAsBlocked(status) ==
  [i \in StepIds |-> IF status[i] = "pending" THEN "blocked" ELSE status[i]]

\* plan_steps of cycle c after cancel_pending_steps_for_cycle.
CancelPending(status) ==
  [i \in StepIds |-> IF status[i] = "pending" THEN "cancelled" ELSE status[i]]

\* Seeded fault: no UNIQUE (cycle_id, sequence_no).
ReserveAnyNumber(c, n) == n \in SequenceNos

\* reserve_attempt_intent's UNIQUE (cycle_id, sequence_no) and CHECK.
CanReserve(c, n) == n \in SequenceNos /\ intents[c][n] = "none"

SetOutcome(c, n, outcome) == intents' = [intents EXCEPT ![c][n] = outcome]

\* An UPDATE by id: whatever status the row has by now is overwritten.
SetStepStatus(c, i, status) ==
  stepStatus' = [stepStatus EXCEPT ![c][i] = status]

\* _build_snapshot: what authorize() is given for cycle c.
Snapshot(c, now) ==
  LET m == MandateOf[c]
  IN  [ attempts      |-> CountAttempts(c),
        active        |-> mandateStatus[m] = "active",
        optedOut      |-> optedOut[m],
        killed        |-> killSwitches \cap {"global", MerchantOf[m]} # {},
        needsAFA      |-> c \in NeedsAFA,
        notices       |-> notices[c],
        contactsToday |->
          Cardinality({n \in notices[c] : Day(n.sent) = Day(now)}) ]

==============================================================================
