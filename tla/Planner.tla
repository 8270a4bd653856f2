------------------------------- MODULE Planner -------------------------------
(***************************************************************************)
(* backend/app/domain/planner.py, the backward induction over (slot,       *)
(* attempts remaining, notice state), and policies/mre.py, which walks the *)
(* solved table as if every attempt failed and commits to the steps met on *)
(* the way.  One SolveSlot per round of the outer loop of solve(), one     *)
(* Walk action per round of the loop in compute_mre_schedule().            *)
(*                                                                         *)
(* Money is an integer in units fine enough that the divisions of the      *)
(* instances are exact; a probability is a numerator over ProbDen.  Here   *)
(* Policy's unit of time is the hour, SlotsPerDay = 24.                    *)
(***************************************************************************)
EXTENDS Policy, Sequences

CONSTANTS
  NSlots,             \* n_slots: the planning horizon
  NoticeLead,         \* notice_lead_slots
  NotifyCost,         \* notify_cost + optout_hazard_cost
  FailureCost,        \* attempt_cost + revoke_hazard_cost
  StopEpsilon,
  ProbDen,
  AttemptsRemaining,  \* what the caller has left; max_attempts is MaxAttempts
  PlanningInputs      \* the inputs a plan may be asked for

Slots == 0 .. NSlots - 1
NoNotice == -1
NoticeReady == 0
NoticeStates == NoNotice .. NoticeLead
Budgets == 0 .. MaxAttempts
ActionType == {"ATTEMPT", "STOP_AND_ESCALATE", "NOTIFY", "IDLE"}

ASSUME PlannerAssumption ==
  /\ NSlots \in Nat \ {0}
  /\ NoticeLead \in Nat \ {0}
  /\ NotifyCost \in Nat /\ FailureCost \in Nat /\ StopEpsilon \in Nat
  /\ ProbDen \in Nat \ {0}
  /\ AttemptsRemaining \in Budgets
  /\ \A i \in PlanningInputs :
       /\ i.p \in [Slots -> 0 .. ProbDen]
       /\ i.success \in Int /\ i.manual \in Int /\ i.manualLate \in Int

VARIABLES
  inputs,         \* success: amount + continuation_value; p: p_success
  unsolved,       \* slots the induction has still to do: 0 .. unsolved - 1
  values, actions,
  walk,           \* "solving", "walking" or "done"
  state,          \* where the walk is
  steps,          \* the schedule so far
  pendingNotify,  \* index of the notice whose debit is not known yet, or 0
  immediateStop

mreVars == <<inputs, unsolved, values, actions, walk, state, steps,
             pendingNotify, immediateStop>>

\* slot_datetime, in hours from midnight of the start date.
SlotHour(t) == SlotsPerDay * (t \div 2) + (IF t % 2 = 0 THEN 2 ELSE 23)

NoDebit == -1
NotifyStep(at, covers) == [type |-> "notify", at |-> at, covers |-> covers]
AttemptStep(at) == [type |-> "attempt", at |-> at, covers |-> NoDebit]

\* p * gain + (1 - p) * loss
Expected(p, gain, loss) == (p * gain + (ProbDen - p) * loss) \div ProbDen

\* Seeded fault: a notice is ready in the slot after it was sent.
AdvanceAtOnce(n, sentNow) == IF sentNow THEN NoticeReady ELSE n

AdvanceNotice(n, sentNow) ==
  IF sentNow THEN NoticeLead
  ELSE IF n > NoticeReady THEN n - 1 ELSE n

\* The notice state after a failed attempt.
NoticeConsumed == NoNotice

\* Seeded fault: a failure is followed by a stop, never by another try.
StopAfterFailure(t, b) == inputs.manual - FailureCost

AfterFailure(t, b) == values[t + 1][b - 1, NoticeConsumed] - FailureCost

\* What an action is worth in slot t, with slot t + 1 already solved.
Worth(t, b, n, action) ==
  CASE action = "ATTEMPT" ->
         Expected(inputs.p[t], inputs.success, AfterFailure(t, b))
    [] action = "STOP_AND_ESCALATE" -> inputs.manual
    [] action = "NOTIFY" ->
         values[t + 1][b, AdvanceNotice(n, TRUE)] - NotifyCost
    [] action = "IDLE" -> values[t + 1][b, AdvanceNotice(n, FALSE)]

Candidates(b, n) ==
  {"STOP_AND_ESCALATE", "IDLE"}
    \cup (IF b > 0 /\ n = NoticeReady THEN {"ATTEMPT"} ELSE {})
    \cup (IF n = NoNotice THEN {"NOTIFY"} ELSE {})

\* Seeded fault: on a tie max() took the action listed first, IDLE.
IdleFirst(a, b) ==
  LET order == <<"ATTEMPT", "IDLE", "NOTIFY", "STOP_AND_ESCALATE">>
  IN  \E i, j \in 1 .. 4 : i <= j /\ order[i] = a /\ order[j] = b

\* The order of the candidate list; max() takes the first of the best.
Preferred(a, b) ==
  LET order == <<"ATTEMPT", "STOP_AND_ESCALATE", "NOTIFY", "IDLE">>
  IN  \E i, j \in 1 .. 4 : i <= j /\ order[i] = a /\ order[j] = b

Best(t, b, n) ==
  CHOOSE a \in Candidates(b, n) : \A o \in Candidates(b, n) :
    \/ Worth(t, b, n, a) > Worth(t, b, n, o)
    \/ Worth(t, b, n, a) = Worth(t, b, n, o) /\ Preferred(a, o)

Decision(t, b, n) ==
  LET best == Best(t, b, n)
  IN  IF Worth(t, b, n, best) < inputs.manual + StopEpsilon
      THEN "STOP_AND_ESCALATE" ELSE best

PlannerInit ==
  /\ inputs \in PlanningInputs
  /\ unsolved = NSlots
  /\ values = [t \in 0 .. NSlots |->
       [s \in Budgets \X NoticeStates |-> inputs.manualLate]]
  /\ actions = [t \in 0 .. NSlots |->
       [s \in Budgets \X NoticeStates |-> "STOP_AND_ESCALATE"]]
  /\ walk = "solving"
  /\ state = [slot |-> 0, budget |-> AttemptsRemaining, notice |-> NoNotice]
  /\ steps = <<>>
  /\ pendingNotify = 0
  /\ immediateStop = FALSE

SolveSlot ==
  LET t == unsolved - 1
  IN  /\ unsolved > 0
      /\ unsolved' = t
      /\ actions' = [actions EXCEPT ![t] =
           [s \in Budgets \X NoticeStates |-> Decision(t, s[1], s[2])]]
      /\ values' = [values EXCEPT ![t] =
           [s \in Budgets \X NoticeStates |-> Worth(t, s[1], s[2], actions'[t][s])]]
      /\ UNCHANGED <<inputs, walk, state, steps, pendingNotify, immediateStop>>

Planned == actions[state.slot][state.budget, state.notice]

BeginWalk ==
  /\ walk = "solving"
  /\ unsolved = 0
  /\ immediateStop' = (Planned = "STOP_AND_ESCALATE")
  /\ walk' = IF immediateStop' THEN "done" ELSE "walking"
  /\ UNCHANGED <<inputs, unsolved, values, actions, state, steps, pendingNotify>>

Walking(action) ==
  /\ walk = "walking"
  /\ state.slot < NSlots
  /\ Planned = action
  /\ UNCHANGED <<inputs, unsolved, values, actions, walk, immediateStop>>

NextState(budget, notice) ==
  state' = [slot |-> state.slot + 1, budget |-> budget, notice |-> notice]

WalkIdle ==
  /\ Walking("IDLE")
  /\ NextState(state.budget, AdvanceNotice(state.notice, FALSE))
  /\ UNCHANGED <<steps, pendingNotify>>

\* Seeded fault: the index is one past the notice just appended.
PastLastStep(s) == Len(s) + 1

LastStep(s) == Len(s)

WalkNotify ==
  /\ Walking("NOTIFY")
  /\ steps' = Append(steps, NotifyStep(SlotHour(state.slot), NoDebit))
  /\ pendingNotify' = LastStep(steps')
  /\ NextState(state.budget, AdvanceNotice(state.notice, TRUE))

\* The attempt is assumed to fail; it names itself in the notice waiting for it.
WalkAttempt ==
  LET at == SlotHour(state.slot)
      named == [i \in DOMAIN steps |->
                  IF i = pendingNotify THEN [steps[i] EXCEPT !.covers = at]
                                       ELSE steps[i]]
  IN  /\ Walking("ATTEMPT")
      /\ steps' = Append(named, AttemptStep(at))
      /\ pendingNotify' = 0
      /\ NextState(state.budget - 1, NoticeConsumed)

\* The table says stop, or the horizon is reached.
WalkStop ==
  /\ walk = "walking"
  /\ state.slot = NSlots \/ Planned = "STOP_AND_ESCALATE"
  /\ walk' = "done"
  /\ UNCHANGED <<inputs, unsolved, values, actions, state, steps,
                 pendingNotify, immediateStop>>

PlannerNext ==
  \/ SolveSlot
  \/ BeginWalk
  \/ WalkIdle \/ WalkNotify \/ WalkAttempt
  \/ WalkStop

==============================================================================
