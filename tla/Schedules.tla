------------------------------ MODULE Schedules ------------------------------
(***************************************************************************)
(* The three schedules of backend/app/policies/ side by side, on the same  *)
(* inputs: mre.py (module Planner), greedy.py, and fixed.py, which takes   *)
(* no inputs.  Schedules are compared with each other, with the policy     *)
(* gate, and with the best itinerary there is.                             *)
(***************************************************************************)
EXTENDS Planner, FiniteSets

\* What the engine's constants (domain/policy.py, policies/, horizon.py) grant:
\* both hours of slot_datetime are non-peak, the lead leaves a notice neither
\* too fresh nor too old, no schedule is longer than the budget that is left, two
\* contacts a day are allowed,
\* and escalating late is worth no more than escalating now.
ASSUME SchedulesAssumption ==
  /\ SlotsPerDay = 24
  /\ {2, 23} \subseteq PermittedSlots
  /\ NoticeMin <= 24 * (NoticeLead \div 2) /\ 12 * NoticeLead + 9 <= NoticeMaxAge
  /\ 24 \in NoticeMin .. NoticeMaxAge
  /\ AttemptsRemaining < MaxAttempts /\ 3 < MaxAttempts
  /\ ContactCap > 1
  /\ \A i \in PlanningInputs : i.manualLate <= i.manual

VARIABLES
  earliest,      \* earliest_available
  attemptsLeft,
  greedySteps,
  greedyState    \* "choosing", "done", or "stopped": immediate_stop

greedyVars == <<earliest, attemptsLeft, greedySteps, greedyState>>
vars == <<mreVars, greedyVars>>

\* compute_fixed_schedule: notice and attempt at 02:00, days 1, 3 and 7.
AttemptOffsetDays == <<1, 3, 7>>
FixedSchedule ==
  LET AttemptAt(i) == SlotsPerDay * AttemptOffsetDays[i] + 2
  IN  [k \in 1 .. 2 * Len(AttemptOffsetDays) |->
         IF k % 2 = 1
         THEN NotifyStep(AttemptAt((k + 1) \div 2) - SlotsPerDay,
                         AttemptAt((k + 1) \div 2))
         ELSE AttemptStep(AttemptAt(k \div 2))]

GreedyInit ==
  /\ earliest = 0
  /\ attemptsLeft = AttemptsRemaining
  /\ greedySteps = <<>>
  /\ greedyState = "choosing"

\* The list `used` is left out: a slot once used lies before `earliest`.
ReachableSlots == {t \in Slots : t >= earliest + NoticeLead}

\* The first of the slots with the highest probability.
BestSlot ==
  CHOOSE t \in ReachableSlots : \A o \in ReachableSlots :
    inputs.p[t] > inputs.p[o] \/ (inputs.p[t] = inputs.p[o] /\ t <= o)

NaiveValue(t) == Expected(inputs.p[t], inputs.success, -FailureCost)

WorthTrying ==
  /\ attemptsLeft > 0
  /\ ReachableSlots # {}
  /\ NaiveValue(BestSlot) >= inputs.manual

\* Seeded fault: the notice is sent one slot late.
NoticeSlotLate(t) == t - NoticeLead + 1

NoticeSlot(t) == t - NoticeLead

GreedyAttempt ==
  LET at == SlotHour(BestSlot)
  IN  /\ greedyState = "choosing"
      /\ WorthTrying
      /\ greedySteps' = greedySteps \o
           <<NotifyStep(SlotHour(NoticeSlot(BestSlot)), at), AttemptStep(at)>>
      /\ earliest' = BestSlot + 1
      /\ attemptsLeft' = attemptsLeft - 1
      /\ UNCHANGED <<mreVars, greedyState>>

GreedyStop ==
  /\ greedyState = "choosing"
  /\ ~WorthTrying
  /\ greedyState' = IF /\ attemptsLeft > 0
                       /\ ReachableSlots # {}
                       /\ greedySteps = <<>>
                    THEN "stopped" ELSE "done"
  /\ UNCHANGED <<mreVars, earliest, attemptsLeft, greedySteps>>

Init == PlannerInit /\ GreedyInit

Next ==
  \/ PlannerNext /\ UNCHANGED greedyVars
  \/ GreedyAttempt
  \/ GreedyStop

Spec == Init /\ [][Next]_vars

------------------------------------------------------------------------------
(* What a schedule is measured against. *)

\* An itinerary: for each attempt the slot of its notice and its own, lead
\* slots apart at least, one after the other.
Itineraries(lead) ==
  LET pairs == {x \in Slots \X Slots : x[1] + lead <= x[2]}
  IN  {it \in UNION {[1 .. k -> pairs] : k \in 0 .. AttemptsRemaining} :
         \A i \in 1 .. Len(it) - 1 : it[i][2] < it[i + 1][1]}

\* Expected value of following an itinerary, then escalating at the better of
\* the two moments left.
ItineraryValue(it) ==
  LET k == Len(it)
      last == IF (k > 0 /\ it[k][2] = NSlots - 1) \/ inputs.manualLate > inputs.manual
              THEN inputs.manualLate ELSE inputs.manual
      from[i \in 1 .. k + 1] ==
        IF i = k + 1 THEN last
        ELSE Expected(inputs.p[it[i][2]], inputs.success, from[i + 1] - FailureCost)
               - NotifyCost
  IN  from[1]

SlotOf(hour) == CHOOSE t \in Slots : SlotHour(t) = hour

ItineraryOf(plan) ==
  [i \in 1 .. Len(plan) \div 2 |-> <<SlotOf(plan[2 * i - 1].at), SlotOf(plan[2 * i].at)>>]

RootValue == values[0][AttemptsRemaining, NoNotice]

\* The notices on record when the step of index i comes due, every step of the
\* plan having been executed on time.
NoticesBefore(plan, i) ==
  {[sent |-> plan[j].at, covers |-> plan[j].covers] :
     j \in {j \in 1 .. i - 1 : plan[j].type = "notify"}}

AttemptsBefore(plan, i) == 1 + Cardinality({j \in 1 .. i - 1 : plan[j].type = "attempt"})

\* The gate allows step i of the plan, were each step before it executed at its
\* instant and every attempt a failure.
GateAllows(plan, i) ==
  LET s == [killed |-> FALSE, active |-> TRUE, optedOut |-> FALSE,
            needsAFA |-> FALSE,
            attempts |-> AttemptsBefore(plan, i),
            notices |-> NoticesBefore(plan, i),
            contactsToday |-> Cardinality({n \in NoticesBefore(plan, i) :
                                             Day(n.sent) = Day(plan[i].at)})]
  IN  IF plan[i].type = "notify" THEN NotifyAuthorized(s)
                                 ELSE AttemptAuthorized(s, plan[i].at)

PassesGate(plan) == \A i \in DOMAIN plan : GateAllows(plan, i)

\* Step i is an attempt whose own notice is too old for the gate by then.
NoticeExpired(plan, i) ==
  /\ plan[i].type = "attempt"
  /\ \E n \in NoticesBefore(plan, i) :
       n.covers = plan[i].at /\ plan[i].at - n.sent > NoticeMaxAge

------------------------------------------------------------------------------
(* Properties *)

\* The tables and the walk stay within their types.
PlanTypeOK ==
  /\ inputs \in PlanningInputs
  /\ unsolved \in 0 .. NSlots
  /\ values \in [0 .. NSlots -> [Budgets \X NoticeStates -> Int]]
  /\ actions \in [0 .. NSlots -> [Budgets \X NoticeStates -> ActionType]]
  /\ walk \in {"solving", "walking", "done"}
  /\ state \in [slot : 0 .. NSlots, budget : Budgets, notice : NoticeStates]
  /\ pendingNotify \in 0 .. Len(steps)
  /\ \A i \in DOMAIN steps : steps[i].type \in {"notify", "attempt"}

\* solve() is exact: once slot 0 is done, the root holds the value of the best
\* itinerary of the decision problem planner.py states, in which a notice sent
\* in slot t makes slot t + notice_lead_slots + 1 the first for an attempt.
SolveIsOptimal ==
  unsolved = 0 =>
    /\ \A it \in Itineraries(NoticeLead + 1) : RootValue >= ItineraryValue(it)
    /\ \E it \in Itineraries(NoticeLead + 1) : RootValue = ItineraryValue(it)

\* What compute_mre_schedule commits to: steps in order of time, no notice
\* without its attempt, no more attempts than are left, and no step the gate
\* would deny but for one reason: "No expiry is modelled" (planner.py), so the
\* walk may let a notice wait until it is too old for the gate.
MrePlanSound ==
  walk = "done" =>
    /\ \A i, j \in DOMAIN steps : i < j => steps[i].at < steps[j].at
    /\ \A i \in DOMAIN steps : GateAllows(steps, i) \/ NoticeExpired(steps, i)
    /\ \A i \in DOMAIN steps : steps[i].type = "notify" =>
         \E j \in i + 1 .. Len(steps) : /\ steps[j].type = "attempt"
                                        /\ steps[j].at = steps[i].covers
    /\ AttemptsBefore(steps, Len(steps) + 1) - 1 <= AttemptsRemaining

\* A plan without steps is only ever returned together with immediate_stop: an
\* empty plan not marked so would leave the case SCHEDULED, to be abandoned by
\* the sweep instead of handed over to a person.
EmptyPlanEscalates == walk = "done" /\ steps = <<>> => immediateStop

\* The greedy and the fixed schedule pass the gate at every step.
BaselinesPassGate ==
  /\ PassesGate(greedySteps)
  /\ PassesGate(FixedSchedule)

\* "maximises expected recovered value" (README.md): on the same inputs the exact
\* planner is worth no less than the greedy schedule it is compared with.
ExactBeatsGreedy ==
  unsolved = 0 /\ greedyState \in {"done", "stopped"} =>
    RootValue >= ItineraryValue(ItineraryOf(greedySteps))

==============================================================================
