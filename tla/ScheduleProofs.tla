---------------------------- MODULE ScheduleProofs ----------------------------
(***************************************************************************)
(* The schedules of the three policies, for every horizon, lead, cost,     *)
(* budget and curve of probabilities: the planner's tables and walk keep   *)
(* their types, the plan it commits to is sound, a plan without steps is   *)
(* always marked to escalate, and the greedy and the fixed schedule pass   *)
(* the policy gate at every step.                                          *)
(*                                                                         *)
(* The walk reads what the induction wrote, so its invariant rests on one  *)
(* about the table: every entry is the worth of the action beside it, and  *)
(* waiting or sending a notice is only ever chosen for strictly more than  *)
(* escalating is worth.                                                    *)
(*                                                                         *)
(* With a stop epsilon of zero the backward induction is exact.  One way,  *)
(* each entry bounds what any itinerary from its slot is worth; the other, *)
(* the actions beside the entries make an itinerary worth as much.  Both   *)
(* go from the deadline back, by the latest slot that could fail.          *)
(***************************************************************************)
EXTENDS Schedules, TLAPS, FiniteSetTheorems, SequenceTheorems

------------------------------------------------------------------------------
(* Slots and hours *)

LEMMA SlotHours ==
  \A t \in Nat :
    /\ SlotHour(t) \in Nat
    /\ SlotHour(t) % 24 \in {2, 23}
    /\ SlotHour(t) \div 24 = t \div 2
BY SchedulesAssumption DEF SlotHour

LEMMA HoursBetween ==
  ASSUME NEW t \in Nat, NEW u \in Nat, t < u
  PROVE  /\ SlotHour(t) < SlotHour(u)
         /\ 24 * ((u - t) \div 2) <= SlotHour(u) - SlotHour(t)
         /\ SlotHour(u) - SlotHour(t) <= 12 * (u - t) + 9
BY SchedulesAssumption DEF SlotHour

LEMMA SlotsPermitted == \A t \in Nat : InPermittedWindow(SlotHour(t))
BY SlotHours, SchedulesAssumption DEF InPermittedWindow

------------------------------------------------------------------------------
(* One decision *)

Rank(a) == CASE a = "ATTEMPT" -> 1 [] a = "STOP_AND_ESCALATE" -> 2
             [] a = "NOTIFY" -> 3  [] a = "IDLE" -> 4

LEMMA PreferredByRank ==
  \A a, b \in ActionType : Preferred(a, b) <=> Rank(a) <= Rank(b)
<1> DEFINE order == <<"ATTEMPT", "STOP_AND_ESCALATE", "NOTIFY", "IDLE">>
<1>1. \A i \in 1 .. 4, a \in ActionType : order[i] = a <=> i = Rank(a)
  <2>1. \A a \in ActionType : order[1] = a <=> 1 = Rank(a)
    BY DEF ActionType, Rank
  <2>2. \A a \in ActionType : order[2] = a <=> 2 = Rank(a)
    BY DEF ActionType, Rank
  <2>3. \A a \in ActionType : order[3] = a <=> 3 = Rank(a)
    BY DEF ActionType, Rank
  <2>4. \A a \in ActionType : order[4] = a <=> 4 = Rank(a)
    BY DEF ActionType, Rank
  <2> QED  BY <2>1, <2>2, <2>3, <2>4
<1>2. \A a \in ActionType : Rank(a) \in 1 .. 4
  BY DEF ActionType, Rank
<1> QED  BY <1>1, <1>2 DEF Preferred

\* max() over a list of candidates always finds the first of the best.
LEMMA FirstOfTheBest ==
  ASSUME NEW W \in [ActionType -> Int], NEW C \in SUBSET ActionType, C # {}
  PROVE  \E a \in C : \A o \in C :
           \/ W[a] > W[o]
           \/ W[a] = W[o] /\ Rank(a) <= Rank(o)
<1> DEFINE Key(a) == 4 * W[a] - Rank(a)
<1>1. \A a \in ActionType : Rank(a) \in 1 .. 4 /\ Key(a) \in Int
  BY DEF ActionType, Rank
<1>2. \E a \in C : \A o \in C : Key(a) >= Key(o)
  <2> HIDE DEF Key
  <2> SUFFICES ASSUME \A a \in C : \E o \in C : Key(o) > Key(a)
               PROVE  FALSE
    BY <1>1
  <2>1. PICK a1 \in C : TRUE
    OBVIOUS
  <2>2. PICK a2 \in C : Key(a2) > Key(a1)
    OBVIOUS
  <2>3. PICK a3 \in C : Key(a3) > Key(a2)
    OBVIOUS
  <2>4. PICK a4 \in C : Key(a4) > Key(a3)
    OBVIOUS
  <2>5. PICK a5 \in C : Key(a5) > Key(a4)
    OBVIOUS
  <2>6. /\ a1 # a2 /\ a1 # a3 /\ a1 # a4 /\ a1 # a5 /\ a2 # a3
        /\ a2 # a4 /\ a2 # a5 /\ a3 # a4 /\ a3 # a5 /\ a4 # a5
    BY <1>1, <2>2, <2>3, <2>4, <2>5
  <2> QED  BY <2>6 DEF ActionType
<1>3. PICK a \in C : \A o \in C : Key(a) >= Key(o)
  BY <1>2
<1>4. ASSUME NEW o \in C
      PROVE  W[a] > W[o] \/ (W[a] = W[o] /\ Rank(a) <= Rank(o))
  <2>1. W[a] \in Int /\ W[o] \in Int /\ Rank(a) \in 1 .. 4 /\ Rank(o) \in 1 .. 4
    BY <1>1
  <2>2. 4 * W[a] - Rank(a) >= 4 * W[o] - Rank(o)
    BY <1>3
  <2> QED  BY <2>1, <2>2
<1> QED  BY <1>4

------------------------------------------------------------------------------
(* The table of the backward induction *)

TableTypes ==
  /\ inputs \in PlanningInputs
  /\ unsolved \in 0 .. NSlots
  /\ values \in [0 .. NSlots -> [Budgets \X NoticeStates -> Int]]
  /\ actions \in [0 .. NSlots -> [Budgets \X NoticeStates -> ActionType]]
  /\ \A b \in Budgets, n \in NoticeStates : values[NSlots][b, n] = inputs.manualLate

\* What a decision is good for.
GoodDecision(t, b, n, a) ==
  /\ a \in Candidates(b, n)
  /\ Worth(t, b, n, a) >= inputs.manual
  /\ \A o \in Candidates(b, n) :
       Worth(t, b, n, a) + StopEpsilon >= Worth(t, b, n, o)
  /\ a \in {"NOTIFY", "IDLE"} => Worth(t, b, n, a) > inputs.manual

Solved(t) ==
  \A b \in Budgets, n \in NoticeStates :
    /\ GoodDecision(t, b, n, actions[t][b, n])
    /\ values[t][b, n] = Worth(t, b, n, actions[t][b, n])

TableInv == TableTypes /\ \A t \in Slots : t >= unsolved => Solved(t)

LEMMA CandidatesTyped ==
  ASSUME NEW b, NEW n
  PROVE  /\ Candidates(b, n) \subseteq ActionType
         /\ "STOP_AND_ESCALATE" \in Candidates(b, n)
         /\ "ATTEMPT" \in Candidates(b, n) => b > 0 /\ n = NoticeReady
         /\ "NOTIFY" \in Candidates(b, n) => n = NoNotice
BY DEF Candidates, ActionType

LEMMA NoticeAdvances ==
  ASSUME NEW n \in NoticeStates
  PROVE  /\ AdvanceNotice(n, TRUE) = NoticeLead
         /\ AdvanceNotice(n, TRUE) \in NoticeStates
         /\ AdvanceNotice(n, FALSE) \in NoticeStates
         /\ AdvanceNotice(n, FALSE) = NoNotice <=> n = NoNotice
BY PlannerAssumption DEF AdvanceNotice, NoticeStates, NoNotice, NoticeReady

LEMMA ExpectedTyped ==
  ASSUME NEW p \in Int, NEW gain \in Int, NEW loss \in Int
  PROVE  Expected(p, gain, loss) \in Int
BY PlannerAssumption DEF Expected

LEMMA CostsTyped == NotifyCost \in Nat /\ FailureCost \in Nat /\ StopEpsilon \in Nat
BY PlannerAssumption

LEMMA InputsTyped ==
  ASSUME inputs \in PlanningInputs
  PROVE  /\ inputs.success \in Int /\ inputs.manual \in Int
         /\ inputs.manualLate \in Int
         /\ \A t \in Slots : inputs.p[t] \in 0 .. ProbDen /\ inputs.p[t] \in Int
BY PlannerAssumption

LEMMA ValueTyped ==
  ASSUME TableTypes, NEW t \in 0 .. NSlots, NEW b \in Budgets, NEW n \in NoticeStates
  PROVE  values[t][b, n] \in Int
<1>1. values[t] \in [Budgets \X NoticeStates -> Int]
  BY DEF TableTypes
<1>2. <<b, n>> \in Budgets \X NoticeStates
  OBVIOUS
<1> HIDE DEF Budgets, NoticeStates
<1> QED  BY <1>1, <1>2

LEMMA WorthTyped ==
  ASSUME TableTypes, NEW t \in Slots, NEW b \in Budgets, NEW n \in NoticeStates,
         NEW a \in Candidates(b, n)
  PROVE  Worth(t, b, n, a) \in Int
<1>1. /\ t + 1 \in 0 .. NSlots
      /\ inputs.p[t] \in Int /\ inputs.success \in Int /\ inputs.manual \in Int
  <2>1. t + 1 \in 0 .. NSlots
    BY PlannerAssumption DEF Slots
  <2> QED  BY <2>1, InputsTyped DEF TableTypes
<1>2. CASE a = "ATTEMPT"
  <2>1. b - 1 \in Budgets /\ NoNotice \in NoticeStates
    BY <1>2, CandidatesTyped, PlannerAssumption, PolicyAssumption
    DEF Budgets, NoticeStates, NoNotice
  <2>2. values[t + 1][b - 1, NoNotice] \in Int
    BY <1>1, <2>1, ValueTyped
  <2> DEFINE next == values[t + 1][b - 1, NoNotice]
             loss == AfterFailure(t, b)
  <2>3. loss = next - FailureCost
    BY DEF AfterFailure, NoticeConsumed
  <2>4. Worth(t, b, n, a) = Expected(inputs.p[t], inputs.success, loss)
    BY <1>2 DEF Worth
  <2>5. next \in Int
    BY <2>2
  <2> HIDE DEF next, loss
  <2>6. loss \in Int
    BY <2>3, <2>5, CostsTyped
  <2> QED  BY <1>1, <2>4, <2>6, ExpectedTyped
<1>3. CASE a = "STOP_AND_ESCALATE"
  BY <1>1, <1>3 DEF Worth
<1>4. CASE a = "NOTIFY"
  <2>1. values[t + 1][b, AdvanceNotice(n, TRUE)] \in Int
    BY <1>1, NoticeAdvances, ValueTyped
  <2> DEFINE next == values[t + 1][b, AdvanceNotice(n, TRUE)]
  <2>2. Worth(t, b, n, a) = next - NotifyCost
    BY <1>4 DEF Worth
  <2>3. next \in Int
    BY <2>1
  <2> HIDE DEF next
  <2> QED  BY <2>2, <2>3, CostsTyped
<1>5. CASE a = "IDLE"
  <2>1. values[t + 1][b, AdvanceNotice(n, FALSE)] \in Int
    BY <1>1, NoticeAdvances, ValueTyped
  <2> QED  BY <1>5, <2>1 DEF Worth
<1> QED  BY <1>2, <1>3, <1>4, <1>5, CandidatesTyped DEF ActionType

LEMMA DecisionIsGood ==
  ASSUME TableTypes, NEW t \in Slots, NEW b \in Budgets, NEW n \in NoticeStates
  PROVE  GoodDecision(t, b, n, Decision(t, b, n))
<1> DEFINE C == Candidates(b, n)
           W == [a \in ActionType |-> IF a \in C THEN Worth(t, b, n, a) ELSE 0]
           best == Best(t, b, n)
<1>1. /\ C \in SUBSET ActionType
      /\ "STOP_AND_ESCALATE" \in C
      /\ \A a \in C : W[a] = Worth(t, b, n, a) /\ Worth(t, b, n, a) \in Int
      /\ W \in [ActionType -> Int]
  BY CandidatesTyped, WorthTyped
<1>2. inputs.manual \in Int /\ Worth(t, b, n, "STOP_AND_ESCALATE") = inputs.manual
  BY InputsTyped DEF TableTypes, Worth
<1>3. \E a \in C : \A o \in C :
        \/ W[a] > W[o]
        \/ W[a] = W[o] /\ Rank(a) <= Rank(o)
  BY <1>1, FirstOfTheBest
<1>4. \E a \in C : \A o \in C :
        \/ Worth(t, b, n, a) > Worth(t, b, n, o)
        \/ Worth(t, b, n, a) = Worth(t, b, n, o) /\ Preferred(a, o)
  BY <1>1, <1>3, PreferredByRank
<1> HIDE DEF W
<1>5. /\ best \in C
      /\ \A o \in C :
           \/ Worth(t, b, n, best) > Worth(t, b, n, o)
           \/ Worth(t, b, n, best) = Worth(t, b, n, o) /\ Preferred(best, o)
  BY <1>4 DEF Best
<1> HIDE DEF best
<1>6. best \in {"NOTIFY", "IDLE"} => ~Preferred(best, "STOP_AND_ESCALATE")
  BY PreferredByRank DEF ActionType, Rank
<1>7. best \in {"NOTIFY", "IDLE"} => Worth(t, b, n, best) > inputs.manual
  BY <1>1, <1>2, <1>5, <1>6
<1>8. \A o \in C : Worth(t, b, n, best) >= Worth(t, b, n, o)
  BY <1>1, <1>5
<1>9. CASE Worth(t, b, n, best) < inputs.manual + StopEpsilon
  <2>1. Decision(t, b, n) = "STOP_AND_ESCALATE"
    BY <1>9 DEF Decision, best
  <2>2. \A o \in C : inputs.manual + StopEpsilon >= Worth(t, b, n, o)
    BY <1>1, <1>2, <1>5, <1>8, <1>9, CostsTyped
  <2> QED  BY <1>1, <1>2, <2>1, <2>2 DEF GoodDecision
<1>10. CASE ~(Worth(t, b, n, best) < inputs.manual + StopEpsilon)
  <2>1. Decision(t, b, n) = best
    BY <1>10 DEF Decision, best
  <2>2. Worth(t, b, n, best) >= inputs.manual
    BY <1>1, <1>2, <1>5, <1>8, CostsTyped
  <2>3. \A o \in C : Worth(t, b, n, best) + StopEpsilon >= Worth(t, b, n, o)
    BY <1>1, <1>5, <1>8, CostsTyped
  <2> QED  BY <1>5, <1>7, <2>1, <2>2, <2>3 DEF GoodDecision
<1> QED  BY <1>9, <1>10

LEMMA TableInit == PlannerInit => TableInv
<1> SUFFICES ASSUME PlannerInit PROVE TableInv
  OBVIOUS
<1>1. inputs.manualLate \in Int
  BY InputsTyped DEF PlannerInit
<1>2. NSlots \in 0 .. NSlots /\ NSlots \in Nat
  BY PlannerAssumption
<1>3. TableTypes
  BY <1>1, <1>2 DEF PlannerInit, TableTypes, ActionType
<1>4. \A t \in Slots : ~(t >= unsolved)
  BY <1>2 DEF PlannerInit, Slots
<1> QED  BY <1>3, <1>4 DEF TableInv

\* An entry depends on the inputs and on the next slot alone.
LEMMA GoodDecisionKept ==
  ASSUME NEW t, inputs' = inputs, values'[t + 1] = values[t + 1],
         NEW b, NEW n, NEW a
  PROVE  /\ Worth(t, b, n, a)' = Worth(t, b, n, a)
         /\ GoodDecision(t, b, n, a)' <=> GoodDecision(t, b, n, a)
<1>1. \A o : Worth(t, b, n, o)' = Worth(t, b, n, o)
  BY DEF Worth, AfterFailure
<1> QED  BY <1>1 DEF GoodDecision

LEMMA SolveSlotKeepsTable ==
  ASSUME TableInv, SolveSlot
  PROVE  TableInv'
<1> DEFINE u == unsolved - 1
           States == Budgets \X NoticeStates
<1>1. /\ u \in Slots /\ u \in 0 .. NSlots /\ u # NSlots /\ unsolved' = u
      /\ unsolved \in Nat
  <2>1. unsolved \in 0 .. NSlots /\ unsolved > 0 /\ unsolved' = u
    BY DEF TableInv, TableTypes, SolveSlot
  <2>2. NSlots \in Nat
    BY PlannerAssumption
  <2> QED  BY <2>1, <2>2 DEF Slots
<1>2. /\ inputs' = inputs
      /\ actions' = [actions EXCEPT ![u] = [s \in States |-> Decision(u, s[1], s[2])]]
      /\ values' = [values EXCEPT ![u] =
           [s \in States |-> Worth(u, s[1], s[2], actions'[u][s])]]
  BY DEF SolveSlot
<1>3. TableTypes
  BY DEF TableInv
<1>4. \A t \in 0 .. NSlots : t # u => values'[t] = values[t] /\ actions'[t] = actions[t]
  BY <1>2, <1>3 DEF TableTypes
<1>5. /\ actions'[u] = [s \in States |-> Decision(u, s[1], s[2])]
      /\ values'[u] = [s \in States |-> Worth(u, s[1], s[2], actions'[u][s])]
  BY <1>1, <1>2, <1>3 DEF TableTypes
<1>6. ASSUME NEW b \in Budgets, NEW n \in NoticeStates
      PROVE  /\ actions'[u][b, n] = Decision(u, b, n)
             /\ values'[u][b, n] = Worth(u, b, n, Decision(u, b, n))
             /\ GoodDecision(u, b, n, Decision(u, b, n))
             /\ Decision(u, b, n) \in ActionType
             /\ Worth(u, b, n, Decision(u, b, n)) \in Int
  <2>1. GoodDecision(u, b, n, Decision(u, b, n))
    BY <1>1, <1>3, DecisionIsGood
  <2>2. Decision(u, b, n) \in Candidates(b, n)
    BY <2>1 DEF GoodDecision
  <2>3. <<b, n>> \in States
    OBVIOUS
  <2>4. actions'[u][b, n] = Decision(u, b, n)
    BY <1>5, <2>3
  <2>5. values'[u][b, n] = Worth(u, b, n, actions'[u][b, n])
    BY <1>5, <2>3
  <2>6. Worth(u, b, n, Decision(u, b, n)) \in Int
    BY <1>1, <1>3, <2>2, WorthTyped
  <2> QED  BY <2>1, <2>2, <2>4, <2>5, <2>6, CandidatesTyped
<1> HIDE DEF u
<1>7. TableTypes'
  <2>1. inputs' \in PlanningInputs /\ unsolved' \in 0 .. NSlots
    BY <1>1, <1>2, <1>3 DEF TableTypes
  <2>2. actions'[u] \in [States -> ActionType]
    <3>1. \A s \in States : actions'[u][s] \in ActionType
      <4> SUFFICES ASSUME NEW s \in States PROVE actions'[u][s] \in ActionType
        OBVIOUS
      <4>1. PICK b \in Budgets, n \in NoticeStates : s = <<b, n>>
        OBVIOUS
      <4> QED  BY <1>6, <4>1
    <3> QED  BY <1>5, <3>1
  <2>3. values'[u] \in [States -> Int]
    <3>1. \A s \in States : values'[u][s] \in Int
      <4> SUFFICES ASSUME NEW s \in States PROVE values'[u][s] \in Int
        OBVIOUS
      <4>1. PICK b \in Budgets, n \in NoticeStates : s = <<b, n>>
        OBVIOUS
      <4> QED  BY <1>6, <4>1
    <3> QED  BY <1>5, <3>1
  <2>4. values' \in [0 .. NSlots -> [States -> Int]]
    BY <1>2, <1>3, <1>4, <2>3 DEF TableTypes
  <2>5. actions' \in [0 .. NSlots -> [States -> ActionType]]
    BY <1>2, <1>3, <1>4, <2>2 DEF TableTypes
  <2>6. NSlots \in 0 .. NSlots
    BY PlannerAssumption
  <2> QED  BY <1>1, <1>2, <1>3, <1>4, <2>1, <2>4, <2>5, <2>6 DEF TableTypes
<1>8. ASSUME NEW t \in Slots, t >= unsolved'
      PROVE  Solved(t)'
  <2>1. t + 1 \in 0 .. NSlots /\ t \in 0 .. NSlots
    BY PlannerAssumption DEF Slots
  <2>2. t = u \/ t >= unsolved
    BY <1>1, <1>8 DEF Slots, u
  <2>3. t + 1 # u
    BY <1>1, <1>8, <2>1
  <2>4. values'[t + 1] = values[t + 1]
    BY <1>4, <2>1, <2>3
  <2>5. SUFFICES ASSUME NEW b \in Budgets, NEW n \in NoticeStates,
                        NEW a, a = actions'[t][b, n]
                 PROVE  GoodDecision(t, b, n, a)' /\ values'[t][b, n] = Worth(t, b, n, a)'
    BY DEF Solved
  <2>6. CASE t = u
    <3>1. GoodDecision(t, b, n, a) /\ values'[t][b, n] = Worth(t, b, n, a)
      BY <1>6, <2>5, <2>6
    <3> QED  BY <1>2, <2>4, <3>1, GoodDecisionKept
  <2>7. CASE t # u
    <3>1. actions'[t] = actions[t] /\ values'[t] = values[t]
      BY <1>4, <2>1, <2>7
    <3>2. GoodDecision(t, b, n, a) /\ values[t][b, n] = Worth(t, b, n, a)
      BY <2>2, <2>5, <2>7, <3>1 DEF TableInv, Solved
    <3> QED  BY <1>2, <2>4, <3>1, <3>2, GoodDecisionKept
  <2> QED  BY <2>6, <2>7
<1> QED  BY <1>7, <1>8 DEF TableInv

LEMMA TableNext ==
  ASSUME TableInv, [Next]_vars
  PROVE  TableInv'
<1>1. CASE SolveSlot
  BY <1>1, SolveSlotKeepsTable
<1>2. CASE UNCHANGED <<inputs, unsolved, values, actions>>
  <2>1. \A t, b, n, a : Worth(t, b, n, a)' = Worth(t, b, n, a)
    BY <1>2 DEF Worth, AfterFailure
  <2>2. \A t, b, n, a : GoodDecision(t, b, n, a)' <=> GoodDecision(t, b, n, a)
    BY <1>2, <2>1 DEF GoodDecision
  <2> QED  BY <1>2, <2>1, <2>2 DEF TableInv, TableTypes, Solved
<1>3. SolveSlot \/ UNCHANGED <<inputs, unsolved, values, actions>>
  BY DEF Next, PlannerNext, vars, mreVars, BeginWalk, WalkIdle, WalkNotify,
         WalkAttempt, WalkStop, Walking, GreedyAttempt, GreedyStop
<1> QED  BY <1>1, <1>2, <1>3

------------------------------------------------------------------------------
(* The walk over the solved table *)

Step == [type : {"notify", "attempt"}, at : Int, covers : Int]

WalkTypes ==
  /\ walk \in {"solving", "walking", "done"}
  /\ state \in [slot : 0 .. NSlots, budget : Budgets, notice : NoticeStates]
  /\ steps \in Seq(Step)
  /\ pendingNotify \in 0 .. Len(steps)

\* A walk that still owes an attempt, or has nothing to show yet, stands where
\* going on is worth more than stopping; so it cannot end there.
WalkPhases ==
  /\ walk = "solving" =>
       /\ state = [slot |-> 0, budget |-> AttemptsRemaining, notice |-> NoNotice]
       /\ steps = <<>>
  /\ walk # "solving" => unsolved = 0
  /\ walk = "walking" /\ (pendingNotify # 0 \/ steps = <<>>) =>
       values[state.slot][state.budget, state.notice] > inputs.manual
  /\ walk = "done" => pendingNotify = 0 /\ (steps = <<>> => immediateStop)

\* The countdown of the notice state is never ahead of the notice's age.
NoticeAge ==
  /\ state.notice = NoNotice <=> pendingNotify = 0
  /\ pendingNotify # 0 =>
       /\ steps[pendingNotify].type = "notify"
       /\ \E t \in 0 .. state.slot - 1 :
            /\ steps[pendingNotify].at = SlotHour(t)
            /\ state.slot - t + state.notice >= NoticeLead + 1

StepsInOrder ==
  /\ \A i \in DOMAIN steps :
       \E t \in 0 .. state.slot - 1 : steps[i].at = SlotHour(t)
  /\ \A i, j \in DOMAIN steps : i < j => steps[i].at < steps[j].at

AttemptNoticed(i) ==
  /\ InPermittedWindow(steps[i].at)
  /\ \E j \in 1 .. i - 1 : /\ j # pendingNotify
                           /\ steps[j].type = "notify"
                           /\ steps[j].covers = steps[i].at
                           /\ steps[j].at + NoticeMin <= steps[i].at

NoticeUsed(i) ==
  \E j \in i + 1 .. Len(steps) : /\ steps[j].type = "attempt"
                                 /\ steps[j].at = steps[i].covers

StepsPaired ==
  \A i \in DOMAIN steps :
    /\ steps[i].type = "attempt" => AttemptNoticed(i)
    /\ steps[i].type = "notify" /\ i # pendingNotify => NoticeUsed(i)

AttemptsIn(s) == {j \in 1 .. Len(s) : s[j].type = "attempt"}

BudgetSpent == Cardinality(AttemptsIn(steps)) = AttemptsRemaining - state.budget

WalkInv ==
  WalkTypes /\ WalkPhases /\ NoticeAge /\ StepsInOrder /\ StepsPaired /\ BudgetSpent

LEMMA WalkInit == PlannerInit => WalkInv
<1> SUFFICES ASSUME PlannerInit PROVE WalkInv
  OBVIOUS
<1>1. /\ walk = "solving" /\ steps = <<>> /\ pendingNotify = 0
      /\ state = [slot |-> 0, budget |-> AttemptsRemaining, notice |-> NoNotice]
  BY DEF PlannerInit
<1>2. steps \in Seq(Step) /\ Len(steps) = 0 /\ DOMAIN steps = {}
  BY <1>1
<1>3. NSlots \in Nat /\ AttemptsRemaining \in Budgets /\ AttemptsRemaining \in Nat
  BY PlannerAssumption, PolicyAssumption DEF Budgets
<1>4. WalkTypes
  <2>1. NoNotice \in NoticeStates /\ 0 \in 0 .. NSlots
    BY <1>3, PlannerAssumption DEF NoNotice, NoticeStates
  <2> QED  BY <1>1, <1>2, <1>3, <2>1 DEF WalkTypes
<1>5. BudgetSpent
  <2>1. AttemptsIn(steps) = {}
    BY <1>2 DEF AttemptsIn
  <2>2. AttemptsRemaining - state.budget = 0
    BY <1>1, <1>3
  <2> QED  BY <2>1, <2>2, FS_EmptySet DEF BudgetSpent
<1> QED  BY <1>1, <1>2, <1>4, <1>5
         DEF WalkInv, WalkPhases, NoticeAge, StepsInOrder, StepsPaired

\* The entry the walk stands on.
LEMMA EntryOfTheWalk ==
  ASSUME TableInv, WalkTypes, unsolved = 0, state.slot < NSlots
  PROVE  /\ state.slot \in Slots
         /\ GoodDecision(state.slot, state.budget, state.notice, Planned)
         /\ values[state.slot][state.budget, state.notice]
              = Worth(state.slot, state.budget, state.notice, Planned)
<1>1. /\ state.slot \in 0 .. NSlots /\ state.budget \in Budgets
      /\ state.notice \in NoticeStates
  BY DEF WalkTypes
<1>2. state.slot \in Slots /\ state.slot >= unsolved
  BY <1>1, PlannerAssumption DEF Slots
<1> QED  BY <1>1, <1>2 DEF TableInv, Solved, Planned

LEMMA SolveSlotKeepsWalk ==
  ASSUME WalkInv, SolveSlot
  PROVE  WalkInv'
<1>1. UNCHANGED <<inputs, walk, state, steps, pendingNotify, immediateStop>>
  BY DEF SolveSlot
<1>2. WalkTypes'
  BY <1>1 DEF WalkInv, WalkTypes
<1>3. walk = "solving"
  <2>1. walk # "solving" => unsolved = 0
    BY DEF WalkInv, WalkPhases
  <2>2. unsolved > 0
    BY DEF SolveSlot
  <2> QED  BY <2>1, <2>2
<1>4. WalkPhases'
  BY <1>1, <1>3 DEF WalkInv, WalkPhases
<1>5. NoticeAge' /\ StepsInOrder'
  BY <1>1 DEF WalkInv, NoticeAge, StepsInOrder
<1>6. StepsPaired'
  BY <1>1 DEF WalkInv, StepsPaired, AttemptNoticed, NoticeUsed
<1>7. BudgetSpent'
  BY <1>1 DEF WalkInv, BudgetSpent, AttemptsIn
<1> QED  BY <1>2, <1>4, <1>5, <1>6, <1>7 DEF WalkInv

LEMMA BeginWalkKeepsWalk ==
  ASSUME TableInv, WalkInv, BeginWalk
  PROVE  WalkInv'
<1>1. /\ UNCHANGED <<inputs, unsolved, values, state, steps, pendingNotify>>
      /\ walk = "solving" /\ unsolved = 0
      /\ immediateStop' <=> Planned = "STOP_AND_ESCALATE"
      /\ walk' = IF immediateStop' THEN "done" ELSE "walking"
  BY DEF BeginWalk
<1>2. /\ state.slot = 0 /\ state.notice = NoNotice
      /\ steps = <<>> /\ pendingNotify = 0
  BY <1>1 DEF WalkInv, WalkPhases, NoticeAge
<1>3. /\ GoodDecision(state.slot, state.budget, state.notice, Planned)
      /\ values[state.slot][state.budget, state.notice]
           = Worth(state.slot, state.budget, state.notice, Planned)
  <2>1. state.slot < NSlots
    BY <1>2, PlannerAssumption
  <2> QED  BY <1>1, <2>1, EntryOfTheWalk DEF WalkInv
<1>4. Planned \in {"STOP_AND_ESCALATE", "NOTIFY", "IDLE"}
  <2>1. Planned \in Candidates(state.budget, state.notice)
    BY <1>3 DEF GoodDecision
  <2>2. state.notice # NoticeReady
    BY <1>2 DEF NoNotice, NoticeReady
  <2> QED  BY <2>1, <2>2, CandidatesTyped DEF ActionType
<1>5. walk' = "walking" => values[state.slot][state.budget, state.notice] > inputs.manual
  BY <1>1, <1>3, <1>4 DEF GoodDecision
<1>6. WalkTypes'
  BY <1>1 DEF WalkInv, WalkTypes
<1>7. WalkPhases'
  <2>1. walk' \in {"walking", "done"} /\ (walk' = "done" => immediateStop')
    BY <1>1
  <2> QED  BY <1>1, <1>2, <1>5, <2>1 DEF WalkPhases
<1>8. NoticeAge' /\ StepsInOrder'
  BY <1>1 DEF WalkInv, NoticeAge, StepsInOrder
<1>9. StepsPaired'
  BY <1>1 DEF WalkInv, StepsPaired, AttemptNoticed, NoticeUsed
<1>10. BudgetSpent'
  BY <1>1 DEF WalkInv, BudgetSpent, AttemptsIn
<1> QED  BY <1>6, <1>7, <1>8, <1>9, <1>10 DEF WalkInv

LEMMA WalkStopKeepsWalk ==
  ASSUME TableInv, WalkInv, WalkStop
  PROVE  WalkInv'
<1>1. /\ UNCHANGED <<inputs, unsolved, values, actions, state, steps, pendingNotify,
                     immediateStop>>
      /\ walk = "walking" /\ walk' = "done"
      /\ state.slot = NSlots \/ Planned = "STOP_AND_ESCALATE"
  BY DEF WalkStop
<1>2. unsolved = 0 /\ WalkTypes
  BY <1>1 DEF WalkInv, WalkPhases
<1> DEFINE standing == values[state.slot][state.budget, state.notice]
<1>3. ~(standing > inputs.manual)
  <2>1. inputs \in PlanningInputs
    BY DEF TableInv, TableTypes
  <2>2. inputs.manual \in Int /\ inputs.manualLate \in Int
    BY <2>1, InputsTyped
  <2>3. CASE state.slot = NSlots
    <3>1. standing = inputs.manualLate
      BY <1>2, <2>3 DEF TableInv, TableTypes, WalkTypes
    <3>2. inputs.manualLate <= inputs.manual
      BY <2>1, SchedulesAssumption
    <3> HIDE DEF standing
    <3> QED  BY <2>2, <3>1, <3>2
  <2>4. CASE state.slot # NSlots
    <3>1. state.slot < NSlots
      BY <1>2, <2>4, PlannerAssumption DEF WalkTypes
    <3>2. standing = Worth(state.slot, state.budget, state.notice, Planned)
      BY <1>2, <3>1, EntryOfTheWalk
    <3> HIDE DEF standing
    <3>3. standing = inputs.manual
      BY <1>1, <2>4, <3>2 DEF Worth
    <3> QED  BY <2>2, <3>3
  <2> QED  BY <2>3, <2>4
<1>4. pendingNotify = 0 /\ steps # <<>>
  BY <1>1, <1>3 DEF WalkInv, WalkPhases
<1>5. WalkTypes' /\ WalkPhases'
  BY <1>1, <1>2, <1>4 DEF WalkTypes, WalkPhases
<1>6. NoticeAge' /\ StepsInOrder'
  BY <1>1 DEF WalkInv, NoticeAge, StepsInOrder
<1>7. StepsPaired'
  BY <1>1 DEF WalkInv, StepsPaired, AttemptNoticed, NoticeUsed
<1>8. BudgetSpent'
  BY <1>1 DEF WalkInv, BudgetSpent, AttemptsIn
<1> QED  BY <1>5, <1>6, <1>7, <1>8 DEF WalkInv

\* A round of the walk follows a good decision of a solved slot.
LEMMA WalkingFollowsTable ==
  ASSUME TableInv, WalkInv, NEW a, Walking(a)
  PROVE  /\ unsolved = 0 /\ walk = "walking" /\ walk' = "walking"
         /\ UNCHANGED <<inputs, unsolved, values, actions>>
         /\ state.slot \in Slots /\ state.slot \in Nat /\ state.slot + 1 \in 0 .. NSlots
         /\ state.budget \in Budgets /\ state.notice \in NoticeStates
         /\ GoodDecision(state.slot, state.budget, state.notice, a)
         /\ values[state.slot][state.budget, state.notice]
              = Worth(state.slot, state.budget, state.notice, a)
<1>1. unsolved = 0 /\ WalkTypes
  BY DEF Walking, WalkInv, WalkPhases
<1>2. state.slot \in 0 .. NSlots /\ state.slot < NSlots
  BY <1>1 DEF WalkTypes, Walking
<1>3. state.slot \in Nat /\ state.slot + 1 \in 0 .. NSlots
  BY <1>2, PlannerAssumption
<1>4. /\ walk = "walking" /\ Planned = a
      /\ UNCHANGED <<inputs, unsolved, values, actions, walk>>
  BY DEF Walking
<1>5. state.budget \in Budgets /\ state.notice \in NoticeStates
  BY <1>1 DEF WalkTypes
<1>6. /\ state.slot \in Slots
      /\ GoodDecision(state.slot, state.budget, state.notice, Planned)
      /\ values[state.slot][state.budget, state.notice]
           = Worth(state.slot, state.budget, state.notice, Planned)
  BY <1>1, <1>2, EntryOfTheWalk
<1> QED  BY <1>1, <1>3, <1>4, <1>5, <1>6

LEMMA WalkIdleKeepsWalk ==
  ASSUME TableInv, WalkInv, WalkIdle
  PROVE  WalkInv'
<1> DEFINE t == state.slot  b == state.budget  n == state.notice
           n1 == AdvanceNotice(n, FALSE)
<1>1. /\ t \in Nat /\ t + 1 \in 0 .. NSlots /\ b \in Budgets /\ n \in NoticeStates
      /\ unsolved' = 0 /\ walk' = "walking"
      /\ UNCHANGED <<inputs, values, steps, pendingNotify>>
      /\ state' = [slot |-> t + 1, budget |-> b, notice |-> n1]
      /\ GoodDecision(t, b, n, "IDLE")
  BY WalkingFollowsTable DEF WalkIdle, NextState
<1>2. values[t + 1][b, n1] > inputs.manual
  BY <1>1 DEF GoodDecision, Worth
<1>3. n1 \in NoticeStates /\ (n1 = NoNotice <=> n = NoNotice)
  BY <1>1, NoticeAdvances
<1>4. n # NoNotice => n1 >= n - 1 /\ n \in Int /\ n1 \in Int
  BY <1>1, PlannerAssumption DEF AdvanceNotice, NoticeStates, NoNotice, NoticeReady
<1>5. /\ WalkTypes /\ WalkPhases /\ NoticeAge
      /\ StepsInOrder /\ StepsPaired /\ BudgetSpent
  BY DEF WalkInv
<1> HIDE DEF n1
<1>6. state'.slot = t + 1 /\ state'.budget = b /\ state'.notice = n1
  BY <1>1
<1>7. WalkTypes'
  BY <1>1, <1>3, <1>5 DEF WalkTypes
<1>8. WalkPhases'
  BY <1>1, <1>2, <1>6 DEF WalkPhases
<1>9. NoticeAge'
  <2>1. CASE pendingNotify = 0
    BY <1>1, <1>3, <1>5, <1>6, <2>1 DEF NoticeAge
  <2>2. CASE pendingNotify # 0
    <3>1. PICK k \in 0 .. t - 1 : /\ steps[pendingNotify].at = SlotHour(k)
                                  /\ t - k + n >= NoticeLead + 1
      BY <1>5, <2>2 DEF NoticeAge
    <3>2. n # NoNotice /\ steps[pendingNotify].type = "notify"
      BY <1>5, <2>2 DEF NoticeAge
    <3>3. k \in 0 .. t /\ (t + 1) - k + n1 >= NoticeLead + 1
      BY <1>1, <1>4, <3>1, <3>2, PlannerAssumption
    <3>4. 0 .. t = 0 .. (t + 1) - 1
      BY <1>1
    <3> HIDE DEF t, b, n
    <3> QED  BY <1>1, <1>3, <1>6, <2>2, <3>1, <3>2, <3>3, <3>4 DEF NoticeAge
  <2> QED  BY <2>1, <2>2
<1>10. StepsInOrder'
  <2>1. 0 .. t - 1 \subseteq 0 .. (t + 1) - 1
    BY <1>1
  <2> QED  BY <1>1, <1>5, <1>6, <2>1 DEF StepsInOrder
<1>11. StepsPaired'
  BY <1>1, <1>5 DEF StepsPaired, AttemptNoticed, NoticeUsed
<1>12. BudgetSpent'
  BY <1>1, <1>5, <1>6 DEF BudgetSpent, AttemptsIn
<1> QED  BY <1>7, <1>8, <1>9, <1>10, <1>11, <1>12 DEF WalkInv

LEMMA WalkNotifyKeepsWalk ==
  ASSUME TableInv, WalkInv, WalkNotify
  PROVE  WalkInv'
<1> DEFINE t == state.slot  b == state.budget  n == state.notice
           e == NotifyStep(SlotHour(t), NoDebit)
           last == Len(steps) + 1
<1>1. /\ t \in Nat /\ t + 1 \in 0 .. NSlots /\ b \in Budgets /\ n \in NoticeStates
      /\ unsolved' = 0 /\ walk' = "walking"
      /\ UNCHANGED <<inputs, values>>
      /\ steps' = Append(steps, e)
      /\ state' = [slot |-> t + 1, budget |-> b, notice |-> NoticeLead]
      /\ GoodDecision(t, b, n, "NOTIFY")
  BY WalkingFollowsTable, NoticeAdvances DEF WalkNotify, NextState
<1>2. /\ WalkTypes /\ WalkPhases /\ NoticeAge
      /\ StepsInOrder /\ StepsPaired /\ BudgetSpent
  BY DEF WalkInv
<1>3. /\ steps' \in Seq(Step) /\ Len(steps') = last /\ Len(steps) \in Nat
      /\ \A i \in 1 .. Len(steps) : steps'[i] = steps[i]
      /\ steps'[last] = e
      /\ steps \in Seq(Step) /\ DOMAIN steps = 1 .. Len(steps)
      /\ DOMAIN steps' = 1 .. last
  <2>1. e \in Step
    <3>1. SlotHour(t) \in Nat
      BY <1>1, SlotHours
    <3>2. SlotHour(t) \in Int /\ NoDebit \in Int
      BY <3>1 DEF NoDebit
    <3> QED  BY <3>2 DEF Step, NotifyStep
  <2>2. steps \in Seq(Step)
    BY <1>2 DEF WalkTypes
  <2> QED  BY <1>1, <2>1, <2>2, AppendProperties, LenProperties
<1>4. pendingNotify' = last
  BY <1>3 DEF WalkNotify, LastStep
<1>5. pendingNotify = 0
  BY <1>1, <1>2, CandidatesTyped DEF GoodDecision, NoticeAge
<1>6. e.type = "notify" /\ e.at = SlotHour(t)
  BY DEF NotifyStep
<1> HIDE DEF e
<1>7. state'.slot = t + 1 /\ state'.budget = b /\ state'.notice = NoticeLead
  BY <1>1
<1>8. values[t + 1][b, NoticeLead] > inputs.manual
  <2> DEFINE v == values[t + 1][b, NoticeLead]
  <2>1. v - NotifyCost > inputs.manual
    BY <1>1, NoticeAdvances DEF GoodDecision, Worth
  <2>2. NoticeLead \in NoticeStates
    BY PlannerAssumption DEF NoticeStates, NoNotice
  <2>3. v \in Int
    BY <1>1, <2>2, ValueTyped DEF TableInv
  <2>4. inputs.manual \in Int
    BY InputsTyped DEF TableInv, TableTypes
  <2> HIDE DEF v
  <2>5. v > inputs.manual
    BY <2>1, <2>3, <2>4, CostsTyped
  <2> QED  BY <2>5 DEF v
<1>9. WalkTypes'
  <2>1. NoticeLead \in NoticeStates
    BY PlannerAssumption DEF NoticeStates, NoNotice
  <2>2. pendingNotify' \in 0 .. Len(steps')
    BY <1>3, <1>4
  <2> QED  BY <1>1, <1>3, <2>1, <2>2 DEF WalkTypes
<1>10. WalkPhases'
  BY <1>1, <1>7, <1>8 DEF WalkPhases
<1>11. NoticeAge'
  <2>1. NoticeLead # NoNotice /\ last # 0
    BY <1>3, PlannerAssumption DEF NoNotice
  <2>2. t \in 0 .. (t + 1) - 1 /\ (t + 1) - t + NoticeLead >= NoticeLead + 1
    BY <1>1, PlannerAssumption
  <2> HIDE DEF t, b, n, last
  <2> QED  BY <1>3, <1>4, <1>6, <1>7, <2>1, <2>2 DEF NoticeAge
<1>12. StepsInOrder'
  <2>1. ASSUME NEW i \in DOMAIN steps'
        PROVE  \E k \in 0 .. t : steps'[i].at = SlotHour(k)
    <3>1. CASE i = last
      BY <1>1, <1>3, <1>6, <3>1
    <3>2. CASE i # last
      <4>1. i \in DOMAIN steps /\ steps'[i] = steps[i]
        BY <1>3, <2>1, <3>2
      <4>2. PICK k \in 0 .. t - 1 : steps[i].at = SlotHour(k)
        BY <1>2, <4>1 DEF StepsInOrder
      <4> QED  BY <1>1, <4>1, <4>2
    <3> QED  BY <3>1, <3>2
  <2>2. ASSUME NEW i \in DOMAIN steps', NEW j \in DOMAIN steps', i < j
        PROVE  steps'[i].at < steps'[j].at
    <3>1. i \in DOMAIN steps /\ steps'[i] = steps[i]
      BY <1>3, <2>2
    <3>2. CASE j = last
      <4>1. PICK k \in 0 .. t - 1 : steps[i].at = SlotHour(k)
        BY <1>2, <3>1 DEF StepsInOrder
      <4>2. SlotHour(k) < SlotHour(t)
        BY <1>1, HoursBetween
      <4> QED  BY <1>3, <1>6, <3>1, <3>2, <4>1, <4>2
    <3>3. CASE j # last
      <4>1. j \in DOMAIN steps /\ steps'[j] = steps[j]
        BY <1>3, <2>2, <3>3
      <4> QED  BY <1>2, <2>2, <3>1, <4>1 DEF StepsInOrder
    <3> QED  BY <3>2, <3>3
  <2>3. 0 .. t = 0 .. (t + 1) - 1
    BY <1>1
  <2> HIDE DEF t
  <2> QED  BY <1>7, <2>1, <2>2, <2>3 DEF StepsInOrder
<1>13. StepsPaired'
  <2> SUFFICES ASSUME NEW i \in DOMAIN steps'
               PROVE  /\ steps'[i].type = "attempt" => AttemptNoticed(i)'
                      /\ steps'[i].type = "notify" /\ i # pendingNotify' => NoticeUsed(i)'
    BY DEF StepsPaired
  <2>1. CASE i = last
    BY <1>3, <1>4, <1>6, <2>1
  <2>2. CASE i # last
    <3>1. i \in DOMAIN steps /\ steps'[i] = steps[i] /\ i # pendingNotify
      BY <1>3, <1>5, <2>2
    <3>2. ASSUME steps[i].type = "attempt" PROVE AttemptNoticed(i)'
      <4>1. PICK j \in 1 .. i - 1 : /\ steps[j].type = "notify"
                                    /\ steps[j].covers = steps[i].at
                                    /\ steps[j].at + NoticeMin <= steps[i].at
        BY <1>2, <3>1, <3>2 DEF StepsPaired, AttemptNoticed
      <4>2. steps'[j] = steps[j] /\ j # last
        BY <1>3, <3>1
      <4>3. InPermittedWindow(steps[i].at)
        BY <1>2, <3>1, <3>2 DEF StepsPaired, AttemptNoticed
      <4> QED  BY <1>4, <3>1, <4>1, <4>2, <4>3 DEF AttemptNoticed
    <3>3. ASSUME steps[i].type = "notify" PROVE NoticeUsed(i)'
      <4>1. PICK j \in i + 1 .. Len(steps) : /\ steps[j].type = "attempt"
                                             /\ steps[j].at = steps[i].covers
        BY <1>2, <3>1, <3>3 DEF StepsPaired, NoticeUsed
      <4>2. steps'[j] = steps[j] /\ j \in i + 1 .. Len(steps')
        BY <1>3, <3>1
      <4> QED  BY <3>1, <4>1, <4>2 DEF NoticeUsed
    <3> QED  BY <3>1, <3>2, <3>3
  <2> QED  BY <2>1, <2>2
<1>14. BudgetSpent'
  <2>1. AttemptsIn(steps') = AttemptsIn(steps)
    <3>1. \A i \in 1 .. last : i = last \/ i \in 1 .. Len(steps)
      BY <1>3
    <3> HIDE DEF last
    <3>2. 1 .. Len(steps) \subseteq 1 .. last
      BY <1>3 DEF last
    <3> QED  BY <1>3, <1>6, <3>1, <3>2 DEF AttemptsIn
  <2> QED  BY <1>2, <1>7, <2>1 DEF BudgetSpent
<1> QED  BY <1>9, <1>10, <1>11, <1>12, <1>13, <1>14 DEF WalkInv

LEMMA WalkAttemptKeepsWalk ==
  ASSUME TableInv, WalkInv, WalkAttempt
  PROVE  WalkInv'
<1> DEFINE t == state.slot  b == state.budget  n == state.notice
           at == SlotHour(t)
           e == AttemptStep(at)
           Named(i) == IF i = pendingNotify THEN [steps[i] EXCEPT !.covers = at]
                                            ELSE steps[i]
           named == [i \in DOMAIN steps |-> Named(i)]
           last == Len(steps) + 1
<1>1. /\ t \in Nat /\ t + 1 \in 0 .. NSlots /\ b \in Budgets /\ n \in NoticeStates
      /\ unsolved' = 0 /\ walk' = "walking"
      /\ UNCHANGED <<inputs, values>>
      /\ steps' = Append(named, e)
      /\ pendingNotify' = 0
      /\ state' = [slot |-> t + 1, budget |-> b - 1, notice |-> NoNotice]
      /\ GoodDecision(t, b, n, "ATTEMPT")
  BY WalkingFollowsTable DEF WalkAttempt, NextState, NoticeConsumed
<1>2. /\ WalkTypes /\ WalkPhases /\ NoticeAge
      /\ StepsInOrder /\ StepsPaired /\ BudgetSpent
  BY DEF WalkInv
<1>3. b > 0 /\ n = NoticeReady
  BY <1>1, CandidatesTyped DEF GoodDecision
<1>4. /\ pendingNotify \in 1 .. Len(steps) /\ steps[pendingNotify].type = "notify"
      /\ \E k \in 0 .. t - 1 : /\ steps[pendingNotify].at = SlotHour(k)
                               /\ t - k >= NoticeLead + 1
  <2>1. n # NoNotice
    BY <1>3 DEF NoNotice, NoticeReady
  <2>2. pendingNotify # 0 /\ pendingNotify \in 0 .. Len(steps) /\ Len(steps) \in Nat
    BY <1>2, <2>1, LenProperties DEF NoticeAge, WalkTypes
  <2>3. PICK k \in 0 .. t - 1 : /\ steps[pendingNotify].at = SlotHour(k)
                                /\ t - k + n >= NoticeLead + 1
    BY <1>2, <2>2 DEF NoticeAge
  <2>4. t - k >= NoticeLead + 1
    BY <1>1, <1>3, <2>3 DEF NoticeReady
  <2> QED  BY <1>2, <2>2, <2>3, <2>4 DEF NoticeAge
<1>5. at \in Nat /\ at \in Int /\ InPermittedWindow(at)
  <2>1. at \in Nat /\ InPermittedWindow(at)
    BY <1>1, SlotHours, SlotsPermitted
  <2> QED  BY <2>1
<1>6. /\ steps \in Seq(Step) /\ Len(steps) \in Nat /\ DOMAIN steps = 1 .. Len(steps)
      /\ \A i \in 1 .. Len(steps) : steps[i] \in Step
  <2>1. steps \in Seq(Step)
    BY <1>2 DEF WalkTypes
  <2> QED  BY <2>1, LenProperties, ElementOfSeq
<1> HIDE DEF at
<1>7. ASSUME NEW i \in 1 .. Len(steps)
      PROVE  /\ Named(i) \in Step
             /\ Named(i).type = steps[i].type /\ Named(i).at = steps[i].at
             /\ i # pendingNotify => Named(i) = steps[i]
             /\ i = pendingNotify => Named(i).covers = at
  BY <1>5, <1>6 DEF Step
<1> HIDE DEF Named
<1>8. named \in Seq(Step) /\ Len(named) = Len(steps)
  <2>1. named \in [1 .. Len(steps) -> Step]
    BY <1>6, <1>7
  <2> HIDE DEF named
  <2> QED  BY <1>6, <2>1, SeqDef
<1>9. \A i \in 1 .. Len(steps) : named[i] = Named(i)
  BY <1>6
<1>10. e \in Step /\ e.type = "attempt" /\ e.at = at
  BY <1>5 DEF Step, AttemptStep, NoDebit
<1> HIDE DEF named, e
<1>11. /\ steps' \in Seq(Step) /\ Len(steps') = last
       /\ \A i \in 1 .. Len(steps) : steps'[i] = Named(i)
       /\ steps'[last] = e
       /\ DOMAIN steps' = 1 .. last
  BY <1>1, <1>8, <1>9, <1>10, AppendProperties, LenProperties
<1>12. \A i \in 1 .. Len(steps) :
         /\ steps'[i].type = steps[i].type /\ steps'[i].at = steps[i].at
         /\ i # pendingNotify => steps'[i] = steps[i]
         /\ i = pendingNotify => steps'[i].covers = at
  BY <1>7, <1>11
<1>13. state'.slot = t + 1 /\ state'.budget = b - 1 /\ state'.notice = NoNotice
  BY <1>1
<1>14. \A i \in 1 .. Len(steps) : steps[i].at < at
  <2> SUFFICES ASSUME NEW i \in 1 .. Len(steps) PROVE steps[i].at < at
    OBVIOUS
  <2>1. PICK k \in 0 .. t - 1 : steps[i].at = SlotHour(k)
    BY <1>2, <1>6 DEF StepsInOrder
  <2>2. k \in Nat /\ k < t
    BY <1>1, <2>1
  <2>3. SlotHour(k) < SlotHour(t)
    BY <1>1, <2>2, HoursBetween
  <2> QED  BY <2>1, <2>3 DEF at
<1>15. WalkTypes'
  <2>1. NoNotice \in NoticeStates
    BY PlannerAssumption DEF NoticeStates, NoNotice
  <2>2. b - 1 \in Budgets
    BY <1>1, <1>3, PolicyAssumption DEF Budgets
  <2>3. 0 \in 0 .. Len(steps')
    BY <1>6, <1>11
  <2> QED  BY <1>1, <1>11, <2>1, <2>2, <2>3 DEF WalkTypes
<1>16. WalkPhases'
  <2>1. steps' # <<>>
    BY <1>6, <1>11
  <2> QED  BY <1>1, <2>1 DEF WalkPhases
<1>17. NoticeAge'
  BY <1>1, <1>13 DEF NoticeAge
<1>18. StepsInOrder'
  <2>1. ASSUME NEW i \in DOMAIN steps'
        PROVE  \E k \in 0 .. t : steps'[i].at = SlotHour(k)
    <3>1. CASE i = last
      BY <1>1, <1>10, <1>11, <3>1 DEF at
    <3>2. CASE i # last
      <4>1. i \in 1 .. Len(steps)
        BY <1>6, <1>11, <3>2
      <4>2. PICK k \in 0 .. t - 1 : steps[i].at = SlotHour(k)
        BY <1>2, <1>6, <4>1 DEF StepsInOrder
      <4> QED  BY <1>1, <1>12, <4>1, <4>2
    <3> QED  BY <3>1, <3>2
  <2>2. ASSUME NEW i \in DOMAIN steps', NEW j \in DOMAIN steps', i < j
        PROVE  steps'[i].at < steps'[j].at
    <3>1. i \in 1 .. Len(steps)
      BY <1>6, <1>11, <2>2
    <3>2. CASE j = last
      BY <1>10, <1>11, <1>12, <1>14, <3>1, <3>2
    <3>3. CASE j # last
      <4>1. j \in 1 .. Len(steps)
        BY <1>6, <1>11, <3>3
      <4> QED  BY <1>2, <1>6, <1>12, <2>2, <3>1, <4>1 DEF StepsInOrder
    <3> QED  BY <3>2, <3>3
  <2>3. 0 .. t = 0 .. (t + 1) - 1
    BY <1>1
  <2> HIDE DEF t
  <2> QED  BY <1>13, <2>1, <2>2, <2>3 DEF StepsInOrder
<1>19. StepsPaired'
  <2> SUFFICES ASSUME NEW i \in DOMAIN steps'
               PROVE  /\ steps'[i].type = "attempt" => AttemptNoticed(i)'
                      /\ steps'[i].type = "notify" => NoticeUsed(i)'
    BY DEF StepsPaired
  <2>1. CASE i = last
    <3>1. PICK k \in 0 .. t - 1 : /\ steps[pendingNotify].at = SlotHour(k)
                                  /\ t - k >= NoticeLead + 1
      BY <1>4
    <3>2. SlotHour(k) + NoticeMin <= at
      <4>1. k \in Nat /\ k < t /\ t - k \in Nat /\ NoticeLead \in Nat
        BY <1>1, <3>1, PlannerAssumption
      <4>2. 24 * ((t - k) \div 2) <= at - SlotHour(k)
        BY <1>1, <4>1, HoursBetween DEF at
      <4>3. NoticeLead \div 2 <= (t - k) \div 2
        BY <3>1, <4>1
      <4>4. NoticeMin <= 24 * (NoticeLead \div 2) /\ NoticeMin \in Nat
        BY SchedulesAssumption, PolicyAssumption
      <4>5. SlotHour(k) \in Nat
        BY <4>1, SlotHours
      <4> QED  BY <1>5, <3>1, <4>1, <4>2, <4>3, <4>4, <4>5
    <3>3. /\ pendingNotify \in 1 .. i - 1 /\ pendingNotify # 0
          /\ steps'[pendingNotify].type = "notify"
          /\ steps'[pendingNotify].covers = steps'[i].at
          /\ steps'[pendingNotify].at + NoticeMin <= steps'[i].at
      BY <1>4, <1>6, <1>10, <1>11, <1>12, <2>1, <3>1, <3>2
    <3>4. AttemptNoticed(i)'
      BY <1>1, <1>5, <1>10, <1>11, <2>1, <3>3 DEF AttemptNoticed
    <3> QED  BY <1>10, <1>11, <2>1, <3>4
  <2>2. CASE i # last
    <3>1. i \in 1 .. Len(steps) /\ i \in DOMAIN steps
      BY <1>6, <1>11, <2>2
    <3>2. ASSUME steps[i].type = "attempt" PROVE AttemptNoticed(i)'
      <4>1. PICK j \in 1 .. i - 1 : /\ j # pendingNotify
                                    /\ steps[j].type = "notify"
                                    /\ steps[j].covers = steps[i].at
                                    /\ steps[j].at + NoticeMin <= steps[i].at
        BY <1>2, <3>1, <3>2 DEF StepsPaired, AttemptNoticed
      <4>2. j \in 1 .. Len(steps) /\ j # 0
        BY <1>6, <3>1
      <4>3. InPermittedWindow(steps[i].at)
        BY <1>2, <3>1, <3>2 DEF StepsPaired, AttemptNoticed
      <4>4. /\ steps'[j] = steps[j] /\ steps'[i].at = steps[i].at
        BY <1>12, <3>1, <4>1, <4>2
      <4> QED  BY <1>1, <4>1, <4>2, <4>3, <4>4 DEF AttemptNoticed
    <3>3. ASSUME steps[i].type = "notify" PROVE NoticeUsed(i)'
      <4>1. CASE i = pendingNotify
        <5>1. last \in i + 1 .. Len(steps') /\ steps'[i].covers = at
          BY <1>6, <1>11, <1>12, <3>1, <4>1
        <5> HIDE DEF last
        <5> QED  BY <1>10, <1>11, <5>1 DEF NoticeUsed
      <4>2. CASE i # pendingNotify
        <5>1. PICK j \in i + 1 .. Len(steps) : /\ steps[j].type = "attempt"
                                               /\ steps[j].at = steps[i].covers
          BY <1>2, <3>1, <3>3, <4>2 DEF StepsPaired, NoticeUsed
        <5>2. j \in 1 .. Len(steps) /\ j \in i + 1 .. Len(steps')
          BY <1>6, <1>11, <3>1
        <5>3. /\ steps'[j].type = "attempt" /\ steps'[j].at = steps[j].at
              /\ steps'[i] = steps[i]
          BY <1>12, <3>1, <4>2, <5>1, <5>2
        <5> QED  BY <5>1, <5>2, <5>3 DEF NoticeUsed
      <4> QED  BY <4>1, <4>2
    <3> QED  BY <1>12, <3>1, <3>2, <3>3
  <2> QED  BY <2>1, <2>2
<1>20. BudgetSpent'
  <2>1. AttemptsIn(steps') = AttemptsIn(steps) \cup {last}
    <3>1. 1 .. last = (1 .. Len(steps)) \cup {last}
      BY <1>6
    <3> HIDE DEF last
    <3> QED  BY <1>10, <1>11, <1>12, <3>1 DEF AttemptsIn
  <2>2. last \notin AttemptsIn(steps)
    BY <1>6 DEF AttemptsIn
  <2>3. IsFiniteSet(AttemptsIn(steps))
    <3>1. IsFiniteSet(1 .. Len(steps))
      BY <1>6, FS_Interval
    <3>2. AttemptsIn(steps) \in SUBSET (1 .. Len(steps))
      BY DEF AttemptsIn
    <3> QED  BY <3>1, <3>2, FS_Subset
  <2>4. Cardinality(AttemptsIn(steps')) = Cardinality(AttemptsIn(steps)) + 1
    BY <2>1, <2>2, <2>3, FS_AddElement
  <2>5. Cardinality(AttemptsIn(steps)) = AttemptsRemaining - b
    BY <1>2 DEF BudgetSpent
  <2>6. AttemptsRemaining \in Int /\ b \in Int
    BY <1>1, PlannerAssumption, PolicyAssumption DEF Budgets
  <2>7. Cardinality(AttemptsIn(steps')) = AttemptsRemaining - (b - 1)
    BY <2>4, <2>5, <2>6
  <2> QED  BY <1>13, <2>7 DEF BudgetSpent
<1> QED  BY <1>15, <1>16, <1>17, <1>18, <1>19, <1>20 DEF WalkInv

LEMMA WalkNext ==
  ASSUME TableInv, WalkInv, [Next]_vars
  PROVE  WalkInv'
<1>1. CASE SolveSlot
  BY <1>1, SolveSlotKeepsWalk
<1>2. CASE BeginWalk
  BY <1>2, BeginWalkKeepsWalk
<1>3. CASE WalkIdle
  BY <1>3, WalkIdleKeepsWalk
<1>4. CASE WalkNotify
  BY <1>4, WalkNotifyKeepsWalk
<1>5. CASE WalkAttempt
  BY <1>5, WalkAttemptKeepsWalk
<1>6. CASE WalkStop
  BY <1>6, WalkStopKeepsWalk
<1>7. CASE UNCHANGED mreVars
  <2>1. UNCHANGED <<inputs, unsolved, values, walk, state, steps, pendingNotify,
                    immediateStop>>
    BY <1>7 DEF mreVars
  <2>2. WalkTypes' /\ WalkPhases'
    BY <2>1 DEF WalkInv, WalkTypes, WalkPhases
  <2>3. NoticeAge' /\ StepsInOrder'
    BY <2>1 DEF WalkInv, NoticeAge, StepsInOrder
  <2>4. StepsPaired'
    BY <2>1 DEF WalkInv, StepsPaired, AttemptNoticed, NoticeUsed
  <2>5. BudgetSpent'
    BY <2>1 DEF WalkInv, BudgetSpent, AttemptsIn
  <2> QED  BY <2>2, <2>3, <2>4, <2>5 DEF WalkInv
<1>8. \/ SolveSlot \/ BeginWalk \/ WalkIdle \/ WalkNotify \/ WalkAttempt \/ WalkStop
      \/ UNCHANGED mreVars
  BY DEF Next, PlannerNext, vars, GreedyAttempt, GreedyStop
<1> QED  BY <1>1, <1>2, <1>3, <1>4, <1>5, <1>6, <1>7, <1>8

\* The solved table and the walk over it, in every reachable state.
THEOREM PlanInvHolds == Spec => [](TableInv /\ WalkInv)
<1>1. Init => TableInv /\ WalkInv
  BY TableInit, WalkInit DEF Init
<1>2. TableInv /\ WalkInv /\ [Next]_vars => (TableInv /\ WalkInv)'
  BY TableNext, WalkNext
<1> QED  BY <1>1, <1>2, PTL DEF Spec

\* The tables, the walk and its steps keep their types: the walk never leaves
\* the table, however its budget and its notice state develop.
THEOREM PlanTyped == Spec => []PlanTypeOK
<1>1. TableInv /\ WalkInv => PlanTypeOK
  <2> SUFFICES ASSUME TableInv, WalkInv PROVE PlanTypeOK
    OBVIOUS
  <2>1. \A i \in DOMAIN steps : steps[i].type \in {"notify", "attempt"}
    <3>1. steps \in Seq(Step)
      BY DEF WalkInv, WalkTypes
    <3>2. DOMAIN steps = 1 .. Len(steps) /\ \A i \in 1 .. Len(steps) : steps[i] \in Step
      BY <3>1, LenProperties, ElementOfSeq
    <3> QED  BY <3>2 DEF Step
  <2> QED  BY <2>1 DEF TableInv, TableTypes, WalkInv, WalkTypes, PlanTypeOK
<1> QED  BY <1>1, PlanInvHolds, PTL

\* Two slots to a day: of two steps on one day, the later is in its second slot.
LEMMA SecondSlotOfTheDay ==
  ASSUME NEW t \in Nat, NEW u \in Nat, SlotHour(t) < SlotHour(u),
         Day(SlotHour(t)) = Day(SlotHour(u))
  PROVE  u = t + 1 /\ t % 2 = 0
<1>1. Day(SlotHour(t)) = t \div 2 /\ Day(SlotHour(u)) = u \div 2
  BY SchedulesAssumption DEF SlotHour, Day
<1>2. t \div 2 = u \div 2
  BY <1>1
<1>3. t < u
  <2>1. SlotHour(t) \in Nat /\ SlotHour(u) \in Nat
    BY SlotHours
  <2>2. u < t => SlotHour(u) < SlotHour(t)
    BY HoursBetween
  <2>3. t # u /\ ~(u < t)
    BY <2>1, <2>2
  <2> QED  BY <2>3
<1> QED  BY <1>2, <1>3

\* A notice of the walk is at most the second contact of its day.
LEMMA NoticePassesGate ==
  ASSUME WalkTypes, StepsInOrder,
         NEW i \in DOMAIN steps, steps[i].type = "notify"
  PROVE  GateAllows(steps, i)
<1> DEFINE today == {n \in NoticesBefore(steps, i) : Day(n.sent) = Day(steps[i].at)}
<1>1. /\ steps \in Seq(Step) /\ Len(steps) \in Nat /\ DOMAIN steps = 1 .. Len(steps)
      /\ state.slot \in Nat /\ i \in 1 .. Len(steps)
  BY LenProperties, PlannerAssumption DEF WalkTypes
<1>2. ASSUME NEW h \in 1 .. Len(steps)
      PROVE  \E t \in Nat : steps[h].at = SlotHour(t)
  BY <1>1 DEF StepsInOrder
<1>3. PICK t \in Nat : steps[i].at = SlotHour(t)
  BY <1>1, <1>2
<1>4. \A n \in today : n \in NoticesBefore(steps, i) /\ Day(n.sent) = Day(steps[i].at)
  OBVIOUS
<1>5. ASSUME NEW h \in 1 .. i - 1, Day(steps[h].at) = Day(steps[i].at)
      PROVE  steps[h].at = SlotHour(t - 1)
  <2>1. h \in 1 .. Len(steps) /\ h < i
    BY <1>1
  <2>2. PICK u \in Nat : steps[h].at = SlotHour(u)
    BY <1>2, <2>1
  <2>3. SlotHour(u) < SlotHour(t)
    BY <1>1, <1>3, <2>1, <2>2 DEF StepsInOrder
  <2>4. t = u + 1
    BY <1>3, <1>5, <2>2, <2>3, SecondSlotOfTheDay
  <2> QED  BY <2>2, <2>4
<1>6. ASSUME NEW g \in 1 .. i - 1, NEW h \in 1 .. i - 1,
             steps[g].at = SlotHour(t - 1), steps[h].at = SlotHour(t - 1)
      PROVE  g = h
  <2>1. g \in 1 .. Len(steps) /\ h \in 1 .. Len(steps)
    BY <1>1
  <2>2. PICK u \in Nat : steps[g].at = SlotHour(u)
    BY <1>2, <2>1
  <2>3. steps[g].at \in Nat /\ steps[g].at = steps[h].at
    BY <1>6, <2>2, SlotHours
  <2>4. ~(g < h) /\ ~(h < g)
    <3>1. g \in DOMAIN steps /\ h \in DOMAIN steps
      BY <1>1, <2>1
    <3> QED  BY <2>3, <3>1 DEF StepsInOrder
  <2> QED  BY <2>4
<1>7. ASSUME NEW m \in today, NEW n \in today PROVE m = n
  <2>1. PICK g \in 1 .. i - 1 : m = [sent |-> steps[g].at, covers |-> steps[g].covers]
    BY <1>4 DEF NoticesBefore
  <2>2. PICK h \in 1 .. i - 1 : n = [sent |-> steps[h].at, covers |-> steps[h].covers]
    BY <1>4 DEF NoticesBefore
  <2>3. Day(steps[g].at) = Day(steps[i].at) /\ Day(steps[h].at) = Day(steps[i].at)
    BY <1>4, <2>1, <2>2
  <2>4. g = h
    BY <1>5, <1>6, <2>3
  <2> QED  BY <2>1, <2>2, <2>4
<1> HIDE DEF today
<1>8. Cardinality(today) <= 1 /\ Cardinality(today) \in Nat
  <2>1. CASE today = {}
    BY <2>1, FS_EmptySet
  <2>2. CASE today # {}
    <3>1. PICK n : n \in today
      BY <2>2
    <3>2. \A m \in today : m = n
      BY <1>7, <3>1, Zenon
    <3>3. today = {n}
      BY <3>1, <3>2
    <3>4. Cardinality({n}) = 1
      BY FS_Singleton
    <3> QED  BY <3>3, <3>4
  <2> QED  BY <2>1, <2>2
<1>9. Cardinality(today) < ContactCap
  BY <1>8, SchedulesAssumption, PolicyAssumption
<1> QED
  BY <1>9 DEF GateAllows, NotifyAuthorized, CaseOpenForAction, today

\* The k-th attempt of the walk finds k - 1 attempts before it.
LEMMA AttemptsWithinBudget ==
  ASSUME WalkTypes, BudgetSpent,
         NEW i \in DOMAIN steps, steps[i].type = "attempt"
  PROVE  AttemptsBefore(steps, i) < MaxAttempts
<1> DEFINE earlier == {j \in 1 .. i - 1 : steps[j].type = "attempt"}
<1>1. /\ Len(steps) \in Nat /\ DOMAIN steps = 1 .. Len(steps) /\ i \in 1 .. Len(steps)
      /\ state.budget \in Nat
  BY LenProperties, PolicyAssumption DEF WalkTypes, Budgets
<1>2. i \notin earlier /\ earlier \cup {i} \subseteq AttemptsIn(steps)
  BY <1>1 DEF AttemptsIn
<1>3. IsFiniteSet(AttemptsIn(steps))
  <2>1. IsFiniteSet(1 .. Len(steps)) /\ AttemptsIn(steps) \in SUBSET (1 .. Len(steps))
    BY <1>1, FS_Interval DEF AttemptsIn
  <2> QED  BY <2>1, FS_Subset
<1> HIDE DEF earlier
<1>4. /\ IsFiniteSet(earlier \cup {i}) /\ IsFiniteSet(earlier)
      /\ Cardinality(earlier \cup {i}) <= Cardinality(AttemptsIn(steps))
  <2>1. earlier \in SUBSET AttemptsIn(steps)
    BY <1>2
  <2> QED  BY <1>2, <1>3, <2>1, FS_Subset
<1>5. /\ Cardinality(earlier \cup {i}) = Cardinality(earlier) + 1
      /\ Cardinality(earlier) \in Nat
  BY <1>2, <1>4, FS_AddElement, FS_CardinalityType
<1>6. /\ Cardinality(AttemptsIn(steps)) = AttemptsRemaining - state.budget
      /\ AttemptsRemaining \in Nat /\ MaxAttempts \in Nat /\ AttemptsRemaining < MaxAttempts
  BY PlannerAssumption, PolicyAssumption, SchedulesAssumption DEF BudgetSpent, Budgets
<1>7. AttemptsBefore(steps, i) = 1 + Cardinality(earlier)
  BY DEF AttemptsBefore, earlier
<1> QED  BY <1>1, <1>4, <1>5, <1>6, <1>7

\* An attempt of the walk passes the gate unless its notice has expired.
LEMMA AttemptPassesGate ==
  ASSUME WalkTypes, StepsInOrder, BudgetSpent,
         NEW i \in DOMAIN steps, steps[i].type = "attempt", AttemptNoticed(i)
  PROVE  GateAllows(steps, i) \/ NoticeExpired(steps, i)
<1> DEFINE at == steps[i].at
<1>1. PICK j \in 1 .. i - 1 : /\ steps[j].type = "notify" /\ steps[j].covers = at
                              /\ steps[j].at + NoticeMin <= at
  BY DEF AttemptNoticed
<1>2. InPermittedWindow(at)
  BY DEF AttemptNoticed
<1> DEFINE n == [sent |-> steps[j].at, covers |-> steps[j].covers]
<1>3. n \in NoticesBefore(steps, i) /\ n.sent = steps[j].at /\ n.covers = at
  BY <1>1 DEF NoticesBefore
<1>4. steps[j].at \in Nat /\ at \in Nat
  <2>1. /\ Len(steps) \in Nat /\ DOMAIN steps = 1 .. Len(steps)
        /\ state.slot \in Nat
    BY LenProperties, PlannerAssumption DEF WalkTypes
  <2>2. j \in DOMAIN steps
    BY <2>1
  <2>3. PICK t \in 0 .. state.slot - 1 : at = SlotHour(t)
    BY DEF StepsInOrder
  <2>4. PICK u \in 0 .. state.slot - 1 : steps[j].at = SlotHour(u)
    BY <2>2 DEF StepsInOrder
  <2>5. t \in Nat /\ u \in Nat
    BY <2>1
  <2> QED  BY <2>3, <2>4, <2>5, SlotHours
<1> HIDE DEF n, at
<1>5. CASE at - n.sent > NoticeMaxAge
  BY <1>3, <1>5 DEF NoticeExpired, at
<1>6. CASE ~(at - n.sent > NoticeMaxAge)
  <2>1. at - n.sent \in NoticeMin .. NoticeMaxAge
    BY <1>1, <1>3, <1>4, <1>6, PolicyAssumption
  <2>2. NoticeCoversDebit(NoticesBefore(steps, i), at)
    BY <1>3, <2>1 DEF NoticeCoversDebit
  <2>3. AttemptsBefore(steps, i) < MaxAttempts
    BY AttemptsWithinBudget
  <2>4. GateAllows(steps, i)
    BY <1>2, <2>2, <2>3 DEF GateAllows, AttemptAuthorized, CaseOpenForAction, at
  <2> QED  BY <2>4
<1> QED  BY <1>5, <1>6

\* compute_mre_schedule commits to steps in order of time, every notice followed
\* by its attempt, to no more attempts than are left, and to no step the gate
\* would deny for any reason but the age of the attempt's own notice.
THEOREM MrePlansSound == Spec => []MrePlanSound
<1>1. TableInv /\ WalkInv => MrePlanSound
  <2> SUFFICES ASSUME TableInv, WalkInv, walk = "done" PROVE MrePlanSound
    BY DEF MrePlanSound
  <2>1. /\ WalkTypes /\ WalkPhases /\ StepsInOrder /\ StepsPaired /\ BudgetSpent
    BY DEF WalkInv
  <2>2. /\ steps \in Seq(Step) /\ Len(steps) \in Nat /\ DOMAIN steps = 1 .. Len(steps)
    BY <2>1, LenProperties DEF WalkTypes
  <2>3. \A i \in DOMAIN steps : i # pendingNotify
    BY <2>1, <2>2 DEF WalkPhases
  <2>4. ASSUME NEW i \in DOMAIN steps
        PROVE  GateAllows(steps, i) \/ NoticeExpired(steps, i)
    <3>1. steps[i].type \in {"notify", "attempt"}
      <4>1. steps[i] \in Step
        BY <2>2, ElementOfSeq
      <4> QED  BY <4>1 DEF Step
    <3>2. steps[i].type = "attempt" => AttemptNoticed(i)
      BY <2>1 DEF StepsPaired
    <3> QED  BY <2>1, <3>1, <3>2, NoticePassesGate, AttemptPassesGate
  <2>5. \A i \in DOMAIN steps : steps[i].type = "notify" =>
          \E j \in i + 1 .. Len(steps) : /\ steps[j].type = "attempt"
                                         /\ steps[j].at = steps[i].covers
    BY <2>1, <2>3 DEF StepsPaired, NoticeUsed
  <2>6. AttemptsBefore(steps, Len(steps) + 1) - 1 <= AttemptsRemaining
    <3>1. {j \in 1 .. (Len(steps) + 1) - 1 : steps[j].type = "attempt"} = AttemptsIn(steps)
      BY <2>2 DEF AttemptsIn
    <3>2. AttemptsBefore(steps, Len(steps) + 1) = 1 + (AttemptsRemaining - state.budget)
      BY <2>1, <3>1 DEF AttemptsBefore, BudgetSpent
    <3>3. AttemptsRemaining \in Int /\ state.budget \in Nat
      BY <2>1, PlannerAssumption, PolicyAssumption DEF Budgets, WalkTypes
    <3> QED  BY <3>2, <3>3
  <2> QED  BY <2>1, <2>4, <2>5, <2>6 DEF MrePlanSound, StepsInOrder
<1> QED  BY <1>1, PlanInvHolds, PTL

\* A plan without steps is marked to escalate: the walk cannot run out of the
\* table, or meet a stop, before its first step.
THEOREM EmptyPlansEscalate == Spec => []EmptyPlanEscalates
<1>1. WalkInv => EmptyPlanEscalates
  BY DEF WalkInv, WalkPhases, EmptyPlanEscalates
<1> QED  BY <1>1, PlanInvHolds, PTL

------------------------------------------------------------------------------
(* The greedy and the fixed schedule at the gate *)

\* A plan of k notices, each directly followed by the attempt it covers.
IsPairedPlan(plan, k, noticeAt, attemptAt) ==
  /\ DOMAIN plan = 1 .. 2 * k
  /\ \A i \in 1 .. k : /\ plan[2 * i - 1] = NotifyStep(noticeAt[i], attemptAt[i])
                       /\ plan[2 * i] = AttemptStep(attemptAt[i])

\* Such a plan passes the gate if it is short enough, every attempt is in the
\* window, every notice has the right age and no two are sent on one day.
LEMMA PairedPlanPasses ==
  ASSUME NEW k \in Nat, k < MaxAttempts, NEW plan,
         NEW noticeAt \in [1 .. k -> Int], NEW attemptAt \in [1 .. k -> Int],
         IsPairedPlan(plan, k, noticeAt, attemptAt),
         \A i \in 1 .. k : /\ InPermittedWindow(attemptAt[i])
                           /\ attemptAt[i] - noticeAt[i] \in NoticeMin .. NoticeMaxAge,
         \A i, j \in 1 .. k : i < j => Day(noticeAt[i]) # Day(noticeAt[j])
  PROVE  PassesGate(plan)
<1>1. SUFFICES
        ASSUME NEW i \in DOMAIN plan,
               NEW s, s = [killed |-> FALSE, active |-> TRUE, optedOut |-> FALSE,
                           needsAFA |-> FALSE,
                           attempts |-> AttemptsBefore(plan, i),
                           notices |-> NoticesBefore(plan, i),
                           contactsToday |-> Cardinality({n \in NoticesBefore(plan, i) :
                                                   Day(n.sent) = Day(plan[i].at)})]
        PROVE  IF plan[i].type = "notify" THEN NotifyAuthorized(s)
                                          ELSE AttemptAuthorized(s, plan[i].at)
  BY DEF PassesGate, GateAllows
<1>2. i \in 1 .. 2 * k
  BY DEF IsPairedPlan
<1>3. CaseOpenForAction(s)
  BY <1>1 DEF CaseOpenForAction
<1>4. ASSUME NEW m \in 1 .. 2 * k
      PROVE  \E j \in 1 .. k :
               \/ m = 2 * j - 1 /\ plan[m] = NotifyStep(noticeAt[j], attemptAt[j])
               \/ m = 2 * j /\ plan[m] = AttemptStep(attemptAt[j])
  <2> DEFINE j == (m + 1) \div 2
  <2>1. j \in 1 .. k /\ (m = 2 * j - 1 \/ m = 2 * j)
    OBVIOUS
  <2> HIDE DEF j
  <2> QED  BY <2>1 DEF IsPairedPlan
<1>5. PICK j \in 1 .. k :
        \/ i = 2 * j - 1 /\ plan[i] = NotifyStep(noticeAt[j], attemptAt[j])
        \/ i = 2 * j /\ plan[i] = AttemptStep(attemptAt[j])
  BY <1>2, <1>4
<1>6. CASE i = 2 * j - 1
  <2>1. plan[i] = NotifyStep(noticeAt[j], attemptAt[j])
    BY <1>5, <1>6
  <2>2. plan[i].type = "notify" /\ plan[i].at = noticeAt[j]
    BY <2>1 DEF NotifyStep
  <2>3. {n \in NoticesBefore(plan, i) : Day(n.sent) = Day(plan[i].at)} = {}
    <3> SUFFICES ASSUME NEW n \in NoticesBefore(plan, i), Day(n.sent) = Day(plan[i].at)
                 PROVE  FALSE
      OBVIOUS
    <3>1. PICK m \in 1 .. i - 1 : plan[m].type = "notify" /\ n.sent = plan[m].at
      BY DEF NoticesBefore
    <3>2. m \in 1 .. 2 * k
      BY <1>2
    <3>3. PICK h \in 1 .. k :
            \/ m = 2 * h - 1 /\ plan[m] = NotifyStep(noticeAt[h], attemptAt[h])
            \/ m = 2 * h /\ plan[m] = AttemptStep(attemptAt[h])
      BY <1>4, <3>2
    <3>4. m = 2 * h - 1 /\ plan[m].at = noticeAt[h]
      BY <3>1, <3>3 DEF NotifyStep, AttemptStep
    <3>5. h < j
      BY <1>6, <3>1, <3>4
    <3> QED  BY <2>2, <3>1, <3>4, <3>5
  <2>4. s.contactsToday = 0
    BY <1>1, <2>3, FS_EmptySet
  <2> QED  BY <1>3, <2>2, <2>4, SchedulesAssumption, PolicyAssumption DEF NotifyAuthorized
<1>7. CASE i = 2 * j
  <2>1. plan[i] = AttemptStep(attemptAt[j])
    BY <1>5, <1>7
  <2>2. plan[i].type = "attempt" /\ plan[i].at = attemptAt[j]
    BY <2>1 DEF AttemptStep
  <2>3. NoticeCoversDebit(s.notices, attemptAt[j])
    <3> DEFINE n == [sent |-> noticeAt[j], covers |-> attemptAt[j]]
    <3>1. i - 1 \in 1 .. i - 1 /\ i - 1 = 2 * j - 1
      BY <1>7
    <3>2. plan[i - 1] = NotifyStep(noticeAt[j], attemptAt[j])
      BY <3>1 DEF IsPairedPlan
    <3>3. n \in NoticesBefore(plan, i)
      BY <3>1, <3>2 DEF NoticesBefore, NotifyStep
    <3>4. n \in s.notices
      BY <1>1, <3>3
    <3> QED  BY <3>4 DEF NoticeCoversDebit
  <2>4. s.attempts < MaxAttempts
    <3> DEFINE S == {m \in 1 .. i - 1 : plan[m].type = "attempt"}
               half == [m \in S |-> m \div 2]
    <3>1. ASSUME NEW m \in S
          PROVE  m \in Nat /\ m \div 2 \in 1 .. j - 1 /\ m = 2 * (m \div 2)
      <4>1. m \in 1 .. 2 * k /\ m \in 1 .. i - 1 /\ plan[m].type = "attempt"
        BY <1>2
      <4>2. PICK h \in 1 .. k :
              \/ m = 2 * h - 1 /\ plan[m] = NotifyStep(noticeAt[h], attemptAt[h])
              \/ m = 2 * h /\ plan[m] = AttemptStep(attemptAt[h])
        BY <1>4, <4>1
      <4>3. m = 2 * h
        BY <4>1, <4>2 DEF NotifyStep
      <4>4. h = m \div 2
        BY <4>3
      <4> QED  BY <1>7, <4>1, <4>3, <4>4
    <3> HIDE DEF S
    <3>2. half \in [S -> 1 .. j - 1]
      BY <3>1
    <3>3. \A a, b \in S : half[a] = half[b] => a = b
      BY <3>1
    <3> HIDE DEF half
    <3>4. half \in Injection(S, 1 .. j - 1)
      BY <3>2, <3>3 DEF Injection, IsInjective
    <3>5. IsFiniteSet(1 .. j - 1) /\ Cardinality(1 .. j - 1) = j - 1
      BY FS_Interval
    <3>6. IsFiniteSet(S) /\ Cardinality(S) <= j - 1
      BY <3>4, <3>5, FS_Injection
    <3>7. Cardinality(S) \in Nat
      BY <3>6, FS_CardinalityType
    <3>8. s.attempts = 1 + Cardinality(S)
      BY <1>1 DEF S, AttemptsBefore
    <3> QED  BY <3>6, <3>7, <3>8, PolicyAssumption
  <2> QED  BY <1>1, <1>3, <2>2, <2>3, <2>4 DEF AttemptAuthorized
<1> QED  BY <1>5, <1>6, <1>7

LEMMA FixedPasses == PassesGate(FixedSchedule)
<1> DEFINE attemptAt == [i \in 1 .. 3 |-> 24 * AttemptOffsetDays[i] + 2]
           noticeAt == [i \in 1 .. 3 |-> attemptAt[i] - 24]
<1>1. /\ Len(AttemptOffsetDays) = 3
      /\ AttemptOffsetDays[1] = 1 /\ AttemptOffsetDays[2] = 3 /\ AttemptOffsetDays[3] = 7
  BY DEF AttemptOffsetDays
<1>2. SlotsPerDay = 24 /\ 2 \in PermittedSlots /\ 24 \in NoticeMin .. NoticeMaxAge
  BY SchedulesAssumption
<1>3. /\ attemptAt[1] = 26 /\ attemptAt[2] = 74 /\ attemptAt[3] = 170
      /\ noticeAt[1] = 2 /\ noticeAt[2] = 50 /\ noticeAt[3] = 146
      /\ attemptAt \in [1 .. 3 -> Int] /\ noticeAt \in [1 .. 3 -> Int]
  BY <1>1
<1>4. IsPairedPlan(FixedSchedule, 3, noticeAt, attemptAt)
  <2>1. DOMAIN FixedSchedule = 1 .. 2 * 3
    BY <1>1 DEF FixedSchedule
  <2>2. ASSUME NEW i \in 1 .. 3
        PROVE  /\ FixedSchedule[2 * i - 1] = NotifyStep(noticeAt[i], attemptAt[i])
               /\ FixedSchedule[2 * i] = AttemptStep(attemptAt[i])
    <3>1. /\ 2 * i - 1 \in 1 .. 6 /\ (2 * i - 1) % 2 = 1 /\ ((2 * i - 1) + 1) \div 2 = i
          /\ 2 * i \in 1 .. 6 /\ (2 * i) % 2 = 0 /\ (2 * i) \div 2 = i
      OBVIOUS
    <3>2. FixedSchedule[2 * i - 1]
            = NotifyStep(24 * AttemptOffsetDays[i] + 2 - 24, 24 * AttemptOffsetDays[i] + 2)
      BY <1>1, <1>2, <3>1 DEF FixedSchedule
    <3>3. FixedSchedule[2 * i] = AttemptStep(24 * AttemptOffsetDays[i] + 2)
      BY <1>1, <1>2, <3>1 DEF FixedSchedule
    <3>4. attemptAt[i] = 24 * AttemptOffsetDays[i] + 2
      OBVIOUS
    <3>5. noticeAt[i] = attemptAt[i] - 24
      OBVIOUS
    <3> HIDE DEF attemptAt, noticeAt
    <3>6. noticeAt[i] = 24 * AttemptOffsetDays[i] + 2 - 24
      <4>1. AttemptOffsetDays[i] \in Int
        BY <1>1
      <4> QED  BY <3>4, <3>5, <4>1
    <3>7. FixedSchedule[2 * i - 1] = NotifyStep(noticeAt[i], attemptAt[i])
      BY <3>2, <3>4, <3>6, Zenon
    <3>8. FixedSchedule[2 * i] = AttemptStep(attemptAt[i])
      BY <3>3, <3>4, Zenon
    <3> QED  BY <3>7, <3>8
  <2> QED  BY <2>1, <2>2 DEF IsPairedPlan
<1> HIDE DEF attemptAt, noticeAt
<1>5. ASSUME NEW i \in 1 .. 3
      PROVE  /\ InPermittedWindow(attemptAt[i])
             /\ attemptAt[i] - noticeAt[i] \in NoticeMin .. NoticeMaxAge
  BY <1>2, <1>3 DEF InPermittedWindow
<1>6. \A i, j \in 1 .. 3 : i < j => Day(noticeAt[i]) # Day(noticeAt[j])
  BY <1>2, <1>3 DEF Day
<1>7. 3 < MaxAttempts
  BY SchedulesAssumption
<1> QED  BY <1>3, <1>4, <1>5, <1>6, <1>7, PairedPlanPasses

\* The slot greedy.py picks is one of the reachable slots.
LEMMA LeastOf ==
  ASSUME NEW T \in SUBSET Nat, T # {}
  PROVE  \E x \in T : \A y \in T : x <= y
<1> DEFINE Less == {p \in Nat \X Nat : p[1] < p[2]}
<1>1. IsWellFoundedOn(Less, Nat)
  BY NatLessThanWellFounded DEF OpToRel
<1>2. \A x, y \in Nat : y < x => <<y, x>> \in Less
  OBVIOUS
<1> HIDE DEF Less
<1>3. PICK x \in T : \A y \in T : <<y, x>> \notin Less
  BY <1>1, WFMin
<1>4. ASSUME NEW y \in T PROVE x <= y
  <2>1. x \in Nat /\ y \in Nat /\ <<y, x>> \notin Less
    BY <1>3
  <2>2. ~(y < x)
    BY <1>2, <2>1
  <2> QED  BY <2>1, <2>2
<1> QED  BY <1>4

LEMMA BestSlotReachable ==
  ASSUME inputs \in PlanningInputs, ReachableSlots # {}
  PROVE  BestSlot \in ReachableSlots
<1>1. \A t \in ReachableSlots : t \in Nat /\ inputs.p[t] \in 0 .. ProbDen
  BY InputsTyped DEF ReachableSlots, Slots
<1>2. ProbDen \in Nat
  BY PlannerAssumption
<1> DEFINE Gaps == {ProbDen - inputs.p[t] : t \in ReachableSlots}
<1>3. Gaps \in SUBSET Nat /\ Gaps # {}
  BY <1>1, <1>2
<1>4. PICK g \in Gaps : \A h \in Gaps : g <= h
  BY <1>3, LeastOf
<1> DEFINE Tops == {t \in ReachableSlots : ProbDen - inputs.p[t] = g}
<1>5. Tops \in SUBSET Nat /\ Tops # {}
  BY <1>1, <1>4
<1>6. PICK t \in Tops : \A u \in Tops : t <= u
  BY <1>5, LeastOf
<1>7. ASSUME NEW o \in ReachableSlots
      PROVE  inputs.p[t] > inputs.p[o] \/ (inputs.p[t] = inputs.p[o] /\ t <= o)
  <2>1. ProbDen - inputs.p[t] = g /\ t \in ReachableSlots
    BY <1>6
  <2>2. g <= ProbDen - inputs.p[o]
    BY <1>4
  <2>3. inputs.p[t] \in Int /\ inputs.p[o] \in Int
    BY <1>1, <2>1
  <2>4. CASE inputs.p[t] > inputs.p[o]
    BY <2>4
  <2>5. CASE ~(inputs.p[t] > inputs.p[o])
    <3>1. ProbDen - inputs.p[o] = g /\ inputs.p[t] = inputs.p[o]
      BY <1>2, <2>1, <2>2, <2>3, <2>5
    <3> QED  BY <1>6, <3>1
  <2> QED  BY <2>4, <2>5
<1>8. t \in ReachableSlots
  BY <1>6
<1> QED  BY <1>7, <1>8 DEF BestSlot

\* The pairs of the greedy schedule so far: their attempts lie before
\* `earliest`, each at least a lead and a slot after the one before.
GreedyPairs(k, slot) ==
  /\ slot \in [1 .. k -> Slots]
  /\ Len(greedySteps) = 2 * k
  /\ \A i \in 1 .. k :
       /\ slot[i] >= NoticeLead /\ slot[i] < earliest
       /\ greedySteps[2 * i - 1]
            = NotifyStep(SlotHour(slot[i] - NoticeLead), SlotHour(slot[i]))
       /\ greedySteps[2 * i] = AttemptStep(SlotHour(slot[i]))
  /\ \A i, j \in 1 .. k : i < j => slot[i] + NoticeLead < slot[j]

GreedyInv ==
  /\ earliest \in Nat
  /\ attemptsLeft \in 0 .. AttemptsRemaining
  /\ greedySteps \in Seq(Step)
  /\ \E slot : GreedyPairs(AttemptsRemaining - attemptsLeft, slot)

LEMMA GreedyStart == GreedyInit => GreedyInv
<1> SUFFICES ASSUME GreedyInit PROVE GreedyInv
  OBVIOUS
<1>1. AttemptsRemaining \in Nat
  BY PlannerAssumption, PolicyAssumption DEF Budgets
<1>2. /\ earliest = 0 /\ attemptsLeft = AttemptsRemaining /\ greedySteps = <<>>
  BY DEF GreedyInit
<1>3. GreedyPairs(0, [i \in 1 .. 0 |-> 0])
  BY <1>2 DEF GreedyPairs
<1> QED  BY <1>1, <1>2, <1>3 DEF GreedyInv

LEMMA GreedyAttemptKeeps ==
  ASSUME inputs \in PlanningInputs, GreedyInv, GreedyAttempt
  PROVE  GreedyInv'
<1>t. PICK t : t = BestSlot
  OBVIOUS
<1>k. PICK k : k = AttemptsRemaining - attemptsLeft
  OBVIOUS
<1> DEFINE e == NotifyStep(SlotHour(t - NoticeLead), SlotHour(t))
           a == AttemptStep(SlotHour(t))
<1>1. /\ attemptsLeft > 0 /\ ReachableSlots # {}
      /\ greedySteps' = greedySteps \o <<e, a>>
      /\ earliest' = t + 1 /\ attemptsLeft' = attemptsLeft - 1
  BY <1>t DEF GreedyAttempt, WorthTrying, NoticeSlot
<1>2. NoticeLead \in Nat /\ AttemptsRemaining \in Nat
  BY PlannerAssumption, PolicyAssumption DEF Budgets
<1>3. /\ earliest \in Nat /\ attemptsLeft \in 0 .. AttemptsRemaining
      /\ greedySteps \in Seq(Step)
  BY DEF GreedyInv
<1>4. t \in Slots /\ t \in Nat /\ t >= earliest + NoticeLead
  BY <1>1, <1>t, BestSlotReachable DEF ReachableSlots, Slots
<1>5. PICK slot : GreedyPairs(k, slot)
  BY <1>k DEF GreedyInv
<1>6. k \in Nat /\ AttemptsRemaining - attemptsLeft' = k + 1
      /\ attemptsLeft' \in 0 .. AttemptsRemaining
  BY <1>1, <1>2, <1>3, <1>k
<1>7. e \in Step /\ a \in Step
  <2>1. t - NoticeLead \in Nat
    BY <1>2, <1>3, <1>4
  <2>2. SlotHour(t) \in Nat /\ SlotHour(t - NoticeLead) \in Nat
    BY <1>4, <2>1, SlotHours
  <2> QED  BY <2>2 DEF Step, NotifyStep, AttemptStep, NoDebit
<1> DEFINE slot1 == [i \in 1 .. k + 1 |-> IF i = k + 1 THEN t ELSE slot[i]]
<1> HIDE DEF e, a
<1>8. /\ greedySteps' \in Seq(Step) /\ Len(greedySteps') = 2 * k + 2
      /\ \A i \in 1 .. 2 * k : greedySteps'[i] = greedySteps[i]
      /\ greedySteps'[2 * k + 1] = e /\ greedySteps'[2 * k + 2] = a
  <2>1. <<e, a>> \in Seq(Step) /\ Len(<<e, a>>) = 2 /\ <<e, a>>[1] = e /\ <<e, a>>[2] = a
    BY <1>7
  <2>2. Len(greedySteps) = 2 * k
    BY <1>5 DEF GreedyPairs
  <2> DEFINE ea == <<e, a>>
  <2> HIDE DEF ea
  <2>3. /\ greedySteps' \in Seq(Step) /\ Len(greedySteps') = Len(greedySteps) + Len(ea)
        /\ \A i \in 1 .. Len(greedySteps) + Len(ea) :
             greedySteps'[i] = IF i <= Len(greedySteps) THEN greedySteps[i]
                               ELSE ea[i - Len(greedySteps)]
    BY <1>1, <1>3, <2>1, ConcatProperties DEF ea
  <2>4. ea[1] = e /\ ea[2] = a /\ Len(ea) = 2
    BY <2>1 DEF ea
  <2>5. /\ 2 * k + 1 \in 1 .. 2 * k + 2 /\ ~(2 * k + 1 <= 2 * k) /\ (2 * k + 1) - 2 * k = 1
        /\ 2 * k + 2 \in 1 .. 2 * k + 2 /\ ~(2 * k + 2 <= 2 * k) /\ (2 * k + 2) - 2 * k = 2
    BY <1>6
  <2>6. \A i \in 1 .. 2 * k : i \in 1 .. 2 * k + 2 /\ i <= 2 * k
    BY <1>6
  <2> QED  BY <2>2, <2>3, <2>4, <2>5, <2>6
<1>9. GreedyPairs(k + 1, slot1)'
  <2>1. slot1 \in [1 .. k + 1 -> Slots]
    BY <1>4, <1>5, <1>6 DEF GreedyPairs
  <2>2. slot1[k + 1] = t /\ \A i \in 1 .. k : slot1[i] = slot[i]
    BY <1>6
  <2> HIDE DEF slot1
  <2>3. ASSUME NEW i \in 1 .. k + 1
        PROVE  /\ slot1[i] >= NoticeLead /\ slot1[i] < earliest'
               /\ greedySteps'[2 * i - 1]
                    = NotifyStep(SlotHour(slot1[i] - NoticeLead), SlotHour(slot1[i]))
               /\ greedySteps'[2 * i] = AttemptStep(SlotHour(slot1[i]))
    <3>1. CASE i = k + 1
      <4>1. 2 * i - 1 = 2 * k + 1 /\ 2 * i = 2 * k + 2
        BY <1>6, <3>1
      <4>2. t >= NoticeLead /\ t < t + 1
        BY <1>2, <1>3, <1>4
      <4> QED  BY <1>1, <1>8, <2>2, <3>1, <4>1, <4>2 DEF e, a
    <3>2. CASE i # k + 1
      <4>1. i \in 1 .. k /\ 2 * i - 1 \in 1 .. 2 * k /\ 2 * i \in 1 .. 2 * k
        BY <1>6, <3>2
      <4>2. slot[i] \in Nat /\ slot[i] >= NoticeLead /\ slot[i] < earliest
        BY <1>5, <4>1 DEF GreedyPairs, Slots
      <4>3. slot[i] < t + 1
        BY <1>2, <1>3, <1>4, <4>2
      <4> QED  BY <1>1, <1>5, <1>8, <2>2, <4>1, <4>2, <4>3 DEF GreedyPairs
    <3> QED  BY <3>1, <3>2
  <2>4. ASSUME NEW i \in 1 .. k + 1, NEW j \in 1 .. k + 1, i < j
        PROVE  slot1[i] + NoticeLead < slot1[j]
    <3>1. i \in 1 .. k
      BY <1>6, <2>4
    <3>2. CASE j = k + 1
      <4>1. slot[i] \in Nat /\ slot[i] < earliest
        BY <1>5, <3>1 DEF GreedyPairs, Slots
      <4>2. slot[i] + NoticeLead < t
        BY <1>2, <1>3, <1>4, <4>1
      <4> QED  BY <2>2, <3>1, <3>2, <4>2
    <3>3. CASE j # k + 1
      <4>1. j \in 1 .. k
        BY <1>6, <3>3
      <4> QED  BY <1>5, <2>2, <2>4, <3>1, <4>1 DEF GreedyPairs
    <3> QED  BY <3>2, <3>3
  <2>5. Len(greedySteps') = 2 * (k + 1)
    BY <1>6, <1>8
  <2> QED  BY <2>1, <2>3, <2>4, <2>5 DEF GreedyPairs
<1>10. earliest' \in Nat
  BY <1>1, <1>4
<1>11. \E s : GreedyPairs(AttemptsRemaining - attemptsLeft, s)'
  BY <1>6, <1>9
<1> QED  BY <1>6, <1>8, <1>10, <1>11 DEF GreedyInv

LEMMA GreedyNext ==
  ASSUME inputs \in PlanningInputs, GreedyInv, [Next]_vars
  PROVE  GreedyInv'
<1>1. CASE GreedyAttempt
  BY <1>1, GreedyAttemptKeeps
<1>2. CASE UNCHANGED <<earliest, attemptsLeft, greedySteps>>
  BY <1>2 DEF GreedyInv, GreedyPairs
<1>3. GreedyAttempt \/ UNCHANGED <<earliest, attemptsLeft, greedySteps>>
  BY DEF Next, vars, greedyVars, GreedyStop
<1> QED  BY <1>1, <1>2, <1>3

LEMMA GreedyPasses ==
  ASSUME GreedyInv
  PROVE  PassesGate(greedySteps)
<1> DEFINE k == AttemptsRemaining - attemptsLeft
<1>1. PICK slot : GreedyPairs(k, slot)
  BY DEF GreedyInv
<1>2. /\ k \in Nat /\ k < MaxAttempts /\ NoticeLead \in Nat \ {0}
  BY PlannerAssumption, PolicyAssumption, SchedulesAssumption DEF GreedyInv, Budgets
<1> HIDE DEF k
<1> DEFINE attemptAt == [i \in 1 .. k |-> SlotHour(slot[i])]
           noticeAt == [i \in 1 .. k |-> SlotHour(slot[i] - NoticeLead)]
<1>3. ASSUME NEW i \in 1 .. k
      PROVE  /\ slot[i] \in Nat /\ slot[i] - NoticeLead \in Nat
             /\ SlotHour(slot[i]) \in Nat /\ SlotHour(slot[i] - NoticeLead) \in Nat
             /\ InPermittedWindow(SlotHour(slot[i]))
             /\ SlotHour(slot[i]) - SlotHour(slot[i] - NoticeLead) \in NoticeMin .. NoticeMaxAge
             /\ Day(SlotHour(slot[i] - NoticeLead)) = (slot[i] - NoticeLead) \div 2
  <2> DEFINE u == slot[i]
             v == u - NoticeLead
  <2>1. u \in Nat /\ u >= NoticeLead
    BY <1>1 DEF GreedyPairs, Slots
  <2> HIDE DEF u
  <2>2. v \in Nat /\ v < u /\ u - v = NoticeLead
    BY <1>2, <2>1
  <2> HIDE DEF v
  <2>3. /\ SlotHour(u) \in Nat /\ SlotHour(v) \in Nat /\ InPermittedWindow(SlotHour(u))
        /\ SlotHour(v) \div 24 = v \div 2
    BY <2>1, <2>2, SlotHours, SlotsPermitted
  <2>4. /\ 24 * (NoticeLead \div 2) <= SlotHour(u) - SlotHour(v)
        /\ SlotHour(u) - SlotHour(v) <= 12 * NoticeLead + 9
    BY <2>1, <2>2, HoursBetween
  <2>5. SlotHour(u) - SlotHour(v) \in NoticeMin .. NoticeMaxAge
    BY <1>2, <2>3, <2>4, SchedulesAssumption, PolicyAssumption
  <2>6. Day(SlotHour(v)) = v \div 2
    BY <2>3, SchedulesAssumption DEF Day
  <2> QED  BY <2>1, <2>2, <2>3, <2>5, <2>6 DEF u, v
<1>4. attemptAt \in [1 .. k -> Int] /\ noticeAt \in [1 .. k -> Int]
  <2>1. \A i \in 1 .. k : SlotHour(slot[i]) \in Int /\ SlotHour(slot[i] - NoticeLead) \in Int
    <3> SUFFICES ASSUME NEW i \in 1 .. k
                 PROVE  SlotHour(slot[i]) \in Int /\ SlotHour(slot[i] - NoticeLead) \in Int
      OBVIOUS
    <3>1. SlotHour(slot[i]) \in Nat /\ SlotHour(slot[i] - NoticeLead) \in Nat
      BY <1>3
    <3> QED  BY <3>1
  <2> QED  BY <2>1
<1>5. \A i \in 1 .. k : /\ attemptAt[i] = SlotHour(slot[i])
                        /\ noticeAt[i] = SlotHour(slot[i] - NoticeLead)
  OBVIOUS
<1> HIDE DEF attemptAt, noticeAt
<1>6. IsPairedPlan(greedySteps, k, noticeAt, attemptAt)
  <2>1. DOMAIN greedySteps = 1 .. 2 * k
    <3>1. greedySteps \in Seq(Step) /\ Len(greedySteps) = 2 * k
      BY <1>1 DEF GreedyInv, GreedyPairs
    <3> QED  BY <3>1, LenProperties
  <2> QED  BY <1>1, <1>5, <2>1 DEF IsPairedPlan, GreedyPairs
<1>7. \A i \in 1 .. k : /\ InPermittedWindow(attemptAt[i])
                        /\ attemptAt[i] - noticeAt[i] \in NoticeMin .. NoticeMaxAge
  BY <1>3, <1>5
<1>8. ASSUME NEW i \in 1 .. k, NEW j \in 1 .. k, i < j
      PROVE  Day(noticeAt[i]) # Day(noticeAt[j])
  <2>1. slot[i] + NoticeLead < slot[j] /\ slot[i] \in Nat /\ slot[j] \in Nat
    BY <1>1, <1>3, <1>8 DEF GreedyPairs
  <2>2. (slot[i] - NoticeLead) \div 2 # (slot[j] - NoticeLead) \div 2
    <3>1. (slot[i] - NoticeLead) + 2 <= slot[j] - NoticeLead
      BY <1>2, <2>1
    <3>2. slot[i] - NoticeLead \in Nat /\ slot[j] - NoticeLead \in Nat
      BY <1>3
    <3> QED  BY <3>1, <3>2
  <2> QED  BY <1>3, <1>5, <2>2
<1> QED  BY <1>2, <1>4, <1>6, <1>7, <1>8, PairedPlanPasses

\* Every step of the greedy and of the fixed schedule is allowed at its instant,
\* were every attempt before it a failure.
THEOREM BaselinesPass == Spec => []BaselinesPassGate
<1>1. Init => inputs \in PlanningInputs /\ GreedyInv
  BY GreedyStart DEF Init, PlannerInit
<1>2. inputs \in PlanningInputs /\ GreedyInv /\ TableInv /\ [Next]_vars
        => (inputs \in PlanningInputs)' /\ GreedyInv'
  BY GreedyNext, TableNext DEF TableInv, TableTypes
<1>3. GreedyInv => BaselinesPassGate
  BY GreedyPasses, FixedPasses DEF BaselinesPassGate
<1> QED  BY <1>1, <1>2, <1>3, PlanInvHolds, PTL DEF Spec

------------------------------------------------------------------------------
(* Backward induction is exact *)

ValueAt(t, b, n) == values[t][b, n]

SolvedTable == TableInv /\ unsolved = 0 /\ StopEpsilon = 0

LEMMA ProductMonotone ==
  ASSUME NEW w \in Nat, NEW x \in Int, NEW y \in Int, x <= y
  PROVE  w * x <= w * y
OBVIOUS

LEMMA QuotientMonotone ==
  ASSUME NEW x \in Int, NEW y \in Int, x <= y
  PROVE  x \div ProbDen <= y \div ProbDen
BY PlannerAssumption

LEMMA ExpectedMonotone ==
  ASSUME NEW p \in 0 .. ProbDen, NEW gain \in Int,
         NEW low \in Int, NEW high \in Int, low <= high
  PROVE  Expected(p, gain, low) <= Expected(p, gain, high)
<1>1. ProbDen - p \in Nat /\ p * gain \in Int
  BY PlannerAssumption
<1>2. (ProbDen - p) * low <= (ProbDen - p) * high
  BY <1>1, ProductMonotone
<1>3. (ProbDen - p) * low \in Int /\ (ProbDen - p) * high \in Int
  BY <1>1
<1> DEFINE x == p * gain + (ProbDen - p) * low
           y == p * gain + (ProbDen - p) * high
<1>4. x \in Int /\ y \in Int /\ x <= y
  BY <1>1, <1>2, <1>3
<1>5. Expected(p, gain, low) = x \div ProbDen /\ Expected(p, gain, high) = y \div ProbDen
  BY DEF Expected
<1> HIDE DEF x, y
<1> QED  BY <1>4, <1>5, QuotientMonotone

LEMMA ValueAtTyped ==
  ASSUME SolvedTable, NEW t \in 0 .. NSlots, NEW b \in Budgets, NEW n \in NoticeStates
  PROVE  ValueAt(t, b, n) \in Int
BY ValueTyped DEF SolvedTable, TableInv, ValueAt

LEMMA NextSlots ==
  /\ \A t \in Slots : t \in Nat /\ t \in 0 .. NSlots /\ t + 1 \in 0 .. NSlots
  /\ \A t \in 0 .. NSlots : t \in Nat /\ (t < NSlots => t \in Slots)
  /\ NSlots \in Nat \ {0}
  /\ NoticeLead \in Nat \ {0} /\ NoticeLead \in NoticeStates
  /\ NoNotice \in NoticeStates /\ NoticeReady \in NoticeStates
BY PlannerAssumption DEF Slots, NoticeStates, NoNotice, NoticeReady

\* The Bellman inequalities: no candidate is worth more than the entry.
LEMMA EntryIsBest ==
  ASSUME SolvedTable, NEW t \in Slots, NEW b \in Budgets, NEW n \in NoticeStates
  PROVE  /\ ValueAt(t, b, n) >= inputs.manual
         /\ ValueAt(t, b, n) >= ValueAt(t + 1, b, AdvanceNotice(n, FALSE))
         /\ n = NoNotice => ValueAt(t, b, n) >= ValueAt(t + 1, b, NoticeLead) - NotifyCost
         /\ n = NoticeReady /\ b > 0 =>
              ValueAt(t, b, n) >= Expected(inputs.p[t], inputs.success,
                                     ValueAt(t + 1, b - 1, NoNotice) - FailureCost)
<1>1. Solved(t)
  BY NextSlots DEF SolvedTable, TableInv
<1> DEFINE v == ValueAt(t, b, n)
<1>2. /\ GoodDecision(t, b, n, actions[t][b, n])
      /\ v = Worth(t, b, n, actions[t][b, n])
  BY <1>1 DEF Solved, ValueAt
<1>3. v \in Int
  BY NextSlots, ValueAtTyped
<1> HIDE DEF v
<1>4. v >= inputs.manual
  BY <1>2 DEF GoodDecision
<1>5. ASSUME NEW o \in Candidates(b, n) PROVE v >= Worth(t, b, n, o)
  <2>1. v + StopEpsilon >= Worth(t, b, n, o)
    BY <1>2 DEF GoodDecision
  <2>2. StopEpsilon = 0
    BY DEF SolvedTable
  <2> QED  BY <1>3, <2>1, <2>2
<1>6. v >= ValueAt(t + 1, b, AdvanceNotice(n, FALSE))
  <2>1. "IDLE" \in Candidates(b, n)
    BY DEF Candidates
  <2>2. Worth(t, b, n, "IDLE") = ValueAt(t + 1, b, AdvanceNotice(n, FALSE))
    BY DEF Worth, ValueAt
  <2> QED  BY <1>5, <2>1, <2>2
<1>7. ASSUME n = NoNotice PROVE v >= ValueAt(t + 1, b, NoticeLead) - NotifyCost
  <2>1. "NOTIFY" \in Candidates(b, n)
    BY <1>7 DEF Candidates
  <2>2. Worth(t, b, n, "NOTIFY") = ValueAt(t + 1, b, NoticeLead) - NotifyCost
    BY NoticeAdvances DEF Worth, ValueAt
  <2> QED  BY <1>5, <2>1, <2>2
<1>8. ASSUME n = NoticeReady, b > 0
      PROVE  v >= Expected(inputs.p[t], inputs.success,
                           ValueAt(t + 1, b - 1, NoNotice) - FailureCost)
  <2>1. "ATTEMPT" \in Candidates(b, n)
    BY <1>8 DEF Candidates
  <2>2. Worth(t, b, n, "ATTEMPT")
          = Expected(inputs.p[t], inputs.success,
                     ValueAt(t + 1, b - 1, NoNotice) - FailureCost)
    BY DEF Worth, AfterFailure, ValueAt, NoticeConsumed
  <2> QED  BY <1>5, <2>1, <2>2
<1> QED  BY <1>4, <1>6, <1>7, <1>8 DEF v

\* Waiting without a notice, and with one that ripens, loses nothing the later
\* slots offer.
LEMMA WaitingLosesNothing ==
  ASSUME SolvedTable, NEW b \in Budgets,
         NEW t \in 0 .. NSlots, NEW u \in 0 .. NSlots, t <= u
  PROVE  ValueAt(t, b, NoNotice) >= ValueAt(u, b, NoNotice)
<1> DEFINE V(s) == ValueAt(s, b, NoNotice)
           Lossy == {d \in Nat : \E s \in 0 .. NSlots :
                       s + d \in 0 .. NSlots /\ ~(V(s) >= V(s + d))}
<1>1. \A s \in 0 .. NSlots : V(s) \in Int
  BY NextSlots, ValueAtTyped
<1>2. \A s \in Slots : V(s) >= V(s + 1)
  <2>1. AdvanceNotice(NoNotice, FALSE) = NoNotice
    BY NextSlots, NoticeAdvances
  <2> QED  BY <2>1, NextSlots, EntryIsBest
<1> HIDE DEF V
<1>3. Lossy = {}
  <2> SUFFICES ASSUME Lossy # {} PROVE FALSE
    OBVIOUS
  <2>1. PICK d \in Lossy : \A x \in Lossy : d <= x
    <3>1. Lossy \in SUBSET Nat
      OBVIOUS
    <3> HIDE DEF Lossy
    <3> QED  BY <3>1, LeastOf
  <2>2. PICK s \in 0 .. NSlots : s + d \in 0 .. NSlots /\ ~(V(s) >= V(s + d))
    BY <2>1
  <2>3. d \in Nat /\ d # 0
    BY <1>1, <2>1, <2>2
  <2>4. s \in Slots /\ s + 1 \in 0 .. NSlots /\ (s + 1) + (d - 1) = s + d /\ d - 1 \in Nat
    BY <2>2, <2>3, NextSlots
  <2>5. d - 1 \notin Lossy
    BY <2>1, <2>3
  <2>6. V(s + 1) >= V(s + d)
    BY <2>2, <2>4, <2>5
  <2>7. V(s) >= V(s + 1)
    BY <1>2, <2>4
  <2> QED  BY <1>1, <2>2, <2>4, <2>6, <2>7
<1>4. u - t \in Nat /\ t + (u - t) = u
  OBVIOUS
<1>5. u - t \notin Lossy
  BY <1>3
<1> QED  BY <1>4, <1>5 DEF V

LEMMA NoticesRipen ==
  ASSUME SolvedTable, NEW b \in Budgets, NEW n \in 0 .. NoticeLead,
         NEW t \in 0 .. NSlots, NEW u \in 0 .. NSlots, t + n <= u
  PROVE  ValueAt(t, b, n) >= ValueAt(u, b, NoticeReady)
<1> DEFINE V(s, m) == ValueAt(s, b, m)
           Lossy == {d \in Nat : \E s \in 0 .. NSlots, m \in 0 .. NoticeLead :
                       /\ s + d \in 0 .. NSlots /\ m <= d
                       /\ ~(V(s, m) >= V(s + d, 0))}
<1>1. \A s \in 0 .. NSlots, m \in 0 .. NoticeLead : V(s, m) \in Int
  BY NextSlots, ValueAtTyped DEF NoticeStates, NoNotice
<1>2. ASSUME NEW s \in Slots, NEW m \in 0 .. NoticeLead
      PROVE  \E m1 \in 0 .. NoticeLead :
               /\ m1 = IF m > 0 THEN m - 1 ELSE m
               /\ V(s, m) >= V(s + 1, m1)
  <2>1. m \in NoticeStates
    BY NextSlots DEF NoticeStates, NoNotice
  <2>2. AdvanceNotice(m, FALSE) = IF m > 0 THEN m - 1 ELSE m
    BY DEF AdvanceNotice, NoticeReady
  <2>3. V(s, m) >= V(s + 1, AdvanceNotice(m, FALSE))
    BY <2>1, EntryIsBest
  <2>4. (IF m > 0 THEN m - 1 ELSE m) \in 0 .. NoticeLead
    BY NextSlots
  <2> QED  BY <2>2, <2>3, <2>4
<1> HIDE DEF V
<1>3. Lossy = {}
  <2> SUFFICES ASSUME Lossy # {} PROVE FALSE
    OBVIOUS
  <2>1. PICK d \in Lossy : \A x \in Lossy : d <= x
    <3>1. Lossy \in SUBSET Nat
      OBVIOUS
    <3> HIDE DEF Lossy
    <3> QED  BY <3>1, LeastOf
  <2>2. PICK s \in 0 .. NSlots, m \in 0 .. NoticeLead :
          /\ s + d \in 0 .. NSlots /\ m <= d
          /\ ~(V(s, m) >= V(s + d, 0))
    BY <2>1
  <2>3. d \in Nat /\ d # 0
    BY <1>1, <2>1, <2>2, NextSlots
  <2>4. s \in Slots /\ s + 1 \in 0 .. NSlots /\ (s + 1) + (d - 1) = s + d /\ d - 1 \in Nat
    BY <2>2, <2>3, NextSlots
  <2>5. PICK m1 \in 0 .. NoticeLead : /\ m1 = IF m > 0 THEN m - 1 ELSE m
                                      /\ V(s, m) >= V(s + 1, m1)
    BY <1>2, <2>4
  <2>6. m1 <= d - 1
    BY <2>2, <2>3, <2>5, NextSlots
  <2>7. d - 1 \notin Lossy
    BY <2>1, <2>3
  <2>8. V(s + 1, m1) >= V(s + d, 0)
    BY <2>2, <2>4, <2>6, <2>7
  <2>9. V(s, m) \in Int /\ V(s + 1, m1) \in Int /\ V(s + d, 0) \in Int
    BY <1>1, <2>2, <2>4, NextSlots
  <2> QED  BY <2>2, <2>5, <2>8, <2>9
<1>4. u - t \in Nat /\ t + (u - t) = u /\ n <= u - t
  BY NextSlots
<1>5. u - t \notin Lossy
  BY <1>3
<1> QED  BY <1>4, <1>5 DEF V, NoticeReady

\* One more try: a notice in slot s, the attempt in slot u.
LEMMA OneTry ==
  ASSUME SolvedTable, NEW b \in Budgets, b > 0, NEW t \in 0 .. NSlots,
         NEW s \in Slots, NEW u \in Slots, t <= s, s + NoticeLead + 1 <= u
  PROVE  ValueAt(t, b, NoNotice)
           >= Expected(inputs.p[u], inputs.success,
                       ValueAt(u + 1, b - 1, NoNotice) - FailureCost) - NotifyCost
<1> DEFINE v0 == ValueAt(t, b, NoNotice)
           v1 == ValueAt(s, b, NoNotice)
           v2 == ValueAt(s + 1, b, NoticeLead)
           v3 == ValueAt(u, b, NoticeReady)
           v4 == ValueAt(u + 1, b - 1, NoNotice)
           x == Expected(inputs.p[u], inputs.success, v4 - FailureCost)
<1>1. v0 >= v1
  BY NextSlots, WaitingLosesNothing
<1>2. v1 >= v2 - NotifyCost
  BY NextSlots, EntryIsBest
<1>3. v2 >= v3
  <2>1. (s + 1) + NoticeLead <= u /\ NoticeLead \in 0 .. NoticeLead
    BY NextSlots
  <2> QED  BY <2>1, NextSlots, NoticesRipen
<1>4. v3 >= x
  BY NextSlots, EntryIsBest
<1>5. v0 \in Int /\ v1 \in Int /\ v2 \in Int /\ v3 \in Int
  BY NextSlots, ValueAtTyped
<1>6. x \in Int
  <2>1. b - 1 \in Budgets
    BY PolicyAssumption DEF Budgets
  <2>2. v4 \in Int
    BY <2>1, NextSlots, ValueAtTyped
  <2> HIDE DEF v4
  <2>3. v4 - FailureCost \in Int
    BY <2>2, CostsTyped
  <2>4. inputs.p[u] \in Int /\ inputs.success \in Int
    BY InputsTyped DEF SolvedTable, TableInv, TableTypes
  <2> QED  BY <2>3, <2>4, ExpectedTyped
<1> HIDE DEF v0, v1, v2, v3, v4, x
<1>7. v0 >= x - NotifyCost
  BY <1>1, <1>2, <1>3, <1>4, <1>5, <1>6, CostsTyped
<1> QED  BY <1>7 DEF v0, v4, x

------------------------------------------------------------------------------
(* What an itinerary is worth *)

Pairs == {x \in Slots \X Slots : x[1] + NoticeLead + 1 <= x[2]}

LastValue(k, it) ==
  IF (k > 0 /\ it[k][2] = NSlots - 1) \/ inputs.manualLate > inputs.manual
  THEN inputs.manualLate ELSE inputs.manual

\* The value of a try from what is worth having after it.
TryValue(u, after) ==
  Expected(inputs.p[u], inputs.success, after - FailureCost) - NotifyCost

\* f[i] is the value of the itinerary from its i-th pair on.
FromValues(k, it, last, f) ==
  /\ f \in [1 .. k + 1 -> Int]
  /\ f[k + 1] = last
  /\ \A i \in 1 .. k : f[i] = TryValue(it[i][2], f[i + 1])

LEMMA TryValueTyped ==
  ASSUME inputs \in PlanningInputs, NEW u \in Slots, NEW x \in Int
  PROVE  TryValue(u, x) \in Int
<1>1. x - FailureCost \in Int
  BY CostsTyped
<1>2. Expected(inputs.p[u], inputs.success, x - FailureCost) \in Int
  BY <1>1, InputsTyped, ExpectedTyped
<1> QED  BY <1>2, CostsTyped DEF TryValue

LEMMA TryValueMonotone ==
  ASSUME inputs \in PlanningInputs, NEW u \in Slots,
         NEW x \in Int, NEW y \in Int, x <= y
  PROVE  TryValue(u, x) <= TryValue(u, y)
<1> DEFINE ex == Expected(inputs.p[u], inputs.success, x - FailureCost)
           ey == Expected(inputs.p[u], inputs.success, y - FailureCost)
<1>1. x - FailureCost \in Int /\ y - FailureCost \in Int
      /\ x - FailureCost <= y - FailureCost
  BY CostsTyped
<1>2. ex <= ey /\ ex \in Int /\ ey \in Int
  BY <1>1, InputsTyped, ExpectedTyped, ExpectedMonotone
<1>3. TryValue(u, x) = ex - NotifyCost /\ TryValue(u, y) = ey - NotifyCost
  BY DEF TryValue
<1> HIDE DEF ex, ey
<1> QED  BY <1>2, <1>3, CostsTyped

\* A function defined from its last argument down.
LEMMA BackwardRecursion ==
  ASSUME NEW k \in Nat, NEW last \in Int, NEW g \in [1 .. k -> [Int -> Int]]
  PROVE  \E f \in [1 .. k + 1 -> Int] :
           /\ f[k + 1] = last
           /\ \A i \in 1 .. k : f[i] = g[i][f[i + 1]]
<1> DEFINE Defined(m) ==
             \E f \in [k + 1 - m .. k + 1 -> Int] :
               /\ f[k + 1] = last
               /\ \A i \in k + 1 - m .. k : f[i] = g[i][f[i + 1]]
           Undefined == {m \in Nat : m <= k /\ ~Defined(m)}
<1>1. Defined(0)
  <2>1. [i \in k + 1 .. k + 1 |-> last] \in [k + 1 - 0 .. k + 1 -> Int]
    OBVIOUS
  <2>2. [i \in k + 1 .. k + 1 |-> last][k + 1] = last
    OBVIOUS
  <2>3. \A i \in k + 1 - 0 .. k : FALSE
    OBVIOUS
  <2> QED  BY <2>1, <2>2, <2>3
<1>2. ASSUME NEW m \in Nat, m + 1 <= k, Defined(m)
      PROVE  Defined(m + 1)
  <2>1. PICK f \in [k + 1 - m .. k + 1 -> Int] :
          /\ f[k + 1] = last
          /\ \A i \in k + 1 - m .. k : f[i] = g[i][f[i + 1]]
    BY <1>2
  <2> DEFINE j == k - m
             f1 == [i \in j .. k + 1 |-> IF i = j THEN g[j][f[j + 1]] ELSE f[i]]
  <2>2. j \in 1 .. k /\ j + 1 \in k + 1 - m .. k + 1 /\ k + 1 - (m + 1) = j /\ k + 1 - m = j + 1
    BY <1>2
  <2>3. f[j + 1] \in Int /\ g[j] \in [Int -> Int] /\ g[j][f[j + 1]] \in Int
    BY <2>1, <2>2
  <2> HIDE DEF j
  <2>4. \A i \in j + 1 .. k + 1 : f[i] \in Int
    BY <2>1, <2>2
  <2>5. \A i \in j .. k + 1 : i = j \/ i \in j + 1 .. k + 1
    BY <2>2
  <2>6. f1 \in [j .. k + 1 -> Int]
    BY <2>3, <2>4, <2>5
  <2>7. f1[k + 1] = last
    BY <2>1, <2>2
  <2>8. ASSUME NEW i \in j .. k PROVE f1[i] = g[i][f1[i + 1]]
    <3>1. i \in j .. k + 1 /\ i + 1 \in j .. k + 1 /\ i + 1 # j
      BY <2>2
    <3>2. f1[i + 1] = f[i + 1]
      BY <3>1
    <3>3. CASE i = j
      BY <3>1, <3>2, <3>3
    <3>4. CASE i # j
      <4>1. i \in k + 1 - m .. k
        BY <2>2, <3>4
      <4> QED  BY <2>1, <3>1, <3>2, <3>4, <4>1
    <3> QED  BY <3>3, <3>4
  <2> HIDE DEF f1
  <2> QED  BY <2>2, <2>6, <2>7, <2>8
<1> HIDE DEF Defined
<1>3. Undefined = {}
  <2> SUFFICES ASSUME Undefined # {} PROVE FALSE
    OBVIOUS
  <2>1. PICK m \in Undefined : \A x \in Undefined : m <= x
    <3>1. Undefined \in SUBSET Nat
      OBVIOUS
    <3> HIDE DEF Undefined
    <3> QED  BY <3>1, LeastOf
  <2>2. m \in Nat /\ m <= k /\ ~Defined(m) /\ m # 0
    BY <1>1, <2>1
  <2>3. m - 1 \in Nat /\ m - 1 <= k /\ m - 1 \notin Undefined /\ (m - 1) + 1 = m
    BY <2>1, <2>2
  <2>4. Defined(m - 1)
    BY <2>3
  <2>5. Defined((m - 1) + 1)
    BY <1>2, <2>2, <2>3, <2>4
  <2> QED  BY <2>2, <2>3, <2>5
<1>4. Defined(k)
  <2>1. k \notin Undefined
    BY <1>3
  <2>2. k <= k
    OBVIOUS
  <2> QED  BY <2>1, <2>2
<1>5. PICK f \in [k + 1 - k .. k + 1 -> Int] :
        /\ f[k + 1] = last
        /\ \A i \in k + 1 - k .. k : f[i] = g[i][f[i + 1]]
  BY <1>4 DEF Defined
<1>6. k + 1 - k = 1
  OBVIOUS
<1> QED  BY <1>5, <1>6

\* ItineraryValue is what its recursive definition says.
LEMMA ItineraryValueIs ==
  ASSUME inputs \in PlanningInputs, NEW k \in Nat, NEW it \in [1 .. k -> Pairs]
  PROVE  \E f : /\ FromValues(k, it, LastValue(k, it), f)
                /\ ItineraryValue(it) = f[1]
<1> DEFINE last == LastValue(k, it)
           Fn(h) == [i \in 1 .. k + 1 |->
                       IF i = k + 1 THEN last
                       ELSE Expected(inputs.p[it[i][2]], inputs.success,
                                     h[i + 1] - FailureCost) - NotifyCost]
           from == CHOOSE h : h = Fn(h)
           g == [i \in 1 .. k |-> [x \in Int |-> TryValue(it[i][2], x)]]
<1>1. Len(it) = k
  BY LenProperties, SeqDef
<1>2. ItineraryValue(it) = from[1]
  BY <1>1 DEF ItineraryValue, LastValue
<1>3. \A i \in 1 .. k : it[i][2] \in Slots
  BY DEF Pairs
<1>4. last \in Int
  BY InputsTyped DEF LastValue
<1>5. g \in [1 .. k -> [Int -> Int]]
  BY <1>3, TryValueTyped
<1> HIDE DEF last
<1>6. PICK f \in [1 .. k + 1 -> Int] : /\ f[k + 1] = last
                                       /\ \A i \in 1 .. k : f[i] = g[i][f[i + 1]]
  <2> HIDE DEF g
  <2> QED  BY <1>4, <1>5, BackwardRecursion
<1>7. ASSUME NEW i \in 1 .. k PROVE f[i] = TryValue(it[i][2], f[i + 1])
  <2>1. i + 1 \in 1 .. k + 1
    OBVIOUS
  <2>2. f[i + 1] \in Int
    BY <2>1
  <2>3. g[i] = [x \in Int |-> TryValue(it[i][2], x)]
    OBVIOUS
  <2>4. f[i] = g[i][f[i + 1]]
    BY <1>6
  <2> HIDE DEF g
  <2> QED  BY <2>2, <2>3, <2>4
<1>8. f = Fn(f)
  <2>1. \A i \in 1 .. k + 1 : i = k + 1 \/ i \in 1 .. k
    OBVIOUS
  <2>2. \A i \in 1 .. k + 1 : f[i] = Fn(f)[i]
    BY <1>6, <1>7, <2>1 DEF TryValue
  <2> QED  BY <1>6, <2>2
<1>9. from = Fn(from)
  <2> HIDE DEF Fn
  <2> QED  BY <1>8
<1>10. /\ from[k + 1] = last /\ DOMAIN from = 1 .. k + 1
       /\ \A i \in 1 .. k : from[i] = TryValue(it[i][2], from[i + 1])
  <2> HIDE DEF from
  <2> QED  BY <1>9 DEF TryValue
<1> HIDE DEF from
<1>11. \A i \in 1 .. k + 1 : from[i] = f[i]
  <2> DEFINE Differ == {m \in Nat : m <= k /\ from[k + 1 - m] # f[k + 1 - m]}
  <2>1. Differ = {}
    <3> SUFFICES ASSUME Differ # {} PROVE FALSE
      OBVIOUS
    <3>1. PICK m \in Differ : \A x \in Differ : m <= x
      <4>1. Differ \in SUBSET Nat
        OBVIOUS
      <4> HIDE DEF Differ
      <4> QED  BY <4>1, LeastOf
    <3>2. m \in Nat /\ m <= k /\ from[k + 1 - m] # f[k + 1 - m] /\ m # 0
      BY <1>6, <1>10, <3>1
    <3>3. /\ m - 1 \in Nat /\ m - 1 <= k
          /\ k + 1 - m \in 1 .. k /\ (k + 1 - m) + 1 = k + 1 - (m - 1)
      BY <3>2
    <3>4. m - 1 \notin Differ
      <4> HIDE DEF Differ
      <4> QED  BY <3>1, <3>2
    <3>6. from[(k + 1 - m) + 1] = f[(k + 1 - m) + 1]
      BY <3>3, <3>4
    <3> QED  BY <1>7, <1>10, <3>2, <3>3, <3>6
  <2> SUFFICES ASSUME NEW i \in 1 .. k + 1 PROVE from[i] = f[i]
    OBVIOUS
  <2>2. k + 1 - i \in Nat /\ k + 1 - i <= k /\ k + 1 - (k + 1 - i) = i
    OBVIOUS
  <2>3. k + 1 - i \notin Differ
    BY <2>1
  <2> QED  BY <2>2, <2>3
<1>12. FromValues(k, it, last, f)
  BY <1>6, <1>7 DEF FromValues
<1>13. 1 \in 1 .. k + 1
  OBVIOUS
<1> QED  BY <1>2, <1>11, <1>12, <1>13 DEF last

\* Nor is there more than one such function.
LEMMA FromValuesUnique ==
  ASSUME NEW k \in Nat, NEW it, NEW last, NEW f, NEW h,
         FromValues(k, it, last, f), FromValues(k, it, last, h)
  PROVE  f[1] = h[1]
<1> DEFINE Differ == {m \in Nat : m <= k /\ f[k + 1 - m] # h[k + 1 - m]}
<1>1. Differ = {}
  <2> SUFFICES ASSUME Differ # {} PROVE FALSE
    OBVIOUS
  <2>1. PICK m \in Differ : \A x \in Differ : m <= x
    <3>1. Differ \in SUBSET Nat
      OBVIOUS
    <3> HIDE DEF Differ
    <3> QED  BY <3>1, LeastOf
  <2>2. m \in Nat /\ m <= k /\ f[k + 1 - m] # h[k + 1 - m] /\ m # 0
    BY <2>1 DEF FromValues
  <2>3. /\ m - 1 \in Nat /\ m - 1 <= k /\ m - 1 \notin Differ
        /\ k + 1 - m \in 1 .. k /\ (k + 1 - m) + 1 = k + 1 - (m - 1)
    BY <2>1, <2>2
  <2>4. f[(k + 1 - m) + 1] = h[(k + 1 - m) + 1]
    BY <2>3
  <2> QED  BY <2>2, <2>3, <2>4 DEF FromValues
<1>2. k \notin Differ
  BY <1>1
<1>3. k + 1 - k = 1
  OBVIOUS
<1> QED  BY <1>2, <1>3

\* No itinerary is worth more than the root.
LEMMA NoItineraryBeatsRoot ==
  ASSUME SolvedTable, NEW k \in 0 .. AttemptsRemaining, NEW it \in [1 .. k -> Pairs],
         \A i \in 1 .. k - 1 : it[i][2] < it[i + 1][1],
         NEW f, FromValues(k, it, LastValue(k, it), f)
  PROVE  RootValue >= f[1]
<1> DEFINE V(t, i) == ValueAt(t, AttemptsRemaining - (i - 1), NoNotice)
           \* Where the walk may stand when the i-th pair is still ahead.
           Before(t, i) == IF i <= k THEN t <= it[i][1]
                           ELSE t = IF k > 0 THEN it[k][2] + 1 ELSE 0
           Beaten == {m \in Nat : m <= k /\ \E t \in 0 .. NSlots :
                        Before(t, k + 1 - m) /\ ~(V(t, k + 1 - m) >= f[k + 1 - m])}
<1>1. k \in Nat /\ AttemptsRemaining \in Nat /\ AttemptsRemaining \in Budgets
      /\ k <= AttemptsRemaining
  BY PlannerAssumption, PolicyAssumption DEF Budgets
<1>2. inputs \in PlanningInputs
  BY DEF SolvedTable, TableInv, TableTypes
<1>3. /\ f \in [1 .. k + 1 -> Int] /\ f[k + 1] = LastValue(k, it)
      /\ \A i \in 1 .. k : f[i] = TryValue(it[i][2], f[i + 1])
  BY DEF FromValues
<1>4. \A i \in 1 .. k : /\ it[i][1] \in Slots /\ it[i][2] \in Slots
                        /\ it[i][1] + NoticeLead + 1 <= it[i][2]
  BY DEF Pairs
<1>5. \A i \in 1 .. k + 1 : AttemptsRemaining - (i - 1) \in Budgets
                            /\ (i <= k => AttemptsRemaining - (i - 1) > 0)
  BY <1>1, PlannerAssumption, PolicyAssumption DEF Budgets
<1>6. \A t \in 0 .. NSlots, i \in 1 .. k + 1 : V(t, i) \in Int
  BY <1>5, NextSlots, ValueAtTyped
\* After the last pair the table offers at least what is left.
<1>7. ASSUME NEW t \in 0 .. NSlots, Before(t, k + 1)
      PROVE  V(t, k + 1) >= f[k + 1]
  <2>1. inputs.manual \in Int /\ inputs.manualLate \in Int
        /\ inputs.manualLate <= inputs.manual
    BY <1>2, InputsTyped, SchedulesAssumption
  <2>2. t = IF k > 0 THEN it[k][2] + 1 ELSE 0
    <3>1. ~(k + 1 <= k) /\ k + 1 \in Int
      BY <1>1
    <3> QED  BY <1>7, <3>1
  <2>3. CASE t = NSlots
    <3>1. k > 0 /\ it[k][2] = NSlots - 1
      <4>1. k > 0
        BY <2>2, <2>3, NextSlots
      <4>2. it[k][2] \in Nat
        BY <1>1, <1>4, <4>1, NextSlots
      <4> QED  BY <2>2, <2>3, <4>1, <4>2, NextSlots
    <3>2. f[k + 1] = inputs.manualLate
      BY <1>3, <3>1 DEF LastValue
    <3>3. k + 1 \in 1 .. k + 1
      BY <1>1
    <3>4. V(t, k + 1) = inputs.manualLate
      BY <1>5, <2>3, <3>3, NextSlots DEF SolvedTable, TableInv, TableTypes, ValueAt
    <3> HIDE DEF V
    <3> QED  BY <2>1, <3>2, <3>4
  <2>4. CASE t # NSlots
    <3>1. t \in Slots
      BY <2>4, NextSlots
    <3>2. k + 1 \in 1 .. k + 1
      BY <1>1
    <3>3. V(t, k + 1) >= inputs.manual
      BY <1>5, <3>1, <3>2, NextSlots, EntryIsBest
    <3>4. f[k + 1] <= inputs.manual /\ f[k + 1] \in Int
      BY <1>3, <2>1 DEF LastValue
    <3>5. V(t, k + 1) \in Int
      BY <1>6, <3>2
    <3> HIDE DEF V
    <3> QED  BY <2>1, <3>3, <3>4, <3>5
  <2> QED  BY <2>3, <2>4
\* Before a pair it offers at least that pair and what it offers afterwards.
<1>8. ASSUME NEW i \in 1 .. k,
             \A t \in 0 .. NSlots : Before(t, i + 1) => V(t, i + 1) >= f[i + 1],
             NEW t \in 0 .. NSlots, Before(t, i)
      PROVE  V(t, i) >= f[i]
  <2> DEFINE s == it[i][1]
             u == it[i][2]
             b == AttemptsRemaining - (i - 1)
  <2>1. i <= k /\ i \in Nat /\ i \in 1 .. k + 1 /\ i + 1 \in 1 .. k + 1
    BY <1>1
  <2>2. t <= s /\ s \in Slots /\ u \in Slots /\ s + NoticeLead + 1 <= u
    BY <1>4, <1>8, <2>1
  <2>3. b \in Budgets /\ b > 0 /\ b - 1 = AttemptsRemaining - ((i + 1) - 1)
    BY <1>1, <1>5, <2>1
  <2>4. u + 1 \in 0 .. NSlots
    BY <2>2, NextSlots
  <2>5. Before(u + 1, i + 1)
    <3>1. CASE i + 1 <= k
      <4>1. u < it[i + 1][1] /\ i + 1 \in 1 .. k
        BY <1>1, <2>1, <3>1
      <4>2. u + 1 <= it[i + 1][1]
        <5>1. u \in Nat /\ it[i + 1][1] \in Nat
          BY <1>4, <2>2, <4>1, NextSlots
        <5> QED  BY <4>1, <5>1
      <4> QED  BY <3>1, <4>2
    <3>2. CASE ~(i + 1 <= k)
      <4>1. i = k /\ k > 0
        BY <1>1, <2>1, <3>2
      <4> QED  BY <3>2, <4>1
    <3> QED  BY <3>1, <3>2
  <2>6. V(u + 1, i + 1) >= f[i + 1]
    BY <1>8, <2>4, <2>5
  <2>7. V(u + 1, i + 1) \in Int /\ f[i + 1] \in Int /\ f[i] \in Int /\ V(t, i) \in Int
    BY <1>3, <1>6, <2>1, <2>4
  <2>8. V(t, i) >= TryValue(u, V(u + 1, i + 1))
    BY <2>2, <2>3, OneTry DEF TryValue
  <2> HIDE DEF V
  <2>9. TryValue(u, f[i + 1]) <= TryValue(u, V(u + 1, i + 1))
    BY <1>2, <2>2, <2>6, <2>7, TryValueMonotone
  <2>10. TryValue(u, V(u + 1, i + 1)) \in Int
    BY <1>2, <2>2, <2>7, TryValueTyped
  <2>11. f[i] = TryValue(u, f[i + 1])
    BY <1>3
  <2> HIDE DEF u
  <2> QED  BY <2>7, <2>8, <2>9, <2>10, <2>11
<1> HIDE DEF V, Before
<1>9. Beaten = {}
  <2> SUFFICES ASSUME Beaten # {} PROVE FALSE
    OBVIOUS
  <2>1. PICK m \in Beaten : \A x \in Beaten : m <= x
    <3>1. Beaten \in SUBSET Nat
      OBVIOUS
    <3> HIDE DEF Beaten
    <3> QED  BY <3>1, LeastOf
  <2>2. /\ m \in Nat /\ m <= k
        /\ \E t \in 0 .. NSlots :
             Before(t, k + 1 - m) /\ ~(V(t, k + 1 - m) >= f[k + 1 - m])
    BY <2>1
  <2>3. CASE m = 0
    <3>1. k + 1 - m = k + 1
      BY <1>1, <2>3
    <3> QED  BY <1>7, <2>2, <3>1
  <2>4. CASE m # 0
    <3> DEFINE i == k + 1 - m
    <3>1. /\ i \in 1 .. k /\ i + 1 = k + 1 - (m - 1)
          /\ m - 1 \in Nat /\ m - 1 <= k /\ ~(m <= m - 1)
      BY <1>1, <2>2, <2>4
    <3>2. m - 1 \notin Beaten
      <4> HIDE DEF Beaten
      <4> QED  BY <2>1, <3>1
    <3>3. \A t \in 0 .. NSlots : Before(t, i + 1) => V(t, i + 1) >= f[i + 1]
      BY <3>1, <3>2
    <3>4. \A t \in 0 .. NSlots : Before(t, i) => V(t, i) >= f[i]
      <4> HIDE DEF i
      <4> QED  BY <1>8, <3>1, <3>3
    <3> QED  BY <2>2, <3>4
  <2> QED  BY <2>3, <2>4
<1>10. k \notin Beaten /\ k + 1 - k = 1
  <2>1. k \notin Beaten
    BY <1>9
  <2>2. k + 1 - k = 1
    BY <1>1
  <2> QED  BY <2>1, <2>2
<1>11. Before(0, 1)
  <2>1. CASE 1 <= k
    <3>1. 1 \in 1 .. k /\ it[1][1] \in Nat
      BY <1>1, <1>4, <2>1, NextSlots
    <3> QED  BY <2>1, <3>1 DEF Before
  <2>2. CASE ~(1 <= k)
    BY <1>1, <2>2 DEF Before
  <2> QED  BY <2>1, <2>2
<1>12. 0 \in 0 .. NSlots
  BY NextSlots
<1>13. V(0, 1) >= f[1]
  BY <1>1, <1>10, <1>11, <1>12
<1>14. RootValue = V(0, 1)
  <2>1. AttemptsRemaining - (1 - 1) = AttemptsRemaining
    BY <1>1
  <2> QED  BY <2>1 DEF RootValue, V, ValueAt
<1> QED  BY <1>13, <1>14

\* Where an entry's value comes from.
LEMMA EntryOrigin ==
  ASSUME SolvedTable, NEW t \in Slots, NEW b \in Budgets, NEW n \in NoticeStates
  PROVE  \/ ValueAt(t, b, n) = inputs.manual
         \/ /\ ValueAt(t, b, n) > inputs.manual
            /\ ValueAt(t, b, n) = ValueAt(t + 1, b, AdvanceNotice(n, FALSE))
         \/ /\ n = NoNotice
            /\ ValueAt(t, b, n) > inputs.manual
            /\ ValueAt(t, b, n) = ValueAt(t + 1, b, NoticeLead) - NotifyCost
         \/ /\ n = NoticeReady /\ b > 0
            /\ ValueAt(t, b, n) = Expected(inputs.p[t], inputs.success,
                                     ValueAt(t + 1, b - 1, NoNotice) - FailureCost)
<1> DEFINE v == ValueAt(t, b, n)
           a == actions[t][b, n]
<1>1. Solved(t)
  BY NextSlots DEF SolvedTable, TableInv
<1>2. /\ a \in Candidates(b, n) /\ v = Worth(t, b, n, a)
      /\ a \in {"NOTIFY", "IDLE"} => v > inputs.manual
  BY <1>1 DEF Solved, GoodDecision, ValueAt
<1> HIDE DEF v, a
<1>3. CASE a = "STOP_AND_ESCALATE"
  BY <1>2, <1>3 DEF Worth, v
<1>4. CASE a = "IDLE"
  <2>1. Worth(t, b, n, a) = ValueAt(t + 1, b, AdvanceNotice(n, FALSE))
    BY <1>4 DEF Worth, ValueAt
  <2> QED  BY <1>2, <1>4, <2>1 DEF v
<1>5. CASE a = "NOTIFY"
  <2>1. Worth(t, b, n, a) = ValueAt(t + 1, b, NoticeLead) - NotifyCost
    BY <1>5, NoticeAdvances DEF Worth, ValueAt
  <2>2. n = NoNotice
    BY <1>2, <1>5, CandidatesTyped
  <2> QED  BY <1>2, <1>5, <2>1, <2>2 DEF v
<1>6. CASE a = "ATTEMPT"
  <2>1. Worth(t, b, n, a) = Expected(inputs.p[t], inputs.success,
                                     ValueAt(t + 1, b - 1, NoNotice) - FailureCost)
    BY <1>6 DEF Worth, AfterFailure, ValueAt, NoticeConsumed
  <2>2. n = NoticeReady /\ b > 0
    BY <1>2, <1>6, CandidatesTyped
  <2> QED  BY <1>2, <2>1, <2>2 DEF v
<1> QED  BY <1>2, <1>3, <1>4, <1>5, <1>6, CandidatesTyped DEF ActionType

\* Behind the last slot there is only the late escalation.
LEMMA HorizonValue ==
  ASSUME SolvedTable, NEW b \in Budgets, NEW n \in NoticeStates
  PROVE  /\ ValueAt(NSlots, b, n) = inputs.manualLate
         /\ inputs.manual \in Int /\ inputs.manualLate \in Int
         /\ inputs.manualLate <= inputs.manual
<1>1. inputs \in PlanningInputs
  BY DEF SolvedTable, TableInv, TableTypes
<1>2. ValueAt(NSlots, b, n) = inputs.manualLate
  BY DEF SolvedTable, TableInv, TableTypes, ValueAt
<1>3. inputs.manualLate <= inputs.manual
  BY <1>1, SchedulesAssumption
<1> QED  BY <1>1, <1>2, <1>3, InputsTyped

\* A notice worth having is worth it for one attempt, after the notice is ready.
LEMMA PendingIsAttempted ==
  ASSUME SolvedTable, NEW b \in Budgets, NEW n \in 0 .. NoticeLead,
         NEW t \in 0 .. NSlots, ValueAt(t, b, n) > inputs.manual
  PROVE  /\ b > 0
         /\ \E u \in Slots :
              /\ t + n <= u
              /\ ValueAt(t, b, n) = Expected(inputs.p[u], inputs.success,
                                       ValueAt(u + 1, b - 1, NoNotice) - FailureCost)
<1> DEFINE V(s, m) == ValueAt(s, b, m)
           Try(u) == Expected(inputs.p[u], inputs.success,
                              ValueAt(u + 1, b - 1, NoNotice) - FailureCost)
           Attempted(s, m) == b > 0 /\ \E u \in Slots : s + m <= u /\ V(s, m) = Try(u)
           Bad == {d \in Nat : \E s \in 0 .. NSlots, m \in 0 .. NoticeLead :
                     /\ s + d = NSlots
                     /\ V(s, m) > inputs.manual /\ ~Attempted(s, m)}
<1>1. \A m \in 0 .. NoticeLead : m \in NoticeStates
  BY NextSlots DEF NoticeStates, NoNotice
<1>2. \A s \in 0 .. NSlots, m \in 0 .. NoticeLead : V(s, m) \in Int
  BY <1>1, ValueAtTyped
<1>3. inputs.manual \in Int /\ \A m \in 0 .. NoticeLead : ~(V(NSlots, m) > inputs.manual)
  BY <1>1, NextSlots, HorizonValue
<1>4. ASSUME NEW s \in Slots, NEW m \in 0 .. NoticeLead, V(s, m) > inputs.manual
      PROVE  \/ \E m1 \in 0 .. NoticeLead : m <= m1 + 1 /\ V(s, m) = V(s + 1, m1)
             \/ m = 0 /\ b > 0 /\ V(s, m) = Try(s)
  <2>1. AdvanceNotice(m, FALSE) = IF m > 0 THEN m - 1 ELSE m
    BY DEF AdvanceNotice, NoticeReady
  <2>2. /\ AdvanceNotice(m, FALSE) \in 0 .. NoticeLead
        /\ m <= AdvanceNotice(m, FALSE) + 1
    <3>1. /\ (IF m > 0 THEN m - 1 ELSE m) \in 0 .. NoticeLead
          /\ m <= (IF m > 0 THEN m - 1 ELSE m) + 1
      BY NextSlots
    <3> QED  BY <2>1, <3>1
  <2>3. m # NoNotice /\ NoticeReady = 0
    BY NextSlots DEF NoNotice, NoticeReady
  <2>4. V(s, m) # inputs.manual
    BY <1>2, <1>3, <1>4, NextSlots
  <2>5. V(s, m) = V(s + 1, AdvanceNotice(m, FALSE))
        \/ (m = 0 /\ b > 0 /\ V(s, m) = Try(s))
    BY <1>1, <2>3, <2>4, EntryOrigin
  <2> QED  BY <2>2, <2>5
<1> HIDE DEF V, Try
<1>5. Bad = {}
  <2> SUFFICES ASSUME Bad # {} PROVE FALSE
    OBVIOUS
  <2>1. PICK d \in Bad : \A x \in Bad : d <= x
    <3>1. Bad \in SUBSET Nat
      OBVIOUS
    <3> HIDE DEF Bad
    <3> QED  BY <3>1, LeastOf
  <2>2. PICK s \in 0 .. NSlots, m \in 0 .. NoticeLead :
          /\ s + d = NSlots
          /\ V(s, m) > inputs.manual /\ ~Attempted(s, m)
    BY <2>1
  <2>3. d \in Nat /\ s # NSlots
    BY <1>3, <2>1, <2>2
  <2>4. s \in Slots /\ s \in Nat /\ s + 1 \in 0 .. NSlots
    BY <2>2, <2>3, NextSlots
  <2>5. CASE \E m1 \in 0 .. NoticeLead : m <= m1 + 1 /\ V(s, m) = V(s + 1, m1)
    <3>1. PICK m1 \in 0 .. NoticeLead : m <= m1 + 1 /\ V(s, m) = V(s + 1, m1)
      BY <2>5
    <3>2. d - 1 \in Nat /\ (s + 1) + (d - 1) = NSlots /\ ~(d <= d - 1)
      BY <2>2, <2>3, <2>4, NextSlots
    <3>3. d - 1 \notin Bad
      <4> HIDE DEF Bad
      <4> QED  BY <2>1, <3>2
    <3>4. V(s + 1, m1) > inputs.manual
      BY <2>2, <3>1
    <3>5. Attempted(s + 1, m1)
      BY <2>4, <3>2, <3>3, <3>4
    <3>6. PICK u \in Slots : (s + 1) + m1 <= u /\ V(s + 1, m1) = Try(u)
      BY <3>5
    <3>7. s + m <= u
      <4>1. u \in Nat /\ m \in Nat /\ m1 \in Nat
        BY NextSlots
      <4> QED  BY <2>4, <3>1, <3>6, <4>1
    <3> QED  BY <2>2, <3>1, <3>5, <3>6, <3>7
  <2>6. CASE m = 0 /\ b > 0 /\ V(s, m) = Try(s)
    <3>1. s + m <= s
      BY <2>4, <2>6
    <3> QED  BY <2>2, <2>4, <2>6, <3>1
  <2> QED  BY <1>4, <2>2, <2>4, <2>5, <2>6
<1>6. NSlots - t \in Nat /\ t + (NSlots - t) = NSlots
  BY NextSlots
<1>7. NSlots - t \notin Bad
  BY <1>5
<1>8. V(t, n) > inputs.manual
  BY DEF V
<1>9. Attempted(t, n)
  BY <1>6, <1>7, <1>8
<1> QED  BY <1>9 DEF V, Try

\* What is left after an itinerary that starts in slot t.
LastFrom(t, k, it) ==
  IF (k > 0 /\ it[k][2] = NSlots - 1) \/ (k = 0 /\ t = NSlots)
  THEN inputs.manualLate ELSE inputs.manual

\* An itinerary from slot t on, of at most b tries, is worth v.
Achieves(t, b, v, k, it, f) ==
  /\ k \in 0 .. b
  /\ it \in [1 .. k -> Pairs]
  /\ \A i \in 1 .. k - 1 : it[i][2] < it[i + 1][1]
  /\ k > 0 => t <= it[1][1]
  /\ FromValues(k, it, LastFrom(t, k, it), f)
  /\ f[1] = v

Achieved(t, b, v) == \E k, it, f : Achieves(t, b, v, k, it, f)

LEMMA StoppingAchieves ==
  ASSUME SolvedTable, NEW b \in Budgets, NEW t \in 0 .. NSlots
  PROVE  /\ t # NSlots => Achieved(t, b, inputs.manual)
         /\ t = NSlots => Achieved(t, b, inputs.manualLate)
<1> DEFINE it == [i \in 1 .. 0 |-> <<0, 0>>]
           f == [i \in 1 .. 0 + 1 |-> LastFrom(t, 0, it)]
<1>1. LastFrom(t, 0, it) = IF t = NSlots THEN inputs.manualLate ELSE inputs.manual
  BY DEF LastFrom
<1>2. inputs.manual \in Int /\ inputs.manualLate \in Int
  BY NextSlots, HorizonValue
<1>3. 0 \in 0 .. b
  BY PolicyAssumption DEF Budgets
<1>4. it \in [1 .. 0 -> Pairs]
  OBVIOUS
<1> HIDE DEF it
<1>5. FromValues(0, it, LastFrom(t, 0, it), f)
  BY <1>1, <1>2 DEF FromValues
<1>6. f[1] = LastFrom(t, 0, it)
  OBVIOUS
<1> HIDE DEF f
<1>7. Achieves(t, b, LastFrom(t, 0, it), 0, it, f)
  BY <1>3, <1>4, <1>5, <1>6 DEF Achieves
<1> QED  BY <1>1, <1>7 DEF Achieved

\* An itinerary worth more than stopping can as well be started earlier.
LEMMA EarlierAchieves ==
  ASSUME SolvedTable, NEW b \in Budgets, NEW t \in Slots, NEW v \in Int,
         v > inputs.manual, Achieved(t + 1, b, v)
  PROVE  Achieved(t, b, v)
<1>1. PICK k, it, f : Achieves(t + 1, b, v, k, it, f)
  BY DEF Achieved
<1>2. inputs.manual \in Int /\ inputs.manualLate \in Int
      /\ inputs.manualLate <= inputs.manual
  BY NextSlots, HorizonValue
<1>3. k \in Nat /\ b \in Nat
  BY <1>1, PolicyAssumption DEF Achieves, Budgets
<1>4. k # 0
  <2> SUFFICES ASSUME k = 0 PROVE FALSE
    OBVIOUS
  <2>1. f[1] = LastFrom(t + 1, k, it)
    <3>1. k + 1 = 1
      OBVIOUS
    <3> QED  BY <1>1, <3>1 DEF Achieves, FromValues
  <2>2. v \in {inputs.manual, inputs.manualLate}
    BY <1>1, <2>1 DEF Achieves, LastFrom
  <2> QED  BY <1>2, <2>2
<1>5. LastFrom(t, k, it) = LastFrom(t + 1, k, it)
  BY <1>4 DEF LastFrom
<1>6. t <= it[1][1]
  <2>1. t + 1 <= it[1][1]
    BY <1>1, <1>3, <1>4 DEF Achieves
  <2>2. it[1][1] \in Nat /\ t \in Nat
    <3>1. 1 \in 1 .. k
      BY <1>3, <1>4
    <3>2. it[1] \in Pairs
      BY <1>1, <3>1 DEF Achieves
    <3> QED  BY <3>2, NextSlots DEF Pairs
  <2> QED  BY <2>1, <2>2
<1>7. Achieves(t, b, v, k, it, f)
  BY <1>1, <1>5, <1>6 DEF Achieves
<1> QED  BY <1>7 DEF Achieved

\* A try in front of an itinerary.
LEMMA TryAchieves ==
  ASSUME SolvedTable, NEW b \in Budgets, b > 0, NEW t \in Slots, NEW u \in Slots,
         t + NoticeLead + 1 <= u, NEW w \in Int, Achieved(u + 1, b - 1, w)
  PROVE  Achieved(t, b, TryValue(u, w))
<1>1. PICK k, it, f : Achieves(u + 1, b - 1, w, k, it, f)
  BY DEF Achieved
<1>2. /\ k \in 0 .. b - 1 /\ it \in [1 .. k -> Pairs]
      /\ \A i \in 1 .. k - 1 : it[i][2] < it[i + 1][1]
      /\ k > 0 => u + 1 <= it[1][1]
      /\ f \in [1 .. k + 1 -> Int] /\ f[k + 1] = LastFrom(u + 1, k, it)
      /\ \A i \in 1 .. k : f[i] = TryValue(it[i][2], f[i + 1])
      /\ f[1] = w
  BY <1>1 DEF Achieves, FromValues
<1>3. b \in Nat /\ k \in Nat /\ k + 1 \in 0 .. b
  BY <1>2, PolicyAssumption DEF Budgets
<1>4. inputs \in PlanningInputs
  BY DEF SolvedTable, TableInv, TableTypes
<1>5. TryValue(u, w) \in Int
  BY <1>4, TryValueTyped
<1>6. <<t, u>> \in Pairs
  BY DEF Pairs
<1> DEFINE it1 == [i \in 1 .. k + 1 |-> IF i = 1 THEN <<t, u>> ELSE it[i - 1]]
           f1 == [i \in 1 .. (k + 1) + 1 |-> IF i = 1 THEN TryValue(u, w) ELSE f[i - 1]]
<1>7. \A i \in 1 .. k + 1 : i = 1 \/ i - 1 \in 1 .. k
  BY <1>3
<1>8. \A i \in 1 .. (k + 1) + 1 : i = 1 \/ i - 1 \in 1 .. k + 1
  BY <1>3
<1>9. it1 \in [1 .. k + 1 -> Pairs]
  BY <1>2, <1>6, <1>7
<1>10. f1 \in [1 .. (k + 1) + 1 -> Int]
  BY <1>2, <1>5, <1>8
<1>11. /\ it1[1] = <<t, u>> /\ f1[1] = TryValue(u, w)
       /\ \A i \in 1 .. k : it1[i + 1] = it[i]
       /\ \A i \in 1 .. k + 1 : f1[i + 1] = f[i]
  <2>1. 1 \in 1 .. k + 1 /\ 1 \in 1 .. (k + 1) + 1
    BY <1>3
  <2>2. \A i \in 1 .. k : i + 1 \in 1 .. k + 1 /\ i + 1 # 1 /\ (i + 1) - 1 = i
    BY <1>3
  <2>3. \A i \in 1 .. k + 1 :
          i + 1 \in 1 .. (k + 1) + 1 /\ i + 1 # 1 /\ (i + 1) - 1 = i
    BY <1>3
  <2> QED  BY <2>1, <2>2, <2>3
<1> HIDE DEF it1, f1
<1>12. \A i \in 1 .. (k + 1) - 1 : it1[i][2] < it1[i + 1][1]
  <2> SUFFICES ASSUME NEW i \in 1 .. k PROVE it1[i][2] < it1[i + 1][1]
    BY <1>3
  <2>1. it1[i + 1] = it[i]
    BY <1>11
  <2>2. CASE i = 1
    <3>1. it[1] \in Pairs /\ it[1][1] \in Nat /\ u \in Nat
      BY <1>2, <2>2, NextSlots DEF Pairs
    <3>2. u + 1 <= it[1][1]
      BY <1>2, <1>3, <2>2
    <3>3. u < it[1][1]
      BY <3>1, <3>2
    <3> QED  BY <1>11, <2>1, <2>2, <3>3
  <2>3. CASE i # 1
    <3>1. i - 1 \in 1 .. k - 1 /\ i - 1 \in 1 .. k /\ (i - 1) + 1 = i
      BY <1>3, <2>3
    <3>2. it1[i] = it[i - 1]
      BY <1>11, <3>1
    <3>3. it[i - 1][2] < it[(i - 1) + 1][1]
      BY <1>2, <3>1
    <3> QED  BY <2>1, <3>1, <3>2, <3>3
  <2> QED  BY <2>2, <2>3
<1>13. t <= it1[1][1]
  BY <1>11, NextSlots
<1>14. f1[(k + 1) + 1] = LastFrom(t, k + 1, it1)
  <2>1. f1[(k + 1) + 1] = LastFrom(u + 1, k, it)
    BY <1>2, <1>3, <1>11
  <2>2. CASE k = 0
    <3>1. it1[k + 1][2] = u /\ k + 1 > 0 /\ k + 1 # 0
      BY <1>11, <2>2
    <3>2. u + 1 = NSlots <=> u = NSlots - 1
      BY NextSlots
    <3> QED  BY <2>1, <2>2, <3>1, <3>2 DEF LastFrom
  <2>3. CASE k # 0
    <3>1. it1[k + 1] = it[k] /\ k > 0 /\ k + 1 > 0 /\ k + 1 # 0
      BY <1>3, <1>11, <2>3
    <3> QED  BY <2>1, <2>3, <3>1 DEF LastFrom
  <2> QED  BY <2>2, <2>3
<1>15. ASSUME NEW i \in 1 .. k + 1 PROVE f1[i] = TryValue(it1[i][2], f1[i + 1])
  <2>1. f1[i + 1] = f[i]
    BY <1>11
  <2>2. CASE i = 1
    BY <1>2, <1>11, <2>1, <2>2
  <2>3. CASE i # 1
    <3>1. i - 1 \in 1 .. k /\ i - 1 \in 1 .. k + 1 /\ (i - 1) + 1 = i
      BY <1>3, <2>3
    <3>2. it1[i] = it[i - 1] /\ f1[i] = f[i - 1]
      BY <1>11, <3>1
    <3>3. f[i - 1] = TryValue(it[i - 1][2], f[(i - 1) + 1])
      BY <1>2, <3>1
    <3> QED  BY <2>1, <3>1, <3>2, <3>3
  <2> QED  BY <2>2, <2>3
<1>16. FromValues(k + 1, it1, LastFrom(t, k + 1, it1), f1)
  BY <1>10, <1>14, <1>15 DEF FromValues
<1>17. Achieves(t, b, TryValue(u, w), k + 1, it1, f1)
  BY <1>3, <1>9, <1>11, <1>12, <1>13, <1>16 DEF Achieves
<1> QED  BY <1>17 DEF Achieved

\* Every entry without a notice is the value of an itinerary.
LEMMA EntriesAchieved ==
  ASSUME SolvedTable, NEW b \in Budgets, NEW t \in 0 .. NSlots
  PROVE  Achieved(t, b, ValueAt(t, b, NoNotice))
<1> DEFINE V(s, c) == ValueAt(s, c, NoNotice)
           Bad == {d \in Nat : \E s \in 0 .. NSlots, c \in Budgets :
                     s + d = NSlots /\ ~Achieved(s, c, V(s, c))}
<1>1. \A s \in 0 .. NSlots, c \in Budgets : V(s, c) \in Int
  BY NextSlots, ValueAtTyped
<1>2. ASSUME NEW c \in Budgets PROVE Achieved(NSlots, c, V(NSlots, c))
  <2>1. V(NSlots, c) = inputs.manualLate
    BY NextSlots, HorizonValue
  <2>2. NSlots \in 0 .. NSlots
    BY NextSlots
  <2> QED  BY <2>1, <2>2, StoppingAchieves
<1>3. ASSUME NEW s \in Slots, NEW c \in Budgets,
             \A x \in 0 .. NSlots, e \in Budgets : x > s => Achieved(x, e, V(x, e))
      PROVE  Achieved(s, c, V(s, c))
  <2>1. s \in 0 .. NSlots /\ s \in Nat /\ s + 1 \in 0 .. NSlots /\ s + 1 > s
    BY NextSlots
  <2>2. V(s, c) \in Int
    BY <1>1, <2>1
  <2>3. Achieved(s + 1, c, V(s + 1, c))
    BY <1>3, <2>1
  <2>4. CASE V(s, c) = inputs.manual
    <3>1. s # NSlots
      BY NextSlots, <2>1
    <3> QED  BY <2>1, <2>4, <3>1, StoppingAchieves
  <2>5. CASE V(s, c) > inputs.manual /\ V(s, c) = V(s + 1, c)
    BY <2>2, <2>3, <2>5, EarlierAchieves
  <2>6. CASE V(s, c) > inputs.manual /\ V(s, c) = ValueAt(s + 1, c, NoticeLead) - NotifyCost
    <3> DEFINE v == ValueAt(s + 1, c, NoticeLead)
    <3>1. v \in Int
      BY <2>1, NextSlots, ValueAtTyped
    <3>2. inputs.manual \in Int
      BY NextSlots, HorizonValue
    <3>3. V(s, c) = v - NotifyCost /\ V(s, c) > inputs.manual
      BY <2>6
    <3> HIDE DEF v, V
    <3>4. v > inputs.manual
      BY <3>1, <3>2, <3>3, CostsTyped
    <3>5. NoticeLead \in 0 .. NoticeLead
      BY NextSlots
    <3>6. c > 0 /\ \E u \in Slots :
            /\ (s + 1) + NoticeLead <= u
            /\ v = Expected(inputs.p[u], inputs.success,
                            ValueAt(u + 1, c - 1, NoNotice) - FailureCost)
      BY <2>1, <3>4, <3>5, PendingIsAttempted DEF v
    <3>7. PICK u \in Slots :
            /\ (s + 1) + NoticeLead <= u
            /\ v = Expected(inputs.p[u], inputs.success, V(u + 1, c - 1) - FailureCost)
      BY <3>6 DEF V
    <3>8. V(s, c) = TryValue(u, V(u + 1, c - 1))
      BY <3>3, <3>7 DEF TryValue
    <3>9. u + 1 \in 0 .. NSlots /\ u + 1 > s /\ s + NoticeLead + 1 <= u
      <4>1. u \in Nat /\ u + 1 \in 0 .. NSlots /\ NoticeLead \in Nat
        BY NextSlots
      <4> QED  BY <2>1, <3>7, <4>1
    <3>10. c - 1 \in Budgets
      BY <3>6, PolicyAssumption DEF Budgets
    <3>11. Achieved(u + 1, c - 1, V(u + 1, c - 1)) /\ V(u + 1, c - 1) \in Int
      BY <1>1, <1>3, <3>9, <3>10
    <3>12. Achieved(s, c, TryValue(u, V(u + 1, c - 1)))
      BY <3>6, <3>9, <3>11, TryAchieves
    <3> QED  BY <3>8, <3>12
  <2>7. \/ V(s, c) = inputs.manual
        \/ V(s, c) > inputs.manual /\ V(s, c) = V(s + 1, c)
        \/ V(s, c) > inputs.manual /\ V(s, c) = ValueAt(s + 1, c, NoticeLead) - NotifyCost
    <3>1. NoNotice \in NoticeStates /\ NoNotice # NoticeReady
      BY NextSlots DEF NoNotice, NoticeReady
    <3>2. AdvanceNotice(NoNotice, FALSE) = NoNotice
      BY <3>1, NoticeAdvances
    <3> QED  BY <3>1, <3>2, EntryOrigin
  <2> QED  BY <2>4, <2>5, <2>6, <2>7
<1> HIDE DEF V
<1>4. Bad = {}
  <2> SUFFICES ASSUME Bad # {} PROVE FALSE
    OBVIOUS
  <2>1. PICK d \in Bad : \A x \in Bad : d <= x
    <3>1. Bad \in SUBSET Nat
      OBVIOUS
    <3> HIDE DEF Bad
    <3> QED  BY <3>1, LeastOf
  <2>2. PICK s \in 0 .. NSlots, c \in Budgets : s + d = NSlots /\ ~Achieved(s, c, V(s, c))
    BY <2>1
  <2>3. d \in Nat /\ s # NSlots /\ s \in Slots /\ s \in Nat
    BY <1>2, <2>1, <2>2, NextSlots
  <2>4. ASSUME NEW x \in 0 .. NSlots, NEW e \in Budgets, x > s
        PROVE  Achieved(x, e, V(x, e))
    <3>1. NSlots - x \in Nat /\ x + (NSlots - x) = NSlots /\ ~(d <= NSlots - x)
      BY <2>2, <2>3, <2>4, NextSlots
    <3>2. NSlots - x \notin Bad
      <4> HIDE DEF Bad
      <4> QED  BY <2>1, <3>1
    <3> QED  BY <3>1, <3>2
  <2> QED  BY <1>3, <2>2, <2>3, <2>4
<1>5. NSlots - t \in Nat /\ t + (NSlots - t) = NSlots
  BY NextSlots
<1>6. NSlots - t \notin Bad
  BY <1>4
<1>7. Achieved(t, b, V(t, b))
  BY <1>5, <1>6
<1> QED  BY <1>7 DEF V

\* With the default tolerance of zero, solve() is exact for every horizon, lead,
\* budget, cost and curve: no itinerary of the decision problem is worth more
\* than the root of the table, and one is worth as much.
THEOREM SolveIsExact == StopEpsilon = 0 => (Spec => []SolveIsOptimal)
<1> SUFFICES ASSUME StopEpsilon = 0 PROVE Spec => []SolveIsOptimal
  OBVIOUS
<1>1. ASSUME TableInv, unsolved = 0 PROVE SolveIsOptimal
  <2>1. SolvedTable /\ inputs \in PlanningInputs
    BY <1>1 DEF SolvedTable, TableInv, TableTypes
  <2>2. /\ AttemptsRemaining \in Nat /\ AttemptsRemaining \in Budgets
        /\ 0 \in 0 .. NSlots /\ 0 # NSlots
    BY PlannerAssumption, PolicyAssumption, NextSlots DEF Budgets
  <2>3. {x \in Slots \X Slots : x[1] + (NoticeLead + 1) <= x[2]} = Pairs
    <3>1. \A x \in Slots \X Slots : x[1] + (NoticeLead + 1) = x[1] + NoticeLead + 1
      BY NextSlots
    <3> QED  BY <3>1 DEF Pairs
  <2>4. Itineraries(NoticeLead + 1)
          = {it \in UNION {[1 .. k -> Pairs] : k \in 0 .. AttemptsRemaining} :
               \A i \in 1 .. Len(it) - 1 : it[i][2] < it[i + 1][1]}
    BY <2>3 DEF Itineraries
  <2>5. \A k \in Nat : \A it \in [1 .. k -> Pairs] : Len(it) = k
    BY SeqDef, LenProperties
  <2>6. ASSUME NEW it \in Itineraries(NoticeLead + 1)
        PROVE  RootValue >= ItineraryValue(it)
    <3>1. PICK k \in 0 .. AttemptsRemaining : it \in [1 .. k -> Pairs]
      BY <2>4
    <3>2. k \in Nat /\ Len(it) = k
      BY <2>2, <2>5, <3>1
    <3>3. \A i \in 1 .. k - 1 : it[i][2] < it[i + 1][1]
      BY <2>4, <3>2
    <3>4. PICK f : FromValues(k, it, LastValue(k, it), f) /\ ItineraryValue(it) = f[1]
      BY <2>1, <3>1, <3>2, ItineraryValueIs
    <3> QED  BY <2>1, <3>1, <3>3, <3>4, NoItineraryBeatsRoot
  <2>7. \E it \in Itineraries(NoticeLead + 1) : RootValue = ItineraryValue(it)
    <3>1. RootValue = ValueAt(0, AttemptsRemaining, NoNotice)
      BY DEF RootValue, ValueAt
    <3>2. PICK k, it, f : Achieves(0, AttemptsRemaining, RootValue, k, it, f)
      BY <2>1, <2>2, <3>1, EntriesAchieved DEF Achieved
    <3>3. /\ k \in 0 .. AttemptsRemaining /\ k \in Nat /\ it \in [1 .. k -> Pairs]
          /\ \A i \in 1 .. k - 1 : it[i][2] < it[i + 1][1]
          /\ FromValues(k, it, LastFrom(0, k, it), f) /\ f[1] = RootValue
      BY <2>2, <3>2 DEF Achieves
    <3>4. LastFrom(0, k, it) = LastValue(k, it)
      <4>1. ~(inputs.manualLate > inputs.manual)
        BY <2>1, <2>2, NextSlots, HorizonValue
      <4> QED  BY <2>2, <4>1 DEF LastFrom, LastValue
    <3>5. PICK h : FromValues(k, it, LastValue(k, it), h) /\ ItineraryValue(it) = h[1]
      BY <2>1, <3>3, ItineraryValueIs
    <3>6. h[1] = f[1]
      BY <3>3, <3>4, <3>5, FromValuesUnique
    <3>7. it \in Itineraries(NoticeLead + 1)
      <4>1. Len(it) = k
        BY <2>5, <3>3
      <4> QED  BY <2>4, <3>3, <4>1
    <3> QED  BY <3>3, <3>5, <3>6, <3>7
  <2> QED  BY <2>6, <2>7 DEF SolveIsOptimal
<1>2. TableInv => SolveIsOptimal
  BY <1>1 DEF SolveIsOptimal
<1> QED  BY <1>2, PlanInvHolds, PTL

==============================================================================
