---------------------------- MODULE RecoveryTypes ----------------------------
(***************************************************************************)
(* Type correctness of RecoverySystem, for every value of the constants.   *)
(* TypeOK is not inductive: what a plan step looks like when it is used    *)
(* depends on its being a step of the plan on record (StepsPlanned), and   *)
(* what is written as an outcome on the client's having an answer          *)
(* (Conversation).                                                         *)
(***************************************************************************)
EXTENDS RecoverySystem, FiniteSetTheorems, TLAPS

Exists(r) == stepStatus[r[1]][r[2]] # "absent"

StepOf(row) == <<row.cycle, row.step>>

\* Whatever refers to a plan step refers to one that was inserted, and the
\* steps inserted are those of the plan, which is written once.
StepsPlanned ==
  /\ \A c \in Cycles, i \in StepIds :
       stepStatus[c][i] # "absent" => i \in DOMAIN plan[c] /\ intents[c][1] # "none"
  /\ \A r \in batch : Exists(r)
  /\ phase = "decide" => current \in StepRef /\ Exists(current)
  /\ \A row \in outbox \cup rows : Exists(StepOf(row))
  /\ phase \in {"await", "settle"} => sending \in OutboxRow /\ Exists(StepOf(sending))

\* One handler at most is awaited, only while the client waits; an outcome has
\* been received before it is settled.
Conversation ==
  /\ \A q \in handling : q.awaited => phase = "await" /\ reply = "none"
  /\ \A p, q \in handling : p.awaited /\ q.awaited => p = q
  /\ phase = "settle" => reply \in RailOutcome

TypeInv == TypeOK /\ StepsPlanned /\ Conversation

------------------------------------------------------------------------------

\* A subset of the sequence numbers has at most MaxAttempts members.
LEMMA CountBound ==
  ASSUME NEW S \in SUBSET SequenceNos
  PROVE  IsFiniteSet(S) /\ Cardinality(S) \in 0 .. MaxAttempts
<1>1. IsFiniteSet(SequenceNos) /\ Cardinality(SequenceNos) = MaxAttempts
  BY FS_Interval, PolicyAssumption DEF SequenceNos
<1>2. IsFiniteSet(S) /\ Cardinality(S) <= Cardinality(SequenceNos)
  BY <1>1, FS_Subset
<1> QED  BY <1>1, <1>2, FS_CardinalityType, PolicyAssumption

\* The number of attempts on record fits the budget column.
LEMMA CountType == \A c \in Cycles : CountAttempts(c) \in 0 .. MaxAttempts
  BY CountBound DEF CountAttempts

\* Writing one cell of a ledger keeps its type.
LEMMA CellType ==
  ASSUME NEW V, NEW f \in [Cycles -> [SequenceNos -> V]],
         NEW c \in Cycles, NEW n \in SequenceNos, NEW v \in V
  PROVE  [f EXCEPT ![c][n] = v] \in [Cycles -> [SequenceNos -> V]]
OBVIOUS

\* A step that was inserted is a well-formed step of the plan on record.
LEMMA StepType ==
  ASSUME TypeInv, NEW r \in StepRef, Exists(r)
  PROVE  StepAt(r) \in Step
<1>1. PICK c \in Cycles, i \in StepIds : r = <<c, i>>
  BY DEF StepRef
<1>2. plan[c] \in Seq(Step) /\ i \in DOMAIN plan[c]
  BY <1>1, DbAssumption DEF TypeInv, TypeOK, DbTypeOK, StepsPlanned, Exists
<1> QED  BY <1>1, <1>2 DEF StepAt

\* The edges of the FSM the engine takes, evaluated.
LEMMA Edges ==
  /\ Transition("DUE", "CYCLE_FAILED") = "DIAGNOSING"
  /\ Transition("DIAGNOSING", "CAUSE_NORMALIZED") = "PLANNING"
  /\ Transition("PLANNING", "PLAN_READY") = "SCHEDULED"
  /\ Transition("PLANNING", "STOP_AND_ESCALATE") = "ESCALATING"
  /\ Transition("ESCALATING", "ESCALATED") = "AWAITING_MANUAL"
  /\ Transition("SCHEDULED", "STEP_DUE") = "EXECUTING"
  /\ Transition("SCHEDULED", "BUDGET_EXHAUSTED") = "ABANDONED"
  /\ Transition("EXECUTING", "ATTEMPT_FAILED_BUDGET_LEFT") = "SCHEDULED"
  /\ Transition("EXECUTING", "ATTEMPT_SUCCEEDED") = "RECOVERED"
  /\ Transition("EXECUTING", "BUDGET_EXHAUSTED") = "ABANDONED"
<1> DEFINE Only(s, e, x) == \A t \in CaseState : <<s, e, t>> \in Transitions <=> t = x
<1>1. \A s, e : \A x \in CaseState : Only(s, e, x) => Transition(s, e) = x
  BY DEF Transition
<1>2. /\ Only("DUE", "CYCLE_FAILED", "DIAGNOSING")
      /\ Only("DIAGNOSING", "CAUSE_NORMALIZED", "PLANNING")
      /\ Only("PLANNING", "PLAN_READY", "SCHEDULED")
      /\ Only("PLANNING", "STOP_AND_ESCALATE", "ESCALATING")
      /\ Only("ESCALATING", "ESCALATED", "AWAITING_MANUAL")
  BY DEF CaseState, Transitions
<1>3. /\ Only("SCHEDULED", "STEP_DUE", "EXECUTING")
      /\ Only("SCHEDULED", "BUDGET_EXHAUSTED", "ABANDONED")
      /\ Only("EXECUTING", "ATTEMPT_FAILED_BUDGET_LEFT", "SCHEDULED")
      /\ Only("EXECUTING", "ATTEMPT_SUCCEEDED", "RECOVERED")
      /\ Only("EXECUTING", "BUDGET_EXHAUSTED", "ABANDONED")
  BY DEF CaseState, Transitions
<1>4. {"DIAGNOSING", "PLANNING", "SCHEDULED", "ESCALATING", "AWAITING_MANUAL",
       "EXECUTING", "ABANDONED", "RECOVERED"} \subseteq CaseState
  BY DEF CaseState
<1> HIDE DEF Only
<1> QED  BY <1>1, <1>2, <1>3, <1>4

\* A revocation or an opt-out has one outcome wherever it is legal.
LEMMA AbandonEdge ==
  ASSUME NEW s, NEW e \in {"MANDATE_REVOKED", "OPTED_OUT"}, e \in LegalEvents(s)
  PROVE  Transition(s, e) = "ABANDONED"
<1>1. \E t \in CaseState : <<s, e, t>> \in Transitions
  BY DEF LegalEvents
<1>2. \A t \in CaseState : <<s, e, t>> \in Transitions => t = "ABANDONED"
  BY DEF Transitions
<1> QED  BY <1>1, <1>2 DEF Transition

------------------------------------------------------------------------------
(***************************************************************************)
(* Every step preserves TypeInv                                            *)
(***************************************************************************)

\* The tables are initially well-typed, and so is everything else.
LEMMA TypeInit == Init => TypeInv
<1> SUFFICES ASSUME Init PROVE TypeInv
  OBVIOUS
<1> USE DEF Init, DbInit, ApiInit, RailInit, WorkerInit
<1>1. DbTypeOK
  BY PolicyAssumption DEF DbTypeOK, IntentOutcome, StepStatus
<1>2. ApiTypeOK /\ RailTypeOK
  BY DEF ApiTypeOK, RailTypeOK, NothingRead, Reply
<1>3. WorkerTypeOK
  BY DbAssumption, PolicyAssumption DEF WorkerTypeOK, Time, NothingSeen
<1>4. StepsPlanned /\ Conversation
  BY DEF StepsPlanned, Conversation
<1> QED  BY <1>1, <1>2, <1>3, <1>4 DEF TypeInv, TypeOK

\* A request touches neither the rail nor the worker.
LEMMA ApiLeaves ==
  ASSUME TypeInv, UNCHANGED <<railVars, clock, local>>
  PROVE  RailTypeOK' /\ WorkerTypeOK' /\ Conversation'
BY DEF TypeInv, TypeOK, RailTypeOK, WorkerTypeOK, Conversation, railVars, local

\* Well-formedness of a plan step does not depend on anything a request other
\* than a first outcome may change.
LEMMA StepsKept ==
  ASSUME TypeInv, UNCHANGED <<plan, outbox>>, UNCHANGED <<clock, local>>,
         \A c \in Cycles : intents[c][1] # "none" => intents'[c][1] # "none",
         \A c \in Cycles, i \in StepIds :
           stepStatus'[c][i] = "absent" <=> stepStatus[c][i] = "absent"
  PROVE  StepsPlanned'
<1>1. \A r \in StepRef : Exists(r) <=> Exists(r)'
  BY DEF Exists, StepRef
<1>2. batch \subseteq StepRef /\ \A row \in outbox \cup rows : StepOf(row) \in StepRef
  BY DEF TypeInv, TypeOK, DbTypeOK, WorkerTypeOK, StepOf, StepRef, OutboxRow
<1>3. phase \in {"await", "settle"} => StepOf(sending) \in StepRef
  BY DEF TypeInv, StepsPlanned, StepOf, StepRef, OutboxRow
<1>4. \A row : StepOf(row)' = StepOf(row)
  BY DEF StepOf
<1> QED  BY <1>1, <1>2, <1>3, <1>4 DEF TypeInv, StepsPlanned, local

\* cycle.due: the mandate becomes active, the cycle exists.
LEMMA CycleDueTypes ==
  ASSUME TypeInv, NEW w \in Webhooks, IngestCycleDue(w),
         UNCHANGED <<railVars, clock, local>>
  PROVE  TypeInv'
<1> USE DEF IngestCycleDue
<1>1. w.about \in Cycles /\ MandateOf[w.about] \in Mandates
  BY WebhookAssumption, DbAssumption DEF LifecycleEvents
<1>2. DbTypeOK'
  BY <1>1 DEF TypeInv, TypeOK, DbTypeOK, CaseState
<1>3. ApiTypeOK'
  BY DEF TypeInv, TypeOK, ApiTypeOK, apiVars
<1>4. StepsPlanned'
  BY StepsKept
<1> QED  BY <1>2, <1>3, <1>4, ApiLeaves DEF TypeInv, TypeOK

\* A request that opens or closes keeps the request table well-typed.
LEMMA RequestTypes ==
  ASSUME TypeInv, NEW w \in Webhooks,
         BeginRequest(w) \/ CloseRequest(w)
  PROVE  ApiTypeOK'
<1>1. CASE BeginRequest(w)
  BY <1>1 DEF BeginRequest, TypeInv, TypeOK, ApiTypeOK, DbTypeOK
<1>2. CASE CloseRequest(w)
  BY <1>2 DEF CloseRequest, NothingRead, TypeInv, TypeOK, ApiTypeOK
<1> QED  BY <1>1, <1>2

\* Opening a request and rolling it back write no table.
LEMMA NoWriteTypes ==
  ASSUME TypeInv, NEW w \in Webhooks, BeginRequest(w) \/ AbortRequest(w),
         UNCHANGED <<railVars, clock, local>>
  PROVE  TypeInv'
<1>1. ApiTypeOK'
  BY RequestTypes DEF AbortRequest
<1>2. UNCHANGED tables
  BY DEF BeginRequest, AbortRequest
<1>3. DbTypeOK'
  BY <1>2 DEF TypeInv, TypeOK, DbTypeOK, tables
<1>4. StepsPlanned'
  BY <1>2, StepsKept DEF tables
<1> QED  BY <1>1, <1>3, <1>4, ApiLeaves DEF TypeInv, TypeOK

\* Quarantine records the event and nothing else.
LEMMA QuarantineTypes ==
  ASSUME TypeInv, NEW w \in Webhooks, QuarantineStaleOutcome(w),
         UNCHANGED <<railVars, clock, local>>
  PROVE  TypeInv'
<1> USE DEF QuarantineStaleOutcome, CommitRequest
<1>1. ApiTypeOK'
  BY RequestTypes
<1>2. DbTypeOK'
  BY DEF TypeInv, TypeOK, DbTypeOK
<1>3. StepsPlanned'
  BY StepsKept
<1> QED  BY <1>1, <1>2, <1>3, ApiLeaves DEF TypeInv, TypeOK

\* debit.succeeded writes sequence number 1 and recovers the case.
LEMMA SucceededTypes ==
  ASSUME TypeInv, NEW w \in Webhooks, IngestDebitSucceeded(w),
         UNCHANGED <<railVars, clock, local>>
  PROVE  TypeInv'
<1> USE DEF IngestDebitSucceeded, CommitRequest, SetOutcome
<1>1. w.about \in Cycles /\ 1 \in SequenceNos
  BY WebhookAssumption, PolicyAssumption DEF LifecycleEvents, SequenceNos
<1>2. ApiTypeOK'
  BY RequestTypes
<1>3. DbTypeOK'
  BY <1>1, PolicyAssumption
  DEF TypeInv, TypeOK, DbTypeOK, CaseState, IntentOutcome, RailOutcome, SequenceNos
<1>4. \A c \in Cycles : intents[c][1] # "none" => intents'[c][1] # "none"
  BY <1>1 DEF TypeInv, TypeOK, DbTypeOK
<1>5. StepsPlanned'
  BY <1>4, StepsKept
<1> QED  BY <1>2, <1>3, <1>5, ApiLeaves DEF TypeInv, TypeOK

\* Where the transaction of debit.failed leaves the case.
LEMMA PlannedState ==
  ASSUME NEW w, IngestDebitFailedPlanned(w)
  PROVE  cycleState' = [cycleState EXCEPT ![w.about] = "SCHEDULED"]
<1>1. cycleState' = [cycleState EXCEPT ![w.about] =
        Transition(Transition(Transition("DUE", "CYCLE_FAILED"), "CAUSE_NORMALIZED"),
                   "PLAN_READY")]
  BY DEF IngestDebitFailedPlanned
<1> QED  BY <1>1, Edges

LEMMA StoppedState ==
  ASSUME NEW w, IngestDebitFailedStopped(w)
  PROVE  cycleState' = [cycleState EXCEPT ![w.about] = "AWAITING_MANUAL"]
<1>1. cycleState' = [cycleState EXCEPT ![w.about] =
        Transition(Transition(Transition(Transition("DUE", "CYCLE_FAILED"),
                                         "CAUSE_NORMALIZED"),
                              "STOP_AND_ESCALATE"),
                   "ESCALATED")]
  BY DEF IngestDebitFailedStopped
<1> QED  BY <1>1, Edges

\* debit.failed with a plan: the only action that inserts plan steps.  Nothing
\* refers to a step of the cycle yet, because it has no attempt on record.
LEMMA PlannedTypes ==
  ASSUME TypeInv, NEW w \in Webhooks, IngestDebitFailedPlanned(w),
         UNCHANGED <<railVars, clock, local>>
  PROVE  TypeInv'
<1> USE DEF IngestDebitFailedPlanned, DebitFailedCommit, CommitRequest, SetOutcome
<1>1. w.about \in Cycles /\ 1 \in SequenceNos
  BY WebhookAssumption, PolicyAssumption DEF LifecycleEvents, SequenceNos
<1>2. ApiTypeOK'
  BY RequestTypes
<1>3. PICK p \in Plans :
        /\ plan' = [plan EXCEPT ![w.about] = p]
        /\ stepStatus' = [stepStatus EXCEPT ![w.about] =
             [i \in StepIds |-> IF i \in DOMAIN p THEN "pending" ELSE "absent"]]
  OBVIOUS
<1>4. DbTypeOK'
  <2>1. cycleState' = [cycleState EXCEPT ![w.about] = "SCHEDULED"]
    BY PlannedState
  <2>2. intents' \in [Cycles -> [SequenceNos -> IntentOutcome]]
    BY <1>1 DEF TypeInv, TypeOK, DbTypeOK, IntentOutcome, RailOutcome
  <2>3. plan' \in [Cycles -> Plans \cup {<<>>}]
    BY <1>3 DEF TypeInv, TypeOK, DbTypeOK
  <2>4. stepStatus' \in [Cycles -> [StepIds -> StepStatus]]
    BY <1>3 DEF TypeInv, TypeOK, DbTypeOK, StepStatus
  <2> QED
    BY <2>1, <2>2, <2>3, <2>4, PolicyAssumption DEF TypeInv, TypeOK, DbTypeOK, CaseState
<1>5. StepsPlanned'
  <2>1. \A c \in Cycles : /\ c # w.about => stepStatus'[c] = stepStatus[c]
                                            /\ plan'[c] = plan[c]
                                            /\ intents'[c] = intents[c]
                          /\ c = w.about => plan'[c] \in Plans
                                            /\ intents'[c][1] = "failure"
    BY <1>1, <1>3 DEF TypeInv, TypeOK, DbTypeOK
  <2>2. \A i \in StepIds : stepStatus[w.about][i] = "absent"
    BY <1>1 DEF TypeInv, StepsPlanned, AppliesToOpenCycle, CanReserve
  <2>3. \A r \in StepRef : Exists(r) => Exists(r)'
    BY <2>1, <2>2 DEF Exists, StepRef
  <2>4. batch \subseteq StepRef /\ \A row \in outbox \cup rows : StepOf(row) \in StepRef
    BY DEF TypeInv, TypeOK, DbTypeOK, WorkerTypeOK, StepOf, StepRef, OutboxRow
  <2>5. phase \in {"await", "settle"} => StepOf(sending) \in StepRef
    BY DEF TypeInv, StepsPlanned, StepOf, StepRef, OutboxRow
  <2>6. \A row : StepOf(row)' = StepOf(row)
    BY DEF StepOf
  <2>7. \A c \in Cycles, i \in StepIds :
          stepStatus'[c][i] # "absent" => i \in DOMAIN plan'[c] /\ intents'[c][1] # "none"
    BY <1>1, <1>3, <2>1 DEF TypeInv, TypeOK, DbTypeOK, StepsPlanned
  <2> QED
    BY <2>3, <2>4, <2>5, <2>6, <2>7 DEF TypeInv, StepsPlanned, local
<1> QED  BY <1>2, <1>4, <1>5, ApiLeaves DEF TypeInv, TypeOK

\* debit.failed without a plan.
LEMMA StoppedTypes ==
  ASSUME TypeInv, NEW w \in Webhooks, IngestDebitFailedStopped(w),
         UNCHANGED <<railVars, clock, local>>
  PROVE  TypeInv'
<1> USE DEF IngestDebitFailedStopped, DebitFailedCommit, CommitRequest, SetOutcome
<1>1. w.about \in Cycles /\ 1 \in SequenceNos
  BY WebhookAssumption, PolicyAssumption DEF LifecycleEvents, SequenceNos
<1>2. ApiTypeOK'
  BY RequestTypes
<1>3. DbTypeOK'
  <2>1. cycleState' = [cycleState EXCEPT ![w.about] = "AWAITING_MANUAL"]
    BY StoppedState
  <2>2. intents' \in [Cycles -> [SequenceNos -> IntentOutcome]]
    BY <1>1 DEF TypeInv, TypeOK, DbTypeOK, IntentOutcome, RailOutcome
  <2> QED
    BY <2>1, <2>2, PolicyAssumption DEF TypeInv, TypeOK, DbTypeOK, CaseState
<1>4. \A c \in Cycles : intents[c][1] # "none" => intents'[c][1] # "none"
  BY <1>1 DEF TypeInv, TypeOK, DbTypeOK
<1>5. StepsPlanned'
  BY <1>4, StepsKept
<1> QED  BY <1>2, <1>3, <1>5, ApiLeaves DEF TypeInv, TypeOK

\* Abandoning closes some cycles and adds or removes no step.
LEMMA AbandonEffect ==
  ASSUME TypeInv, NEW w \in Webhooks, NEW e \in {"MANDATE_REVOKED", "OPTED_OUT"},
         AbandonInFlightCycles(w, e)
  PROVE  /\ cycleState' \in [Cycles -> CaseState \cup {"absent"}]
         /\ \A c \in Cycles : cycleState'[c] \in {cycleState[c], "ABANDONED"}
         /\ stepStatus' \in [Cycles -> [StepIds -> StepStatus]]
         /\ \A c \in Cycles, i \in StepIds :
              stepStatus'[c][i] = "absent" <=> stepStatus[c][i] = "absent"
<1> DEFINE abandoned == {c \in CyclesOf(w) : /\ readState[w][c] \notin TerminalStates
                                            /\ e \in LegalEvents(readState[w][c])}
<1>1. cycleState' = [c \in Cycles |-> IF c \in abandoned
                                      THEN Transition(readState[w][c], e)
                                      ELSE cycleState[c]]
  BY DEF AbandonInFlightCycles
<1>2. stepStatus' = [c \in Cycles |-> IF c \in abandoned THEN CancelPending(stepStatus[c])
                                                         ELSE stepStatus[c]]
  BY DEF AbandonInFlightCycles
<1>3. \A c \in abandoned : Transition(readState[w][c], e) = "ABANDONED"
  BY AbandonEdge
<1> HIDE DEF abandoned
<1>4. \A c \in Cycles : cycleState'[c] \in {cycleState[c], "ABANDONED"}
  BY <1>1, <1>3
<1>5. cycleState' \in [Cycles -> CaseState \cup {"absent"}]
  BY <1>1, <1>4 DEF TypeInv, TypeOK, DbTypeOK, CaseState
<1>6. \A c \in Cycles : /\ CancelPending(stepStatus[c]) \in [StepIds -> StepStatus]
                        /\ \A i \in StepIds : CancelPending(stepStatus[c])[i] = "absent"
                                                <=> stepStatus[c][i] = "absent"
  BY DEF TypeInv, TypeOK, DbTypeOK, CancelPending, StepStatus
<1> QED
  BY <1>2, <1>4, <1>5, <1>6 DEF TypeInv, TypeOK, DbTypeOK

\* mandate.revoked and notification.opted_out.
LEMMA LifecycleTypes ==
  ASSUME TypeInv, NEW w \in Webhooks,
         IngestMandateRevoked(w) \/ IngestNotificationOptedOut(w),
         UNCHANGED <<railVars, clock, local>>
  PROVE  TypeInv'
<1>1. PICK e \in {"MANDATE_REVOKED", "OPTED_OUT"} : AbandonInFlightCycles(w, e)
  BY DEF IngestMandateRevoked, IngestNotificationOptedOut
<1>2. w.about \in Mandates /\ CommitRequest(w)
  BY WebhookAssumption
  DEF IngestMandateRevoked, IngestNotificationOptedOut, LifecycleEvents
<1>3. ApiTypeOK'
  BY <1>2, RequestTypes DEF CommitRequest
<1>4. /\ UNCHANGED <<killSwitches, attemptsUsed, intents, plan, notices, outbox, lockedSteps>>
      /\ mandateStatus' \in [Mandates -> {"absent", "active", "revoked"}]
      /\ optedOut' \in [Mandates -> BOOLEAN]
  BY <1>2 DEF IngestMandateRevoked, IngestNotificationOptedOut, TypeInv, TypeOK, DbTypeOK
<1>5. DbTypeOK'
  BY <1>1, <1>2, <1>4, AbandonEffect DEF TypeInv, TypeOK, DbTypeOK, CommitRequest
<1>6. StepsPlanned'
  BY <1>1, <1>4, AbandonEffect, StepsKept
<1> QED  BY <1>3, <1>5, <1>6, ApiLeaves DEF TypeInv, TypeOK

\* Every request step.
LEMMA ApiTypes == TypeInv /\ ApiStep => TypeInv'
<1> SUFFICES ASSUME TypeInv, ApiStep PROVE TypeInv'
  OBVIOUS
<1>1. UNCHANGED <<railVars, clock, local>>
  BY DEF ApiStep
<1>2. PICK w \in Webhooks :
        \/ IngestCycleDue(w) \/ BeginRequest(w) \/ AbortRequest(w)
        \/ QuarantineStaleOutcome(w) \/ IngestDebitSucceeded(w)
        \/ IngestDebitFailedPlanned(w) \/ IngestDebitFailedStopped(w)
        \/ IngestMandateRevoked(w) \/ IngestNotificationOptedOut(w)
  BY DEF ApiStep, IngestNext
<1> QED
  BY <1>1, <1>2, CycleDueTypes, NoWriteTypes, QuarantineTypes, SucceededTypes,
     PlannedTypes, StoppedTypes, LifecycleTypes

------------------------------------------------------------------------------

\* An answer reaches the client only if it still waits.
LEMMA AnswerTypes ==
  ASSUME TypeInv, NEW q \in handling, NEW what \in Reply, Answer(q, what),
         UNCHANGED phase
  PROVE  Conversation' /\ handling' \subseteq Handler /\ reply' \in Reply
<1>1. handling' \subseteq Handler /\ reply' \in Reply
  BY DEF Answer, TypeInv, TypeOK, RailTypeOK
<1>2. Conversation'
  BY DEF Answer, TypeInv, Conversation
<1> QED  BY <1>1, <1>2

\* Every step of a handler at the rail.
LEMMA RailTypes == TypeInv /\ RailStep => TypeInv'
<1> SUFFICES ASSUME TypeInv, RailStep PROVE TypeInv'
  OBVIOUS
<1>1. UNCHANGED <<tables, apiVars, clock, local>>
  BY DEF RailStep
<1>2. DbTypeOK' /\ ApiTypeOK' /\ WorkerTypeOK'
  BY <1>1 DEF TypeInv, TypeOK, DbTypeOK, ApiTypeOK, WorkerTypeOK, tables, apiVars, local
<1>3. StepsPlanned'
  BY <1>1, StepsKept DEF tables, local
<1>4. PICK q \in handling :
        RailReplay(q) \/ RailRefuse(q) \/ RailDown(q) \/ RailAccept(q) \/ RailPersist(q)
  BY DEF RailStep, RailNext
<1>5. q \in Handler /\ q.row.cycle \in Cycles /\ q.row.seq \in SequenceNos
  BY <1>4 DEF TypeInv, TypeOK, RailTypeOK, Handler, OutboxRow
<1>6. RailRecord(q) \in RailOutcome \cup {"none"}
  BY <1>5 DEF RailRecord, TypeInv, TypeOK, RailTypeOK
<1>7. UNCHANGED phase
  BY <1>1 DEF local
<1>8. RailTypeOK' /\ Conversation'
  <2>1. CASE RailReplay(q)
    BY <2>1, <1>4, <1>6, <1>7, AnswerTypes DEF RailReplay, RailTypeOK, Reply, TypeInv, TypeOK
  <2>2. CASE RailRefuse(q) \/ RailDown(q)
    BY <2>2, <1>4, <1>7, AnswerTypes
    DEF RailRefuse, RailDown, RailTypeOK, Reply, TypeInv, TypeOK
  <2>3. CASE RailAccept(q)
    <3>1. RailTypeOK'
      BY <2>3, <1>5 DEF RailAccept, TypeInv, TypeOK, RailTypeOK, Handler
    <3>2. Conversation'
      <4> DEFINE e == [q EXCEPT !.stage = "executing"]
      <4>1. e.awaited = q.awaited
        BY <1>5 DEF Handler
      <4>2. /\ \A p \in handling' : p = e \/ (p \in handling /\ p # q)
            /\ reply' = reply
        BY <2>3 DEF RailAccept
      <4>3. q \in handling /\ phase' = phase
        BY <1>4, <1>7
      <4> HIDE DEF e
      <4>4. \A p \in handling' : p.awaited => phase' = "await" /\ reply' = "none"
        BY <4>1, <4>2, <4>3 DEF TypeInv, Conversation
      <4>5. \A p, o \in handling' : p.awaited /\ o.awaited => p = o
        BY <4>1, <4>2, <4>3 DEF TypeInv, Conversation
      <4>6. phase' = "settle" => reply' \in RailOutcome
        BY <4>2, <4>3 DEF TypeInv, Conversation
      <4> QED  BY <4>4, <4>5, <4>6 DEF Conversation
    <3> QED  BY <3>1, <3>2
  <2>4. CASE RailPersist(q)
    <3>1. PICK what \in Reply : Answer(q, what)
      BY <2>4 DEF RailPersist, Reply
    <3>2. railOutcome' \in [Cycles -> [SequenceNos -> RailOutcome \cup {"none"}]]
      <4>1. \/ UNCHANGED railOutcome
            \/ \E outcome \in RailOutcome :
                 railOutcome' = [railOutcome EXCEPT ![q.row.cycle][q.row.seq] = outcome]
        BY <2>4 DEF RailPersist
      <4>2. \A outcome \in RailOutcome :
              [railOutcome EXCEPT ![q.row.cycle][q.row.seq] = outcome]
                \in [Cycles -> [SequenceNos -> RailOutcome \cup {"none"}]]
        BY <1>5, CellType DEF TypeInv, TypeOK, RailTypeOK
      <4> QED  BY <4>1, <4>2 DEF TypeInv, TypeOK, RailTypeOK
    <3> QED  BY <3>1, <3>2, <1>4, <1>7, AnswerTypes DEF RailTypeOK
  <2> QED  BY <1>4, <2>1, <2>2, <2>3, <2>4
<1> QED  BY <1>2, <1>3, <1>8 DEF TypeInv, TypeOK

------------------------------------------------------------------------------

\* References to plan steps stay good while no step is added or removed.
LEMMA StepsStillPlanned ==
  ASSUME TypeInv, UNCHANGED plan,
         \A c \in Cycles : intents[c][1] # "none" => intents'[c][1] # "none",
         \A c \in Cycles, i \in StepIds :
           stepStatus'[c][i] = "absent" <=> stepStatus[c][i] = "absent",
         batch' \subseteq StepRef, \A r \in batch' : Exists(r),
         phase' = "decide" => current' \in StepRef /\ Exists(current'),
         outbox' \cup rows' \subseteq OutboxRow,
         \A row \in outbox' \cup rows' : Exists(StepOf(row)),
         phase' \in {"await", "settle"} =>
           sending' \in OutboxRow /\ Exists(StepOf(sending'))
  PROVE  StepsPlanned'
<1>1. \A r \in StepRef : Exists(r) => Exists(r)'
  BY DEF Exists, StepRef
<1>2. \A row \in OutboxRow : StepOf(row) \in StepRef /\ StepOf(row)' = StepOf(row)
  BY DEF StepOf, StepRef, OutboxRow
<1>3. phase' = "decide" => Exists(current)'
  BY DEF Exists, StepRef
<1>4. phase' \in {"await", "settle"} => Exists(StepOf(sending))'
  BY DEF Exists, StepOf, OutboxRow
<1> QED  BY <1>1, <1>2, <1>3, <1>4 DEF TypeInv, StepsPlanned

\* The worker between a read and a write: no table changes.
LEMMA WorkerReadTypes ==
  ASSUME TypeInv,
         \/ \E r \in batch : ReadStep(r)
         \/ FetchOutbox \/ ReadDeliveredCycle \/ FindExhaustedPlans \/ EndTick
         \/ \E row \in rows : SendToRail(row),
         UNCHANGED apiVars
  PROVE  TypeInv'
<1> USE DEF ReadStep, FetchOutbox, ReadDeliveredCycle, FindExhaustedPlans, EndTick,
            SendToRail, Post
<1>1. UNCHANGED tables
  OBVIOUS
<1>2. DbTypeOK' /\ ApiTypeOK'
  BY <1>1 DEF TypeInv, TypeOK, DbTypeOK, ApiTypeOK, tables, apiVars
<1>3. RailTypeOK' /\ Conversation'
  <2>1. CASE \E row \in rows : SendToRail(row)
    <3>1. PICK row \in rows : SendToRail(row)
      BY <2>1
    <3> DEFINE h == [row |-> row, stage |-> "sent", awaited |-> TRUE]
    <3>2. h \in Handler /\ h.awaited
      BY DEF Handler, TypeInv, TypeOK, WorkerTypeOK
    <3>3. /\ handling' = handling \cup {h}
          /\ phase = "drain" /\ phase' = "await" /\ reply' = "none"
          /\ UNCHANGED railOutcome
      BY <3>1
    <3>4. \A q \in handling : ~q.awaited
      BY <3>3 DEF TypeInv, Conversation
    <3> HIDE DEF h
    <3> QED
      BY <3>2, <3>3, <3>4 DEF TypeInv, TypeOK, RailTypeOK, Conversation, Reply
  <2>2. CASE ~\E row \in rows : SendToRail(row)
    BY <2>2 DEF TypeInv, TypeOK, RailTypeOK, Conversation, Reply, RailOutcome, railVars
  <2> QED  BY <2>1, <2>2
<1>4. WorkerTypeOK'
  <2>1. \A c \in Cycles : CountAttempts(c) \in 0 .. MaxAttempts
    BY CountType
  <2>2. \A r \in StepRef : r[1] \in Cycles /\ Verdict(r) \in BOOLEAN
    BY DEF Verdict, StepRef, AttemptAuthorized, NotifyAuthorized, CaseOpenForAction
  <2>3. 0 \in Time /\ 0 \in 0 .. MaxAttempts
    BY DbAssumption, PolicyAssumption DEF Time
  <2> USE <2>3 DEF TypeInv, TypeOK, DbTypeOK, WorkerTypeOK
  <2>4. ASSUME NEW r \in batch, ReadStep(r) PROVE WorkerTypeOK'
    <3>1. r \in StepRef
      OBVIOUS
    <3>2. seen' \in [state : CaseState \cup {"absent"}, attempts : 0 .. MaxAttempts,
                    allowed : BOOLEAN]
      BY <2>1, <2>2, <2>4, <3>1
    <3> QED  BY <2>4, <3>1, <3>2
  <2>5. ASSUME NEW row \in rows, SendToRail(row) PROVE WorkerTypeOK'
    BY <2>5
  <2>6. CASE ReadDeliveredCycle
    <3>1. cycleState[sending.cycle] \in CaseState \cup {"absent"}
      BY <2>6 DEF StepsPlanned, OutboxRow
    <3> QED  BY <2>6, <3>1 DEF NothingSeen
  <2>7. CASE FetchOutbox \/ FindExhaustedPlans \/ EndTick
    BY <2>7
  <2> QED  BY <2>4, <2>5, <2>6, <2>7
<1>5. StepsPlanned'
  BY <1>1 DEF TypeInv, TypeOK, DbTypeOK, WorkerTypeOK, StepsPlanned, Exists, StepOf, tables
<1> QED  BY <1>2, <1>3, <1>4, <1>5 DEF TypeInv, TypeOK

\* The start of a tick takes the due steps.
LEMMA StartTypes == TypeInv /\ StartTick => TypeInv'
<1> SUFFICES ASSUME TypeInv, StartTick PROVE TypeInv'
  OBVIOUS
<1> USE DEF StartTick, FetchDueSteps
<1>1. DueSteps(clock) \subseteq StepRef /\ \A r \in DueSteps(clock) : Exists(r)
  BY DEF DueSteps, Exists
<1>2. DbTypeOK' /\ ApiTypeOK' /\ RailTypeOK'
  BY <1>1 DEF TypeInv, TypeOK, DbTypeOK, ApiTypeOK, RailTypeOK, apiVars, railVars
<1>3. WorkerTypeOK'
  BY <1>1 DEF TypeInv, TypeOK, WorkerTypeOK
<1>4. Conversation'
  BY DEF TypeInv, Conversation, railVars
<1>5. StepsPlanned'
  BY <1>1, StepsStillPlanned DEF TypeInv, TypeOK, DbTypeOK, WorkerTypeOK, StepsPlanned
<1> QED  BY <1>2, <1>3, <1>4, <1>5 DEF TypeInv, TypeOK

\* A crash gives up the local state of the worker; a failed request only stops
\* the waiting.
LEMMA FaultTypes ==
  TypeInv /\ (RequestError \/ WorkerCrash) /\ UNCHANGED apiVars => TypeInv'
<1> SUFFICES ASSUME TypeInv, RequestError \/ WorkerCrash, UNCHANGED apiVars
             PROVE  TypeInv'
  OBVIOUS
<1>1. UNCHANGED <<mandateStatus, optedOut, killSwitches, events, cycleState,
                  attemptsUsed, intents, plan, stepStatus, notices, outbox,
                  railOutcome, clock>>
      /\ lockedSteps' \in {lockedSteps, {}}
  BY DEF RequestError, WorkerCrash, tables
<1>2. DbTypeOK' /\ ApiTypeOK'
  BY <1>1 DEF TypeInv, TypeOK, DbTypeOK, ApiTypeOK, apiVars
<1>3. RailTypeOK' /\ Conversation'
  <2> DEFINE quiet(q) == [q EXCEPT !.awaited = FALSE]
             unawaited == {quiet(q) : q \in handling}
  <2>1. /\ handling' = unawaited
        /\ reply' \in {"error", "none"}
        /\ phase' # "settle"
    BY DEF RequestError, WorkerCrash, StopWaiting, local
  <2>2. \A q \in handling : quiet(q) \in Handler /\ quiet(q).awaited = FALSE
    BY DEF TypeInv, TypeOK, RailTypeOK, Handler
  <2> HIDE DEF quiet
  <2>3. \A q \in unawaited : q \in Handler /\ q.awaited = FALSE
    BY <2>2
  <2> HIDE DEF unawaited
  <2> QED
    BY <1>1, <2>1, <2>3 DEF TypeInv, TypeOK, RailTypeOK, Conversation, Reply
<1>4. WorkerTypeOK'
  <2>1. CASE RequestError
    BY <2>1 DEF RequestError, local, TypeInv, TypeOK, WorkerTypeOK
  <2>2. CASE WorkerCrash
    BY <2>2, DbAssumption, PolicyAssumption
    DEF WorkerCrash, NothingSeen, Time, TypeInv, TypeOK, WorkerTypeOK
  <2> QED  BY <2>1, <2>2
<1>5. StepsPlanned'
  <2>1. CASE RequestError
    BY <2>1, <1>1, StepsStillPlanned
    DEF RequestError, local, TypeInv, TypeOK, DbTypeOK, WorkerTypeOK, StepsPlanned
  <2>2. CASE WorkerCrash
    BY <2>2, <1>1, StepsStillPlanned
    DEF WorkerCrash, TypeInv, TypeOK, DbTypeOK, StepsPlanned
  <2> QED  BY <2>1, <2>2
<1> QED  BY <1>2, <1>3, <1>4, <1>5 DEF TypeInv, TypeOK

\* Setting the status of a step that exists.
LEMMA StatusWrite ==
  ASSUME TypeInv, NEW r \in StepRef, Exists(r),
         NEW status \in StepStatus \ {"absent"}, SetStepStatus(r[1], r[2], status)
  PROVE  /\ stepStatus' \in [Cycles -> [StepIds -> StepStatus]]
         /\ \A c \in Cycles, i \in StepIds :
              stepStatus'[c][i] = "absent" <=> stepStatus[c][i] = "absent"
BY DEF TypeInv, TypeOK, DbTypeOK, StepRef, Exists, SetStepStatus

\* The common part of the three ways a due step is committed.
LEMMA CommitStepTypes ==
  ASSUME TypeInv, NEW status \in StepStatus \ {"absent"}, CommitStep(status),
         UNCHANGED apiVars, notices' \in [Cycles -> SUBSET Notice],
         cycleState' \in [Cycles -> CaseState \cup {"absent"}],
         intents' \in [Cycles -> [SequenceNos -> IntentOutcome]],
         \A c \in Cycles : intents[c][1] # "none" => intents'[c][1] # "none",
         outbox' \subseteq OutboxRow, \A row \in outbox' : Exists(StepOf(row))
  PROVE  TypeInv'
<1> USE DEF CommitStep
<1>1. current \in StepRef /\ Exists(current)
  BY DEF TypeInv, StepsPlanned
<1>2. /\ stepStatus' \in [Cycles -> [StepIds -> StepStatus]]
      /\ \A c \in Cycles, i \in StepIds :
           stepStatus'[c][i] = "absent" <=> stepStatus[c][i] = "absent"
  BY <1>1, StatusWrite
<1>3. DbTypeOK'
  BY <1>2 DEF TypeInv, TypeOK, DbTypeOK
<1>4. ApiTypeOK' /\ RailTypeOK' /\ Conversation'
  BY DEF TypeInv, TypeOK, ApiTypeOK, RailTypeOK, Conversation, apiVars, railVars
<1>5. WorkerTypeOK'
  BY PolicyAssumption DEF TypeInv, TypeOK, WorkerTypeOK, NothingSeen
<1>6. StepsPlanned'
  BY <1>2, StepsStillPlanned DEF TypeInv, TypeOK, WorkerTypeOK, StepsPlanned
<1> QED  BY <1>3, <1>4, <1>5, <1>6 DEF TypeInv, TypeOK

\* The three ways a due step is committed.
LEMMA StepTypes ==
  ASSUME TypeInv, CancelStep \/ ProcessNotifyStep \/ DispatchAttempt, UNCHANGED apiVars
  PROVE  TypeInv'
<1>0. {"cancelled", "done", "dispatched"} \subseteq StepStatus \ {"absent"}
  BY DEF StepStatus
<1>1. /\ notices \in [Cycles -> SUBSET Notice]
      /\ cycleState \in [Cycles -> CaseState \cup {"absent"}]
      /\ intents \in [Cycles -> [SequenceNos -> IntentOutcome]]
      /\ outbox \subseteq OutboxRow /\ \A row \in outbox : Exists(StepOf(row))
  BY DEF TypeInv, TypeOK, DbTypeOK, StepsPlanned
<1>2. CASE CancelStep
  <2>1. CommitStep("cancelled") /\ UNCHANGED <<cycleState, intents, notices, outbox>>
    BY <1>2 DEF CancelStep
  <2> QED  BY <1>0, <1>1, <2>1, CommitStepTypes
<1>3. ASSUME phase = "decide"
      PROVE  /\ current \in StepRef /\ Exists(current) /\ current[1] \in Cycles
             /\ StepAt(current) \in Step
  BY <1>3, StepType DEF TypeInv, StepsPlanned, StepRef
<1>4. CASE ProcessNotifyStep
  <2> DEFINE s == StepAt(current)
             notice == [sent |-> s.at, covers |-> s.covers, sentReally |-> now]
  <2>1. /\ CommitStep("done") /\ UNCHANGED <<cycleState, intents, outbox>>
        /\ notices' = IF s.covers = NoTime THEN notices
                      ELSE [notices EXCEPT ![current[1]] = @ \cup {notice}]
    BY <1>4 DEF ProcessNotifyStep
  <2>2. s \in Step /\ current[1] \in Cycles
    BY <1>3, <2>1 DEF CommitStep
  <2>3. s.covers # NoTime => notice \in Notice
    BY <2>2 DEF Step, Notice, TypeInv, TypeOK, WorkerTypeOK
  <2>4. notices' \in [Cycles -> SUBSET Notice]
    <3> HIDE DEF notice
    <3> QED  BY <1>1, <2>1, <2>2, <2>3
  <2> QED  BY <1>0, <1>1, <2>1, <2>4, CommitStepTypes
<1>5. CASE DispatchAttempt
  <2> DEFINE c == current[1]
             n == seen.attempts + 1
             row == [cycle |-> c, seq |-> n, step |-> current[2], at |-> StepAt(current).at]
  <2>1. /\ CommitStep("dispatched") /\ seen.state = "SCHEDULED" /\ CanReserve(c, n)
        /\ cycleState' = [cycleState EXCEPT ![c] = Transition(seen.state, "STEP_DUE")]
        /\ intents' = [intents EXCEPT ![c][n] = "reserved"]
        /\ outbox' = outbox \cup {row}
        /\ UNCHANGED notices
    BY <1>5 DEF DispatchAttempt, SetOutcome
  <2>2. /\ current \in StepRef /\ Exists(current) /\ c \in Cycles
        /\ StepAt(current) \in Step
    BY <1>3, <2>1 DEF CommitStep
  <2>3. n \in SequenceNos /\ row \in OutboxRow /\ StepOf(row) = current
    BY <2>1, <2>2 DEF CanReserve, OutboxRow, Step, StepRef, StepOf
  <2>4. cycleState' = [cycleState EXCEPT ![c] = "EXECUTING"]
    BY <2>1, Edges
  <2> HIDE DEF c, n, row
  <2>5. cycleState' \in [Cycles -> CaseState \cup {"absent"}]
    BY <1>1, <2>2, <2>4 DEF CaseState
  <2>6. intents' \in [Cycles -> [SequenceNos -> IntentOutcome]]
    BY <1>1, <2>1, <2>2, <2>3, CellType DEF IntentOutcome
  <2>7. \A d \in Cycles : intents[d][1] # "none" => intents'[d][1] # "none"
    BY <1>1, <2>1, <2>2, <2>3
  <2>8. outbox' \subseteq OutboxRow /\ \A r \in outbox' : Exists(StepOf(r))
    BY <1>1, <2>1, <2>2, <2>3
  <2> QED  BY <1>0, <1>1, <2>1, <2>5, <2>6, <2>7, <2>8, CommitStepTypes
<1> QED  BY <1>2, <1>4, <1>5

\* The common part of the ways an outbox row is handled: the case of the row
\* moves to state, its step to status, and nothing refers to new steps.
LEMMA RowHandledTypes ==
  ASSUME TypeInv, RowHandled, UNCHANGED apiVars,
         phase = "settle" \/ reply \in {"error", "denied"},
         UNCHANGED <<events, mandateStatus, optedOut, killSwitches, plan, notices,
                     lockedSteps>>,
         cycleState' \in [Cycles -> CaseState \cup {"absent"}],
         attemptsUsed' \in [Cycles -> 0 .. MaxAttempts],
         intents' \in [Cycles -> [SequenceNos -> IntentOutcome]],
         \A c \in Cycles : intents[c][1] # "none" => intents'[c][1] # "none",
         outbox' \subseteq outbox,
         stepStatus' \in [Cycles -> [StepIds -> StepStatus]],
         \A c \in Cycles, i \in StepIds :
           stepStatus'[c][i] = "absent" <=> stepStatus[c][i] = "absent"
  PROVE  TypeInv'
<1> USE DEF RowHandled
<1>1. DbTypeOK' /\ ApiTypeOK'
  BY DEF TypeInv, TypeOK, DbTypeOK, ApiTypeOK, apiVars
<1>2. RailTypeOK'
  BY DEF TypeInv, TypeOK, RailTypeOK, Reply
<1>3. Conversation'
  BY DEF TypeInv, Conversation
<1>4. WorkerTypeOK'
  BY PolicyAssumption DEF TypeInv, TypeOK, WorkerTypeOK, NothingSeen
<1>5. StepsPlanned'
  BY StepsStillPlanned DEF TypeInv, TypeOK, DbTypeOK, WorkerTypeOK, StepsPlanned
<1> QED  BY <1>1, <1>2, <1>3, <1>4, <1>5 DEF TypeInv, TypeOK

\* Writing an outcome for the row being sent.
LEMMA OutcomeWrite ==
  ASSUME TypeInv, sending \in OutboxRow, NEW o \in IntentOutcome \ {"none"},
         SetOutcome(sending.cycle, sending.seq, o)
  PROVE  /\ intents' \in [Cycles -> [SequenceNos -> IntentOutcome]]
         /\ \A c \in Cycles : intents[c][1] # "none" => intents'[c][1] # "none"
<1>1. sending.cycle \in Cycles /\ sending.seq \in SequenceNos
  BY DEF OutboxRow
<1>2. intents \in [Cycles -> [SequenceNos -> IntentOutcome]]
  BY DEF TypeInv, TypeOK, DbTypeOK
<1>3. intents' = [intents EXCEPT ![sending.cycle][sending.seq] = o]
  BY DEF SetOutcome
<1> QED  BY <1>1, <1>2, <1>3, CellType

\* Writing the status of the step whose row is being sent.
LEMMA SentStepWrite ==
  ASSUME TypeInv, sending \in OutboxRow, Exists(StepOf(sending)),
         NEW status \in StepStatus \ {"absent"},
         SetStepStatus(sending.cycle, sending.step, status)
  PROVE  /\ stepStatus' \in [Cycles -> [StepIds -> StepStatus]]
         /\ \A c \in Cycles, i \in StepIds :
              stepStatus'[c][i] = "absent" <=> stepStatus[c][i] = "absent"
<1>1. StepOf(sending) \in StepRef
  BY DEF StepOf, StepRef, OutboxRow
<1>2. StepOf(sending)[1] = sending.cycle /\ StepOf(sending)[2] = sending.step
  BY DEF StepOf
<1> QED  BY <1>1, <1>2, StatusWrite

\* The case closes: the step sent is done, the pending ones are cancelled.
LEMMA CloseStepsWrite ==
  ASSUME TypeInv, sending \in OutboxRow, Exists(StepOf(sending)), CloseSteps
  PROVE  /\ stepStatus' \in [Cycles -> [StepIds -> StepStatus]]
         /\ \A c \in Cycles, i \in StepIds :
              stepStatus'[c][i] = "absent" <=> stepStatus[c][i] = "absent"
<1> DEFINE marked == [stepStatus[sending.cycle] EXCEPT ![sending.step] = "done"]
<1>1. /\ stepStatus \in [Cycles -> [StepIds -> StepStatus]]
      /\ sending.cycle \in Cycles /\ sending.step \in StepIds
      /\ stepStatus[sending.cycle][sending.step] # "absent"
  BY DEF TypeInv, TypeOK, DbTypeOK, OutboxRow, Exists, StepOf
<1>2. /\ marked \in [StepIds -> StepStatus]
      /\ \A i \in StepIds : marked[i] = "absent"
                              <=> stepStatus[sending.cycle][i] = "absent"
  BY <1>1 DEF StepStatus
<1>3. stepStatus' = [stepStatus EXCEPT ![sending.cycle] = CancelPending(marked)]
  BY <1>1 DEF CloseSteps
<1> HIDE DEF marked
<1>4. /\ CancelPending(marked) \in [StepIds -> StepStatus]
      /\ \A i \in StepIds : CancelPending(marked)[i] = "absent" <=> marked[i] = "absent"
  BY <1>2 DEF CancelPending, StepStatus
<1> QED  BY <1>1, <1>2, <1>3, <1>4

\* A request that failed or was refused.
LEMMA RefusedRowTypes ==
  ASSUME TypeInv, RetryLater \/ HandleRailDenied, UNCHANGED apiVars
  PROVE  TypeInv'
<1>1. CASE RetryLater
  <2>1. RowHandled /\ reply = "error" /\ UNCHANGED tables
    BY <1>1 DEF RetryLater
  <2>2. TypeOK
    BY DEF TypeInv
  <2> QED  BY <2>1, <2>2, RowHandledTypes DEF tables, TypeOK, DbTypeOK
<1>2. CASE HandleRailDenied
  <2>1. /\ RowHandled /\ phase = "await" /\ reply = "denied"
        /\ UNCHANGED <<events, mandateStatus, optedOut, killSwitches, cycleState,
                       attemptsUsed, plan, notices, lockedSteps>>
        /\ SetOutcome(sending.cycle, sending.seq, "blocked")
        /\ SetStepStatus(sending.cycle, sending.step, "cancelled")
        /\ outbox' = outbox \ {sending}
    BY <1>2 DEF HandleRailDenied
  <2>2. sending \in OutboxRow /\ Exists(StepOf(sending))
    BY <2>1 DEF TypeInv, StepsPlanned
  <2>3. "blocked" \in IntentOutcome \ {"none"} /\ "cancelled" \in StepStatus \ {"absent"}
    BY DEF IntentOutcome, StepStatus
  <2>4. /\ cycleState' \in [Cycles -> CaseState \cup {"absent"}]
        /\ attemptsUsed' \in [Cycles -> 0 .. MaxAttempts]
    BY <2>1 DEF TypeInv, TypeOK, DbTypeOK
  <2> QED  BY <2>1, <2>2, <2>3, <2>4, OutcomeWrite, SentStepWrite, RowHandledTypes
<1> QED  BY <1>1, <1>2

\* A delivered outcome is committed.
LEMMA DeliveredTypes ==
  ASSUME TypeInv, CommitDelivered, UNCHANGED apiVars,
         cycleState' \in [Cycles -> CaseState \cup {"absent"}],
         attemptsUsed' \in [Cycles -> 0 .. MaxAttempts],
         \/ SetStepStatus(sending.cycle, sending.step, "done")
         \/ CloseSteps
  PROVE  TypeInv'
<1>1. /\ RowHandled /\ phase = "settle"
      /\ SetOutcome(sending.cycle, sending.seq, reply)
      /\ outbox' = outbox \ {sending}
      /\ UNCHANGED <<events, mandateStatus, optedOut, killSwitches, plan, notices,
                     lockedSteps>>
  BY DEF CommitDelivered
<1>2. sending \in OutboxRow /\ Exists(StepOf(sending)) /\ reply \in RailOutcome
  BY <1>1 DEF TypeInv, StepsPlanned, Conversation
<1>3. reply \in IntentOutcome \ {"none"} /\ "done" \in StepStatus \ {"absent"}
  BY <1>2 DEF IntentOutcome, RailOutcome, StepStatus
<1> QED
  BY <1>1, <1>2, <1>3, OutcomeWrite, SentStepWrite, CloseStepsWrite, RowHandledTypes

\* Where settling leaves the case, and the column it refreshes.
LEMMA MoveCaseTypes ==
  ASSUME TypeInv,
         NEW e \in {"ATTEMPT_SUCCEEDED", "BUDGET_EXHAUSTED", "ATTEMPT_FAILED_BUDGET_LEFT"},
         MoveCase(e)
  PROVE  /\ CommitDelivered
         /\ cycleState' \in [Cycles -> CaseState \cup {"absent"}]
         /\ attemptsUsed' \in [Cycles -> 0 .. MaxAttempts]
<1>1. Transition("EXECUTING", e) \in CaseState
  BY Edges DEF CaseState
<1>2. /\ CommitDelivered
      /\ cycleState' = [cycleState EXCEPT ![sending.cycle] = Transition("EXECUTING", e)]
      /\ attemptsUsed' = [attemptsUsed EXCEPT ![sending.cycle] =
                            CountAttempts(sending.cycle)]
  BY DEF MoveCase
<1>3. sending.cycle \in Cycles
  BY <1>2 DEF CommitDelivered, TypeInv, StepsPlanned, OutboxRow
<1>4. CountAttempts(sending.cycle) \in 0 .. MaxAttempts
  BY <1>3, CountType
<1> QED  BY <1>1, <1>2, <1>3, <1>4 DEF TypeInv, TypeOK, DbTypeOK

\* The four ways a delivered outcome is settled.
LEMMA SettleTypes ==
  ASSUME TypeInv, UNCHANGED apiVars,
         DeliveredAfterClose \/ AttemptSucceeded \/ BudgetExhausted \/ AttemptFailed
  PROVE  TypeInv'
<1>1. CASE DeliveredAfterClose
  <2>1. /\ CommitDelivered /\ UNCHANGED <<cycleState, attemptsUsed>>
        /\ SetStepStatus(sending.cycle, sending.step, "done")
    BY <1>1 DEF DeliveredAfterClose
  <2>2. /\ cycleState' \in [Cycles -> CaseState \cup {"absent"}]
        /\ attemptsUsed' \in [Cycles -> 0 .. MaxAttempts]
    BY <2>1 DEF TypeInv, TypeOK, DbTypeOK
  <2> QED  BY <2>1, <2>2, DeliveredTypes
<1>2. CASE AttemptSucceeded \/ BudgetExhausted \/ AttemptFailed
  <2>1. PICK e \in {"ATTEMPT_SUCCEEDED", "BUDGET_EXHAUSTED",
                    "ATTEMPT_FAILED_BUDGET_LEFT"} :
          /\ MoveCase(e)
          /\ CloseSteps \/ SetStepStatus(sending.cycle, sending.step, "done")
    BY <1>2 DEF AttemptSucceeded, BudgetExhausted, AttemptFailed
  <2> QED  BY <2>1, MoveCaseTypes, DeliveredTypes
<1> QED  BY <1>1, <1>2

\* The sweep closes a case by its state column alone.
LEMMA SweepTypes ==
  ASSUME TypeInv, NEW c \in sweepList, SweepCycle(c), UNCHANGED apiVars
  PROVE  TypeInv'
<1>1. /\ cycleState' = [cycleState EXCEPT ![c] =
                          Transition("SCHEDULED", "BUDGET_EXHAUSTED")]
      /\ sweepList' = sweepList \ {c}
      /\ UNCHANGED <<events, mandateStatus, optedOut, killSwitches, attemptsUsed,
                     intents, plan, stepStatus, notices, outbox, lockedSteps,
                     railVars, clock, phase, now, batch, current, seen, rows, sending>>
  BY DEF SweepCycle
<1>2. cycleState' = [cycleState EXCEPT ![c] = "ABANDONED"]
  BY <1>1, Edges
<1>3. DbTypeOK'
  BY <1>1, <1>2 DEF TypeInv, TypeOK, DbTypeOK, CaseState
<1>4. ApiTypeOK' /\ RailTypeOK' /\ WorkerTypeOK' /\ Conversation'
  BY <1>1
  DEF TypeInv, TypeOK, ApiTypeOK, RailTypeOK, WorkerTypeOK, Conversation, apiVars, railVars
<1>5. StepsPlanned'
  BY <1>1, StepsStillPlanned DEF TypeInv, TypeOK, DbTypeOK, WorkerTypeOK, StepsPlanned
<1> QED  BY <1>3, <1>4, <1>5 DEF TypeInv, TypeOK

\* The operator, the clock, and steps that change nothing.
LEMMA EnvironmentTypes ==
  ASSUME TypeInv, SetKillSwitch \/ ClockTick \/ UNCHANGED vars
  PROVE  TypeInv'
<1>1. /\ UNCHANGED <<events, mandateStatus, optedOut, cycleState, attemptsUsed, intents,
                     plan, stepStatus, notices, outbox, lockedSteps>>
      /\ UNCHANGED <<apiVars, railVars, local>>
  BY DEF SetKillSwitch, ClockTick, vars, tables
<1>2. killSwitches' \subseteq Scopes
  BY SystemAssumption DEF SetKillSwitch, ClockTick, vars, tables, TypeInv, TypeOK, DbTypeOK
<1>3. clock' \in Time
  BY DbAssumption
  DEF SetKillSwitch, ClockTick, vars, Time, TypeInv, TypeOK, WorkerTypeOK
<1>4. DbTypeOK'
  BY <1>1, <1>2 DEF TypeInv, TypeOK, DbTypeOK
<1>5. ApiTypeOK' /\ RailTypeOK' /\ WorkerTypeOK' /\ Conversation'
  BY <1>1, <1>3
  DEF TypeInv, TypeOK, ApiTypeOK, RailTypeOK, WorkerTypeOK, Conversation, apiVars,
      railVars, local
<1>6. StepsPlanned'
  BY <1>1, StepsStillPlanned
  DEF TypeInv, TypeOK, DbTypeOK, WorkerTypeOK, StepsPlanned, local
<1> QED  BY <1>4, <1>5, <1>6 DEF TypeInv, TypeOK

------------------------------------------------------------------------------

\* Every step of the engine preserves TypeInv.
LEMMA TypeNext == TypeInv /\ [Next]_vars => TypeInv'
<1> SUFFICES ASSUME TypeInv, [Next]_vars PROVE TypeInv'
  OBVIOUS
<1>1. CASE ApiStep
  BY <1>1, ApiTypes
<1>2. CASE StartTick
  BY <1>2, StartTypes
<1>3. CASE WorkerStep /\ UNCHANGED apiVars
  <2>1. \/ (\E r \in batch : ReadStep(r))
           \/ FetchOutbox \/ ReadDeliveredCycle \/ FindExhaustedPlans \/ EndTick
           \/ (\E row \in rows : SendToRail(row))
        \/ CancelStep \/ ProcessNotifyStep \/ DispatchAttempt
        \/ RetryLater \/ HandleRailDenied
        \/ DeliveredAfterClose \/ AttemptSucceeded \/ BudgetExhausted \/ AttemptFailed
        \/ \E c \in sweepList : SweepCycle(c)
    BY <1>3 DEF WorkerStep
  <2> QED
    BY <1>3, <2>1, WorkerReadTypes, StepTypes, RefusedRowTypes, SettleTypes, SweepTypes
<1>4. CASE (RequestError \/ WorkerCrash) /\ UNCHANGED apiVars
  BY <1>4, FaultTypes
<1>5. CASE RailStep
  BY <1>5, RailTypes
<1>6. CASE SetKillSwitch \/ ClockTick \/ UNCHANGED vars
  BY <1>6, EnvironmentTypes
<1> QED  BY <1>1, <1>2, <1>3, <1>4, <1>5, <1>6 DEF Next

\* In every reachable state every table and every local variable has its type,
\* references to plan steps are good, and the client settles only an answer.
THEOREM TypeInvariant == Spec => []TypeInv
<1>1. Init => TypeInv
  BY TypeInit
<1>2. TypeInv /\ [Next]_vars => TypeInv'
  BY TypeNext
<1> QED  BY <1>1, <1>2, PTL DEF Spec

\* The tables and the state of each process keep their types: in particular the
\* ledger never holds an attempt beyond the cap and never an unknown outcome
\* word, whatever the interleaving.
THEOREM TypeCorrect == Spec => []TypeOK
<1>1. TypeInv => TypeOK
  BY DEF TypeInv
<1> QED  BY <1>1, TypeInvariant, PTL

==============================================================================
