----------------------------- MODULE ThreadProofs -----------------------------
(***************************************************************************)
(* The promises of the case FSM that hold when one thread alternates       *)
(* between requests and ticks, as the replay drivers and the integration   *)
(* tests do, for every value of the other constants.  They fail with two   *)
(* (run Reopened): all that is used here is that nobody writes a case, a   *)
(* mandate or a switch between the read of a transaction and its commit.   *)
(***************************************************************************)
EXTENDS LedgerProofs

OneThread == SingleThreaded /\ ApiConcurrency = 1

\* A request is open only between ticks, and alone.
OneAtATime ==
  requests # {} => phase = "idle" /\ \E w \in Webhooks : requests = {w}

\* What a transaction has read of a case is what the case still is, save that a
\* case not there yet may have become due.
ReadsCurrent ==
  /\ \A w \in requests : \A c \in CyclesOf(w) :
       \/ readState[w][c] = cycleState[c]
       \/ readState[w][c] = "absent" /\ cycleState[c] = "DUE"
  /\ phase = "decide" => seen.state = cycleState[current[1]]
  /\ phase = "settle" => seen.state = cycleState[sending.cycle]
  /\ \A c \in sweepList : cycleState[c] = "SCHEDULED"
  /\ phase # "sweep" => sweepList = {}

\* Nothing forbids acting for this case.
OpenForAction(c) ==
  /\ mandateStatus[MandateOf[c]] = "active"
  /\ ~optedOut[MandateOf[c]]
  /\ killSwitches \cap {"global", MerchantOf[MandateOf[c]]} = {}

VerdictOpen == phase = "decide" /\ seen.allowed => OpenForAction(current[1])

ThreadInv == OneAtATime /\ ReadsCurrent /\ VerdictOpen /\ NoExecutionOnDeadMandate

\* The two action properties, of one step.
StaysClosed ==
  \A c \in Cycles : cycleState[c] \in TerminalStates => cycleState'[c] = cycleState[c]

ReservesOpen ==
  \A c \in Cycles, n \in SequenceNos :
    Reserves(c, n) => cycleState[c] = "SCHEDULED" /\ OpenForAction(c)

ThreadStep == ThreadInv' /\ StaysClosed /\ ReservesOpen

------------------------------------------------------------------------------

\* Where a revocation and an opt-out are legal.
LEMMA AbandonLegal ==
  ASSUME NEW e \in {"MANDATE_REVOKED", "OPTED_OUT"}
  PROVE  e \in LegalEvents("EXECUTING") /\ e \notin LegalEvents("absent")
<1>1. \E t \in CaseState : <<"EXECUTING", e, t>> \in Transitions
  BY DEF CaseState, Transitions
<1>2. ~\E t \in CaseState : <<"absent", e, t>> \in Transitions
  BY DEF Transitions
<1>3. e \in Event
  BY DEF Event
<1> QED  BY <1>1, <1>2, <1>3 DEF LegalEvents

\* A request that ends leaves none open, and the worker is idle.
LEMMA RequestEnds ==
  ASSUME ThreadInv, phase = "idle", UNCHANGED local, NEW w \in requests,
         CloseRequest(w)
  PROVE  OneAtATime' /\ ReadsCurrent' /\ VerdictOpen'
<1>1. requests' = {}
  BY DEF ThreadInv, OneAtATime, CloseRequest
<1>2. phase' = "idle" /\ sweepList' = {}
  BY DEF ThreadInv, ReadsCurrent, local
<1> QED  BY <1>1, <1>2 DEF OneAtATime, ReadsCurrent, VerdictOpen

\* A request opens or rolls back.
LEMMA NoWriteThread ==
  ASSUME OneThread, TypeInv, ThreadInv, phase = "idle", UNCHANGED local,
         NEW w \in Webhooks, BeginRequest(w) \/ AbortRequest(w)
  PROVE  ThreadStep
<1>1. UNCHANGED tables
  BY DEF BeginRequest, AbortRequest
<1>2. NoExecutionOnDeadMandate' /\ StaysClosed /\ ReservesOpen
  BY <1>1
  DEF tables, ThreadInv, NoExecutionOnDeadMandate, StaysClosed, ReservesOpen, Reserves
<1>3. CASE AbortRequest(w)
  BY <1>2, <1>3, RequestEnds DEF AbortRequest, ThreadStep, ThreadInv
<1>4. CASE BeginRequest(w)
  <2>1. requests = {}
    <3>1. Cardinality(requests) < 1
      BY <1>4 DEF BeginRequest, OneThread
    <3>2. \A v : Cardinality({v}) = 1
      BY FS_Singleton
    <3> QED  BY <3>1, <3>2 DEF ThreadInv, OneAtATime
  <2>2. /\ requests' = {w} /\ UNCHANGED cycleState
        /\ \A c \in CyclesOf(w) : c \in Cycles => readState'[w][c] = cycleState[c]
    BY <1>1, <1>4, <2>1 DEF BeginRequest, tables, TypeInv, TypeOK, ApiTypeOK
  <2>3. CyclesOf(w) \subseteq Cycles
    BY WebhookAssumption DEF CyclesOf
  <2>4. phase' = "idle" /\ sweepList' = {}
    BY DEF ThreadInv, ReadsCurrent, local
  <2>5. OneAtATime' /\ VerdictOpen'
    BY <2>2, <2>4 DEF OneAtATime, VerdictOpen
  <2>6. ReadsCurrent'
    BY <2>2, <2>3, <2>4 DEF ReadsCurrent, CyclesOf
  <2> QED  BY <1>2, <2>5, <2>6 DEF ThreadStep, ThreadInv
<1> QED  BY <1>3, <1>4

\* cycle.due creates the case and activates the mandate.
LEMMA CycleDueThread ==
  ASSUME TypeInv, ThreadInv, phase = "idle", UNCHANGED local,
         NEW w \in Webhooks, IngestCycleDue(w)
  PROVE  ThreadStep
<1>1. /\ UNCHANGED <<requests, readState, intents, optedOut, killSwitches>>
      /\ mandateStatus' = [mandateStatus EXCEPT ![MandateOf[w.about]] = "active"]
      /\ cycleState' = [cycleState EXCEPT ![w.about] = IF @ = "absent" THEN "DUE" ELSE @]
  BY DEF IngestCycleDue, apiVars
<1>2. \A c \in Cycles : \/ cycleState'[c] = cycleState[c]
                        \/ cycleState[c] = "absent" /\ cycleState'[c] = "DUE"
  BY <1>1 DEF TypeInv, TypeOK, DbTypeOK
<1>3. phase' = "idle" /\ sweepList' = {}
  BY DEF ThreadInv, ReadsCurrent, local
<1>4. \A v \in requests : CyclesOf(v) \subseteq Cycles
  BY WebhookAssumption DEF CyclesOf, TypeInv, TypeOK, ApiTypeOK
<1>5. ReadsCurrent'
  BY <1>1, <1>2, <1>3, <1>4 DEF ThreadInv, ReadsCurrent, CyclesOf
<1>6. NoExecutionOnDeadMandate'
  <2>1. \A m \in Mandates : mandateStatus'[m] = "revoked" => mandateStatus[m] = "revoked"
    BY <1>1 DEF TypeInv, TypeOK, DbTypeOK
  <2> QED  BY <1>1, <1>2, <2>1, DbAssumption DEF ThreadInv, NoExecutionOnDeadMandate
<1>7. OneAtATime' /\ VerdictOpen'
  BY <1>1, <1>3 DEF ThreadInv, OneAtATime, VerdictOpen
<1>8. StaysClosed /\ ReservesOpen
  BY <1>1, <1>2 DEF StaysClosed, ReservesOpen, Reserves, TerminalStates
<1> QED  BY <1>5, <1>6, <1>7, <1>8 DEF ThreadStep, ThreadInv

\* The outcome of a first attempt concerns a case that is still open.
LEMMA OutcomeThread ==
  ASSUME TypeInv, ThreadInv, phase = "idle", UNCHANGED local, NEW w \in Webhooks,
         \/ QuarantineStaleOutcome(w) \/ IngestDebitSucceeded(w)
         \/ IngestDebitFailedPlanned(w) \/ IngestDebitFailedStopped(w)
  PROVE  ThreadStep
<1>1. /\ w \in requests /\ CloseRequest(w) /\ UNCHANGED <<mandateStatus, optedOut>>
      /\ w.type \in {"debit.succeeded", "debit.failed"}
  BY DEF QuarantineStaleOutcome, IngestDebitSucceeded, IngestDebitFailedPlanned,
         IngestDebitFailedStopped, DebitFailedCommit, CommitRequest
<1>2. OneAtATime' /\ ReadsCurrent' /\ VerdictOpen'
  BY <1>1, RequestEnds
<1>3. CASE QuarantineStaleOutcome(w)
  <2>1. UNCHANGED <<cycleState, intents>>
    BY <1>3 DEF QuarantineStaleOutcome
  <2> QED
    BY <1>1, <1>2, <2>1
    DEF ThreadStep, ThreadInv, NoExecutionOnDeadMandate, StaysClosed, ReservesOpen, Reserves
<1>4. CASE \/ IngestDebitSucceeded(w)
           \/ IngestDebitFailedPlanned(w) \/ IngestDebitFailedStopped(w)
  <2>1. /\ readState[w][w.about] \notin TerminalStates \cup {"absent"}
        /\ \E v \in {"success", "failure"} : intents' = [intents EXCEPT ![w.about][1] = v]
    BY <1>4
    DEF IngestDebitSucceeded, IngestDebitFailedPlanned, IngestDebitFailedStopped,
        DebitFailedCommit, AppliesToOpenCycle, SetOutcome
  <2>2. w.about \in CyclesOf(w) /\ w.about \in Cycles
    BY <1>1, WebhookAssumption DEF CyclesOf, LifecycleEvents
  <2>3. cycleState[w.about] \notin TerminalStates
    BY <1>1, <2>1, <2>2 DEF ThreadInv, ReadsCurrent
  <2>4. \E s : s # "EXECUTING" /\ cycleState' = [cycleState EXCEPT ![w.about] = s]
    <3>1. CASE IngestDebitSucceeded(w)
      BY <3>1 DEF IngestDebitSucceeded
    <3>2. CASE IngestDebitFailedPlanned(w)
      BY <3>2, PlannedState
    <3>3. CASE IngestDebitFailedStopped(w)
      BY <3>3, StoppedState
    <3> QED  BY <1>4, <3>1, <3>2, <3>3
  <2>5. \A c \in Cycles : \/ cycleState'[c] = cycleState[c]
                          \/ c = w.about /\ cycleState'[c] # "EXECUTING"
    BY <2>2, <2>4 DEF TypeInv, TypeOK, DbTypeOK
  <2>6. StaysClosed
    BY <2>3, <2>5 DEF StaysClosed
  <2>7. NoExecutionOnDeadMandate'
    BY <1>1, <2>5 DEF ThreadInv, NoExecutionOnDeadMandate
  <2>8. ReservesOpen
    <3>1. PICK v \in {"success", "failure"} : intents' = [intents EXCEPT ![w.about][1] = v]
      BY <2>1
    <3>2. 1 \in SequenceNos
      BY PolicyAssumption DEF SequenceNos
    <3>3. \A c \in Cycles, n \in SequenceNos : intents'[c][n] \in {intents[c][n], v}
      BY <2>2, <3>1, <3>2, EachCell
    <3> QED  BY <3>3 DEF ReservesOpen, Reserves
  <2> QED  BY <1>2, <2>6, <2>7, <2>8 DEF ThreadStep, ThreadInv
<1> QED  BY <1>3, <1>4

\* A revocation or an opt-out closes every case of the mandate that is being
\* executed, because it has read them all as they are.
LEMMA LifecycleThread ==
  ASSUME TypeInv, ThreadInv, phase = "idle", UNCHANGED local, NEW w \in Webhooks,
         IngestMandateRevoked(w) \/ IngestNotificationOptedOut(w)
  PROVE  ThreadStep
<1>1. /\ w \in requests /\ CloseRequest(w) /\ UNCHANGED intents
      /\ w.type \in LifecycleEvents
  BY DEF IngestMandateRevoked, IngestNotificationOptedOut, CommitRequest, LifecycleEvents
<1>2. PICK e \in {"MANDATE_REVOKED", "OPTED_OUT"} : AbandonInFlightCycles(w, e)
  BY DEF IngestMandateRevoked, IngestNotificationOptedOut
<1>3. OneAtATime' /\ ReadsCurrent' /\ VerdictOpen'
  BY <1>1, RequestEnds
<1>4. \A m \in Mandates :
        m # w.about => mandateStatus'[m] = mandateStatus[m] /\ optedOut'[m] = optedOut[m]
  BY DEF IngestMandateRevoked, IngestNotificationOptedOut, TypeInv, TypeOK, DbTypeOK
<1> DEFINE abandoned == {c \in CyclesOf(w) : /\ readState[w][c] \notin TerminalStates
                                            /\ e \in LegalEvents(readState[w][c])}
<1>5. \A c \in Cycles :
        /\ c \notin abandoned => cycleState'[c] = cycleState[c]
        /\ c \in abandoned => cycleState'[c] = "ABANDONED"
  BY <1>2, AbandonEdge DEF AbandonInFlightCycles
<1>6. \A c \in abandoned : cycleState[c] \notin TerminalStates
  BY <1>1, AbandonLegal DEF ThreadInv, ReadsCurrent
<1>7. \A c \in Cycles : MandateOf[c] = w.about /\ cycleState[c] = "EXECUTING" => c \in abandoned
  <2> SUFFICES ASSUME NEW c \in Cycles, MandateOf[c] = w.about, cycleState[c] = "EXECUTING"
               PROVE  c \in abandoned
    OBVIOUS
  <2>1. c \in CyclesOf(w)
    BY <1>1 DEF CyclesOf
  <2>2. readState[w][c] = "EXECUTING"
    BY <1>1, <2>1 DEF ThreadInv, ReadsCurrent
  <2> QED  BY <2>1, <2>2, AbandonLegal DEF TerminalStates
<1> HIDE DEF abandoned
<1>8. NoExecutionOnDeadMandate'
  <2> SUFFICES ASSUME NEW c \in Cycles, cycleState'[c] = "EXECUTING"
               PROVE  ~(mandateStatus'[MandateOf[c]] = "revoked" \/ optedOut'[MandateOf[c]])
    BY DEF NoExecutionOnDeadMandate
  <2>1. cycleState[c] = "EXECUTING" /\ c \notin abandoned
    BY <1>5
  <2>2. MandateOf[c] # w.about /\ MandateOf[c] \in Mandates
    BY <1>7, <2>1, DbAssumption
  <2> QED  BY <1>4, <2>1, <2>2 DEF ThreadInv, NoExecutionOnDeadMandate
<1>9. StaysClosed /\ ReservesOpen
  BY <1>1, <1>5, <1>6 DEF StaysClosed, ReservesOpen, Reserves
<1> QED  BY <1>3, <1>8, <1>9 DEF ThreadStep, ThreadInv

\* No request is open while a tick runs.
LEMMA AloneInTick ==
  ASSUME OneThread, ThreadInv, StartTick \/ phase # "idle"
  PROVE  requests = {}
BY DEF OneThread, ThreadInv, OneAtATime, StartTick

\* A step of the worker that writes no case; ReadStep and ReadDeliveredCycle
\* are where it reads one.
LEMMA WorkerReadsThread ==
  ASSUME ThreadInv, requests = {}, UNCHANGED apiVars,
         UNCHANGED <<cycleState, mandateStatus, optedOut, killSwitches>>,
         phase' = "decide" => /\ seen'.state = cycleState[current'[1]]
                              /\ seen'.allowed => OpenForAction(current'[1]),
         phase' = "settle" => seen'.state = cycleState[sending'.cycle],
         \A c \in sweepList' : cycleState[c] = "SCHEDULED",
         phase' # "sweep" => sweepList' = {}
  PROVE  ThreadInv' /\ StaysClosed
<1>1. OneAtATime' /\ VerdictOpen'
  BY DEF OneAtATime, VerdictOpen, OpenForAction, apiVars
<1>2. ReadsCurrent'
  BY DEF ReadsCurrent, apiVars
<1>3. NoExecutionOnDeadMandate' /\ StaysClosed
  BY DEF ThreadInv, NoExecutionOnDeadMandate, StaysClosed
<1> QED  BY <1>1, <1>2, <1>3 DEF ThreadInv

LEMMA QuietTickThread ==
  ASSUME TypeInv, ThreadInv, requests = {}, UNCHANGED apiVars,
         \/ StartTick \/ (\E r \in batch : ReadStep(r)) \/ CancelStep \/ ProcessNotifyStep
         \/ FetchOutbox \/ (\E row \in rows : SendToRail(row))
         \/ RetryLater \/ ReadDeliveredCycle \/ FindExhaustedPlans \/ EndTick
         \/ WorkerCrash \/ RequestError
  PROVE  ThreadStep
<1>1. UNCHANGED <<cycleState, mandateStatus, optedOut, killSwitches, intents>>
  BY DEF StartTick, FetchDueSteps, ReadStep, CancelStep, ProcessNotifyStep, CommitStep,
         FetchOutbox, SendToRail, RetryLater, ReadDeliveredCycle, FindExhaustedPlans,
         EndTick, WorkerCrash, RequestError, tables
<1>2. ReservesOpen
  BY <1>1 DEF ReservesOpen, Reserves
<1>3. CASE \E r \in batch : ReadStep(r)
  <2>1. PICK r \in batch : ReadStep(r)
    BY <1>3
  <2>2. /\ phase' = "decide" /\ current' = r /\ phase = "steps" /\ UNCHANGED sweepList
        /\ seen'.state = cycleState[r[1]] /\ seen'.allowed = Verdict(r)
    BY <2>1 DEF ReadStep
  <2>3. Verdict(r) => OpenForAction(r[1])
    BY DEF Verdict, AttemptAuthorized, NotifyAuthorized, CaseOpenForAction, Snapshot,
           OpenForAction
  <2>4. sweepList' = {}
    BY <2>2 DEF ThreadInv, ReadsCurrent
  <2> QED  BY <1>1, <1>2, <2>2, <2>3, <2>4, WorkerReadsThread DEF ThreadStep
<1>4. CASE ReadDeliveredCycle
  <2>1. /\ phase' = "settle" /\ phase = "await" /\ UNCHANGED <<sending, sweepList>>
        /\ seen'.state = cycleState[sending.cycle]
    BY <1>4 DEF ReadDeliveredCycle, NothingSeen
  <2> QED  BY <1>1, <1>2, <2>1, WorkerReadsThread DEF ThreadStep, ThreadInv, ReadsCurrent
<1>5. CASE FindExhaustedPlans
  BY <1>1, <1>2, <1>5, WorkerReadsThread DEF FindExhaustedPlans, ThreadStep
<1>6. CASE RequestError
  <2>1. UNCHANGED local
    BY <1>6 DEF RequestError
  <2> QED
    BY <1>1, <1>2, <2>1, WorkerReadsThread
    DEF ThreadStep, ThreadInv, ReadsCurrent, VerdictOpen, local
<1>7. CASE \/ StartTick \/ CancelStep \/ ProcessNotifyStep \/ FetchOutbox
           \/ (\E row \in rows : SendToRail(row)) \/ RetryLater \/ EndTick \/ WorkerCrash
  <2>1. phase' \notin {"decide", "settle", "sweep"} /\ sweepList' = {}
    BY <1>7
    DEF StartTick, FetchDueSteps, CancelStep, ProcessNotifyStep, CommitStep, FetchOutbox,
        SendToRail, RetryLater, RowHandled, EndTick, WorkerCrash, ThreadInv, ReadsCurrent
  <2> QED  BY <1>1, <1>2, <2>1, WorkerReadsThread DEF ThreadStep
<1> QED  BY <1>3, <1>4, <1>5, <1>6, <1>7

\* A step of the worker that writes one case, out of a state read in the tick.
LEMMA WorkerWritesThread ==
  ASSUME TypeInv, ThreadInv, requests = {}, UNCHANGED apiVars,
         UNCHANGED <<mandateStatus, optedOut, killSwitches>>,
         NEW c \in Cycles, NEW s, cycleState' = [cycleState EXCEPT ![c] = s],
         cycleState[c] \notin TerminalStates \/ s = cycleState[c],
         s = "EXECUTING" => OpenForAction(c) \/ cycleState[c] = "EXECUTING",
         phase' \notin {"decide", "settle"},
         sweepList' \subseteq sweepList \ {c},
         phase' # "sweep" => sweepList' = {}
  PROVE  ThreadInv' /\ StaysClosed
<1>1. \A d \in Cycles : /\ d # c => cycleState'[d] = cycleState[d]
                        /\ cycleState'[c] = s
  BY DEF TypeInv, TypeOK, DbTypeOK
<1>2. StaysClosed
  BY <1>1 DEF StaysClosed
<1>3. OneAtATime' /\ VerdictOpen'
  BY DEF OneAtATime, VerdictOpen, apiVars
<1>4. ReadsCurrent'
  <2>1. sweepList \subseteq Cycles
    BY DEF TypeInv, TypeOK, WorkerTypeOK
  <2> QED  BY <1>1, <2>1 DEF ThreadInv, ReadsCurrent, apiVars
<1>5. NoExecutionOnDeadMandate'
  <2> SUFFICES ASSUME NEW d \in Cycles, cycleState'[d] = "EXECUTING"
               PROVE  ~(mandateStatus[MandateOf[d]] = "revoked" \/ optedOut[MandateOf[d]])
    BY DEF NoExecutionOnDeadMandate
  <2>1. CASE cycleState[d] = "EXECUTING"
    BY <2>1 DEF ThreadInv, NoExecutionOnDeadMandate
  <2>2. CASE cycleState[d] # "EXECUTING"
    BY <1>1, <2>2 DEF OpenForAction
  <2> QED  BY <2>1, <2>2
<1> QED  BY <1>2, <1>3, <1>4, <1>5 DEF ThreadInv

\* Dispatching, settling and sweeping write the case they have read.
LEMMA WritingTickThread ==
  ASSUME TypeInv, LedgerInv, ThreadInv, requests = {}, UNCHANGED apiVars,
         \/ DispatchAttempt \/ HandleRailDenied \/ DeliveredAfterClose
         \/ AttemptSucceeded \/ BudgetExhausted \/ AttemptFailed
         \/ \E c \in sweepList : SweepCycle(c)
  PROVE  ThreadStep
<1>1. CASE DispatchAttempt
  <2>1. /\ phase = "decide" /\ phase' = "steps" /\ UNCHANGED sweepList
        /\ seen.state = "SCHEDULED" /\ seen.allowed
        /\ cycleState' = [cycleState EXCEPT ![current[1]] = Transition("SCHEDULED", "STEP_DUE")]
        /\ intents' = [intents EXCEPT ![current[1]][seen.attempts + 1] = "reserved"]
        /\ seen.attempts + 1 \in SequenceNos
        /\ UNCHANGED <<mandateStatus, optedOut, killSwitches>>
    BY <1>1 DEF DispatchAttempt, CommitStep, SetOutcome, CanReserve
  <2>2. PICK c \in Cycles : c = current[1]
    BY <2>1 DEF TypeInv, StepsPlanned, StepRef
  <2>3. cycleState' = [cycleState EXCEPT ![c] = "EXECUTING"]
    BY <2>1, <2>2, Edges
  <2>4. cycleState[c] = "SCHEDULED" /\ OpenForAction(c) /\ sweepList' = {}
    BY <2>1, <2>2 DEF ThreadInv, ReadsCurrent, VerdictOpen
  <2>5. ReservesOpen
    <3>1. \A d \in Cycles, n \in SequenceNos : d = c \/ intents'[d][n] = intents[d][n]
      BY <2>1, <2>2, EachCell
    <3> QED  BY <2>4, <3>1 DEF ReservesOpen, Reserves
  <2>6. ThreadInv' /\ StaysClosed
    BY <2>1, <2>3, <2>4, WorkerWritesThread DEF TerminalStates
  <2> QED  BY <2>5, <2>6 DEF ThreadStep
<1>2. CASE \E c \in sweepList : SweepCycle(c)
  <2>1. PICK c \in sweepList : SweepCycle(c)
    BY <1>2
  <2>2. /\ cycleState' = [cycleState EXCEPT ![c] = Transition("SCHEDULED", "BUDGET_EXHAUSTED")]
        /\ sweepList' = sweepList \ {c} /\ phase = "sweep" /\ phase' = phase
        /\ UNCHANGED <<mandateStatus, optedOut, killSwitches, intents>>
    BY <2>1 DEF SweepCycle
  <2>3. cycleState' = [cycleState EXCEPT ![c] = "ABANDONED"]
    BY <2>2, Edges
  <2>4. c \in Cycles /\ cycleState[c] = "SCHEDULED"
    BY DEF ThreadInv, ReadsCurrent, TypeInv, TypeOK, WorkerTypeOK
  <2>5. ReservesOpen
    BY <2>2 DEF ReservesOpen, Reserves
  <2>6. ThreadInv' /\ StaysClosed
    BY <2>2, <2>3, <2>4, WorkerWritesThread DEF TerminalStates
  <2> QED  BY <2>5, <2>6 DEF ThreadStep
<1>3. CASE \/ HandleRailDenied \/ DeliveredAfterClose
           \/ AttemptSucceeded \/ BudgetExhausted \/ AttemptFailed
  <2>1. /\ phase \in {"await", "settle"} /\ phase' = "drain" /\ UNCHANGED sweepList
        /\ UNCHANGED <<mandateStatus, optedOut, killSwitches>>
        /\ \E v \in RailOutcome \cup {"blocked"} :
             SetOutcome(sending.cycle, sending.seq, v)
    <3>1. CASE HandleRailDenied
      BY <3>1 DEF HandleRailDenied, RowHandled
    <3>2. CASE DeliveredAfterClose \/ AttemptSucceeded \/ BudgetExhausted \/ AttemptFailed
      <4>1. CommitDelivered
        BY <3>2
        DEF DeliveredAfterClose, AttemptSucceeded, BudgetExhausted, AttemptFailed, MoveCase
      <4>2. reply \in RailOutcome
        BY <4>1 DEF CommitDelivered, TypeInv, Conversation
      <4> QED  BY <4>1, <4>2 DEF CommitDelivered, RowHandled
    <3> QED  BY <1>3, <3>1, <3>2
  <2>2. PICK v \in RailOutcome \cup {"blocked"} :
          intents' = [intents EXCEPT ![sending.cycle][sending.seq] = v]
    BY <2>1 DEF SetOutcome
  <2>3. PICK c \in Cycles : c = sending.cycle /\ sending.seq \in SequenceNos
    BY <2>1 DEF TypeInv, StepsPlanned, OutboxRow
  <2>4. ReservesOpen
    <3>1. \A d \in Cycles, n \in SequenceNos : intents'[d][n] \in {intents[d][n], v}
      BY <2>2, <2>3, EachCell
    <3> QED  BY <3>1 DEF ReservesOpen, Reserves, RailOutcome
  <2>5. sweepList' = {}
    BY <2>1 DEF ThreadInv, ReadsCurrent
  <2>6. CASE HandleRailDenied \/ DeliveredAfterClose
    <3>1. UNCHANGED cycleState
      BY <2>6 DEF HandleRailDenied, DeliveredAfterClose
    <3> QED  BY <2>1, <2>4, <2>5, <3>1, WorkerReadsThread DEF ThreadStep
  <2>7. CASE AttemptSucceeded \/ BudgetExhausted \/ AttemptFailed
    <3>1. /\ phase = "settle" /\ seen.state = "EXECUTING"
          /\ \E e \in {"ATTEMPT_SUCCEEDED", "BUDGET_EXHAUSTED", "ATTEMPT_FAILED_BUDGET_LEFT"} :
               cycleState' = [cycleState EXCEPT ![sending.cycle] = Transition("EXECUTING", e)]
      BY <2>7 DEF AttemptSucceeded, BudgetExhausted, AttemptFailed, MoveCase, Settling
    <3>2. PICK s \in {"RECOVERED", "ABANDONED", "SCHEDULED"} :
            cycleState' = [cycleState EXCEPT ![c] = s]
      BY <2>3, <3>1, Edges
    <3>3. cycleState[c] = "EXECUTING"
      BY <2>3, <3>1 DEF ThreadInv, ReadsCurrent
    <3>4. ThreadInv' /\ StaysClosed
      BY <2>1, <2>5, <3>2, <3>3, WorkerWritesThread DEF TerminalStates
    <3> QED  BY <2>4, <3>4 DEF ThreadStep
  <2> QED  BY <1>3, <2>6, <2>7
<1> QED  BY <1>1, <1>2, <1>3

\* The rail, the operator and the clock.
LEMMA EnvironmentThread ==
  ASSUME OneThread, ThreadInv, RailStep \/ SetKillSwitch \/ ClockTick \/ UNCHANGED vars
  PROVE  ThreadStep
<1>1. /\ UNCHANGED <<cycleState, mandateStatus, optedOut, intents>>
      /\ UNCHANGED apiVars /\ UNCHANGED local
      /\ UNCHANGED killSwitches \/ phase = "idle"
  BY DEF RailStep, SetKillSwitch, ClockTick, vars, tables, OneThread
<1>2. OneAtATime' /\ ReadsCurrent'
  BY <1>1 DEF ThreadInv, OneAtATime, ReadsCurrent, apiVars, local, CyclesOf
<1>3. VerdictOpen'
  BY <1>1 DEF ThreadInv, VerdictOpen, OpenForAction, local
<1>4. NoExecutionOnDeadMandate' /\ StaysClosed /\ ReservesOpen
  BY <1>1 DEF ThreadInv, NoExecutionOnDeadMandate, StaysClosed, ReservesOpen, Reserves
<1> QED  BY <1>2, <1>3, <1>4 DEF ThreadStep, ThreadInv

\* Every step preserves ThreadInv and keeps both promises.
LEMMA ThreadNext ==
  OneThread /\ TypeInv /\ LedgerInv /\ ThreadInv /\ [Next]_vars => ThreadStep
<1> SUFFICES ASSUME OneThread, TypeInv, LedgerInv, ThreadInv, [Next]_vars
             PROVE  ThreadStep
  OBVIOUS
<1>1. CASE ApiStep
  <2>1. phase = "idle" /\ UNCHANGED local
    BY <1>1 DEF ApiStep, OneThread
  <2>2. PICK w \in Webhooks :
          \/ IngestCycleDue(w) \/ BeginRequest(w) \/ AbortRequest(w)
          \/ QuarantineStaleOutcome(w) \/ IngestDebitSucceeded(w)
          \/ IngestDebitFailedPlanned(w) \/ IngestDebitFailedStopped(w)
          \/ IngestMandateRevoked(w) \/ IngestNotificationOptedOut(w)
    BY <1>1 DEF ApiStep, IngestNext
  <2> QED
    BY <2>1, <2>2, NoWriteThread, CycleDueThread, OutcomeThread, LifecycleThread
<1>2. CASE StartTick
  <2>1. requests = {} /\ UNCHANGED apiVars
    BY <1>2, AloneInTick DEF StartTick
  <2> QED  BY <1>2, <2>1, QuietTickThread
<1>3. CASE /\ \/ (\E r \in batch : ReadStep(r)) \/ CancelStep \/ ProcessNotifyStep
              \/ FetchOutbox \/ (\E row \in rows : SendToRail(row))
              \/ RetryLater \/ ReadDeliveredCycle \/ FindExhaustedPlans \/ EndTick
              \/ WorkerCrash \/ RequestError
           /\ UNCHANGED apiVars
  <2>1. phase # "idle"
    BY <1>3
    DEF ReadStep, CancelStep, ProcessNotifyStep, CommitStep, FetchOutbox, SendToRail,
        RetryLater, ReadDeliveredCycle, FindExhaustedPlans, EndTick, WorkerCrash,
        RequestError
  <2>2. requests = {}
    BY <2>1, AloneInTick
  <2> QED  BY <1>3, <2>2, QuietTickThread
<1>4. CASE /\ \/ DispatchAttempt \/ HandleRailDenied \/ DeliveredAfterClose
              \/ AttemptSucceeded \/ BudgetExhausted \/ AttemptFailed
              \/ \E c \in sweepList : SweepCycle(c)
           /\ UNCHANGED apiVars
  <2>1. phase # "idle"
    BY <1>4
    DEF DispatchAttempt, CommitStep, HandleRailDenied, DeliveredAfterClose,
        AttemptSucceeded, BudgetExhausted, AttemptFailed, MoveCase, CommitDelivered,
        SweepCycle
  <2>2. requests = {}
    BY <2>1, AloneInTick
  <2> QED  BY <1>4, <2>2, WritingTickThread
<1>5. CASE RailStep \/ SetKillSwitch \/ ClockTick \/ UNCHANGED vars
  BY <1>5, EnvironmentThread
<1> QED  BY <1>1, <1>2, <1>3, <1>4, <1>5 DEF Next, WorkerStep

\* ThreadInv holds in every reachable state.
THEOREM ThreadInvariant == ASSUME OneThread PROVE Spec => []ThreadInv
<1>1. Init => ThreadInv
  BY DEF Init, DbInit, ApiInit, WorkerInit, ThreadInv, OneAtATime, ReadsCurrent,
         VerdictOpen, NoExecutionOnDeadMandate
<1>2. TypeInv /\ LedgerInv /\ ThreadInv /\ [Next]_vars => ThreadInv'
  BY ThreadNext DEF ThreadStep
<1> QED  BY <1>1, <1>2, TypeInvariant, LedgerInvariant, PTL DEF Spec

\* In one thread no case of a revoked or opted-out mandate is being executed.
THEOREM DeadMandatesIdle == ASSUME OneThread PROVE Spec => []NoExecutionOnDeadMandate
<1>1. ThreadInv => NoExecutionOnDeadMandate
  BY DEF ThreadInv
<1> QED  BY <1>1, ThreadInvariant, PTL

\* In one thread a closed case stays closed, whatever is delivered late.
THEOREM ClosedStaysClosed == ASSUME OneThread PROVE Spec => TerminalIsFinal
<1>1. TypeInv /\ LedgerInv /\ ThreadInv /\ [Next]_vars =>
        [\A c \in Cycles : cycleState[c] \in TerminalStates =>
                             cycleState'[c] = cycleState[c]]_vars
  BY ThreadNext DEF ThreadStep, StaysClosed
<1> QED
  BY <1>1, TypeInvariant, LedgerInvariant, ThreadInvariant, PTL DEF Spec, TerminalIsFinal

\* In one thread an attempt is only reserved for a case that is SCHEDULED, on a
\* mandate that is active and not opted out, with no kill switch on.
THEOREM ReservationsPermitted == ASSUME OneThread PROVE Spec => ReservesOnlyOpenCases
<1>1. TypeInv /\ LedgerInv /\ ThreadInv /\ [Next]_vars =>
        [\A c \in Cycles, n \in SequenceNos :
           Reserves(c, n) =>
             /\ cycleState[c] = "SCHEDULED"
             /\ mandateStatus[MandateOf[c]] = "active"
             /\ ~optedOut[MandateOf[c]]
             /\ killSwitches \cap {"global", MerchantOf[MandateOf[c]]} = {}]_vars
  BY ThreadNext DEF ThreadStep, ReservesOpen, OpenForAction
<1> QED
  BY <1>1, TypeInvariant, LedgerInvariant, ThreadInvariant, PTL
  DEF Spec, ReservesOnlyOpenCases

==============================================================================
