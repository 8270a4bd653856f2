---------------------------- MODULE BenchmarkProofs ----------------------------
(***************************************************************************)
(* Theorems about one batch of the paired benchmark.  The driver is a      *)
(* client of the engine: each of its steps is a step of the engine, or     *)
(* empties tables that are empty, or moves the clock, or writes a first    *)
(* attempt at the rail, so the invariants of the other proof modules hold  *)
(* under it.  What the report says rests on six facts about the batch,     *)
(* inductive together:                                                     *)
(*   EngineInv   what is proved of the engine;                             *)
(*   DriverInv   where the driver is while others move;                    *)
(*   DrawsInv    what the rail answered to first attempts was drawn for    *)
(*               them, and the cases were told so;                         *)
(*   CasesInv    what a case that was seeded waits for;                    *)
(*   TimedInv    the n-th attempt on a case is the one of the n-th instant *)
(*               its policy acted at, and was executed as drawn for it;    *)
(*   DueInOrder  nobody acts at an instant before those already acted at.  *)
(* The last is what the jumps of the clock to the earliest pending step    *)
(* buy; without it the numbers of the attempts would not follow their      *)
(* instants, and draws keyed by both would not compare.                    *)
(***************************************************************************)
EXTENDS Benchmark, StepProofs, ThreadProofs, SequenceTheorems

\* What the proofs about the engine establish of it.
EngineInv ==
  /\ TypeInv /\ LedgerInv /\ RailInv /\ StepInv /\ ClosingInv
  /\ BudgetColumnHonest /\ ThreadInv

\* The engine as it is before the batch.
Untouched ==
  /\ ApiInit /\ RailInit /\ WorkerInit
  /\ killSwitches \subseteq OperatorScopes
  /\ events = {} /\ outbox = {} /\ lockedSteps = {}
  /\ mandateStatus = [m \in Mandates |-> "absent"]
  /\ optedOut = [m \in Mandates |-> FALSE]
  /\ cycleState = [c \in Cycles |-> "absent"]
  /\ attemptsUsed = [c \in Cycles |-> 0]
  /\ intents = [c \in Cycles |-> [n \in SequenceNos |-> "none"]]
  /\ plan = [c \in Cycles |-> <<>>]
  /\ stepStatus = [c \in Cycles |-> [i \in StepIds |-> "absent"]]
  /\ notices = [c \in Cycles |-> {}]

\* The worker only runs in the loop, requests only come before it, and what is
\* reported is what the tables still say.
DriverInv ==
  /\ stage \in {"reset", "seed", "loop", "reported"}
  /\ batchNo = 1
  /\ toSeed \in Seq(Cycles) /\ first \in RailOutcome \cup {"none"}
  /\ stage = "reset" => Untouched
  /\ stage # "loop" => phase = "idle"
  /\ requests # {} => stage = "seed" /\ toSeed # <<>>
  /\ first # "none" =>
       stage = "seed" /\ toSeed # <<>> /\ railOutcome[Head(toSeed)][1] = first
  /\ stage = "reported" => Pending = {} /\ \A c \in Cycles : results[c] = CaseOutcome(c)

------------------------------------------------------------------------------
(* The engine under the driver *)

LEMMA OneDriver == OneThread /\ Cycles = Policies \X Payers /\ Mandates = Cycles
BY BenchmarkAssumption DEF OneThread

\* Before the batch every invariant of the engine holds.
LEMMA UntouchedEngine == Untouched => EngineInv
<1> SUFFICES ASSUME Untouched PROVE EngineInv
  OBVIOUS
<1> USE DEF Untouched, ApiInit, RailInit, WorkerInit
<1>1. TypeInv
  <2>1. DbTypeOK
    BY PolicyAssumption, SystemAssumption DEF DbTypeOK, IntentOutcome, StepStatus
  <2>2. ApiTypeOK /\ RailTypeOK
    BY DEF ApiTypeOK, NothingRead, RailTypeOK, Reply
  <2>3. WorkerTypeOK
    BY DbAssumption, PolicyAssumption DEF WorkerTypeOK, NothingSeen, Time
  <2>4. StepsPlanned /\ Conversation
    BY DEF StepsPlanned, Conversation
  <2> QED  BY <2>1, <2>2, <2>3, <2>4 DEF TypeInv, TypeOK
<1>2. LedgerInv
  BY DEF LedgerInv, AttemptsInOrder, SettledWhenScheduled, VerdictCurrent, RowsReserved
<1>3. RailInv
  BY DEF RailInv, RetriesOnly, HandlersReserved, AnswerIsRecorded, RailAgreesWithLedger,
         RailOutcome
<1>4. StepInv /\ ClosingInv
  BY DEF StepInv, BatchTaken, RowsDispatched, VerdictCovers, DispatchCovered, ClosingInv,
         AttemptedBeyondDue, NothingRead, SweptIsExhausted, ClosedCaseHasNoPendingSteps,
         TerminalStates
<1>5. BudgetColumnHonest /\ ThreadInv
  BY DEF BudgetColumnHonest, ThreadInv, OneAtATime, ReadsCurrent, VerdictOpen,
         NoExecutionOnDeadMandate
<1> QED  BY <1>1, <1>2, <1>3, <1>4, <1>5 DEF EngineInv

\* A step of the engine keeps them.
LEMMA EngineStep == EngineInv /\ [Next]_vars => EngineInv'
BY OneDriver, TypeNext, LedgerNext, RailInvNext, StepInvNext, ClosingInvNext, BudgetNext,
   ThreadNext
DEF EngineInv, ThreadStep

\* None of them looks at the clock ...
LEMMA ClockMoves ==
  ASSUME EngineInv, UNCHANGED <<tables, apiVars, railVars, local>>, clock' \in Time
  PROVE  EngineInv'
<1> USE DEF tables, apiVars, railVars, local
<1>1. TypeInv'
  BY DEF EngineInv, TypeInv, TypeOK, DbTypeOK, ApiTypeOK, RailTypeOK, WorkerTypeOK,
         StepsPlanned, Exists, StepOf, Conversation
<1>2. LedgerInv' /\ RailInv'
  BY DEF EngineInv, LedgerInv, AttemptsInOrder, SettledWhenScheduled, Settled,
         VerdictCurrent, CountAttempts, RowsReserved, RailInv, RetriesOnly,
         HandlersReserved, AnswerIsRecorded, RailAgreesWithLedger
<1>3. StepInv'
  BY DEF EngineInv, StepInv, BatchTaken, RowsDispatched, VerdictCovers, Covered, StepAt,
         DispatchCovered
<1>4. ClosingInv'
  BY DEF EngineInv, ClosingInv, AttemptedBeyondDue, Attempted, SweptIsExhausted,
         NothingPending, ClosedCaseHasNoPendingSteps
<1>5. BudgetColumnHonest' /\ ThreadInv'
  BY DEF EngineInv, BudgetColumnHonest, CountAttempts, ThreadInv, OneAtATime,
         ReadsCurrent, CyclesOf, VerdictOpen, OpenForAction, NoExecutionOnDeadMandate
<1> QED  BY <1>1, <1>2, <1>3, <1>4, <1>5 DEF EngineInv

\* ... or at what the rail has on record of a first attempt.
LEMMA FirstAttemptEngine ==
  ASSUME EngineInv, UNCHANGED <<tables, apiVars, handling, reply, clock, local>>,
         railOutcome' \in [Cycles -> [SequenceNos -> RailOutcome \cup {"none"}]],
         \A c \in Cycles, n \in SequenceNos \ {1} : railOutcome'[c][n] = railOutcome[c][n]
  PROVE  EngineInv'
<1> USE DEF tables, apiVars, local
<1>1. TypeInv'
  BY DEF EngineInv, TypeInv, TypeOK, DbTypeOK, ApiTypeOK, RailTypeOK, WorkerTypeOK,
         StepsPlanned, Exists, StepOf, Conversation
<1>2. LedgerInv'
  BY DEF EngineInv, LedgerInv, AttemptsInOrder, SettledWhenScheduled, Settled,
         VerdictCurrent, CountAttempts, RowsReserved
<1>3. RailInv'
  <2>1. RetriesOnly' /\ HandlersReserved' /\ RailAgreesWithLedger'
    BY DEF EngineInv, RailInv, RetriesOnly, HandlersReserved, RailAgreesWithLedger
  <2>2. phase \in {"await", "settle"} =>
          sending.cycle \in Cycles /\ sending.seq \in SequenceNos \ {1}
    BY DEF EngineInv, TypeInv, StepsPlanned, OutboxRow, LedgerInv, RowsReserved, RailInv,
           RetriesOnly
  <2>3. AnswerIsRecorded'
    BY <2>2 DEF EngineInv, RailInv, AnswerIsRecorded
  <2> QED  BY <2>1, <2>3 DEF RailInv
<1>4. StepInv'
  BY DEF EngineInv, StepInv, BatchTaken, RowsDispatched, VerdictCovers, Covered, StepAt,
         DispatchCovered
<1>5. ClosingInv'
  BY DEF EngineInv, ClosingInv, AttemptedBeyondDue, Attempted, SweptIsExhausted,
         NothingPending, ClosedCaseHasNoPendingSteps
<1>6. BudgetColumnHonest' /\ ThreadInv'
  BY DEF EngineInv, BudgetColumnHonest, CountAttempts, ThreadInv, OneAtATime,
         ReadsCurrent, CyclesOf, VerdictOpen, OpenForAction, NoExecutionOnDeadMandate
<1> QED  BY <1>1, <1>2, <1>3, <1>4, <1>5, <1>6 DEF EngineInv

------------------------------------------------------------------------------
(* The driver's own steps *)

\* Every cycle is in the order of seeding.
LEMMA SeedOrderIs ==
  /\ SeedOrder \in Seq(Cycles)
  /\ \A c \in Cycles : \E k \in DOMAIN SeedOrder : SeedOrder[k] = c
<1> DEFINE n == Cardinality(Cycles)
<1>1. IsFiniteSet(Cycles)
  BY BenchmarkAssumption, FS_Product
<1>2. n \in Nat /\ ExistsBijection(1 .. n, Cycles)
  BY <1>1, FS_CardinalityType
<1>3. \E f \in [1 .. n -> Cycles] : IsInjective(f)
  BY <1>2 DEF ExistsBijection, Bijection, Injection
<1>4. SeedOrder \in [1 .. n -> Cycles] /\ IsInjective(SeedOrder)
  BY <1>3 DEF SeedOrder, SetToSeq
<1>5. SeedOrder \in Injection(1 .. n, Cycles)
  BY <1>4 DEF Injection
<1>6. Cardinality(1 .. n) = n
  BY <1>2, FS_Interval
<1>7. SeedOrder \in Surjection(1 .. n, Cycles)
  BY <1>1, <1>5, <1>6, FS_Injection
<1> HIDE DEF n
<1> QED  BY <1>2, <1>4, <1>7 DEF Surjection

LEMMA LeastOf ==
  ASSUME NEW T \in SUBSET Nat, T # {}
  PROVE  \E x \in T : \A y \in T : x <= y
<1> DEFINE Less == {p \in Nat \X Nat : p[1] < p[2]}
<1>1. IsWellFoundedOn(Less, Nat)
  BY NatLessThanWellFounded DEF OpToRel
<1>2. \A x, y \in Nat : y < x => <<y, x>> \in Less
  OBVIOUS
<1> HIDE DEF Less
<1>3. PICK x \in T : \A y \in T : <<y, x>> \notin Less
  BY <1>1, WFMin
<1>4. ASSUME NEW y \in T PROVE x <= y
  <2>1. x \in Nat /\ y \in Nat /\ <<y, x>> \notin Less
    BY <1>3
  <2>2. ~(y < x)
    BY <1>2, <2>1
  <2> QED  BY <2>1, <2>2
<1> QED  BY <1>4

\* The earliest pending step, as long as there is one.
LEMMA EarliestIs ==
  ASSUME TypeInv, Pending # {}
  PROVE  /\ Earliest \in Time
         /\ \E r \in Pending : StepAt(r).at = Earliest
         /\ \A r \in Pending : Earliest <= StepAt(r).at
<1> DEFINE T == {StepAt(r).at : r \in Pending}
<1>1. \A r \in Pending : r \in StepRef /\ Exists(r) /\ StepAt(r).at \in Time
  <2> SUFFICES ASSUME NEW r \in Pending
               PROVE  r \in StepRef /\ Exists(r) /\ StepAt(r).at \in Time
    OBVIOUS
  <2>1. r \in StepRef /\ Exists(r)
    BY DEF Pending, Exists
  <2>2. StepAt(r) \in Step
    BY <2>1, StepType
  <2> QED  BY <2>1, <2>2 DEF Step
<1>2. T \subseteq Time /\ T # {} /\ T \in SUBSET Nat
  BY <1>1, DbAssumption DEF Time
<1>3. \E t \in T : \A u \in T : t <= u
  BY <1>2, LeastOf
<1>4. \E t \in T : \A r \in Pending : t <= StepAt(r).at
  BY <1>3
<1>5. Earliest \in T /\ \A r \in Pending : Earliest <= StepAt(r).at
  BY <1>4 DEF Earliest
<1> QED  BY <1>2, <1>5

\* What a step of the benchmark is to the engine.
BenchStep ==
  \/ Truncate /\ UNCHANGED vars
  \/ FireFirstAttempt
  \/ SetNow
  \/ [Next]_vars

LEMMA Webhook ==
  ASSUME NEW c \in Cycles
  PROVE  /\ DueEvent(c) \in Webhooks
         /\ \A type \in {"debit.succeeded", "debit.failed"} :
              /\ Outcome(c, type) \in Webhooks
              /\ Outcome(c, type).about = c
              /\ Outcome(c, type).type = type
<1> DEFINE W(d) == {DueEvent(d), Outcome(d, "debit.succeeded"), Outcome(d, "debit.failed")}
<1>1. Webhooks = UNION {W(d) : d \in Cycles}
  BY BenchmarkAssumption
<1>2. W(c) \subseteq Webhooks
  <2> HIDE DEF W
  <2> QED  BY <1>1
<1>3. /\ DueEvent(c) \in Webhooks
      /\ Outcome(c, "debit.succeeded") \in Webhooks
      /\ Outcome(c, "debit.failed") \in Webhooks
  BY <1>2
<1>4. \A type : Outcome(c, type).about = c /\ Outcome(c, type).type = type
  BY DEF Outcome
<1> QED  BY <1>3, <1>4

LEMMA SeedHead ==
  ASSUME DriverInv, toSeed # <<>>
  PROVE  /\ Head(toSeed) \in Cycles /\ toSeed[1] = Head(toSeed) /\ 1 \in DOMAIN toSeed
         /\ Tail(toSeed) \in Seq(Cycles)
BY DEF DriverInv

\* The outcome of a first attempt is a request for the case at the head.
LEMMA FirstOutcomeIs ==
  ASSUME DriverInv, IngestFirstOutcome
  PROVE  \E w \in Webhooks :
           /\ w = Outcome(Head(toSeed), IF first = "success" THEN "debit.succeeded"
                                                             ELSE "debit.failed")
           /\ w.about = Head(toSeed)
           /\ \/ BeginRequest(w) \/ IngestDebitSucceeded(w)
              \/ IngestDebitFailedPlanned(w) \/ IngestDebitFailedStopped(w)
BY SeedHead, Webhook DEF IngestFirstOutcome

LEMMA BenchSteps ==
  ASSUME DriverInv, [BenchNext]_benchVars
  PROVE  BenchStep
<1>1. CASE Truncate
  BY <1>1
  DEF Truncate, DriverInv, Untouched, BenchStep, vars, tables, apiVars, railVars, local
<1>2. CASE SeedCycle
  <2>1. toSeed # <<>> /\ IngestCycleDue(DueEvent(Head(toSeed))) /\ phase = "idle"
    BY <1>2 DEF SeedCycle, DriverInv
  <2>2. IngestNext
    BY <2>1, SeedHead, Webhook DEF IngestNext
  <2>3. ApiStep
    BY <1>2, <2>1, <2>2 DEF ApiStep, SeedCycle
  <2> QED  BY <2>3 DEF Next, BenchStep
<1>3. CASE IngestFirstOutcome
  <2>1. IngestNext
    BY <1>3, FirstOutcomeIs DEF IngestNext
  <2>2. ApiStep
    BY <1>3, <2>1 DEF ApiStep, IngestFirstOutcome, DriverInv
  <2> QED  BY <2>2 DEF Next, BenchStep
<1>4. CASE TickAtNow
  <2>1. StartTick
    BY <1>4 DEF TickAtNow, StartTick, DriverInv
  <2> QED  BY <2>1 DEF Next, BenchStep
<1>5. CASE WorkerTurn
  BY <1>5 DEF WorkerTurn, Next, BenchStep
<1>6. CASE RailTurn
  <2>1. RailStep
    BY <1>6 DEF RailTurn, RailStep, RailNext
  <2> QED  BY <2>1 DEF Next, BenchStep
<1>7. CASE StartLoop \/ ReadResults \/ UNCHANGED benchVars
  BY <1>7 DEF StartLoop, ReadResults, benchVars, BenchStep
<1>8. CASE FireFirstAttempt \/ SetNow
  BY <1>8 DEF BenchStep
<1> QED
  BY <1>1, <1>2, <1>3, <1>4, <1>5, <1>6, <1>7, <1>8 DEF BenchNext, DriverStep

\* What the driver's own call writes at the rail.
LEMMA FirstAttemptIs ==
  ASSUME EngineInv, DriverInv, FireFirstAttempt
  PROVE  /\ Head(toSeed) \in Cycles /\ 1 \in SequenceNos
         /\ railOutcome' \in [Cycles -> [SequenceNos -> RailOutcome \cup {"none"}]]
         /\ \A c \in Cycles, n \in SequenceNos :
              \/ railOutcome'[c][n] = railOutcome[c][n]
              \/ /\ c = Head(toSeed) /\ n = 1
                 /\ railOutcome[c][n] = "none" /\ railOutcome'[c][n] = first'
         /\ first' = railOutcome'[Head(toSeed)][1]
<1> DEFINE c == Head(toSeed)
<1>1. c \in Cycles /\ 1 \in SequenceNos
  BY SeedHead, PolicyAssumption DEF FireFirstAttempt, SequenceNos
<1>2. railOutcome \in [Cycles -> [SequenceNos -> RailOutcome \cup {"none"}]]
  BY DEF EngineInv, TypeInv, TypeOK, RailTypeOK
<1>3. \/ first' = railOutcome[c][1] /\ UNCHANGED railOutcome
      \/ \E o \in RailOutcome :
           /\ railOutcome[c][1] = "none" /\ first' = o
           /\ railOutcome' = [railOutcome EXCEPT ![c][1] = o]
  BY DEF FireFirstAttempt
<1> HIDE DEF c
<1>4. CASE UNCHANGED railOutcome /\ first' = railOutcome[c][1]
  BY <1>1, <1>2, <1>4 DEF c
<1>5. CASE \E o \in RailOutcome :
             /\ railOutcome[c][1] = "none" /\ first' = o
             /\ railOutcome' = [railOutcome EXCEPT ![c][1] = o]
  <2>1. PICK o \in RailOutcome \cup {"none"} :
          /\ railOutcome[c][1] = "none" /\ first' = o
          /\ railOutcome' = [railOutcome EXCEPT ![c][1] = o]
    BY <1>5
  <2>2. railOutcome' \in [Cycles -> [SequenceNos -> RailOutcome \cup {"none"}]]
    BY <1>1, <1>2, <2>1, CellType
  <2>3. /\ railOutcome'[c][1] = o
        /\ \A d \in Cycles, n \in SequenceNos :
             d # c \/ n # 1 => railOutcome'[d][n] = railOutcome[d][n]
    BY <1>1, <1>2, <2>1
  <2> QED  BY <1>1, <2>1, <2>2, <2>3 DEF c
<1> QED  BY <1>3, <1>4, <1>5

\* Every step of the benchmark keeps what the engine's proofs establish.
LEMMA EngineNext ==
  EngineInv /\ DriverInv /\ [BenchNext]_benchVars => EngineInv'
<1> SUFFICES ASSUME EngineInv, DriverInv, [BenchNext]_benchVars PROVE EngineInv'
  OBVIOUS
<1>1. CASE UNCHANGED vars \/ [Next]_vars
  BY <1>1, EngineStep
<1>2. CASE FireFirstAttempt
  <2>1. UNCHANGED <<tables, apiVars, handling, reply, clock, local>>
    BY <1>2 DEF FireFirstAttempt
  <2>2. \A c \in Cycles, n \in SequenceNos \ {1} : railOutcome'[c][n] = railOutcome[c][n]
    BY <1>2, FirstAttemptIs
  <2> QED  BY <1>2, <2>1, <2>2, FirstAttemptIs, FirstAttemptEngine
<1>3. CASE SetNow
  <2>1. UNCHANGED <<tables, apiVars, railVars, local>> /\ clock' \in Time
    BY <1>3, EarliestIs DEF SetNow, EngineInv
  <2> QED  BY <2>1, ClockMoves
<1> QED  BY <1>1, <1>2, <1>3, BenchSteps DEF BenchStep

------------------------------------------------------------------------------
(* The driver's invariant *)

\* The request that ends was the only one.
LEMMA LastRequest ==
  ASSUME EngineInv, NEW w \in requests, CloseRequest(w)
  PROVE  requests' = {}
BY DEF EngineInv, ThreadInv, OneAtATime, CloseRequest

\* Steps of the worker and of the rail leave the driver where it is.
LEMMA OthersTurn ==
  ASSUME WorkerTurn \/ RailTurn
  PROVE  /\ UNCHANGED <<stage, batchNo, toSeed, first, chosen, results, apiVars, clock>>
         /\ WorkerTurn => stage = "loop"
         /\ RailTurn => handling # {} /\ UNCHANGED <<tables, local>>
<1>1. CASE WorkerTurn
  <2>1. WorkerStep \/ RequestError
    BY <1>1 DEF WorkerTurn
  <2>2. UNCHANGED clock
    BY <2>1
    DEF WorkerStep, ReadStep, CancelStep, ProcessNotifyStep, DispatchAttempt, CommitStep,
        FetchOutbox, SendToRail, RetryLater, RowHandled, HandleRailDenied,
        ReadDeliveredCycle, DeliveredAfterClose, AttemptSucceeded, BudgetExhausted,
        AttemptFailed, MoveCase, CommitDelivered, FindExhaustedPlans, SweepCycle, EndTick,
        RequestError
  <2> QED  BY <1>1, <2>2 DEF WorkerTurn, driver, RailTurn
<1>2. CASE RailTurn
  BY <1>2 DEF RailTurn, WorkerTurn
<1> QED  BY <1>1, <1>2

\* The rail's handlers write about retries only.
LEMMA RailTurnRecords ==
  ASSUME EngineInv, RailTurn
  PROVE  \A c \in Cycles : railOutcome'[c][1] = railOutcome[c][1]
<1>1. PICK q \in handling : RailReplay(q) \/ RailRefuse(q) \/ RailAccept(q) \/ RailPersist(q)
  BY DEF RailTurn
<1>2. CASE RailReplay(q) \/ RailRefuse(q) \/ RailAccept(q)
  BY <1>2 DEF RailReplay, RailRefuse, RailAccept
<1>3. CASE RailPersist(q)
  <2>1. \/ UNCHANGED railOutcome
        \/ \E o \in RailOutcome :
             railOutcome' = [railOutcome EXCEPT ![q.row.cycle][q.row.seq] = o]
    BY <1>3 DEF RailPersist
  <2>2. /\ railOutcome \in [Cycles -> [SequenceNos -> RailOutcome \cup {"none"}]]
        /\ q.row.cycle \in Cycles /\ q.row.seq \in SequenceNos /\ q.row.seq # 1
    BY <1>1
    DEF EngineInv, TypeInv, TypeOK, RailTypeOK, Handler, OutboxRow, RailInv, RetriesOnly
  <2>3. 1 \in SequenceNos
    BY PolicyAssumption DEF SequenceNos
  <2>4. ASSUME NEW o, railOutcome' = [railOutcome EXCEPT ![q.row.cycle][q.row.seq] = o],
               NEW c \in Cycles
        PROVE  railOutcome'[c][1] = railOutcome[c][1]
    <3>1. CASE c = q.row.cycle
      BY <2>2, <2>3, <2>4, <3>1
    <3>2. CASE c # q.row.cycle
      BY <2>2, <2>4, <3>2
    <3> QED  BY <3>1, <3>2
  <2> QED  BY <2>1, <2>4
<1> QED  BY <1>1, <1>2, <1>3

LEMMA DriverNext ==
  EngineInv /\ DriverInv /\ [BenchNext]_benchVars => DriverInv'
<1> SUFFICES ASSUME EngineInv, DriverInv, [BenchNext]_benchVars PROVE DriverInv'
  OBVIOUS
<1>1. CASE Truncate
  <2>1. /\ stage' = "seed" /\ toSeed' = SeedOrder /\ requests = {} /\ first = "none"
        /\ phase = "idle" /\ UNCHANGED <<batchNo, first, phase, requests>>
    BY <1>1
    DEF Truncate, DriverInv, Untouched, ApiInit, WorkerInit, apiVars, local
  <2> QED  BY <2>1, SeedOrderIs DEF DriverInv
<1>2. CASE SeedCycle
  <2>1. stage = "seed" /\ UNCHANGED <<driver, requests, phase, railOutcome>>
    BY <1>2 DEF SeedCycle, IngestCycleDue, apiVars, local, railVars
  <2> QED  BY <2>1 DEF DriverInv, driver
<1>3. CASE FireFirstAttempt
  <2>1. /\ stage = "seed" /\ toSeed # <<>>
        /\ UNCHANGED <<stage, batchNo, toSeed, requests, phase>>
    BY <1>3 DEF FireFirstAttempt, apiVars, local
  <2>2. first' = railOutcome'[Head(toSeed)][1] /\ first' \in RailOutcome \cup {"none"}
    BY <1>3, FirstAttemptIs
  <2> QED  BY <2>1, <2>2 DEF DriverInv
<1>4. CASE IngestFirstOutcome
  <2>1. /\ stage = "seed" /\ toSeed # <<>> /\ UNCHANGED <<stage, batchNo, phase, railOutcome>>
    BY <1>4 DEF IngestFirstOutcome, local, railVars
  <2>2. PICK w \in Webhooks : /\ w = Outcome(Head(toSeed),
                                     IF first = "success" THEN "debit.succeeded"
                                                          ELSE "debit.failed")
                              /\ \/ BeginRequest(w) /\ UNCHANGED <<toSeed, first, chosen>>
                                 \/ /\ toSeed' = Tail(toSeed) /\ first' = "none"
                                    /\ \/ IngestDebitSucceeded(w)
                                       \/ IngestDebitFailedPlanned(w)
                                       \/ IngestDebitFailedStopped(w)
    BY <1>4, SeedHead, Webhook DEF IngestFirstOutcome
  <2>3. CASE BeginRequest(w) /\ UNCHANGED <<toSeed, first, chosen>>
    BY <2>1, <2>3 DEF DriverInv
  <2>4. CASE /\ toSeed' = Tail(toSeed) /\ first' = "none"
             /\ \/ IngestDebitSucceeded(w)
                \/ IngestDebitFailedPlanned(w) \/ IngestDebitFailedStopped(w)
    <3>1. w \in requests /\ CloseRequest(w)
      BY <2>4
      DEF IngestDebitSucceeded, IngestDebitFailedPlanned, IngestDebitFailedStopped,
          DebitFailedCommit, CommitRequest
    <3>2. requests' = {}
      BY <3>1, LastRequest
    <3>3. toSeed' \in Seq(Cycles)
      BY <2>1, <2>4, SeedHead
    <3> QED  BY <2>1, <2>4, <3>2, <3>3 DEF DriverInv
  <2> QED  BY <2>2, <2>3, <2>4
<1>5. CASE StartLoop
  <2>1. /\ stage = "seed" /\ toSeed = <<>> /\ stage' = "loop"
        /\ UNCHANGED <<batchNo, toSeed, first, requests, phase>>
    BY <1>5 DEF StartLoop, vars, apiVars, local
  <2> QED  BY <2>1 DEF DriverInv
<1>6. CASE SetNow
  <2>1. stage = "loop" /\ UNCHANGED <<driver, requests>>
    BY <1>6 DEF SetNow, apiVars
  <2> QED  BY <2>1 DEF DriverInv, driver
<1>7. CASE TickAtNow
  <2>1. stage = "loop" /\ UNCHANGED <<driver, requests>>
    BY <1>7 DEF TickAtNow, apiVars
  <2> QED  BY <2>1 DEF DriverInv, driver
<1>8. CASE WorkerTurn
  <2>1. /\ stage = "loop"
        /\ UNCHANGED <<stage, batchNo, toSeed, first, requests>>
    BY <1>8, OthersTurn DEF apiVars
  <2> QED  BY <2>1 DEF DriverInv
<1>9. CASE RailTurn
  <2>1. /\ UNCHANGED <<stage, batchNo, toSeed, first, results, requests, phase, stepStatus,
                       cycleState, attemptsUsed>>
        /\ handling # {}
    BY <1>9, OthersTurn DEF apiVars, local, tables
  <2>2. stage # "reset"
    BY <2>1 DEF DriverInv, Untouched, RailInit
  <2>3. toSeed # <<>> => railOutcome'[Head(toSeed)][1] = railOutcome[Head(toSeed)][1]
    BY <1>9, RailTurnRecords, SeedHead
  <2> QED  BY <2>1, <2>2, <2>3 DEF DriverInv, Pending, CaseOutcome
<1>10. CASE ReadResults
  <2>1. /\ stage = "loop" /\ stage' = "reported" /\ phase = "idle" /\ Pending = {}
        /\ results' = [c \in Cycles |-> CaseOutcome(c)]
        /\ UNCHANGED <<batchNo, toSeed, first, requests, phase, stepStatus, cycleState,
                       attemptsUsed>>
    BY <1>10 DEF ReadResults, vars, apiVars, local, tables
  <2> QED  BY <2>1 DEF DriverInv, Pending, CaseOutcome
<1>11. CASE UNCHANGED benchVars
  BY <1>11
  DEF benchVars, vars, tables, apiVars, railVars, local, driver, DriverInv, Untouched,
      ApiInit, RailInit, WorkerInit, NothingRead, Pending, CaseOutcome
<1> QED
  BY <1>1, <1>2, <1>3, <1>4, <1>5, <1>6, <1>7, <1>8, <1>9, <1>10, <1>11
  DEF BenchNext, DriverStep

------------------------------------------------------------------------------
(* What is drawn *)

\* The outcome the rail has on record of an attempt is the one drawn for it.
Drawn(c, n, t) ==
  LET key == WorldKey(c, n, t) IN key \in DOMAIN world /\ world[key] = railOutcome[c][n]

FirstDrawn == \A c \in Cycles : railOutcome[c][1] # "none" => Drawn(c, 1, DueAt[c[2]])

\* The cases were told what the rail answered to their first attempt.
FirstTold ==
  \A c \in Cycles : intents[c][1] # "none" => intents[c][1] = railOutcome[c][1]

DrawsInv ==
  /\ \A k \in DOMAIN world : world[k] \in {"success", "failure"}
  /\ \A c \in Cycles, n \in SequenceNos : railOutcome[c][n] # "unknown"
  /\ FirstDrawn /\ FirstTold

WorldKept ==
  \A k \in DOMAIN world : k \in DOMAIN world' /\ world'[k] = world[k]

LEMMA DrawIs ==
  ASSUME NEW key, NEW o, Draw(key, o),
         \A k \in DOMAIN world : world[k] \in {"success", "failure"}
  PROVE  /\ WorldKept /\ key \in DOMAIN world' /\ world'[key] = o
         /\ o \in {"success", "failure"}
         /\ \A k \in DOMAIN world' : world'[k] \in {"success", "failure"}
BY DEF Draw, WorldKept

\* A step adds at most one outcome to the rail's record: the one drawn for the
\* attempt, at its instant.
Records(c, n) ==
  \/ railOutcome'[c][n] = railOutcome[c][n]
  \/ /\ railOutcome[c][n] = "none" /\ railOutcome'[c][n] \in {"success", "failure"}
     /\ \/ n = 1 /\ Drawn(c, n, DueAt[c[2]])'
        \/ \E q \in handling :
             q.row.cycle = c /\ q.row.seq = n /\ Drawn(c, n, q.row.at)'

\* Nobody but these two writes the record or draws.
LEMMA OthersDrawNothing ==
  ASSUME [BenchNext]_benchVars, ~FireFirstAttempt, ~RailTurn
  PROVE  UNCHANGED <<world, railOutcome>>
<1>1. CASE WorkerTurn
  BY <1>1
  DEF WorkerTurn, driver, WorkerStep, ReadStep, CancelStep, ProcessNotifyStep,
      DispatchAttempt, CommitStep, FetchOutbox, SendToRail, Post, RetryLater, RowHandled,
      HandleRailDenied, ReadDeliveredCycle, DeliveredAfterClose, AttemptSucceeded,
      BudgetExhausted, AttemptFailed, MoveCase, CommitDelivered, FindExhaustedPlans,
      SweepCycle, EndTick, RequestError, railVars
<1>2. CASE \/ Truncate \/ SeedCycle \/ IngestFirstOutcome \/ StartLoop \/ SetNow
           \/ TickAtNow \/ ReadResults \/ UNCHANGED benchVars
  BY <1>2
  DEF Truncate, SeedCycle, IngestFirstOutcome, StartLoop, SetNow, TickAtNow, FetchDueSteps,
      ReadResults, benchVars, driver, vars, railVars
<1> QED  BY <1>1, <1>2 DEF BenchNext, DriverStep

LEMMA DrawsGrow ==
  ASSUME EngineInv, DriverInv, DrawsInv, [BenchNext]_benchVars
  PROVE  /\ WorldKept /\ \A k \in DOMAIN world' : world'[k] \in {"success", "failure"}
         /\ \A c \in Cycles, n \in SequenceNos : Records(c, n)
<1>1. CASE UNCHANGED <<world, railOutcome>>
  BY <1>1 DEF WorldKept, DrawsInv, Records
<1>2. CASE FireFirstAttempt /\ ~UNCHANGED <<world, railOutcome>>
  <2>0. PICK c \in Cycles : c = Head(toSeed)
    BY <1>2, FirstAttemptIs
  <2> DEFINE key == WorldKey(c, 1, DueAt[c[2]])
  <2>1. PICK o \in RailOutcome :
          /\ railOutcome[c][1] = "none" /\ Draw(key, o)
          /\ railOutcome' = [railOutcome EXCEPT ![c][1] = o]
    BY <1>2, <2>0 DEF FireFirstAttempt
  <2>2. /\ c \in Cycles /\ 1 \in SequenceNos
        /\ railOutcome \in [Cycles -> [SequenceNos -> RailOutcome \cup {"none"}]]
    BY <1>2, FirstAttemptIs DEF EngineInv, TypeInv, TypeOK, RailTypeOK
  <2>3. /\ WorldKept /\ key \in DOMAIN world' /\ world'[key] = o
        /\ o \in {"success", "failure"}
        /\ \A k \in DOMAIN world' : world'[k] \in {"success", "failure"}
    <3> HIDE DEF key
    <3> QED  BY <2>1, DrawIs DEF DrawsInv
  <2>4. railOutcome'[c][1] = o
    BY <2>1, <2>2
  <2>5. \A d \in Cycles, n \in SequenceNos :
          d # c \/ n # 1 => railOutcome'[d][n] = railOutcome[d][n]
    BY <2>1, <2>2
  <2>6. Drawn(c, 1, DueAt[c[2]])'
    BY <2>3, <2>4 DEF Drawn, WorldKey
  <2>7. \A d \in Cycles, n \in SequenceNos : Records(d, n)
    BY <2>1, <2>3, <2>4, <2>5, <2>6 DEF Records
  <2> QED  BY <2>3, <2>7
<1>3. CASE RailTurn /\ ~UNCHANGED <<world, railOutcome>>
  <2>1. PICK q \in handling :
          \/ (RailReplay(q) \/ RailRefuse(q) \/ RailAccept(q)) /\ UNCHANGED world
          \/ /\ RailPersist(q)
             /\ IF RailRecord(q) # "none" THEN UNCHANGED world
                ELSE Draw(WorldKey(q.row.cycle, q.row.seq, q.row.at),
                          railOutcome'[q.row.cycle][q.row.seq])
    BY <1>3 DEF RailTurn
  <2>2. /\ q.row.cycle \in Cycles /\ q.row.seq \in SequenceNos
        /\ railOutcome \in [Cycles -> [SequenceNos -> RailOutcome \cup {"none"}]]
    BY <2>1 DEF EngineInv, TypeInv, TypeOK, RailTypeOK, Handler, OutboxRow
  <2> DEFINE c == q.row.cycle
             n == q.row.seq
             key == WorldKey(c, n, q.row.at)
  <2>3. railOutcome[c][n] = "none" /\ Draw(key, railOutcome'[c][n]) /\ RailPersist(q)
    <3>1. ~((RailReplay(q) \/ RailRefuse(q) \/ RailAccept(q)) /\ UNCHANGED world)
      BY <1>3 DEF RailReplay, RailRefuse, RailAccept
    <3>2. RailPersist(q)
      BY <2>1, <3>1
    <3>3. RailRecord(q) = "none"
      BY <1>3, <2>1, <3>1 DEF RailPersist
    <3> QED  BY <2>1, <3>1, <3>2, <3>3 DEF RailRecord
  <2>4. PICK o \in RailOutcome : railOutcome' = [railOutcome EXCEPT ![c][n] = o]
    BY <2>3 DEF RailPersist, RailRecord
  <2>5. /\ WorldKept /\ key \in DOMAIN world' /\ world'[key] = railOutcome'[c][n]
        /\ railOutcome'[c][n] \in {"success", "failure"}
        /\ \A k \in DOMAIN world' : world'[k] \in {"success", "failure"}
    <3> HIDE DEF key
    <3> QED  BY <2>3, DrawIs DEF DrawsInv
  <2>6. Drawn(c, n, q.row.at)'
    BY <2>5 DEF Drawn, WorldKey
  <2>7. /\ c \in Cycles /\ n \in SequenceNos
        /\ c = q.row.cycle /\ n = q.row.seq
    BY <2>2
  <2> HIDE DEF c, n
  <2>8. \A d \in Cycles, m \in SequenceNos :
          d # c \/ m # n => railOutcome'[d][m] = railOutcome[d][m]
    BY <2>2, <2>4, <2>7
  <2>9. \A d \in Cycles, m \in SequenceNos : Records(d, m)
    BY <2>1, <2>3, <2>5, <2>6, <2>7, <2>8 DEF Records
  <2> QED  BY <2>5, <2>9
<1> QED  BY <1>1, <1>2, <1>3, OthersDrawNothing

------------------------------------------------------------------------------
(***************************************************************************)
(* One case                                                                *)
(***************************************************************************)

InFlight(c) == \E r \in outbox : r.cycle = c
Refused(c) == \E n \in SequenceNos : intents[c][n] = "blocked"

Seeded(c) ==
  \/ stage \in {"loop", "reported"}
  \/ stage = "seed" /\ \A k \in DOMAIN toSeed : toSeed[k] # c

\* In the tick that ran out of steps for a case the sweep is still to come.
SweepAhead(c) ==
  phase \in {"steps", "decide", "drain", "await", "settle"} \/ c \in sweepList

\* A case that was seeded waits for a step, for a row or for a person, or is
\* closed; it is closed as recovered by a success and by nothing else.
CaseInv(c) ==
  /\ Seeded(c) => cycleState[c] \in TerminalStates \cup {"SCHEDULED", "EXECUTING",
                                                         "AWAITING_MANUAL"}
  /\ cycleState[c] = "SCHEDULED" => CycleHasOpenSteps(c) \/ SweepAhead(c)
  /\ cycleState[c] = "EXECUTING" => InFlight(c) \/ Refused(c)
  /\ InFlight(c) => cycleState[c] = "EXECUTING"
  /\ \A i \in StepIds : stepStatus[c][i] = "dispatched" =>
       \E r \in outbox : r.cycle = c /\ r.step = i
  /\ cycleState[c] = "RECOVERED" <=> \E n \in SequenceNos : intents[c][n] = "success"
  /\ cycleState[c] \in {"ABANDONED", "AWAITING_MANUAL"} =>
       attemptsUsed[c] = CountAttempts(c)

\* Number n of the attempts on the case is the one that was due at t: the first
\* is the merchant's, the second the first of the plan.
NthAt(c, n, t) ==
  t \in Acted(c) /\ Cardinality({u \in Acted(c) : u < t}) = n - 2

\* As long as the rail refused none of its attempts, the case has an attempt
\* for every instant acted at, and they were executed as drawn for that instant.
TimedCase(c) ==
  /\ stage \in {"reset", "seed"} => Acted(c) = {}
  /\ ~Refused(c) =>
       /\ intents[c][1] # "none" => CountAttempts(c) = 1 + Cardinality(Acted(c))
       /\ \A r \in outbox : r.cycle = c => NthAt(c, r.seq, r.at)
       /\ \A q \in handling : q.row.cycle = c => NthAt(c, q.row.seq, q.row.at)
       /\ \A n \in SequenceNos \ {1} : railOutcome[c][n] # "none" =>
            \E t \in Acted(c) : NthAt(c, n, t) /\ Drawn(c, n, t)

CasesInv == \A c \in Cycles : CaseInv(c)
TimedInv == \A c \in Cycles : TimedCase(c)

\* What is pending is due later than anything a case acted at; within a tick,
\* what is due now is in the batch.
ActedEarlier == \A c \in Cycles : \A u \in Acted(c), r \in Pending : u < StepAt(r).at
ActedByNow ==
  \A c \in Cycles : \A u \in Acted(c) : u < now \/ (u = now /\ cycleState[c] # "SCHEDULED")
PendingLater == \A r \in Pending : StepAt(r).at > now \/ (StepAt(r).at = now /\ r \in batch)
BatchDueNow == \A r \in batch : StepAt(r).at = now

DueInOrder == IF phase \in {"steps", "decide"}
              THEN ActedByNow /\ PendingLater /\ BatchDueNow
              ELSE ActedEarlier

BenchInv ==
  EngineInv /\ DriverInv /\ DrawsInv /\ CasesInv /\ TimedInv /\ DueInOrder

------------------------------------------------------------------------------
(* The instants acted at *)

LEMMA PlanIs ==
  ASSUME TypeInv, NEW c \in Cycles
  PROVE  /\ DOMAIN plan[c] \subseteq StepIds
         /\ \A i \in DOMAIN plan[c] : plan[c][i] \in Step
<1>1. plan[c] \in Plans \cup {<<>>}
  BY DEF TypeInv, TypeOK, DbTypeOK
<1>2. CASE plan[c] \in Plans
  <2>1. plan[c] \in Seq(Step) /\ Len(plan[c]) <= MaxSteps
    BY <1>2, DbAssumption
  <2> QED  BY <2>1, DbAssumption DEF StepIds
<1>3. CASE plan[c] = <<>>
  BY <1>3
<1> QED  BY <1>1, <1>2, <1>3

LEMMA ActedIs ==
  ASSUME TypeInv, NEW c \in Cycles
  PROVE  /\ Acted(c) \in SUBSET Nat /\ IsFiniteSet(Acted(c))
         /\ Cardinality(Acted(c)) \in Nat
         /\ \A t : t \in Acted(c) <=>
              \E i \in StepIds : /\ i \in DOMAIN plan[c] /\ plan[c][i].type = "attempt"
                                 /\ stepStatus[c][i] \in {"dispatched", "done"}
                                 /\ t = plan[c][i].at
<1>1. \A i : StepAt(<<c, i>>) = plan[c][i]
  BY DEF StepAt
<1>2. \A t : t \in Acted(c) <=>
        \E i \in StepIds : /\ i \in DOMAIN plan[c] /\ plan[c][i].type = "attempt"
                           /\ stepStatus[c][i] \in {"dispatched", "done"}
                           /\ t = plan[c][i].at
  BY <1>1, PlanIs DEF Acted
<1>3. Acted(c) \subseteq Time /\ IsFiniteSet(Time)
  BY <1>2, PlanIs, FS_Interval, DbAssumption DEF Step, Time
<1>4. IsFiniteSet(Acted(c)) /\ Acted(c) \in SUBSET Nat
  BY <1>3, FS_Subset, DbAssumption DEF Time
<1> QED  BY <1>2, <1>4, FS_CardinalityType

\* The same, now and after a step.
LEMMA ActedWhere ==
  ASSUME NEW c \in Cycles
  PROVE  /\ \A t : t \in Acted(c) <=>
              \E i \in DOMAIN plan[c] : /\ plan[c][i].type = "attempt"
                                       /\ stepStatus[c][i] \in {"dispatched", "done"}
                                       /\ t = plan[c][i].at
         /\ \A t : t \in Acted(c)' <=>
              \E i \in DOMAIN plan'[c] : /\ plan'[c][i].type = "attempt"
                                        /\ stepStatus'[c][i] \in {"dispatched", "done"}
                                        /\ t = plan'[c][i].at
<1>1. \A i : StepAt(<<c, i>>) = plan[c][i] /\ StepAt(<<c, i>>)' = plan'[c][i]
  BY DEF StepAt
<1> QED  BY <1>1 DEF Acted

\* A step that moves no step of the case into or out of these states acts at no
\* new instant.
LEMMA ActedKept ==
  ASSUME TypeInv, NEW c \in Cycles, plan'[c] = plan[c],
         \A i \in StepIds : stepStatus'[c][i] \in {"dispatched", "done"}
                              <=> stepStatus[c][i] \in {"dispatched", "done"}
  PROVE  Acted(c)' = Acted(c)
<1>1. \A t : t \in Acted(c)' <=> t \in Acted(c)
  BY PlanIs, ActedWhere
<1> QED  BY <1>1

\* So does one that works on a notice.
LEMMA NoticeActsNot ==
  ASSUME TypeInv, NEW c \in Cycles, NEW j, plan'[c] = plan[c],
         plan[c][j].type # "attempt",
         \A i \in StepIds \ {j} : stepStatus'[c][i] = stepStatus[c][i]
  PROVE  Acted(c)' = Acted(c)
<1>1. \A t : t \in Acted(c)' <=> t \in Acted(c)
  BY PlanIs, ActedWhere
<1> QED  BY <1>1

\* One more step acts.
LEMMA ActedGrows ==
  ASSUME TypeInv, NEW c \in Cycles, NEW j \in StepIds, plan'[c] = plan[c],
         j \in DOMAIN plan[c], plan[c][j].type = "attempt",
         stepStatus[c][j] \notin {"dispatched", "done"},
         stepStatus'[c][j] \in {"dispatched", "done"},
         \A i \in StepIds \ {j} : stepStatus'[c][i] = stepStatus[c][i]
  PROVE  Acted(c)' = Acted(c) \cup {plan[c][j].at}
<1>1. \A t : t \in Acted(c)' <=> t \in Acted(c) \/ t = plan[c][j].at
  BY PlanIs, ActedWhere
<1> QED  BY <1>1

\* A step given up acts no longer.
LEMMA ActedShrinks ==
  ASSUME TypeInv, NEW c \in Cycles, plan'[c] = plan[c],
         \A i \in StepIds : stepStatus'[c][i] \in {"dispatched", "done"}
                              => stepStatus[c][i] \in {"dispatched", "done"}
  PROVE  Acted(c)' \subseteq Acted(c)
BY PlanIs, ActedWhere

\* There is one n-th instant.
LEMMA NthIsOne ==
  ASSUME TypeInv, NEW c \in Cycles, NEW n, NEW t, NEW v, NthAt(c, n, t), NthAt(c, n, v),
         n \in Nat
  PROVE  t = v
<1> DEFINE Before(x) == {u \in Acted(c) : u < x}
<1>1. /\ Acted(c) \in SUBSET Nat /\ IsFiniteSet(Acted(c))
      /\ t \in Acted(c) /\ v \in Acted(c)
      /\ Cardinality(Before(t)) = n - 2 /\ Cardinality(Before(v)) = n - 2
  BY ActedIs DEF NthAt
<1>2. ASSUME NEW x \in {t, v}, NEW y \in {t, v}, x < y PROVE FALSE
  <2>1. Before(x) \subseteq Before(y) /\ x \in Before(y) /\ x \notin Before(x)
    BY <1>1, <1>2
  <2>2. IsFiniteSet(Before(y)) /\ Before(y) \subseteq Acted(c)
    BY <1>1, FS_Subset
  <2>3. Cardinality(Before(x)) = Cardinality(Before(y))
    BY <1>1
  <2> HIDE DEF Before
  <2>4. Before(x) = Before(y)
    BY <2>1, <2>2, <2>3, FS_Subset
  <2> QED  BY <2>1, <2>4
<1> QED  BY <1>1, <1>2

\* Acting later than ever leaves the earlier instants where they were in the
\* order, and comes last itself.
LEMMA ActedLater ==
  ASSUME TypeInv, NEW c \in Cycles, NEW m \in Nat,
         \A u \in Acted(c) : u < m, Acted(c)' = Acted(c) \cup {m}
  PROVE  /\ Cardinality(Acted(c)') = Cardinality(Acted(c)) + 1
         /\ \A n, t : NthAt(c, n, t) => NthAt(c, n, t)'
         /\ \A n : n = Cardinality(Acted(c)) + 2 => NthAt(c, n, m)'
<1> DEFINE S == Acted(c)
<1>1. S \in SUBSET Nat /\ IsFiniteSet(S) /\ Cardinality(S) \in Nat /\ m \notin S
  BY ActedIs
<1>2. Cardinality(S \cup {m}) = Cardinality(S) + 1
  <2> HIDE DEF S
  <2> QED  BY <1>1, FS_AddElement
<1>3. \A t \in S : {u \in S \cup {m} : u < t} = {u \in S : u < t}
  BY <1>1
<1>4. {u \in S \cup {m} : u < m} = S
  BY <1>1
<1>5. \A n, t : NthAt(c, n, t) => NthAt(c, n, t)'
  BY <1>3 DEF NthAt
<1>6. ASSUME NEW n, n = Cardinality(S) + 2 PROVE NthAt(c, n, m)'
  <2>1. m \in Acted(c)'
    OBVIOUS
  <2>2. {u \in Acted(c)' : u < m} = S
    BY <1>4
  <2>3. Cardinality({u \in Acted(c)' : u < m}) = n - 2
    <3>1. PICK k \in Nat : k = Cardinality(S)
      BY <1>1
    <3>2. n - 2 = k
      BY <1>6, <3>1
    <3> QED  BY <2>2, <3>1, <3>2
  <2> QED  BY <2>1, <2>3 DEF NthAt
<1> QED  BY <1>2, <1>5, <1>6

------------------------------------------------------------------------------
(***************************************************************************)
(* What each step does to the cases                                        *)
(***************************************************************************)

SameCase(c) ==
  /\ cycleState'[c] = cycleState[c] /\ attemptsUsed'[c] = attemptsUsed[c]
  /\ intents'[c] = intents[c] /\ plan'[c] = plan[c] /\ stepStatus'[c] = stepStatus[c]

caseVars == <<cycleState, attemptsUsed, intents, plan, stepStatus, outbox>>

LEMMA StatusIs ==
  ASSUME TypeInv, NEW c \in Cycles, NEW i \in StepIds, NEW s, SetStepStatus(c, i, s)
  PROVE  /\ stepStatus'[c][i] = s
         /\ \A j \in StepIds : j # i => stepStatus'[c][j] = stepStatus[c][j]
         /\ \A d \in Cycles : d # c => stepStatus'[d] = stepStatus[d]
BY DEF TypeInv, TypeOK, DbTypeOK, SetStepStatus

\* The case at the head is given its first outcome and leaves the queue.
Seeds(c) ==
  /\ stage = "seed" /\ toSeed # <<>> /\ toSeed' = Tail(toSeed) /\ c = Head(toSeed)
  /\ intents[c][1] = "none" /\ intents'[c][1] \in {"success", "failure"}
  /\ intents'[c][1] = railOutcome[c][1]
  /\ \A n \in SequenceNos \ {1} : intents'[c][n] = intents[c][n]
  /\ attemptsUsed'[c] = 1
  /\ cycleState'[c] \in {"RECOVERED", "SCHEDULED", "AWAITING_MANUAL"}
  /\ cycleState'[c] = "RECOVERED" <=> intents'[c][1] = "success"
  /\ cycleState'[c] = "SCHEDULED" => CycleHasOpenSteps(c)'
  /\ \A i \in StepIds : stepStatus'[c][i] \in {stepStatus[c][i], "pending", "absent"}
  /\ plan'[c] = plan[c] \/ \A i \in StepIds : stepStatus'[c][i] \in {"pending", "absent"}
  /\ \A d \in Cycles \ {c} : SameCase(d)

LEMMA SeedingIs ==
  ASSUME EngineInv, DriverInv, DrawsInv, IngestFirstOutcome
  PROVE  \/ UNCHANGED <<toSeed, chosen, tables>>
         \/ UNCHANGED outbox /\ \E c \in Cycles : Seeds(c)
<1>0. PICK c \in Cycles : c = Head(toSeed)
  BY SeedHead DEF IngestFirstOutcome
<1>1. /\ stage = "seed" /\ toSeed # <<>> /\ first # "none"
  BY DEF IngestFirstOutcome
<1>2. PICK w \in Webhooks :
        /\ w.about = c /\ w = Outcome(c, IF first = "success" THEN "debit.succeeded"
                                                             ELSE "debit.failed")
        /\ \/ BeginRequest(w) /\ UNCHANGED <<toSeed, chosen>>
           \/ /\ toSeed' = Tail(toSeed)
              /\ \/ IngestDebitSucceeded(w)
                 \/ IngestDebitFailedPlanned(w) /\ ComputePlan(c, plan'[c])
                 \/ IngestDebitFailedStopped(w)
  BY <1>0, Webhook DEF IngestFirstOutcome
<1>3. CASE BeginRequest(w) /\ UNCHANGED <<toSeed, chosen>>
  BY <1>3 DEF BeginRequest
<1>4. w.type = IF first = "success" THEN "debit.succeeded" ELSE "debit.failed"
  BY <1>2 DEF Outcome
<1>5. railOutcome[c][1] = first /\ first \in {"success", "failure"}
  <2>1. 1 \in SequenceNos
    BY PolicyAssumption DEF SequenceNos
  <2>2. railOutcome[c][1] = first /\ railOutcome[c][1] # "unknown"
    BY <1>0, <1>1, <2>1 DEF DriverInv, DrawsInv
  <2> QED  BY <1>1, <2>2 DEF DriverInv, RailOutcome
<1>6. /\ cycleState \in [Cycles -> CaseState \cup {"absent"}]
      /\ attemptsUsed \in [Cycles -> 0 .. MaxAttempts]
      /\ intents \in [Cycles -> [SequenceNos -> IntentOutcome]]
      /\ stepStatus \in [Cycles -> [StepIds -> StepStatus]]
      /\ plan \in [Cycles -> Plans \cup {<<>>}]
      /\ 1 \in SequenceNos
  BY PolicyAssumption DEF EngineInv, TypeInv, TypeOK, DbTypeOK, SequenceNos
<1>7. CASE IngestDebitSucceeded(w) /\ toSeed' = Tail(toSeed)
  <2>1. /\ intents[c][1] = "none" /\ w.type = "debit.succeeded"
        /\ intents' = [intents EXCEPT ![c][1] = "success"]
        /\ cycleState' = [cycleState EXCEPT ![c] = "RECOVERED"]
        /\ attemptsUsed' = [attemptsUsed EXCEPT ![c] = 1]
        /\ UNCHANGED <<plan, stepStatus, outbox>>
    BY <1>2, <1>7 DEF IngestDebitSucceeded, AppliesToOpenCycle, CanReserve, SetOutcome
  <2>2. first = "success"
    BY <1>4, <2>1
  <2>3. /\ intents'[c][1] = "success"
        /\ \A n \in SequenceNos \ {1} : intents'[c][n] = intents[c][n]
        /\ \A d \in Cycles \ {c} : intents'[d] = intents[d]
    BY <1>6, <2>1, OneCell DEF EngineInv
  <2>4. /\ cycleState'[c] = "RECOVERED" /\ attemptsUsed'[c] = 1
        /\ \A d \in Cycles \ {c} : SameCase(d)
    BY <1>6, <2>1, <2>3 DEF SameCase
  <2>5. Seeds(c)
    BY <1>0, <1>1, <1>5, <1>7, <2>1, <2>2, <2>3, <2>4 DEF Seeds
  <2> QED  BY <2>1, <2>5
<1>8. ASSUME DebitFailedCommit(w)
      PROVE  /\ intents[c][1] = "none" /\ intents'[c][1] = "failure"
             /\ railOutcome[c][1] = "failure" /\ attemptsUsed'[c] = 1
             /\ \A n \in SequenceNos \ {1} : intents'[c][n] = intents[c][n]
             /\ \A d \in Cycles \ {c} :
                  intents'[d] = intents[d] /\ attemptsUsed'[d] = attemptsUsed[d]
             /\ UNCHANGED outbox
  <2>1. /\ intents[c][1] = "none" /\ w.type = "debit.failed"
        /\ intents' = [intents EXCEPT ![c][1] = "failure"]
        /\ attemptsUsed' = [attemptsUsed EXCEPT ![c] = 1]
        /\ UNCHANGED outbox
    BY <1>2, <1>8 DEF DebitFailedCommit, AppliesToOpenCycle, CanReserve, SetOutcome
  <2>2. railOutcome[c][1] = "failure"
    BY <1>4, <1>5, <2>1
  <2>3. /\ intents'[c][1] = "failure"
        /\ \A n \in SequenceNos \ {1} : intents'[c][n] = intents[c][n]
        /\ \A d \in Cycles \ {c} : intents'[d] = intents[d]
    BY <1>6, <2>1, OneCell DEF EngineInv
  <2> QED  BY <1>6, <2>1, <2>2, <2>3
<1>9. CASE IngestDebitFailedStopped(w) /\ toSeed' = Tail(toSeed)
  <2>1. DebitFailedCommit(w) /\ UNCHANGED <<plan, stepStatus>>
    BY <1>9 DEF IngestDebitFailedStopped
  <2>2. cycleState' = [cycleState EXCEPT ![c] = "AWAITING_MANUAL"]
    BY <1>2, <1>9, StoppedState
  <2>3. Seeds(c)
    BY <1>0, <1>1, <1>6, <1>8, <1>9, <2>1, <2>2 DEF Seeds, SameCase
  <2> QED  BY <1>8, <2>1, <2>3
<1>10. CASE /\ IngestDebitFailedPlanned(w) /\ ComputePlan(c, plan'[c])
            /\ toSeed' = Tail(toSeed)
  <2>1. DebitFailedCommit(w)
    BY <1>10 DEF IngestDebitFailedPlanned
  <2>2. cycleState' = [cycleState EXCEPT ![c] = "SCHEDULED"]
    BY <1>2, <1>10, PlannedState
  <2>3. PICK p \in Plans :
          /\ plan' = [plan EXCEPT ![c] = p]
          /\ stepStatus' = [stepStatus EXCEPT ![c] =
               [i \in StepIds |-> IF i \in DOMAIN p THEN "pending" ELSE "absent"]]
    BY <1>2, <1>10 DEF IngestDebitFailedPlanned
  <2>4. /\ plan'[c] = p /\ \A d \in Cycles \ {c} : plan'[d] = plan[d]
        /\ \A i \in StepIds : stepStatus'[c][i] =
                                IF i \in DOMAIN p THEN "pending" ELSE "absent"
        /\ \A d \in Cycles \ {c} : stepStatus'[d] = stepStatus[d]
    BY <1>6, <2>3
  <2>5. 1 \in DOMAIN p /\ 1 \in StepIds
    <3>1. c[1] \in Policies /\ p \in Candidates[c[1]]
      BY <1>10, <2>4, OneDriver DEF ComputePlan
    <3>2. p # <<>> /\ p \in Seq(Step) /\ Len(p) <= MaxSteps
      BY <2>3, <3>1, BenchmarkAssumption, DbAssumption
    <3>3. Len(p) \in Nat /\ Len(p) # 0
      BY <3>2
    <3> QED  BY <3>2, <3>3, DbAssumption DEF StepIds
  <2>6. CycleHasOpenSteps(c)'
    BY <2>4, <2>5 DEF CycleHasOpenSteps
  <2>7. cycleState'[c] = "SCHEDULED" /\ \A d \in Cycles \ {c} : SameCase(d)
    BY <1>6, <1>8, <2>1, <2>2, <2>4 DEF SameCase
  <2>8. Seeds(c)
    BY <1>0, <1>1, <1>8, <1>10, <2>1, <2>4, <2>6, <2>7 DEF Seeds
  <2> QED  BY <1>8, <2>1, <2>8
<1> QED  BY <1>2, <1>3, <1>7, <1>9, <1>10

\* A due step is given up, or its notice sent.
StepsDone(c, i) ==
  /\ phase = "decide" /\ phase' = "steps"
  /\ current = <<c, i>> /\ <<c, i>> \in batch /\ batch' = batch \ {current}
  /\ i \in DOMAIN plan[c] /\ plan'[c] = plan[c]
  /\ stepStatus[c][i] \in {"pending", "cancelled"}
  /\ \A j \in StepIds \ {i} : stepStatus'[c][j] = stepStatus[c][j]
  /\ \A d \in Cycles \ {c} : SameCase(d)
  /\ UNCHANGED <<now, sweepList, railVars, attemptsUsed>>

LEMMA CommitIs ==
  ASSUME EngineInv, NEW s, CommitStep(s)
  PROVE  \E c \in Cycles, i \in StepIds :
           /\ phase = "decide" /\ phase' = "steps"
           /\ current = <<c, i>> /\ <<c, i>> \in batch /\ batch' = batch \ {current}
           /\ i \in DOMAIN plan[c] /\ UNCHANGED plan
           /\ stepStatus[c][i] \in {"pending", "cancelled"} /\ stepStatus'[c][i] = s
           /\ \A j \in StepIds \ {i} : stepStatus'[c][j] = stepStatus[c][j]
           /\ \A d \in Cycles \ {c} : stepStatus'[d] = stepStatus[d]
           /\ UNCHANGED <<now, sweepList, railVars, attemptsUsed>>
<1>1. /\ phase = "decide" /\ phase' = "steps" /\ batch' = batch \ {current}
      /\ SetStepStatus(current[1], current[2], s)
      /\ UNCHANGED <<now, sweepList, railVars, attemptsUsed, plan>>
  BY DEF CommitStep
<1>2. current \in StepRef /\ Exists(current) /\ current \in batch
  BY <1>1 DEF EngineInv, TypeInv, StepsPlanned, StepInv, BatchTaken
<1>3. PICK c \in Cycles, i \in StepIds : current = <<c, i>>
  BY <1>2 DEF StepRef
<1>4. i \in DOMAIN plan[c]
  BY <1>2, <1>3 DEF EngineInv, TypeInv, StepsPlanned, Exists
<1>5. stepStatus[c][i] \in {"pending", "cancelled"}
  BY <1>2, <1>3 DEF EngineInv, StepInv, BatchTaken
<1>6. /\ stepStatus'[c][i] = s
      /\ \A j \in StepIds \ {i} : stepStatus'[c][j] = stepStatus[c][j]
      /\ \A d \in Cycles \ {c} : stepStatus'[d] = stepStatus[d]
  BY <1>1, <1>3, StatusIs DEF EngineInv
<1> QED  BY <1>1, <1>2, <1>3, <1>4, <1>5, <1>6

LEMMA StepDoneIs ==
  ASSUME EngineInv, CancelStep \/ ProcessNotifyStep
  PROVE  /\ UNCHANGED <<cycleState, intents, outbox>>
         /\ \E c \in Cycles, i \in StepIds :
              /\ StepsDone(c, i)
              /\ \/ stepStatus'[c][i] = "cancelled"
                 \/ stepStatus'[c][i] = "done" /\ plan[c][i].type # "attempt"
<1>1. /\ UNCHANGED <<cycleState, intents, outbox>>
      /\ \/ CommitStep("cancelled")
         \/ CommitStep("done") /\ StepAt(current).type = "notify"
  BY DEF CancelStep, ProcessNotifyStep
<1>2. \A c, i : StepAt(<<c, i>>) = plan[c][i]
  BY DEF StepAt
<1>3. PICK s \in {"cancelled", "done"} :
        CommitStep(s) /\ (s = "done" => StepAt(current).type = "notify")
  BY <1>1
<1>4. PICK c \in Cycles, i \in StepIds :
        /\ phase = "decide" /\ phase' = "steps"
        /\ current = <<c, i>> /\ <<c, i>> \in batch /\ batch' = batch \ {current}
        /\ i \in DOMAIN plan[c] /\ UNCHANGED plan
        /\ stepStatus[c][i] \in {"pending", "cancelled"} /\ stepStatus'[c][i] = s
        /\ \A j \in StepIds \ {i} : stepStatus'[c][j] = stepStatus[c][j]
        /\ \A d \in Cycles \ {c} : stepStatus'[d] = stepStatus[d]
        /\ UNCHANGED <<now, sweepList, railVars, attemptsUsed>>
  BY <1>3, CommitIs
<1>5. StepsDone(c, i)
  BY <1>1, <1>4 DEF StepsDone, SameCase
<1> QED  BY <1>1, <1>2, <1>3, <1>4, <1>5

\* An attempt is reserved for a case that had none in flight.
LEMMA DispatchIs ==
  ASSUME EngineInv, DispatchAttempt
  PROVE  \E c \in Cycles, i \in StepIds, n \in SequenceNos \ {1} :
           /\ StepsDone(c, i)
           /\ stepStatus'[c][i] = "dispatched" /\ plan[c][i].type = "attempt"
           /\ cycleState[c] = "SCHEDULED" /\ cycleState'[c] = "EXECUTING"
           /\ Settled(c) /\ n = CountAttempts(c) + 1
           /\ intents[c][n] = "none" /\ intents'[c][n] = "reserved"
           /\ \A m \in SequenceNos \ {n} : intents'[c][m] = intents[c][m]
           /\ outbox' = outbox \cup
                {[cycle |-> c, seq |-> n, step |-> i, at |-> plan[c][i].at]}
<1>1. PICK c \in Cycles, i \in StepIds :
        /\ phase = "decide" /\ phase' = "steps"
        /\ current = <<c, i>> /\ <<c, i>> \in batch /\ batch' = batch \ {current}
        /\ i \in DOMAIN plan[c] /\ UNCHANGED plan
        /\ stepStatus[c][i] \in {"pending", "cancelled"} /\ stepStatus'[c][i] = "dispatched"
        /\ \A j \in StepIds \ {i} : stepStatus'[c][j] = stepStatus[c][j]
        /\ \A d \in Cycles \ {c} : stepStatus'[d] = stepStatus[d]
        /\ UNCHANGED <<now, sweepList, railVars, attemptsUsed>>
  BY CommitIs DEF DispatchAttempt
<1>2. StepAt(current) = plan[c][i] /\ current[1] = c /\ current[2] = i
  BY <1>1 DEF StepAt
<1>0. seen.attempts + 1 \in SequenceNos
  BY DEF DispatchAttempt, CanReserve
<1> PICK n \in SequenceNos : n = seen.attempts + 1
  BY <1>0
<1>3. /\ plan[c][i].type = "attempt" /\ seen.state = "SCHEDULED" /\ CanReserve(c, n)
      /\ cycleState' = [cycleState EXCEPT ![c] = Transition(seen.state, "STEP_DUE")]
      /\ intents' = [intents EXCEPT ![c][n] = "reserved"]
      /\ outbox' = outbox \cup
           {[cycle |-> c, seq |-> n, step |-> i, at |-> plan[c][i].at]}
  BY <1>2 DEF DispatchAttempt, SetOutcome
<1>4. cycleState[c] = "SCHEDULED"
  BY <1>1, <1>2, <1>3 DEF EngineInv, ThreadInv, ReadsCurrent
<1>5. Settled(c) /\ seen.attempts = CountAttempts(c)
  BY <1>1, <1>2, <1>3 DEF EngineInv, LedgerInv, VerdictCurrent
<1>6. n \in SequenceNos \ {1} /\ intents[c][n] = "none" /\ n = CountAttempts(c) + 1
  BY <1>3, <1>5 DEF CanReserve, Settled
<1>7. /\ intents'[c][n] = "reserved"
      /\ \A m \in SequenceNos \ {n} : intents'[c][m] = intents[c][m]
      /\ \A d \in Cycles \ {c} : intents'[d] = intents[d]
  <2>1. TypeInv /\ n \in SequenceNos /\ intents' = [intents EXCEPT ![c][n] = "reserved"]
    BY <1>3 DEF EngineInv
  <2>2. /\ intents'[c][n] = "reserved"
        /\ \A m \in SequenceNos : m # n => intents'[c][m] = intents[c][m]
        /\ \A d \in Cycles : d # c => intents'[d] = intents[d]
    BY <2>1, OneCell
  <2> QED  BY <2>2
<1>8. cycleState'[c] = "EXECUTING" /\ \A d \in Cycles \ {c} : cycleState'[d] = cycleState[d]
  <2>1. cycleState' = [cycleState EXCEPT ![c] = "EXECUTING"]
    BY <1>3, Edges
  <2> QED  BY <2>1 DEF EngineInv, TypeInv, TypeOK, DbTypeOK
<1>9. StepsDone(c, i)
  <2>1. \A d \in Cycles \ {c} : SameCase(d)
    BY <1>1, <1>7, <1>8 DEF SameCase
  <2> QED  BY <1>1, <2>1 DEF StepsDone
<1> QED  BY <1>1, <1>3, <1>4, <1>5, <1>6, <1>7, <1>8, <1>9

\* The row being sent is one of a retry, in flight.
LEMMA SendingIs ==
  ASSUME EngineInv, phase \in {"await", "settle"}
  PROVE  /\ sending \in outbox /\ sending \in OutboxRow
         /\ sending.cycle \in Cycles /\ sending.seq \in SequenceNos \ {1}
         /\ sending.step \in StepIds
         /\ intents[sending.cycle][sending.seq] = "reserved"
         /\ stepStatus[sending.cycle][sending.step] = "dispatched"
         /\ \A r \in outbox : r.cycle = sending.cycle => r = sending
<1>1. sending \in outbox /\ \A r \in outbox : r.cycle = sending.cycle => r = sending
  BY DEF EngineInv, LedgerInv, RowsReserved
<1>2. /\ sending \in OutboxRow /\ sending.seq # 1
      /\ stepStatus[sending.cycle][sending.step] = "dispatched"
  BY <1>1
  DEF EngineInv, TypeInv, TypeOK, DbTypeOK, RailInv, RetriesOnly, StepInv, RowsDispatched
<1>3. sending.cycle \in Cycles /\ sending.seq \in SequenceNos /\ sending.step \in StepIds
  BY <1>2 DEF OutboxRow
<1>4. intents[sending.cycle][sending.seq] = "reserved"
  BY <1>1, <1>3 DEF EngineInv, LedgerInv, RowsReserved
<1> QED  BY <1>1, <1>2, <1>3, <1>4

\* The row being sent gets the outcome o.
RowDone(c, n, i, o) ==
  /\ sending.cycle = c /\ sending.seq = n /\ sending.step = i
  /\ sending \in outbox /\ outbox' = outbox \ {sending}
  /\ \A r \in outbox : r.cycle = c => r = sending
  /\ phase \in {"await", "settle"} /\ phase' = "drain"
  /\ stepStatus[c][i] = "dispatched"
  /\ intents[c][n] = "reserved" /\ intents'[c][n] = o
  /\ \A m \in SequenceNos \ {n} : intents'[c][m] = intents[c][m]
  /\ plan'[c] = plan[c] /\ \A d \in Cycles \ {c} : SameCase(d)
  /\ UNCHANGED <<now, batch, sweepList, railOutcome, handling>>

LEMMA DeniedIs ==
  ASSUME EngineInv, HandleRailDenied
  PROVE  \E c \in Cycles, n \in SequenceNos \ {1}, i \in StepIds :
           /\ RowDone(c, n, i, "blocked") /\ stepStatus'[c][i] = "cancelled"
           /\ \A j \in StepIds \ {i} : stepStatus'[c][j] = stepStatus[c][j]
           /\ UNCHANGED <<cycleState, attemptsUsed>>
<1>1. /\ phase = "await" /\ RowHandled /\ outbox' = outbox \ {sending}
      /\ SetOutcome(sending.cycle, sending.seq, "blocked")
      /\ SetStepStatus(sending.cycle, sending.step, "cancelled")
      /\ UNCHANGED <<cycleState, attemptsUsed, plan>>
  BY DEF HandleRailDenied
<1>2. PICK c \in Cycles, n \in SequenceNos \ {1}, i \in StepIds :
        c = sending.cycle /\ n = sending.seq /\ i = sending.step
  BY <1>1, SendingIs
<1>3. /\ intents'[c][n] = "blocked"
      /\ \A m \in SequenceNos \ {n} : intents'[c][m] = intents[c][m]
      /\ \A d \in Cycles \ {c} : intents'[d] = intents[d]
  <2>1. TypeInv /\ n \in SequenceNos /\ intents' = [intents EXCEPT ![c][n] = "blocked"]
    BY <1>1, <1>2 DEF SetOutcome, EngineInv
  <2>2. /\ intents'[c][n] = "blocked"
        /\ \A m \in SequenceNos : m # n => intents'[c][m] = intents[c][m]
        /\ \A d \in Cycles : d # c => intents'[d] = intents[d]
    BY <2>1, OneCell
  <2> QED  BY <2>2
<1>4. /\ stepStatus'[c][i] = "cancelled"
      /\ \A j \in StepIds \ {i} : stepStatus'[c][j] = stepStatus[c][j]
      /\ \A d \in Cycles \ {c} : stepStatus'[d] = stepStatus[d]
  BY <1>1, <1>2, StatusIs DEF EngineInv
<1>5. RowDone(c, n, i, "blocked")
  <2>1. phase' = "drain" /\ UNCHANGED <<now, batch, sweepList, railOutcome, handling>>
    BY <1>1 DEF RowHandled
  <2>2. \A d \in Cycles \ {c} : SameCase(d)
    BY <1>1, <1>3, <1>4 DEF SameCase
  <2> QED  BY <1>1, <1>2, <1>3, <2>1, <2>2, SendingIs DEF RowDone
<1> QED  BY <1>1, <1>4, <1>5

\* A delivered outcome always finds its case still being executed.
LEMMA SettleIs ==
  ASSUME EngineInv, CasesInv,
         DeliveredAfterClose \/ AttemptSucceeded \/ BudgetExhausted \/ AttemptFailed
  PROVE  \E c \in Cycles, n \in SequenceNos \ {1}, i \in StepIds :
           /\ RowDone(c, n, i, railOutcome[c][n]) /\ railOutcome[c][n] \in RailOutcome
           /\ cycleState'[c] \in {"RECOVERED", "ABANDONED", "SCHEDULED"}
           /\ cycleState[c] = "EXECUTING"
           /\ cycleState'[c] = "RECOVERED" <=> railOutcome[c][n] = "success"
           /\ attemptsUsed'[c] = CountAttempts(c)
           /\ stepStatus'[c][i] = "done"
           /\ \A j \in StepIds \ {i} :
                \/ stepStatus'[c][j] = stepStatus[c][j]
                \/ stepStatus[c][j] = "pending" /\ stepStatus'[c][j] = "cancelled"
<1>0. CommitDelivered /\ phase = "settle"
  BY DEF DeliveredAfterClose, AttemptSucceeded, BudgetExhausted, AttemptFailed, MoveCase,
         CommitDelivered
<1>1. /\ RowHandled /\ outbox' = outbox \ {sending} /\ UNCHANGED plan
      /\ SetOutcome(sending.cycle, sending.seq, reply)
  BY <1>0 DEF CommitDelivered
<1>2. PICK c \in Cycles, n \in SequenceNos \ {1}, i \in StepIds :
        c = sending.cycle /\ n = sending.seq /\ i = sending.step
  BY <1>0, SendingIs
<1>3. reply = railOutcome[c][n] /\ reply \in RailOutcome
  BY <1>0, <1>2 DEF EngineInv, TypeInv, Conversation, RailInv, AnswerIsRecorded
<1>4. cycleState[c] = "EXECUTING" /\ seen.state = "EXECUTING"
  <2>1. InFlight(c)
    BY <1>0, <1>2, SendingIs DEF InFlight
  <2> QED  BY <1>0, <1>2, <2>1 DEF CasesInv, CaseInv, EngineInv, ThreadInv, ReadsCurrent
<1>5. /\ intents'[c][n] = reply
      /\ \A m \in SequenceNos \ {n} : intents'[c][m] = intents[c][m]
      /\ \A d \in Cycles \ {c} : intents'[d] = intents[d]
  <2>1. TypeInv /\ n \in SequenceNos /\ intents' = [intents EXCEPT ![c][n] = reply]
    BY <1>1, <1>2 DEF SetOutcome, EngineInv
  <2>2. /\ intents'[c][n] = reply
        /\ \A m \in SequenceNos : m # n => intents'[c][m] = intents[c][m]
        /\ \A d \in Cycles : d # c => intents'[d] = intents[d]
    BY <2>1, OneCell
  <2> QED  BY <2>2
<1>6. PICK e \in {"ATTEMPT_SUCCEEDED", "BUDGET_EXHAUSTED", "ATTEMPT_FAILED_BUDGET_LEFT"} :
        /\ MoveCase(e) /\ (e = "ATTEMPT_SUCCEEDED" <=> reply = "success")
        /\ CloseSteps \/ SetStepStatus(sending.cycle, sending.step, "done")
  BY <1>4 DEF DeliveredAfterClose, AttemptSucceeded, BudgetExhausted, AttemptFailed
<1>7. /\ cycleState' = [cycleState EXCEPT ![c] = Transition("EXECUTING", e)]
      /\ attemptsUsed' = [attemptsUsed EXCEPT ![c] = CountAttempts(c)]
  BY <1>2, <1>6 DEF MoveCase
<1>8. /\ cycleState'[c] = Transition("EXECUTING", e) /\ attemptsUsed'[c] = CountAttempts(c)
      /\ \A d \in Cycles \ {c} :
           cycleState'[d] = cycleState[d] /\ attemptsUsed'[d] = attemptsUsed[d]
  BY <1>7 DEF EngineInv, TypeInv, TypeOK, DbTypeOK
<1>9. /\ cycleState'[c] \in {"RECOVERED", "ABANDONED", "SCHEDULED"}
      /\ cycleState'[c] = "RECOVERED" <=> reply = "success"
  BY <1>6, <1>8, Edges
<1>10. /\ stepStatus'[c][i] = "done"
       /\ \A j \in StepIds \ {i} :
            \/ stepStatus'[c][j] = stepStatus[c][j]
            \/ stepStatus[c][j] = "pending" /\ stepStatus'[c][j] = "cancelled"
       /\ \A d \in Cycles \ {c} : stepStatus'[d] = stepStatus[d]
  <2>1. CASE SetStepStatus(sending.cycle, sending.step, "done")
    BY <1>2, <2>1, StatusIs DEF EngineInv
  <2>2. CASE CloseSteps
    <3> DEFINE marked == [stepStatus[c] EXCEPT ![i] = "done"]
    <3>1. stepStatus \in [Cycles -> [StepIds -> StepStatus]]
      BY DEF EngineInv, TypeInv, TypeOK, DbTypeOK
    <3>2. stepStatus' = [stepStatus EXCEPT ![c] = CancelPending(marked)]
      BY <1>2, <2>2, <3>1 DEF CloseSteps
    <3>3. marked[i] = "done" /\ \A j \in StepIds \ {i} : marked[j] = stepStatus[c][j]
      BY <3>1
    <3> HIDE DEF marked
    <3>4. \A j \in StepIds : CancelPending(marked)[j] =
                               IF marked[j] = "pending" THEN "cancelled" ELSE marked[j]
      BY DEF CancelPending
    <3>5. /\ stepStatus'[c] = CancelPending(marked)
          /\ \A d \in Cycles \ {c} : stepStatus'[d] = stepStatus[d]
      BY <3>1, <3>2
    <3> QED  BY <3>3, <3>4, <3>5
  <2> QED  BY <1>6, <2>1, <2>2
<1>11. RowDone(c, n, i, railOutcome[c][n])
  <2>1. phase' = "drain" /\ UNCHANGED <<now, batch, sweepList, railOutcome, handling>>
    BY <1>1 DEF RowHandled
  <2>2. \A d \in Cycles \ {c} : SameCase(d)
    BY <1>1, <1>5, <1>8, <1>10 DEF SameCase
  <2> QED  BY <1>0, <1>1, <1>2, <1>3, <1>5, <2>1, <2>2, SendingIs DEF RowDone
<1> QED  BY <1>3, <1>4, <1>8, <1>9, <1>10, <1>11

\* The sweep closes a case that waits for nothing.
LEMMA SweepIs ==
  ASSUME EngineInv, NEW c \in sweepList, SweepCycle(c)
  PROVE  /\ c \in Cycles /\ cycleState[c] = "SCHEDULED" /\ cycleState'[c] = "ABANDONED"
         /\ \A d \in Cycles \ {c} : SameCase(d)
         /\ sweepList' = sweepList \ {c} /\ phase = "sweep"
         /\ UNCHANGED <<attemptsUsed, intents, plan, stepStatus, outbox, railVars, phase,
                        now, batch>>
<1>1. /\ c \in Cycles /\ cycleState[c] = "SCHEDULED"
  BY DEF EngineInv, TypeInv, TypeOK, WorkerTypeOK, ThreadInv, ReadsCurrent
<1>2. /\ sweepList' = sweepList \ {c} /\ phase = "sweep"
      /\ cycleState' = [cycleState EXCEPT ![c] = Transition("SCHEDULED", "BUDGET_EXHAUSTED")]
      /\ UNCHANGED <<attemptsUsed, intents, plan, stepStatus, outbox, railVars, phase,
                     now, batch>>
  BY DEF SweepCycle
<1>3. cycleState' = [cycleState EXCEPT ![c] = "ABANDONED"]
  BY <1>2, Edges
<1>4. /\ cycleState'[c] = "ABANDONED"
      /\ \A d \in Cycles \ {c} : cycleState'[d] = cycleState[d]
  BY <1>1, <1>3 DEF EngineInv, TypeInv, TypeOK, DbTypeOK
<1> QED  BY <1>1, <1>2, <1>4 DEF SameCase

\* The steps that read, talk to the rail or move the driver.
DriverMoves ==
  \/ Truncate \/ FireFirstAttempt \/ StartLoop \/ SetNow \/ ReadResults
  \/ UNCHANGED benchVars

WorkerReads ==
  \/ TickAtNow
  \/ /\ WorkerTurn
     /\ \/ \E r \in batch : ReadStep(r)
        \/ FetchOutbox \/ \E row \in rows : SendToRail(row)
        \/ RetryLater \/ ReadDeliveredCycle \/ FindExhaustedPlans \/ EndTick \/ RequestError

WorkerWrites ==
  /\ WorkerTurn
  /\ \/ CancelStep \/ ProcessNotifyStep \/ DispatchAttempt \/ HandleRailDenied
     \/ DeliveredAfterClose \/ AttemptSucceeded \/ BudgetExhausted \/ AttemptFailed
     \/ \E c \in sweepList : SweepCycle(c)

LEMMA StepKinds ==
  ASSUME [BenchNext]_benchVars
  PROVE  \/ DriverMoves \/ WorkerReads \/ WorkerWrites \/ RailTurn
         \/ SeedCycle \/ IngestFirstOutcome
<1>1. CASE WorkerTurn
  BY <1>1 DEF WorkerTurn, WorkerStep, WorkerReads, WorkerWrites
<1>2. CASE ~WorkerTurn
  BY <1>2 DEF BenchNext, DriverStep, DriverMoves, WorkerReads
<1> QED  BY <1>1, <1>2

\* They leave the cases alone.
LEMMA QuietIs ==
  ASSUME EngineInv, DriverInv, DriverMoves \/ WorkerReads \/ RailTurn
  PROVE  /\ UNCHANGED caseVars
         /\ \A c \in Cycles : Seeded(c)' => Seeded(c)
         /\ stage' \in {"reset", "seed"} => stage \in {"reset", "seed"}
         /\ \A c \in Cycles : SweepAhead(c) /\ cycleState[c] = "SCHEDULED" =>
              CycleHasOpenSteps(c) \/ SweepAhead(c)'
<1>1. CASE Truncate
  <2>1. UNCHANGED <<caseVars, phase, sweepList>> /\ stage' = "seed" /\ toSeed' = SeedOrder
        /\ stage = "reset"
    BY <1>1 DEF Truncate, DriverInv, Untouched, caseVars, local
  <2>2. \A c \in Cycles : ~Seeded(c)'
    BY <2>1, SeedOrderIs DEF Seeded
  <2> QED  BY <2>1, <2>2 DEF SweepAhead
<1>2. CASE DriverMoves /\ ~Truncate
  <2>1. UNCHANGED <<caseVars, phase, sweepList>>
    BY <1>2
    DEF DriverMoves, FireFirstAttempt, StartLoop, SetNow, ReadResults, benchVars, vars,
        tables, local, caseVars
  <2>2. \/ UNCHANGED <<stage, toSeed>>
        \/ stage = "seed" /\ toSeed = <<>> /\ stage' = "loop"
        \/ stage = "loop" /\ stage' = "reported"
    BY <1>2
    DEF DriverMoves, FireFirstAttempt, StartLoop, SetNow, ReadResults, benchVars, driver
  <2> QED  BY <2>1, <2>2 DEF Seeded, SweepAhead
<1>3. CASE RailTurn
  <2>1. UNCHANGED <<caseVars, phase, sweepList, stage, toSeed>>
    BY <1>3, OthersTurn DEF tables, local, caseVars
  <2> QED  BY <2>1 DEF Seeded, SweepAhead
<1>4. CASE WorkerReads
  <2>1. UNCHANGED <<stage, toSeed>>
    BY <1>4, OthersTurn DEF WorkerReads, TickAtNow, driver
  <2>2. UNCHANGED caseVars
    BY <1>4
    DEF WorkerReads, TickAtNow, FetchDueSteps, ReadStep, FetchOutbox, SendToRail,
        RetryLater, ReadDeliveredCycle, FindExhaustedPlans, EndTick, RequestError,
        tables, caseVars
  <2>3. CASE \/ TickAtNow \/ (\E r \in batch : ReadStep(r)) \/ FetchOutbox
             \/ (\E row \in rows : SendToRail(row)) \/ RetryLater \/ ReadDeliveredCycle
    <3>1. phase' \in {"steps", "decide", "drain", "await", "settle"}
      BY <2>3
      DEF TickAtNow, FetchDueSteps, ReadStep, FetchOutbox, SendToRail, RetryLater,
          RowHandled, ReadDeliveredCycle
    <3> QED  BY <2>1, <2>2, <3>1 DEF Seeded, SweepAhead
  <2>4. CASE RequestError
    <3>1. UNCHANGED <<phase, sweepList>>
      BY <2>4 DEF RequestError, local
    <3> QED  BY <2>1, <2>2, <3>1 DEF Seeded, SweepAhead
  <2>5. CASE FindExhaustedPlans
    <3>1. sweepList' = {c \in Cycles : cycleState[c] = "SCHEDULED" /\ ~CycleHasOpenSteps(c)}
      BY <2>5 DEF FindExhaustedPlans
    <3> QED  BY <2>1, <2>2, <3>1 DEF Seeded, SweepAhead
  <2>6. CASE EndTick
    <3>1. phase = "sweep" /\ sweepList = {}
      BY <2>6 DEF EndTick
    <3> QED  BY <2>1, <2>2, <3>1 DEF Seeded, SweepAhead
  <2> QED  BY <1>4, <2>3, <2>4, <2>5, <2>6 DEF WorkerReads
<1> QED  BY <1>1, <1>2, <1>3, <1>4

------------------------------------------------------------------------------
(* CasesInv *)

\* A case that a step does not concern stays as it was.
LEMMA CaseKept ==
  ASSUME NEW c \in Cycles, CaseInv(c), SameCase(c), Seeded(c)' => Seeded(c),
         \A r : r.cycle = c => (r \in outbox' <=> r \in outbox),
         SweepAhead(c) /\ cycleState[c] = "SCHEDULED" =>
           CycleHasOpenSteps(c) \/ SweepAhead(c)'
  PROVE  CaseInv(c)'
<1>1. /\ CountAttempts(c)' = CountAttempts(c) /\ Refused(c)' = Refused(c)
      /\ CycleHasOpenSteps(c)' = CycleHasOpenSteps(c)
      /\ (\E n \in SequenceNos : intents'[c][n] = "success")
           = (\E n \in SequenceNos : intents[c][n] = "success")
  BY DEF SameCase, CountAttempts, Refused, CycleHasOpenSteps
<1>2. InFlight(c)' <=> InFlight(c)
  BY DEF InFlight
<1>3. \A i \in StepIds :
        (\E r \in outbox' : r.cycle = c /\ r.step = i)
          <=> (\E r \in outbox : r.cycle = c /\ r.step = i)
  OBVIOUS
<1>4. /\ cycleState'[c] = cycleState[c] /\ attemptsUsed'[c] = attemptsUsed[c]
      /\ stepStatus'[c] = stepStatus[c]
  BY DEF SameCase
<1> QED  BY <1>1, <1>2, <1>3, <1>4 DEF CaseInv

LEMMA QuietCases ==
  ASSUME EngineInv, DriverInv, CasesInv, DriverMoves \/ WorkerReads \/ RailTurn
  PROVE  CasesInv'
<1>1. \A c \in Cycles : SameCase(c)
  BY QuietIs DEF caseVars, SameCase
<1>2. \A r : r \in outbox' <=> r \in outbox
  BY QuietIs DEF caseVars
<1> QED  BY <1>1, <1>2, QuietIs, CaseKept DEF CasesInv

\* The case at the head is not seeded yet, nor are those after it.
LEMMA SeedQueue ==
  ASSUME DriverInv, stage = "seed", toSeed # <<>>
  PROVE  /\ ~Seeded(Head(toSeed))
         /\ UNCHANGED <<stage>> /\ toSeed' = Tail(toSeed) =>
              \A c \in Cycles : c # Head(toSeed) => (Seeded(c)' => Seeded(c))
<1>1. ~Seeded(Head(toSeed))
  BY SeedHead DEF Seeded
<1>2. ASSUME NEW k \in DOMAIN toSeed, k # 1
      PROVE  k - 1 \in DOMAIN Tail(toSeed) /\ Tail(toSeed)[k - 1] = toSeed[k]
  <2>1. toSeed \in Seq(Cycles) /\ Len(toSeed) \in Nat /\ DOMAIN toSeed = 1 .. Len(toSeed)
    BY DEF DriverInv
  <2>2. k \in 1 .. Len(toSeed) /\ k - 1 \in 1 .. Len(toSeed) - 1
    BY <1>2, <2>1
  <2>3. /\ DOMAIN Tail(toSeed) = 1 .. Len(toSeed) - 1
        /\ \A i \in 1 .. Len(toSeed) - 1 : Tail(toSeed)[i] = toSeed[i + 1]
    BY <2>1, HeadTailProperties
  <2> QED  BY <2>2, <2>3
<1>3. toSeed[1] = Head(toSeed)
  BY SeedHead
<1> QED  BY <1>1, <1>2, <1>3 DEF Seeded

LEMMA SeedCycleCases ==
  ASSUME EngineInv, DriverInv, CasesInv, SeedCycle
  PROVE  CasesInv'
<1>1. PICK c \in Cycles : c = Head(toSeed)
  BY SeedHead DEF SeedCycle
<1>2. /\ stage = "seed" /\ toSeed # <<>>
      /\ UNCHANGED <<attemptsUsed, intents, plan, stepStatus, outbox, phase, sweepList,
                     stage, toSeed>>
      /\ cycleState' = [cycleState EXCEPT ![c] = IF @ = "absent" THEN "DUE" ELSE @]
  BY <1>1 DEF SeedCycle, IngestCycleDue, DueEvent, local, driver
<1>3. /\ cycleState'[c] = IF cycleState[c] = "absent" THEN "DUE" ELSE cycleState[c]
      /\ \A d \in Cycles \ {c} : cycleState'[d] = cycleState[d]
  BY <1>2 DEF EngineInv, TypeInv, TypeOK, DbTypeOK
<1>4. \A d \in Cycles : Seeded(d)' = Seeded(d) /\ SweepAhead(d)' = SweepAhead(d)
  BY <1>2 DEF Seeded, SweepAhead
<1>5. \A d \in Cycles \ {c} : SameCase(d)
  BY <1>2, <1>3 DEF SameCase
<1>6. \A d \in Cycles \ {c} : CaseInv(d)'
  BY <1>2, <1>4, <1>5, CaseKept DEF CasesInv
<1>7. CaseInv(c)'
  <2>1. CASE cycleState[c] # "absent"
    BY <1>2, <1>3, <1>4, <2>1, CaseKept DEF CasesInv, SameCase
  <2>2. CASE cycleState[c] = "absent"
    <3>1. ~Seeded(c)'
      BY <1>1, <1>2, <1>4, SeedQueue
    <3>2. /\ InFlight(c)' = InFlight(c)
          /\ (\E n \in SequenceNos : intents'[c][n] = "success")
               = (\E n \in SequenceNos : intents[c][n] = "success")
          /\ cycleState'[c] = "DUE"
      BY <1>2, <1>3, <2>2 DEF InFlight
    <3> QED  BY <1>2, <2>2, <3>1, <3>2 DEF CasesInv, CaseInv, TerminalStates
  <2> QED  BY <2>1, <2>2
<1> QED  BY <1>6, <1>7 DEF CasesInv

\* A first outcome leaves its case with one attempt on record.
LEMMA OneAttemptSeeded ==
  ASSUME EngineInv, NEW c \in Cycles, Seeds(c)
  PROVE  CountAttempts(c)' = 1
<1>1. \A n \in SequenceNos : intents[c][n] = "none"
  BY NoFirstNoOther DEF Seeds, EngineInv, LedgerInv
<1>2. \A n \in SequenceNos : intents'[c][n] # "none" <=> n = 1
  BY <1>1 DEF Seeds
<1> QED  BY <1>2, OneAttempt

LEMMA FirstOutcomeCases ==
  ASSUME EngineInv, DriverInv, DrawsInv, CasesInv, IngestFirstOutcome
  PROVE  CasesInv'
<1>0. UNCHANGED <<stage, phase, sweepList>>
  BY DEF IngestFirstOutcome, local
<1>1. CASE UNCHANGED <<toSeed, chosen, tables>>
  <2>1. /\ \A c \in Cycles : SameCase(c) /\ Seeded(c)' = Seeded(c)
                             /\ SweepAhead(c)' = SweepAhead(c)
        /\ UNCHANGED outbox
    BY <1>0, <1>1 DEF tables, SameCase, Seeded, SweepAhead
  <2> QED  BY <2>1, CaseKept DEF CasesInv
<1>2. ASSUME UNCHANGED outbox, NEW c \in Cycles, Seeds(c)
      PROVE  CasesInv'
  <2>1. \A d \in Cycles \ {c} : CaseInv(d)'
    <3>1. \A d \in Cycles \ {c} : SameCase(d) /\ (Seeded(d)' => Seeded(d))
      BY <1>0, <1>2, SeedQueue DEF Seeds
    <3>2. \A d \in Cycles : SweepAhead(d)' = SweepAhead(d)
      BY <1>0 DEF SweepAhead
    <3> QED  BY <1>2, <3>1, <3>2, CaseKept DEF CasesInv
  <2>2. \A n \in SequenceNos : intents[c][n] = "none"
    BY <1>2, NoFirstNoOther DEF Seeds, EngineInv, LedgerInv
  <2>3. CountAttempts(c)' = 1
    BY <1>2, OneAttemptSeeded
  <2>4. ~InFlight(c)'
    <3>1. \A r \in outbox : r.cycle \in Cycles /\ r.seq \in SequenceNos
      BY DEF EngineInv, TypeInv, TypeOK, DbTypeOK, OutboxRow
    <3> QED  BY <1>2, <2>2, <3>1 DEF InFlight, EngineInv, LedgerInv, RowsReserved
  <2>5. \A i \in StepIds : stepStatus'[c][i] # "dispatched"
    <3>1. \A i \in StepIds : stepStatus[c][i] # "dispatched"
      BY <1>2, <2>4 DEF CasesInv, CaseInv, InFlight
    <3> QED  BY <1>2, <3>1 DEF Seeds
  <2>6. (\E n \in SequenceNos : intents'[c][n] = "success") <=> intents'[c][1] = "success"
    <3>1. 1 \in SequenceNos
      BY PolicyAssumption DEF SequenceNos
    <3> QED  BY <1>2, <2>2, <3>1 DEF Seeds
  <2>7. CaseInv(c)'
    BY <1>2, <2>3, <2>4, <2>5, <2>6 DEF Seeds, CaseInv, TerminalStates
  <2> QED  BY <2>1, <2>7 DEF CasesInv
<1> QED  BY <1>1, <1>2, SeedingIs

\* The worker is there only after the cases were seeded.
LEMMA WorkerSeeded ==
  ASSUME WorkerTurn
  PROVE  /\ stage = "loop" /\ UNCHANGED <<stage, toSeed>>
         /\ \A c \in Cycles : Seeded(c) /\ Seeded(c)'
BY OthersTurn DEF Seeded

\* A step that is done reserves nothing ...
LEMMA StepDoneCases ==
  ASSUME EngineInv, CasesInv, WorkerTurn, CancelStep \/ ProcessNotifyStep
  PROVE  CasesInv'
<1>1. PICK c \in Cycles, i \in StepIds :
        StepsDone(c, i) /\ stepStatus'[c][i] \in {"cancelled", "done"}
  BY StepDoneIs
<1>2. UNCHANGED <<cycleState, intents, outbox, attemptsUsed>> /\ phase' = "steps"
  BY <1>1, StepDoneIs DEF StepsDone
<1>3. \A d \in Cycles : SweepAhead(d)'
  BY <1>2 DEF SweepAhead
<1>4. \A d \in Cycles \ {c} : CaseInv(d)'
  BY <1>1, <1>2, <1>3, WorkerSeeded, CaseKept DEF StepsDone, CasesInv
<1>5. CaseInv(c)'
  <2>1. CountAttempts(c)' = CountAttempts(c)
    BY <1>2, SameCount
  <2>2. /\ Refused(c)' = Refused(c) /\ InFlight(c)' = InFlight(c)
        /\ \A j \in StepIds : stepStatus'[c][j] = "dispatched" =>
             stepStatus[c][j] = "dispatched"
    BY <1>1, <1>2 DEF Refused, InFlight, StepsDone
  <2> QED  BY <1>2, <1>3, <2>1, <2>2, WorkerSeeded DEF CasesInv, CaseInv
<1> QED  BY <1>4, <1>5 DEF CasesInv

\* ... an attempt dispatched goes out with a row ...
LEMMA DispatchCases ==
  ASSUME EngineInv, CasesInv, WorkerTurn, DispatchAttempt
  PROVE  CasesInv'
<1>1. PICK c \in Cycles, i \in StepIds, n \in SequenceNos \ {1} :
        /\ StepsDone(c, i)
        /\ stepStatus'[c][i] = "dispatched" /\ plan[c][i].type = "attempt"
        /\ cycleState[c] = "SCHEDULED" /\ cycleState'[c] = "EXECUTING"
        /\ Settled(c) /\ n = CountAttempts(c) + 1
        /\ intents[c][n] = "none" /\ intents'[c][n] = "reserved"
        /\ \A m \in SequenceNos \ {n} : intents'[c][m] = intents[c][m]
        /\ outbox' = outbox \cup
             {[cycle |-> c, seq |-> n, step |-> i, at |-> plan[c][i].at]}
  BY DispatchIs
<1>2. PICK row \in outbox' : /\ row.cycle = c /\ row.step = i
                             /\ outbox' = outbox \cup {row}
  BY <1>1
<1>3. \A d \in Cycles : SweepAhead(d)'
  BY <1>1 DEF StepsDone, SweepAhead
<1>4. \A d \in Cycles \ {c} : CaseInv(d)'
  <2>1. \A d \in Cycles \ {c} : \A r : r.cycle = d => (r \in outbox' <=> r \in outbox)
    BY <1>2
  <2> QED  BY <1>1, <1>3, <2>1, WorkerSeeded, CaseKept DEF StepsDone, CasesInv
<1>5. CaseInv(c)'
  <2>1. InFlight(c)' /\ ~InFlight(c)
    BY <1>1, <1>2 DEF InFlight, CasesInv, CaseInv
  <2>2. \A j \in StepIds \ {i} : stepStatus'[c][j] # "dispatched"
    BY <1>1, <2>1 DEF StepsDone, InFlight, CasesInv, CaseInv
  <2>3. \A m \in SequenceNos : intents'[c][m] # "success"
    BY <1>1 DEF Settled
  <2> QED  BY <1>1, <1>2, <2>1, <2>2, <2>3 DEF CaseInv
<1> QED  BY <1>4, <1>5 DEF CasesInv

\* ... and the row that ends was the only one of its case.
LEMMA RowDoneCases ==
  ASSUME EngineInv, CasesInv, WorkerTurn,
         NEW c \in Cycles, NEW n \in SequenceNos \ {1}, NEW i \in StepIds, NEW o,
         RowDone(c, n, i, o), stepStatus'[c][i] # "dispatched",
         \A j \in StepIds \ {i} : \/ stepStatus'[c][j] = stepStatus[c][j]
                                  \/ stepStatus'[c][j] = "cancelled"
  PROVE  /\ cycleState[c] = "EXECUTING" /\ ~InFlight(c)'
         /\ \A j \in StepIds : stepStatus'[c][j] # "dispatched"
         /\ \A m \in SequenceNos : intents'[c][m] = "success" <=> m = n /\ o = "success"
         /\ \A d \in Cycles : SweepAhead(d)'
         /\ \A d \in Cycles \ {c} : CaseInv(d)'
<1>1. \A r \in outbox : r.cycle = c => r = sending
  BY DEF RowDone
<1>2. cycleState[c] = "EXECUTING"
  BY DEF RowDone, InFlight, CasesInv, CaseInv
<1>3. ~InFlight(c)'
  BY <1>1 DEF InFlight, RowDone
<1>4. \A j \in StepIds : stepStatus'[c][j] # "dispatched"
  <2>1. ASSUME NEW j \in StepIds \ {i} PROVE stepStatus[c][j] # "dispatched"
    BY <1>1, <2>1 DEF RowDone, CasesInv, CaseInv
  <2> QED  BY <2>1
<1>5. \A m \in SequenceNos : intents'[c][m] = "success" <=> m = n /\ o = "success"
  BY <1>2 DEF RowDone, CasesInv, CaseInv
<1>6. \A d \in Cycles : SweepAhead(d)'
  BY DEF RowDone, SweepAhead
<1>7. \A d \in Cycles \ {c} : \A r : r.cycle = d => (r \in outbox' <=> r \in outbox)
  BY DEF RowDone
<1>8. \A d \in Cycles \ {c} : CaseInv(d)'
  BY <1>6, <1>7, WorkerSeeded, CaseKept DEF RowDone, CasesInv
<1> QED  BY <1>2, <1>3, <1>4, <1>5, <1>6, <1>8

LEMMA DeniedCases ==
  ASSUME EngineInv, CasesInv, WorkerTurn, HandleRailDenied
  PROVE  CasesInv'
<1>1. PICK c \in Cycles, n \in SequenceNos \ {1}, i \in StepIds :
        /\ RowDone(c, n, i, "blocked") /\ stepStatus'[c][i] = "cancelled"
        /\ \A j \in StepIds \ {i} : stepStatus'[c][j] = stepStatus[c][j]
        /\ UNCHANGED <<cycleState, attemptsUsed>>
  BY DeniedIs
<1>2. /\ cycleState[c] = "EXECUTING" /\ ~InFlight(c)'
      /\ \A j \in StepIds : stepStatus'[c][j] # "dispatched"
      /\ \A m \in SequenceNos : intents'[c][m] # "success"
      /\ \A d \in Cycles \ {c} : CaseInv(d)'
  BY <1>1, RowDoneCases
<1>3. Refused(c)' /\ cycleState'[c] = "EXECUTING"
  BY <1>1, <1>2 DEF Refused, RowDone
<1>4. CaseInv(c)'
  BY <1>2, <1>3 DEF CaseInv
<1> QED  BY <1>2, <1>4 DEF CasesInv

LEMMA SettleCases ==
  ASSUME EngineInv, CasesInv, WorkerTurn,
         DeliveredAfterClose \/ AttemptSucceeded \/ BudgetExhausted \/ AttemptFailed
  PROVE  CasesInv'
<1>1. PICK c \in Cycles, n \in SequenceNos \ {1}, i \in StepIds :
        /\ RowDone(c, n, i, railOutcome[c][n]) /\ railOutcome[c][n] \in RailOutcome
        /\ cycleState'[c] \in {"RECOVERED", "ABANDONED", "SCHEDULED"}
        /\ cycleState[c] = "EXECUTING"
        /\ cycleState'[c] = "RECOVERED" <=> railOutcome[c][n] = "success"
        /\ attemptsUsed'[c] = CountAttempts(c)
        /\ stepStatus'[c][i] = "done"
        /\ \A j \in StepIds \ {i} :
             \/ stepStatus'[c][j] = stepStatus[c][j]
             \/ stepStatus[c][j] = "pending" /\ stepStatus'[c][j] = "cancelled"
  BY SettleIs
<1>2. /\ ~InFlight(c)' /\ SweepAhead(c)'
      /\ \A j \in StepIds : stepStatus'[c][j] # "dispatched"
      /\ \A m \in SequenceNos : intents'[c][m] = "success" <=>
                                  m = n /\ railOutcome[c][n] = "success"
      /\ \A d \in Cycles \ {c} : CaseInv(d)'
  BY <1>1, RowDoneCases
<1>3. CountAttempts(c)' = CountAttempts(c)
  <2>1. \A m \in SequenceNos : intents'[c][m] # "none" <=> intents[c][m] # "none"
    BY <1>1 DEF RowDone, RailOutcome
  <2> QED  BY <2>1, SameCount
<1>4. CaseInv(c)'
  BY <1>1, <1>2, <1>3 DEF CaseInv, TerminalStates
<1> QED  BY <1>2, <1>4 DEF CasesInv

LEMMA SweepCases ==
  ASSUME EngineInv, CasesInv, WorkerTurn, NEW c \in sweepList, SweepCycle(c)
  PROVE  CasesInv'
<1>1. /\ c \in Cycles /\ cycleState[c] = "SCHEDULED" /\ cycleState'[c] = "ABANDONED"
      /\ \A d \in Cycles \ {c} : SameCase(d)
      /\ sweepList' = sweepList \ {c} /\ phase = "sweep"
      /\ UNCHANGED <<attemptsUsed, intents, stepStatus, outbox, phase>>
  BY SweepIs
<1>2. \A d \in Cycles \ {c} : SweepAhead(d) => SweepAhead(d)'
  BY <1>1 DEF SweepAhead
<1>3. \A d \in Cycles \ {c} : CaseInv(d)'
  BY <1>1, <1>2, WorkerSeeded, CaseKept DEF CasesInv
<1>4. CaseInv(c)'
  <2>1. CountAttempts(c)' = CountAttempts(c) /\ attemptsUsed[c] = CountAttempts(c)
    BY <1>1, SameCount DEF EngineInv, BudgetColumnHonest
  <2>2. ~InFlight(c)' /\ \A j \in StepIds : stepStatus'[c][j] # "dispatched"
    BY <1>1 DEF InFlight, CasesInv, CaseInv
  <2>3. \A m \in SequenceNos : intents'[c][m] # "success"
    BY <1>1 DEF CasesInv, CaseInv
  <2> QED  BY <1>1, <2>1, <2>2, <2>3 DEF CaseInv, TerminalStates
<1> QED  BY <1>3, <1>4 DEF CasesInv

LEMMA CasesNext ==
  ASSUME EngineInv, DriverInv, DrawsInv, CasesInv, [BenchNext]_benchVars
  PROVE  CasesInv'
<1>1. CASE WorkerWrites
  BY <1>1, StepDoneCases, DispatchCases, DeniedCases, SettleCases, SweepCases
  DEF WorkerWrites
<1> QED  BY <1>1, StepKinds, QuietCases, SeedCycleCases, FirstOutcomeCases

------------------------------------------------------------------------------
(* DrawsInv *)

\* What the rail drew for an attempt stays drawn for it.
LEMMA DrawnKept ==
  ASSUME WorldKept, NEW c \in Cycles, NEW n \in SequenceNos, NEW t, Drawn(c, n, t),
         railOutcome'[c][n] = railOutcome[c][n]
  PROVE  Drawn(c, n, t)'
BY DEF Drawn, WorldKept, WorldKey

\* A first outcome is only written when it is seeded.
LEMMA FirstWritten ==
  ASSUME EngineInv, DriverInv, DrawsInv, CasesInv, [BenchNext]_benchVars, NEW c \in Cycles
  PROVE  intents'[c][1] = intents[c][1] \/ Seeds(c)
<1>0. 1 \in SequenceNos
  BY PolicyAssumption DEF SequenceNos
<1>1. CASE DriverMoves \/ WorkerReads \/ RailTurn
  BY <1>1, QuietIs DEF caseVars
<1>2. CASE SeedCycle
  BY <1>2 DEF SeedCycle, IngestCycleDue
<1>3. CASE IngestFirstOutcome
  BY <1>3, SeedingIs DEF tables, Seeds, SameCase
<1>4. CASE WorkerWrites
  <2>1. CASE CancelStep \/ ProcessNotifyStep
    BY <2>1, StepDoneIs
  <2>2. CASE DispatchAttempt
    <3>1. PICK d \in Cycles, i \in StepIds, n \in SequenceNos \ {1} :
            StepsDone(d, i) /\ \A m \in SequenceNos \ {n} : intents'[d][m] = intents[d][m]
      BY <2>2, DispatchIs
    <3> QED  BY <1>0, <3>1 DEF StepsDone, SameCase
  <2>3. CASE HandleRailDenied
    BY <1>0, <2>3, DeniedIs DEF RowDone, SameCase
  <2>4. CASE DeliveredAfterClose \/ AttemptSucceeded \/ BudgetExhausted \/ AttemptFailed
    BY <1>0, <2>4, SettleIs DEF RowDone, SameCase
  <2>5. CASE \E d \in sweepList : SweepCycle(d)
    BY <2>5, SweepIs
  <2> QED  BY <1>4, <2>1, <2>2, <2>3, <2>4, <2>5 DEF WorkerWrites
<1> QED  BY <1>1, <1>2, <1>3, <1>4, StepKinds

LEMMA DrawsNext ==
  ASSUME EngineInv, DriverInv, DrawsInv, CasesInv, [BenchNext]_benchVars
  PROVE  DrawsInv'
<1>0. 1 \in SequenceNos
  BY PolicyAssumption DEF SequenceNos
<1>1. \A c \in Cycles, n \in SequenceNos : railOutcome'[c][n] # "unknown"
  BY DrawsGrow DEF DrawsInv, Records
<1>2. ASSUME NEW c \in Cycles, railOutcome'[c][1] # "none"
      PROVE  Drawn(c, 1, DueAt[c[2]])'
  <2>1. CASE railOutcome'[c][1] = railOutcome[c][1]
    <3>1. Drawn(c, 1, DueAt[c[2]])
      BY <1>2, <2>1 DEF DrawsInv, FirstDrawn
    <3> QED  BY <1>0, <2>1, <3>1, DrawsGrow, DrawnKept
  <2>2. CASE railOutcome'[c][1] # railOutcome[c][1]
    <3>1. \A q \in handling : q.row.seq # 1
      BY DEF EngineInv, RailInv, RetriesOnly
    <3> QED  BY <1>0, <2>2, <3>1, DrawsGrow DEF Records
  <2> QED  BY <2>1, <2>2
<1>3. ASSUME NEW c \in Cycles, intents'[c][1] # "none"
      PROVE  intents'[c][1] = railOutcome'[c][1]
  <2>1. intents'[c][1] = railOutcome[c][1]
    BY <1>3, FirstWritten DEF DrawsInv, FirstTold, Seeds
  <2>2. railOutcome'[c][1] = railOutcome[c][1]
    BY <1>0, <1>3, <2>1, DrawsGrow DEF Records
  <2> QED  BY <2>1, <2>2
<1>4. FirstDrawn'
  BY <1>2 DEF FirstDrawn
<1>5. FirstTold'
  BY <1>3 DEF FirstTold
<1> QED  BY <1>1, <1>4, <1>5, DrawsGrow DEF DrawsInv

------------------------------------------------------------------------------
(* TimedInv *)

\* A request on its way to the rail is for a row that was sent.
LEMMA HandlersAre ==
  ASSUME EngineInv, DriverInv, [BenchNext]_benchVars, NEW q \in handling'
  PROVE  q.row \in outbox \/ \E p \in handling : p.row = q.row
<1>1. CASE RailTurn
  <2>1. PICK p \in handling : RailReplay(p) \/ RailRefuse(p) \/ RailAccept(p) \/ RailPersist(p)
    BY <1>1 DEF RailTurn
  <2>2. \/ handling' = handling \ {p}
        \/ handling' = (handling \ {p}) \cup {[p EXCEPT !.stage = "executing"]}
    BY <2>1 DEF RailReplay, RailRefuse, RailAccept, RailPersist, Answer
  <2>3. p \in Handler
    BY <2>1 DEF EngineInv, TypeInv, TypeOK, RailTypeOK
  <2>4. [p EXCEPT !.stage = "executing"].row = p.row
    BY <2>3 DEF Handler
  <2> QED  BY <2>1, <2>2, <2>4
<1>2. CASE WorkerTurn
  <2>1. CASE \E row \in rows : SendToRail(row)
    <3>1. PICK row \in rows :
            handling' = handling \cup {[row |-> row, stage |-> "sent", awaited |-> TRUE]}
      BY <2>1 DEF SendToRail, Post
    <3>2. rows \subseteq outbox
      BY DEF EngineInv, LedgerInv, RowsReserved
    <3> QED  BY <3>1, <3>2
  <2>2. CASE RequestError
    <3>1. handling' = {[p EXCEPT !.awaited = FALSE] : p \in handling}
      BY <2>2 DEF RequestError, StopWaiting
    <3>2. handling \subseteq Handler
      BY DEF EngineInv, TypeInv, TypeOK, RailTypeOK
    <3>3. \A p \in handling : [p EXCEPT !.awaited = FALSE].row = p.row
      BY <3>2 DEF Handler
    <3> QED  BY <3>1, <3>3
  <2>3. CASE UNCHANGED handling
    BY <2>3
  <2> QED
    BY <1>2, <2>1, <2>2, <2>3
    DEF WorkerTurn, WorkerStep, ReadStep, CancelStep, ProcessNotifyStep, DispatchAttempt,
        CommitStep, FetchOutbox, RetryLater, RowHandled, HandleRailDenied,
        ReadDeliveredCycle, DeliveredAfterClose, AttemptSucceeded, BudgetExhausted,
        AttemptFailed, MoveCase, CommitDelivered, FindExhaustedPlans, SweepCycle, EndTick,
        railVars
<1>3. CASE ~RailTurn /\ ~WorkerTurn
  <2>1. UNCHANGED handling
    BY <1>3
    DEF BenchNext, DriverStep, Truncate, SeedCycle, FireFirstAttempt, IngestFirstOutcome,
        StartLoop, SetNow, TickAtNow, FetchDueSteps, ReadResults, benchVars, vars, railVars
  <2> QED  BY <2>1
<1> QED  BY <1>1, <1>2, <1>3

\* A case whose instants stay where they are in the order.
LEMMA TimedMoves ==
  ASSUME EngineInv, DriverInv, DrawsInv, [BenchNext]_benchVars,
         NEW c \in Cycles, TimedCase(c), Refused(c) => Refused(c)',
         stage' \in {"reset", "seed"} => Acted(c)' = {},
         ~Refused(c)' =>
           /\ intents'[c][1] # "none" => CountAttempts(c)' = 1 + Cardinality(Acted(c)')
           /\ \A r \in outbox' : r.cycle = c => r \in outbox \/ NthAt(c, r.seq, r.at)',
         \A n, t : NthAt(c, n, t) => NthAt(c, n, t)'
  PROVE  TimedCase(c)'
<1> SUFFICES ASSUME ~Refused(c)'
             PROVE  /\ \A r \in outbox' : r.cycle = c => NthAt(c, r.seq, r.at)'
                    /\ \A q \in handling' : q.row.cycle = c => NthAt(c, q.row.seq, q.row.at)'
                    /\ \A n \in SequenceNos \ {1} : railOutcome'[c][n] # "none" =>
                         \E t \in Acted(c)' : NthAt(c, n, t)' /\ Drawn(c, n, t)'
  BY DEF TimedCase
<1>1. /\ \A r \in outbox : r.cycle = c => NthAt(c, r.seq, r.at)
      /\ \A q \in handling : q.row.cycle = c => NthAt(c, q.row.seq, q.row.at)
      /\ \A n \in SequenceNos \ {1} : railOutcome[c][n] # "none" =>
           \E t \in Acted(c) : NthAt(c, n, t) /\ Drawn(c, n, t)
  BY DEF TimedCase
<1>2. \A r \in outbox' : r.cycle = c => NthAt(c, r.seq, r.at)'
  BY <1>1
<1>3. \A q \in handling' : q.row.cycle = c => NthAt(c, q.row.seq, q.row.at)'
  BY <1>1, HandlersAre
<1>4. ASSUME NEW n \in SequenceNos \ {1}, railOutcome'[c][n] # "none"
      PROVE  \E t \in Acted(c)' : NthAt(c, n, t)' /\ Drawn(c, n, t)'
  <2>0. \A t : NthAt(c, n, t)' => t \in Acted(c)'
    BY DEF NthAt
  <2>1. CASE railOutcome'[c][n] = railOutcome[c][n]
    <3>1. PICK t \in Acted(c) : NthAt(c, n, t) /\ Drawn(c, n, t)
      BY <1>1, <1>4, <2>1
    <3>2. NthAt(c, n, t)' /\ Drawn(c, n, t)'
      BY <2>1, <3>1, DrawsGrow, DrawnKept
    <3> QED  BY <2>0, <3>2
  <2>2. CASE railOutcome'[c][n] # railOutcome[c][n]
    <3>1. PICK q \in handling : /\ q.row.cycle = c /\ q.row.seq = n
                                /\ Drawn(c, n, q.row.at)'
      BY <2>2, DrawsGrow DEF Records
    <3>2. NthAt(c, n, q.row.at)'
      BY <1>1, <3>1
    <3> QED  BY <2>0, <3>1, <3>2
  <2> QED  BY <2>1, <2>2
<1> QED  BY <1>2, <1>3, <1>4

\* A case that acts at no new instant.
LEMMA TimedKept ==
  ASSUME EngineInv, DriverInv, DrawsInv, [BenchNext]_benchVars,
         NEW c \in Cycles, TimedCase(c), Acted(c)' = Acted(c), Refused(c) => Refused(c)',
         stage' \in {"reset", "seed"} => stage \in {"reset", "seed"},
         \A n \in SequenceNos : intents'[c][n] # "none" <=> intents[c][n] # "none",
         \A r \in outbox' : r.cycle = c => r \in outbox
  PROVE  TimedCase(c)'
<1>1. \A n, t : NthAt(c, n, t) => NthAt(c, n, t)'
  BY DEF NthAt
<1>2. CountAttempts(c)' = CountAttempts(c)
  BY SameCount
<1>3. stage' \in {"reset", "seed"} => Acted(c)' = {}
  BY DEF TimedCase
<1>4. ~Refused(c)' /\ intents'[c][1] # "none" =>
        CountAttempts(c)' = 1 + Cardinality(Acted(c)')
  <2>1. 1 \in SequenceNos
    BY PolicyAssumption DEF SequenceNos
  <2> QED  BY <1>2, <2>1 DEF TimedCase
<1> QED  BY <1>1, <1>3, <1>4, TimedMoves

LEMMA TimedSame ==
  ASSUME EngineInv, DriverInv, DrawsInv, [BenchNext]_benchVars,
         NEW c \in Cycles, TimedCase(c), SameCase(c),
         stage' \in {"reset", "seed"} => stage \in {"reset", "seed"},
         \A r \in outbox' : r.cycle = c => r \in outbox
  PROVE  TimedCase(c)'
<1>1. Acted(c)' = Acted(c)
  BY ActedKept DEF SameCase, EngineInv
<1>2. Refused(c)' = Refused(c)
  BY DEF SameCase, Refused
<1> QED  BY <1>1, <1>2, TimedKept DEF SameCase

\* Giving a step up or sending a notice acts at no instant; dispatching does.
LEMMA StepActsNot ==
  ASSUME EngineInv, NEW c \in Cycles, NEW i \in StepIds, StepsDone(c, i),
         \/ stepStatus'[c][i] = "cancelled"
         \/ stepStatus'[c][i] = "done" /\ plan[c][i].type # "attempt"
  PROVE  Acted(c)' = Acted(c)
<1>1. /\ plan'[c] = plan[c] /\ stepStatus[c][i] \in {"pending", "cancelled"}
      /\ \A j \in StepIds \ {i} : stepStatus'[c][j] = stepStatus[c][j]
  BY DEF StepsDone
<1>2. CASE stepStatus'[c][i] = "cancelled"
  BY <1>1, <1>2, ActedKept DEF EngineInv
<1>3. CASE plan[c][i].type # "attempt"
  BY <1>1, <1>3, NoticeActsNot DEF EngineInv
<1> QED  BY <1>2, <1>3

LEMMA StepActs ==
  ASSUME EngineInv, NEW c \in Cycles, NEW i \in StepIds, StepsDone(c, i),
         stepStatus'[c][i] = "dispatched", plan[c][i].type = "attempt"
  PROVE  Acted(c)' = Acted(c) \cup {plan[c][i].at}
<1>1. stepStatus[c][i] \notin {"dispatched", "done"}
  BY DEF StepsDone
<1>2. /\ i \in DOMAIN plan[c] /\ plan'[c] = plan[c]
      /\ \A j \in StepIds \ {i} : stepStatus'[c][j] = stepStatus[c][j]
  BY DEF StepsDone
<1> QED  BY <1>1, <1>2, ActedGrows DEF EngineInv

LEMMA QuietTimed ==
  ASSUME EngineInv, DriverInv, DrawsInv, TimedInv, [BenchNext]_benchVars,
         DriverMoves \/ WorkerReads \/ RailTurn \/ SeedCycle
  PROVE  TimedInv'
<1>1. /\ UNCHANGED <<intents, plan, stepStatus, outbox>>
      /\ stage' \in {"reset", "seed"} => stage \in {"reset", "seed"}
  <2>1. CASE DriverMoves \/ WorkerReads \/ RailTurn
    BY <2>1, QuietIs DEF caseVars
  <2>2. CASE SeedCycle
    BY <2>2 DEF SeedCycle, IngestCycleDue, driver
  <2> QED  BY <2>1, <2>2
<1>2. ASSUME NEW c \in Cycles PROVE TimedCase(c)'
  <2>1. Acted(c)' = Acted(c)
    BY <1>1, ActedKept DEF EngineInv
  <2>2. Refused(c)' = Refused(c)
    BY <1>1 DEF Refused
  <2> QED  BY <1>1, <2>1, <2>2, TimedKept DEF TimedInv
<1> QED  BY <1>2 DEF TimedInv

\* A case that is being seeded has not acted, and nothing is at the rail for it.
LEMMA SeedsTimed ==
  ASSUME EngineInv, EngineInv', DriverInv, DrawsInv, TimedInv, [BenchNext]_benchVars,
         IngestFirstOutcome
  PROVE  TimedInv'
<1>0. UNCHANGED <<stage, railVars>>
  BY DEF IngestFirstOutcome
<1>1. CASE UNCHANGED <<toSeed, chosen, tables>>
  BY <1>0, <1>1, TimedSame DEF tables, SameCase, TimedInv
<1>2. ASSUME UNCHANGED outbox, NEW c \in Cycles, Seeds(c)
      PROVE  TimedInv'
  <2>1. \A d \in Cycles \ {c} : TimedCase(d)'
    BY <1>0, <1>2, TimedSame DEF Seeds, TimedInv
  <2>2. \A n \in SequenceNos : intents[c][n] = "none"
    BY <1>2, NoFirstNoOther DEF Seeds, EngineInv, LedgerInv
  <2>3. Acted(c) = {}
    BY <1>2 DEF Seeds, TimedInv, TimedCase
  <2>4. Acted(c)' = {}
    <3>1. CASE plan'[c] = plan[c]
      <4>1. Acted(c)' \subseteq Acted(c)
        BY <1>2, <3>1, ActedShrinks DEF Seeds, EngineInv
      <4> QED  BY <2>3, <4>1
    <3>2. CASE \A i \in StepIds : stepStatus'[c][i] \in {"pending", "absent"}
      <4>1. plan'[c] \in Plans \cup {<<>>}
        BY DEF EngineInv, TypeInv, TypeOK, DbTypeOK
      <4>2. plan'[c] \in Plans => DOMAIN plan'[c] \subseteq StepIds
        BY DbAssumption DEF StepIds
      <4>3. DOMAIN plan'[c] \subseteq StepIds
        BY <4>1, <4>2
      <4>4. \A t : t \notin Acted(c)'
        BY <3>2, <4>3, ActedWhere
      <4> QED  BY <4>4
    <3> QED  BY <1>2, <3>1, <3>2 DEF Seeds
  <2>5. Cardinality(Acted(c)') = 0 /\ CountAttempts(c)' = 1
    BY <1>2, <2>4, FS_EmptySet, OneAttemptSeeded
  <2>6. \A n, t : ~NthAt(c, n, t)
    BY <2>3 DEF NthAt
  <2>7. ~Refused(c)
    BY <2>2 DEF Refused
  <2>8. TimedCase(c)'
    <3>1. TimedCase(c)
      BY DEF TimedInv
    <3>2. CountAttempts(c)' = 1 + Cardinality(Acted(c)')
      BY <2>5
    <3>3. \A n, t : NthAt(c, n, t) => NthAt(c, n, t)'
      BY <2>6
    <3>4. \A r \in outbox' : r \in outbox
      BY <1>2
    <3> QED  BY <2>4, <2>7, <3>1, <3>2, <3>3, <3>4, TimedMoves
  <2> QED  BY <2>1, <2>8 DEF TimedInv
<1> QED  BY <1>1, <1>2, SeedingIs

\* The attempt dispatched is the next of its case, at the latest instant so far.
LEMMA DispatchTimed ==
  ASSUME EngineInv, DriverInv, DrawsInv, TimedInv, DueInOrder, [BenchNext]_benchVars,
         WorkerTurn, DispatchAttempt
  PROVE  TimedInv'
<1>1. PICK c \in Cycles, i \in StepIds, n \in SequenceNos \ {1} :
        /\ StepsDone(c, i)
        /\ stepStatus'[c][i] = "dispatched" /\ plan[c][i].type = "attempt"
        /\ cycleState[c] = "SCHEDULED" /\ cycleState'[c] = "EXECUTING"
        /\ Settled(c) /\ n = CountAttempts(c) + 1
        /\ intents[c][n] = "none" /\ intents'[c][n] = "reserved"
        /\ \A m \in SequenceNos \ {n} : intents'[c][m] = intents[c][m]
        /\ outbox' = outbox \cup
             {[cycle |-> c, seq |-> n, step |-> i, at |-> plan[c][i].at]}
  BY DispatchIs
<1>2. PICK row \in outbox' : /\ row.cycle = c /\ row.seq = n /\ row.at = plan[c][i].at
                             /\ outbox' = outbox \cup {row}
  BY <1>1
<1>3. \A d \in Cycles \ {c} : TimedCase(d)'
  BY <1>1, <1>2, WorkerSeeded, TimedSame DEF StepsDone, TimedInv
<1>4. PICK m \in Nat : m = plan[c][i].at /\ \A u \in Acted(c) : u < m
  <2>1. StepAt(<<c, i>>) = plan[c][i]
    BY DEF StepAt
  <2>2. plan[c][i].at = now /\ \A u \in Acted(c) : u < now
    BY <1>1, <2>1 DEF DueInOrder, ActedByNow, BatchDueNow, StepsDone
  <2>3. plan[c][i].at \in Nat
    BY <1>1, PlanIs, DbAssumption DEF EngineInv, StepsDone, Step, Time
  <2> QED  BY <2>2, <2>3
<1>5. Acted(c)' = Acted(c) \cup {m}
  BY <1>1, <1>4, StepActs
<1>6. /\ Cardinality(Acted(c)') = Cardinality(Acted(c)) + 1
      /\ \A k, t : NthAt(c, k, t) => NthAt(c, k, t)'
      /\ \A k : k = Cardinality(Acted(c)) + 2 => NthAt(c, k, m)'
  BY <1>4, <1>5, ActedLater DEF EngineInv
<1>7. CountAttempts(c)' = CountAttempts(c) + 1
  <2> DEFINE S == {k \in SequenceNos : intents[c][k] # "none"}
             T == {k \in SequenceNos : intents'[c][k] # "none"}
  <2>1. T = S \cup {n} /\ n \notin S
    BY <1>1
  <2>2. IsFiniteSet(S)
    BY CountBound
  <2>3. Cardinality(T) = Cardinality(S) + 1
    <3> HIDE DEF S, T
    <3> QED  BY <2>1, <2>2, FS_AddElement
  <2> QED  BY <2>3 DEF CountAttempts
<1>8. Refused(c)' = Refused(c)
  BY <1>1 DEF Refused, Settled
<1>9. ~Refused(c) => /\ CountAttempts(c) = 1 + Cardinality(Acted(c))
                     /\ NthAt(c, row.seq, row.at)'
  <2> SUFFICES ASSUME ~Refused(c)
               PROVE  /\ CountAttempts(c) = 1 + Cardinality(Acted(c))
                      /\ NthAt(c, row.seq, row.at)'
    OBVIOUS
  <2>1. CountAttempts(c) = 1 + Cardinality(Acted(c))
    BY <1>1 DEF TimedInv, TimedCase, Settled
  <2>2. n = Cardinality(Acted(c)) + 2
    <3>1. Cardinality(Acted(c)) \in Nat
      BY ActedIs DEF EngineInv
    <3> QED  BY <1>1, <2>1, <3>1
  <2>3. NthAt(c, n, m)'
    BY <1>6, <2>2
  <2> QED  BY <1>2, <1>4, <2>1, <2>3
<1>10. ~Refused(c)' =>
         /\ CountAttempts(c)' = 1 + Cardinality(Acted(c)')
         /\ \A r \in outbox' : r.cycle = c => r \in outbox \/ NthAt(c, r.seq, r.at)'
  <2>1. Cardinality(Acted(c)) \in Nat
    BY ActedIs DEF EngineInv
  <2> QED  BY <1>2, <1>6, <1>7, <1>8, <1>9, <2>1
<1>11. TimedCase(c)'
  BY <1>6, <1>8, <1>10, WorkerSeeded, TimedMoves DEF TimedInv
<1> QED  BY <1>3, <1>11 DEF TimedInv

LEMMA WritesTimed ==
  ASSUME EngineInv, DriverInv, DrawsInv, CasesInv, TimedInv, DueInOrder,
         [BenchNext]_benchVars, WorkerWrites
  PROVE  TimedInv'
<1>0. stage' = "loop"
  BY WorkerSeeded DEF WorkerWrites
<1>1. CASE DispatchAttempt
  BY <1>1, DispatchTimed DEF WorkerWrites
<1>2. CASE CancelStep \/ ProcessNotifyStep
  <2>1. PICK c \in Cycles, i \in StepIds :
          /\ StepsDone(c, i)
          /\ \/ stepStatus'[c][i] = "cancelled"
             \/ stepStatus'[c][i] = "done" /\ plan[c][i].type # "attempt"
    BY <1>2, StepDoneIs
  <2>2. UNCHANGED <<intents, outbox>>
    BY <1>2, StepDoneIs
  <2>3. Acted(c)' = Acted(c)
    BY <2>1, StepActsNot
  <2>4. Refused(c)' = Refused(c)
    BY <2>2 DEF Refused
  <2>5. \A d \in Cycles \ {c} : TimedCase(d)'
    BY <1>0, <2>1, <2>2, TimedSame DEF StepsDone, TimedInv
  <2>6. TimedCase(c)'
    BY <1>0, <2>2, <2>3, <2>4, TimedKept DEF TimedInv
  <2> QED  BY <2>5, <2>6 DEF TimedInv
<1>3. CASE HandleRailDenied
  <2>1. PICK c \in Cycles, n \in SequenceNos \ {1}, i \in StepIds : RowDone(c, n, i, "blocked")
    BY <1>3, DeniedIs
  <2>2. \A d \in Cycles \ {c} : TimedCase(d)'
    BY <1>0, <2>1, TimedSame DEF RowDone, TimedInv
  <2>3. Refused(c)'
    BY <2>1 DEF RowDone, Refused
  <2>4. TimedCase(c)'
    BY <1>0, <2>3 DEF TimedCase
  <2> QED  BY <2>2, <2>4 DEF TimedInv
<1>4. CASE DeliveredAfterClose \/ AttemptSucceeded \/ BudgetExhausted \/ AttemptFailed
  <2>1. PICK c \in Cycles, n \in SequenceNos \ {1}, i \in StepIds :
          /\ RowDone(c, n, i, railOutcome[c][n]) /\ railOutcome[c][n] \in RailOutcome
          /\ stepStatus'[c][i] = "done"
          /\ \A j \in StepIds \ {i} :
               \/ stepStatus'[c][j] = stepStatus[c][j]
               \/ stepStatus[c][j] = "pending" /\ stepStatus'[c][j] = "cancelled"
    BY <1>4, SettleIs
  <2>2. \A d \in Cycles \ {c} : TimedCase(d)'
    BY <1>0, <2>1, TimedSame DEF RowDone, TimedInv
  <2>3. Acted(c)' = Acted(c)
    <3>1. \A j \in StepIds : stepStatus'[c][j] \in {"dispatched", "done"}
                               <=> stepStatus[c][j] \in {"dispatched", "done"}
      BY <2>1 DEF RowDone
    <3> QED  BY <2>1, <3>1, ActedKept DEF RowDone, EngineInv
  <2>4. /\ Refused(c) => Refused(c)'
        /\ \A m \in SequenceNos : intents'[c][m] # "none" <=> intents[c][m] # "none"
        /\ \A r \in outbox' : r \in outbox
    BY <2>1 DEF RowDone, Refused, RailOutcome
  <2>5. TimedCase(c)'
    BY <1>0, <2>3, <2>4, TimedKept DEF TimedInv
  <2> QED  BY <2>2, <2>5 DEF TimedInv
<1>5. CASE \E c \in sweepList : SweepCycle(c)
  <2>1. UNCHANGED <<intents, plan, stepStatus, outbox>>
    BY <1>5, SweepIs
  <2>2. \A c \in Cycles : Acted(c)' = Acted(c) /\ Refused(c)' = Refused(c)
    BY <2>1, ActedKept DEF EngineInv, Refused
  <2> QED  BY <1>0, <2>1, <2>2, TimedKept DEF TimedInv
<1> QED  BY <1>1, <1>2, <1>3, <1>4, <1>5 DEF WorkerWrites

LEMMA TimedNext ==
  ASSUME EngineInv, DriverInv, DrawsInv, CasesInv, TimedInv, DueInOrder,
         [BenchNext]_benchVars
  PROVE  TimedInv'
BY StepKinds, QuietTimed, SeedsTimed, WritesTimed, EngineNext

------------------------------------------------------------------------------
(* DueInOrder *)

LEMMA PendingIs ==
  ASSUME TypeInv
  PROVE  /\ \A r \in Pending : StepAt(r).at \in Nat
         /\ \A c \in Cycles : \A u \in Acted(c) : u \in Nat
         /\ now \in Nat
<1>1. ASSUME NEW r \in Pending PROVE StepAt(r).at \in Nat
  <2>1. r \in StepRef /\ Exists(r)
    BY DEF Pending, Exists
  <2>2. StepAt(r) \in Step
    BY <2>1, StepType
  <2> QED  BY <2>2, DbAssumption DEF Step, Time
<1>2. \A c \in Cycles : \A u \in Acted(c) : u \in Nat
  BY ActedIs
<1>3. now \in Nat
  BY DbAssumption DEF TypeInv, TypeOK, WorkerTypeOK, Time
<1> QED  BY <1>1, <1>2, <1>3

\* A step is pending after a step if it was pending before, at the same instant.
LEMMA PendingWas ==
  ASSUME \A c \in Cycles, i \in StepIds : stepStatus'[c][i] = "pending" =>
           stepStatus[c][i] = "pending" /\ plan'[c] = plan[c]
  PROVE  \A r \in Pending' : r \in Pending /\ StepAt(r)' = StepAt(r)
BY DEF Pending, StepAt, StepRef

\* Outside the first part of a tick nothing new is acted at or pending.
LEMMA DueKept ==
  ASSUME DueInOrder, phase \notin {"steps", "decide"}, phase' \notin {"steps", "decide"},
         \A c \in Cycles : Acted(c)' \subseteq Acted(c),
         \A c \in Cycles, i \in StepIds : stepStatus'[c][i] = "pending" =>
           stepStatus[c][i] = "pending" /\ plan'[c] = plan[c]
  PROVE  DueInOrder'
<1>1. \A r \in Pending' : r \in Pending /\ StepAt(r)' = StepAt(r)
  BY PendingWas
<1>2. ASSUME NEW c \in Cycles, NEW u \in Acted(c)', NEW r \in Pending'
      PROVE  u < StepAt(r).at'
  <2>1. StepAt(r).at' = StepAt(r).at
    BY <1>1
  <2> QED  BY <1>1, <2>1 DEF DueInOrder, ActedEarlier
<1> QED  BY <1>2 DEF DueInOrder, ActedEarlier

LEMMA DueSame ==
  ASSUME TypeInv, DueInOrder, UNCHANGED <<plan, stepStatus, cycleState, now, batch>>,
         phase \in {"steps", "decide"} <=> phase' \in {"steps", "decide"}
  PROVE  DueInOrder'
<1>1. \A c \in Cycles : Acted(c)' = Acted(c)
  BY ActedKept
<1>2. /\ Pending' = Pending
      /\ \A r : StepAt(r)' = StepAt(r)
  BY DEF Pending, StepAt
<1> QED
  BY <1>1, <1>2
  DEF DueInOrder, ActedEarlier, ActedByNow, PendingLater, BatchDueNow

\* A tick starts at the earliest instant that is pending.
LEMMA TickDue ==
  ASSUME EngineInv, DriverInv, DueInOrder, TickAtNow
  PROVE  DueInOrder'
<1>1. /\ phase = "idle" /\ phase' = "steps" /\ now' = clock /\ batch' = DueSteps(clock)
      /\ clock = Earliest /\ Pending # {} /\ UNCHANGED <<plan, stepStatus, cycleState>>
  BY DEF TickAtNow, FetchDueSteps
<1>2. /\ Earliest \in Nat /\ \E r \in Pending : StepAt(r).at = Earliest
      /\ \A r \in Pending : Earliest <= StepAt(r).at
  BY <1>1, EarliestIs, DbAssumption DEF EngineInv, Time
<1>3. PICK e \in Nat : e = now'
  BY <1>1, <1>2
<1>4. /\ \E r \in Pending : StepAt(r).at = e
      /\ \A r \in Pending : e <= StepAt(r).at /\ StepAt(r).at \in Nat
  BY <1>1, <1>2, <1>3, PendingIs DEF EngineInv
<1>5. \A r : StepAt(r)' = StepAt(r) /\ StepAt(r) = plan[r[1]][r[2]]
  BY <1>1 DEF StepAt
<1>6. Pending' = Pending /\ \A c \in Cycles : Acted(c)' = Acted(c)
  BY <1>1, ActedKept DEF Pending, EngineInv
<1>7. batch' = {r \in Pending : StepAt(r).at <= e}
  BY <1>1, <1>3, <1>5 DEF DueSteps, Pending
<1>8. \A c \in Cycles : \A u \in Acted(c)' : u < e
  BY <1>1, <1>4, <1>6 DEF DueInOrder, ActedEarlier
<1>9. \A r \in batch' : StepAt(r).at = e
  BY <1>4, <1>7
<1>10. \A r \in Pending' : StepAt(r).at > e \/ (StepAt(r).at = e /\ r \in batch')
  BY <1>4, <1>6, <1>7
<1> QED
  BY <1>1, <1>3, <1>5, <1>8, <1>9, <1>10
  DEF DueInOrder, ActedByNow, PendingLater, BatchDueNow

\* When the batch is done, all that is pending is later.
LEMMA BatchDue ==
  ASSUME EngineInv, DueInOrder, FetchOutbox
  PROVE  DueInOrder'
<1>1. /\ phase = "steps" /\ batch = {} /\ phase' = "drain"
      /\ UNCHANGED <<plan, stepStatus>>
  BY DEF FetchOutbox, tables
<1>2. Pending' = Pending /\ \A c \in Cycles : Acted(c)' = Acted(c)
  BY <1>1, ActedKept DEF Pending, EngineInv
<1>3. \A r : StepAt(r)' = StepAt(r)
  BY <1>1 DEF StepAt
<1>4. ASSUME NEW c \in Cycles, NEW u \in Acted(c), NEW r \in Pending
      PROVE  u < StepAt(r).at
  <2>1. (u < now \/ u = now) /\ StepAt(r).at > now
    BY <1>1 DEF DueInOrder, ActedByNow, PendingLater
  <2>2. u \in Nat /\ now \in Nat /\ StepAt(r).at \in Nat
    BY PendingIs DEF EngineInv
  <2> QED  BY <2>1, <2>2
<1> QED  BY <1>1, <1>2, <1>3, <1>4 DEF DueInOrder, ActedEarlier

\* A step done leaves the batch and is pending no longer; if it acts, it acts
\* now.
LEMMA StepDue ==
  ASSUME EngineInv, DueInOrder, NEW c \in Cycles, NEW i \in StepIds, StepsDone(c, i),
         stepStatus'[c][i] # "pending",
         \/ Acted(c)' = Acted(c) /\ cycleState'[c] = cycleState[c]
         \/ Acted(c)' = Acted(c) \cup {plan[c][i].at} /\ cycleState'[c] = "EXECUTING"
  PROVE  DueInOrder'
<1>1. /\ phase = "decide" /\ phase' = "steps" /\ <<c, i>> \in batch
      /\ batch' = batch \ {<<c, i>>} /\ now' = now /\ plan'[c] = plan[c]
      /\ \A j \in StepIds \ {i} : stepStatus'[c][j] = stepStatus[c][j]
      /\ \A d \in Cycles \ {c} : SameCase(d)
  BY DEF StepsDone
<1>2. /\ \A d \in Cycles : \A u \in Acted(d) :
           u < now \/ (u = now /\ cycleState[d] # "SCHEDULED")
      /\ \A r \in Pending : StepAt(r).at > now \/ (StepAt(r).at = now /\ r \in batch)
      /\ \A r \in batch : StepAt(r).at = now
  BY <1>1 DEF DueInOrder, ActedByNow, PendingLater, BatchDueNow
<1>3. \A r \in StepRef : StepAt(r)' = StepAt(r)
  BY <1>1 DEF StepAt, SameCase, StepRef
<1>4. \A r \in Pending' : r \in Pending /\ r # <<c, i>> /\ r \in StepRef
  BY <1>1 DEF Pending, SameCase, StepRef
<1>5. \A r \in Pending' : StepAt(r)'.at > now' \/ (StepAt(r)'.at = now' /\ r \in batch')
  BY <1>1, <1>2, <1>3, <1>4
<1>6. \A r \in batch' : StepAt(r)'.at = now'
  <2>1. batch \subseteq StepRef
    BY DEF EngineInv, TypeInv, TypeOK, WorkerTypeOK
  <2> QED  BY <1>1, <1>2, <1>3, <2>1
<1>7. plan[c][i].at = now
  BY <1>1, <1>2 DEF StepAt
<1>8. \A d \in Cycles : \A u \in Acted(d)' :
        u < now' \/ (u = now' /\ cycleState'[d] # "SCHEDULED")
  <2>1. ASSUME NEW d \in Cycles \ {c}, NEW u \in Acted(d)'
        PROVE  u < now' \/ (u = now' /\ cycleState'[d] # "SCHEDULED")
    <3>1. SameCase(d)
      BY <1>1
    <3>2. Acted(d)' = Acted(d) /\ cycleState'[d] = cycleState[d]
      BY <3>1, ActedKept DEF SameCase, EngineInv
    <3> QED  BY <1>1, <1>2, <3>2
  <2>2. ASSUME NEW u \in Acted(c)'
        PROVE  u < now' \/ (u = now' /\ cycleState'[c] # "SCHEDULED")
    <3>1. CASE u \in Acted(c) /\ cycleState'[c] \in {cycleState[c], "EXECUTING"}
      BY <1>1, <1>2, <3>1
    <3>2. CASE u = plan[c][i].at /\ cycleState'[c] = "EXECUTING"
      BY <1>1, <1>7, <3>2
    <3> QED  BY <3>1, <3>2
  <2> QED  BY <2>1, <2>2
<1> QED
  BY <1>1, <1>5, <1>6, <1>8 DEF DueInOrder, ActedByNow, PendingLater, BatchDueNow

LEMMA DueNext ==
  ASSUME EngineInv, EngineInv', DriverInv, DrawsInv, CasesInv, TimedInv, TimedInv', DueInOrder,
         [BenchNext]_benchVars
  PROVE  DueInOrder'
<1>1. CASE DriverMoves \/ RailTurn
  <2>1. UNCHANGED <<plan, stepStatus, cycleState, now, batch, phase>>
    <3>1. CASE RailTurn
      BY <3>1, OthersTurn DEF tables, local
    <3>2. CASE Truncate
      BY <3>2, QuietIs DEF DriverMoves, caseVars, Truncate, local
    <3>3. CASE DriverMoves /\ ~Truncate
      BY <3>3
      DEF DriverMoves, FireFirstAttempt, StartLoop, SetNow, ReadResults, benchVars, vars,
          tables, local
    <3> QED  BY <1>1, <3>1, <3>2, <3>3
  <2> QED  BY <2>1, DueSame DEF EngineInv
<1>2. CASE TickAtNow
  BY <1>2, TickDue
<1>3. CASE WorkerReads /\ ~TickAtNow
  <2>1. UNCHANGED <<plan, stepStatus, cycleState>>
    BY <1>3, QuietIs DEF caseVars
  <2>2. CASE FetchOutbox
    BY <2>2, BatchDue
  <2>3. CASE \E r \in batch : ReadStep(r)
    <3>1. phase = "steps" /\ phase' = "decide" /\ UNCHANGED <<now, batch>>
      BY <2>3 DEF ReadStep
    <3> QED  BY <2>1, <3>1, DueSame DEF EngineInv
  <2>4. CASE \/ \E row \in rows : SendToRail(row)
             \/ RetryLater \/ ReadDeliveredCycle \/ FindExhaustedPlans \/ EndTick
    <3>1. phase \notin {"steps", "decide"} /\ phase' \notin {"steps", "decide"}
      BY <2>4
      DEF SendToRail, RetryLater, RowHandled, ReadDeliveredCycle, FindExhaustedPlans, EndTick
    <3>2. \A c \in Cycles : Acted(c)' \subseteq Acted(c)
      BY <2>1, ActedShrinks DEF EngineInv
    <3> QED  BY <2>1, <3>1, <3>2, DueKept
  <2>5. CASE RequestError
    BY <2>1, <2>5, DueSame DEF RequestError, local, EngineInv
  <2> QED  BY <1>3, <2>2, <2>3, <2>4, <2>5 DEF WorkerReads
<1>4. CASE SeedCycle \/ IngestFirstOutcome
  <2>1. stage' = "seed" /\ phase' = "idle"
    BY <1>4 DEF SeedCycle, IngestFirstOutcome, DriverInv, driver, local
  <2>2. \A c \in Cycles : Acted(c)' = {}
    BY <2>1 DEF TimedInv, TimedCase
  <2> QED  BY <2>1, <2>2 DEF DueInOrder, ActedEarlier
<1>5. CASE CancelStep \/ ProcessNotifyStep
  <2>1. PICK c \in Cycles, i \in StepIds :
          /\ StepsDone(c, i)
          /\ \/ stepStatus'[c][i] = "cancelled"
             \/ stepStatus'[c][i] = "done" /\ plan[c][i].type # "attempt"
    BY <1>5, StepDoneIs
  <2>2. UNCHANGED cycleState
    BY <1>5, StepDoneIs
  <2>3. Acted(c)' = Acted(c)
    BY <2>1, StepActsNot
  <2> QED  BY <2>1, <2>2, <2>3, StepDue
<1>6. CASE DispatchAttempt
  <2>1. PICK c \in Cycles, i \in StepIds :
          /\ StepsDone(c, i) /\ cycleState'[c] = "EXECUTING"
          /\ stepStatus'[c][i] = "dispatched" /\ plan[c][i].type = "attempt"
    BY <1>6, DispatchIs
  <2>2. Acted(c)' = Acted(c) \cup {plan[c][i].at}
    BY <2>1, StepActs
  <2> QED  BY <2>1, <2>2, StepDue
<1>7. CASE \/ HandleRailDenied
           \/ DeliveredAfterClose \/ AttemptSucceeded \/ BudgetExhausted \/ AttemptFailed
  <2>1. PICK c \in Cycles, n \in SequenceNos \ {1}, i \in StepIds,
             o \in {"blocked"} \cup RailOutcome :
          /\ RowDone(c, n, i, o) /\ stepStatus'[c][i] \in {"cancelled", "done"}
          /\ \A j \in StepIds \ {i} :
               \/ stepStatus'[c][j] = stepStatus[c][j]
               \/ stepStatus[c][j] = "pending" /\ stepStatus'[c][j] = "cancelled"
    <3>1. CASE HandleRailDenied
      BY <3>1, DeniedIs
    <3>2. CASE DeliveredAfterClose \/ AttemptSucceeded \/ BudgetExhausted \/ AttemptFailed
      BY <3>2, SettleIs
    <3> QED  BY <1>7, <3>1, <3>2
  <2>2. /\ phase \notin {"steps", "decide"} /\ phase' \notin {"steps", "decide"}
        /\ \A d \in Cycles : plan'[d] = plan[d]
        /\ \A d \in Cycles, j \in StepIds :
             \/ stepStatus'[d][j] = stepStatus[d][j]
             \/ d = c /\ j = i /\ stepStatus[d][j] = "dispatched"
                      /\ stepStatus'[d][j] # "pending"
             \/ stepStatus'[d][j] = "cancelled"
    BY <2>1 DEF RowDone, SameCase
  <2>3. \A d \in Cycles : Acted(d)' \subseteq Acted(d)
    BY <2>2, ActedShrinks DEF EngineInv
  <2> QED  BY <2>2, <2>3, DueKept
<1>8. CASE \E c \in sweepList : SweepCycle(c)
  <2>1. phase = "sweep" /\ UNCHANGED <<plan, stepStatus, phase>>
    BY <1>8, SweepIs
  <2>2. \A c \in Cycles : Acted(c)' \subseteq Acted(c)
    BY <2>1, ActedShrinks DEF EngineInv
  <2> QED  BY <2>1, <2>2, DueKept
<1> QED
  BY <1>1, <1>2, <1>3, <1>4, <1>5, <1>6, <1>7, <1>8, StepKinds DEF WorkerWrites

------------------------------------------------------------------------------
(* The invariant *)

LEMMA BenchInvInit == BenchInit => BenchInv
<1> SUFFICES ASSUME BenchInit PROVE BenchInv
  OBVIOUS
<1>1. Untouched
  BY DEF BenchInit, Untouched
<1>2. EngineInv
  BY <1>1, UntouchedEngine
<1>3. DriverInv
  BY <1>1 DEF BenchInit, DriverInv, Untouched, ApiInit, WorkerInit
<1>4. DrawsInv
  <2>1. 1 \in SequenceNos
    BY PolicyAssumption DEF SequenceNos
  <2>2. \A c \in Cycles : intents[c][1] = "none" /\ railOutcome[c][1] = "none"
    BY <2>1 DEF BenchInit, RailInit
  <2>3. \A k \in DOMAIN world : world[k] \in {"success", "failure"}
    BY DEF BenchInit
  <2> QED  BY <2>2, <2>3 DEF BenchInit, RailInit, DrawsInv, FirstDrawn, FirstTold
<1>5. \A c \in Cycles : Acted(c) = {}
  BY DEF BenchInit, Acted
<1>6. CasesInv
  BY DEF BenchInit, CasesInv, CaseInv, Seeded, InFlight, TerminalStates
<1>7. TimedInv
  <2>1. \A c \in Cycles : intents[c][1] = "none"
    BY PolicyAssumption DEF BenchInit, SequenceNos
  <2> QED  BY <1>5, <2>1 DEF BenchInit, RailInit, TimedInv, TimedCase
<1>8. DueInOrder
  BY <1>5 DEF BenchInit, WorkerInit, DueInOrder, ActedEarlier
<1> QED  BY <1>2, <1>3, <1>4, <1>6, <1>7, <1>8 DEF BenchInv

LEMMA BenchInvNext == BenchInv /\ [BenchNext]_benchVars => BenchInv'
<1> SUFFICES ASSUME BenchInv, [BenchNext]_benchVars PROVE BenchInv'
  OBVIOUS
<1>1. EngineInv /\ DriverInv /\ DrawsInv /\ CasesInv /\ TimedInv /\ DueInOrder
  BY DEF BenchInv
<1>2. EngineInv' /\ DriverInv' /\ DrawsInv' /\ CasesInv' /\ TimedInv'
  BY <1>1, EngineNext, DriverNext, DrawsNext, CasesNext, TimedNext
<1>3. DueInOrder'
  BY <1>1, <1>2, DueNext
<1> QED  BY <1>2, <1>3 DEF BenchInv

\* The inductive invariant of one batch: that of the engine, where the driver
\* is, what the rail drew, where every case is, when it acted and what is due.
THEOREM BenchInvariant == BenchSpec => []BenchInv
<1>1. BenchInit => BenchInv
  BY BenchInvInit
<1>2. BenchInv /\ [BenchNext]_benchVars => BenchInv'
  BY BenchInvNext
<1> QED  BY <1>1, <1>2, PTL DEF BenchSpec

\* The plans remembered are plans the policy may compute.
ChosenInv == \A k \in DOMAIN chosen : chosen[k] \in Candidates[k[1][1]]

LEMMA ChosenNext ==
  ASSUME DriverInv, ChosenInv, [BenchNext]_benchVars
  PROVE  ChosenInv'
<1>1. CASE UNCHANGED chosen
  BY <1>1 DEF ChosenInv
<1>2. CASE IngestFirstOutcome /\ ~UNCHANGED chosen
  <2>1. PICK c, p : ComputePlan(c, p)
    BY <1>2 DEF IngestFirstOutcome
  <2>2. /\ p \in Candidates[c[1]]
        /\ chosen' = [k \in DOMAIN chosen \cup {PlanKey(c)} |->
                        IF k = PlanKey(c) THEN p ELSE chosen[k]]
    BY <1>2, <2>1 DEF ComputePlan
  <2>3. PlanKey(c)[1] = c
    BY DEF PlanKey
  <2> QED  BY <2>2, <2>3 DEF ChosenInv
<1>3. CASE ~IngestFirstOutcome
  <2>1. UNCHANGED chosen
    BY <1>3
    DEF BenchNext, DriverStep, Truncate, SeedCycle, FireFirstAttempt, StartLoop, SetNow,
        TickAtNow, ReadResults, WorkerTurn, RailTurn, driver, benchVars
  <2> QED  BY <1>1, <2>1
<1> QED  BY <1>1, <1>2, <1>3

\* The driver, the rail and what they have drawn and computed keep their types:
\* in particular the rail only ever answers what was drawn, and a policy's plan
\* is one of that policy's.
THEOREM BenchTypeCorrect == BenchSpec => []BenchTypeOK
<1>1. BenchInit => ChosenInv
  BY DEF BenchInit, ChosenInv
<1>2. BenchInv /\ ChosenInv /\ [BenchNext]_benchVars => ChosenInv'
  BY ChosenNext DEF BenchInv
<1>3. BenchInv /\ ChosenInv => BenchTypeOK
  <2> SUFFICES ASSUME BenchInv, ChosenInv PROVE BenchTypeOK
    OBVIOUS
  <2>1. 1 \in DOMAIN Costs
    BY BenchmarkAssumption
  <2>2. RailTypeOK
    BY DEF BenchInv, EngineInv, TypeInv, TypeOK
  <2> QED  BY <2>1, <2>2 DEF BenchInv, DriverInv, DrawsInv, ChosenInv, BenchTypeOK
<1> QED  BY <1>1, <1>2, <1>3, BenchInvariant, PTL DEF BenchSpec

------------------------------------------------------------------------------
(* The report *)

\* At the end a case is closed or waits for a person, unless its last delivery
\* was lost or refused.
LEMMA CaseReported ==
  ASSUME BenchInv, stage = "reported", NEW c \in Cycles, ~Unsettled(c)
  PROVE  cycleState[c] \in TerminalStates \cup {"AWAITING_MANUAL"}
<1>1. ~InFlight(c) /\ ~Refused(c)
  BY DEF Unsettled, InFlight, Refused
<1>2. ~SweepAhead(c)
  BY DEF BenchInv, EngineInv, ThreadInv, ReadsCurrent, DriverInv, SweepAhead
<1>3. ~CycleHasOpenSteps(c)
  <2>1. \A i \in StepIds : stepStatus[c][i] # "pending"
    <3>1. \A r \in StepRef : stepStatus[r[1]][r[2]] # "pending"
      BY DEF BenchInv, DriverInv, Pending
    <3>2. \A i \in StepIds : <<c, i>> \in StepRef /\ <<c, i>>[1] = c /\ <<c, i>>[2] = i
      BY DEF StepRef
    <3> QED  BY <3>1, <3>2
  <2>2. \A i \in StepIds : stepStatus[c][i] # "dispatched"
    BY <1>1 DEF BenchInv, CasesInv, CaseInv, InFlight
  <2> QED  BY <2>1, <2>2 DEF CycleHasOpenSteps
<1> QED  BY <1>1, <1>2, <1>3 DEF BenchInv, CasesInv, CaseInv, Seeded

\* A case still open when the batch ends has its last delivery lost or refused:
\* the loop leaves no step pending, a dispatched one has its outbox row, and the
\* sweep of the tick that took a case's last step has closed it.
THEOREM EveryCaseIsAccounted == BenchSpec => []EveryCaseAccounted
<1>1. BenchInv => EveryCaseAccounted
  <2> SUFFICES ASSUME BenchInv, stage = "reported", NEW c \in Cycles, ~Unsettled(c)
               PROVE  results[c].state \in TerminalStates \cup {"AWAITING_MANUAL"}
    BY DEF EveryCaseAccounted
  <2>1. results[c] = CaseOutcome(c)
    BY DEF BenchInv, DriverInv
  <2>2. results[c].state = cycleState[c]
    BY <2>1 DEF CaseOutcome
  <2> QED  BY <2>2, CaseReported
<1> QED  BY <1>1, BenchInvariant, PTL

\* Of a case that is settled the ledger says what the rail says, the column of
\* attempts used counts it, and it is recovered if the rail debited the payer.
LEMMA CaseSettled ==
  ASSUME BenchInv, stage = "reported", NEW c \in Cycles, ~Unsettled(c)
  PROVE  /\ \A n \in SequenceNos : intents[c][n] = railOutcome[c][n]
         /\ intents[c][1] # "none" /\ attemptsUsed[c] = CountAttempts(c)
         /\ cycleState[c] = "RECOVERED" <=>
              \E n \in SequenceNos : railOutcome[c][n] = "success"
<1>1. cycleState[c] \in {"RECOVERED", "ABANDONED", "AWAITING_MANUAL"}
  BY CaseReported DEF TerminalStates
<1>2. intents[c][1] # "none"
  BY <1>1 DEF BenchInv, EngineInv, ClosingInv, AttemptedBeyondDue, Attempted
<1>3. attemptsUsed[c] = CountAttempts(c)
  BY <1>1 DEF BenchInv, EngineInv, BudgetColumnHonest, CasesInv, CaseInv
<1>4. ASSUME NEW n \in SequenceNos PROVE intents[c][n] = railOutcome[c][n]
  <2>1. CASE n = 1
    BY <1>2, <2>1 DEF BenchInv, DrawsInv, FirstTold
  <2>2. CASE n # 1
    <3>1. intents[c][n] \notin {"reserved", "blocked"}
      BY DEF Unsettled, BenchInv, EngineInv, LedgerInv, RowsReserved
    <3>2. intents[c][n] \in RailOutcome \cup {"none"}
      BY <3>1 DEF BenchInv, EngineInv, TypeInv, TypeOK, DbTypeOK, IntentOutcome
    <3> QED
      BY <2>2, <3>2 DEF BenchInv, EngineInv, RailInv, RailAgreesWithLedger
  <2> QED  BY <2>1, <2>2
<1> QED  BY <1>2, <1>3, <1>4 DEF BenchInv, CasesInv, CaseInv

\* A success on record is one of the rail's.
LEMMA RecoveredDebited ==
  ASSUME BenchInv, NEW c \in Cycles, cycleState[c] = "RECOVERED"
  PROVE  \E n \in SequenceNos : railOutcome[c][n] = "success"
<1>1. PICK n \in SequenceNos : intents[c][n] = "success"
  BY DEF BenchInv, CasesInv, CaseInv
<1>2. railOutcome[c][n] = "success"
  BY <1>1
  DEF BenchInv, DrawsInv, FirstTold, EngineInv, RailInv, RailAgreesWithLedger, RailOutcome
<1> QED  BY <1>2

\* The report counts what the rail did, save for cases whose last delivery was
\* lost or refused: nobody is reported as recovered who was not debited, and the
\* attempts reported are those executed.
THEOREM ReportIsHonest == BenchSpec => []ReportHonest
<1>1. BenchInv => ReportHonest
  <2> SUFFICES ASSUME BenchInv, stage = "reported", NEW a \in Policies
               PROVE  LET debited == {p \in Payers :
                            "success" \in {railOutcome[<<a, p>>][n] : n \in SequenceNos}}
                          lost == {p \in Payers : Unsettled(<<a, p>>)}
                          executed == [p \in Payers |-> Cardinality(Executed(<<a, p>>))]
                      IN  /\ Summary(a).recovered <= Cardinality(debited)
                          /\ Cardinality(debited \ lost) <= Summary(a).recovered
                          /\ lost = {} => Summary(a).attempts = SumFunction(executed)
    BY DEF ReportHonest
  <2> DEFINE debited == {p \in Payers :
                           "success" \in {railOutcome[<<a, p>>][n] : n \in SequenceNos}}
             lost == {p \in Payers : Unsettled(<<a, p>>)}
             executed == [p \in Payers |-> Cardinality(Executed(<<a, p>>))]
             recovered == {p \in Payers : results[<<a, p>>].recovered}
             attempts == [p \in Payers |-> results[<<a, p>>].attempts]
  <2>1. \A p \in Payers : <<a, p>> \in Cycles
    BY OneDriver
  <2>2. \A p \in Payers :
          /\ results[<<a, p>>].recovered <=> cycleState[<<a, p>>] = "RECOVERED"
          /\ results[<<a, p>>].attempts = attemptsUsed[<<a, p>>]
    <3> SUFFICES ASSUME NEW p \in Payers
                 PROVE  /\ results[<<a, p>>].recovered <=> cycleState[<<a, p>>] = "RECOVERED"
                        /\ results[<<a, p>>].attempts = attemptsUsed[<<a, p>>]
      OBVIOUS
    <3>1. PICK c \in Cycles : c = <<a, p>>
      BY <2>1
    <3>2. results[c] = CaseOutcome(c)
      BY DEF BenchInv, DriverInv
    <3>3. results[c].attempts = attemptsUsed[c]
      BY <3>2 DEF CaseOutcome
    <3>4. results[c].recovered <=> cycleState[c] = "RECOVERED"
      <4>1. CaseOutcome(c).recovered <=> cycleState[c] = "RECOVERED"
        BY DEF CaseOutcome
      <4>2. results[c].recovered = CaseOutcome(c).recovered
        BY <3>2
      <4> QED  BY <4>1, <4>2
    <3> QED  BY <3>1, <3>3, <3>4
  <2>3. Summary(a).recovered = Cardinality(recovered) /\ Summary(a).attempts = SumFunction(attempts)
    BY DEF Summary
  <2>4. recovered \subseteq debited
    BY <2>1, <2>2, RecoveredDebited
  <2>5. debited \ lost \subseteq recovered
    BY <2>1, <2>2, CaseSettled
  <2>6. IsFiniteSet(debited) /\ IsFiniteSet(recovered)
    BY BenchmarkAssumption, FS_Subset
  <2>7. ASSUME lost = {} PROVE attempts = executed
    <3>1. ASSUME NEW p \in Payers PROVE attempts[p] = executed[p]
      <4>1. PICK c \in Cycles : c = <<a, p>>
        BY <2>1
      <4>2. /\ attemptsUsed[c] = CountAttempts(c)
            /\ \A n \in SequenceNos : intents[c][n] = railOutcome[c][n]
        BY <2>7, <4>1, CaseSettled
      <4>3. Executed(c) = {n \in SequenceNos : intents[c][n] # "none"}
        BY <4>2 DEF Executed
      <4> QED  BY <2>2, <4>1, <4>2, <4>3 DEF CountAttempts
    <3> QED  BY <3>1
  <2> HIDE DEF debited, lost, executed, recovered, attempts
  <2>8. Cardinality(recovered) <= Cardinality(debited)
    BY <2>4, <2>6, FS_Subset
  <2>9. Cardinality(debited \ lost) <= Cardinality(recovered)
    BY <2>5, <2>6, FS_Subset
  <2>10. lost = {} => Summary(a).attempts = SumFunction(executed)
    BY <2>3, <2>7
  <2>11. /\ Summary(a).recovered <= Cardinality(debited)
         /\ Cardinality(debited \ lost) <= Summary(a).recovered
         /\ lost = {} => Summary(a).attempts = SumFunction(executed)
    BY <2>3, <2>8, <2>9, <2>10
  <2> QED  BY <2>11 DEF debited, lost, executed
<1> QED  BY <1>1, BenchInvariant, PTL

\* Two cases of one payer that acted at the same instants were told the same.
LEMMA SameInstantsSameResult ==
  ASSUME BenchInv, stage = "reported", NEW a \in Policies, NEW b \in Policies,
         NEW p \in Payers, Acted(<<a, p>>) = Acted(<<b, p>>),
         ~Unsettled(<<a, p>>), ~Unsettled(<<b, p>>)
  PROVE  /\ CountAttempts(<<a, p>>) = CountAttempts(<<b, p>>)
         /\ cycleState[<<a, p>>] = "RECOVERED" => cycleState[<<b, p>>] = "RECOVERED"
<1>0. PICK c \in Cycles, d \in Cycles : c = <<a, p>> /\ d = <<b, p>>
  BY OneDriver
<1>1. /\ TimedCase(c) /\ TimedCase(d) /\ ~Refused(c) /\ ~Refused(d) /\ TypeInv
      /\ AttemptsInOrder /\ FirstDrawn
  BY <1>0 DEF BenchInv, TimedInv, Unsettled, Refused, EngineInv, LedgerInv, DrawsInv
<1>2. /\ \A n \in SequenceNos : intents[c][n] = railOutcome[c][n]
      /\ \A n \in SequenceNos : intents[d][n] = railOutcome[d][n]
      /\ intents[c][1] # "none" /\ intents[d][1] # "none"
      /\ cycleState[c] = "RECOVERED" <=>
           \E n \in SequenceNos : railOutcome[c][n] = "success"
      /\ cycleState[d] = "RECOVERED" <=>
           \E n \in SequenceNos : railOutcome[d][n] = "success"
  BY <1>0, CaseSettled
<1>3. CountAttempts(c) = CountAttempts(d)
  BY <1>0, <1>1, <1>2 DEF TimedCase
<1>4. ASSUME NEW n \in SequenceNos, railOutcome[c][n] = "success"
      PROVE  railOutcome[d][n] = "success"
  <2>1. railOutcome[d][n] # "none"
    BY <1>1, <1>2, <1>3, <1>4, CountIsLast
  <2>2. PICK t : Drawn(c, n, t) /\ Drawn(d, n, t)
    <3>1. CASE n = 1
      BY <1>0, <1>1, <1>4, <2>1, <3>1 DEF FirstDrawn
    <3>2. CASE n # 1
      <4>1. PICK t : NthAt(c, n, t) /\ Drawn(c, n, t)
        BY <1>1, <1>4, <3>2 DEF TimedCase
      <4>2. PICK u : NthAt(d, n, u) /\ Drawn(d, n, u)
        BY <1>1, <2>1, <3>2 DEF TimedCase
      <4>3. NthAt(c, n, u)
        BY <1>0, <4>2 DEF NthAt
      <4>4. t = u
        BY <1>1, <4>1, <4>3, NthIsOne, PolicyAssumption DEF SequenceNos
      <4> QED  BY <4>1, <4>2, <4>4
    <3> QED  BY <3>1, <3>2
  <2>3. WorldKey(c, n, t) = WorldKey(d, n, t)
    BY <1>0 DEF WorldKey
  <2> QED  BY <1>4, <2>2, <2>3 DEF Drawn
<1> QED  BY <1>0, <1>2, <1>3, <1>4

\* Any observed difference between policies is attributable to when they chose
\* to act: the draws are keyed by the payer, the instant and the number of the
\* attempt, so a policy that acts as another did is told what it was told.
THEOREM DifferencesAreInTiming == BenchSpec => []DifferencesAreTiming
<1>1. BenchInv => DifferencesAreTiming
  <2> SUFFICES ASSUME BenchInv, stage = "reported",
                      NEW a \in Policies, NEW b \in Policies, NEW p \in Payers,
                      Acted(<<a, p>>) = Acted(<<b, p>>),
                      ~Unsettled(<<a, p>>), ~Unsettled(<<b, p>>)
               PROVE  /\ PairedDiffs(a, b)[p] = 0
                      /\ results[<<a, p>>].attempts = results[<<b, p>>].attempts
    BY DEF DifferencesAreTiming
  <2>1. CountAttempts(<<a, p>>) = CountAttempts(<<b, p>>)
    BY SameInstantsSameResult
  <2>2. cycleState[<<a, p>>] = "RECOVERED" <=> cycleState[<<b, p>>] = "RECOVERED"
    BY SameInstantsSameResult
  <2>3. \A q \in {a, b} : /\ <<q, p>> \in Cycles
                          /\ results[<<q, p>>] = CaseOutcome(<<q, p>>)
                          /\ attemptsUsed[<<q, p>>] = CountAttempts(<<q, p>>)
    <3>1. \A q \in {a, b} : <<q, p>> \in Cycles
      BY OneDriver
    <3> QED  BY <3>1, CaseSettled DEF BenchInv, DriverInv
  <2>4. results[<<a, p>>].attempts = results[<<b, p>>].attempts
    BY <2>1, <2>3 DEF CaseOutcome
  <2>5. results[<<a, p>>].recovered <=> results[<<b, p>>].recovered
    BY <2>2, <2>3 DEF CaseOutcome
  <2>6. PairedDiffs(a, b)[p] = 0
    BY <2>5 DEF PairedDiffs
  <2> QED  BY <2>4, <2>6
<1> QED  BY <1>1, BenchInvariant, PTL

==============================================================================
