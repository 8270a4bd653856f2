---------------------------- MODULE RecoverySystem ----------------------------
(***************************************************************************)
(* The whole engine: webhook ingestion, the worker and the rail over one   *)
(* database, an operator who flips kill switches, and a clock.             *)
(***************************************************************************)
EXTENDS Ingest, Worker

CONSTANTS OperatorScopes,  \* bound: the kill switches the operator may flip
          SingleThreaded
  \* TRUE: one thread alternates between requests and worker ticks, as the
  \* replay drivers and the integration tests do.  FALSE: the API serves
  \* requests while the worker runs.

ASSUME SystemAssumption == SingleThreaded \in BOOLEAN /\ OperatorScopes \subseteq Scopes

vars == <<tables, apiVars, railVars, clock, local>>

Init == DbInit /\ ApiInit /\ RailInit /\ WorkerInit

ApiStep ==
  /\ SingleThreaded => phase = "idle"
  /\ IngestNext
  /\ UNCHANGED <<railVars, clock, local>>

StartTick ==
  /\ SingleThreaded => requests = {}
  /\ FetchDueSteps
  /\ UNCHANGED apiVars

\* POST /admin/kill-switches
SetKillSwitch ==
  /\ \E s \in OperatorScopes : killSwitches' \in {killSwitches \cup {s}, killSwitches \ {s}}
  /\ SingleThreaded => phase = "idle"
  /\ UNCHANGED <<events, mandateStatus, optedOut, cycleState, attemptsUsed,
                 intents, plan, stepStatus, notices, outbox, lockedSteps,
                 apiVars, railVars, clock, local>>

ClockTick ==
  /\ clock < Horizon
  /\ clock' = clock + 1
  /\ UNCHANGED <<tables, apiVars, railVars, local>>

RailStep == RailNext /\ UNCHANGED <<tables, apiVars, clock, local>>

Next ==
  \/ ApiStep
  \/ StartTick
  \/ WorkerStep /\ UNCHANGED apiVars
  \/ (RequestError \/ WorkerCrash) /\ UNCHANGED apiVars
  \/ RailStep
  \/ SetKillSwitch
  \/ ClockTick

Spec == Init /\ [][Next]_vars

\* Fairness: the caller keeps ticking the worker, time passes, the rail
\* answers what reached it.  Nothing is assumed of webhooks or operators.
FairSpec ==
  /\ Spec
  /\ WF_vars(StartTick)
  /\ WF_vars(WorkerStep /\ UNCHANGED apiVars)
  /\ WF_vars(RailStep)
  /\ WF_vars(ClockTick)

------------------------------------------------------------------------------
(***************************************************************************)
(* Invariants                                                              *)
(***************************************************************************)

DbTypeOK ==
  /\ events \subseteq Webhooks
  /\ mandateStatus \in [Mandates -> {"absent", "active", "revoked"}]
  /\ optedOut \in [Mandates -> BOOLEAN]
  /\ killSwitches \subseteq Scopes
  /\ cycleState \in [Cycles -> CaseState \cup {"absent"}]
  /\ attemptsUsed \in [Cycles -> 0 .. MaxAttempts]
  /\ intents \in [Cycles -> [SequenceNos -> IntentOutcome]]
  /\ plan \in [Cycles -> Plans \cup {<<>>}]
  /\ stepStatus \in [Cycles -> [StepIds -> StepStatus]]
  /\ notices \in [Cycles -> SUBSET Notice]
  /\ outbox \subseteq OutboxRow
  /\ lockedSteps \subseteq StepRef

ApiTypeOK ==
  /\ requests \subseteq Webhooks
  /\ readState \in [Webhooks -> [Cycles -> CaseState \cup {"absent"}]]

RailTypeOK ==
  /\ railOutcome \in [Cycles -> [SequenceNos -> RailOutcome \cup {"none"}]]
  /\ handling \subseteq Handler
  /\ reply \in Reply

WorkerTypeOK ==
  /\ clock \in Time
  /\ phase \in {"idle", "steps", "decide", "drain", "await", "settle", "sweep"}
  /\ now \in Time
  /\ batch \subseteq StepRef
  /\ current \in StepRef \cup {NoStep}
  /\ seen \in [state : CaseState \cup {"absent"}, attempts : 0 .. MaxAttempts,
               allowed : BOOLEAN]
  /\ rows \subseteq OutboxRow
  /\ sending \in OutboxRow \cup {NoRow}
  /\ sweepList \subseteq Cycles

\* Type correctness of every table and of the local state of each process.
TypeOK == DbTypeOK /\ ApiTypeOK /\ RailTypeOK /\ WorkerTypeOK

\* An attempt follows only attempts that failed or whose outcome is unknown:
\* sequence numbers have no gap, at most one attempt is in flight, and none
\* follows a success or a refusal (reserve_attempt_intent is called with
\* count + 1 computed from an earlier, unlocked read).
AttemptsInOrder ==
  \A c \in Cycles : \A m, n \in SequenceNos :
    m < n /\ intents[c][n] # "none" => intents[c][m] \in {"failure", "unknown"}

\* "A crash cannot leave the system with a reserved action that was never
\* enqueued": an attempt is unresolved exactly while one undelivered outbox row
\* exists for it, and the plan step of that row is the one dispatched.
OutboxMatchesLedger ==
  /\ \A c \in Cycles, n \in SequenceNos :
       (intents[c][n] = "reserved") <=> (\E r \in outbox : r.cycle = c /\ r.seq = n)
  /\ \A r, s \in outbox : r.cycle = s.cycle => r = s
  /\ \A r \in outbox : stepStatus[r.cycle][r.step] = "dispatched"

\* Every debit queued for the rail lies in the permitted window and has a
\* notice on record that covers exactly this debit, neither too fresh nor too
\* old, although the verdict was reached on an earlier read.
DispatchCovered ==
  \A r \in outbox :
    /\ r.at % SlotsPerDay \in PermittedSlots
    /\ \E k \in notices[r.cycle] : /\ k.covers = r.at
                                   /\ k.sent + NoticeMin <= r.at
                                   /\ r.at <= k.sent + NoticeMaxAge

\* The outcome on record for a delivered attempt is the rail's own, through
\* lost replies, replays and late handlers; and the rail never executed an
\* attempt that was not reserved.
RailAgreesWithLedger ==
  \A c \in Cycles : \A n \in SequenceNos \ {1} :
    /\ intents[c][n] \in RailOutcome => railOutcome[c][n] = intents[c][n]
    /\ railOutcome[c][n] # "none" => intents[c][n] # "none"

\* An outcome that is a debit, or that may have been one.
MayHaveDebited(c, n) ==
  {intents[c][n], railOutcome[c][n]} \cap {"success", "unknown"} # {}

\* A payer can be debited for a second time only after an attempt that is on
\* record as unknown: never behind a success, a refusal or an execution whose
\* outcome the engine has not learned.  Behind an unknown one the worker does
\* retry, where simulator/chaos.py says "Never retry the debit".
SecondDebitOnlyAfterUnknown ==
  \A c \in Cycles : \A m, n \in SequenceNos :
    m < n /\ MayHaveDebited(c, m) /\ MayHaveDebited(c, n) => intents[c][m] = "unknown"

\* cycles.attempts_used equals the number of attempts whenever the case is
\* waiting for its next step or recovered.
BudgetColumnHonest ==
  \A c \in Cycles : cycleState[c] \in {"SCHEDULED", "RECOVERED"} =>
                      attemptsUsed[c] = CountAttempts(c)

\* Closing a case leaves none of its steps pending, whoever closes it and
\* however stale its read was: no later tick acts for it.
ClosedCaseHasNoPendingSteps ==
  \A c \in Cycles, i \in StepIds :
    cycleState[c] \in TerminalStates => stepStatus[c][i] # "pending"

\* A step puts one notice on record, however often its tick crashes and reruns.
NoticeSentOnce ==
  \A c \in Cycles : \A m, n \in notices[c] :
    m.sent = n.sent /\ m.covers = n.covers => m = n

\* No case of a revoked or opted-out mandate is being executed.
NoExecutionOnDeadMandate ==
  \A c \in Cycles :
    mandateStatus[MandateOf[c]] = "revoked" \/ optedOut[MandateOf[c]]
      => cycleState[c] # "EXECUTING"

(***************************************************************************)
(* Action properties                                                       *)
(***************************************************************************)

Reserves(c, n) == intents[c][n] = "none" /\ intents'[c][n] = "reserved"
Executes(c, n) == railOutcome[c][n] = "none" /\ railOutcome'[c][n] # "none"

\* A closed case stays closed: fsm.py has no edge out of a terminal state.
TerminalIsFinal ==
  [][\A c \in Cycles : cycleState[c] \in TerminalStates =>
                         cycleState'[c] = cycleState[c]]_vars

\* An attempt is only reserved for a case that is SCHEDULED, on an active
\* mandate, not opted out, with no kill switch on.
ReservesOnlyOpenCases ==
  [][\A c \in Cycles, n \in SequenceNos :
       Reserves(c, n) =>
         /\ cycleState[c] = "SCHEDULED"
         /\ mandateStatus[MandateOf[c]] = "active"
         /\ ~optedOut[MandateOf[c]]
         /\ killSwitches \cap {"global", MerchantOf[MandateOf[c]]} = {}]_vars

\* The detailed system keeps the promise of AttemptLedger.
Ledger == INSTANCE AttemptLedger WITH ledger <- intents
LedgerSpec == Ledger!Spec

\* A debit is executed at least NoticeMin after the payer was really told.
NoticeReallyAhead ==
  [][\A c \in Cycles, n \in SequenceNos :
       Executes(c, n) => \E k \in notices[c] : clock - k.sentReally >= NoticeMin]_vars

(***************************************************************************)
(* Liveness                                                                *)
(***************************************************************************)

Fault == \/ WorkerCrash /\ ~EndTick
         \/ RequestError
         \/ \E q \in handling : RailDown(q)

FaultsCease == <>[][~Fault]_vars

Engaged(c) == cycleState[c] \in {"SCHEDULED", "EXECUTING"}

\* Once faults cease, every engaged case is closed.
EveryCaseCloses ==
  FaultsCease => \A c \in Cycles : Engaged(c) ~> ~Engaged(c)

\* The same, but for a case one of whose attempts the rail refused.
EveryUnrefusedCaseCloses ==
  FaultsCease => \A c \in Cycles :
    Engaged(c) ~> (~Engaged(c) \/ \E n \in SequenceNos : intents[c][n] = "blocked")

==============================================================================
