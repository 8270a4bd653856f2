------------------------------- MODULE Benchmark -------------------------------
(***************************************************************************)
(* The paired benchmark, evaluation/runner.py: one thread that empties the *)
(* tables, fires the first attempt of every (policy, payer) at an          *)
(* in-process rail, hands the outcome to ingestion with that policy's      *)
(* plan, ticks the worker from one pending step to the next until none is  *)
(* left, and reads the results off the cycles table; a sensitivity sweep   *)
(* does it all again with another assumed cost of manual recovery.  The    *)
(* rail lives as long as the run does: nothing resets it between batches.  *)
(*                                                                         *)
(* Cycles and mandates are pairs <<policy, payer>>, as their ids are.  The *)
(* rail draws an outcome from the payer, the instant and the sequence      *)
(* number; the draws are made as they are needed and kept in world.        *)
(***************************************************************************)
EXTENDS RecoverySystem, SequencesExt

CONSTANTS
  Policies, Payers,
  DueAt,        \* _due_at_for: a payer's due instant, first attempt included
  Candidates,   \* the plans a policy may compute, Stop in place of an empty one
  CostAware,    \* the policies whose plan depends on the cost of recovery
  Costs         \* that cost, by batch: the main batch, then the sweep's

Stop == <<"stop">>

DueEvent(c) == [ext |-> <<c, "due">>, type |-> "mandate.cycle.due", about |-> c]
Outcome(c, type) == [ext |-> <<c, "attempt1">>, type |-> type, about |-> c]

ASSUME BenchmarkAssumption ==
  /\ SingleThreaded /\ ApiConcurrency = 1
  /\ IsFiniteSet(Policies) /\ IsFiniteSet(Payers)
  /\ Cycles = Policies \X Payers /\ Mandates = Cycles
  /\ MandateOf = [c \in Cycles |-> c]
  /\ DueAt \in [Payers -> Time]
  /\ \A p \in Payers : DueAt[p] % SlotsPerDay \in RailPermittedSlots
  /\ Candidates \in [Policies -> SUBSET (Plans \cup {Stop})]
  /\ \A a \in Policies : <<>> \notin Candidates[a]
  /\ CostAware \subseteq Policies /\ Costs \in Seq(Nat) /\ Costs # <<>>
  /\ Webhooks = UNION {{DueEvent(c), Outcome(c, "debit.succeeded"),
                        Outcome(c, "debit.failed")} : c \in Cycles}

VARIABLES
  stage,    \* where the driver is
  batchNo,
  toSeed,   \* cycles not yet seeded, in order
  first,    \* what the rail answered to the first attempt of Head(toSeed)
  world,    \* the outcomes drawn so far
  chosen,   \* the plans computed so far
  results   \* CaseOutcome by cycle, of the last batch

driver == <<stage, batchNo, toSeed, first, world, chosen, results>>
benchVars == <<vars, driver>>

SeedOrder == SetToSeq(Cycles)
NoResult == [recovered |-> FALSE, attempts |-> 0, state |-> "absent"]

\* kill_switches is not among _RESET_TABLES: one may be left on from before.
BenchInit ==
  /\ ApiInit /\ RailInit /\ WorkerInit
  /\ \E k \in SUBSET OperatorScopes : killSwitches = k
  /\ events = {} /\ outbox = {} /\ lockedSteps = {}
  /\ mandateStatus = [m \in Mandates |-> "absent"]
  /\ optedOut = [m \in Mandates |-> FALSE]
  /\ cycleState = [c \in Cycles |-> "absent"]
  /\ attemptsUsed = [c \in Cycles |-> 0]
  /\ intents = [c \in Cycles |-> [n \in SequenceNos |-> "none"]]
  /\ plan = [c \in Cycles |-> <<>>]
  /\ stepStatus = [c \in Cycles |-> [i \in StepIds |-> "absent"]]
  /\ notices = [c \in Cycles |-> {}]
  /\ stage = "reset" /\ batchNo = 1
  /\ toSeed = <<>> /\ first = "none"
  /\ world = <<>> /\ chosen = <<>>
  /\ results = [c \in Cycles |-> NoResult]

\* TRUNCATE of _RESET_TABLES.
Truncate ==
  /\ stage = "reset"
  /\ stage' = "seed"
  /\ toSeed' = SeedOrder
  /\ events' = {} /\ outbox' = {}
  /\ mandateStatus' = [m \in Mandates |-> "absent"]
  /\ optedOut' = [m \in Mandates |-> FALSE]
  /\ cycleState' = [c \in Cycles |-> "absent"]
  /\ attemptsUsed' = [c \in Cycles |-> 0]
  /\ intents' = [c \in Cycles |-> [n \in SequenceNos |-> "none"]]
  /\ plan' = [c \in Cycles |-> <<>>]
  /\ stepStatus' = [c \in Cycles |-> [i \in StepIds |-> "absent"]]
  /\ notices' = [c \in Cycles |-> {}]
  /\ UNCHANGED <<killSwitches, lockedSteps, apiVars, railVars, clock, local,
                 batchNo, first, world, chosen, results>>

\* Seeded fault: as before Phase 8, every caller has draws of its own.
DrawPerCycle(c, n, t) == <<c, n>>

\* _world_seed_key
WorldKey(c, n, t) == <<c[2], t, n>>

\* The first caller of a key draws; the others are told the same.
Draw(key, outcome) ==
  /\ outcome \in {"success", "failure"}
  /\ IF key \in DOMAIN world
     THEN outcome = world[key] /\ UNCHANGED world
     ELSE world' = [k \in DOMAIN world \cup {key} |->
                      IF k = key THEN outcome ELSE world[k]]

(***************************************************************************)
(* _seed_and_run_attempt_one                                               *)
(***************************************************************************)

SeedCycle ==
  /\ stage = "seed" /\ toSeed # <<>>
  /\ IngestCycleDue(DueEvent(Head(toSeed)))
  /\ UNCHANGED <<railVars, clock, local, driver>>

\* The call to the rail is the driver's own.  Its idempotency key is the same
\* in every batch; a key the rail knows is replayed.
FireFirstAttempt ==
  LET c == Head(toSeed)
  IN  /\ stage = "seed" /\ toSeed # <<>> /\ first = "none"
      /\ DueEvent(c) \in events
      /\ IF railOutcome[c][1] # "none"
         THEN first' = railOutcome[c][1] /\ UNCHANGED <<railOutcome, world>>
         ELSE \E outcome \in RailOutcome :
                /\ Draw(WorldKey(c, 1, DueAt[c[2]]), outcome)
                /\ railOutcome' = [railOutcome EXCEPT ![c][1] = outcome]
                /\ first' = outcome
      /\ UNCHANGED <<tables, apiVars, handling, reply, clock, local, stage,
                     batchNo, toSeed, chosen, results>>

\* What a policy's compute_plan depends on; only mre and the oracle are given
\* the batch's cost.
PlanKey(c) == <<c, IF c[1] \in CostAware THEN Costs[batchNo] ELSE 0>>

\* Seeded fault: the dispatch on the policy's name picks any of them.
ComputeAnyPlan(c, p) ==
  chosen' = [k \in DOMAIN chosen \cup {PlanKey(c)} |->
               IF k = PlanKey(c) THEN p ELSE chosen[k]]

ComputePlan(c, p) ==
  /\ p \in Candidates[c[1]]
  /\ IF PlanKey(c) \in DOMAIN chosen
     THEN p = chosen[PlanKey(c)] /\ UNCHANGED chosen
     ELSE chosen' = [k \in DOMAIN chosen \cup {PlanKey(c)} |->
                       IF k = PlanKey(c) THEN p ELSE chosen[k]]

IngestFirstOutcome ==
  LET c == Head(toSeed)
      w == Outcome(c, IF first = "success" THEN "debit.succeeded" ELSE "debit.failed")
  IN  /\ stage = "seed" /\ toSeed # <<>> /\ first # "none"
      /\ \/ BeginRequest(w) /\ UNCHANGED <<toSeed, first, chosen>>
         \/ /\ toSeed' = Tail(toSeed) /\ first' = "none"
            /\ \/ IngestDebitSucceeded(w) /\ UNCHANGED chosen
               \/ IngestDebitFailedPlanned(w) /\ ComputePlan(c, plan'[c])
               \/ IngestDebitFailedStopped(w) /\ ComputePlan(c, Stop)
      /\ UNCHANGED <<railVars, clock, local, stage, batchNo, world, results>>

(***************************************************************************)
(* run_paired_batch: the loop and the results                              *)
(***************************************************************************)

\* Seeded fault: waits for steps that are only dispatched.
Unfinished == {r \in StepRef : stepStatus[r[1]][r[2]] \in {"pending", "dispatched"}}

Pending == {r \in StepRef : stepStatus[r[1]][r[2]] = "pending"}

Earliest == CHOOSE t \in {StepAt(r).at : r \in Pending} :
              \A r \in Pending : t <= StepAt(r).at

StartLoop ==
  /\ stage = "seed" /\ toSeed = <<>>
  /\ stage' = "loop"
  /\ UNCHANGED <<vars, batchNo, toSeed, first, world, chosen, results>>

\* now = MIN(scheduled_for): the clock jumps there.
SetNow ==
  /\ stage = "loop" /\ phase = "idle" /\ Pending # {}
  /\ clock # Earliest
  /\ clock' = Earliest
  /\ UNCHANGED <<tables, apiVars, railVars, local, driver>>

TickAtNow ==
  /\ stage = "loop" /\ Pending # {}
  /\ clock = Earliest
  /\ FetchDueSteps
  /\ UNCHANGED <<apiVars, driver>>

WorkerTurn ==
  /\ stage = "loop"
  /\ WorkerStep \/ RequestError
  /\ UNCHANGED <<apiVars, driver>>

\* The rail, with no chaos configured: it never draws a 5xx or a timeout.
RailTurn ==
  /\ \E q \in handling :
       \/ (RailReplay(q) \/ RailRefuse(q) \/ RailAccept(q)) /\ UNCHANGED world
       \/ /\ RailPersist(q)
          /\ IF RailRecord(q) # "none" THEN UNCHANGED world
             ELSE Draw(WorldKey(q.row.cycle, q.row.seq, q.row.at),
                       railOutcome'[q.row.cycle][q.row.seq])
  /\ UNCHANGED <<tables, apiVars, clock, local, stage, batchNo, toSeed, first,
                 chosen, results>>

\* Seeded fault: every case that is closed counts as recovered.
OutcomeOfClosed(c) ==
  [recovered |-> cycleState[c] \in TerminalStates, attempts |-> attemptsUsed[c],
   state |-> cycleState[c]]

CaseOutcome(c) ==
  [recovered |-> cycleState[c] = "RECOVERED", attempts |-> attemptsUsed[c],
   state |-> cycleState[c]]

ReadResults ==
  /\ stage = "loop" /\ phase = "idle" /\ Pending = {}
  /\ stage' = "reported"
  /\ results' = [c \in Cycles |-> CaseOutcome(c)]
  /\ UNCHANGED <<vars, batchNo, toSeed, first, world, chosen>>

\* run_sensitivity_sweep: the same again at the next cost.
NextBatch ==
  /\ stage = "reported" /\ batchNo < Len(Costs)
  /\ stage' = "reset" /\ batchNo' = batchNo + 1
  /\ UNCHANGED <<vars, toSeed, first, world, chosen, results>>

DriverStep == \/ Truncate \/ SeedCycle \/ FireFirstAttempt \/ IngestFirstOutcome
              \/ StartLoop \/ SetNow \/ TickAtNow \/ ReadResults

BenchNext == DriverStep \/ WorkerTurn \/ RailTurn

\* One batch, and the batches of a sweep after it.
BenchSpec == BenchInit /\ [][BenchNext]_benchVars
SweepSpec == BenchInit /\ [][BenchNext \/ NextBatch]_benchVars

\* One thread: it goes on as long as there is anything to do, and what it waits
\* for, the rail's answer, ends with that answer or with the client's timeout.
FairBenchSpec == BenchSpec /\ WF_benchVars(BenchNext)

------------------------------------------------------------------------------
(* The report. *)

\* _summary_rows
Summary(a) ==
  [recovered |-> Cardinality({p \in Payers : results[<<a, p>>].recovered}),
   attempts  |-> SumFunction([p \in Payers |-> results[<<a, p>>].attempts])]

\* paired_diffs on recovery, as a function of the payer
PairedDiffs(a, b) ==
  LET metric(r) == IF r.recovered THEN 1 ELSE 0
  IN  [p \in Payers |-> metric(results[<<a, p>>]) - metric(results[<<b, p>>])]

------------------------------------------------------------------------------
(* Properties *)

\* A delivery that failed on the last tick of the batch is never taken up, and
\* one the rail refused leaves its case as it was.
Unsettled(c) ==
  \/ \E r \in outbox : r.cycle = c
  \/ \E n \in SequenceNos : intents[c][n] = "blocked"

\* The instants at which a policy really attempted.
Acted(c) == {StepAt(<<c, i>>).at : i \in {i \in DOMAIN plan[c] :
               plan[c][i].type = "attempt" /\ stepStatus[c][i] \in {"dispatched", "done"}}}

Executed(c) == {n \in SequenceNos : railOutcome[c][n] # "none"}

BenchTypeOK ==
  /\ RailTypeOK
  /\ stage \in {"reset", "seed", "loop", "reported"}
  /\ batchNo \in DOMAIN Costs
  /\ toSeed \in Seq(Cycles) /\ first \in RailOutcome \cup {"none"}
  /\ \A k \in DOMAIN world : world[k] \in {"success", "failure"}
  /\ \A k \in DOMAIN chosen : chosen[k] \in Candidates[k[1][1]]

\* "Any observed difference between policies is attributable to when they chose
\* to act": two policies that attempted at the same instants for a payer got the
\* same result for it.
DifferencesAreTiming ==
  stage = "reported" => \A a, b \in Policies, p \in Payers :
    /\ Acted(<<a, p>>) = Acted(<<b, p>>)
    /\ ~Unsettled(<<a, p>>) /\ ~Unsettled(<<b, p>>)
    => PairedDiffs(a, b)[p] = 0 /\ results[<<a, p>>].attempts = results[<<b, p>>].attempts

\* The report counts what the rail did: a policy's recovered payers are those
\* the rail debited and its attempts those the rail executed, save for cases
\* whose last delivery was lost or refused.
ReportHonest ==
  stage = "reported" => \A a \in Policies :
    LET debited == {p \in Payers : "success" \in {railOutcome[<<a, p>>][n] : n \in SequenceNos}}
        lost == {p \in Payers : Unsettled(<<a, p>>)}
        executed == [p \in Payers |-> Cardinality(Executed(<<a, p>>))]
    IN  /\ Summary(a).recovered <= Cardinality(debited)
        /\ Cardinality(debited \ lost) <= Summary(a).recovered
        /\ lost = {} => Summary(a).attempts = SumFunction(executed)

\* A case still open when the batch ends "would indicate a real bug" of the
\* replay scripts: here, too, the loop leaves a case open only when its last
\* delivery was lost or refused.
EveryCaseAccounted ==
  stage = "reported" => \A c \in Cycles :
    \/ results[c].state \in TerminalStates \cup {"AWAITING_MANUAL"}
    \/ Unsettled(c)

\* However deliveries fail, a batch that began to run ends.
BatchEnds == stage = "loop" ~> stage = "reported"

==============================================================================
