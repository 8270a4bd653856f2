# Verification of the mandate recovery engine

TLA+ models of the engine in `src/`, TLC runs on small instances, and TLAPS
proofs for every value of the constants. The engine recovers failed recurring
debits (UPI AutoPay mandates): a webhook says a first debit failed, a policy
plans notices and retries, a worker executes the plan against a payment rail,
and a case state machine, a policy gate and a reservation table keep it lawful.
Around it stand a hash-chained audit ledger, two uses of a language model, and a
benchmark that runs the engine against a simulated world.

## 1. The system

| Component | State | Operations |
|---|---|---|
| case FSM (`domain/fsm.py`) | none, a pure table | `transition`, `legal_events` |
| policy gate (`domain/policy.py`) | none | `authorize` for NOTIFY and ATTEMPT |
| repository and schema (`repo.py`, `migrations/`) | Postgres: `events`, `mandates`, `cycles`, `attempt_intents`, `plans`, `plan_steps`, `notifications`, `outbox`, `kill_switches`, `audit_ledger` | one SQL statement each |
| audit ledger (`0001_core.sql`, `repo.py`) | rows chained by hash, a sequence of ids | `insert_audit` with its trigger, `verify_audit_chain` |
| ingestion (`ingest.py`, `api/app.py`) | one transaction per webhook | `cycle.due`, `debit.failed`, `debit.succeeded`, `mandate.revoked`, `notification.opted_out` |
| worker (`workflows/worker.py`) | one process, the lists it fetched this tick | due plan steps, outbox drain, sweep |
| rail (`simulator/`, `adapters/simulator_client.py`) | attempts table keyed by (cycle, sequence) | `/execute` |
| operator (`api/dashboard.py`) | `kill_switches` | toggle; the rest is read-only |
| planner (`domain/planner.py`) | the table of values and actions, for one call | `solve`: backward induction over (slot, attempts left, notice state) |
| schedules (`policies/mre.py`, `greedy.py`, `fixed.py`) | the schedule under construction | a plan for a failed debit: notices and attempts with their instants |
| decline normaliser (`ai/normalizer.py`, `ai/client.py`) | a cache for the life of the process | `normalize`: dictionary, two typos, model, UNKNOWN |
| notices (`ai/notice.py`, `ai/validator.py`) | none; the row the worker inserts | draft, validate, repair once, static template |
| evaluation runner (`evaluation/runner.py`) | its position in the batch, the rail it started, the results | reset, seed, first attempts, tick until nothing is pending, read results, sweep |
| ML, data generator, scripts, front end | files, models, pages | offline or read-only |

API and worker share nothing but the database. Both run at READ COMMITTED with
plain SELECTs: a transaction reads, computes, and updates by primary key what it
computed, so another transaction may commit in between. What is locked: the due
plan steps a tick fetches (`FOR UPDATE SKIP LOCKED`, to the first commit of the
tick), and a row once it has been updated. What holds things together otherwise
is `UNIQUE (external_id)` on events, `UNIQUE (cycle_id, sequence_no)` on
attempts, and the outbox row written in the reservation's transaction. The
runner drives ingestion and worker in one thread of its own, with the rail in a
second one.

Hard behaviours: webhooks at least once and in any order; a revocation racing
the worker; a tick that crashes anywhere, or comes late; a request to the rail
that times out while its handler goes on; redelivery after a lost answer; a
refusal by the rail; a plan whose steps get denied; two transactions that extend
the audit chain at once; locks taken in two orders; a model that may answer
anything, or not at all, and is asked again after a restart; a rail that remembers
what the tables have forgotten. `PROJECT.json` lists them as hazards, each at its
line with the properties that would catch it.

What makes each part correct:

- engine: the ledger never opens a second attempt while one is open, nor after a
  success; the outbox, the ledger and the plan steps agree at every commit; the
  rail and the ledger agree on outcomes; nothing but an outcome left unknown can lead
  to a second debit; every queued debit was covered by a notice and a permitted hour; a closed
  case stays closed and has nothing pending; every engaged case is closed at last;
- planner and schedules: a plan is the best there is, and one the gate lets through but
  for notices that have grown too old;
- audit ledger: verification fails only for an edit or two writers that overlapped;
- locks: transactions lock in one order, so that none but the fetched batch can close a
  circle of waiting processes;
- normaliser: the taxonomy decides what it can, exactly two typos away; the model
  decides the rest within bounds; within one life of the process a
  remark is read one way;
- notices: a text by the model goes out only if it states the facts and nothing else;
- benchmark: two policies differ only by when they act; the report counts what the
  rail did; no case is forgotten; the batch ends.

## 2. The modules

| Module | Models | How |
|---|---|---|
| `CaseFSM` | `domain/fsm.py`, the case states | the edge table as a set of triples; `Transition` is only used where the code does not raise |
| `Policy` | `domain/policy.py` | the verdict as a predicate on the snapshot; time in slots |
| `RecoveryDb` | `migrations/`, the statements of `repo.py`, `_build_snapshot` | one variable per table or column group; statements as operators |
| `Ingest` | `ingest.py`, dispatch of `POST /events` | `BeginRequest` is what a transaction reads, the handler's action is its commit, `AbortRequest` its rollback |
| `Rail` | `simulator/`, `simulator_client.py` | handlers in flight; the key lookup (`RailReplay`/`RailAccept`) and the insert (`RailPersist`) are two steps, as in the code |
| `Worker` | `workflows/worker.py` | `phase` is the control state of a tick; one action per read half and per commit |
| `AttemptLedger` | abstract: what the attempt book-keeping promises | `FirstAttempt`, `Open`, `Resolve` |
| `RecoverySystem` | the composition, the operator, the clock, the properties | `SingleThreaded` chooses between the scripts' and tests' one thread and the deployment's concurrent API |
| `MCRecovery` | instances for TLC | plans, event sets |
| `Planner` | `domain/planner.py`, `policies/mre.py` | one `SolveSlot` per round of the induction, one `Walk` action per round of the walk that reads the schedule off the table |
| `Schedules` | `greedy.py`, `fixed.py`; the comparison of the three schedules and its yardsticks | `GreedyAttempt`, `GreedyStop`; itineraries and their value are defined without the table; `GateAllows` applies `Policy` to one step, `PassesGate` to all |
| `MCSchedules` | instances for TLC | probability curves |
| `AuditLedger` | the trigger `audit_ledger_chain`, `verify_audit_chain` | a row has the five columns that are hashed, a text is a sequence of parts; `DrawId` and `InsertAudit` are apart, as the column default and the trigger are; commit, rollback, an edit behind the application's back |
| `Transactions` | the writing transactions of `ingest.py`, `worker.py` and the kill-switch endpoint down to their row locks, over `AuditLedger` | a transaction is the sequence of its operations; each takes a lock, waits for one, or writes an audit row |
| `MCTransactions` | an instance for TLC | one mandate, two cycles, four requests |
| `LlmClient` | `ai/client.py` | whatever text the model may return, or `Unavailable` |
| `Normalizer` | `ai/normalizer.py` | the lookups as functions on strings; `CacheHit` and `CacheMiss` are whole calls, `Restart` empties the cache |
| `Notices` | `ai/notice.py`, `ai/validator.py`, the insert of the worker | `GenerateNotice` of two completions |
| `Language` | the two together, reference definitions, properties | strings one and two edits away are enumerated, not measured |
| `MCLanguage` | an instance for TLC | taxonomy, remarks, replies, facts |
| `Benchmark` | `evaluation/runner.py`, the world key of `simulator/app.py`, over the whole of `RecoverySystem` | the driver's stages; worker, ingestion and rail are the actions of the engine's modules |
| `MCBenchmark` | instances for TLC | policies, plans, costs |
| `RecoveryTypes`, `LedgerProofs`, `StepProofs`, `ThreadProofs` | proofs about the engine | section 5 |
| `TransactionProofs`, `LanguageProofs`, `ScheduleProofs`, `BenchmarkProofs` | proofs about the transactions, the normaliser and the notices, the schedules, the benchmark | section 5 |

State correspondence, engine: `intents[c][n]` is the `outcome` column of the
attempt with sequence number `n` (`"none"` no row, `"reserved"` NULL); `plan[c]`
the steps inserted, `stepStatus[c][i]` their status; `outbox` the rows with
`delivered_at IS NULL`; `notices[c]` the notification rows, plus `sentReally`,
the instant of the tick, which no table holds and only one property reads.
Worker locals (`batch`, `current`, `seen`, `rows`, `sending`, `sweepList`) are the
Python variables of a tick. `seen` and `readState` hold what a transaction read,
so stale reads are in the model, not assumed away.

State correspondence, the rest: `audit[i]` is the row with id `i`, `by` the process
whose transaction is still open; `holds[p]` the rows process `p` has locked, `pc[p]`
the operations its transaction has left, `writes[p]` the statuses it has set and
not committed. `cache` is `_cache`, `given` every answer a
caller ever got, with the number of the process (`life`) that gave it. A call of `normalize` is one step: `post_event` is an
`async def` that runs the handlers on the event loop, so no two calls of a process overlap.
`toSeed`, `first`, `batchNo` and `results` are locals of the runner; `world` and
`chosen` keep what the rail's draws and a policy's `compute_plan` have returned,
so that the same arguments get the same answer.

Abstractions, and why they lose nothing the properties see:

- In the engine a plan is any member of the constant `Plans`; TLC takes lawful,
  unlawful, empty and orphaned-notice ones, the proofs take any. No property of the
  engine needs the schedulers to be right; what they do promise is checked in
  `Schedules`, which composes with the engine only through `Policy`.
- The planner's floats are integers: money in units so fine, and probabilities with
  denominators so small, that every division of an instance is exact; hazard and
  action costs are summed into one per action. Time there is the hour, so that
  slots at 02:00 and 23:00 are 21 and 3 hours apart as in `slot_datetime`.
- In the engine's modules reason codes, decisions, audit rows and texts are left
  out; nothing reads them back. Quiet hours are constant `False` in the worker.
- A unique violation, a failed assertion, a deadlock victim and a lost connection
  are all `AbortRequest` or `WorkerCrash`: the transaction leaves nothing.
- The outbox back-off (30 s) and the `LIMIT`s are dropped: every undelivered row is
  fetched in every tick. A row that the code holds back for a tick is, in the model, a
  row whose delivery fails in it (`RequestError`), which leaves the same state.
- The outcome the rail draws is any of the three; a 5xx may or may not happen at
  each delivery. `/admin/reset` is not modelled.
- The audit of a revocation reads the open cycles once; the model reads all
  cycles of the mandate and skips terminal ones, which is the same set.
- Time is a bounded counter of slots, two or more to a day.
- A SHA-256 hash is the sequence of the texts it covers, equal exactly when what was
  hashed is equal: no collisions. What is hashed of a row is what the code hashes, its
  columns put together without separators and a NULL as nothing (`HashInput`), so two
  different rows may have one text (section 4). The hash of the row before has a fixed length and
  comes first, so it is kept apart. `beside` of an audit row records who else was writing, for the
  properties; nothing branches on it.
- `Transactions` knows locks and statuses and not why a transaction takes a branch,
  so each takes any branch of its handler at any time. That is more than the code
  does; what is shown absent there is absent in the code. Rows only one process
  ever writes are left out, nobody can wait for them. The kill-switch transaction's
  one lock is on a row no other transaction writes, so it closes no circle; the theorems
  include it, the run leaves it out (it would double the states). `FOR UPDATE SKIP LOCKED`
  takes all free due steps at once.
- A remark is a sequence over a small alphabet, because edit distance is what the
  normaliser is about; a notice text is the facts it states, its number tokens, two
  markers and its length, because that is what the validator looks at. A reply of
  the model that does not parse ends where an unavailable model does.
- A probability of the rail is nowhere computed: a draw is any outcome, and the same
  one for the same world key. A policy of the benchmark computes any plan of a set,
  and the same one for the same arguments.

## 3. The runs

The instances of the engine come from `MCRecovery`: two slots a day (the first
non-peak), a notice one to two days old, at most three attempts. Bounds: `Horizon`
(last instant), `MaxSteps` (longest plan), `ApiConcurrency` (requests open at
once), `OperatorScopes` (switches used), `Webhooks` (the events that may be
delivered, each any number of times until recorded).

| Run | Question | Distinct states |
|---|---|---|
| `Live` | Does the attempt book-keeping hold, and implement `AttemptLedger`, with two API processes, worker, rail and crashes interleaved freely, contradictory first outcomes, and a plan one of whose slots the rail refuses? Can a second debit follow anything but an unknown outcome, and is nothing pending after closing? | 919,036 |
| `Replay` | One thread, two cycles of one mandate, one of them over the AFA threshold: do the FSM's promises hold there (a closed case stays closed; reservations only on open, live cases)? | 436,014 |
| `Liveness` | Six kinds of plan, a kill switch, a contact cap: is what gets queued covered, is a notice put on record once, and does every engaged case close once faults cease, unless the rail refused one of its attempts? | 379,650 |
| `Planner` | Does the induction find the best itinerary of its decision problem, for every curve of probabilities, and does the gate let every step of the schedules through, but for an attempt whose notice is too old? | 42,434 |
| `Language` | Does the taxonomy decide with exactly two typos, do the model's answers and texts get out only within bounds, and when is a remark read in two ways? | 5,282 |
| `Benchmark` | Does a paired batch report what the rail did, with differences from timing alone and no case forgotten, and does it end? | 152,095 |
| `Transactions` | Over what can the transactions deadlock, and when does the audit chain of untouched rows break? | 1,419,855 |

Why the bounds are enough: two attempts after the first reach retry, exhaustion
and a gap in the numbers; two cycles are the least that share a mandate; two
requests in flight are the least that race; a horizon past the last planned
instant lets every step come due and be late. In `Liveness` a notice is too old
after three slots and one attempt is planned four slots after its notice.

`Planner` takes eight slots, two attempts and every function from the five slots
the planner can attempt in to {0, 1/2, 1}, with three settings of the values: a
retry that is barely worth it, one that is, and escalation that loses its value
late or not at all. The gate's greatest age of a notice is scaled with the horizon: two
days of four, where the code has seven of fourteen, so that some walk lets a notice
expire and `MrePlanSound` has its exception to make. Eight slots are the least in which two attempts with a notice
each fit and leave a choice of slots. `SolveIsOptimal` compares the root with every
itinerary. All settings have `manualLate <= manual`, as the live caller has
(30 and 150): if waiting made escalation more valuable, idling to the end would be
right, and `EmptyPlanEscalates` would not be expected. `GreedyAhead` uses the live
caller's parameters (28 slots, three attempts left, its costs and values, an amount
of 1,000) and curves with a single good slot.

`Language` takes the taxonomy's short codes that lie close together (Z9, ZM, 99,
all within two edits of one another, so that order in the file matters), every
remark of up to two characters and some longer ones at distances one to four, with
spaces and small letters; at most two different remarks are asked about, each any number of
times, before and after a restart. The model's
replies cover every reason `_parse_and_validate` has to refuse one. The facts of
a notice include a merchant id with a digit, an alarming and an empty reason, and
a reference that makes the template too long; a draft may omit, invent, lack the
opt-out, alarm and be too long, in any combination, on both tries.

`Benchmark` runs three policies on one payer: `fixed` with its one plan, `mre` with a
plan or none, `oracle` with one of two. Two policies are the least to be compared,
three the least in which one is alone at an instant. A payer's draws do not depend
on other payers, so one is enough. `SweepReplay` has two policies, and two costs.

`Transactions` has two API processes and the worker, two cycles of one mandate with
two steps each, one request of each kind and three audit rows: two cycles are the
least that can be locked in two orders, two steps the least with one taken and one
still locked, three rows the least in which a fork is followed by a row. The
processes of the API are interchangeable and declared symmetric; the run checks
invariants only, for which that is sound.

Every property of these runs has a seeded fault (the operators commented *Seeded
fault*, listed under `mutants`) that breaks it.

The runs of the engine and of `Language` check for deadlock: a tick, or a call, can
always be started. `Planner`, `GreedyAhead`, `Benchmark` and `SweepReplay` do not:
an algorithm or a batch that has returned is done. Nor does `Transactions`, where
requests and audit ids run out; waiting is what its properties are about.

## 4. What the code does not keep

Five runs show a statement of the repository violated by what the code does.

| Run | Statement | Counterexample |
|---|---|---|
| `Reopened` | no exit from a terminal state (`domain/fsm.py:33`, `workflows/worker.py:452`) | the worker reads SCHEDULED and allows the attempt (`worker.py:233-267`), a revocation commits ABANDONED, the worker writes EXECUTING (`worker.py:270`); a settlement does the same at `worker.py:456` |
| `LateNotice` | notice at least 24 h ahead, re-verified at execution (`README.md:176`) | a late tick records the notice with its planned time, then dispatches the debit it covers |
| `StuckCase` | a case whose plan has run out is resolved (`worker.py:85`, `repo.py:254`) | after a refusal the case stays EXECUTING, which nothing sweeps |
| `GreedyAhead` | solves exactly, maximises expected recovered value (`README.md:49`); the notice state counts the slots until the notice is valid (`domain/planner.py:8`) | with the good slot at 2, `greedy` notifies in slot 0 and attempts there; `advance_notice` makes a notice sent in slot 0 usable in slot 3, and `mre` escalates at once |
| `SweepReplay` | two policies that attempt on the same day see the identical draw (`evaluation/runner.py:13`) | the rail keeps its ledger across the batches of a sweep, whose keys repeat: a policy whose plan changed with the cost is told what an attempt with the same number drew at another instant |

`Reopened` needs the API to serve while the worker runs; the other runs of the
engine also violate in one thread. A late tick also makes a debit run outside the
permitted hours, for the reason `LateNotice` shows: gate and rail both look at the
planned time.

Read off the code while modelling it, and in the models, but not the subject of a run:

- An `unknown` outcome is treated as a failure, and the next planned attempt is made
  (`worker.py:498`); nothing polls the rail. `simulator/chaos.py:8-10` says of it "Never
  retry the debit. Mark outcome=unknown, reconcile by polling", and `simulator/app.py:157`
  the same. This is the one way to a second debit: `SecondDebitOnlyAfterUnknown`
  counts an unknown outcome, on record or with the rail, as a debit that may have been made.
- The audit hash is taken over the columns put together without separators, a NULL
  as nothing, in the trigger (`0001_core.sql:140-147`) and in `verify_audit_chain`
  (`repo.py:553-554`) alike. An edit that turns a NULL `cycle_id` into `''`, or moves the
  end of the actor there, changes no hash and is not reported, although the comment at
  `0001_core.sql:133-134` says that any edit breaks every hash after it. An edit that does change
  the text is reported by the form of the hash, which no run needs to show.
- A row queued before a revocation is delivered after it (`worker.py:341`), although
  the gate "re-verifies every single time" (`README.md:176`).
- The planner may send a notice more than seven days before its attempt
  (`planner.py:102`: a ready notice stays ready); the gate denies that attempt and
  nothing re-solves. `planner.py:12-18` says that no expiry is modelled and leaves it
  to the gate; `MrePlanSound` says that it is the only reason the gate can have.
- "A static, always-valid template" (`ai/notice.py:5`) is not always valid: the
  worker passes the merchant's id as its name, and a digit in it that is in no
  other fact is not in the whitelist. The row is inserted with its errors
  (`worker.py:189-216`). `InvalidOnlyFromFacts` says that nothing else is.
- Two transactions that write audit rows at once may chain to the same row, and
  the verification then reports a break nobody made, where the audit page says
  only tampering can break the chain (`frontend/audit.html`). `BrokenOnlyByOverlap`
  says that nothing else does.
- UNKNOWN after an outage of the model is cached like any answer, for the life
  of the process (`normalizer.py:152`).
- A tick and an abandonment lock the batch's steps and their cycle in opposite
  orders; Postgres ends the wait by rolling one of them back.
  `DeadlocksNeedTheBatch` says that this is the only circle.
- A `cycle.due` for a later cycle makes a revoked mandate active again
  (`repo.py:96`); a revocation that arrives before its mandate is registered is lost.
- A rail handler that outlives its client's timeout makes its own retry lose with
  409, which is recorded as blocked although the debit was executed
  (`simulator/app.py:180`); `RailAgreesWithLedger` therefore speaks of settled
  attempts, and the properties of the benchmark of settled cases.
- A delivery that times out on the last tick of a batch is never taken up
  (`runner.py:412`): its case stays EXECUTING and counts as not recovered.
  `kill_switches` is not among the tables a batch resets (`runner.py:126`).

## 5. What is proved

Every invariant and every action property that a passing run checks is also a
theorem, and so is the refinement: TLAPS proves them for any cycles, mandates,
plans, webhooks, caps, windows and horizon, any number of transactions and audit
rows, any alphabet, taxonomy, remarks, replies and facts, any number of slots, costs
and curves, any policies and payers.

| Module | Theorem | States |
|---|---|---|
| `RecoveryTypes` | `TypeCorrect` | `Spec => []TypeOK` |
| `LedgerProofs` | `AttemptsInOrderHolds` | `Spec => []AttemptsInOrder` |
| | `ImplementsLedger` | `Spec => LedgerSpec`, the refinement of `AttemptLedger` |
| | `RailAgrees` | `Spec => []RailAgreesWithLedger` |
| | `SecondDebitExplained` | `Spec => []SecondDebitOnlyAfterUnknown` |
| `StepProofs` | `OutboxMatches` | `Spec => []OutboxMatchesLedger` |
| | `QueuedDebitsCovered` | `Spec => []DispatchCovered` |
| | `ClosedIsClosed` | `Spec => []ClosedCaseHasNoPendingSteps` |
| | `BudgetHonest` | `Spec => []BudgetColumnHonest` |
| | `NoticeOnce` | `Spec => []NoticeSentOnce`, if no plan announces one debit twice at one time |
| `ThreadProofs` | `DeadMandatesIdle` | `Spec => []NoExecutionOnDeadMandate`, with one thread |
| | `ClosedStaysClosed` | `Spec => TerminalIsFinal`, with one thread |
| | `ReservationsPermitted` | `Spec => ReservesOnlyOpenCases`, with one thread |
| `TransactionProofs` | `ChainBreaksByOverlapOnly` | `Spec => []BrokenOnlyByOverlap` |
| | `TransactionsTyped` | `Spec => []TransactionsTypeOK` |
| | `DeadlocksOfTheBatchOnly` | `Spec => []DeadlocksNeedTheBatch` |
| `LanguageProofs` | `LlmTextsCompliant` | `Spec => []LlmTextCompliant` |
| | `InvalidFromFacts` | `Spec => []InvalidOnlyFromFacts` |
| | `LlmAnswersBoundedHolds` | `Spec => []LlmAnswersBounded` |
| | `ReadTwoWaysOnlyByModelHolds` | `Spec => []ReadTwoWaysOnlyByModel` |
| | `LanguageTyped` | `Spec => []LanguageTypeOK` |
| | `TyposTolerated` | `Spec => []TypoToleranceExact` |
| `ScheduleProofs` | `PlanTyped` | `Spec => []PlanTypeOK` |
| | `MrePlansSound` | `Spec => []MrePlanSound` |
| | `EmptyPlansEscalate` | `Spec => []EmptyPlanEscalates` |
| | `BaselinesPass` | `Spec => []BaselinesPassGate` |
| | `SolveIsExact` | `Spec => []SolveIsOptimal`, with a stop epsilon of 0 |
| `BenchmarkProofs` | `BenchTypeCorrect` | `BenchSpec => []BenchTypeOK` |
| | `EveryCaseIsAccounted` | `BenchSpec => []EveryCaseAccounted` |
| | `ReportIsHonest` | `BenchSpec => []ReportHonest` |
| | `DifferencesAreInTiming` | `BenchSpec => []DifferencesAreTiming` |

### What is assumed

Most of the assumptions on constants only give their types. Those that say more:

- `SchedulesAssumption`: time goes by the hour; 02:00 and 23:00, the hours the
  planner's two slots of a day stand for (02:00 is the fixed schedule's too), are
  permitted; a notice sent the planner's lead ahead, or 24 hours ahead, is neither too fresh nor too old;
  there is budget for the fixed schedule's attempts, and two contacts a day are allowed;
  and escalating late is worth no more than escalating now, as both callers have it
  (30 and 150 in `policies/live.py`, the same ratio in `evaluation/runner.py`).
- `SolveIsExact` has `StopEpsilon = 0` as a hypothesis, the default of `PlannerConfig`
  which no caller changes. With a positive epsilon the code gives up value on purpose.
- `PlannerAssumption`: probabilities and costs are numbers (over a common denominator),
  and there is at least one slot and a lead of at least one, which
  `PlannerConfig.__post_init__` checks.
- `ThreadProofs` assumes `OneThread`: `SingleThreaded`, and one request at a time.
- `BenchmarkAssumption`: the batch runs in one thread; there is at least one cost and
  policies and payers are finite; payers fall due at a permitted hour; and no policy
  computes a plan that is empty without being marked to escalate. For `mre` and the
  oracle that last one is `EmptyPlansEscalate`; `greedy.py` marks the only plan it
  returns without steps, its horizon being longer than the notice lead; the fixed
  schedule is never empty.
- `NoticeOnce` assumes `DistinctNotices`, which the planner's own schedules satisfy:
  their attempts lie at different instants.

### The engine

Few of the properties are inductive by themselves. The argument, bottom up:

1. `RecoveryTypes`: `TypeInv` adds to `TypeOK` that every reference to a plan step
   is to one that was inserted and will not change (`StepsPlanned`: a plan is
   written once, because only a case without a first attempt is planned), and that
   at most one rail handler is awaited and only an answer is settled
   (`Conversation`).
2. `LedgerProofs`, first part: `LedgerInv` relates four places. A SCHEDULED case has
   only attempts that failed or ended unknown (`SettledWhenScheduled`); the worker's
   verdict on such a case stays true until it is used (`VerdictCurrent`), although
   no lock is held, because the only other writer, a first outcome, needs a case
   without attempts; and undelivered rows are the attempts in flight
   (`RowsReserved`). With `CountIsLast` (no gaps, so the count is the last number
   used) the reservation of number `count + 1` is `Open` of the abstract ledger.
   The refinement then gives monotonicity (`LedgerGrows`), used below.
3. `LedgerProofs`, second part: the answer a client has is the rail's record
   (`AnswerIsRecorded`), because only the handler of the row being sent is awaited and
   the rail never changes a record; only reserved attempts reach the rail
   (`HandlersReserved`). Then a success, on record or with the rail, excludes any later
   attempt, and of two attempts that may both have debited the payer
   (`MayHaveDebited`: success or unknown, on record or with the rail) the earlier is
   settled, by `AttemptsInOrder`, and not a success: it is on record as unknown
   (`SecondDebitOnlyAfterUnknown`). That needs besides that the engine never sends a
   first attempt (`FirstElsewhere`), which is kept apart from `RailInv` because the
   benchmark's driver does send them.
4. `StepProofs`, first part: a step in the batch can only have been cancelled since
   (`BatchTaken`), so its row's step is nobody else's; a positive verdict is not
   undone (`VerdictCovers`: notices are only added); a case beyond DUE has its first
   attempt on record, so no request plans it again (`ClosingInv`), which is why even
   a stale closing leaves nothing pending.
5. `StepProofs`, second part: `attempts_used` is written on settlement from a count
   read in the same transaction, while the only attempt not settled is the one being
   settled, so `BudgetColumnHonest` is inductive beside `TypeInv` and `LedgerInv`. Every
   notice on record belongs to a step that is done (`NoticesDone`), and a step that
   is done stays done (`DoneStays`); so the step that writes a notice has none yet.
6. `ThreadProofs`: a request is open only between ticks (`OneAtATime`), so what a
   transaction has read is still so when it writes (`ReadsCurrent`), and a positive
   verdict still stands (`VerdictOpen`). `Reopened` shows that one thread is needed.

### The transactions

The audit chain (`AuditInv`): ids in hand are larger than the holder's rows and
nobody's row yet (`IdsFresh`); a row written while nobody else had a row open or an
id in hand follows the row it was chained to, and stays so through every commit and
rollback (`Chained`, `InPlace`). Hence its recomputed hash is its stored one.
Edits are in
the model, and excepted: the statement is about rows nobody touched.

The row locks (`LockInv`): a row has one holder (`Exclusive`), and what a transaction
still wants comes after what it holds, in the order mandate, cycle, step (`Ordered`);
only the batch the worker fetched is outside that order, since it holds steps and
then wants their cycles (`WorkerSteps`). Take
transactions that all wait for one another, with no batch among them. One that
holds a cycle waits for another's cycle, and both do so under the mandate's lock,
which only one can hold; so none holds a cycle, hence none a step, and there is
nothing to wait for. That no step is
planned twice or written after its dispatch (`OnePlan`) is what types the writes.

### The language model

Notices come from case analysis on the two completions, with the validator's errors
on the one that is used. For the answers, one invariant (`ReadingInv`): whatever is in the
cache or was ever given is a result `_normalize_uncached` may return for its key, and
whatever was given in the present life of the process is still in the cache. So two
readings of one request in one life are the same entry; and a result that is neither
the model's nor UNKNOWN is a function of the normalised text (`SpellingsAgree`).

`TyposTolerated` is about the edit distance. `IndelRow` is the code's table, row by
row; the reference definition enumerates texts one and two edits away. One way, a cell
is at most the cost of any alignment of its prefixes (`RowsFollow`, `OneEditNear`,
`TwoEditsNear`), so a text two edits away is within the cutoff. The other way, a cell of
at most two comes from a cell as small, so its prefixes are that many edits
apart (`StartsWithin`). Induction being out of reach, both take the least row at
which they would fail and derive that an earlier one fails.

### The schedules

`TableInv`: every solved entry is the worth of the action beside it, that action is
one the state admits, and waiting or sending a notice is chosen only for strictly
more than escalating is worth. `WalkInv` stands on it: a walk that owes an attempt
to a notice, or has no step yet, stands where going on is worth more than `manual`,
and at the deadline nothing is worth more than `manualLate`; so it neither stops nor
runs out there, and every notice gets its attempt, every empty plan its escalation.
The countdown of the notice state never runs ahead of the notice's age, so the
attempt it admits is late enough; two slots to a day keep its notices within the contact
cap (`NoticePassesGate`), and its attempts are no more than are left
(`AttemptPassesGate`). `BaselinesPass` is about schedules made of pairs: in
one with notices early enough, attempts in order and no more than the budget, the
gate allows each step on the records the steps before it leave.

`SolveIsExact` goes twice from the deadline back: each entry bounds what any itinerary
from its slot is worth, and the actions beside the entries make an itinerary worth as
much. Both take the latest slot that would fail.

### The benchmark

The driver is a client of the engine. Each step of `BenchNext` is a step of the engine,
or moves the clock, or empties tables that are empty, or writes a first attempt at
the rail; so the engine's invariants (`EngineInv`) hold under it, except that it sends
first attempts itself. Beside them are inductive, together: where the driver is while
others move (`DriverInv`); that first attempts were answered as drawn and the cases were
told so (`DrawsInv`); what a seeded case waits for (`CasesInv`); that the n-th attempt
of a case is the one of the n-th instant at which its policy acted (`TimedInv`); and
that nobody acts at an instant before those already acted at (`DueInOrder`).

The draws are keyed by instant and number, so two policies are told the same only if
equal instants have equal numbers. `TimedInv` makes the number a count of instants, which
`ActedLater` and `NthIsOne` keep a count under every later action; that holds because
`DueInOrder` does, and `DueInOrder` because the clock jumps to the earliest pending step
and not beyond. `ReportHonest` then counts, per policy, what the rail did for the
settled cases.

### What stays with TLC

- Liveness, `EveryUnrefusedCaseCloses` and `BatchEnds`: fairness and `ENABLED` are out
  of the prover's reach.
- The sweep, `SweepSpec`: what the theorems say is of one batch, and `SweepReplay` shows
  that `DifferencesAreTiming` fails in the next. `BenchmarkAssumption` leaves the
  number of costs open.
- That an invariant is not vacuous: the mutants and the runs' coverage show it.

No module has a `RECURSIVE` operator. Recursive functions (`IndelRow`, the values of
itineraries, the sums of the report) are unfolded one step at a time, and a least
counterexample takes the place of the induction the prover cannot instantiate.

## 6. Fairness

`FairSpec` assumes weak fairness of `StartTick` (the caller ticks the worker in a
loop), of the worker's own steps (a tick runs to its end), of the rail's steps (a
handler that has a request answers it) and of the clock. Nothing is assumed of
webhooks, requests or operators. Crashes, request errors and 5xx answers may go
on for ever, so the liveness property is conditional on `FaultsCease`; without it
no case need ever close, and the code has no bound on retries.

`FairBenchSpec` assumes weak fairness of the batch's next step as a whole: one
thread that goes on while it can, and a rail whose answer or the client's timeout
ends every wait. No fault is assumed to cease: the batch ends because each round
takes at least one step out of `pending`, whatever becomes of its delivery. A crash ends the
script and is not modelled there.

## 7. Not modelled, and what is left

Left, in the order in which it is worth doing:

1. Action properties of the parts that have only invariants: what a commit of
   `Transactions` may do to a status another transaction has read, what a walk may
   do to a plan it has begun.
2. A refinement of `Benchmark` against the batch its documentation describes, in which
   every draw is made before any policy acts.
3. Event payloads whose ids disagree (`ingest.py:297`), which `RecoverySystem` ties
   together by a constant.

Not planned:

- ML training and inference, the data generator and the probabilities of
  `simulator/decline.py`: floating point, no state shared with the workflow. The
  curves the planner gets and the draws of the rail are arbitrary instead.
- The runner's bootstrap intervals and report files.
- `scripts/replay_compare.py`, `replay_fixed.py` and `demo_seed.py` repeat the
  runner's loop; `demo_seed.py` adds a cut-off after 21 days and a notice it cancels
  by hand. The other scripts are one-off tools.
- Signature and payload validation of `POST /events`, which reject a request before
  it touches state; the read-only listings and metrics; the front end.
