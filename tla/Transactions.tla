------------------------------ MODULE Transactions ------------------------------
(***************************************************************************)
(* The writing transactions of the API (ingest.py, dashboard.py) and of    *)
(* the worker (worker.py), down to the row locks they take and in their    *)
(* order.  A transaction is a sequence of operations:                      *)
(*   lock    an INSERT or UPDATE of one contended row                      *)
(*   step    the same of a plan step, with the status it sets              *)
(*   cancel  cancel_pending_steps_for_cycle: every step of the cycle that  *)
(*           is pending, one by one, waiting where one is locked           *)
(*   audit   insert_audit                                                  *)
(* Locks are kept to the end of the transaction.  Rows that only one       *)
(* process ever writes (decisions, notifications, outbox rows, the intents *)
(* of attempts the worker reserves) cannot make anybody wait and are left  *)
(* out.  Which branch a transaction takes depends on tables that are not   *)
(* modelled here (the modules of RecoverySystem are about those): any.     *)
(***************************************************************************)
EXTENDS AuditLedger, SequencesExt

CONSTANTS
  Worker,     \* the worker process; the others serve requests
  Cycles,     \* the cycles of one mandate
  StepCount,  \* bound: steps of a plan
  Requests    \* bound: the requests made, see RequestTransactions

StepNos == 1 .. StepCount
Steps == Cycles \X StepNos
Statuses == {"absent", "pending", "dispatched", "done", "cancelled"}

ASSUME TransactionsAssumption ==
  /\ Worker \in Process
  /\ \A r \in Requests : r \in {"due", "outcome"} \X Cycles
                                \cup {<<"revoked">>, <<"opted_out">>, <<"switch">>}
  /\ StepCount \in Nat /\ IsFiniteSet(Cycles)
  /\ Cycles \cap {"cycle", "intent"} = {}  \* a step's row is no cycle's

VARIABLES
  status,    \* plan_steps.status, as committed
  fetched,   \* due steps the worker has fetched and not yet taken
  pc,        \* by process: the operations left of its transaction
  holds,     \* by process: the rows it has locked
  writes,    \* by process: the statuses its transaction has set, uncommitted
  made       \* requests made

txVars == <<status, fetched, pc, holds, writes, made>>
vars == <<txVars, auditVars>>

Lock(row) == [op |-> "lock", row |-> row]
SetStep(s, to) == [op |-> "step", row |-> s, to |-> to]
CancelPendingOf(c) == [op |-> "cancel", cycle |-> c]
Audit == [op |-> "audit"]

NoOps == <<[op |-> "end"]>>  \* no transaction open; <<>> has only to commit
Idle(p) == pc[p] = NoOps

(***************************************************************************)
(* The transactions                                                        *)
(***************************************************************************)

\* Seeded fault: a denied step gets a status the table does not know.
StepTransactionsDenied(s) ==
  {<<SetStep(s, "denied"), Audit>>, <<SetStep(s, "cancelled")>>}

\* process_due_plan_steps, for one fetched step: dispatched; denied, skipped or
\* notified; or its cycle has left SCHEDULED.
StepTransactions(s) ==
  {<<Lock(<<"cycle", s[1]>>), SetStep(s, "dispatched"), Audit>>,
   <<SetStep(s, "cancelled"), Audit>>,
   <<SetStep(s, "done"), Audit>>,
   <<SetStep(s, "cancelled")>>}

\* drain_outbox, for the row of a dispatched step: settled late, settled with
\* the case closed or waiting again; refused by the rail; not answered.
SettleTransactions(s) ==
  LET cycle == Lock(<<"cycle", s[1]>>)
  IN  {<<SetStep(s, "done"), Audit>>,
       <<SetStep(s, "done"), cycle, CancelPendingOf(s[1]), Audit>>,
       <<SetStep(s, "done"), cycle, Audit>>,
       <<SetStep(s, "cancelled"), Audit>>,
       <<Audit>>}

\* Seeded fault: the steps are cancelled before the case is closed.
AbandonStepsFirst(c) == <<CancelPendingOf(c), Lock(<<"cycle", c>>), Audit>>

\* _abandon_in_flight_cycles, for one cycle.
Abandon(c) == <<Lock(<<"cycle", c>>), CancelPendingOf(c), Audit>>

\* The operations of Abandon for every cycle of q, in the order of q.
AbandonAll(q) == [k \in 1 .. 3 * Len(q) |-> Abandon(q[(k + 2) \div 3])[1 + ((k + 2) % 3)]]

\* The cycles with an edge for the event, in the order the SELECT returns.
AbandonSome ==
  {AbandonAll(q) : q \in UNION {Injection(1 .. n, Cycles) : n \in 0 .. Cardinality(Cycles)}}

\* debit.succeeded or debit.failed, for a cycle.
OutcomeTransactions(c) ==
  LET intent == Lock(<<"intent", c>>)
      cycle == Lock(<<"cycle", c>>)
  IN  {<<Audit>>,                         \* quarantined
       <<intent, cycle, Audit>>,          \* succeeded
       <<intent, Audit, cycle, Audit>>,   \* failed for good
       <<intent, Audit, cycle>>           \* failed, and planned again
         \o [i \in StepNos |-> SetStep(<<c, i>>, "pending")] \o <<Audit>>}

RequestTransactions(r) ==
  CASE r[1] = "due" -> {<<Lock(<<"mandate">>), Lock(<<"cycle", r[2]>>)>>}
    [] r[1] = "outcome" -> OutcomeTransactions(r[2])
    [] r[1] \in {"revoked", "opted_out"} ->
         {<<Lock(<<"mandate">>)>> \o a : a \in AbandonSome}
    [] r[1] = "switch" -> {<<Lock(<<"switch">>), Audit>>}  \* set_kill_switch

(***************************************************************************)
(* Executing them                                                          *)
(***************************************************************************)

Held(row) == \E p \in Process : row \in holds[p]
HeldByOther(p, row) == \E q \in Process \ {p} : row \in holds[q]

Open(p, ops) ==
  /\ Idle(p)
  /\ pc' = [pc EXCEPT ![p] = ops]
  /\ UNCHANGED <<status, writes, auditVars>>

OpenRequest(p) ==
  \E r \in Requests \ made :
    /\ p # Worker
    /\ made' = made \cup {r}
    /\ \E ops \in RequestTransactions(r) : Open(p, ops)
    /\ UNCHANGED <<fetched, holds>>

\* FOR UPDATE SKIP LOCKED: the due steps nobody has locked, all locked at once;
\* then the first of them is taken in the same transaction.
FetchBatch ==
  /\ Idle(Worker) /\ fetched = {}
  /\ \E due \in SUBSET {s \in Steps : status[s] = "pending" /\ ~Held(s)} : \E s \in due :
       /\ \E ops \in StepTransactions(s) : Open(Worker, ops)
       /\ holds' = [holds EXCEPT ![Worker] = due]
       /\ fetched' = due \ {s}
  /\ UNCHANGED made

\* The rest of the batch: a transaction of its own each, no lock held.
NextFetchedStep ==
  \E s \in fetched :
    /\ \E ops \in StepTransactions(s) : Open(Worker, ops)
    /\ fetched' = fetched \ {s}
    /\ UNCHANGED <<holds, made>>

Settle ==
  /\ fetched = {}
  /\ \E s \in {s \in Steps : status[s] = "dispatched"} :
       \E ops \in SettleTransactions(s) : Open(Worker, ops)
  /\ UNCHANGED <<fetched, holds, made>>

\* sweep_exhausted_plans, for one cycle.
Sweep ==
  /\ fetched = {}
  /\ \E c \in Cycles :
       /\ \A i \in StepNos : status[<<c, i>>] \notin {"pending", "dispatched", "absent"}
       /\ Open(Worker, <<Lock(<<"cycle", c>>), Audit>>)
  /\ UNCHANGED <<fetched, holds, made>>

Doing(p, op) == pc[p] # <<>> /\ Head(pc[p]).op = op
Advance(p) == pc' = [pc EXCEPT ![p] = Tail(@)]

TakeLock(p) ==
  /\ Doing(p, "lock")
  /\ ~HeldByOther(p, Head(pc[p]).row)
  /\ holds' = [holds EXCEPT ![p] = @ \cup {Head(pc[p]).row}]
  /\ Advance(p)
  /\ UNCHANGED <<status, fetched, writes, made, auditVars>>

\* An UPDATE by id: whatever status the step has by now is overwritten.
UpdateStep(p) ==
  LET o == Head(pc[p])
  IN  /\ Doing(p, "step")
      /\ ~HeldByOther(p, o.row)
      /\ holds' = [holds EXCEPT ![p] = @ \cup {o.row}]
      /\ writes' = [writes EXCEPT ![p][o.row] = o.to]
      /\ Advance(p)
      /\ UNCHANGED <<status, fetched, made, auditVars>>

\* What p sees of a step: its own write, else the committed status.
Seen(p, s) == IF writes[p][s] # "absent" THEN writes[p][s] ELSE status[s]

PendingFor(p, c) == {s \in {c} \X StepNos : Seen(p, s) = "pending"}

CancelOne(p) ==
  /\ Doing(p, "cancel")
  /\ \E s \in PendingFor(p, Head(pc[p]).cycle) :
       /\ ~HeldByOther(p, s)
       /\ holds' = [holds EXCEPT ![p] = @ \cup {s}]
       /\ writes' = [writes EXCEPT ![p][s] = "cancelled"]
  /\ UNCHANGED <<status, fetched, pc, made, auditVars>>

CancelDone(p) ==
  /\ Doing(p, "cancel")
  /\ PendingFor(p, Head(pc[p]).cycle) = {}
  /\ Advance(p)
  /\ UNCHANGED <<status, fetched, holds, writes, made, auditVars>>

WriteAudit(p) ==
  /\ Doing(p, "audit")
  /\ \/ DrawId(p) /\ UNCHANGED pc
     \/ InsertAudit(p) /\ Advance(p)
  /\ UNCHANGED <<status, fetched, holds, writes, made>>

NothingWritten == [s \in Steps |-> "absent"]

EndTransaction(p) ==
  /\ pc' = [pc EXCEPT ![p] = NoOps]
  /\ holds' = [holds EXCEPT ![p] = {}]
  /\ writes' = [writes EXCEPT ![p] = NothingWritten]
  /\ UNCHANGED made

Commit(p) ==
  /\ pc[p] = <<>>
  /\ EndTransaction(p)
  /\ status' = [s \in Steps |-> Seen(p, s)]
  /\ CommitAudit(p)
  /\ UNCHANGED fetched

\* An exception, a lost connection, or the victim Postgres picks of a deadlock.
\* In the worker it ends the tick.
RollBack(p) ==
  /\ ~Idle(p)
  /\ EndTransaction(p)
  /\ RollBackAudit(p)
  /\ fetched' = IF p = Worker THEN {} ELSE fetched
  /\ UNCHANGED status

\* Bound: one row is edited, while no transaction is open.
EditRow ==
  /\ Edited = {}
  /\ \A p \in Process : Idle(p)
  /\ \E i \in CommittedIds : Edit(i)
  /\ UNCHANGED txVars

Init ==
  /\ status = [s \in Steps |-> "absent"]
  /\ fetched = {}
  /\ pc = [p \in Process |-> NoOps]
  /\ holds = [p \in Process |-> {}]
  /\ writes = [p \in Process |-> NothingWritten]
  /\ made = {}
  /\ AuditInit

Next ==
  \/ \E p \in Process :
       \/ OpenRequest(p)
       \/ TakeLock(p) \/ UpdateStep(p) \/ CancelOne(p) \/ CancelDone(p) \/ WriteAudit(p)
       \/ Commit(p) \/ RollBack(p)
  \/ FetchBatch \/ NextFetchedStep \/ Settle \/ Sweep
  \/ EditRow

Spec == Init /\ [][Next]_vars

------------------------------------------------------------------------------
(* Properties *)

TransactionsTypeOK ==
  /\ status \in [Steps -> Statuses]
  /\ fetched \subseteq Steps
  /\ \A p \in Process : Idle(p) => holds[p] = {} /\ writes[p] = NothingWritten
  /\ lastId \in 0 .. MaxId /\ drawn \in [Process -> 0 .. lastId]
  /\ \A i \in DOMAIN audit : i <= lastId /\ audit[i] \in AuditRow

\* The rows p's next operation wants and does not hold.
Wanted(p) ==
  CASE Doing(p, "lock") \/ Doing(p, "step") -> {Head(pc[p]).row} \ holds[p]
    [] Doing(p, "cancel") -> PendingFor(p, Head(pc[p]).cycle) \ holds[p]
    [] OTHER -> {}

\* p may have to wait for q, whichever row it takes next.
WaitsFor(p, q) == Wanted(p) \cap holds[q] # {}

\* The step locks the worker keeps from the fetch to its first commit.
BatchLocked == {s \in holds[Worker] \cap Steps : writes[Worker][s] = "absent"}

\* All transactions lock in one order (mandate, cycle, its steps) but the one
\* that fetched the batch: processes that all wait for one another have the worker
\* among them, with locks it still keeps of the whole batch.
DeadlocksNeedTheBatch ==
  \A waiting \in (SUBSET Process) \ {{}} :
    (\A p \in waiting : \E q \in waiting : WaitsFor(p, q))
      => Worker \in waiting /\ BatchLocked # {}

\* The chain breaks at a row nobody edited only if another transaction was writing
\* audit rows when this one was written: with one writer at a time, whatever rolls
\* back, the ledger verifies.
BrokenOnlyByOverlap == \A i \in BrokenRows \ Edited : audit[i].beside # {}

==============================================================================
