--------------------------- MODULE TransactionProofs ---------------------------
(***************************************************************************)
(* Transactions, for every value of the constants: first its audit chain,  *)
(* then its row locks.                                                     *)
(***************************************************************************)
EXTENDS Transactions, TLAPS, FiniteSetTheorems, WellFoundedInduction

------------------------------------------------------------------------------
(***************************************************************************)
(* The audit chain: what verify_audit_chain reports is an edit or a row    *)
(* written beside another transaction's.                                   *)
(*                                                                         *)
(* The trigger chains a row to the last one its transaction sees.  Written *)
(* with nobody beside it, that is the last row there is; and it remains    *)
(* the one before it, because ids drawn later are larger and the rows      *)
(* before it can only vanish together with it.                             *)
(***************************************************************************)

AuditTypes ==
  /\ lastId \in 0 .. MaxId
  /\ DOMAIN audit \subseteq 1 .. lastId
  /\ \A i \in DOMAIN audit : audit[i] \in AuditRow
  /\ drawn \in [Process -> 0 .. lastId]

\* An id drawn is nobody else's, and larger than those of the transaction's rows.
IdsFresh ==
  /\ \A p \in Process : drawn[p] \notin DOMAIN audit
  /\ \A p, q \in Process : drawn[p] = drawn[q] /\ drawn[p] # 0 => p = q
  /\ \A p \in Process, i \in DOMAIN audit :
       audit[i].by = p /\ drawn[p] # 0 => i < drawn[p]

Before(i) == {j \in DOMAIN audit : j < i}

\* Row i follows the row it was chained to, now and after any commit or rollback.
InPlace(i) ==
  /\ \A j \in Before(i) : audit[j].by \in {"committed", audit[i].by}
  /\ \A q \in Process : drawn[q] = 0 \/ drawn[q] > i
  /\ audit[i].prev = LastHash(Before(i))

Chained ==
  \A i \in DOMAIN audit :
    /\ audit[i].hash = Append(audit[i].prev, HashInput(Written[i]))
    /\ audit[i].beside = {} => InPlace(i)

AuditInv == AuditTypes /\ IdsFresh /\ Chained

------------------------------------------------------------------------------
(* Least and largest elements *)

LEMMA LeastOf ==
  ASSUME NEW T \in SUBSET Nat, T # {}
  PROVE  \E x \in T : \A y \in T : x <= y
<1> DEFINE Less == {p \in Nat \X Nat : p[1] < p[2]}
<1>1. IsWellFoundedOn(Less, Nat)
  BY NatLessThanWellFounded DEF OpToRel
<1>2. \A x, y \in Nat : y < x => <<y, x>> \in Less
  OBVIOUS
<1> HIDE DEF Less
<1>3. PICK x \in T : \A y \in T : <<y, x>> \notin Less
  BY <1>1, WFMin
<1>4. ASSUME NEW y \in T PROVE x <= y
  <2>1. x \in Nat /\ y \in Nat /\ <<y, x>> \notin Less
    BY <1>3
  <2>2. ~(y < x)
    BY <1>2, <2>1
  <2> QED  BY <2>1, <2>2
<1> QED  BY <1>4

LEMMA MaxOf ==
  ASSUME NEW n \in Nat, NEW T \in SUBSET (1 .. n), T # {}
  PROVE  Max(T) \in T /\ \A y \in T : Max(T) >= y
<1> DEFINE U == {n - j : j \in T}
<1>1. U \in SUBSET Nat /\ U # {}
  <2>1. \A j \in T : n - j \in Nat
    OBVIOUS
  <2> QED  BY <2>1
<1>2. PICK u \in U : \A v \in U : u <= v
  BY <1>1, LeastOf
<1>3. PICK x \in T : u = n - x
  OBVIOUS
<1>4. ASSUME NEW y \in T PROVE x >= y
  <2>1. n - x <= n - y
    BY <1>2, <1>3
  <2> QED  BY <2>1
<1>5. \E z \in T : \A y \in T : z >= y
  BY <1>4
<1> QED  BY <1>5 DEF Max

\* What a set of rows hashes to depends on the hashes of its rows alone.
LEMMA HashKept ==
  ASSUME AuditTypes, NEW ids \in SUBSET DOMAIN audit,
         \A i \in ids : audit'[i].hash = audit[i].hash
  PROVE  LastHash(ids)' = LastHash(ids)
<1>1. CASE ids = {}
  BY <1>1 DEF LastHash
<1>2. CASE ids # {}
  <2>1. ids \in SUBSET (1 .. lastId) /\ lastId \in Nat
    BY AuditAssumption DEF AuditTypes
  <2>2. Max(ids) \in ids
    BY <1>2, <2>1, MaxOf
  <2> QED  BY <1>2, <2>2 DEF LastHash
<1> QED  BY <1>1, <1>2

LEMMA BeforeHashKept ==
  ASSUME AuditTypes, NEW i \in DOMAIN audit,
         Before(i)' = Before(i),
         \A j \in Before(i) : audit'[j].hash = audit[j].hash
  PROVE  LastHash(Before(i))' = LastHash(Before(i))
<1>1. PICK ids \in SUBSET DOMAIN audit : ids = Before(i)
  BY DEF Before
<1>2. LastHash(ids)' = LastHash(ids)
  BY <1>1, HashKept
<1> QED  BY <1>1, <1>2 DEF LastHash

LEMMA HashType ==
  ASSUME AuditTypes, NEW ids \in SUBSET DOMAIN audit
  PROVE  LastHash(ids) \in Hashes
<1>1. CASE ids = {}
  BY <1>1 DEF LastHash, Hashes
<1>2. CASE ids # {}
  <2>1. ids \in SUBSET (1 .. lastId) /\ lastId \in Nat
    BY AuditAssumption DEF AuditTypes
  <2>2. Max(ids) \in DOMAIN audit
    BY <1>2, <2>1, MaxOf
  <2>3. audit[Max(ids)].hash \in Hashes
    BY <2>2 DEF AuditTypes, AuditRow
  <2> QED  BY <1>2, <2>3 DEF LastHash
<1> QED  BY <1>1, <1>2

------------------------------------------------------------------------------
(* The invariant *)

LEMMA AuditInitial == AuditInit => AuditInv
<1> SUFFICES ASSUME AuditInit PROVE AuditInv
  OBVIOUS
<1>1. DOMAIN audit = {}
  BY DEF AuditInit
<1> QED
  BY <1>1, AuditAssumption DEF AuditInit, AuditInv, AuditTypes, IdsFresh, Chained

LEMMA DrawIdKeeps ==
  ASSUME AuditInv, NEW p \in Process, DrawId(p)
  PROVE  AuditInv'
<1> USE DEF AuditInv
<1>1. /\ lastId \in Nat /\ lastId' = lastId + 1 /\ lastId' \in 0 .. MaxId
      /\ audit' = audit
      /\ drawn' = [drawn EXCEPT ![p] = lastId']
      /\ DOMAIN audit \subseteq 1 .. lastId /\ drawn \in [Process -> 0 .. lastId]
  BY AuditAssumption DEF DrawId, AuditTypes
<1>2. AuditTypes'
  BY <1>1 DEF AuditTypes
<1>3. IdsFresh'
  BY <1>1 DEF IdsFresh
<1>4. ASSUME NEW i \in DOMAIN audit, audit[i].beside = {}
      PROVE  InPlace(i)'
  <2>1. InPlace(i) /\ i \in 1 .. lastId
    BY <1>1, <1>4 DEF Chained
  <2>2. \A q \in Process : drawn'[q] = 0 \/ drawn'[q] > i
    BY <1>1, <2>1 DEF InPlace
  <2>3. Before(i)' = Before(i) /\ LastHash(Before(i))' = LastHash(Before(i))
    BY <1>1 DEF Before, LastHash
  <2> QED  BY <1>1, <2>1, <2>2, <2>3 DEF InPlace
<1>5. Chained'
  BY <1>1, <1>4 DEF Chained
<1> QED  BY <1>2, <1>3, <1>5

LEMMA InsertAuditKeeps ==
  ASSUME AuditInv, NEW p \in Process, InsertAudit(p)
  PROVE  AuditInv'
<1> USE DEF AuditInv
<1>0. PICK d : d = drawn[p]
  OBVIOUS
<1> DEFINE row == [by |-> p, content |-> Written[d], prev |-> PrevFor(p),
                   hash |-> Append(PrevFor(p), HashInput(Written[d])),
                   beside |-> Beside(p) \ {p}]
<1>1. /\ d \in 1 .. lastId /\ lastId \in 0 .. MaxId /\ lastId \in Nat
      /\ d \notin DOMAIN audit /\ 0 \notin DOMAIN audit
      /\ lastId' = lastId
      /\ drawn' = [drawn EXCEPT ![p] = 0]
      /\ DOMAIN audit \subseteq 1 .. lastId /\ drawn \in [Process -> 0 .. lastId]
  BY <1>0, AuditAssumption DEF InsertAudit, AuditTypes, IdsFresh
<1>2. /\ DOMAIN audit' = DOMAIN audit \cup {d}
      /\ \A i \in DOMAIN audit : audit'[i] = audit[i]
      /\ audit'[d] = row
  BY <1>0, <1>1 DEF InsertAudit
<1>3. PrevFor(p) \in Hashes
  BY HashType DEF PrevFor, CommittedIds, OpenFor
<1>4. AuditTypes'
  <2>1. /\ Written[d] \in Contents
        /\ Append(PrevFor(p), HashInput(Written[d])) \in Hashes
    BY <1>1, <1>3, AuditAssumption DEF Hashes
  <2>2. Beside(p) \ {p} \in SUBSET (Process \cup {"committed"})
    BY DEF Beside, AuditTypes, AuditRow
  <2>3. row \in AuditRow
    BY <1>3, <2>1, <2>2 DEF AuditRow
  <2>4. \A i \in DOMAIN audit' : audit'[i] \in AuditRow
    BY <1>2, <2>3 DEF AuditTypes
  <2>5. drawn' \in [Process -> 0 .. lastId]
    BY <1>1
  <2> QED  BY <1>1, <1>2, <2>4, <2>5 DEF AuditTypes
<1>5. IdsFresh'
  BY <1>0, <1>1, <1>2 DEF IdsFresh
<1>6. Chained'
  <2>1. ASSUME NEW i \in DOMAIN audit, audit[i].beside = {}
        PROVE  InPlace(i)'
    <3>1. InPlace(i) /\ i < d
      BY <1>0, <1>1, <2>1 DEF Chained, InPlace
    <3>2. Before(i)' = Before(i)
      BY <1>1, <1>2, <3>1 DEF Before
    <3>3. LastHash(Before(i))' = LastHash(Before(i))
      BY <1>2, <3>2, BeforeHashKept DEF Before
    <3>4. \A q \in Process : drawn'[q] = 0 \/ drawn'[q] > i
      BY <1>1, <3>1 DEF InPlace
    <3>5. \A j \in Before(i) : audit'[j].by \in {"committed", audit[i].by}
      BY <1>2, <3>1 DEF InPlace, Before
    <3> QED  BY <1>2, <3>1, <3>2, <3>3, <3>4, <3>5 DEF InPlace
  <2>2. ASSUME row.beside = {}
        PROVE  InPlace(d)'
    <3>1. \A q \in Process \ {p} : drawn[q] = 0
      BY <2>2 DEF Beside
    <3>2. \A j \in DOMAIN audit : audit[j].by \in {"committed", p} /\ j < d
      <4> TAKE j \in DOMAIN audit
      <4>1. audit[j].by # "committed" \/ j > d => audit[j].by = p
        BY <1>0, <2>2 DEF Beside
      <4>2. audit[j].by = p => j < d
        BY <1>0, <1>1 DEF IdsFresh
      <4>3. j # d /\ j \in Nat /\ d \in Nat
        BY <1>1
      <4>4. "committed" # p
        BY AuditAssumption
      <4> QED  BY <4>1, <4>2, <4>3, <4>4
    <3>3. Before(d)' = DOMAIN audit
      <4>1. ~(d < d)
        BY <1>1
      <4> QED  BY <1>2, <3>2, <4>1 DEF Before
    <3>4. CommittedIds \cup OpenFor(p) = DOMAIN audit
      BY <3>2 DEF CommittedIds, OpenFor
    <3>5. PICK ids \in SUBSET DOMAIN audit : ids = DOMAIN audit
      OBVIOUS
    <3>6. LastHash(Before(d))' = PrevFor(p)
      <4>1. LastHash(ids)' = LastHash(ids)
        BY <1>2, <3>5, HashKept
      <4>2. LastHash(Before(d))' = LastHash(ids)'
        BY <3>3, <3>5 DEF LastHash
      <4> QED  BY <3>4, <3>5, <4>1, <4>2 DEF PrevFor
    <3>7. \A q \in Process : drawn'[q] = 0
      BY <1>1, <3>1
    <3> QED  BY <1>2, <3>2, <3>3, <3>6, <3>7 DEF InPlace
  <2>3. ASSUME NEW i \in DOMAIN audit'
        PROVE  /\ audit'[i].hash = Append(audit'[i].prev, HashInput(Written[i]))
               /\ audit'[i].beside = {} => InPlace(i)'
    <3>1. CASE i = d
      BY <1>2, <2>2, <3>1
    <3>2. CASE i \in DOMAIN audit
      BY <1>2, <2>1, <3>2 DEF Chained
    <3> QED  BY <1>2, <2>3, <3>1, <3>2
  <2> QED  BY <2>3 DEF Chained
<1> QED  BY <1>4, <1>5, <1>6

LEMMA CommitAuditKeeps ==
  ASSUME AuditInv, NEW p \in Process, CommitAudit(p)
  PROVE  AuditInv'
<1> USE DEF AuditInv
<1>1. /\ DOMAIN audit' = DOMAIN audit
      /\ UNCHANGED <<lastId, drawn>>
      /\ \A i \in DOMAIN audit :
           /\ audit'[i] \in AuditRow
           /\ audit'[i].by = IF audit[i].by = p THEN "committed" ELSE audit[i].by
           /\ audit'[i].prev = audit[i].prev
           /\ audit'[i].hash = audit[i].hash
           /\ audit'[i].beside = audit[i].beside
  BY DEF CommitAudit, AuditTypes, AuditRow
<1>2. AuditTypes'
  BY <1>1 DEF AuditTypes
<1>3. IdsFresh'
  <2>1. \A q \in Process : q # "committed"
    BY AuditAssumption
  <2> QED  BY <1>1, <2>1 DEF IdsFresh
<1>4. ASSUME NEW i \in DOMAIN audit, audit[i].beside = {}
      PROVE  InPlace(i)'
  <2>1. InPlace(i)
    BY <1>4 DEF Chained
  <2>2. Before(i)' = Before(i)
    BY <1>1 DEF Before
  <2>3. LastHash(Before(i))' = LastHash(Before(i))
    BY <1>1, <2>2, BeforeHashKept DEF Before
  <2>4. \A j \in Before(i) : audit'[j].by \in {"committed", audit'[i].by}
    BY <1>1, <2>1 DEF InPlace, Before
  <2> QED  BY <1>1, <2>1, <2>2, <2>3, <2>4 DEF InPlace
<1>5. Chained'
  BY <1>1, <1>4 DEF Chained
<1> QED  BY <1>2, <1>3, <1>5

LEMMA RollBackAuditKeeps ==
  ASSUME AuditInv, NEW p \in Process, RollBackAudit(p)
  PROVE  AuditInv'
<1> USE DEF AuditInv
<1>1. /\ DOMAIN audit' = DOMAIN audit \ OpenFor(p)
      /\ \A i \in DOMAIN audit' : i \in DOMAIN audit /\ audit'[i] = audit[i]
      /\ lastId' = lastId
      /\ drawn' = [drawn EXCEPT ![p] = 0]
      /\ drawn \in [Process -> 0 .. lastId]
      /\ DOMAIN audit \subseteq 1 .. lastId /\ lastId \in Nat
  BY AuditAssumption DEF RollBackAudit, AuditTypes
<1>2. AuditTypes'
  BY <1>1 DEF AuditTypes
<1>3. IdsFresh'
  BY <1>1 DEF IdsFresh
<1>4. ASSUME NEW i \in DOMAIN audit', audit[i].beside = {}
      PROVE  InPlace(i)'
  <2>1. InPlace(i) /\ i \in DOMAIN audit /\ audit[i].by # p
    BY <1>1, <1>4 DEF Chained, OpenFor
  <2>2. \A j \in Before(i) : audit[j].by # p
    BY <2>1, AuditAssumption DEF InPlace
  <2>3. Before(i)' = Before(i)
    BY <1>1, <2>2 DEF Before, OpenFor
  <2>4. \A j \in Before(i) : audit'[j] = audit[j]
    BY <1>1, <2>3 DEF Before
  <2>5. LastHash(Before(i))' = LastHash(Before(i))
    BY <2>1, <2>3, <2>4, BeforeHashKept
  <2>6. \A q \in Process : drawn'[q] = 0 \/ drawn'[q] > i
    BY <1>1, <2>1 DEF InPlace
  <2> QED  BY <1>1, <1>4, <2>1, <2>3, <2>4, <2>5, <2>6 DEF InPlace
<1>5. Chained'
  BY <1>1, <1>4 DEF Chained
<1> QED  BY <1>2, <1>3, <1>5

LEMMA EditKeeps ==
  ASSUME AuditInv, NEW k, Edit(k)
  PROVE  AuditInv'
<1> USE DEF AuditInv
<1>0. k \in DOMAIN audit /\ k \in 1 .. MaxId
  BY AuditAssumption DEF Edit, CommittedIds, AuditTypes
<1>1. /\ DOMAIN audit' = DOMAIN audit
      /\ UNCHANGED <<lastId, drawn>>
      /\ \A i \in DOMAIN audit :
           /\ audit'[i] \in AuditRow
           /\ audit'[i].by = audit[i].by
           /\ audit'[i].prev = audit[i].prev
           /\ audit'[i].hash = audit[i].hash
           /\ audit'[i].beside = audit[i].beside
  BY <1>0 DEF Edit, AuditTypes, AuditRow
<1>2. AuditTypes' /\ IdsFresh'
  BY <1>1 DEF AuditTypes, IdsFresh
<1>3. ASSUME NEW i \in DOMAIN audit, audit[i].beside = {}
      PROVE  InPlace(i)'
  <2>1. InPlace(i)
    BY <1>3 DEF Chained
  <2>2. Before(i)' = Before(i)
    BY <1>1 DEF Before
  <2>3. LastHash(Before(i))' = LastHash(Before(i))
    BY <1>1, <2>2, BeforeHashKept DEF Before
  <2>4. \A j \in Before(i) : audit'[j].by \in {"committed", audit'[i].by}
    BY <1>1, <2>1 DEF InPlace, Before
  <2> QED  BY <1>1, <2>1, <2>2, <2>3, <2>4 DEF InPlace
<1>4. Chained'
  BY <1>1, <1>3 DEF Chained
<1> QED  BY <1>2, <1>4

LEMMA AuditNext == AuditInv /\ [Next]_vars => AuditInv'
<1> SUFFICES ASSUME AuditInv, [Next]_vars
             PROVE  AuditInv'
  OBVIOUS
<1>1. CASE UNCHANGED auditVars
  BY <1>1 DEF auditVars, AuditInv, AuditTypes, IdsFresh, Chained, InPlace, Before, LastHash
<1>2. ASSUME NEW p \in Process, WriteAudit(p) PROVE AuditInv'
  BY <1>2, DrawIdKeeps, InsertAuditKeeps DEF WriteAudit
<1>3. ASSUME NEW p \in Process, Commit(p) PROVE AuditInv'
  BY <1>3, CommitAuditKeeps DEF Commit
<1>4. ASSUME NEW p \in Process, RollBack(p) PROVE AuditInv'
  BY <1>4, RollBackAuditKeeps DEF RollBack
<1>5. CASE EditRow
  BY <1>5, EditKeeps DEF EditRow
<1>6. ASSUME NEW p \in Process,
             TakeLock(p) \/ UpdateStep(p) \/ CancelOne(p) \/ CancelDone(p)
      PROVE  UNCHANGED auditVars
  BY <1>6 DEF TakeLock, UpdateStep, CancelOne, CancelDone
<1>7. ASSUME NEW p \in Process, OpenRequest(p) PROVE UNCHANGED auditVars
  BY <1>7 DEF OpenRequest, Open
<1>8. CASE FetchBatch \/ NextFetchedStep \/ Settle \/ Sweep
  <2>1. UNCHANGED auditVars
    BY <1>8 DEF FetchBatch, NextFetchedStep, Settle, Sweep, Open
  <2> QED  BY <1>1, <2>1
<1>9. CASE UNCHANGED vars
  BY <1>1, <1>9 DEF vars
<1> QED
  BY <1>1, <1>2, <1>3, <1>4, <1>5, <1>6, <1>7, <1>8, <1>9 DEF Next

THEOREM AuditInvHolds == Spec => []AuditInv
<1>1. Init => AuditInv
  BY AuditInitial DEF Init
<1> QED  BY <1>1, AuditNext, PTL DEF Spec

------------------------------------------------------------------------------
(* What the verifier reports *)

\* With one writer of audit rows at a time, whatever rolls back in between, the
\* verifier has nothing to report that nobody edited.
THEOREM ChainBreaksByOverlapOnly == Spec => []BrokenOnlyByOverlap
<1>1. AuditInv => BrokenOnlyByOverlap
  <2> SUFFICES ASSUME AuditInv, NEW i \in BrokenRows \ Edited, audit[i].beside = {}
               PROVE  FALSE
    BY DEF BrokenOnlyByOverlap
  <2>1. i \in CommittedIds /\ i \in DOMAIN audit
    BY DEF BrokenRows, CommittedIds
  <2>2. audit[i].content = Written[i]
    BY <2>1 DEF Edited
  <2>3. InPlace(i) /\ audit[i].hash = Append(audit[i].prev, HashInput(Written[i]))
    BY <2>1 DEF AuditInv, Chained
  <2>4. {j \in CommittedIds : j < i} = Before(i)
    BY <2>1, <2>3 DEF InPlace, Before, CommittedIds
  <2>5. LagHash(i) = audit[i].prev
    BY <2>3, <2>4 DEF LagHash, InPlace
  <2> QED  BY <2>2, <2>3, <2>5 DEF BrokenRows
<1> QED  BY <1>1, AuditInvHolds, PTL

------------------------------------------------------------------------------
(***************************************************************************)
(* The row locks, for any number of processes, cycles,                     *)
(* plan steps and requests: processes that wait for one another include    *)
(* the worker, with steps of the batch it fetched still locked.            *)
(*                                                                         *)
(* Every transaction locks the mandate or an intent, then a cycle, then    *)
(* the steps of that cycle, and only one holding the mandate locks a       *)
(* second cycle. The worker starts with a step: it may wait there with no  *)
(* lock held, or go on to the cycle if the step was dispatched. Nobody     *)
(* else writes a dispatched step, because others write pending ones, or    *)
(* those of a plan they are just making. So who waits for whom cannot go   *)
(* round in a circle, unless it passes the batch.                          *)
(***************************************************************************)

CycleRow(c) == <<"cycle", c>>
IntentRow(c) == <<"intent", c>>
CycleRows == {CycleRow(c) : c \in Cycles}
LockRows == {<<"mandate">>, <<"switch">>} \cup CycleRows \cup {IntentRow(c) : c \in Cycles}

Op == {Lock(row) : row \in LockRows}
        \cup {SetStep(s, to) : s \in Steps, to \in Statuses \ {"absent"}}
        \cup {CancelPendingOf(c) : c \in Cycles}
        \cup {Audit}

WantsRow(o) == o.op \in {"lock", "step", "cancel"}

LockTypes ==
  /\ status \in [Steps -> Statuses]
  /\ fetched \in SUBSET Steps
  /\ \A s \in fetched : status[s] # "absent"
  /\ pc \in [Process -> Seq(Op) \cup {NoOps}]
  /\ holds \in [Process -> SUBSET (LockRows \cup Steps)]
  /\ writes \in [Process -> [Steps -> Statuses]]
  /\ made \in SUBSET Requests
  /\ \A p \in Process : Idle(p) => holds[p] = {} /\ writes[p] = NothingWritten

\* A row is locked by one transaction at a time.
Exclusive == \A p, q \in Process : p # q => holds[p] \cap holds[q] = {}

\* The rows held when operation i of ops is reached, those of plan steps aside.
Taken(held, ops, i) ==
  held \cup {ops[j].row : j \in {j \in 1 .. i - 1 : ops[j].op = "lock"}}

\* The order of the locks: mandate and intent first, then the cycle, then its
\* steps. The worker may start with a step, or come with steps of its batch.
OrderedOp(p, held, ops, i) ==
  LET o == ops[i]
      taken == Taken(held, ops, i)
  IN  /\ o.op = "cancel" => CycleRow(o.cycle) \in taken
      /\ o.op = "step" =>
           \/ CycleRow(o.row[1]) \in taken
           \/ p = Worker /\ (o.row \in held \/ (i = 1 /\ held = {}))
      /\ o.op = "step" /\ p # Worker => IntentRow(o.row[1]) \in taken
      /\ o.op = "step" /\ p = Worker => status[o.row] # "absent"
      /\ o.op = "lock" /\ o.row \in CycleRows =>
           <<"mandate">> \in taken \/ taken \cap CycleRows = {}
      /\ o.op = "lock" /\ o.row \notin CycleRows => taken = {} /\ p # Worker

Ordered ==
  /\ \A p \in Process : \A i \in DOMAIN pc[p] : OrderedOp(p, holds[p], pc[p], i)
  /\ \A p \in Process \ {Worker} : \A s \in holds[p] \cap Steps : CycleRow(s[1]) \in holds[p]

\* After the first step it writes the worker waits for a row only if that step was
\* dispatched, or with its cycle locked.
StepLast(ops) ==
  \A i, j \in DOMAIN ops :
    i < j /\ ops[i].op = "step" /\ WantsRow(ops[j]) => status[ops[i].row] = "dispatched"

WorkerSteps ==
  /\ StepLast(pc[Worker])
  /\ \A s \in Steps, i \in DOMAIN pc[Worker] :
       writes[Worker][s] # "absent" /\ WantsRow(pc[Worker][i])
         => status[s] = "dispatched" \/ CycleRow(s[1]) \in holds[Worker]

\* p handles the outcome that plans the steps of c.
IntentOf(p, c) ==
  IntentRow(c) \in holds[p] \/ \E i \in DOMAIN pc[p] : pc[p][i] = Lock(IntentRow(c))

\* Steps appear with the only outcome their cycle gets; afterwards only the worker
\* writes those it has dispatched.
OnePlan ==
  /\ \A p \in Process, c \in Cycles : IntentOf(p, c) =>
        /\ p # Worker /\ <<"outcome", c>> \in made
        /\ \A s \in Steps : s[1] = c => status[s] = "absent"
        /\ \A q \in Process : IntentOf(q, c) => q = p
  /\ \A p \in Process, s \in Steps : writes[p][s] # "absent" =>
        /\ s \in holds[p]
        /\ status[s] # "absent" \/ IntentOf(p, s[1])
        /\ p # Worker => status[s] # "dispatched"
  /\ \A s \in Steps : status[s] # "absent" => <<"outcome", s[1]>> \in made

LockInv == LockTypes /\ Exclusive /\ Ordered /\ WorkerSteps /\ OnePlan

------------------------------------------------------------------------------
(* Operations and their sequences *)

LEMMA OpCases ==
  ASSUME NEW o \in Op
  PROVE  \/ o.op = "lock" /\ o.row \in LockRows /\ o = Lock(o.row)
         \/ o.op = "step" /\ o.row \in Steps /\ o.to \in Statuses \ {"absent"}
         \/ o.op = "cancel" /\ o.cycle \in Cycles
         \/ o.op = "audit"
BY DEF Op, Lock, SetStep, CancelPendingOf, Audit

LEMMA RowsApart ==
  /\ \A s \in Steps : s \notin CycleRows /\ s[1] \in Cycles
  /\ \A c \in Cycles : IntentRow(c) \notin CycleRows /\ IntentRow(c) # <<"mandate">>
  /\ <<"mandate">> \notin CycleRows /\ <<"switch">> \notin CycleRows
  /\ LockRows \cap Steps = {}
<1>1. \A s \in Steps : s \notin CycleRows /\ s[1] \in Cycles
  BY TransactionsAssumption DEF Steps, CycleRows, CycleRow
<1>2. \A c \in Cycles : IntentRow(c) \notin CycleRows /\ IntentRow(c) # <<"mandate">>
  <2> TAKE c \in Cycles
  <2>1. IntentRow(c)[1] = "intent"
    BY DEF IntentRow
  <2>2. \A r \in CycleRows : r[1] = "cycle"
    BY DEF CycleRows, CycleRow
  <2> QED  BY <2>1, <2>2
<1>3. <<"mandate">> \notin CycleRows /\ <<"switch">> \notin CycleRows
  <2>2. \A r \in CycleRows : r[1] = "cycle"
    BY DEF CycleRows, CycleRow
  <2> QED  BY <2>2
<1>4. LockRows \cap Steps = {}
  <2>1. \A c \in Cycles, s \in Steps : IntentRow(c) # s
    BY TransactionsAssumption DEF Steps, IntentRow
  <2>2. \A s \in Steps : s # <<"mandate">> /\ s # <<"switch">>
    <3>1. \A s \in Steps : Len(s) = 2
      BY DEF Steps
    <3>2. Len(<<"mandate">>) = 1 /\ Len(<<"switch">>) = 1
      OBVIOUS
    <3> QED  BY <3>1, <3>2
  <2> QED  BY <1>1, <2>1, <2>2 DEF LockRows
<1> QED  BY <1>1, <1>2, <1>3, <1>4

\* Operation i after the first has gone was operation i + 1.
LEMMA TailOps ==
  ASSUME NEW ops \in Seq(Op), ops # <<>>
  PROVE  /\ Tail(ops) \in Seq(Op)
         /\ Head(ops) = ops[1] /\ ops[1] \in Op /\ 1 \in DOMAIN ops
         /\ \A i \in DOMAIN Tail(ops) :
              i \in Nat /\ i > 0 /\ i + 1 \in DOMAIN ops /\ Tail(ops)[i] = ops[i + 1]
<1>1. Len(ops) \in Nat /\ Len(ops) > 0
  OBVIOUS
<1> QED  BY <1>1

\* With the first operation done, its row held, the rest is still in order.
LEMMA TakenAfter ==
  ASSUME NEW ops \in Seq(Op), ops # <<>>, NEW held, NEW now, held \subseteq now,
         ops[1].op = "lock" => ops[1].row \in now,
         NEW i \in DOMAIN Tail(ops)
  PROVE  /\ Taken(held, ops, i + 1) \subseteq Taken(now, Tail(ops), i)
         /\ \A row \in Taken(now, Tail(ops), i) : row \in now \/ row \in Taken(held, ops, i + 1)
<1>1. /\ i \in Nat /\ i > 0 /\ i + 1 \in DOMAIN ops
      /\ DOMAIN ops = 1 .. Len(ops) /\ Len(ops) \in Nat
      /\ \A j \in 1 .. i - 1 : Tail(ops)[j] = ops[j + 1]
  BY TailOps
<1>2. ASSUME NEW j \in 1 .. (i + 1) - 1, ops[j].op = "lock"
      PROVE  ops[j].row \in Taken(now, Tail(ops), i)
  <2>1. CASE j = 1
    BY <1>2, <2>1 DEF Taken
  <2>2. CASE j # 1
    <3>1. j - 1 \in 1 .. i - 1 /\ Tail(ops)[j - 1] = ops[(j - 1) + 1] /\ (j - 1) + 1 = j
      BY <1>1, <2>2
    <3> QED  BY <1>2, <3>1 DEF Taken
  <2> QED  BY <2>1, <2>2
<1>3. ASSUME NEW j \in 1 .. i - 1, Tail(ops)[j].op = "lock"
      PROVE  Tail(ops)[j].row \in Taken(held, ops, i + 1)
  <2>1. j + 1 \in 1 .. (i + 1) - 1 /\ Tail(ops)[j] = ops[j + 1]
    BY <1>1
  <2> QED  BY <1>3, <2>1 DEF Taken
<1> QED  BY <1>2, <1>3 DEF Taken

LEMMA TakenFirst ==
  ASSUME NEW held, NEW ops
  PROVE  Taken(held, ops, 1) = held
<1>1. 1 .. 1 - 1 = {}
  OBVIOUS
<1> QED  BY <1>1 DEF Taken

\* What is left of an ordered sequence is ordered, with the row R just taken.
LEMMA OrderedAfter ==
  ASSUME NEW p, NEW ops \in Seq(Op), ops # <<>>, NEW held, NEW R,
         \A i \in DOMAIN ops : OrderedOp(p, held, ops, i),
         \/ ops[1].op = "lock" /\ R = {ops[1].row}
         \/ ops[1].op = "step" /\ R \subseteq Steps
         \/ ops[1].op \notin {"lock", "step"} /\ R = {},
         NEW i \in DOMAIN Tail(ops)
  PROVE  OrderedOp(p, held \cup R, Tail(ops), i)
<1> DEFINE now == held \cup R
           before == Taken(held, ops, i + 1)
           after == Taken(now, Tail(ops), i)
           o == Tail(ops)[i]
<1>1. /\ i \in Nat /\ i > 0 /\ i + 1 \in DOMAIN ops /\ o = ops[i + 1] /\ ops[1] \in Op
      /\ 1 \in DOMAIN ops
  BY TailOps
<1>2. before \subseteq after /\ \A row \in after : row \in now \/ row \in before
  BY TakenAfter
<1>3. held \subseteq before /\ Taken(held, ops, 1) = held
  BY TakenFirst DEF Taken
<1>4. ops[1].op = "lock" => R \subseteq before
  <2>1. 1 \in 1 .. (i + 1) - 1
    BY <1>1
  <2> QED  BY <2>1 DEF Taken
<1>5. OrderedOp(p, held, ops, i + 1) /\ OrderedOp(p, held, ops, 1)
  BY <1>1
<1>6. after \cap CycleRows \subseteq before
  BY <1>2, <1>3, <1>4, RowsApart
<1>7. before = {} /\ p # Worker => after = {}
  BY <1>1, <1>2, <1>3, <1>4, <1>5 DEF OrderedOp
<1>8. o.op = "cancel" => CycleRow(o.cycle) \in after
  BY <1>1, <1>2, <1>5 DEF OrderedOp
<1>9. o.op = "step" =>
        /\ \/ CycleRow(o.row[1]) \in after
           \/ p = Worker /\ (o.row \in now \/ (i = 1 /\ now = {}))
        /\ p # Worker => IntentRow(o.row[1]) \in after
        /\ p = Worker => status[o.row] # "absent"
  <2>1. i + 1 # 1
    BY <1>1
  <2> QED  BY <1>1, <1>2, <1>5, <2>1 DEF OrderedOp
<1>10. o.op = "lock" =>
        /\ o.row \in CycleRows => <<"mandate">> \in after \/ after \cap CycleRows = {}
        /\ o.row \notin CycleRows => after = {} /\ p # Worker
  BY <1>1, <1>2, <1>5, <1>6, <1>7 DEF OrderedOp
<1> HIDE DEF now, before, after, o
<1> QED  BY <1>8, <1>9, <1>10 DEF OrderedOp, now, after, o

\* An intent to be locked is locked by then.
LEMMA IntentKept ==
  ASSUME NEW ops \in Seq(Op), ops # <<>>, NEW held, NEW R,
         \/ ops[1].op = "lock" /\ R = {ops[1].row}
         \/ ops[1].op # "lock" /\ R \subseteq Steps,
         NEW c \in Cycles
  PROVE  (IntentRow(c) \in held \cup R \/ \E i \in DOMAIN Tail(ops) : Tail(ops)[i] = Lock(IntentRow(c)))
           <=> (IntentRow(c) \in held \/ \E i \in DOMAIN ops : ops[i] = Lock(IntentRow(c)))
<1> DEFINE row == IntentRow(c)
<1>1. /\ ops[1] \in Op /\ 1 \in DOMAIN ops
      /\ \A i \in DOMAIN Tail(ops) : i + 1 \in DOMAIN ops /\ Tail(ops)[i] = ops[i + 1]
  BY TailOps
<1>2. row \in LockRows /\ row \notin Steps
  BY RowsApart DEF LockRows
<1>3. ops[1].op = "lock" => ops[1] = Lock(ops[1].row)
  BY <1>1, OpCases
<1>4. ASSUME row \in R PROVE ops[1] = Lock(row)
  BY <1>2, <1>3, <1>4
<1>5. ASSUME NEW i \in DOMAIN ops, ops[i] = Lock(row)
      PROVE  row \in R \/ \E j \in DOMAIN Tail(ops) : Tail(ops)[j] = Lock(row)
  <2>1. CASE i = 1
    BY <1>5, <2>1 DEF Lock
  <2>2. CASE i # 1
    <3>1. i - 1 \in DOMAIN Tail(ops) /\ Tail(ops)[i - 1] = ops[(i - 1) + 1] /\ (i - 1) + 1 = i
      BY <2>2
    <3> QED  BY <1>5, <3>1
  <2> QED  BY <2>1, <2>2
<1> HIDE DEF row
<1>6. (row \in held \cup R \/ \E i \in DOMAIN Tail(ops) : Tail(ops)[i] = Lock(row))
         <=> (row \in held \/ \E i \in DOMAIN ops : ops[i] = Lock(row))
  BY <1>1, <1>4, <1>5
<1> QED  BY <1>6 DEF row

------------------------------------------------------------------------------
(* Steps of a transaction *)

\* The order of q's operations is not disturbed while its rows stay locked and no
\* plan step disappears.
LEMMA OrderedFrame ==
  ASSUME NEW held, NEW q, NEW ops, NEW i,
         \A s \in Steps : status[s] # "absent" => status'[s] # "absent",
         ops[i].op = "step" => ops[i].row \in Steps,
         OrderedOp(q, held, ops, i)
  PROVE  OrderedOp(q, held, ops, i)'
BY DEF OrderedOp, Taken

LEMMA OpsTyped ==
  ASSUME LockTypes, NEW p \in Process, NEW i \in DOMAIN pc[p]
  PROVE  /\ pc[p][i].op = "step" => pc[p][i].row \in Steps
         /\ pc[p] # NoOps => pc[p] \in Seq(Op) /\ pc[p][i] \in Op
<1>1. pc[p] \in Seq(Op) \/ pc[p] = NoOps
  BY DEF LockTypes
<1>2. CASE pc[p] = NoOps
  BY <1>2 DEF NoOps
<1>3. CASE pc[p] \in Seq(Op)
  BY <1>3, OpCases
<1> QED  BY <1>1, <1>2, <1>3

LEMMA DoingOp ==
  ASSUME LockTypes, NEW p \in Process, NEW op \in {"lock", "step", "cancel", "audit"}, Doing(p, op)
  PROVE  /\ pc[p] \in Seq(Op) /\ pc[p] # <<>> /\ pc[p] # NoOps
         /\ Head(pc[p]) = pc[p][1] /\ pc[p][1] \in Op /\ pc[p][1].op = op /\ 1 \in DOMAIN pc[p]
<1>1. pc[p] \in Seq(Op) \/ pc[p] = NoOps
  BY DEF LockTypes
<1>2. pc[p] # NoOps
  BY DEF Doing, NoOps
<1> QED  BY <1>1, <1>2, TailOps DEF Doing

\* The first operation is done and the rows R are locked with it.
Done(p, R) ==
  /\ pc[p] \in Seq(Op) /\ pc[p] # <<>> /\ pc[p] # NoOps
  /\ pc' = [pc EXCEPT ![p] = Tail(@)]
  /\ holds' = [holds EXCEPT ![p] = @ \cup R]
  /\ UNCHANGED <<status, fetched, made>>
  /\ R \in SUBSET (LockRows \cup Steps)
  /\ \A q \in Process \ {p} : R \cap holds[q] = {}
  /\ \/ pc[p][1].op = "lock" /\ R = {pc[p][1].row}
     \/ pc[p][1].op = "step" /\ R = {pc[p][1].row} /\ R \subseteq Steps
     \/ pc[p][1].op \notin {"lock", "step"} /\ R = {}

LEMMA DoneTypes ==
  ASSUME LockInv, NEW p \in Process, NEW R, Done(p, R),
         writes' \in [Process -> [Steps -> Statuses]],
         \A q \in Process \ {p} : writes'[q] = writes[q]
  PROVE  LockTypes' /\ Exclusive'
<1> USE DEF LockInv
<1>1. /\ \A q \in Process \ {p} : pc'[q] = pc[q] /\ holds'[q] = holds[q]
      /\ pc'[p] = Tail(pc[p]) /\ holds'[p] = holds[p] \cup R
      /\ Tail(pc[p]) \in Seq(Op) /\ pc' \in [Process -> Seq(Op) \cup {NoOps}]
      /\ holds' \in [Process -> SUBSET (LockRows \cup Steps)]
  BY TailOps DEF Done, LockTypes
<1>2. pc'[p] # NoOps
  <2>1. NoOps \notin Seq(Op)
    <3> SUFFICES ASSUME NoOps \in Seq(Op) PROVE FALSE
      OBVIOUS
    <3>1. [op |-> "end"] \in Op
      BY DEF NoOps
    <3> QED  BY <3>1, OpCases
  <2> QED  BY <1>1, <2>1
<1>3. \A q \in Process : Idle(q)' => holds'[q] = {} /\ writes'[q] = NothingWritten
  BY <1>1, <1>2 DEF Idle, LockTypes
<1>4. LockTypes'
  BY <1>1, <1>3 DEF LockTypes, Done, Idle, NothingWritten
<1>5. Exclusive'
  BY <1>1 DEF Exclusive, Done
<1> QED  BY <1>4, <1>5

LEMMA DoneOrdered ==
  ASSUME LockInv, NEW p \in Process, NEW R, Done(p, R)
  PROVE  Ordered'
<1> USE DEF LockInv
<1>1. /\ \A q \in Process \ {p} : pc'[q] = pc[q] /\ holds'[q] = holds[q]
      /\ pc'[p] = Tail(pc[p]) /\ holds'[p] = holds[p] \cup R
  BY DEF Done, LockTypes
<1>2. /\ pc[p] \in Seq(Op) /\ pc[p] # <<>>
      /\ \A k \in DOMAIN pc[p] : OrderedOp(p, holds[p], pc[p], k)
      /\ \/ pc[p][1].op = "lock" /\ R = {pc[p][1].row}
         \/ pc[p][1].op = "step" /\ R \subseteq Steps
         \/ pc[p][1].op \notin {"lock", "step"} /\ R = {}
  BY DEF Ordered, Done
<1>3. ASSUME NEW i \in DOMAIN pc'[p]
      PROVE  OrderedOp(p, holds[p], pc[p], i)'
  <2>1. PICK ops, held : ops = pc[p] /\ held = holds[p]
    OBVIOUS
  <2>2. OrderedOp(p, held \cup R, Tail(ops), i) /\ Tail(ops)[i] \in Op
    <3>1. /\ ops \in Seq(Op) /\ ops # <<>> /\ i \in DOMAIN Tail(ops)
          /\ \A k \in DOMAIN ops : OrderedOp(p, held, ops, k)
          /\ \/ ops[1].op = "lock" /\ R = {ops[1].row}
             \/ ops[1].op = "step" /\ R \subseteq Steps
             \/ ops[1].op \notin {"lock", "step"} /\ R = {}
      BY <1>1, <1>2, <1>3, <2>1
    <3>2. Tail(ops)[i] \in Op
      BY <3>1, TailOps
    <3> QED  BY <3>1, <3>2, OrderedAfter
  <2>3. OrderedOp(p, held \cup R, Tail(ops), i)'
    <3>1. Tail(ops)[i].op = "step" => Tail(ops)[i].row \in Steps
      BY <2>2, OpCases
    <3> QED  BY <2>2, <3>1, OrderedFrame DEF Done
  <2>4. pc'[p] = Tail(ops) /\ holds'[p] = held \cup R
    BY <1>1, <2>1
  <2> QED  BY <2>3, <2>4 DEF OrderedOp
<1>4. ASSUME NEW q \in Process \ {p}, NEW i \in DOMAIN pc'[q]
      PROVE  OrderedOp(q, holds[q], pc[q], i)'
  <2>1. PICK ops, held : ops = pc[q] /\ held = holds[q]
    OBVIOUS
  <2>2. OrderedOp(q, held, ops, i) /\ (ops[i].op = "step" => ops[i].row \in Steps)
    BY <1>1, <2>1, <1>4, OpsTyped DEF Ordered
  <2>3. OrderedOp(q, held, ops, i)'
    BY <2>2, OrderedFrame DEF Done
  <2>4. pc'[q] = ops /\ holds'[q] = held
    BY <1>1, <2>1
  <2> QED  BY <2>3, <2>4 DEF OrderedOp
<1>5. ASSUME NEW q \in Process \ {Worker}, NEW s \in holds'[q] \cap Steps
      PROVE  CycleRow(s[1]) \in holds'[q]
  <2>1. CASE s \in holds[q]
    BY <1>1, <1>5, <2>1 DEF Ordered
  <2>2. CASE s \notin holds[q]
    <3>1. q = p /\ s \in R /\ s \notin LockRows
      BY <1>1, <1>5, <2>2, RowsApart
    <3>2. pc[p][1] \in Op /\ 1 \in DOMAIN pc[p]
      BY <1>2, TailOps
    <3>3. pc[p][1].op = "step" /\ s = pc[p][1].row
      BY <3>1, <3>2, OpCases DEF Done
    <3>4. OrderedOp(p, holds[p], pc[p], 1)
      BY <1>2, <3>2
    <3>5. CycleRow(s[1]) \in Taken(holds[p], pc[p], 1)
      BY <1>5, <3>1, <3>3, <3>4 DEF OrderedOp
    <3> QED  BY <1>1, <3>1, <3>5, TakenFirst
  <2> QED  BY <2>1, <2>2
<1> QED  BY <1>3, <1>4, <1>5 DEF Ordered

\* What the step may write: nothing, or the status of the row it locks.
WritesOf(p, R) ==
  \/ writes' = writes
  \/ \E s \in Steps, to \in Statuses :
       /\ pc[p][1].op = "step" /\ R = {s} /\ pc[p][1].row = s
       /\ writes' = [writes EXCEPT ![p][s] = to]

LEMMA DoneWorkerSteps ==
  ASSUME LockInv, NEW p \in Process, NEW R, Done(p, R), WritesOf(p, R)
  PROVE  WorkerSteps'
<1> USE DEF LockInv
<1>1. /\ \A q \in Process \ {p} : pc'[q] = pc[q] /\ holds'[q] = holds[q] /\ writes'[q] = writes[q]
      /\ pc'[p] = Tail(pc[p]) /\ holds'[p] = holds[p] \cup R
      /\ Worker \in Process /\ status' = status
  BY TransactionsAssumption DEF Done, LockTypes, WritesOf
<1>2. CASE p # Worker
  BY <1>1, <1>2 DEF WorkerSteps, StepLast
<1>3. CASE p = Worker
  <2>1. \A i \in DOMAIN pc'[p] :
           i \in Nat /\ i > 0 /\ i + 1 \in DOMAIN pc[p] /\ pc'[p][i] = pc[p][i + 1]
    <3>1. PICK ops : ops = pc[p]
      OBVIOUS
    <3>2. ops \in Seq(Op) /\ ops # <<>> /\ pc'[p] = Tail(ops)
      BY <1>1, <3>1 DEF Done
    <3> QED  BY <3>1, <3>2, TailOps
  <2>2. StepLast(pc[Worker])'
    <3>1. ASSUME NEW i \in DOMAIN pc'[p], NEW j \in DOMAIN pc'[p],
                 i < j, pc'[p][i].op = "step", WantsRow(pc'[p][j])
          PROVE  status[pc'[p][i].row] = "dispatched"
      <4>1. i + 1 \in DOMAIN pc[p] /\ j + 1 \in DOMAIN pc[p] /\ i + 1 < j + 1
        BY <2>1, <3>1
      <4>2. pc'[p][i] = pc[p][i + 1] /\ pc'[p][j] = pc[p][j + 1]
        BY <2>1
      <4> QED  BY <1>3, <3>1, <4>1, <4>2 DEF WorkerSteps, StepLast
    <3> QED  BY <1>1, <1>3, <3>1 DEF StepLast, WantsRow
  <2>3. ASSUME NEW s \in Steps, NEW i \in DOMAIN pc'[p],
               writes'[p][s] # "absent", WantsRow(pc'[p][i])
        PROVE  status[s] = "dispatched" \/ CycleRow(s[1]) \in holds'[p]
    <3>1. CASE writes[p][s] # "absent"
      BY <1>1, <1>3, <2>1, <2>3, <3>1 DEF WorkerSteps
    <3>2. CASE writes[p][s] = "absent"
      <4>1. pc[p][1].op = "step" /\ pc[p][1].row = s
        BY <2>3, <3>2 DEF WritesOf, LockTypes
      <4>2. 1 \in DOMAIN pc[p] /\ i + 1 \in DOMAIN pc[p] /\ 1 < i + 1
        BY <2>1, TailOps DEF Done
      <4> QED  BY <1>3, <2>1, <2>3, <4>1, <4>2 DEF WorkerSteps, StepLast
    <3> QED  BY <3>1, <3>2
  <2> QED  BY <1>1, <1>3, <2>2, <2>3 DEF WorkerSteps
<1> QED  BY <1>2, <1>3

LEMMA DoneOnePlan ==
  ASSUME LockInv, NEW p \in Process, NEW R, Done(p, R), WritesOf(p, R)
  PROVE  OnePlan'
<1> USE DEF LockInv
<1>1. /\ \A q \in Process \ {p} : pc'[q] = pc[q] /\ holds'[q] = holds[q] /\ writes'[q] = writes[q]
      /\ pc'[p] = Tail(pc[p]) /\ holds'[p] = holds[p] \cup R
      /\ status' = status /\ made' = made
  BY DEF Done, LockTypes, WritesOf
<1>2. \A q \in Process, c \in Cycles : IntentOf(q, c)' <=> IntentOf(q, c)
  <2> TAKE q \in Process, c \in Cycles
  <2>1. CASE q # p
    BY <1>1, <2>1 DEF IntentOf
  <2>2. CASE q = p
    <3>1. PICK ops, held : ops = pc[p] /\ held = holds[p]
      OBVIOUS
    <3>2. (IntentRow(c) \in held \cup R \/ \E i \in DOMAIN Tail(ops) : Tail(ops)[i] = Lock(IntentRow(c)))
            <=> (IntentRow(c) \in held \/ \E i \in DOMAIN ops : ops[i] = Lock(IntentRow(c)))
      <4>1. /\ ops \in Seq(Op) /\ ops # <<>>
            /\ \/ ops[1].op = "lock" /\ R = {ops[1].row}
               \/ ops[1].op # "lock" /\ R \subseteq Steps
        BY <3>1 DEF Done
      <4> QED  BY <4>1, IntentKept
    <3> QED  BY <1>1, <2>2, <3>1, <3>2 DEF IntentOf, Lock, IntentRow
  <2> QED  BY <2>1, <2>2
<1>3. ASSUME NEW q \in Process, NEW s \in Steps, writes'[q][s] # "absent"
      PROVE  /\ s \in holds'[q]
             /\ status[s] # "absent" \/ IntentOf(q, s[1])
             /\ q # Worker => status[s] # "dispatched"
  <2>1. CASE writes[q][s] # "absent"
    BY <1>1, <2>1 DEF OnePlan
  <2>2. CASE writes[q][s] = "absent"
    <3>1. q = p /\ pc[p][1].op = "step" /\ pc[p][1].row = s /\ R = {s}
      BY <1>3, <2>2 DEF WritesOf, LockTypes
    <3>2. OrderedOp(p, holds[p], pc[p], 1)
      BY TailOps DEF Ordered, Done
    <3>3. /\ p # Worker => IntentRow(s[1]) \in holds[p]
          /\ p = Worker => status[s] # "absent"
      BY <3>1, <3>2, TakenFirst DEF OrderedOp
    <3>4. p # Worker => IntentOf(p, s[1]) /\ status[s] = "absent"
      BY <3>3, RowsApart DEF OnePlan, IntentOf
    <3> QED  BY <1>1, <3>1, <3>3, <3>4
  <2> QED  BY <2>1, <2>2
<1>4. \A s \in Steps : s[1] \in Cycles
  BY RowsApart
<1> QED  BY <1>1, <1>2, <1>3, <1>4 DEF OnePlan

LEMMA DoneKeeps ==
  ASSUME LockInv, NEW p \in Process, NEW R, Done(p, R), WritesOf(p, R)
  PROVE  LockInv'
<1>1. /\ writes' \in [Process -> [Steps -> Statuses]]
      /\ \A q \in Process \ {p} : writes'[q] = writes[q]
  BY DEF WritesOf, LockInv, LockTypes
<1> QED  BY <1>1, DoneTypes, DoneOrdered, DoneWorkerSteps, DoneOnePlan DEF LockInv

LEMMA TakeLockKeeps ==
  ASSUME LockInv, NEW p \in Process, TakeLock(p)
  PROVE  LockInv'
<1>1. PICK R : R = {pc[p][1].row}
  OBVIOUS
<1>2. /\ pc[p] \in Seq(Op) /\ pc[p] # <<>> /\ pc[p] # NoOps
      /\ Head(pc[p]) = pc[p][1] /\ pc[p][1] \in Op /\ pc[p][1].op = "lock"
  BY DoingOp DEF TakeLock, LockInv
<1>3. pc[p][1].row \in LockRows
  BY <1>2, OpCases
<1>4. \A q \in Process \ {p} : R \cap holds[q] = {}
  BY <1>1, <1>2 DEF TakeLock, HeldByOther
<1>5. Done(p, R) /\ WritesOf(p, R)
  BY <1>1, <1>2, <1>3, <1>4 DEF TakeLock, Done, WritesOf, Advance
<1> QED  BY <1>5, DoneKeeps

LEMMA UpdateStepKeeps ==
  ASSUME LockInv, NEW p \in Process, UpdateStep(p)
  PROVE  LockInv'
<1>1. PICK R : R = {pc[p][1].row}
  OBVIOUS
<1>2. /\ pc[p] \in Seq(Op) /\ pc[p] # <<>> /\ pc[p] # NoOps
      /\ Head(pc[p]) = pc[p][1] /\ pc[p][1] \in Op /\ pc[p][1].op = "step"
  BY DoingOp DEF UpdateStep, LockInv
<1>3. pc[p][1].row \in Steps /\ pc[p][1].to \in Statuses
  BY <1>2, OpCases
<1>4. \A q \in Process \ {p} : R \cap holds[q] = {}
  BY <1>1, <1>2 DEF UpdateStep, HeldByOther
<1>5. Done(p, R)
  BY <1>1, <1>2, <1>3, <1>4 DEF UpdateStep, Done, Advance
<1>6. WritesOf(p, R)
  BY <1>1, <1>2, <1>3 DEF UpdateStep, WritesOf
<1> QED  BY <1>5, <1>6, DoneKeeps

LEMMA NoLockKeeps ==
  ASSUME LockInv, NEW p \in Process, NEW op \in {"cancel", "audit"},
         Doing(p, op), Advance(p), UNCHANGED <<status, fetched, holds, writes, made>>
  PROVE  LockInv'
<1>1. /\ pc[p] \in Seq(Op) /\ pc[p] # <<>> /\ pc[p] # NoOps /\ pc[p][1].op = op
  BY DoingOp DEF LockInv
<1>2. holds' = [holds EXCEPT ![p] = @ \cup {}]
  BY DEF LockInv, LockTypes
<1>3. Done(p, {}) /\ WritesOf(p, {})
  BY <1>1, <1>2 DEF Done, WritesOf, Advance
<1> QED  BY <1>3, DoneKeeps

LEMMA CancelOneKeeps ==
  ASSUME LockInv, NEW p \in Process, CancelOne(p)
  PROVE  LockInv'
<1> USE DEF LockInv
<1>1. /\ pc[p] \in Seq(Op) /\ pc[p] # <<>> /\ pc[p] # NoOps /\ 1 \in DOMAIN pc[p]
      /\ Head(pc[p]) = pc[p][1] /\ pc[p][1] \in Op /\ pc[p][1].op = "cancel"
  BY DoingOp DEF CancelOne
<1>2. PICK c \in Cycles : c = pc[p][1].cycle
  BY <1>1, OpCases
<1>3. PICK s \in PendingFor(p, c) :
        /\ ~HeldByOther(p, s)
        /\ holds' = [holds EXCEPT ![p] = @ \cup {s}]
        /\ writes' = [writes EXCEPT ![p][s] = "cancelled"]
  BY <1>1, <1>2 DEF CancelOne
<1>4. /\ s \in Steps /\ s[1] = c /\ s \notin CycleRows /\ s \notin LockRows
      /\ writes[p][s] # "absent" \/ status[s] = "pending"
  BY <1>3, RowsApart DEF PendingFor, Seen, Steps
<1>5. /\ UNCHANGED <<status, fetched, pc, made>>
      /\ \A q \in Process \ {p} : holds'[q] = holds[q] /\ writes'[q] = writes[q] /\ s \notin holds[q]
      /\ holds'[p] = holds[p] \cup {s}
      /\ \A t \in Steps : writes'[p][t] = IF t = s THEN "cancelled" ELSE writes[p][t]
  BY <1>3, <1>4 DEF CancelOne, LockTypes, HeldByOther
<1>6. CycleRow(c) \in holds[p]
  <2>1. OrderedOp(p, holds[p], pc[p], 1)
    BY <1>1 DEF Ordered
  <2> QED  BY <1>1, <1>2, <2>1, TakenFirst DEF OrderedOp
<1>7. LockTypes' /\ Exclusive'
  <2>1. \A q \in Process : Idle(q)' => holds'[q] = {} /\ writes'[q] = NothingWritten
    BY <1>1, <1>5 DEF LockTypes, Idle
  <2>2. /\ holds' \in [Process -> SUBSET (LockRows \cup Steps)]
        /\ writes' \in [Process -> [Steps -> Statuses]]
    BY <1>3, <1>4 DEF LockTypes, Statuses
  <2>3. LockTypes'
    BY <1>5, <2>1, <2>2 DEF LockTypes, Idle, NothingWritten
  <2> QED  BY <1>5, <2>3 DEF Exclusive
<1>8. Ordered'
  <2>1. ASSUME NEW i \in DOMAIN pc[p]
        PROVE  OrderedOp(p, holds[p], pc[p], i)'
    <3>1. PICK ops, held : ops = pc[p] /\ held = holds[p]
      OBVIOUS
    <3>2. OrderedOp(p, held, ops, i) /\ ops[1].op = "cancel" /\ CycleRow(c) \in held /\ i \in Nat
      BY <1>1, <1>6, <2>1, <3>1 DEF Ordered
    <3>3. Taken(held \cup {s}, ops, i) = Taken(held, ops, i) \cup {s}
      BY DEF Taken
    <3>4. CycleRow(c) \in Taken(held, ops, i)
      BY <3>2 DEF Taken
    <3>5. OrderedOp(p, held \cup {s}, ops, i)
      BY <1>4, <3>2, <3>3, <3>4 DEF OrderedOp
    <3>6. OrderedOp(p, held \cup {s}, ops, i)'
      BY <1>5, <2>1, <3>1, <3>5, OpsTyped, OrderedFrame
    <3>7. holds'[p] = held \cup {s} /\ pc'[p] = ops
      BY <1>5, <3>1
    <3> QED  BY <3>6, <3>7 DEF OrderedOp
  <2>2. ASSUME NEW q \in Process \ {p}, NEW i \in DOMAIN pc[q]
        PROVE  OrderedOp(q, holds[q], pc[q], i)'
    <3>1. PICK ops, held : ops = pc[q] /\ held = holds[q]
      OBVIOUS
    <3>2. OrderedOp(q, held, ops, i)'
      BY <1>5, <2>2, <3>1, OpsTyped, OrderedFrame DEF Ordered
    <3>3. pc'[q] = ops /\ holds'[q] = held
      BY <1>5, <3>1
    <3> QED  BY <3>2, <3>3 DEF OrderedOp
  <2>3. ASSUME NEW q \in Process \ {Worker}, NEW t \in holds'[q] \cap Steps
        PROVE  CycleRow(t[1]) \in holds'[q]
    BY <1>4, <1>5, <1>6, <2>3 DEF Ordered
  <2> QED  BY <1>5, <2>1, <2>2, <2>3 DEF Ordered
<1>9. WorkerSteps'
  BY <1>4, <1>5, <1>6, TransactionsAssumption DEF WorkerSteps, StepLast, WantsRow
<1>10. OnePlan'
  <2>1. \A q \in Process, d \in Cycles : IntentOf(q, d)' <=> IntentOf(q, d)
    <3> TAKE q \in Process, d \in Cycles
    <3>1. IntentRow(d) # s
      BY <1>4 DEF LockRows
    <3> QED  BY <1>5, <3>1 DEF IntentOf
  <2>2. ASSUME NEW q \in Process, NEW t \in Steps, writes'[q][t] # "absent"
        PROVE  /\ t \in holds'[q]
               /\ status[t] # "absent" \/ IntentOf(q, t[1])
               /\ q # Worker => status[t] # "dispatched"
    BY <1>4, <1>5, <2>2 DEF OnePlan
  <2>3. \A t \in Steps : t[1] \in Cycles
    BY RowsApart
  <2> QED  BY <1>5, <2>1, <2>2, <2>3 DEF OnePlan
<1> QED  BY <1>7, <1>8, <1>9, <1>10

\* What a commit and a rollback have in common: p is idle afterwards.
Ended(p) ==
  /\ EndTransaction(p)
  /\ \/ status' = [s \in Steps |-> Seen(p, s)] /\ pc[p] = <<>> /\ fetched' = fetched
     \/ status' = status /\ fetched' \in SUBSET fetched

LEMMA EndKeeps ==
  ASSUME LockInv, NEW p \in Process, Ended(p)
  PROVE  LockInv'
<1> USE DEF LockInv
<1>1. /\ \A q \in Process \ {p} : pc'[q] = pc[q] /\ holds'[q] = holds[q] /\ writes'[q] = writes[q]
      /\ pc'[p] = NoOps /\ holds'[p] = {} /\ writes'[p] = NothingWritten
      /\ made' = made
  BY DEF Ended, EndTransaction, LockTypes
<1>2. \A s \in Steps : \/ status'[s] = status[s]
                       \/ status'[s] = writes[p][s] /\ writes[p][s] # "absent"
  <2>1. CASE status' = [s \in Steps |-> Seen(p, s)]
    BY <2>1 DEF Seen
  <2>2. CASE status' = status
    BY <2>2
  <2> QED  BY <2>1, <2>2 DEF Ended
<1>3. \A s \in Steps : status[s] # "absent" => status'[s] # "absent"
  BY <1>2
<1>4. LockTypes'
  <2>1. status' \in [Steps -> Statuses]
    BY DEF Ended, Seen, LockTypes
  <2>2. fetched' \in SUBSET Steps /\ \A s \in fetched' : status'[s] # "absent"
    BY <1>3 DEF Ended, LockTypes
  <2>3. /\ pc' \in [Process -> Seq(Op) \cup {NoOps}]
        /\ holds' \in [Process -> SUBSET (LockRows \cup Steps)]
        /\ writes' \in [Process -> [Steps -> Statuses]]
    BY DEF Ended, EndTransaction, LockTypes, NothingWritten, Statuses
  <2>4. \A q \in Process : Idle(q)' => holds'[q] = {} /\ writes'[q] = NothingWritten
    BY <1>1 DEF LockTypes, Idle
  <2> QED  BY <1>1, <2>1, <2>2, <2>3, <2>4 DEF LockTypes, Idle, NothingWritten
<1>5. Exclusive'
  BY <1>1 DEF Exclusive
<1>6. Ordered'
  <2>1. ASSUME NEW q \in Process, NEW i \in DOMAIN pc'[q]
        PROVE  OrderedOp(q, holds[q], pc[q], i)'
    <3>1. CASE q = p
      BY <1>1, <2>1, <3>1 DEF OrderedOp, NoOps
    <3>2. CASE q # p
      <4>1. PICK ops, held : ops = pc[q] /\ held = holds[q]
        OBVIOUS
      <4>2. OrderedOp(q, held, ops, i) /\ (ops[i].op = "step" => ops[i].row \in Steps)
        BY <1>1, <2>1, <3>2, <4>1, OpsTyped DEF Ordered
      <4>3. OrderedOp(q, held, ops, i)'
        BY <1>3, <4>2, OrderedFrame
      <4>4. pc'[q] = ops /\ holds'[q] = held
        BY <1>1, <3>2, <4>1
      <4> QED  BY <4>3, <4>4 DEF OrderedOp
    <3> QED  BY <3>1, <3>2
  <2> QED  BY <1>1, <2>1 DEF Ordered
<1>7. WorkerSteps'
  <2>1. CASE p = Worker
    BY <1>1, <2>1 DEF WorkerSteps, StepLast, NoOps, WantsRow, NothingWritten
  <2>2. CASE p # Worker
    <3>1. \A s \in Steps : status[s] = "dispatched" => status'[s] = "dispatched"
      BY <1>2, <2>2 DEF OnePlan
    <3>2. Worker \in Process
      BY TransactionsAssumption
    <3>3. \A i \in DOMAIN pc[Worker] : pc[Worker][i].op = "step" => pc[Worker][i].row \in Steps
      BY <3>2, OpsTyped
    <3> QED  BY <1>1, <2>2, <3>1, <3>2, <3>3 DEF WorkerSteps, StepLast, WantsRow
  <2> QED  BY <2>1, <2>2
<1>8. OnePlan'
  <2>1. \A q \in Process, c \in Cycles : IntentOf(q, c)' <=> q # p /\ IntentOf(q, c)
    BY <1>1 DEF IntentOf, NoOps, Lock
  <2>2. ASSUME NEW q \in Process \ {p}, NEW c \in Cycles, IntentOf(q, c),
               NEW s \in Steps, s[1] = c
        PROVE  status'[s] = "absent"
    BY <1>2, <2>2 DEF OnePlan
  <2>3. ASSUME NEW q \in Process, NEW s \in Steps, writes'[q][s] # "absent"
        PROVE  q # p /\ writes[q][s] # "absent" /\ status'[s] = status[s]
    <3>1. q # p /\ writes[q][s] # "absent"
      BY <1>1, <2>3 DEF NothingWritten
    <3>2. s \in holds[q]
      BY <3>1 DEF OnePlan
    <3>3. writes[p][s] = "absent"
      BY <3>1, <3>2 DEF OnePlan, Exclusive
    <3> QED  BY <1>2, <3>1, <3>3
  <2>4. ASSUME NEW s \in Steps, status'[s] # "absent"
        PROVE  <<"outcome", s[1]>> \in made
    BY <1>2, <2>4, RowsApart DEF OnePlan
  <2>5. \A s \in Steps : s[1] \in Cycles
    BY RowsApart
  <2> QED  BY <1>1, <2>1, <2>2, <2>3, <2>4, <2>5 DEF OnePlan
<1> QED  BY <1>4, <1>5, <1>6, <1>7, <1>8

------------------------------------------------------------------------------
(* Opening a transaction *)

\* p starts ops, in the order of the locks, with the rows H of a batch locked.
Opened(p, ops, H) ==
  /\ ops \in Seq(Op)
  /\ Idle(p)
  /\ pc' = [pc EXCEPT ![p] = ops]
  /\ holds' = [holds EXCEPT ![p] = H]
  /\ UNCHANGED <<status, writes>>
  /\ H \in SUBSET Steps
  /\ p # Worker => H = {}
  /\ \A q \in Process \ {p} : H \cap holds[q] = {}
  /\ fetched' \in SUBSET Steps
  /\ \A s \in fetched' : status[s] # "absent"
  /\ made' \in SUBSET Requests
  /\ made \subseteq made'
  /\ \A i \in DOMAIN ops : OrderedOp(p, H, ops, i)
  /\ p = Worker => StepLast(ops)
  /\ \A c \in Cycles, i \in DOMAIN ops :
       ops[i] = Lock(IntentRow(c)) => p # Worker /\ <<"outcome", c>> \in made' \ made

LEMMA OpenedKeeps ==
  ASSUME LockInv, NEW p \in Process, NEW ops, NEW H, Opened(p, ops, H)
  PROVE  LockInv'
<1> USE DEF LockInv
<1>1. /\ \A q \in Process \ {p} : pc'[q] = pc[q] /\ holds'[q] = holds[q]
      /\ pc'[p] = ops /\ holds'[p] = H
      /\ status' = status /\ writes' = writes
      /\ holds[p] = {} /\ writes[p] = NothingWritten
  BY DEF Opened, LockTypes
<1>2. LockTypes'
  <2>1. NoOps \notin Seq(Op)
    <3> SUFFICES ASSUME NoOps \in Seq(Op) PROVE FALSE
      OBVIOUS
    <3>1. [op |-> "end"] \in Op
      BY DEF NoOps
    <3> QED  BY <3>1, OpCases
  <2>2. \A q \in Process : Idle(q)' => holds'[q] = {} /\ writes'[q] = NothingWritten
    BY <1>1, <2>1 DEF LockTypes, Idle, Opened
  <2>3. /\ pc' \in [Process -> Seq(Op) \cup {NoOps}]
        /\ holds' \in [Process -> SUBSET (LockRows \cup Steps)]
    BY DEF Opened, LockTypes
  <2>4. /\ status' \in [Steps -> Statuses] /\ writes' \in [Process -> [Steps -> Statuses]]
        /\ fetched' \in SUBSET Steps /\ made' \in SUBSET Requests
        /\ \A s \in fetched' : status'[s] # "absent"
    BY <1>1 DEF Opened, LockTypes
  <2> QED  BY <2>2, <2>3, <2>4 DEF LockTypes, Idle, NothingWritten
<1>3. Exclusive'
  BY <1>1 DEF Exclusive, Opened
<1>4. Ordered'
  <2>1. ASSUME NEW q \in Process, NEW i \in DOMAIN pc'[q]
        PROVE  OrderedOp(q, holds[q], pc[q], i)'
    <3>1. PICK theirs, held : theirs = pc'[q] /\ held = holds'[q]
      OBVIOUS
    <3>2. OrderedOp(q, held, theirs, i)
      BY <1>1, <2>1, <3>1 DEF Ordered, Opened
    <3>3. theirs[i].op = "step" => theirs[i].row \in Steps
      <4>1. CASE q = p
        BY <1>1, <2>1, <3>1, <4>1, OpCases DEF Opened
      <4>2. CASE q # p
        BY <1>1, <2>1, <3>1, <4>2, OpsTyped
      <4> QED  BY <4>1, <4>2
    <3>4. OrderedOp(q, held, theirs, i)'
      BY <1>1, <3>2, <3>3, OrderedFrame
    <3> QED  BY <3>1, <3>4 DEF OrderedOp
  <2>2. ASSUME NEW q \in Process \ {Worker}, NEW t \in holds'[q] \cap Steps
        PROVE  CycleRow(t[1]) \in holds'[q]
    BY <1>1, <2>2 DEF Ordered, Opened
  <2> QED  BY <2>1, <2>2 DEF Ordered
<1>5. WorkerSteps'
  <2>1. Worker \in Process
    BY TransactionsAssumption
  <2>2. CASE p = Worker
    BY <1>1, <2>1, <2>2 DEF WorkerSteps, StepLast, WantsRow, NothingWritten, Opened
  <2>3. CASE p # Worker
    BY <1>1, <2>1, <2>3 DEF WorkerSteps, StepLast, WantsRow
  <2> QED  BY <2>2, <2>3
<1>6. OnePlan'
  <2>1. \A q \in Process \ {p}, c \in Cycles : IntentOf(q, c)' <=> IntentOf(q, c)
    BY <1>1 DEF IntentOf
  <2>2. ASSUME NEW c \in Cycles, IntentOf(p, c)'
        PROVE  /\ p # Worker /\ <<"outcome", c>> \in made' \ made
               /\ \A q \in Process : ~IntentOf(q, c)
               /\ \A s \in Steps : s[1] = c => status[s] = "absent"
    <3>1. \E i \in DOMAIN ops : ops[i] = Lock(IntentRow(c))
      <4>1. IntentRow(c) \notin H
        BY RowsApart DEF Opened, LockRows
      <4> QED  BY <1>1, <2>2, <4>1 DEF IntentOf, Lock, IntentRow
    <3>2. p # Worker /\ <<"outcome", c>> \in made' \ made
      BY <3>1 DEF Opened
    <3> QED  BY <3>2 DEF OnePlan
  <2>3. \A c \in Cycles : ~IntentOf(p, c)
    BY <1>1 DEF IntentOf, Opened, Idle, NoOps, Lock
  <2>4. \A s \in Steps : s[1] \in Cycles
    BY RowsApart
  <2>5. ASSUME NEW q \in Process, NEW s \in Steps, writes'[q][s] # "absent"
        PROVE  /\ s \in holds'[q]
               /\ status[s] # "absent" \/ IntentOf(q, s[1])'
               /\ q # Worker => status[s] # "dispatched"
    <3>1. q # p
      BY <1>1, <2>5 DEF NothingWritten
    <3> QED  BY <1>1, <2>1, <2>4, <2>5, <3>1 DEF OnePlan
  <2>6. ASSUME NEW q \in Process, NEW c \in Cycles, IntentOf(q, c)'
        PROVE  /\ q # Worker /\ <<"outcome", c>> \in made'
               /\ \A s \in Steps : s[1] = c => status[s] = "absent"
               /\ \A r \in Process : IntentOf(r, c)' => r = q
    <3>1. CASE q = p
      BY <2>1, <2>2, <2>6, <3>1
    <3>2. CASE q # p
      <4>1. IntentOf(q, c)
        BY <2>1, <2>6, <3>2
      <4>2. ~IntentOf(p, c)'
        BY <2>2, <4>1
      <4> QED  BY <2>1, <4>1, <4>2 DEF OnePlan, Opened
    <3> QED  BY <3>1, <3>2
  <2>7. \A s \in Steps : status[s] # "absent" => <<"outcome", s[1]>> \in made'
    BY DEF OnePlan, Opened
  <2> QED  BY <1>1, <2>5, <2>6, <2>7 DEF OnePlan
<1> QED  BY <1>2, <1>3, <1>4, <1>5, <1>6

------------------------------------------------------------------------------
(* The transactions lock in order *)

LEMMA TakenOf ==
  ASSUME NEW held, NEW ops, NEW i
  PROVE  /\ \A j \in 1 .. i - 1 : ops[j].op = "lock" => ops[j].row \in Taken(held, ops, i)
         /\ (\A j \in 1 .. i - 1 : ops[j].op # "lock") => Taken(held, ops, i) = held
         /\ \A rows : held \subseteq rows /\ (\A j \in 1 .. i - 1 : ops[j].op = "lock" => ops[j].row \in rows)
                        => Taken(held, ops, i) \subseteq rows
BY DEF Taken

LEMMA AnOp ==
  /\ \A row \in LockRows : Lock(row) \in Op
  /\ \A s \in Steps, to \in Statuses \ {"absent"} : SetStep(s, to) \in Op
  /\ \A c \in Cycles : CancelPendingOf(c) \in Op
  /\ Audit \in Op
BY DEF Op

\* A transaction the worker may open with the rows H of a batch locked.
WorkerOps(ops, H) ==
  /\ ops \in Seq(Op)
  /\ \A i \in DOMAIN ops : OrderedOp(Worker, H, ops, i)
  /\ StepLast(ops)
  /\ \A c \in Cycles, i \in DOMAIN ops : ops[i] # Lock(IntentRow(c))

LEMMA StepTransactionsOrdered ==
  ASSUME NEW s \in Steps, status[s] # "absent", NEW H \in SUBSET Steps, H = {} \/ s \in H,
         NEW ops \in StepTransactions(s)
  PROVE  WorkerOps(ops, H)
<1> USE DEF Lock, SetStep, Audit, CancelPendingOf
<1>1. s[1] \in Cycles /\ CycleRow(s[1]) \in CycleRows /\ CycleRow(s[1]) \in LockRows
      /\ H \cap CycleRows = {} /\ \A c \in Cycles : CycleRow(s[1]) # IntentRow(c)
  BY RowsApart DEF CycleRows, LockRows, IntentRow, CycleRow
<1>2. CASE ops = <<Lock(CycleRow(s[1])), SetStep(s, "dispatched"), Audit>>
  <2>1. ops \in Seq(Op)
    <3>1. Lock(CycleRow(s[1])) \in Op /\ SetStep(s, "dispatched") \in Op /\ Audit \in Op
      BY <1>1, AnOp DEF Statuses
    <3> QED  BY <1>2, <3>1
  <2>2. OrderedOp(Worker, H, ops, 1)
    BY <1>1, <1>2, TakenFirst DEF OrderedOp
  <2>3. OrderedOp(Worker, H, ops, 2)
    <3>1. CycleRow(s[1]) \in Taken(H, ops, 2)
      BY <1>2, TakenOf
    <3> QED  BY <1>2, <3>1 DEF OrderedOp
  <2>4. OrderedOp(Worker, H, ops, 3)
    BY <1>2 DEF OrderedOp
  <2>5. StepLast(ops)
    BY <1>2 DEF StepLast, WantsRow
  <2> QED  BY <1>1, <1>2, <2>1, <2>2, <2>3, <2>4, <2>5 DEF WorkerOps
<1>3. ASSUME NEW to \in {"cancelled", "done"}, ops = <<SetStep(s, to), Audit>> \/ ops = <<SetStep(s, to)>>
      PROVE  WorkerOps(ops, H)
  <2>1. ops \in Seq(Op)
    <3>1. SetStep(s, to) \in Op /\ Audit \in Op
      BY AnOp DEF Statuses
    <3>2. <<SetStep(s, to), Audit>> \in Seq(Op) /\ <<SetStep(s, to)>> \in Seq(Op)
      BY <3>1
    <3> QED  BY <1>3, <3>2
  <2>2. OrderedOp(Worker, H, ops, 1)
    BY <1>3 DEF OrderedOp
  <2>3. 2 \in DOMAIN ops => OrderedOp(Worker, H, ops, 2)
    BY <1>3 DEF OrderedOp
  <2>4. StepLast(ops)
    BY <1>3 DEF StepLast, WantsRow
  <2> QED  BY <1>1, <1>3, <2>1, <2>2, <2>3, <2>4 DEF WorkerOps
<1> QED  BY <1>2, <1>3 DEF StepTransactions, CycleRow

LEMMA SettleTransactionsOrdered ==
  ASSUME NEW s \in Steps, status[s] = "dispatched", NEW ops \in SettleTransactions(s)
  PROVE  WorkerOps(ops, {})
<1> USE DEF Lock, SetStep, Audit, CancelPendingOf
<1>1. s[1] \in Cycles /\ CycleRow(s[1]) \in CycleRows /\ CycleRow(s[1]) \in LockRows
      /\ \A c \in Cycles : CycleRow(s[1]) # IntentRow(c)
  BY RowsApart DEF CycleRows, LockRows, IntentRow, CycleRow
<1> DEFINE step(to) == SetStep(s, to)
           cycle == Lock(CycleRow(s[1]))
           cancel == CancelPendingOf(s[1])
<1>2. step("done") \in Op /\ step("cancelled") \in Op /\ cycle \in Op /\ cancel \in Op /\ Audit \in Op
  BY <1>1, AnOp DEF Statuses
<1>3. \/ ops = <<step("done"), cycle, cancel, Audit>>
      \/ ops = <<step("done"), cycle, Audit>>
      \/ \E to \in {"done", "cancelled"} : ops = <<step(to), Audit>>
      \/ ops = <<Audit>>
  BY DEF SettleTransactions, CycleRow
<1>4. ops \in Seq(Op)
  <2> HIDE DEF step, cycle, cancel, Audit
  <2>1. /\ <<step("done"), cycle, cancel, Audit>> \in Seq(Op)
        /\ <<step("done"), cycle, Audit>> \in Seq(Op)
        /\ \A to \in {"done", "cancelled"} : <<step(to), Audit>> \in Seq(Op)
        /\ <<Audit>> \in Seq(Op)
    BY <1>2
  <2> QED  BY <1>3, <2>1
<1>5. ASSUME NEW i \in DOMAIN ops
      PROVE  OrderedOp(Worker, {}, ops, i)
  <2>1. CASE i = 1
    BY <1>3, <2>1 DEF OrderedOp
  <2>2. CASE i = 2
    <3>1. Taken({}, ops, 2) = {}
      <4>1. \A j \in 1 .. 2 - 1 : ops[j].op # "lock"
        BY <1>3, <1>5, <2>2
      <4> QED  BY <4>1, TakenOf
    <3> QED  BY <1>1, <1>3, <1>5, <2>2, <3>1 DEF OrderedOp
  <2>3. CASE i = 3
    <3>1. CycleRow(s[1]) \in Taken({}, ops, 3)
      BY <1>3, <1>5, <2>3, TakenOf
    <3> QED  BY <1>3, <1>5, <2>3, <3>1 DEF OrderedOp
  <2>4. CASE i = 4
    BY <1>3, <1>5, <2>4 DEF OrderedOp
  <2> QED  BY <1>3, <1>5, <2>1, <2>2, <2>3, <2>4
<1>6. StepLast(ops)
  BY <1>3 DEF StepLast, WantsRow
<1>7. \A c \in Cycles, i \in DOMAIN ops : ops[i] # Lock(IntentRow(c))
  BY <1>1, <1>3
<1> QED  BY <1>4, <1>5, <1>6, <1>7 DEF WorkerOps

LEMMA SweepOrdered ==
  ASSUME NEW c \in Cycles
  PROVE  WorkerOps(<<Lock(CycleRow(c)), Audit>>, {})
<1> USE DEF Lock, Audit
<1>1. CycleRow(c) \in CycleRows /\ CycleRow(c) \in LockRows /\ \A d \in Cycles : CycleRow(c) # IntentRow(d)
  BY DEF CycleRows, LockRows, IntentRow, CycleRow
<1> DEFINE ops == <<Lock(CycleRow(c)), Audit>>
<1>2. ops \in Seq(Op)
  <2>1. Lock(CycleRow(c)) \in Op /\ Audit \in Op
    BY <1>1, AnOp
  <2> QED  BY <2>1
<1>3. OrderedOp(Worker, {}, ops, 1) /\ OrderedOp(Worker, {}, ops, 2)
  BY <1>1, TakenFirst DEF OrderedOp
<1>4. StepLast(ops)
  BY DEF StepLast
<1> QED  BY <1>1, <1>2, <1>3, <1>4 DEF WorkerOps

\* A transaction another process may open for the request r.
RequestOps(ops, r) ==
  /\ ops \in Seq(Op)
  /\ \A p \in Process \ {Worker}, i \in DOMAIN ops : OrderedOp(p, {}, ops, i)
  /\ \A c \in Cycles, i \in DOMAIN ops : ops[i] = Lock(IntentRow(c)) => r = <<"outcome", c>>

LEMMA DueOrdered ==
  ASSUME NEW c \in Cycles
  PROVE  RequestOps(<<Lock(<<"mandate">>), Lock(CycleRow(c))>>, <<"due", c>>)
<1> USE DEF Lock
<1> DEFINE ops == <<Lock(<<"mandate">>), Lock(CycleRow(c))>>
<1>1. /\ CycleRow(c) \in CycleRows /\ CycleRow(c) \in LockRows
      /\ <<"mandate">> \in LockRows /\ <<"mandate">> \notin CycleRows
      /\ \A d \in Cycles : CycleRow(c) # IntentRow(d) /\ <<"mandate">> # IntentRow(d)
  BY RowsApart DEF CycleRows, LockRows, IntentRow, CycleRow
<1>2. ops \in Seq(Op)
  <2>1. Lock(<<"mandate">>) \in Op /\ Lock(CycleRow(c)) \in Op
    BY <1>1, AnOp
  <2> QED  BY <2>1
<1>3. ASSUME NEW p \in Process \ {Worker}
      PROVE  OrderedOp(p, {}, ops, 1) /\ OrderedOp(p, {}, ops, 2)
  <2>1. OrderedOp(p, {}, ops, 1)
    BY <1>1, TakenFirst DEF OrderedOp
  <2>2. <<"mandate">> \in Taken({}, ops, 2)
    BY TakenOf
  <2>3. OrderedOp(p, {}, ops, 2)
    BY <1>1, <2>2 DEF OrderedOp
  <2> QED  BY <2>1, <2>3
<1> QED  BY <1>1, <1>2, <1>3 DEF RequestOps

\* A kill switch: its row alone.
LEMMA SwitchOrdered ==
  RequestOps(<<Lock(<<"switch">>), Audit>>, <<"switch">>)
<1> USE DEF Lock, Audit
<1> DEFINE ops == <<Lock(<<"switch">>), Audit>>
<1>1. /\ <<"switch">> \in LockRows /\ <<"switch">> \notin CycleRows
      /\ \A d \in Cycles : <<"switch">> # IntentRow(d)
  BY RowsApart DEF LockRows, IntentRow
<1>2. ops \in Seq(Op)
  <2>1. Lock(<<"switch">>) \in Op /\ Audit \in Op
    BY <1>1, AnOp
  <2> QED  BY <2>1
<1>3. ASSUME NEW p \in Process \ {Worker}
      PROVE  OrderedOp(p, {}, ops, 1) /\ OrderedOp(p, {}, ops, 2)
  BY <1>1, TakenFirst DEF OrderedOp
<1> QED  BY <1>1, <1>2, <1>3 DEF RequestOps

\* An outcome: the intent, then the cycle, then the steps of the next plan, in
\* between audit rows.
LEMMA OutcomeOrdered ==
  ASSUME NEW c \in Cycles, NEW ops \in Seq(Op),
         \A i \in DOMAIN ops :
           \/ i = 1 /\ ops[i] = Lock(IntentRow(c))
           \/ ops[i] = Audit
           \/ i = 3 /\ ops[2] = Audit /\ ops[i] = Lock(CycleRow(c))
           \/ i = 2 /\ ops[i] = Lock(CycleRow(c))
           \/ /\ i > 3 /\ ops[3] = Lock(CycleRow(c)) /\ ops[1] = Lock(IntentRow(c))
              /\ \E s \in Steps : s[1] = c /\ ops[i] = SetStep(s, "pending")
  PROVE  RequestOps(ops, <<"outcome", c>>)
<1> USE DEF Lock, SetStep, Audit
<1>1. /\ CycleRow(c) \in CycleRows /\ IntentRow(c) \notin CycleRows
      /\ \A d \in Cycles : /\ CycleRow(c) # IntentRow(d)
                           /\ IntentRow(c) = IntentRow(d) => c = d
  BY RowsApart DEF CycleRows, IntentRow, CycleRow
<1>2. ASSUME NEW p \in Process \ {Worker}, NEW i \in DOMAIN ops
      PROVE  OrderedOp(p, {}, ops, i)
  <2>0. i \in Nat /\ DOMAIN ops = 1 .. Len(ops) /\ Len(ops) \in Nat
    OBVIOUS
  <2>1. CASE i = 1 /\ ops[i] = Lock(IntentRow(c))
    BY <1>1, <2>1, TakenFirst DEF OrderedOp
  <2>2. CASE ops[i] = Audit
    BY <2>2 DEF OrderedOp
  <2>3. CASE i \in {2, 3} /\ ops[i] = Lock(CycleRow(c)) /\ (i = 3 => ops[2] = Audit)
    <3>1. \A j \in 1 .. i - 1 : ops[j].op = "lock" => ops[j].row \in {IntentRow(c)}
      <4> TAKE j \in 1 .. i - 1
      <4>1. j \in DOMAIN ops /\ (j = 1 \/ (j = 2 /\ i = 3))
        BY <2>0, <2>3
      <4> QED  BY <2>3, <4>1
    <3>2. Taken({}, ops, i) \subseteq {IntentRow(c)}
      BY <3>1, TakenOf
    <3> QED  BY <1>1, <2>3, <3>2 DEF OrderedOp
  <2>4. ASSUME i > 3, ops[3] = Lock(CycleRow(c)), ops[1] = Lock(IntentRow(c)),
               NEW s \in Steps, s[1] = c, ops[i] = SetStep(s, "pending")
        PROVE  OrderedOp(p, {}, ops, i)
    <3>1. 1 \in 1 .. i - 1 /\ 3 \in 1 .. i - 1
      BY <2>0, <2>4
    <3>2. CycleRow(c) \in Taken({}, ops, i) /\ IntentRow(c) \in Taken({}, ops, i)
      BY <2>4, <3>1, TakenOf
    <3> QED  BY <2>4, <3>2 DEF OrderedOp
  <2> QED  BY <2>1, <2>2, <2>3, <2>4
<1>3. ASSUME NEW d \in Cycles, NEW i \in DOMAIN ops, ops[i] = Lock(IntentRow(d))
      PROVE  c = d
  BY <1>1, <1>3
<1> QED  BY <1>2, <1>3 DEF RequestOps

LEMMA OutcomeTransactionsOrdered ==
  ASSUME NEW c \in Cycles, NEW ops \in OutcomeTransactions(c)
  PROVE  RequestOps(ops, <<"outcome", c>>)
<1>1. /\ CycleRow(c) \in LockRows /\ IntentRow(c) \in LockRows
  BY DEF CycleRows, LockRows
<1> DEFINE intent == Lock(IntentRow(c))
           cycle == Lock(CycleRow(c))
           plan == [i \in StepNos |-> SetStep(<<c, i>>, "pending")]
<1>2. intent \in Op /\ cycle \in Op /\ Audit \in Op
  BY <1>1, AnOp
<1>3. \/ ops = <<Audit>>
      \/ ops = <<intent, cycle, Audit>>
      \/ ops = <<intent, Audit, cycle, Audit>>
      \/ ops = <<intent, Audit, cycle>> \o plan \o <<Audit>>
  <2>1. ops \in {<<Audit>>, <<intent, cycle, Audit>>, <<intent, Audit, cycle, Audit>>,
                 <<intent, Audit, cycle>> \o plan \o <<Audit>>}
    BY DEF OutcomeTransactions, CycleRow, IntentRow
  <2> QED  BY <2>1
<1>4. plan \in Seq(Op) /\ Len(plan) = StepCount /\ StepCount \in Nat
  <2>1. \A i \in StepNos : SetStep(<<c, i>>, "pending") \in Op
    BY AnOp DEF Steps, Statuses
  <2> QED  BY <2>1, TransactionsAssumption DEF StepNos
<1>5. \A i \in 1 .. StepCount : <<c, i>> \in Steps /\ plan[i] = SetStep(<<c, i>>, "pending")
  BY DEF Steps, StepNos
<1> HIDE DEF plan
<1>6. CASE ops = <<intent, Audit, cycle>> \o plan \o <<Audit>>
  <2> HIDE DEF intent, cycle
  <2>1. ops \in Seq(Op) /\ Len(ops) = 4 + StepCount
    BY <1>2, <1>4, <1>6
  <2>2. ops[1] = intent /\ ops[2] = Audit /\ ops[3] = cycle /\ ops[4 + StepCount] = Audit
    BY <1>2, <1>4, <1>6
  <2>3. ASSUME NEW i \in 4 .. 3 + StepCount
        PROVE  \E s \in Steps : s[1] = c /\ ops[i] = SetStep(s, "pending")
    <3>1. i - 3 \in 1 .. StepCount /\ ops[i] = plan[i - 3]
      BY <1>2, <1>4, <1>6
    <3> QED  BY <1>5, <3>1
  <2>4. DOMAIN ops = {1, 2, 3} \cup (4 .. 3 + StepCount) \cup {4 + StepCount}
    BY <1>4, <2>1
  <2>5. \A i \in 4 .. 3 + StepCount : i > 3
    OBVIOUS
  <2> QED  BY <2>1, <2>2, <2>3, <2>4, <2>5, OutcomeOrdered DEF intent, cycle
<1>7. CASE ops = <<Audit>>
  BY <1>2, <1>7, OutcomeOrdered
<1>8. CASE ops = <<intent, cycle, Audit>>
  <2> HIDE DEF intent, cycle
  <2>1. ops \in Seq(Op) /\ DOMAIN ops = {1, 2, 3}
    BY <1>2, <1>8
  <2>2. ops[1] = intent /\ ops[2] = cycle /\ ops[3] = Audit
    BY <1>8
  <2> QED  BY <2>1, <2>2, OutcomeOrdered DEF intent, cycle
<1>9. CASE ops = <<intent, Audit, cycle, Audit>>
  <2> HIDE DEF intent, cycle
  <2>1. ops \in Seq(Op) /\ DOMAIN ops = {1, 2, 3, 4}
    BY <1>2, <1>9
  <2>2. ops[1] = intent /\ ops[2] = Audit /\ ops[3] = cycle /\ ops[4] = Audit
    BY <1>9
  <2> QED  BY <2>1, <2>2, OutcomeOrdered DEF intent, cycle
<1> QED  BY <1>3, <1>6, <1>7, <1>8, <1>9

\* An opt-out or a revocation: the mandate, then cycle after cycle with its steps.
LEMMA AbandonOrdered ==
  ASSUME NEW n \in Nat, NEW q \in [1 .. n -> Cycles], NEW r
  PROVE  RequestOps(<<Lock(<<"mandate">>)>> \o AbandonAll(q), r)
<1> DEFINE all == AbandonAll(q)
           ops == <<Lock(<<"mandate">>)>> \o all
<1>1. /\ <<"mandate">> \in LockRows /\ <<"mandate">> \notin CycleRows
      /\ \A c \in Cycles : CycleRow(c) \in CycleRows /\ CycleRow(c) \in LockRows
      /\ \A c, d \in Cycles : CycleRow(c) # IntentRow(d) /\ IntentRow(d) # <<"mandate">>
  BY RowsApart DEF CycleRows, LockRows, CycleRow, IntentRow
<1>2. all = [k \in 1 .. 3 * n |-> Abandon(q[(k + 2) \div 3])[1 + ((k + 2) % 3)]]
  BY DEF AbandonAll
<1>3. \A c \in Cycles : /\ Abandon(c)[1] = Lock(CycleRow(c))
                        /\ Abandon(c)[2] = CancelPendingOf(c)
                        /\ Abandon(c)[3] = Audit
  BY DEF Abandon, CycleRow
<1>4. ASSUME NEW k \in 1 .. 3 * n
      PROVE  \E c \in Cycles :
               \/ all[k] = Lock(CycleRow(c))
               \/ all[k] = CancelPendingOf(c) /\ k - 1 \in 1 .. 3 * n /\ all[k - 1] = Lock(CycleRow(c))
               \/ all[k] = Audit
  <2>1. (k + 2) \div 3 \in 1 .. n /\ (k + 2) % 3 \in {0, 1, 2}
    OBVIOUS
  <2>2. CASE (k + 2) % 3 = 1
    <3>1. /\ k - 1 \in 1 .. 3 * n /\ ((k - 1) + 2) % 3 = 0
          /\ ((k - 1) + 2) \div 3 = (k + 2) \div 3
      BY <2>2
    <3>2. all[k] = CancelPendingOf(q[(k + 2) \div 3])
      BY <1>2, <1>3, <2>1, <2>2
    <3>3. all[k - 1] = Lock(CycleRow(q[(k + 2) \div 3]))
      <4>1. all[k - 1] = Abandon(q[((k - 1) + 2) \div 3])[1 + (((k - 1) + 2) % 3)]
        BY <1>2, <3>1
      <4> QED  BY <1>3, <2>1, <3>1, <4>1
    <3> QED  BY <2>1, <3>1, <3>2, <3>3
  <2>3. CASE (k + 2) % 3 # 1
    BY <1>2, <1>3, <2>1, <2>3
  <2> QED  BY <2>2, <2>3
<1> HIDE DEF all
<1>5. \A c \in Cycles : Lock(CycleRow(c)) \in Op /\ CancelPendingOf(c) \in Op /\ Audit \in Op
  BY <1>1, AnOp
<1>6. all \in Seq(Op) /\ Len(all) = 3 * n /\ Lock(<<"mandate">>) \in Op
  <2>1. \A k \in 1 .. 3 * n : all[k] \in Op
    BY <1>4, <1>5
  <2> QED  BY <1>1, <1>2, <2>1, AnOp
<1>7. /\ ops \in Seq(Op) /\ DOMAIN ops = 1 .. 1 + 3 * n /\ ops[1] = Lock(<<"mandate">>)
      /\ \A k \in 1 .. 3 * n : ops[k + 1] = all[k]
  BY <1>6
<1> HIDE DEF ops
<1>8. ASSUME NEW i \in DOMAIN ops
      PROVE  \/ i = 1
             \/ \E c \in Cycles :
                  \/ ops[i] = Lock(CycleRow(c))
                  \/ ops[i] = CancelPendingOf(c) /\ i - 1 \in 1 .. i - 1 /\ ops[i - 1] = Lock(CycleRow(c))
                  \/ ops[i] = Audit
  <2> SUFFICES ASSUME i # 1 PROVE \E c \in Cycles :
                  \/ ops[i] = Lock(CycleRow(c))
                  \/ ops[i] = CancelPendingOf(c) /\ i - 1 \in 1 .. i - 1 /\ ops[i - 1] = Lock(CycleRow(c))
                  \/ ops[i] = Audit
    OBVIOUS
  <2>1. i - 1 \in 1 .. 3 * n /\ (i - 1) + 1 = i /\ ((i - 1) - 1) + 1 = i - 1
    BY <1>7
  <2>2. PICK c \in Cycles :
               \/ all[i - 1] = Lock(CycleRow(c))
               \/ /\ all[i - 1] = CancelPendingOf(c) /\ (i - 1) - 1 \in 1 .. 3 * n
                  /\ all[(i - 1) - 1] = Lock(CycleRow(c))
               \/ all[i - 1] = Audit
    BY <1>4, <2>1
  <2>3. ops[i] = all[i - 1] /\ ((i - 1) - 1 \in 1 .. 3 * n => ops[i - 1] = all[(i - 1) - 1])
    BY <1>7, <2>1
  <2> QED  BY <2>1, <2>2, <2>3
<1>9. ASSUME NEW p \in Process \ {Worker}, NEW i \in DOMAIN ops
      PROVE  OrderedOp(p, {}, ops, i)
  <2>1. CASE i = 1
    BY <1>1, <1>7, <2>1, TakenFirst DEF OrderedOp, Lock
  <2>2. CASE i # 1
    <3>1. <<"mandate">> \in Taken({}, ops, i)
      <4>1. 1 \in 1 .. i - 1
        BY <1>7, <2>2
      <4>2. ops[1].op = "lock" /\ ops[1].row = <<"mandate">>
        BY <1>7 DEF Lock
      <4> QED  BY <4>1, <4>2, TakenOf
    <3>2. PICK c \in Cycles :
            \/ ops[i] = Lock(CycleRow(c))
            \/ ops[i] = CancelPendingOf(c) /\ i - 1 \in 1 .. i - 1 /\ ops[i - 1] = Lock(CycleRow(c))
            \/ ops[i] = Audit
      BY <1>8, <2>2
    <3>3. CASE ops[i] = Lock(CycleRow(c))
      BY <1>1, <3>1, <3>3 DEF OrderedOp, Lock
    <3>4. CASE ops[i] = CancelPendingOf(c) /\ i - 1 \in 1 .. i - 1 /\ ops[i - 1] = Lock(CycleRow(c))
      <4>1. CycleRow(c) \in Taken({}, ops, i)
        BY <3>4, TakenOf DEF Lock
      <4> QED  BY <3>4, <4>1 DEF OrderedOp, CancelPendingOf
    <3>5. CASE ops[i] = Audit
      BY <3>5 DEF OrderedOp, Audit
    <3> QED  BY <3>2, <3>3, <3>4, <3>5
  <2> QED  BY <2>1, <2>2
<1>10. ASSUME NEW d \in Cycles, NEW i \in DOMAIN ops
       PROVE  ops[i] # Lock(IntentRow(d))
  <2>1. \A row : Lock(row) = Lock(IntentRow(d)) => row = IntentRow(d)
    BY DEF Lock
  <2>2. \A c \in Cycles : CancelPendingOf(c) # Lock(IntentRow(d)) /\ Audit # Lock(IntentRow(d))
    BY DEF Lock, CancelPendingOf, Audit
  <2> QED  BY <1>1, <1>7, <1>8, <2>1, <2>2
<1>11. RequestOps(ops, r)
  BY <1>7, <1>9, <1>10 DEF RequestOps
<1> QED  BY <1>11 DEF ops, all

LEMMA RequestTransactionsOrdered ==
  ASSUME NEW r \in Requests, NEW ops \in RequestTransactions(r)
  PROVE  RequestOps(ops, r)
<1>1. \/ r \in {"due", "outcome"} \X Cycles
      \/ r \in {<<"revoked">>, <<"opted_out">>, <<"switch">>}
  BY TransactionsAssumption
<1>2. ASSUME NEW c \in Cycles, r = <<"due", c>> PROVE RequestOps(ops, r)
  <2>1. ops = <<Lock(<<"mandate">>), Lock(CycleRow(c))>>
    BY <1>2 DEF RequestTransactions, CycleRow
  <2> QED  BY <1>2, <2>1, DueOrdered
<1>3. ASSUME NEW c \in Cycles, r = <<"outcome", c>> PROVE RequestOps(ops, r)
  <2>1. ops \in OutcomeTransactions(c)
    BY <1>3 DEF RequestTransactions
  <2> QED  BY <1>3, <2>1, OutcomeTransactionsOrdered
<1>4. CASE r \in {<<"revoked">>, <<"opted_out">>}
  <2>1. r[1] \in {"revoked", "opted_out"}
    BY <1>4
  <2>2. PICK a \in AbandonSome : ops = <<Lock(<<"mandate">>)>> \o a
    BY <2>1 DEF RequestTransactions
  <2>3. Cardinality(Cycles) \in Nat
    BY TransactionsAssumption, FS_CardinalityType
  <2>4. PICK n \in Nat : \E q \in [1 .. n -> Cycles] : a = AbandonAll(q)
    BY <2>2, <2>3 DEF AbandonSome, Injection
  <2> QED  BY <2>2, <2>4, AbandonOrdered
<1>5. CASE r = <<"switch">>
  <2>1. ops = <<Lock(<<"switch">>), Audit>>
    BY <1>5 DEF RequestTransactions
  <2> QED  BY <1>5, <2>1, SwitchOrdered
<1> QED  BY <1>1, <1>2, <1>3, <1>4, <1>5

------------------------------------------------------------------------------
(* The invariant *)

LEMMA LockInitial == Init => LockInv
<1> SUFFICES ASSUME Init PROVE LockInv
  OBVIOUS
<1>1. \A p \in Process : pc[p] = NoOps /\ holds[p] = {} /\ writes[p] = NothingWritten
  BY DEF Init
<1>2. LockTypes
  BY <1>1 DEF Init, LockTypes, Statuses, NothingWritten
<1>3. Exclusive
  BY <1>1 DEF Exclusive
<1>4. Ordered
  BY <1>1 DEF Ordered, OrderedOp, NoOps
<1>5. WorkerSteps
  BY <1>1, TransactionsAssumption DEF WorkerSteps, StepLast, NothingWritten, NoOps
<1>6. OnePlan
  BY <1>1 DEF OnePlan, IntentOf, Init, NothingWritten, NoOps, Lock
<1> QED  BY <1>2, <1>3, <1>4, <1>5, <1>6 DEF LockInv

LEMMA OpenRequestKeeps ==
  ASSUME LockInv, NEW p \in Process, OpenRequest(p)
  PROVE  LockInv'
<1>1. PICK r \in Requests \ made :
        /\ p # Worker /\ made' = made \cup {r}
        /\ \E ops \in RequestTransactions(r) : Open(p, ops)
        /\ UNCHANGED <<fetched, holds>>
  BY DEF OpenRequest
<1>2. PICK ops \in RequestTransactions(r) : Open(p, ops)
  BY <1>1
<1>3. RequestOps(ops, r)
  BY RequestTransactionsOrdered
<1>4. holds[p] = {} /\ holds' = [holds EXCEPT ![p] = {}]
  BY <1>1, <1>2 DEF Open, LockInv, LockTypes
<1>5. \A c \in Cycles, i \in DOMAIN ops : ops[i] = Lock(IntentRow(c)) => <<"outcome", c>> \in made' \ made
  BY <1>1, <1>3 DEF RequestOps
<1>6. Opened(p, ops, {})
  BY <1>1, <1>2, <1>3, <1>4, <1>5 DEF Opened, Open, RequestOps, LockInv, LockTypes
<1> QED  BY <1>6, OpenedKeeps

LEMMA WorkerOpensKeeps ==
  ASSUME LockInv, NEW ops, NEW H \in SUBSET Steps, WorkerOps(ops, H), Open(Worker, ops),
         holds' = [holds EXCEPT ![Worker] = H],
         \A q \in Process : H \cap holds[q] = {},
         fetched' \in SUBSET Steps, \A s \in fetched' : status[s] # "absent",
         made' = made
  PROVE  LockInv'
<1>1. Worker \in Process
  BY TransactionsAssumption
<1>2. Opened(Worker, ops, H)
  BY <1>1 DEF Opened, Open, WorkerOps, LockInv, LockTypes
<1> QED  BY <1>1, <1>2, OpenedKeeps

LEMMA WorkerKeeps ==
  ASSUME LockInv, FetchBatch \/ NextFetchedStep \/ Settle \/ Sweep
  PROVE  LockInv'
<1> USE DEF LockInv
<1>1. Worker \in Process
  BY TransactionsAssumption
<1>2. CASE FetchBatch
  <2>0. PICK due \in SUBSET {s \in Steps : status[s] = "pending" /\ ~Held(s)} : \E s \in due :
          /\ \E ops \in StepTransactions(s) : Open(Worker, ops)
          /\ holds' = [holds EXCEPT ![Worker] = due]
          /\ fetched' = due \ {s}
    BY <1>2 DEF FetchBatch
  <2>1. PICK s \in due :
          /\ \E ops \in StepTransactions(s) : Open(Worker, ops)
          /\ holds' = [holds EXCEPT ![Worker] = due]
          /\ fetched' = due \ {s}
    BY <2>0
  <2>2. PICK ops \in StepTransactions(s) : Open(Worker, ops)
    BY <2>1
  <2>3. s \in Steps /\ status[s] # "absent" /\ due \in SUBSET Steps
    OBVIOUS
  <2>4. WorkerOps(ops, due)
    BY <2>3, StepTransactionsOrdered
  <2>5. \A q \in Process : due \cap holds[q] = {}
    BY DEF Held
  <2>6. fetched' \in SUBSET Steps /\ \A t \in fetched' : status[t] # "absent"
    BY <2>1
  <2> QED  BY <1>2, <2>1, <2>2, <2>3, <2>4, <2>5, <2>6, WorkerOpensKeeps DEF FetchBatch
<1>3. ASSUME NEW ops, WorkerOps(ops, {}), Open(Worker, ops),
             fetched' \in SUBSET fetched, holds' = holds, made' = made
      PROVE  LockInv'
  <2>1. holds' = [holds EXCEPT ![Worker] = {}]
    BY <1>1, <1>3 DEF Open, LockTypes
  <2>2. fetched' \in SUBSET Steps /\ \A s \in fetched' : status[s] # "absent"
    BY <1>3 DEF LockTypes
  <2>3. \A q \in Process : {} \cap holds[q] = {}
    OBVIOUS
  <2>4. {} \in SUBSET Steps
    OBVIOUS
  <2> QED  BY <1>3, <2>1, <2>2, <2>3, <2>4, WorkerOpensKeeps
<1>4. CASE NextFetchedStep
  <2>1. PICK s \in fetched :
          /\ \E ops \in StepTransactions(s) : Open(Worker, ops)
          /\ fetched' = fetched \ {s} /\ UNCHANGED <<holds, made>>
    BY <1>4 DEF NextFetchedStep
  <2>2. s \in Steps /\ status[s] # "absent"
    BY DEF LockTypes
  <2> QED  BY <1>3, <2>1, <2>2, StepTransactionsOrdered
<1>5. CASE Settle
  <2>1. PICK s \in Steps : status[s] = "dispatched" /\ \E ops \in SettleTransactions(s) : Open(Worker, ops)
    BY <1>5 DEF Settle
  <2> QED  BY <1>3, <1>5, <2>1, SettleTransactionsOrdered DEF Settle
<1>6. CASE Sweep
  <2>1. PICK c \in Cycles : Open(Worker, <<Lock(CycleRow(c)), Audit>>)
    BY <1>6 DEF Sweep, CycleRow
  <2> QED  BY <1>3, <1>6, <2>1, SweepOrdered DEF Sweep
<1> QED  BY <1>2, <1>4, <1>5, <1>6

LEMMA LockNext == LockInv /\ [Next]_vars => LockInv'
<1> SUFFICES ASSUME LockInv, [Next]_vars PROVE LockInv'
  OBVIOUS
<1>1. CASE UNCHANGED txVars
  <2> USE DEF LockInv
  <2>1. /\ status' = status /\ fetched' = fetched /\ pc' = pc
        /\ holds' = holds /\ writes' = writes /\ made' = made
    BY <1>1 DEF txVars
  <2>2. LockTypes' /\ Exclusive'
    BY <2>1 DEF LockTypes, Exclusive, Idle, NothingWritten
  <2>3. Ordered'
    <3>1. ASSUME NEW q \in Process, NEW i \in DOMAIN pc[q]
          PROVE  OrderedOp(q, holds[q], pc[q], i)'
      <4>1. PICK ops, held : ops = pc[q] /\ held = holds[q]
        OBVIOUS
      <4>2. OrderedOp(q, held, ops, i)'
        BY <2>1, <3>1, <4>1, OpsTyped, OrderedFrame DEF Ordered
      <4> QED  BY <2>1, <4>1, <4>2 DEF OrderedOp
    <3> QED  BY <2>1, <3>1 DEF Ordered
  <2>4. WorkerSteps'
    BY <2>1 DEF WorkerSteps, StepLast, WantsRow
  <2>5. OnePlan'
    BY <2>1 DEF OnePlan, IntentOf
  <2> QED  BY <2>2, <2>3, <2>4, <2>5
<1>2. ASSUME NEW p \in Process, WriteAudit(p) PROVE LockInv'
  <2>1. CASE UNCHANGED pc
    BY <1>1, <1>2, <2>1 DEF WriteAudit, txVars
  <2>2. CASE Advance(p)
    BY <1>2, <2>2, NoLockKeeps DEF WriteAudit
  <2> QED  BY <1>2, <2>1, <2>2 DEF WriteAudit
<1>3. ASSUME NEW p \in Process, CancelDone(p) PROVE LockInv'
  BY <1>3, NoLockKeeps DEF CancelDone
<1>4. ASSUME NEW p \in Process, Commit(p) PROVE LockInv'
  BY <1>4, EndKeeps DEF Commit, Ended
<1>5. ASSUME NEW p \in Process, RollBack(p) PROVE LockInv'
  BY <1>5, EndKeeps DEF RollBack, Ended
<1>6. CASE EditRow
  BY <1>1, <1>6 DEF EditRow
<1>7. CASE UNCHANGED vars
  BY <1>1, <1>7 DEF vars
<1> QED
  BY <1>2, <1>3, <1>4, <1>5, <1>6, <1>7, OpenRequestKeeps, TakeLockKeeps, UpdateStepKeeps,
     CancelOneKeeps, WorkerKeeps DEF Next

\* The order of the locks, and whose steps are whose, hold in every state.
THEOREM LockInvHolds == Spec => []LockInv
BY LockInitial, LockNext, PTL DEF Spec

------------------------------------------------------------------------------
(* What follows *)

\* The tables, locks and uncommitted writes keep their types; a process with no
\* transaction open holds nothing.
THEOREM TransactionsTyped == Spec => []TransactionsTypeOK
<1>1. LockInv /\ AuditInv => TransactionsTypeOK
  BY DEF LockInv, LockTypes, AuditInv, AuditTypes, TransactionsTypeOK
<1> QED  BY <1>1, LockInvHolds, AuditInvHolds, PTL

\* What p wants when its next operation is o.
LEMMA WantedRow ==
  ASSUME LockInv, NEW p \in Process, NEW row \in Wanted(p)
  PROVE  /\ row \notin holds[p]
         /\ pc[p] \in Seq(Op) /\ 1 \in DOMAIN pc[p] /\ pc[p][1] \in Op
         /\ OrderedOp(p, holds[p], pc[p], 1) /\ Taken(holds[p], pc[p], 1) = holds[p]
         /\ \/ pc[p][1].op \in {"lock", "step"} /\ row = pc[p][1].row
            \/ /\ pc[p][1].op = "cancel" /\ row \in Steps /\ row[1] = pc[p][1].cycle
               /\ Seen(p, row) = "pending"
<1> USE DEF LockInv
<1>1. PICK op \in {"lock", "step", "cancel", "audit"} : Doing(p, op)
  BY DEF Wanted
<1>2. /\ pc[p] \in Seq(Op) /\ pc[p] # <<>> /\ 1 \in DOMAIN pc[p]
      /\ Head(pc[p]) = pc[p][1] /\ pc[p][1] \in Op /\ pc[p][1].op = op
  BY <1>1, DoingOp
<1>3. OrderedOp(p, holds[p], pc[p], 1) /\ Taken(holds[p], pc[p], 1) = holds[p]
  BY <1>2, TakenFirst DEF Ordered
<1>4. CASE op \in {"lock", "step"}
  BY <1>2, <1>3, <1>4 DEF Wanted, Doing
<1>5. CASE op = "cancel"
  <2>1. pc[p][1].cycle \in Cycles
    BY <1>2, <1>5, OpCases
  <2> QED  BY <1>2, <1>3, <1>5, <2>1 DEF Wanted, Doing, PendingFor, Steps
<1>6. op # "audit"
  BY <1>2 DEF Wanted, Doing
<1> QED  BY <1>4, <1>5, <1>6

\* Nobody who has locked a step's cycle waits for that step, but for the worker's
\* fetched batch.
LEMMA NoWaitUnderCycle ==
  ASSUME LockInv, NEW p \in Process, NEW q \in Process, NEW row \in Wanted(p) \cap holds[q],
         row \in Steps, CycleRow(row[1]) \in holds[p],
         q = Worker => BatchLocked = {} /\ \E wanted : wanted \in Wanted(q)
  PROVE  FALSE
<1> USE DEF LockInv
<1>1. p # q /\ CycleRow(row[1]) \notin holds[q]
  BY WantedRow DEF Exclusive
<1>2. q = Worker
  BY <1>1 DEF Ordered
<1>3. writes[Worker][row] # "absent"
  BY <1>2 DEF BatchLocked
<1>4. status[row] = "dispatched"
  <2>1. 1 \in DOMAIN pc[Worker] /\ WantsRow(pc[Worker][1])
    BY <1>2, WantedRow DEF WantsRow
  <2> QED  BY <1>1, <1>2, <1>3, <2>1 DEF WorkerSteps
<1>5. writes[p][row] = "absent"
  BY <1>1 DEF OnePlan, Exclusive
<1>6. pc[p][1].op \in {"lock", "step"} /\ row = pc[p][1].row
  BY <1>4, <1>5, WantedRow DEF Seen
<1>7. pc[p][1].op = "step"
  <2>1. pc[p][1].op = "lock" => row \in LockRows
    BY <1>6, WantedRow, OpCases
  <2> QED  BY <1>6, <2>1, RowsApart
<1>8. IntentRow(row[1]) \in holds[p]
  BY <1>1, <1>2, <1>6, <1>7, WantedRow DEF OrderedOp
<1>9. status[row] = "absent"
  BY <1>8, RowsApart DEF OnePlan, IntentOf
<1> QED  BY <1>4, <1>9

\* Processes that all wait for one another would lock against the order: whoever
\* holds a cycle waits for a cycle under the mandate's lock, and only one holds that.
THEOREM DeadlocksOfTheBatchOnly == Spec => []DeadlocksNeedTheBatch
<1>1. LockInv => DeadlocksNeedTheBatch
  <2> SUFFICES ASSUME LockInv, NEW waiting \in (SUBSET Process) \ {{}},
                      \A p \in waiting : \E q \in waiting : WaitsFor(p, q),
                      Worker \in waiting => BatchLocked = {}
               PROVE  FALSE
    BY DEF DeadlocksNeedTheBatch
  <2> USE DEF LockInv
  <2>1. ASSUME NEW p \in waiting
        PROVE  \E q \in waiting : \E row \in Wanted(p) : row \in holds[q]
    BY <2>1 DEF WaitsFor
  <2>2. ASSUME NEW p \in waiting, NEW q \in waiting, NEW row \in Wanted(p), row \in holds[q], row \in Steps
        PROVE  CycleRow(row[1]) \notin holds[p]
    BY <2>1, <2>2, NoWaitUnderCycle
  <2>3. ASSUME NEW p \in waiting, NEW c \in CycleRows, c \in holds[p]
        PROVE  /\ <<"mandate">> \in holds[p]
               /\ \E q \in waiting : q # p /\ \E d \in CycleRows : d \in holds[q]
    <3>1. PICK q \in waiting : \E row \in Wanted(p) : row \in holds[q]
      BY <2>1
    <3>2. PICK row \in Wanted(p) : row \in holds[q]
      BY <3>1
    <3>3. /\ row \notin holds[p] /\ pc[p][1] \in Op
          /\ OrderedOp(p, holds[p], pc[p], 1) /\ Taken(holds[p], pc[p], 1) = holds[p]
          /\ \/ pc[p][1].op \in {"lock", "step"} /\ row = pc[p][1].row
             \/ /\ pc[p][1].op = "cancel" /\ row \in Steps /\ row[1] = pc[p][1].cycle
                /\ Seen(p, row) = "pending"
      BY WantedRow
    <3>4. pc[p][1].op # "cancel"
      BY <2>2, <3>2, <3>3 DEF OrderedOp
    <3>5. pc[p][1].op # "step"
      <4> SUFFICES ASSUME pc[p][1].op = "step" PROVE FALSE
        OBVIOUS
      <4>1. row \in Steps /\ row = pc[p][1].row
        BY <3>3, OpCases
      <4>2. CycleRow(row[1]) \in holds[p]
        BY <2>3, <3>3, <4>1 DEF OrderedOp
      <4> QED  BY <2>2, <3>2, <4>1, <4>2
    <3>6. pc[p][1].op = "lock" /\ row = pc[p][1].row
      BY <3>3, <3>4, <3>5
    <3>7. row \in CycleRows
      BY <2>3, <3>3, <3>6 DEF OrderedOp
    <3>8. <<"mandate">> \in holds[p]
      BY <2>3, <3>3, <3>6, <3>7 DEF OrderedOp
    <3> QED  BY <3>2, <3>3, <3>7, <3>8
  <2>4. ASSUME NEW p \in waiting PROVE holds[p] \cap CycleRows = {}
    BY <2>3 DEF Exclusive
  <2>5. ASSUME NEW p \in waiting PROVE holds[p] = {}
    <3>1. PICK q \in waiting : \E row \in Wanted(p) : row \in holds[q]
      BY <2>1
    <3>2. PICK row \in Wanted(p) : row \in holds[q]
      BY <3>1
    <3>3. /\ row \notin holds[p] /\ pc[p][1] \in Op
          /\ OrderedOp(p, holds[p], pc[p], 1) /\ Taken(holds[p], pc[p], 1) = holds[p]
          /\ \/ pc[p][1].op \in {"lock", "step"} /\ row = pc[p][1].row
             \/ pc[p][1].op = "cancel" /\ pc[p][1].cycle \in Cycles
      BY WantedRow, OpCases
    <3>4. pc[p][1].op # "cancel"
      BY <2>4, <3>3 DEF OrderedOp, CycleRows
    <3>5. CASE pc[p][1].op = "step"
      <4>1. row \in Steps /\ CycleRow(row[1]) \in CycleRows
        BY <3>3, <3>5, OpCases, RowsApart DEF CycleRows
      <4> QED  BY <2>4, <3>3, <3>5, <4>1 DEF OrderedOp
    <3>6. CASE pc[p][1].op = "lock"
      <4>1. row \notin CycleRows
        BY <2>4, <3>2
      <4> QED  BY <3>3, <3>6, <4>1 DEF OrderedOp
    <3> QED  BY <3>3, <3>4, <3>5, <3>6
  <2> QED  BY <2>1, <2>5
<1> QED  BY <1>1, LockInvHolds, PTL
================================================================================
