------------------------------ MODULE AuditLedger ------------------------------
(***************************************************************************)
(* The tamper-evident audit ledger: the trigger audit_ledger_chain of      *)
(* migrations/0001_core.sql and verify_audit_chain of backend/app/repo.py. *)
(* A hash is the sequence of what was hashed: the row's own text, after    *)
(* that of the rows it was chained to.  (The previous hash comes first and *)
(* has one length, so it is kept apart.)  A row's own text is its fields   *)
(* put together without separators, so rows of different fields can have   *)
(* the same.                                                               *)
(***************************************************************************)
EXTENDS Integers, Sequences, FiniteSets, FiniteSetsExt

CONSTANTS
  Process,
  MaxId,     \* bound: audit ids ever handed out
  Contents,  \* bound: the fields a row may have; a text is a sequence of parts
  Written    \* by id: the fields the application writes into that row

ASSUME AuditAssumption ==
  /\ MaxId \in Nat /\ "committed" \notin Process
  /\ Written \in [1 .. MaxId -> Contents]

VARIABLES
  audit,   \* the rows that exist, by id: committed ones and those being written
  lastId,  \* the sequence audit_ledger_id_seq; a rollback does not turn it back
  drawn    \* by process: the id of the row its INSERT is about to write, or 0

auditVars == <<audit, lastId, drawn>>

\* A column that may be NULL is the set of its value, or {}.
Coalesce(column) == IF column = {} THEN <<>> ELSE CHOOSE text \in column : TRUE

\* What the trigger and the verifier hash of the row itself.
HashInput(x) == x.actor \o Coalesce(x.cycle_id) \o x.action \o x.detail \o x.at

Hashes == Seq({HashInput(x) : x \in Contents})

\* by: the process whose open transaction wrote the row, "committed" after it.
\* beside: the processes that had a row or an id of their own when this one was
\* written, those that drew an id since this one was drawn included.
AuditRow == [by : Process \cup {"committed"}, content : Contents, prev : Hashes,
             hash : Hashes, beside : SUBSET (Process \cup {"committed"})]

AuditInit == audit = <<>> /\ lastId = 0 /\ drawn = [p \in Process |-> 0]

CommittedIds == {i \in DOMAIN audit : audit[i].by = "committed"}
OpenFor(p) == {i \in DOMAIN audit : audit[i].by = p}

LastHash(ids) == IF ids = {} THEN <<>> ELSE audit[Max(ids)].hash

\* Seeded fault: the row before is the one numbered one less.
PrevByNumber(p) == LastHash({drawn[p] - 1} \cap (CommittedIds \cup OpenFor(p)))

\* SELECT hash ... ORDER BY id DESC LIMIT 1, as the trigger run by p sees the
\* table: committed rows and its own.
PrevFor(p) == LastHash(CommittedIds \cup OpenFor(p))

\* insert_audit: the default of the id column comes first, then the trigger.
DrawId(p) ==
  /\ drawn[p] = 0
  /\ lastId < MaxId
  /\ lastId' = lastId + 1
  /\ drawn' = [drawn EXCEPT ![p] = lastId']
  /\ UNCHANGED audit

Beside(p) ==
  {audit[i].by : i \in {i \in DOMAIN audit : audit[i].by # "committed" \/ i > drawn[p]}}
    \cup {q \in Process : drawn[q] # 0}

InsertAudit(p) ==
  /\ drawn[p] # 0
  /\ audit' = [i \in DOMAIN audit \cup {drawn[p]} |->
       IF i # drawn[p] THEN audit[i]
       ELSE [by |-> p, content |-> Written[i], prev |-> PrevFor(p),
             hash |-> Append(PrevFor(p), HashInput(Written[i])),
             beside |-> Beside(p) \ {p}]]
  /\ drawn' = [drawn EXCEPT ![p] = 0]
  /\ UNCHANGED lastId

CommitAudit(p) ==
  /\ audit' = [i \in DOMAIN audit |-> IF audit[i].by = p
                 THEN [audit[i] EXCEPT !.by = "committed"] ELSE audit[i]]
  /\ UNCHANGED <<lastId, drawn>>

RollBackAudit(p) ==
  /\ audit' = [i \in DOMAIN audit \ OpenFor(p) |-> audit[i]]
  /\ drawn' = [drawn EXCEPT ![p] = 0]
  /\ UNCHANGED lastId

\* Somebody edits a committed row outside the application, its hash apart.
Edit(i) ==
  /\ i \in CommittedIds
  /\ \E x \in Contents \ {audit[i].content} : audit' = [audit EXCEPT ![i].content = x]
  /\ UNCHANGED <<lastId, drawn>>

Edited == {i \in CommittedIds : audit[i].content # Written[i]}

\* LAG(hash) OVER (ORDER BY id)
LagHash(i) == LastHash({j \in CommittedIds : j < i})

\* The rows whose stored hash differs from the one recomputed.
BrokenRows ==
  {i \in CommittedIds : audit[i].hash # Append(LagHash(i), HashInput(audit[i].content))}

\* verify_audit_chain: 0 stands for (True, None).
FirstBroken == IF BrokenRows = {} THEN 0 ELSE Min(BrokenRows)

==============================================================================
