--------------------------------- MODULE Rail ---------------------------------
(***************************************************************************)
(* The simulated rail (simulator/) and the HTTP client in front of it      *)
(* (adapters/simulator_client.py).  A handler looks the idempotency key    *)
(* up, then decides and inserts; the two are not one transaction.  The     *)
(* client gives up after a timeout, but a handler it no longer waits for   *)
(* goes on.                                                                *)
(***************************************************************************)
EXTENDS RecoveryDb

CONSTANT RailPermittedSlots  \* the rail's own table of non-peak slots

VARIABLES
  railOutcome,  \* attempts table: outcome by cycle and sequence number
  handling,     \* requests on their way to or inside /execute
  reply         \* what the waiting client has got back

railVars == <<railOutcome, handling, reply>>

Handler == [row : OutboxRow, stage : {"sent", "executing"}, awaited : BOOLEAN]
Reply == RailOutcome \cup {"none", "denied", "error"}

RailInit ==
  /\ railOutcome = [c \in Cycles |-> [n \in SequenceNos |-> "none"]]
  /\ handling = {}
  /\ reply = "none"

RailRecord(q) == railOutcome[q.row.cycle][q.row.seq]

RailInWindow(q) == q.row.at % SlotsPerDay \in RailPermittedSlots

Post(row) ==
  /\ handling' = handling \cup {[row |-> row, stage |-> "sent", awaited |-> TRUE]}
  /\ reply' = "none"
  /\ UNCHANGED railOutcome

\* The client stops waiting; the request itself is not recalled.
StopWaiting == handling' = {[q EXCEPT !.awaited = FALSE] : q \in handling}

Answer(q, what) ==
  /\ handling' = handling \ {q}
  /\ reply' = IF q.awaited THEN what ELSE reply

\* The key is known: the recorded outcome is replayed.
RailReplay(q) ==
  /\ q.stage = "sent"
  /\ RailRecord(q) # "none"
  /\ Answer(q, RailRecord(q))
  /\ UNCHANGED railOutcome

\* 409 OUTSIDE_EXECUTION_WINDOW, judged on the scheduled time.
RailRefuse(q) ==
  /\ q.stage = "sent"
  /\ RailRecord(q) = "none"
  /\ ~RailInWindow(q)
  /\ Answer(q, "denied")
  /\ UNCHANGED railOutcome

\* 503: nothing is recorded.
RailDown(q) ==
  /\ q.stage = "sent"
  /\ RailRecord(q) = "none"
  /\ RailInWindow(q)
  /\ Answer(q, "error")
  /\ UNCHANGED railOutcome

RailAccept(q) ==
  /\ q.stage = "sent"
  /\ RailRecord(q) = "none"
  /\ RailInWindow(q)
  /\ handling' = (handling \ {q}) \cup {[q EXCEPT !.stage = "executing"]}
  /\ UNCHANGED <<railOutcome, reply>>

\* Seeded fault: INSERT OR REPLACE in place of INSERT.
RailOverwrite(q) ==
  /\ q.stage = "executing"
  /\ \E outcome \in RailOutcome :
       /\ railOutcome' = [railOutcome EXCEPT ![q.row.cycle][q.row.seq] = outcome]
       /\ Answer(q, outcome)

\* Persist the outcome drawn; UNIQUE (cycle_id, sequence_no) refuses a second
\* insert with 409 NPCI_ATTEMPT_CAP_EXCEEDED.
RailPersist(q) ==
  /\ q.stage = "executing"
  /\ IF RailRecord(q) = "none"
     THEN \E outcome \in RailOutcome :
            /\ railOutcome' = [railOutcome EXCEPT ![q.row.cycle][q.row.seq] = outcome]
            /\ Answer(q, outcome)
     ELSE Answer(q, "denied") /\ UNCHANGED railOutcome

RailNext ==
  \E q \in handling :
    RailReplay(q) \/ RailRefuse(q) \/ RailDown(q) \/ RailAccept(q) \/ RailPersist(q)

==============================================================================
