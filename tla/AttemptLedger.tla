---------------------------- MODULE AttemptLedger ----------------------------
(***************************************************************************)
(* What the attempt book-keeping promises, whatever webhooks, crashes and  *)
(* lost replies do to the machinery: each case has at most MaxAttempts     *)
(* debit attempts, opened in order and one at a time; an attempt gets one  *)
(* outcome; none is opened after a success or a refusal by the rail.       *)
(***************************************************************************)
EXTENDS Naturals

CONSTANTS Cycles, MaxAttempts

VARIABLE ledger  \* outcome of each attempt of each case

Outcomes == {"success", "failure", "unknown", "blocked"}
Numbers == 1 .. MaxAttempts

Retryable(outcome) == outcome \in {"failure", "unknown"}

Init == ledger = [c \in Cycles |-> [n \in Numbers |-> "none"]]

\* The merchant's own first attempt is learnt together with its outcome.
FirstAttempt(c) ==
  /\ \A n \in Numbers : ledger[c][n] = "none"
  /\ \E outcome \in {"success", "failure"} :
       ledger' = [ledger EXCEPT ![c][1] = outcome]

Open(c, n) ==
  /\ ledger[c][n] = "none"
  /\ \E m \in Numbers : m < n
  /\ \A m \in Numbers : m < n => Retryable(ledger[c][m])
  /\ ledger' = [ledger EXCEPT ![c][n] = "reserved"]

Resolve(c, n) ==
  /\ ledger[c][n] = "reserved"
  /\ \E outcome \in Outcomes : ledger' = [ledger EXCEPT ![c][n] = outcome]

Next == \E c \in Cycles :
          FirstAttempt(c) \/ \E n \in Numbers : Open(c, n) \/ Resolve(c, n)

Spec == Init /\ [][Next]_ledger

==============================================================================
