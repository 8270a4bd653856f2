------------------------------ MODULE MCBenchmark ------------------------------
(***************************************************************************)
(* Small instances of Benchmark, with the plans of MCRecovery.             *)
(***************************************************************************)
EXTENDS Benchmark

CONSTANTS p1, p2

Notify(t, debit) == [type |-> "notify", at |-> t, covers |-> debit]
Attempt(t) == [type |-> "attempt", at |-> t, covers |-> NoTime]

\* Attempts on the second and the third day, on the second, on the third.
FixedPlan == <<Notify(0, 2), Attempt(2), Notify(2, 4), Attempt(4)>>
EarlyPlan == <<Notify(0, 2), Attempt(2)>>
LatePlan == <<Notify(2, 4), Attempt(4)>>

MCPairs == Policies \X Payers
MCSelf == [c \in MCPairs |-> c]
MCMerchantOf == [c \in MCPairs |-> "MERCH-BENCH"]
MCDueAt == [p \in Payers |-> 0]
MCPlans == {FixedPlan, EarlyPlan, LatePlan}
MCCandidates ==
  [a \in Policies |-> CASE a = "fixed" -> {FixedPlan}
                        [] a = "mre" -> {FixedPlan, EarlyPlan, Stop}
                        [] OTHER -> {EarlyPlan, LatePlan}]
MCShortCandidates == [a \in Policies |-> IF a = "fixed" THEN {EarlyPlan}
                                         ELSE {EarlyPlan, LatePlan}]
MCWebhooks == UNION {{DueEvent(c), Outcome(c, "debit.succeeded"),
                      Outcome(c, "debit.failed")} : c \in MCPairs}
MCOneBatch == <<150>>
MCSweep == <<150, 100>>

==============================================================================
