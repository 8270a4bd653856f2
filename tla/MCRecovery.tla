------------------------------ MODULE MCRecovery ------------------------------
(***************************************************************************)
(* Small instances of RecoverySystem.  Two slots to a day, the first one   *)
(* non-peak; a notice must be one day and at most two days old.            *)
(***************************************************************************)
EXTENDS RecoverySystem

CONSTANTS c1, c2, m1

MCOneCycle == {c1}
MCTwoCycles == {c1, c2}
MCMandates == {m1}
MCMandateOf == [c \in Cycles |-> m1]
MCMerchantOf == [m \in Mandates |-> "merchant"]

Notify(t, debit) == [type |-> "notify", at |-> t, covers |-> debit]
Attempt(t) == [type |-> "attempt", at |-> t, covers |-> NoTime]

\* compute_fixed_schedule: each attempt preceded by its notice one day earlier.
FixedPlan == <<Notify(0, 2), Attempt(2), Notify(2, 4), Attempt(4)>>
\* A schedule that stops after its first attempt; the second notice is orphaned.
OrphanPlan == <<Notify(0, 2), Attempt(2), Notify(3, NoTime)>>
\* An attempt too soon after its notice, then one whose notice the contact cap
\* denies.
UnlawfulPlan == <<Notify(1, 2), Attempt(2), Notify(1, 4), Attempt(4)>>
\* An attempt whose notice is too old.
EarlyPlan == <<Notify(0, 4), Attempt(4)>>
ShortPlan == <<Notify(0, 2), Attempt(2)>>

\* An attempt in the second slot of a day.
PeakPlan == <<Notify(1, 3), Attempt(3)>>

MCAllPlans == {<<>>, FixedPlan, OrphanPlan, UnlawfulPlan, EarlyPlan, PeakPlan}
MCFixedPlan == {FixedPlan}
MCShortPlan == {ShortPlan}
MCDriftPlans == {FixedPlan, PeakPlan}

Webhook(n, t, x) == [ext |-> n, type |-> t, about |-> x]

Due(n, c) == Webhook(n, "mandate.cycle.due", c)
Failed(n, c) == Webhook(n, "debit.failed", c)
Succeeded(n, c) == Webhook(n, "debit.succeeded", c)
Revoked(n, m) == Webhook(n, "mandate.revoked", m)
OptedOut(n, m) == Webhook(n, "notification.opted_out", m)

\* One case: its life, with the mandate revoked at any time.
MCCaseEvents == {Due(1, c1), Failed(2, c1), Revoked(3, m1)}
\* A provider that also reports the opposite first outcome.
MCContradictoryEvents == {Due(1, c1), Failed(2, c1), Succeeded(3, c1), Revoked(4, m1)}
\* Every kind of event, and the next billing cycle of the same mandate.
MCTwoLifeEvents == {Due(1, c1), Failed(2, c1), Succeeded(3, c1), Revoked(4, m1),
                OptedOut(5, m1), Due(6, c2), Failed(7, c2)}

==============================================================================
