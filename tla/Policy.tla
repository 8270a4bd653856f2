-------------------------------- MODULE Policy --------------------------------
(***************************************************************************)
(* authorize() of backend/app/domain/policy.py: the gate every planned     *)
(* step passes when the worker picks it up.  A snapshot s is the record    *)
(* _build_snapshot fills.  Which of several failing checks is reported     *)
(* only reaches log rows, so the verdict is modelled as a predicate.       *)
(*                                                                         *)
(* Time is counted in slots, SlotsPerDay of them to a day; PermittedSlots  *)
(* are the non-peak ones.  NoticeMin and NoticeMaxAge are 24 hours and 7   *)
(* days, in slots.                                                         *)
(***************************************************************************)
EXTENDS Integers

CONSTANTS MaxAttempts, NoticeMin, NoticeMaxAge, ContactCap,
          SlotsPerDay, PermittedSlots

ASSUME PolicyAssumption ==
  /\ MaxAttempts \in Nat \ {0}
  /\ SlotsPerDay \in Nat \ {0}
  /\ NoticeMin \in Nat
  /\ NoticeMaxAge \in Nat
  /\ ContactCap \in Nat
  /\ PermittedSlots \subseteq 0 .. SlotsPerDay - 1

Day(t) == t \div SlotsPerDay

InPermittedWindow(t) == t % SlotsPerDay \in PermittedSlots

\* Seeded fault: a notice for any debit counts.
AnyNoticeCovers(notices, target) ==
  \E n \in notices : target - n.sent \in NoticeMin .. NoticeMaxAge

NoticeCoversDebit(notices, target) ==
  \E n \in notices : /\ n.covers = target
                     /\ target - n.sent \in NoticeMin .. NoticeMaxAge

\* Seeded faults: one of the shared gates is missing.
CaseOpenIgnoringMandate(s) == ~s.killed /\ ~s.optedOut
CaseOpenIgnoringKillSwitch(s) == s.active /\ ~s.optedOut

\* The gates NOTIFY and ATTEMPT share.
CaseOpenForAction(s) == ~s.killed /\ s.active /\ ~s.optedOut

AttemptAuthorized(s, target) ==
  /\ CaseOpenForAction(s)
  /\ s.attempts < MaxAttempts
  /\ InPermittedWindow(target)
  /\ NoticeCoversDebit(s.notices, target)
  /\ ~s.needsAFA

\* Quiet hours are never active: the worker passes a constant False.
NotifyAuthorized(s) == CaseOpenForAction(s) /\ s.contactsToday < ContactCap

==============================================================================
