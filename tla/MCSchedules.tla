----------------------------- MODULE MCSchedules ------------------------------
(***************************************************************************)
(* Instances of Schedules: a short horizon with every curve of             *)
(* probabilities over its reachable slots, and the real horizon with the   *)
(* curves that have one good slot.                                         *)
(***************************************************************************)
EXTENDS Schedules

Curve(p) == [t \in Slots |-> IF t \in DOMAIN p THEN p[t] ELSE 0]

\* The exact planner makes no attempt before slot NoticeLead + 1.
MCEveryCurve ==
  {[p |-> Curve(p), success |-> x[1], manual |-> 40, manualLate |-> x[2]] :
     p \in [NoticeLead + 1 .. NSlots - 1 -> 0 .. ProbDen],
     x \in {<<80, 40>>, <<160, 8>>, <<160, 40>>}}

\* One slot with probability 3/4, a low one everywhere else.
MCOneGoodSlot ==
  {[p |-> [t \in Slots |-> IF t = good THEN 3 ELSE low],
    success |-> 256000, manual |-> 38400, manualLate |-> 7680] :
     good \in Slots, low \in {0, 1}}

MCPermittedHours == 0 .. 5 \cup 22 .. 23

==============================================================================
