------------------------------- MODULE CaseFSM -------------------------------
(***************************************************************************)
(* The recovery-case state machine of backend/app/domain/fsm.py: a pure    *)
(* table of edges.  The database may hold a state the table never leads    *)
(* to, because callers compute the next state from a state they read       *)
(* earlier; that is the business of the modules that use the table.        *)
(***************************************************************************)

CaseState == {"DUE", "DIAGNOSING", "PLANNING", "SCHEDULED", "EXECUTING",
              "ESCALATING", "AWAITING_MANUAL", "RECOVERED", "ABANDONED"}

TerminalStates == {"RECOVERED", "ABANDONED"}

Event == {"CYCLE_FAILED", "CAUSE_NORMALIZED", "PLAN_READY",
          "STOP_AND_ESCALATE", "STEP_DUE", "ATTEMPT_FAILED_BUDGET_LEFT",
          "ATTEMPT_SUCCEEDED", "BUDGET_EXHAUSTED", "MANDATE_REVOKED",
          "OPTED_OUT", "ESCALATED", "MANUAL_SUCCEEDED", "MANUAL_ABANDONED"}

\* <<state, event, next state>>; a missing pair is an illegal transition.
Transitions ==
  { <<"DUE",             "CYCLE_FAILED",               "DIAGNOSING">>,
    <<"DIAGNOSING",      "CAUSE_NORMALIZED",           "PLANNING">>,
    <<"PLANNING",        "PLAN_READY",                 "SCHEDULED">>,
    <<"PLANNING",        "STOP_AND_ESCALATE",          "ESCALATING">>,
    <<"SCHEDULED",       "STEP_DUE",                   "EXECUTING">>,
    <<"SCHEDULED",       "BUDGET_EXHAUSTED",           "ABANDONED">>,
    <<"SCHEDULED",       "MANDATE_REVOKED",            "ABANDONED">>,
    <<"SCHEDULED",       "OPTED_OUT",                  "ABANDONED">>,
    <<"SCHEDULED",       "STOP_AND_ESCALATE",          "ESCALATING">>,
    <<"EXECUTING",       "ATTEMPT_FAILED_BUDGET_LEFT", "SCHEDULED">>,
    <<"EXECUTING",       "ATTEMPT_SUCCEEDED",          "RECOVERED">>,
    <<"EXECUTING",       "BUDGET_EXHAUSTED",           "ABANDONED">>,
    <<"EXECUTING",       "MANDATE_REVOKED",            "ABANDONED">>,
    <<"EXECUTING",       "OPTED_OUT",                  "ABANDONED">>,
    <<"ESCALATING",      "ESCALATED",                  "AWAITING_MANUAL">>,
    <<"AWAITING_MANUAL", "MANUAL_SUCCEEDED",           "RECOVERED">>,
    <<"AWAITING_MANUAL", "MANUAL_ABANDONED",           "ABANDONED">>,
    <<"AWAITING_MANUAL", "OPTED_OUT",                  "ABANDONED">> }

LegalEvents(s) == {e \in Event : \E t \in CaseState : <<s, e, t>> \in Transitions}

\* The next state; only used on a legal pair (the code raises otherwise).
Transition(s, e) == CHOOSE t \in CaseState : <<s, e, t>> \in Transitions

==============================================================================
