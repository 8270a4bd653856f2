----------------------------- MODULE MCTransactions -----------------------------
(* A small instance of Transactions: a mandate with two cycles, plans of two
   steps. *)
EXTENDS Transactions

CONSTANTS w, a1, a2, c1, c2

\* A first attempt is answered, the next cycle falls due, the bank revokes the
\* mandate and the payer opts out.
MCRequests == {<<"outcome", c1>>, <<"due", c2>>, <<"revoked">>, <<"opted_out">>}
\* The processes of the API are alike.
MCSymmetry == Permutations({a1, a2})

\* The row of a toggled kill switch, and one by somebody else.
Toggled == [actor |-> <<"operator:", "ann">>, cycle_id |-> {},
            action |-> <<"kill_switch_toggled">>, detail |-> <<"active">>, at |-> <<"now">>]
BySystem == [Toggled EXCEPT !.actor = <<"system">>]

MCContents == {Toggled, BySystem}
MCWritten == [i \in 1 .. MaxId |-> Toggled]

==============================================================================
