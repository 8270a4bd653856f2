------------------------------ MODULE MCLanguage ------------------------------
(***************************************************************************)
(* Instances of Language: the short codes of data/taxonomy.yaml that lie   *)
(* near each other, and every remark of up to two characters over the      *)
(* letters they are made of.                                               *)
(***************************************************************************)
EXTENDS Language

MCChar == {" ", "m", "M", "Z", "9"}
MCUpperOf == [c \in Char |-> IF c = "m" THEN "M" ELSE c]
MCCauses == {"LIMIT_EXCEEDED", "MANDATE_REVOKED", "UNKNOWN"}

\* Z9, ZM and 99, and a longer one, so that some remarks are near none.
MCTaxonomy ==
  << <<"LIMIT_EXCEEDED", {<<"Z", "9">>}>>,
     <<"MANDATE_REVOKED", {<<"Z", "M">>, <<"M", "M", "M", "M">>}>>,
     <<"UNKNOWN", {<<"9", "9">>}>> >>

MCRemarks ==
  UNION {[1 .. n -> {"m", "M", "Z", "9"}] : n \in 0 .. 2}
    \cup {<<" ", "Z", "m">>, <<"Z", " ", "9">>, <<"9", "9", "9", "9">>,
          <<"M", "M", "9", "9">>, <<"M", "9", "M", "9", "M">>, <<"Z", "Z", "Z", "Z", "Z">>,
          <<"m", " ", "m", "m", "m">>, <<"M", "M", "M", "M", "Z", "Z", " ">>}

Payload(cause, confidence, span) ==
  [cause |-> cause, confidence |-> confidence, span |-> span]

MCPayloads ==
  {Payload("MANDATE_REVOKED", 80, <<"Z">>), Payload("LIMIT_EXCEEDED", 100, <<"M", "9">>),
   Payload("MANDATE_REVOKED", 79, <<>>), Payload("LIMIT_EXCEEDED", 101, <<>>),
   Payload("SOMETHING_ELSE", 100, <<>>), Payload("UNKNOWN", 95, <<>>)}

\* Facts: the amount 500, a debit on day 15 at 02:00, mandate 7.
Plain(numbers, length) == [numbers |-> numbers, prohibited |-> FALSE, length |-> length]

Facts(merchant, reason, ref) ==
  [merchant_name |-> merchant, amount |-> Plain({500}, 1),
   debit_date |-> Plain({15}, 1), debit_time |-> Plain({2, 0}, 1),
   mandate_ref |-> ref, reason |-> reason]

MCNumbers == {0, 1, 2, 7, 15, 500, 900}

\* A merchant id without and with a digit, one whose digits occur elsewhere; a
\* reason that alarms, one that is empty; a mandate reference too long.
MCNoticeInputs ==
  {Facts(m, r, f) :
     m \in {Plain({}, 1), Plain({1}, 1), Plain({15}, 1)},
     r \in {Plain({}, 1), [Plain({}, 1) EXCEPT !.prohibited = TRUE], Plain({}, 0)},
     f \in {Plain({7}, 1), Plain({7}, 9)}}

MCShapes ==
  [omits : {{}, {"reason"}}, invents : {{}, {900}}, optOut : BOOLEAN,
   prohibited : BOOLEAN, length : {8, 13}]

==============================================================================
