-------------------------------- MODULE Notices --------------------------------
(***************************************************************************)
(* Notice texts, backend/app/ai/notice.py and validator.py, as the worker  *)
(* uses them: the model drafts, the validator decides, one repair, then a  *)
(* static template.  A text is what the validator sees of it: which of the *)
(* required facts it states, its number tokens, whether it tells how to    *)
(* opt out, whether it contains prohibited content, and its length.        *)
(***************************************************************************)
EXTENDS LlmClient, Integers, FiniteSets, FiniteSetsExt

CONSTANTS
  Numbers,         \* number tokens
  NoticeInputs,    \* bound: the facts notices are made from, see Fact
  Shapes,          \* bound: what a draft may leave out, add or do wrong
  TemplateWords,   \* length of the template's own words
  MaxLength        \* MAX_LENGTH_BY_CHANNEL of the channel

\* REQUIRED_FIELD_KEYS
Fields == {"merchant_name", "amount", "debit_date", "debit_time",
           "mandate_ref", "reason"}

\* The value of a field: its number tokens, whether it contains prohibited
\* words, and its length (0: the empty string).
Fact == [numbers : SUBSET Numbers, prohibited : BOOLEAN, length : Nat]

Body == [states : SUBSET Fields, numbers : SUBSET Numbers, optOut : BOOLEAN,
         prohibited : BOOLEAN, length : Nat]

ASSUME NoticeAssumption ==
  /\ NoticeInputs \subseteq [Fields -> Fact]
  /\ TemplateWords \in Nat /\ MaxLength \in Nat
  /\ \A s \in Shapes : /\ s.omits \subseteq Fields
                       /\ s.invents \subseteq Numbers
                       /\ s.optOut \in BOOLEAN /\ s.prohibited \in BOOLEAN
                       /\ s.length \in Nat

VARIABLE notice  \* the notification row last inserted, with its inputs

NoNotice == [body |-> "none"]

NumbersOf(v, fields) == UNION {v[f].numbers : f \in fields}

\* A draft that follows shape s: stating a fact brings its numbers along.
Draft(v, s) ==
  LET stated == Fields \ s.omits
  IN  [states     |-> stated,
       numbers    |-> NumbersOf(v, stated) \cup s.invents,
       optOut     |-> s.optOut,
       prohibited |-> s.prohibited \/ \E f \in stated : v[f].prohibited,
       length     |-> s.length]

\* _static_template: every fact, and "Reply STOP to opt out."
StaticTemplate(v) ==
  [states     |-> Fields,
   numbers    |-> NumbersOf(v, Fields),
   optOut     |-> TRUE,
   prohibited |-> \E f \in Fields : v[f].prohibited,
   length     |-> TemplateWords + MapThenSumSet(LAMBDA f : v[f].length, Fields)]

\* Seeded fault: the debit time is forgotten.
WhitelistWithoutTime(v) == NumbersOf(v, {"amount", "debit_date", "mandate_ref"})

\* _whitelist_for: the numbers of four of the six facts.
Whitelist(v) == NumbersOf(v, {"amount", "debit_date", "debit_time", "mandate_ref"})

\* validate_notice: the kinds of error found.
Errors(v, b) ==
  {e \in {"missing", "opt-out", "number", "prohibited", "length"} :
     CASE e = "missing"    -> \E f \in Fields : v[f].length = 0 \/ f \notin b.states
       [] e = "opt-out"    -> ~b.optOut
       [] e = "number"     -> ~(b.numbers \subseteq Whitelist(v))
       [] e = "prohibited" -> b.prohibited
       [] e = "length"     -> b.length > MaxLength}

NoticeResult(v, body, by, repaired) ==
  [inputs |-> v, body |-> body, generated_by |-> by, errors |-> Errors(v, body),
   repaired |-> repaired]

Usable(v, completion) == completion # Unavailable /\ Errors(v, completion) = {}

\* Seeded fault: the repaired draft is not validated again.
TrustRepair(v, first, second) ==
  CASE Usable(v, first) -> NoticeResult(v, first, "llm", FALSE)
    [] ~Usable(v, first) /\ first # Unavailable /\ second # Unavailable ->
         NoticeResult(v, second, "llm", TRUE)
    [] OTHER -> NoticeResult(v, StaticTemplate(v), "template", FALSE)

\* generate_notice, given what the model returns to the first prompt and to the
\* repair prompt, which is only sent when there is a draft to repair.
GenerateNotice(v, first, second) ==
  CASE Usable(v, first) -> NoticeResult(v, first, "llm", FALSE)
    [] ~Usable(v, first) /\ first # Unavailable /\ Usable(v, second) ->
         NoticeResult(v, second, "llm", TRUE)
    [] OTHER -> NoticeResult(v, StaticTemplate(v), "template", FALSE)

NoticeInit == notice = NoNotice

\* _process_notify_step of worker.py: the result is inserted whatever its
\* validator_result says.
PersistNotice ==
  \E v \in NoticeInputs :
    LET drafts == Completions({Draft(v, s) : s \in Shapes})
    IN  \E first \in drafts, second \in drafts :
          notice' = GenerateNotice(v, first, second)

==============================================================================
