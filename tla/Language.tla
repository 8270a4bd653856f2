------------------------------- MODULE Language -------------------------------
(***************************************************************************)
(* The two uses of the language model: the normaliser in the API process   *)
(* and the notices of the worker process.  They share the client's code    *)
(* and no state, so nothing is lost by letting notices come first.         *)
(***************************************************************************)
EXTENDS Normalizer, Notices

vars == <<normalizerVars, notice>>

Init == NormalizerInit /\ NoticeInit

Next ==
  \/ given = {} /\ life = 1 /\ PersistNotice /\ UNCHANGED normalizerVars
  \/ NormalizerNext /\ notice' = NoNotice

Spec == Init /\ [][Next]_vars

------------------------------------------------------------------------------
(* Reference definitions. *)

\* Every string one insertion, deletion or substitution away from s.
OneEdit(s) ==
  {[i \in 1 .. Len(s) + 1 |-> IF i < k THEN s[i] ELSE IF i = k THEN c ELSE s[i - 1]] :
     k \in 1 .. Len(s) + 1, c \in Char}
  \cup {[i \in 1 .. Len(s) - 1 |-> IF i < k THEN s[i] ELSE s[i + 1]] : k \in DOMAIN s}
  \cup {[s EXCEPT ![k] = c] : k \in DOMAIN s, c \in Char}

TwoEdits(s) == {s} \cup OneEdit(s) \cup UNION {OneEdit(t) : t \in OneEdit(s)}

\* By cause: its templates, and what lies within two typos of one of them.
Known == UNION {Taxonomy[i][2] : i \in DOMAIN Taxonomy}
Mistyped == UNION {TwoEdits(t) : t \in Known}
TemplatesOf(cause) == UNION {Taxonomy[i][2] : i \in {i \in DOMAIN Taxonomy :
                                                      Taxonomy[i][1] = cause}}
MistypedOf == [c \in Causes |-> UNION {TwoEdits(t) : t \in TemplatesOf(c)}]

\* The number tokens a text may honestly contain: those of the facts.
FactNumbers(v) == UNION {v[f].numbers : f \in Fields}

------------------------------------------------------------------------------
(* Properties *)

LanguageTypeOK ==
  /\ DOMAIN cache \subseteq Keys
  /\ \A k \in DOMAIN cache : cache[k].cause \in Causes
  /\ life \in Nat
  /\ \A g \in given : g[1] \in Keys /\ g[3] \in 1 .. life
  /\ notice = NoNotice \/ notice.inputs \in NoticeInputs

\* The taxonomy is consulted first and tolerates exactly two typos: whatever a
\* caller is told, a remark that is a template is given that template's cause,
\* one within two edits of a template the cause of such a template, and only a
\* remark farther than that from all of them is left to the model.
TypoToleranceExact ==
  \A g \in given :
    LET text == Normalized(g[1].raw)
        r == g[2]
    IN  CASE text \in Known -> r.source = "dictionary" /\ text \in TemplatesOf(r.cause)
          [] text \in Mistyped \ Known -> r.source = "fuzzy" /\ text \in MistypedOf[r.cause]
          [] OTHER -> r.source \in {"llm", "unknown"}

\* "The worst a successful injection can do is one misclassification": what the
\* model says reaches a caller only as a cause of the enumeration, held with
\* enough confidence, on evidence from the caller's own remark.
LlmAnswersBounded ==
  \A g \in given :
    g[2].source = "llm" =>
      /\ g[2].cause \in Causes
      /\ g[2].confidence \in ConfidenceThreshold .. 100
      /\ \E i, j \in 0 .. Len(g[1].raw) : SubSeq(g[1].raw, i + 1, j) = g[2].span

\* A decline, however it is spelled, is read in two ways only by the model, and
\* then not for the same request in one life of the process: an answer of the
\* model stands until a restart, UNKNOWN for want of one included.
ReadTwoWaysOnlyByModel ==
  \A g, h \in given :
    Normalized(g[1].raw) = Normalized(h[1].raw) /\ g[2].cause # h[2].cause =>
      /\ {g[2].source, h[2].source} \subseteq {"llm", "unknown"}
      /\ g[1] # h[1] \/ g[3] # h[3]

\* "An unvalidated LLM output never reaches a payer": a text by the model states
\* the facts, tells how to opt out, is clean and short, and no number in it is
\* made up.
LlmTextCompliant ==
  notice # NoNotice /\ notice.generated_by = "llm" =>
    /\ notice.body.states = Fields
    /\ notice.body.numbers \subseteq FactNumbers(notice.inputs)
    /\ notice.body.optOut /\ ~notice.body.prohibited
    /\ notice.body.length <= MaxLength

\* A notice is put on record against the validator's verdict only when its own
\* facts rule a valid template out: a fact that is empty, contains prohibited
\* words or, in the merchant's name or the reason, a number that is in no other
\* fact; or facts too long for the channel.
InvalidOnlyFromFacts ==
  notice # NoNotice /\ notice.errors # {} =>
    LET v == notice.inputs
    IN  \/ \E f \in Fields : v[f].prohibited \/ v[f].length = 0
        \/ \E f \in {"merchant_name", "reason"} :
             ~(v[f].numbers \subseteq
                 UNION {v[g].numbers : g \in Fields \ {"merchant_name", "reason"}})
        \/ StaticTemplate(v).length > MaxLength

==============================================================================
