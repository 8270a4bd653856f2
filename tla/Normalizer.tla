------------------------------ MODULE Normalizer ------------------------------
(***************************************************************************)
(* The decline normaliser, backend/app/ai/normalizer.py: a bank's remark   *)
(* is looked up in the taxonomy, then matched with at most two typos, then *)
(* given to the model, else UNKNOWN; the answer is cached for the life of  *)
(* the process.  The events endpoint runs a handler to its end before it   *)
(* takes the next request, so a call is one step; a restart, or another    *)
(* instance of the API, starts with an empty cache.                        *)
(*                                                                         *)
(* A remark is a sequence of characters.  The issuer and the rail, which   *)
(* only the prompt and the cache key use, are one value, the context.      *)
(***************************************************************************)
EXTENDS LlmClient, Integers, Sequences, FiniteSets

CONSTANTS
  Char, Space, UpperOf,  \* the alphabet; UpperOf maps a character to its capital
  Causes,                \* the enumeration Cause
  Taxonomy,              \* in file order: <<cause, templates, in capitals>>
  Payloads,              \* the well-typed JSON objects the model may return
  Remarks, Contexts,     \* bound: what callers ask about
  MaxRemarks,            \* bound: remarks ever asked about
  MaxLives               \* bound: processes that serve one after the other

ASSUME TaxonomyAssumption ==
  /\ Space \in Char /\ UpperOf \in [Char -> Char]
  /\ "UNKNOWN" \in Causes /\ "none" \notin Causes
  /\ Taxonomy \in Seq(Causes \X SUBSET Seq(Char))
  /\ Remarks \subseteq Seq(Char)
  /\ \A y \in Payloads : y.confidence \in Int /\ y.span \in Seq(Char)
  /\ MaxLives \in Nat

VARIABLES
  cache,   \* _cache: results by key
  life,    \* the number of the process that serves now
  given    \* every <<key, result, life>>: the result returned, in which life

normalizerVars == <<cache, life, given>>

Keys == [raw : Remarks, context : Contexts]
FuzzyMaxDistance == 2
ConfidenceThreshold == 80  \* percent

Result(cause, confidence, span, source) ==
  [cause |-> cause, confidence |-> confidence, span |-> span, source |-> source]

UnknownResult == Result("UNKNOWN", 0, <<>>, "unknown")

\* raw_reason.strip().upper()
Normalized(raw) ==
  LET solid == {i \in DOMAIN raw : raw[i] # Space}
      first == CHOOSE i \in solid : \A j \in solid : i <= j
      last  == CHOOSE i \in solid : \A j \in solid : i >= j
  IN  IF solid = {} THEN <<>>
      ELSE [i \in 1 .. last - first + 1 |-> UpperOf[raw[first + i - 1]]]

Least(S) == CHOOSE x \in S : \A y \in S : x <= y

\* Seeded fault: no substitution, only insertions and deletions.
IndelRow(a, b, i, prev) ==
  LET curr[j \in 0 .. Len(b)] ==
        IF j = 0 THEN i
        ELSE Least({prev[j] + 1, curr[j - 1] + 1}
                   \cup {prev[j - 1] : k \in {k \in {1} : a[i] = b[j]}})
  IN  curr

\* The row of a's character i, from the row above it: in place j the distance
\* of the first i and j characters.
NextRow(a, b, i, prev) ==
  LET curr[j \in 0 .. Len(b)] ==
        IF j = 0 THEN i
        ELSE Least({prev[j] + 1, curr[j - 1] + 1,
                    prev[j - 1] + IF a[i] = b[j] THEN 0 ELSE 1})
  IN  curr

\* _levenshtein
Levenshtein(a, b) ==
  LET row[i \in 0 .. Len(a)] ==
        IF i = 0 THEN [j \in 0 .. Len(b) |-> j] ELSE NextRow(a, b, i, row[i - 1])
  IN  row[Len(a)][Len(b)]

\* The cause of the first taxonomy entry that matches, in file order.
FirstCause(matches) ==
  IF matches = {} THEN "none" ELSE Taxonomy[Least(matches)][1]

DictionaryLookup(text) ==
  FirstCause({i \in DOMAIN Taxonomy : text \in Taxonomy[i][2]})

\* The first entry with a template near enough, not the nearest template.
FuzzyLookup(text) ==
  FirstCause({i \in DOMAIN Taxonomy : \E t \in Taxonomy[i][2] :
                Levenshtein(text, t) <= FuzzyMaxDistance})

\* By remark: the cause of its normalised text and where it was found.
Match == [raw \in Remarks |->
  LET text == Normalized(raw)
  IN  IF DictionaryLookup(text) # "none" THEN Result(DictionaryLookup(text), 100, raw, "dictionary")
      ELSE IF FuzzyLookup(text) # "none" THEN Result(FuzzyLookup(text), 90, raw, "fuzzy")
      ELSE UnknownResult]

\* Python's `in`; the empty string is in every string.
Occurs(span, raw) ==
  \E i \in 0 .. Len(raw) - Len(span) :
    \A j \in DOMAIN span : raw[i + j] = span[j]

\* Seeded fault: the hallucination check is missing.
AcceptsAnySpan(raw, y) ==
  y.cause \in Causes /\ y.confidence \in ConfidenceThreshold .. 100

\* _parse_and_validate, of a text that parsed; any other text is rejected.
Accepts(raw, y) ==
  /\ y.cause \in Causes
  /\ Occurs(y.span, raw)
  /\ y.confidence \in ConfidenceThreshold .. 100

\* _call_llm, and UNKNOWN in place of None.  Texts that do not parse are left
\* out: they end where an unavailable model does.
LlmResults(raw) ==
  {IF y # Unavailable /\ Accepts(raw, y)
   THEN Result(y.cause, y.confidence, y.span, "llm") ELSE UnknownResult :
     y \in Completions(Payloads)}

\* _normalize_uncached: the results it may return.
Uncached(raw) ==
  IF Match[raw] = UnknownResult THEN LlmResults(raw) ELSE {Match[raw]}

NormalizerInit ==
  /\ cache = <<>>
  /\ life = 1
  /\ given = {}

\* Seeded fault: the key is the issuer and the rail only.
KeyWithoutRemark(k) == [context |-> k.context]

\* input_hash: distinct inputs have distinct keys.
CacheKey(k) == k

\* Seeded fault: an UNKNOWN is not kept.
StoreKnown(key, r) ==
  cache' = [x \in DOMAIN cache \cup ({key} \ {x \in {key} : r = UnknownResult}) |->
              IF x = key THEN r ELSE cache[x]]

Store(key, r) ==
  cache' = [x \in DOMAIN cache \cup {key} |-> IF x = key THEN r ELSE cache[x]]

Give(k, r) == given' = given \cup {<<k, r, life>>} /\ UNCHANGED life

\* normalize
CacheHit(k) ==
  /\ CacheKey(k) \in DOMAIN cache
  /\ Give(k, cache[CacheKey(k)])
  /\ UNCHANGED cache

CacheMiss(k) ==
  /\ CacheKey(k) \notin DOMAIN cache
  /\ \E r \in Uncached(k.raw) : Store(CacheKey(k), r) /\ Give(k, r)

Restart ==
  /\ life < MaxLives
  /\ life' = life + 1
  /\ cache' = <<>>
  /\ UNCHANGED given

WithinBound(k) ==
  LET asked == {g[1] : g \in given}
  IN  k \in asked \/ Cardinality(asked) < MaxRemarks

NormalizerNext ==
  \/ \E k \in Keys : WithinBound(k) /\ (CacheHit(k) \/ CacheMiss(k))
  \/ Restart

==============================================================================
