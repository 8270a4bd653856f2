------------------------------- MODULE LlmClient -------------------------------
(***************************************************************************)
(* backend/app/ai/client.py, the one place the language model is called.   *)
(* The model itself is external: whatever text it is assumed able to       *)
(* return, a call may return it, or fail after its retries.                *)
(***************************************************************************)

CONSTANT ApiKeySet  \* settings.anthropic_api_key is not empty

ASSUME ClientAssumption == ApiKeySet \in BOOLEAN

\* What complete() comes back with when it raises LlmUnavailable.
Unavailable == [unavailable |-> TRUE]

\* complete: a text, or LlmUnavailable on any failure at all; without a key
\* there is no client.
Completions(texts) == {Unavailable} \cup IF ApiKeySet THEN texts ELSE {}

==============================================================================
