--------------------------- MODULE MCInferenceQueue ---------------------------
(***************************************************************************)
(* Instances of InferenceQueue for TLC: which request asks for which key.  *)
(***************************************************************************)
EXTENDS InferenceQueue, TLC, Functions

CONSTANTS r1, r2, r3, k1, k2

\* Two requests that coalesce and one of another key and policy.
TwoAndOne == r1 :> k1 @@ r2 :> k1 @@ r3 :> k2
BothPolicies == k1 :> "adaptive_rewrite" @@ k2 :> "fixed_bm25"

\* Every request asks the same question.
SameQuestion == r1 :> k1 @@ r2 :> k1 @@ r3 :> k1
OnePolicy == k1 :> "adaptive_rewrite"

\* What the counter of service/app.py:98 is described as: the provider's cost.  The
\* answer of one paid inference is charged once, however many requests shared it.
CostChargedOnce == metered <= FoldFunctionOnSet(LAMBDA x, y : x + y, 0, paid, Rows)
===============================================================================
