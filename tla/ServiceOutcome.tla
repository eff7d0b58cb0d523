---------------------------- MODULE ServiceOutcome ----------------------------
(***************************************************************************)
(* How one request of POST /v1/answer ends: the exceptions that reach the  *)
(* handler in service/app.py, told apart by class and by the words of      *)
(* their message the handler looks for, and the HTTP status each one gets. *)
(***************************************************************************)

\* The kinds of result a request can end with.  "answered" is the only success;
\* "dropped" is a connection that died with its process.
Kinds ==
  { "answered", "overloaded", "budget", "deadline",
    "provider_timeout", "provider_error", "wrapped_timeout", "wrapped_error",
    "corrupt_cache", "long_query", "unhandled", "dropped" }

\* The kinds raised because the model endpoint did not answer in time.  A
\* "wrapped" failure is the provider's error re-raised by the adaptive policy as
\* a RuntimeError that quotes the provider's message.
UpstreamTimeouts == {"provider_timeout", "wrapped_timeout"}

ExceptionClass(kind) ==
  CASE kind = "overloaded"                              -> "QueueOverloaded"
    [] kind = "budget"                                  -> "BudgetExceeded"
    [] kind = "deadline"                                -> "TimeoutError"
    [] kind \in {"provider_timeout", "provider_error"}  -> "LLMProviderError"
    [] kind \in {"wrapped_timeout", "wrapped_error",
                 "corrupt_cache"}                       -> "RuntimeError"
    [] OTHER                                            -> "Exception"

\* Which of the searched phrases the message contains.  The transport reports
\* "timed out", with a space, and never the one word "timeout".
MessageSays(kind) == IF kind \in UpstreamTimeouts THEN {"timed out"} ELSE {}

\* What each policy lets out of AnswerEngine.answer when a model call fails:
\* the fixed policy the provider's own error, the adaptive policy a wrapper.
ProviderFailures(policy) ==
  {"budget", "unhandled"} \cup
  (IF policy = "adaptive_rewrite" THEN {"wrapped_timeout", "wrapped_error"}
                                  ELSE {"provider_timeout", "provider_error"})

\* The except clauses of the handler, in their order.
StatusOf(kind) ==
  LET class == ExceptionClass(kind) IN
  IF kind = "answered" THEN 200
  ELSE IF class \in {"QueueOverloaded", "BudgetExceeded"} THEN 429
  ELSE IF class = "TimeoutError" THEN 504
  ELSE IF class = "LLMProviderError"
    THEN IF MessageSays(kind) \cap {"timed out", "timeout"} # {} THEN 504 ELSE 503
  ELSE IF class = "RuntimeError"
    THEN IF "timeout" \in MessageSays(kind) THEN 504 ELSE 503
  ELSE 500
===============================================================================
