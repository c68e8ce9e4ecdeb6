------------------------------ MODULE Providers ------------------------------
(***************************************************************************)
(* What one HTTP exchange with a model provider becomes for its caller     *)
(* (providers/openai_compatible.py, providers/errors.py).                  *)
(***************************************************************************)

\* OpenAICompatibleProvider.generate: urlopen wraps a failure to connect,
\* time-out included, in URLError; a time-out while reading is raised bare;
\* a body without choices[0].message.content is no provider error.
Generate ==
    [answer |-> "text",
     status429 |-> "rate_limited",
     status5xx |-> "server_error",
     status4xx |-> "rejected",
     refused |-> "network",
     connect_timeout |-> "network",
     reset |-> "network",
     read_timeout |-> "timeout",
     bad_body |-> "malformed"]

\* ProviderTimeoutError, ProviderNetworkError and ProviderHTTPError.
Transient == {"rate_limited", "server_error", "rejected", "network", "timeout"}
Errors == Transient \cup {"malformed"}

=============================================================================
