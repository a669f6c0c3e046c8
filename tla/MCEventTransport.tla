--------------------------- MODULE MCEventTransport ---------------------------
(* Small instances of EventTransport for TLC. *)
EXTENDS EventTransport

CONSTANTS receiver

Http(retries, open) ==
  [mode |-> "http", endpoint |-> receiver, retryCount |-> retries, failOpen |-> open]

\* Strict and fail-open with one retry, strict without retries, in-process
\* memory, and http without an endpoint.
SomeSettings ==
  {Http(1, TRUE), Http(1, FALSE), Http(0, FALSE),
   [Http(0, TRUE) EXCEPT !.mode = "memory"], [Http(0, TRUE) EXCEPT !.endpoint = Nil]}
=============================================================================
