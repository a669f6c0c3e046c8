---------------------------- MODULE EventTransport ----------------------------
(***************************************************************************)
(* How a service's domain event leaves the process: the publisher that     *)
(* runtime-domain-event-publisher.ts picks from the environment, and the   *)
(* HTTP publisher with its timeout, retries and fail-open policy           *)
(* (http-domain-event-publisher.ts).  The network may lose, delay or       *)
(* answer a request after the publisher has given it up.                   *)
(***************************************************************************)
EXTENDS Integers

CONSTANTS
  Endpoints,    \* receivers an environment can name
  Calls,        \* calls of publish, each with its own event
  Settings,     \* environments the process can be given
  MaxSettings,  \* bound on the changes of the environment and the resets
  Nil           \* no publisher cached, no answer yet

\* endpoint: the URL and token, Nil without FLOWHR_EVENT_HTTP_URL.
Setting ==
  [mode : {"noop", "memory", "http"}, endpoint : Endpoints \cup {Nil},
   retryCount : Nat, failOpen : BOOLEAN]

ASSUME TransportAssumption ==
  /\ Settings \subseteq Setting
  /\ Nil \notin Settings \cup Endpoints
  /\ MaxSettings \in Nat

VARIABLES
  env,       \* the environment variables now
  changes,   \* changes and resets so far, at most MaxSettings
  cached,    \* the options of httpDomainEventPublisher, or Nil
  memory,    \* the events the in-memory publisher holds
  call,      \* the local state of each call of publish
  wire,      \* <<call, attempt>> sent and not yet at the receiver
  answers,   \* the answers on the way back: [of, ok]
  received   \* per call, how many copies the receiver has accepted

network == <<wire, answers, received>>
vars == <<env, changes, cached, memory, call, network>>

\* options: those of the publisher the call runs on, Nil if it is none of HTTP.
\* result: how publish ended; all but "thrown" return normally to the caller.
Call ==
  [at : {"new", "waiting", "delay", "done"}, attempt : Nat,
   options : Settings \cup {Nil},
   result : {"none", "kept", "delivered", "gaveUp", "thrown"}]

NewCall == [at |-> "new", attempt |-> 0, options |-> Nil, result |-> "none"]

StaleKeyMutant(a, b) == a.endpoint = b.endpoint /\ a.retryCount = b.retryCount

\* The cache key joins all the options with a character no URL or token has.
SameOptions(a, b) == a = b

-----------------------------------------------------------------------------
\* Tests and operators change the environment of a running process.
Configure ==
  /\ changes < MaxSettings
  /\ \E s \in Settings \ {env} : env' = s
  /\ changes' = changes + 1
  /\ UNCHANGED <<cached, memory, call, network>>

\* resetRuntimeMemoryDomainEvents, which the tests call between cases.
Reset ==
  /\ changes < MaxSettings
  /\ changes' = changes + 1
  /\ memory' = {}
  /\ cached' = Nil
  /\ UNCHANGED <<env, call, network>>

Move(c, f) == call' = [call EXCEPT ![c] = f]

End(c, result) ==
  Move(c, [call[c] EXCEPT !.at = "done", !.result = result])

\* The modes that send nothing: noop, memory, and http without an endpoint.
PublishLocally(c) ==
  /\ call[c].at = "new"
  /\ env.mode # "http" \/ env.endpoint = Nil
  /\ memory' = IF env.mode = "memory" THEN memory \cup {c} ELSE memory
  /\ End(c, "kept")
  /\ UNCHANGED <<env, changes, cached, network>>

\* getHttpDomainEventPublisher: the cached publisher if it has the options of
\* the environment, a new one otherwise; then the first attempt.
PublishOverHttp(c) ==
  LET hit == cached # Nil /\ SameOptions(cached, env)
      options == IF hit THEN cached ELSE env
  IN  /\ call[c].at = "new"
      /\ env.mode = "http" /\ env.endpoint # Nil
      /\ cached' = options
      /\ Move(c, [NewCall EXCEPT !.at = "waiting", !.options = options])
      /\ wire' = wire \cup {<<c, 0>>}
      /\ UNCHANGED <<env, changes, memory, answers, received>>

ExtraAttemptMutant(f) == f.attempt > f.options.retryCount

LastAttempt(f) == f.attempt = f.options.retryCount

\* fail-open logs what it could not deliver, strict mode throws.
GivenUp(options) == IF options.failOpen THEN "gaveUp" ELSE "thrown"

\* The catch block of publish, after attempt f.attempt.
AttemptFailed(c) ==
  IF LastAttempt(call[c])
  THEN End(c, GivenUp(call[c].options))
  ELSE Move(c, [call[c] EXCEPT !.at = "delay"])

TrustingMutant(a) == TRUE

\* A status of 2xx.
Accepted(a) == a.ok

\* The answer to the attempt that is being waited for.
Receive(c) ==
  /\ call[c].at = "waiting"
  /\ \E a \in answers :
       /\ a.of = <<c, call[c].attempt>>
       /\ answers' = answers \ {a}
       /\ IF Accepted(a) THEN End(c, "delivered") ELSE AttemptFailed(c)
  /\ UNCHANGED <<env, changes, cached, memory, wire, received>>

\* fetch rejects: no connection, or the connection breaks before or after the
\* receiver got the request.
ConnectionFails(c) ==
  /\ call[c].at = "waiting"
  /\ wire' \in {wire, wire \ {<<c, call[c].attempt>>}}
  /\ AttemptFailed(c)
  /\ UNCHANGED <<env, changes, cached, memory, answers, received>>

UntimedMutant(c) ==
  /\ call[c].at = "waiting"
  /\ <<c, call[c].attempt>> \in wire
  /\ AttemptFailed(c)
  /\ UNCHANGED <<env, changes, cached, memory, network>>

\* The abort controller's timer; what was sent stays sent.
Timeout(c) ==
  /\ call[c].at = "waiting"
  /\ AttemptFailed(c)
  /\ UNCHANGED <<env, changes, cached, memory, network>>

Retry(c) ==
  LET n == call[c].attempt + 1
  IN  /\ call[c].at = "delay"
      /\ Move(c, [call[c] EXCEPT !.at = "waiting", !.attempt = n])
      /\ wire' = wire \cup {<<c, n>>}
      /\ UNCHANGED <<env, changes, cached, memory, answers, received>>

-----------------------------------------------------------------------------
(* The network and the receiver, which are not part of the repository. *)

Arrive(m) ==
  /\ m \in wire
  /\ wire' = wire \ {m}
  /\ \E ok \in BOOLEAN :
       /\ received' = IF ok THEN [received EXCEPT ![m[1]] = @ + 1] ELSE received
       /\ answers' = answers \cup {[of |-> m, ok |-> ok]}
  /\ UNCHANGED <<env, changes, cached, memory, call>>

Lose ==
  /\ \/ \E m \in wire : wire' = wire \ {m} /\ UNCHANGED answers
     \/ \E a \in answers : answers' = answers \ {a} /\ UNCHANGED wire
  /\ UNCHANGED <<env, changes, cached, memory, call, received>>

-----------------------------------------------------------------------------
Step(c) ==
  PublishLocally(c) \/ PublishOverHttp(c) \/ Receive(c) \/ ConnectionFails(c) \/ Retry(c)

Init ==
  /\ env \in Settings
  /\ changes = 0
  /\ cached = Nil
  /\ memory = {}
  /\ call = [c \in Calls |-> NewCall]
  /\ wire = {}
  /\ answers = {}
  /\ received = [c \in Calls |-> 0]

Next ==
  \/ Configure \/ Reset \/ Lose \/ \E m \in wire : Arrive(m)
  \/ \E c \in Calls : Step(c) \/ Timeout(c)

Spec == Init /\ [][Next]_vars

\* Timers fire; nothing is assumed of the network and the receiver.
FairSpec ==
  Spec /\ \A c \in Calls :
    WF_vars(Timeout(c)) /\ WF_vars(Retry(c))

-----------------------------------------------------------------------------
TypeOK ==
  /\ env \in Settings
  /\ changes \in 0 .. MaxSettings
  /\ cached \in Settings \cup {Nil}
  /\ memory \subseteq Calls
  /\ call \in [Calls -> Call]
  /\ \A c \in Calls :
       IF call[c].options = Nil THEN call[c].attempt = 0
       ELSE call[c].attempt <= call[c].options.retryCount
  /\ wire \subseteq Calls \X Nat
  /\ answers \subseteq [of : Calls \X Nat, ok : BOOLEAN]
  /\ received \in [Calls -> Nat]

\* The receiver gets at most one copy more than the retries configured, counting
\* those that arrive after their attempt was aborted, and never an event that
\* was published locally.
CopiesBounded ==
  \A c \in Calls :
    received[c] <=
      IF call[c].options = Nil THEN 0 ELSE call[c].options.retryCount + 1

\* "fail-open=true: delivery failure logs error and does not break business API
\* flow; fail-open=false: delivery failure throws error and blocks API
\* completion" (src/docs/event-transport.md): a publish never counts as delivered
\* when the receiver has no copy, although late answers to earlier attempts
\* arrive, and a failure shows as configured and only after the last attempt.
FailurePolicy ==
  \A c \in Calls :
    LET f == call[c]
        failure == IF f.options.failOpen THEN "gaveUp" ELSE "thrown"
    IN  f.at = "done" /\ f.options # Nil =>
          \/ f.result = "delivered" /\ received[c] > 0
          \/ f.result = failure /\ f.attempt = f.options.retryCount

\* A publish goes out under the environment of the moment it was called, however
\* often that changed since a publisher was cached, and keeps it over retries.
FreshOptions ==
  [][\A c \in Calls :
       /\ call[c].at = "new" /\ call'[c].at = "waiting" => call'[c].options = env
       /\ call[c].at # "new" => call'[c].options = call[c].options]_vars

\* A publish ends, also against a receiver that never answers.
EveryCallEnds == \A c \in Calls : call[c].at = "waiting" ~> call[c].at = "done"
=============================================================================
